------------------------ MODULE SessionManagerProofs ------------------------
(***************************************************************************)
(* Proofs about SessionManager, for any number of callers and runners.     *)
(***************************************************************************)
EXTENDS MCSessionManager, FiniteSetTheorems, TLAPS

(***************************************************************************)
(* The inductive invariant.  Three facts make the properties inductive:    *)
(* who may still close a runner, or make it active, is unique; what a      *)
(* caller holds for that is neither active nor closed; and the session     *)
(* names drawn so far are those the store knows.                           *)
(***************************************************************************)

\* c will make r active: r has not been installed so far.
Brings(c, r) == run[c] = r /\ pc[c] \in {"start", "restart", "closingOld", "install"}

\* c will close r: c has taken r out of m.active.
Takes(c, r) ==
  \/ run[c] = r /\ pc[c] \in {"stopUpdate", "stopClose"}
  \/ old[c] = r /\ pc[c] = "closingOld"

Holds(c, r) == Brings(c, r) \/ Takes(c, r)

HoldsUnique ==
  \A c, d \in Callers, r \in Runners : Holds(c, r) /\ Holds(d, r) => c = d

HoldsOneWay == \A c \in Callers, r \in Runners : ~ (Brings(c, r) /\ Takes(c, r))

HeldIsOut ==
  \A c \in Callers, r \in Runners :
    Holds(c, r) => active # r /\ closes[r] = 0 /\ proc[r] # "unmade"

\* A runner no request has made is unknown to everyone.
UnmadeUnknown ==
  \A r \in Runners :
    proc[r] = "unmade" => active # r /\ closes[r] = 0 /\ status[r] = "none"

\* The session of a runner that is still to be installed does not exist.
BroughtHasNoSession ==
  \A c \in Callers, r \in Runners : Brings(c, r) => status[r] = "none"

\* The session a caller remembers exists; the one it stops is not current.
RememberedExists ==
  \A c \in Callers, r \in Runners :
    lsid[c] = r => status[r] # "none" /\ (pc[c] = "stopUpdate" => sid # r)

IInv ==
  /\ TypeOK
  /\ ClosedAtMostOnce
  /\ ActiveNotClosed
  /\ CurrentRecordedActive
  /\ HoldsUnique
  /\ HoldsOneWay
  /\ HeldIsOut
  /\ UnmadeUnknown
  /\ BroughtHasNoSession
  /\ RememberedExists

(***************************************************************************)
(* Type correctness.                                                       *)
(***************************************************************************)

\* What a call of Close does to the runners' processes and counters.
LEMMA CloseRunnerType ==
  ASSUME TypeOK, NEW r \in MaybeRunner, CloseRunner(r)
  PROVE  /\ closes' \in [Runners -> 0..2]
         /\ proc' \in [Runners -> Life]
<1>1. closes' \in [Runners -> 0..2]
  <2> DEFINE bumped(x) == IF closes[x] < 2 THEN closes[x] + 1 ELSE closes[x]
  <2>1. ASSUME NEW x \in Runners PROVE closes[x] \in 0..2 /\ bumped(x) \in 0..2
    BY DEF TypeOK
  <2>2. closes' = [closes EXCEPT ![r] = bumped(r)]
    BY DEF CloseRunner
  <2> HIDE DEF bumped
  <2> QED
    BY <2>1, <2>2 DEF TypeOK
<1>2. proc' \in [Runners -> Life]
  BY DEF CloseRunner, TypeOK, Life, Ended
<1> QED
  BY <1>1, <1>2

\* A Start, successful or not, leaves the runners typed.
LEMMA StartType ==
  ASSUME TypeOK, NEW c \in Callers,
         StartSucceeds(run[c]) \/ StartFails(run[c]) \/ StartPanics(c)
  PROVE  /\ closes' = closes
         /\ proc' \in [Runners -> Life]
         /\ ctx' \in [Runners -> Callers \cup {None}]
         /\ panicked' \in BOOLEAN
<1>1. panicked' \in BOOLEAN
  BY Zenon DEF TypeOK, StartSucceeds, StartFails, StartPanics, Panic
<1>2. closes' = closes
  BY DEF StartSucceeds, StartFails, StartPanics
<1>3. proc' \in [Runners -> Life]
  BY DEF TypeOK, StartSucceeds, StartFails, StartPanics, Life, Ended
<1>4. ctx' \in [Runners -> Callers \cup {None}]
  BY DEF TypeOK, StartSucceeds, StartFails, StartPanics, Panic, CancelContext
<1> QED
  BY <1>1, <1>2, <1>3, <1>4

\* Every step of the manager, of its callers and of the runners keeps the
\* variables within their types.
LEMMA TypeStep == TypeOK /\ [Next]_vars => TypeOK'
<1> SUFFICES ASSUME TypeOK, [Next]_vars PROVE TypeOK'
  OBVIOUS
<1> USE ConstantsAssumption DEF TypeOK, MaybeRunner, PCs, Life, Ended, At, GoTo,
        Return, SetStatus, Panic, CancelContext, local, runners
<1>1. ASSUME NEW c \in Callers, Request(c) PROVE TypeOK'
  <2>1. ASSUME NEW r \in Runners, NEW op \in {"start", "restart"},
               NewRunner(c, r, op)
        PROVE  TypeOK'
    BY <2>1 DEF NewRunner
  <2>2. CASE StopTakes(c)
    BY <2>2 DEF StopTakes
  <2> QED BY <1>1, <2>1, <2>2 DEF Request
<1>2. ASSUME NEW c \in Callers, CallerStep(c) PROVE TypeOK'
  <2>1. CASE StartRejected(c)      BY <2>1 DEF StartRejected
  <2>2. CASE StartAccepted(c)      BY <2>2 DEF StartAccepted
  <2>3. CASE RunStart(c)
    <3>1. /\ closes' = closes
          /\ proc' \in [Runners -> Life]
          /\ ctx' \in [Runners -> Callers \cup {None}]
          /\ panicked' \in BOOLEAN
      BY <2>3, StartType DEF RunStart
    <3>2. /\ pc' \in [Callers -> PCs]
          /\ run' \in [Callers -> MaybeRunner]
          /\ old' \in [Callers -> MaybeRunner]
          /\ lsid' \in [Callers -> MaybeRunner]
      BY <2>3 DEF RunStart, StartPanics
    <3> QED BY <2>3, <3>1, <3>2 DEF RunStart
  <2>4. CASE StartFailed(c)        BY <2>4 DEF StartFailed
  <2>5. CASE StartReturn(c)        BY <2>5 DEF StartReturn
  <2>6. CASE RestartAsStart(c)     BY <2>6 DEF RestartAsStart
  <2>7. CASE RestartTakesOld(c)    BY <2>7 DEF RestartTakesOld
  <2>8. CASE RestartClosesOld(c)
    <3>1. closes' \in [Runners -> 0..2] /\ proc' \in [Runners -> Life]
      BY <2>8, CloseRunnerType DEF RestartClosesOld
    <3>2. panicked' \in BOOLEAN
      BY <2>8, Zenon DEF RestartClosesOld
    <3>3. /\ ctx' \in [Runners -> Callers \cup {None}]
          /\ pc' \in [Callers -> PCs]
          /\ run' \in [Callers -> MaybeRunner]
          /\ old' \in [Callers -> MaybeRunner]
          /\ lsid' \in [Callers -> MaybeRunner]
      BY <2>8 DEF RestartClosesOld
    <3> QED BY <2>8, <3>1, <3>2, <3>3 DEF RestartClosesOld
  <2>9. CASE RestartInstall(c)     BY <2>9 DEF RestartInstall
  <2>10. CASE RunRestart(c)
    <3>1. /\ closes' = closes
          /\ proc' \in [Runners -> Life]
          /\ ctx' \in [Runners -> Callers \cup {None}]
          /\ panicked' \in BOOLEAN
      BY <2>10, StartType DEF RunRestart
    <3>2. /\ pc' \in [Callers -> PCs]
          /\ run' \in [Callers -> MaybeRunner]
          /\ old' \in [Callers -> MaybeRunner]
          /\ lsid' \in [Callers -> MaybeRunner]
      BY <2>10 DEF RunRestart, StartPanics
    <3> QED BY <2>10, <3>1, <3>2 DEF RunRestart
  <2>11. CASE RestartFailed(c)     BY <2>11 DEF RestartFailed
  <2>12. CASE StopUpdates(c)       BY <2>12 DEF StopUpdates
  <2>13. CASE StopCloses(c)
    <3>1. closes' \in [Runners -> 0..2] /\ proc' \in [Runners -> Life]
      BY <2>13, CloseRunnerType DEF StopCloses
    <3>2. panicked' \in BOOLEAN
      BY <2>13, Zenon DEF StopCloses
    <3>3. /\ ctx' \in [Runners -> Callers \cup {None}]
          /\ pc' \in [Callers -> PCs]
          /\ run' \in [Callers -> MaybeRunner]
          /\ old' \in [Callers -> MaybeRunner]
          /\ lsid' \in [Callers -> MaybeRunner]
      BY <2>13 DEF StopCloses
    <3> QED BY <2>13, <3>1, <3>2, <3>3 DEF StopCloses
  <2> QED
    BY <1>2, <2>1, <2>2, <2>3, <2>4, <2>5, <2>6, <2>7, <2>8, <2>9, <2>10,
       <2>11, <2>12, <2>13 DEF CallerStep
<1>3. ASSUME NEW c \in Callers, Disconnect(c) PROVE TypeOK'
  BY <1>3 DEF Disconnect
<1>4. ASSUME NEW r \in Runners, Exit(r) PROVE TypeOK'
  BY <1>4 DEF Exit
<1>5. ASSUME NEW r \in Runners, CtxKill(r) PROVE TypeOK'
  BY <1>5 DEF CtxKill
<1>6. ASSUME NEW r \in Runners, ForwardEnds(r) PROVE TypeOK'
  BY <1>6 DEF ForwardEnds
<1>7. CASE UNCHANGED vars
  BY <1>7 DEF vars
<1> QED
  BY <1>1, <1>2, <1>3, <1>4, <1>5, <1>6, <1>7 DEF Next

\* The variables have their types in every reachable state.
THEOREM TypeCorrect == Spec => []TypeOK
<1>1. Init => TypeOK
  <2> SUFFICES ASSUME Init PROVE TypeOK
    OBVIOUS
  <2>1. panicked \in BOOLEAN
    BY Zenon DEF Init
  <2> QED
    BY <2>1 DEF Init, TypeOK, MaybeRunner, PCs, Life, Ended
<1> QED
  BY <1>1, TypeStep, PTL DEF Spec

(***************************************************************************)
(* Safety.                                                                 *)
(***************************************************************************)

\* A step that moves neither a runner nor a session keeps the invariant if
\* it lets no caller hold, or remember, more than before.
LEMMA QuietStep ==
  ASSUME IInv, TypeOK', UNCHANGED <<active, sid, status, closes>>,
         \A r \in Runners : proc'[r] = "unmade" => proc[r] = "unmade",
         \A c \in Callers, r \in Runners :
           /\ Brings(c, r)' => Brings(c, r)
           /\ Takes(c, r)' => Takes(c, r)
           /\ (lsid[c] = r)' => lsid[c] = r
           /\ (pc[c] = "stopUpdate")' => pc[c] = "stopUpdate"
  PROVE  IInv'
<1>1. ClosedAtMostOnce' /\ ActiveNotClosed' /\ CurrentRecordedActive'
  BY DEF IInv, ClosedAtMostOnce, ActiveNotClosed, CurrentRecordedActive
<1>2. HoldsUnique'
  BY DEF IInv, HoldsUnique, Holds
<1>3. HoldsOneWay'
  BY DEF IInv, HoldsOneWay
<1>4. HeldIsOut'
  BY DEF IInv, HeldIsOut, Holds
<1>5. UnmadeUnknown'
  BY DEF IInv, UnmadeUnknown
<1>6. BroughtHasNoSession'
  BY DEF IInv, BroughtHasNoSession
<1>7. RememberedExists'
  BY DEF IInv, RememberedExists
<1> QED
  BY <1>1, <1>2, <1>3, <1>4, <1>5, <1>6, <1>7 DEF IInv

\* A step that closes the runner r that its caller c has taken, and ends
\* c's claim on it, keeps the invariant.
LEMMA CloseStep ==
  ASSUME IInv, TypeOK', NEW c \in Callers, NEW r \in MaybeRunner,
         CloseRunner(r), r \in Runners => Takes(c, r),
         UNCHANGED <<active, sid, status>>,
         \A d \in Callers, x \in Runners :
           /\ Brings(d, x)' => Brings(d, x)
           /\ Takes(d, x)' => Takes(d, x) /\ d # c
           /\ (lsid[d] = x)' => lsid[d] = x
           /\ (pc[d] = "stopUpdate")' => pc[d] = "stopUpdate"
  PROVE  IInv'
<1>1. \A x \in Runners : x # r => closes'[x] = closes[x]
  BY DEF CloseRunner, IInv, TypeOK
<1>2. r \in Runners => closes[r] = 0 /\ closes'[r] = 1 /\ active # r
  BY DEF CloseRunner, IInv, TypeOK, HeldIsOut, Holds
<1>3. \A x \in Runners : proc'[x] = "unmade" => proc[x] = "unmade" /\ x # r
  BY DEF CloseRunner, IInv, TypeOK, HeldIsOut, Holds
<1>4. ClosedAtMostOnce'
  BY <1>1, <1>2 DEF IInv, ClosedAtMostOnce
<1>5. ActiveNotClosed'
  BY <1>1, <1>2, ConstantsAssumption
  DEF IInv, TypeOK, MaybeRunner, ActiveNotClosed
<1>6. CurrentRecordedActive'
  BY DEF IInv, CurrentRecordedActive
<1>7. HoldsUnique'
  BY DEF IInv, HoldsUnique, Holds
<1>8. HoldsOneWay'
  BY DEF IInv, HoldsOneWay
<1>9. HeldIsOut'
  <2> SUFFICES ASSUME NEW d \in Callers, NEW x \in Runners, Holds(d, x)'
               PROVE  (active # x /\ closes[x] = 0 /\ proc[x] # "unmade")'
    BY DEF HeldIsOut
  <2>1. Holds(d, x)
    BY DEF Holds
  <2>2. x # r
    BY <2>1 DEF IInv, HoldsUnique, HoldsOneWay, Holds
  <2> QED
    BY <1>1, <1>3, <2>1, <2>2 DEF IInv, HeldIsOut
<1>10. UnmadeUnknown'
  BY <1>1, <1>3 DEF IInv, UnmadeUnknown
<1>11. BroughtHasNoSession'
  BY DEF IInv, BroughtHasNoSession
<1>12. RememberedExists'
  BY DEF IInv, RememberedExists
<1> QED
  BY <1>4, <1>5, <1>6, <1>7, <1>8, <1>9, <1>10, <1>11, <1>12 DEF IInv

\* Every step keeps the inductive invariant.
LEMMA InvStep == IInv /\ [Next]_vars => IInv'
<1> SUFFICES ASSUME IInv, [Next]_vars PROVE IInv'
  OBVIOUS
<1> TypeOK /\ TypeOK'
  BY TypeStep DEF IInv
<1> USE ConstantsAssumption DEF IInv, ClosedAtMostOnce, ActiveNotClosed,
        CurrentRecordedActive, HoldsUnique, HoldsOneWay, HeldIsOut,
        UnmadeUnknown, BroughtHasNoSession, RememberedExists, Holds, Brings,
        Takes, At, GoTo, Return, SetStatus, Panic, CancelContext, local, runners,
        MaybeRunner, TypeOK
<1>1. ASSUME NEW c \in Callers, Request(c) PROVE IInv'
  <2>1. ASSUME NEW r \in Runners, NEW op \in {"start", "restart"},
               NewRunner(c, r, op)
        PROVE  IInv'
    BY <2>1 DEF NewRunner
  <2>2. CASE StopTakes(c)
    <3>1. CASE active = None
      BY <2>2, <3>1 DEF StopTakes
    <3>2. CASE active # None
      <4>1. ClosedAtMostOnce' /\ ActiveNotClosed' /\ CurrentRecordedActive'
        BY <2>2, <3>2 DEF StopTakes
      <4>2. \A d \in Callers, r \in Runners :
              Holds(d, r)' => Holds(d, r) \/ (d = c /\ r = active)
        BY <2>2, <3>2 DEF StopTakes
      <4>3. HoldsUnique' /\ HeldIsOut'
        BY <2>2, <3>2, <4>2 DEF StopTakes
      <4>4. HoldsOneWay'
        BY <2>2, <3>2 DEF StopTakes
      <4>5. UnmadeUnknown'
        BY <2>2, <3>2 DEF StopTakes
      <4>6. BroughtHasNoSession'
        BY <2>2, <3>2 DEF StopTakes
      <4>7. RememberedExists'
        BY <2>2, <3>2 DEF StopTakes
      <4> QED BY <4>1, <4>3, <4>4, <4>5, <4>6, <4>7
    <3> QED BY <3>1, <3>2
  <2> QED BY <1>1, <2>1, <2>2 DEF Request
<1>2. ASSUME NEW c \in Callers, CallerStep(c) PROVE IInv'
  <2>1. CASE StartRejected(c)
    BY <2>1 DEF StartRejected
  <2>2. CASE StartAccepted(c)
    BY <2>2 DEF StartAccepted
  <2>3. CASE RunStart(c)
    <3>1. /\ UNCHANGED <<active, sid, status, closes>>
          /\ \A r \in Runners : proc'[r] = "unmade" => proc[r] = "unmade"
      BY <2>3 DEF RunStart, StartSucceeds, StartFails, StartPanics
    <3>2. \A d \in Callers, r \in Runners :
            /\ Brings(d, r)' => Brings(d, r)
            /\ Takes(d, r)' => Takes(d, r)
            /\ (lsid[d] = r)' => lsid[d] = r
            /\ (pc[d] = "stopUpdate")' => pc[d] = "stopUpdate"
      BY <2>3 DEF RunStart, StartSucceeds, StartFails, StartPanics
    <3> HIDE DEF IInv, TypeOK, Brings, Takes
    <3> QED BY <3>1, <3>2, QuietStep
  <2>4. CASE StartFailed(c)
    BY <2>4 DEF StartFailed
  <2>5. CASE StartReturn(c)
    BY <2>5 DEF StartReturn
  <2>6. CASE RestartAsStart(c)
    BY <2>6 DEF RestartAsStart
  <2>7. CASE RestartTakesOld(c)
    BY <2>7 DEF RestartTakesOld
  <2>8. CASE RestartClosesOld(c)
    <3>1. /\ CloseRunner(old[c]) /\ old[c] \in MaybeRunner
          /\ old[c] \in Runners => Takes(c, old[c])
          /\ UNCHANGED <<active, sid, status>>
      BY <2>8 DEF RestartClosesOld
    <3>2. ~ ChannelsClosed(old[c])
      BY <2>8 DEF RestartClosesOld, ChannelsClosed
    <3>3. \A d \in Callers, r \in Runners :
            /\ Brings(d, r)' => Brings(d, r)
            /\ Takes(d, r)' => Takes(d, r) /\ d # c
            /\ (lsid[d] = r)' => lsid[d] = r
            /\ (pc[d] = "stopUpdate")' => pc[d] = "stopUpdate"
      BY <2>8, <3>2 DEF RestartClosesOld
    <3> HIDE DEF IInv, TypeOK, Brings, Takes, MaybeRunner
    <3> QED BY <3>1, <3>3, CloseStep
  <2>9. CASE RestartInstall(c)
    <3>1. ClosedAtMostOnce' /\ ActiveNotClosed' /\ CurrentRecordedActive'
      BY <2>9 DEF RestartInstall
    <3>2. \A d \in Callers, r \in Runners : Holds(d, r)' => Holds(d, r) /\ d # c
      BY <2>9 DEF RestartInstall
    <3>3. HoldsUnique'
      BY <2>9, <3>2 DEF RestartInstall
    <3>4. HeldIsOut'
      BY <2>9, <3>2 DEF RestartInstall
    <3>5. HoldsOneWay'
      BY <2>9 DEF RestartInstall
    <3>6. UnmadeUnknown'
      BY <2>9 DEF RestartInstall
    <3>7. BroughtHasNoSession'
      BY <2>9 DEF RestartInstall
    <3>8. RememberedExists'
      BY <2>9 DEF RestartInstall
    <3> QED BY <3>1, <3>3, <3>4, <3>5, <3>6, <3>7, <3>8
  <2>10. CASE RunRestart(c)
    <3>1. /\ UNCHANGED <<active, sid, status, closes>>
          /\ \A r \in Runners : proc'[r] = "unmade" => proc[r] = "unmade"
      BY <2>10 DEF RunRestart, StartSucceeds, StartFails, StartPanics
    <3>2. \A d \in Callers, r \in Runners :
            /\ Brings(d, r)' => Brings(d, r)
            /\ Takes(d, r)' => Takes(d, r)
            /\ (lsid[d] = r)' => lsid[d] = r
            /\ (pc[d] = "stopUpdate")' => pc[d] = "stopUpdate"
      BY <2>10 DEF RunRestart, StartSucceeds, StartFails, StartPanics
    <3> HIDE DEF IInv, TypeOK, Brings, Takes
    <3> QED BY <3>1, <3>2, QuietStep
  <2>11. CASE RestartFailed(c)
    BY <2>11 DEF RestartFailed
  <2>12. CASE StopUpdates(c)
    BY <2>12 DEF StopUpdates
  <2>13. CASE StopCloses(c)
    <3>1. /\ CloseRunner(run[c]) /\ run[c] \in MaybeRunner
          /\ run[c] \in Runners => Takes(c, run[c])
          /\ UNCHANGED <<active, sid, status>>
      BY <2>13 DEF StopCloses
    <3>2. ~ ChannelsClosed(run[c])
      BY <2>13 DEF StopCloses, ChannelsClosed
    <3>3. \A d \in Callers, r \in Runners :
            /\ Brings(d, r)' => Brings(d, r)
            /\ Takes(d, r)' => Takes(d, r) /\ d # c
            /\ (lsid[d] = r)' => lsid[d] = r
            /\ (pc[d] = "stopUpdate")' => pc[d] = "stopUpdate"
      BY <2>13, <3>2 DEF StopCloses
    <3> HIDE DEF IInv, TypeOK, Brings, Takes, MaybeRunner
    <3> QED BY <3>1, <3>3, CloseStep
  <2> QED
    BY <1>2, <2>1, <2>2, <2>3, <2>4, <2>5, <2>6, <2>7, <2>8, <2>9, <2>10,
       <2>11, <2>12, <2>13 DEF CallerStep
<1>3. ASSUME NEW c \in Callers, Disconnect(c) PROVE IInv'
  BY <1>3 DEF Disconnect
<1>4. ASSUME NEW r \in Runners, Exit(r) PROVE IInv'
  BY <1>4 DEF Exit
<1>5. ASSUME NEW r \in Runners, CtxKill(r) PROVE IInv'
  BY <1>5 DEF CtxKill
<1>6. ASSUME NEW r \in Runners, ForwardEnds(r) PROVE IInv'
  BY <1>6 DEF ForwardEnds, Ended
<1>7. CASE UNCHANGED vars
  BY <1>7 DEF vars
<1> QED
  BY <1>1, <1>2, <1>3, <1>4, <1>5, <1>6, <1>7 DEF Next

\* The inductive invariant holds of every reachable state.
LEMMA Invariance == Spec => []IInv
<1>1. Init => IInv
  <2> SUFFICES ASSUME Init PROVE IInv
    OBVIOUS
  <2>1. panicked \in BOOLEAN
    BY Zenon DEF Init
  <2>2. TypeOK
    BY <2>1 DEF Init, TypeOK, MaybeRunner, PCs, Life, Ended
  <2>3. \A c \in Callers, r \in Runners : ~ Holds(c, r) /\ lsid[c] # r
    BY ConstantsAssumption DEF Init, Holds, Brings, Takes
  <2> QED
    BY <2>2, <2>3, ConstantsAssumption
    DEF Init, IInv, ClosedAtMostOnce, ActiveNotClosed, CurrentRecordedActive,
        HoldsUnique, HoldsOneWay, HeldIsOut, UnmadeUnknown,
        BroughtHasNoSession, RememberedExists, Holds
<1> QED
  BY <1>1, InvStep, PTL DEF Spec

\* The manager never closes a runner twice, nor leaves a closed runner where
\* Write, Abort and SendToStdin find it, however its callers interleave.
THEOREM CloseSafety == Spec => [](ClosedAtMostOnce /\ ActiveNotClosed)
<1>1. IInv => ClosedAtMostOnce /\ ActiveNotClosed
  BY DEF IInv
<1> QED
  BY <1>1, Invariance, PTL

\* The store never shows the current session as inactive.
THEOREM StatusSafety == Spec => []CurrentRecordedActive
<1>1. IInv => CurrentRecordedActive
  BY DEF IInv
<1> QED
  BY <1>1, Invariance, PTL

(***************************************************************************)
(* Callers that come one after the other.                                  *)
(***************************************************************************)

Busy(c) == pc[c] # "idle"

Alone == \A c, d \in Callers : Busy(c) /\ Busy(d) => c = d

\* What a caller in the middle of a request, alone, knows of its runner.
BringsMade ==
  \A c \in Callers :
    pc[c] \in {"start", "restart", "closingOld", "install"} =>
      run[c] \in Runners /\ proc[run[c]] = "made"

InstalledIsActive ==
  \A c \in Callers :
    /\ pc[c] \in {"starting", "restarting"} =>
         run[c] \in Runners /\ active = run[c] /\ proc[run[c]] = "made"
    /\ pc[c] \in {"startFailed", "restartFailed"} =>
         run[c] \in Runners /\ active = run[c] /\ proc[run[c]] = "failed"

\* While a runner that was taken out of m.active is being closed, and until
\* another one is installed, no runner is active.
TakenLeavesNone ==
  \A c \in Callers :
    pc[c] \in {"stopUpdate", "stopClose", "closingOld", "install"} => active = None

\* A runner that runs is the active one, or its closer has taken it.
LiveIsKnown ==
  \A r \in Runners :
    proc[r] = "live" => active = r \/ \E c \in Callers : Takes(c, r)

TurnInv ==
  /\ Alone
  /\ BringsMade
  /\ InstalledIsActive
  /\ TakenLeavesNone
  /\ LiveIsKnown
  /\ NeverPanics

IInTurn == ~overlapped => TurnInv

\* Two callers are busy in no reachable state, while requests have not
\* overlapped: a step moves one caller only.
LEMMA AloneStep ==
  ASSUME Alone, NEW c \in Callers, \A d \in Callers : d # c => pc'[d] = pc[d],
         ~ (Cardinality({d \in Callers : pc'[d] # "idle"}) > 1)
  PROVE  Alone'
<1> SUFFICES ASSUME NEW d \in Callers, NEW e \in Callers, Busy(d)', Busy(e)', d # e
             PROVE  FALSE
  BY DEF Alone
<1>1. PICK f \in {d, e} : f # c
  OBVIOUS
<1>2. {g \in Callers : pc'[g] # "idle"} = {c, f}
  <2>1. ASSUME NEW g \in Callers, pc'[g] # "idle" PROVE g \in {c, f}
    BY <1>1, <2>1 DEF Alone, Busy
  <2>2. c \in {d, e}
    BY <1>1, <2>1 DEF Alone, Busy
  <2> QED
    BY <1>1, <2>1, <2>2 DEF Busy
<1>3. Cardinality({c}) = 1 /\ IsFiniteSet({c}) /\ {c} \cup {f} = {c, f}
  BY FS_Singleton
<1>4. Cardinality({c} \cup {f}) = 2
  <2>1. f \notin {c}
    BY <1>1
  <2>2. Cardinality({c} \cup {f}) = Cardinality({c}) + 1
    BY <1>3, <2>1, FS_AddElement
  <2> QED
    BY <1>3, <2>2
<1> QED
  BY <1>2, <1>3, <1>4

\* A step by which no runner becomes live and that leaves m.active and the
\* callers alone keeps what a caller by itself knows.
LEMMA RunnerStep ==
  ASSUME TurnInv, NEW r \in Runners, TypeOK, TypeOK',
         Exit(r) \/ CtxKill(r) \/ ForwardEnds(r)
  PROVE  TurnInv'
<1>1. /\ pc' = pc /\ run' = run /\ old' = old /\ panicked' = panicked
      /\ \A x \in Runners : x # r => proc'[x] = proc[x]
      /\ proc[r] \in Ended \cup {"live"}
      /\ proc'[r] \in Ended \cup {"gone"}
  BY DEF Exit, CtxKill, ForwardEnds, local, TypeOK, Ended
<1>2. active' = active \/ (active = r /\ active' = None)
  BY DEF Exit, CtxKill, ForwardEnds
<1>3. Alone' /\ NeverPanics'
  BY <1>1 DEF TurnInv, Alone, Busy, NeverPanics
<1>4. BringsMade'
  BY <1>1 DEF TurnInv, BringsMade, Ended
<1>5. InstalledIsActive'
  BY <1>1, <1>2 DEF TurnInv, InstalledIsActive, Ended
<1>6. TakenLeavesNone'
  BY <1>1, <1>2 DEF TurnInv, TakenLeavesNone
<1>7. LiveIsKnown'
  BY <1>1, <1>2 DEF TurnInv, LiveIsKnown, Takes, Ended
<1> QED
  BY <1>3, <1>4, <1>5, <1>6, <1>7 DEF TurnInv

\* What one caller's step moves: nothing of another caller.
LEMMA OneCallerMoves ==
  ASSUME TypeOK, NEW c \in Callers, Request(c) \/ CallerStep(c) \/ Disconnect(c)
  PROVE  \A d \in Callers : d # c => /\ pc'[d] = pc[d] /\ run'[d] = run[d]
                                     /\ old'[d] = old[d]
<1> USE DEF TypeOK, At, GoTo, Return, Panic, local
<1>1. CASE Request(c)
  BY <1>1 DEF Request, NewRunner, StopTakes
<1>2. CASE Disconnect(c)
  BY <1>2 DEF Disconnect
<1>3. CASE CallerStep(c)
  <2>1. CASE StartRejected(c) \/ StartAccepted(c) \/ StartFailed(c) \/ StartReturn(c)
    BY <2>1 DEF StartRejected, StartAccepted, StartFailed, StartReturn
  <2>2. CASE RunStart(c)
    BY <2>2 DEF RunStart, StartPanics
  <2>3. CASE RestartAsStart(c) \/ RestartTakesOld(c) \/ RestartInstall(c) \/ RestartFailed(c)
    BY <2>3 DEF RestartAsStart, RestartTakesOld, RestartInstall, RestartFailed
  <2>4. CASE RestartClosesOld(c)
    BY <2>4 DEF RestartClosesOld
  <2>5. CASE RunRestart(c)
    BY <2>5 DEF RunRestart, StartPanics
  <2>6. CASE StopUpdates(c) \/ StopCloses(c)
    BY <2>6 DEF StopUpdates, StopCloses
  <2> QED
    BY <1>3, <2>1, <2>2, <2>3, <2>4, <2>5, <2>6 DEF CallerStep
<1> QED
  BY <1>1, <1>2, <1>3

\* The others are idle while one caller is busy: what the invariant says of
\* the callers has to be shown of the one that moved only.
LEMMA MoverSuffices ==
  ASSUME Alone', NEW c \in Callers,
         \A d \in Callers : d # c => pc[d] = "idle" /\ pc'[d] = "idle",
         pc'[c] \in {"start", "restart", "closingOld", "install"} =>
           run'[c] \in Runners /\ proc'[run'[c]] = "made",
         pc'[c] \in {"starting", "restarting"} =>
           run'[c] \in Runners /\ active' = run'[c] /\ proc'[run'[c]] = "made",
         pc'[c] \in {"startFailed", "restartFailed"} =>
           run'[c] \in Runners /\ active' = run'[c] /\ proc'[run'[c]] = "failed",
         pc'[c] \in {"stopUpdate", "stopClose", "closingOld", "install"} =>
           active' = None,
         \A r \in Runners : proc'[r] = "live" => active' = r \/ Takes(c, r)',
         ~ panicked'
  PROVE  TurnInv'
<1>1. BringsMade' /\ InstalledIsActive' /\ TakenLeavesNone'
  BY DEF BringsMade, InstalledIsActive, TakenLeavesNone
<1>2. LiveIsKnown'
  BY DEF LiveIsKnown
<1> QED
  BY <1>1, <1>2 DEF TurnInv, NeverPanics

\* A request, of a caller whose request does not overlap another one.
LEMMA RequestInTurn ==
  ASSUME IInv, TurnInv, TypeOK', Alone', NEW c \in Callers, Request(c)
  PROVE  TurnInv'
<1> USE DEF At, GoTo
<1>1. TypeOK
  BY DEF IInv
<1>2. \A d \in Callers : d # c => pc'[d] = pc[d]
  BY <1>1, OneCallerMoves
<1>3. ASSUME NEW r \in Runners, NEW op \in {"start", "restart"}, NewRunner(c, r, op)
      PROVE  TurnInv'
  <2>1. /\ pc'[c] = op /\ run'[c] = r /\ proc'[r] = "made"
        /\ \A x \in Runners : x # r => proc'[x] = proc[x]
        /\ UNCHANGED <<active, old, panicked>>
        /\ pc[c] = "idle"
    BY <1>1, <1>3 DEF NewRunner, TypeOK
  <2>2. \A d \in Callers : d # c => pc[d] = "idle" /\ pc'[d] = "idle"
    BY <1>2, <2>1 DEF Alone, Busy
  <2>3. \A x \in Runners : proc'[x] = "live" => active' = x
    BY <2>1, <2>2 DEF TurnInv, LiveIsKnown, Takes
  <2> QED
    BY <2>1, <2>2, <2>3, MoverSuffices DEF TurnInv, NeverPanics
<1>4. CASE StopTakes(c) /\ active = None
  BY <1>4 DEF StopTakes, local, runners, TurnInv, BringsMade, InstalledIsActive,
              TakenLeavesNone, LiveIsKnown, Takes, NeverPanics
<1>5. CASE StopTakes(c) /\ active # None
  <2>1. /\ pc'[c] = "stopUpdate" /\ run'[c] = active /\ active' = None
        /\ UNCHANGED <<proc, panicked>>
        /\ pc[c] = "idle"
    BY <1>1, <1>5 DEF StopTakes, TypeOK, runners
  <2>2. \A d \in Callers : d # c => pc[d] = "idle" /\ pc'[d] = "idle"
    BY <1>2, <2>1 DEF Alone, Busy
  <2>3. \A x \in Runners : proc'[x] = "live" => Takes(c, x)'
    BY <2>1, <2>2 DEF TurnInv, LiveIsKnown, Takes
  <2> QED
    BY <2>1, <2>2, <2>3, MoverSuffices DEF TurnInv, NeverPanics
<1> QED
  BY <1>3, <1>4, <1>5 DEF Request

\* Alone, a caller never starts a runner that was closed, nor closes one
\* twice: none of its steps panics.
LEMMA NoPanicStep ==
  ASSUME IInv, TurnInv, NEW c \in Callers
  PROVE  /\ pc[c] \in {"starting", "restarting"} => ~ ChannelsClosed(run[c])
         /\ pc[c] = "closingOld" => ~ ChannelsClosed(old[c])
         /\ pc[c] = "stopClose" => ~ ChannelsClosed(run[c])
<1> USE ConstantsAssumption DEF ChannelsClosed
<1>1. pc[c] \in {"starting", "restarting"} => ~ ChannelsClosed(run[c])
  BY DEF TurnInv, InstalledIsActive, IInv, ActiveNotClosed
<1>2. pc[c] = "closingOld" => ~ ChannelsClosed(old[c])
  BY DEF IInv, HeldIsOut, Holds, Takes
<1>3. pc[c] = "stopClose" => ~ ChannelsClosed(run[c])
  BY DEF IInv, HeldIsOut, Holds, Takes
<1> QED
  BY <1>1, <1>2, <1>3

\* The next step of a caller that is alone in the middle of its request.
LEMMA CallerInTurn ==
  ASSUME IInv, TurnInv, TypeOK', Alone', NEW c \in Callers, CallerStep(c)
  PROVE  TurnInv'
<1> USE DEF At, GoTo, Return
<1>1. TypeOK
  BY DEF IInv
<1>2. pc[c] # "idle"
  BY DEF CallerStep, StartRejected, StartAccepted, RunStart, StartFailed,
         StartReturn, RestartAsStart, RestartTakesOld, RestartClosesOld,
         RestartInstall, RunRestart, RestartFailed, StopUpdates, StopCloses
<1>3. \A d \in Callers : d # c => pc[d] = "idle" /\ pc'[d] = "idle"
  BY <1>1, <1>2, OneCallerMoves DEF TurnInv, Alone, Busy
<1>4. \A x \in Runners : proc[x] = "live" => active = x \/ Takes(c, x)
  BY <1>3 DEF TurnInv, LiveIsKnown, Takes
<1>5. /\ pc[c] \in {"start", "restart", "closingOld", "install"} =>
           run[c] \in Runners /\ proc[run[c]] = "made"
      /\ pc[c] \in {"starting", "restarting"} =>
           run[c] \in Runners /\ active = run[c] /\ proc[run[c]] = "made"
      /\ pc[c] \in {"startFailed", "restartFailed"} =>
           run[c] \in Runners /\ active = run[c] /\ proc[run[c]] = "failed"
      /\ pc[c] \in {"stopUpdate", "stopClose", "closingOld", "install"} => active = None
      /\ ~ panicked
  BY DEF TurnInv, BringsMade, InstalledIsActive, TakenLeavesNone, NeverPanics
<1> DEFINE Settled ==
      /\ pc'[c] \in {"start", "restart", "closingOld", "install"} =>
           run'[c] \in Runners /\ proc'[run'[c]] = "made"
      /\ pc'[c] \in {"starting", "restarting"} =>
           run'[c] \in Runners /\ active' = run'[c] /\ proc'[run'[c]] = "made"
      /\ pc'[c] \in {"startFailed", "restartFailed"} =>
           run'[c] \in Runners /\ active' = run'[c] /\ proc'[run'[c]] = "failed"
      /\ pc'[c] \in {"stopUpdate", "stopClose", "closingOld", "install"} => active' = None
      /\ \A r \in Runners : proc'[r] = "live" => active' = r \/ Takes(c, r)'
      /\ ~ panicked'
<1>6. Settled
  <2> USE <1>1, <1>4, <1>5, ConstantsAssumption DEF TypeOK, Takes, local, runners
  <2>1. CASE StartRejected(c) \/ StartReturn(c)
    BY <2>1 DEF StartRejected, StartReturn
  <2>2. CASE StartAccepted(c)
    BY <2>2 DEF StartAccepted
  <2>3. CASE RunStart(c)
    BY <2>3, NoPanicStep DEF RunStart, StartSucceeds, StartFails, StartPanics
  <2>4. CASE StartFailed(c)
    BY <2>4 DEF StartFailed
  <2>5. CASE RestartAsStart(c)
    BY <2>5 DEF RestartAsStart
  <2>6. CASE RestartTakesOld(c)
    BY <2>6 DEF RestartTakesOld
  <2>7. CASE RestartClosesOld(c)
    BY <2>7, NoPanicStep DEF RestartClosesOld, CloseRunner, ChannelsClosed
  <2>8. CASE RestartInstall(c)
    BY <2>8 DEF RestartInstall
  <2>9. CASE RunRestart(c)
    BY <2>9, NoPanicStep DEF RunRestart, StartSucceeds, StartFails, StartPanics
  <2>10. CASE RestartFailed(c)
    BY <2>10 DEF RestartFailed
  <2>11. CASE StopUpdates(c)
    BY <2>11 DEF StopUpdates
  <2>12. CASE StopCloses(c)
    BY <2>12, NoPanicStep DEF StopCloses, CloseRunner, ChannelsClosed
  <2> HIDE DEF Settled
  <2> QED
    BY <2>1, <2>2, <2>3, <2>4, <2>5, <2>6, <2>7, <2>8, <2>9, <2>10, <2>11, <2>12
    DEF CallerStep
<1> QED
  BY <1>3, <1>6, MoverSuffices

\* Every step keeps what callers that come in turn know.
LEMMA TurnStep == IInv /\ IInTurn /\ [MCNext]_<<vars, overlapped>> => IInTurn'
<1> SUFFICES ASSUME IInv, IInTurn, [MCNext]_<<vars, overlapped>>, ~overlapped'
             PROVE  TurnInv'
  BY DEF IInTurn
<1>1. CASE UNCHANGED <<vars, overlapped>>
  BY <1>1 DEF vars, IInTurn, TurnInv, Alone, Busy, BringsMade, InstalledIsActive,
              TakenLeavesNone, LiveIsKnown, Takes, NeverPanics
<1>2. CASE MCNext
  <2>1. TypeOK /\ TypeOK'
    BY <1>2, TypeStep DEF IInv, MCNext
  <2>2. TurnInv
    BY <1>2 DEF MCNext, IInTurn
  <2>3. ~ (Cardinality({d \in Callers : pc'[d] # "idle"}) > 1)
    BY <1>2 DEF MCNext
  <2>4. ASSUME NEW c \in Callers, Request(c) \/ CallerStep(c) \/ Disconnect(c)
        PROVE  TurnInv'
    <3>1. Alone'
      BY <2>1, <2>2, <2>3, <2>4, OneCallerMoves, AloneStep DEF TurnInv
    <3>2. CASE Request(c)
      BY <2>1, <2>2, <3>1, <3>2, RequestInTurn
    <3>3. CASE CallerStep(c)
      BY <2>1, <2>2, <3>1, <3>3, CallerInTurn
    <3>4. CASE Disconnect(c)
      BY <2>2, <3>1, <3>4 DEF Disconnect, local, TurnInv, BringsMade, InstalledIsActive,
         TakenLeavesNone, LiveIsKnown, Takes, NeverPanics
    <3> QED
      BY <2>4, <3>2, <3>3, <3>4
  <2>5. ASSUME NEW r \in Runners, Exit(r) \/ CtxKill(r) \/ ForwardEnds(r)
        PROVE  TurnInv'
    BY <2>1, <2>2, <2>5, RunnerStep
  <2> QED
    BY <1>2, <2>4, <2>5 DEF MCNext, Next
<1> QED
  BY <1>1, <1>2

\* Both invariants hold of every behaviour that remembers overlaps.
LEMMA TurnInvariance == MCSpec => [](IInv /\ IInTurn)
<1>1. MCInit => Init
  BY DEF MCInit
<1>2. [MCNext]_<<vars, overlapped>> => [Next]_vars
  BY DEF MCNext
<1>3. MCSpec => Spec
  BY <1>1, <1>2, PTL DEF MCSpec, Spec
<1>4. MCInit => IInTurn
  <2> SUFFICES ASSUME MCInit PROVE TurnInv
    BY DEF IInTurn
  <2> QED
    BY ConstantsAssumption DEF MCInit, Init, TurnInv, Alone, Busy, BringsMade,
       InstalledIsActive, TakenLeavesNone, LiveIsKnown, Takes, NeverPanics
<1>5. MCSpec => []IInv
  BY <1>3, Invariance
<1> QED
  BY <1>4, <1>5, TurnStep, PTL DEF MCSpec

\* Of the callers alone, at most one runner is live.
LEMMA LiveIsOne == IInv /\ TurnInv => SingleLiveRunner
<1> SUFFICES ASSUME IInv, TurnInv PROVE SingleLiveRunner
  OBVIOUS
<1> DEFINE Live == {r \in Runners : proc[r] = "live"}
<1>1. ASSUME NEW r \in Live, NEW s \in Live PROVE r = s
  <2>1. active = r /\ active = s => r = s
    OBVIOUS
  <2>2. ASSUME NEW c \in Callers, Takes(c, r) \/ Takes(c, s) PROVE active = None /\ Busy(c)
    BY <2>2 DEF Takes, TurnInv, TakenLeavesNone, Busy
  <2>3. ASSUME NEW c \in Callers, NEW d \in Callers, Takes(c, r), Takes(d, s)
        PROVE  r = s
    BY <2>2, <2>3 DEF TurnInv, Alone, Takes
  <2> QED
    BY <2>1, <2>2, <2>3, ConstantsAssumption DEF TurnInv, LiveIsKnown
<1>2. CASE Live = {}
  BY <1>2, FS_EmptySet DEF SingleLiveRunner
<1>3. CASE Live # {}
  <2>1. PICK r \in Live : TRUE
    BY <1>3
  <2>2. Live = {r}
    BY <1>1, <2>1
  <2>3. Cardinality(Live) = 1
    <3> HIDE DEF Live
    <3> QED
      BY <2>2, FS_Singleton
  <2> QED
    BY <2>3 DEF SingleLiveRunner
<1> QED
  BY <1>2, <1>3

\* manager.go:62: of callers whose requests do not overlap, any number of
\* them and of runners, none makes two runners run at the same time.
THEOREM OneRuns == MCSpec => []OneRunsInTurn
<1>1. IInv /\ IInTurn => OneRunsInTurn
  BY LiveIsOne DEF IInTurn, OneRunsInTurn
<1> QED
  BY <1>1, TurnInvariance, PTL

\* Between requests that do not overlap, a runner that runs is the one that
\* Write, Abort and Stop reach.
THEOREM Reachable == MCSpec => []ReachableInTurn
<1>1. IInTurn => ReachableInTurn
  BY DEF IInTurn, ReachableInTurn, TurnInv, LiveRunnerReachable, LiveIsKnown,
         Takes, Quiet
<1> QED
  BY <1>1, TurnInvariance, PTL

\* No request uses the closed channels of a ClaudeRunner, as long as
\* requests do not overlap.
THEOREM NoPanic == MCSpec => []NoPanicInTurn
<1>1. IInTurn => NoPanicInTurn
  BY DEF IInTurn, NoPanicInTurn, TurnInv
<1> QED
  BY <1>1, TurnInvariance, PTL
=============================================================================
