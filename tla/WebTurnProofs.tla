---------------------------- MODULE WebTurnProofs ----------------------------
(***************************************************************************)
(* Proofs about WebTurn, for any tools, kinds of events and bounds.        *)
(***************************************************************************)
EXTENDS WebTurn, SequenceTheorems, TLAPS

Asks == {"input", "abort", "start", "restart", "stop"}

\* An event that is not about a tool carries a name that is none.
Names == Tools \cup {NoTool}

ClientState ==
  [connected : BOOLEAN, sessionId : Nat, saved : Nat, stoppedSessionId : Nat,
   seen : SUBSET Nat, prompt : Nat, requestId : Nat,
   thinking : BOOLEAN, turnActive : BOOLEAN, stopping : BOOLEAN, busy : BOOLEAN,
   allowlist : SUBSET Names, allowAll : BOOLEAN]

Answers == [to : Nat, allow : BOOLEAN, by : {"nobody", "user", "effect"}]

Grants == [tools : SUBSET Names, turn : BOOLEAN]

LogEntry ==
  [kind : {"ask", "request", "refused", "start", "end", "turn_end", "died"},
   tool : Names, session : Nat]

Reply == [to : Asks, session : Nat, refused : BOOLEAN]

TypeOK ==
  /\ st \in ClientState /\ view \in ClientState
  /\ acted \in {<<>>} \cup (Nat \X Nat \X (SUBSET Names) \X BOOLEAN)
  /\ answer \in Answers
  /\ granted \in Grants
  /\ confirmStop \in BOOLEAN /\ loading \in BOOLEAN
  /\ requests \in Seq(Asks) /\ replies \in Seq(Reply)
  /\ log \in Seq(LogEntry) /\ wire \in Seq(1..Len(log))
  /\ live \in Nat /\ sessions \in Nat /\ running \in BOOLEAN /\ open \in BOOLEAN
  /\ remote \in BOOLEAN
  /\ presses \in Nat /\ drops \in Nat

(***************************************************************************)
(* The inductive invariant.  A press answers by what was rendered and the  *)
(* effect by what has arrived: so both states of the client show an event  *)
(* that was emitted, have no request id but its own, and list only tools   *)
(* that the user has allowed.  That a whole turn is allowed holds of the   *)
(* state of the reducer alone: what was rendered before may still say so   *)
(* after the turn has ended.                                               *)
(***************************************************************************)
Sound(s, g, n) ==
  /\ s \in ClientState
  /\ s.thinking => s.turnActive
  /\ s.prompt \in 0..n
  /\ s.requestId \in {0, s.prompt}
  /\ s.allowlist \subseteq g.tools
  /\ s.allowAll => g.turn

\* What may be shown as allowed: any turn, and the tools that are.
Shows == [granted EXCEPT !.turn = TRUE]

TurnInv ==
  /\ TypeOK
  /\ Sound(st, granted, Len(log))
  /\ Sound(view, Shows, Len(log))

(***************************************************************************)
(* The reducer.                                                            *)
(***************************************************************************)

\* No case of the reducer makes a sound state unsound.
LEMMA Reduced ==
  ASSUME NEW g \in Grants, NEW n \in Nat, NEW s, Sound(s, g, n)
  PROVE  /\ \A c \in BOOLEAN : Sound(StatusChanged(s, c), g, n)
         /\ \A id \in Nat : Sound(SessionStarted(s, id), g, n)
         /\ \A id \in Nat : Sound(ActiveSessionDetected(s, id), g, n)
         /\ Sound(SessionStopped(s), g, n)
         /\ Sound(UserMessageSent(s), g, n)
         /\ Sound(PermissionAnswered(s), g, n)
         /\ Sound(AbortTurn(s), g, n)
         /\ Sound(Stopping(s), g, n)
         /\ Sound(TurnEnd(s), g, n)
         /\ Sound(Shown(s), g, n)
         /\ \A id \in Nat : Sound([s EXCEPT !.saved = id], g, n)
  <1>1. ASSUME NEW u, Sound(u, g, n) PROVE Sound(Quiet(u), g, n)
    BY <1>1 DEF Sound, ClientState, Quiet
  <1>2. ASSUME NEW u, Sound(u, g, n) PROVE Sound(Unasked(u), g, n)
    <2>1. Unasked(u) \in ClientState BY <1>2 DEF Sound, ClientState, Unasked
    <2>2. /\ Unasked(u).prompt = 0 /\ Unasked(u).requestId = 0
          /\ Unasked(u).thinking = u.thinking
          /\ Unasked(u).turnActive = u.turnActive
          /\ Unasked(u).allowlist = u.allowlist
          /\ Unasked(u).allowAll = u.allowAll
      BY <1>2 DEF Sound, ClientState, Unasked
    <2> QED BY <1>2, <2>1, <2>2 DEF Sound
  <1>3. ASSUME NEW u, Sound(u, g, n), NEW id \in Nat, NEW stopped \in Nat,
               NEW saved \in Nat, NEW b \in BOOLEAN, NEW c \in BOOLEAN, NEW d \in BOOLEAN
        PROVE  /\ Sound([u EXCEPT !.connected = b], g, n)
               /\ Sound([u EXCEPT !.connected = b, !.stopping = c], g, n)
               /\ Sound([u EXCEPT !.stopping = c], g, n)
               /\ Sound([u EXCEPT !.sessionId = id, !.saved = saved,
                                  !.stoppedSessionId = stopped, !.seen = {},
                                  !.stopping = c, !.busy = d], g, n)
               /\ Sound([u EXCEPT !.sessionId = id, !.stoppedSessionId = stopped], g, n)
               /\ Sound([u EXCEPT !.saved = saved, !.seen = {}, !.busy = d], g, n)
               /\ Sound([u EXCEPT !.stoppedSessionId = stopped, !.sessionId = id,
                                  !.saved = saved, !.stopping = c, !.busy = d], g, n)
               /\ Sound([u EXCEPT !.seen = {}, !.stoppedSessionId = stopped, !.saved = saved], g, n)
               /\ Sound([u EXCEPT !.allowAll = FALSE], g, n)
               /\ Sound([u EXCEPT !.saved = saved], g, n)
    <2> USE <1>3 DEF Sound, ClientState
    <2>1. Sound([u EXCEPT !.connected = b], g, n) OBVIOUS
    <2>2. Sound([u EXCEPT !.connected = b, !.stopping = c], g, n) OBVIOUS
    <2>3. Sound([u EXCEPT !.stopping = c], g, n) OBVIOUS
    <2>4. Sound([u EXCEPT !.sessionId = id, !.saved = saved,
                          !.stoppedSessionId = stopped, !.seen = {},
                          !.stopping = c, !.busy = d], g, n)
      <3>1. PICK v : v = [u EXCEPT !.sessionId = id, !.saved = saved,
                                   !.stoppedSessionId = stopped]
        OBVIOUS
      <3>2. Sound(v, g, n) BY <3>1
      <3>3. Sound([v EXCEPT !.seen = {}, !.stopping = c, !.busy = d], g, n)
        <4>1. PICK w : w = [v EXCEPT !.seen = {}, !.stopping = c] OBVIOUS
        <4>2. Sound(w, g, n) BY <3>2, <4>1
        <4>3. Sound([w EXCEPT !.busy = d], g, n) BY <4>2
        <4> QED BY <4>1, <4>3
      <3>4. [u EXCEPT !.sessionId = id, !.saved = saved,
                      !.stoppedSessionId = stopped, !.seen = {},
                      !.stopping = c, !.busy = d]
              = [v EXCEPT !.seen = {}, !.stopping = c, !.busy = d]
        BY <3>1
      <3> HIDE DEF Sound, ClientState
      <3> QED BY <3>3, <3>4
    <2>5. Sound([u EXCEPT !.sessionId = id, !.stoppedSessionId = stopped], g, n) OBVIOUS
    <2>6. Sound([u EXCEPT !.saved = saved, !.seen = {}, !.busy = d], g, n) OBVIOUS
    <2>7. Sound([u EXCEPT !.stoppedSessionId = stopped, !.sessionId = id,
                          !.saved = saved, !.stopping = c, !.busy = d], g, n) OBVIOUS
    <2>8. Sound([u EXCEPT !.seen = {}, !.stoppedSessionId = stopped, !.saved = saved], g, n) OBVIOUS
    <2>9. Sound([u EXCEPT !.allowAll = FALSE], g, n) OBVIOUS
    <2>10. Sound([u EXCEPT !.saved = saved], g, n) OBVIOUS
    <2> QED BY <2>1, <2>2, <2>3, <2>4, <2>5, <2>6, <2>7, <2>8, <2>9, <2>10
  <1>4. s.sessionId \in Nat /\ s.stoppedSessionId \in Nat BY DEF Sound, ClientState
  <1>5. \A c \in BOOLEAN : Sound(StatusChanged(s, c), g, n)
    BY <1>1, <1>3, <1>4 DEF StatusChanged
  <1>6. \A id \in Nat : Sound(SessionStarted(s, id), g, n)
    BY <1>1, <1>2, <1>3, <1>4 DEF SessionStarted
  <1>7. \A id \in Nat : Sound(ActiveSessionDetected(s, id), g, n)
    BY <1>1, <1>2, <1>3, <1>4 DEF ActiveSessionDetected
  <1>8. Sound(SessionStopped(s), g, n)
    <2>1. Sound(Quiet(Unasked(s)), g, n) BY <1>1, <1>2
    <2>2. PICK u : u = Quiet(Unasked(s)) OBVIOUS
    <2>3. Sound(u, g, n) /\ u.stoppedSessionId \in Nat
      BY <2>1, <2>2 DEF Sound, ClientState
    <2>4. PICK k \in Nat : k = IF s.sessionId # 0 THEN s.sessionId
                              ELSE u.stoppedSessionId
      BY <1>4, <2>3
    <2>5. SessionStopped(s) =
            [u EXCEPT !.stoppedSessionId = k,
                      !.sessionId = 0, !.saved = 0, !.stopping = FALSE,
                      !.busy = FALSE]
      BY <2>2, <2>4 DEF SessionStopped
    <2>6. Sound([u EXCEPT !.stoppedSessionId = k,
                          !.sessionId = 0, !.saved = 0, !.stopping = FALSE,
                          !.busy = FALSE], g, n)
      BY <1>3, <2>3
    <2> QED BY <2>5, <2>6
  <1>9. Sound(UserMessageSent(s), g, n) BY DEF UserMessageSent, Sound, ClientState
  <1>10. Sound(PermissionAnswered(s), g, n) BY <1>2 DEF PermissionAnswered
  <1>11. Sound(AbortTurn(s), g, n) /\ Sound(TurnEnd(s), g, n)
    BY <1>1, <1>3, <1>4 DEF AbortTurn, TurnEnd
  <1>12. Sound(Stopping(s), g, n) BY <1>1, <1>3, <1>4 DEF Stopping
  <1>13. Sound(Shown(s), g, n) BY <1>3, <1>4 DEF Shown
  <1>14. \A id \in Nat : Sound([s EXCEPT !.saved = id], g, n) BY <1>3
  <1> QED BY <1>14, <1>5, <1>6, <1>7, <1>8, <1>9, <1>10, <1>11, <1>12, <1>13

\* An event shows itself and no other, and allows nothing.
LEMMA ReceivedSound ==
  ASSUME NEW g \in Grants, log \in Seq(LogEntry), NEW s, Sound(s, g, Len(log)),
         NEW e \in 1..Len(log)
  PROVE  Sound(EventReceived(s, e), g, Len(log))
  <1> DEFINE t == [s EXCEPT !.seen = IF Deduplicated(e) THEN @ \cup {e} ELSE @,
                            !.sessionId = IF @ # 0 \/ s.stopping THEN @
                                          ELSE log[e].session]
  <1>1. log[e] \in LogEntry /\ Len(log) \in Nat OBVIOUS
  <1>2. Sound(t, g, Len(log))
    <2>1. t \in ClientState
      <3>1. PICK seen \in SUBSET Nat :
              seen = IF Deduplicated(e) THEN s.seen \cup {e} ELSE s.seen
        <4>1. s.seen \in SUBSET Nat BY DEF Sound, ClientState
        <4>2. e \in Nat BY <1>1
        <4>3. s.seen \cup {e} \in SUBSET Nat BY <4>1, <4>2
        <4> QED BY <4>1, <4>3
      <3>2. PICK id \in Nat : id = IF s.sessionId # 0 \/ s.stopping THEN s.sessionId
                                  ELSE log[e].session
        BY <1>1 DEF Sound, ClientState, LogEntry
      <3>3. t = [s EXCEPT !.seen = seen, !.sessionId = id] BY <3>1, <3>2
      <3> QED BY <3>3 DEF Sound, ClientState
    <2>2. /\ t.prompt = s.prompt /\ t.requestId = s.requestId
          /\ t.thinking = s.thinking /\ t.turnActive = s.turnActive
          /\ t.allowlist = s.allowlist /\ t.allowAll = s.allowAll
      BY DEF Sound, ClientState
    <2> HIDE DEF t
    <2> QED BY <2>1, <2>2 DEF Sound
  <1>3. ASSUME NEW u, Sound(u, g, Len(log)) PROVE Sound(Flags(u, e), g, Len(log))
    <2>1. Sound(Asked(u, e), g, Len(log))
      <3>1. Asked(u, e) \in ClientState
        <4>1. PICK k \in Nat : k = IF log[e].kind = "ask" THEN e ELSE 0 BY <1>1
        <4>2. PICK b \in BOOLEAN : b = (u.turnActive \/ ~ u.stopping) OBVIOUS
        <4>3. Asked(u, e) = [u EXCEPT !.prompt = e, !.requestId = k, !.turnActive = b]
          BY <4>1, <4>2 DEF Asked
        <4>4. u \in ClientState /\ e \in Nat BY <1>3 DEF Sound
        <4> QED BY <4>3, <4>4 DEF ClientState
      <3>2. /\ Asked(u, e).prompt = e /\ Asked(u, e).requestId \in {0, e}
            /\ Asked(u, e).thinking = u.thinking
            /\ u.turnActive => Asked(u, e).turnActive
            /\ Asked(u, e).allowlist = u.allowlist
            /\ Asked(u, e).allowAll = u.allowAll
        BY <1>3 DEF Asked, Sound, ClientState
      <3> QED BY <1>1, <1>3, <3>1, <3>2 DEF Sound
    <2>3. Sound(TurnEnd(u), g, Len(log)) BY <1>3, <1>1, Reduced
    <2> USE DEF Sound, ClientState
    <2>2. Sound([u EXCEPT !.prompt = IF @ = 0 THEN e ELSE @], g, Len(log))
      <3>1. PICK k \in Nat : k = IF u.prompt = 0 THEN e ELSE u.prompt BY <1>3, <1>1
      <3>2. [u EXCEPT !.prompt = IF @ = 0 THEN e ELSE @] = [u EXCEPT !.prompt = k]
        BY <3>1
      <3>3. u.prompt = 0 => u.requestId = 0 BY <1>3
      <3>4. [u EXCEPT !.prompt = k] \in ClientState BY <1>3, <3>1
      <3>5. LET w == [u EXCEPT !.prompt = k] IN
            /\ w.prompt = k /\ w.requestId = u.requestId
            /\ w.thinking = u.thinking /\ w.turnActive = u.turnActive
            /\ w.allowlist = u.allowlist /\ w.allowAll = u.allowAll
        BY <1>3
      <3>6. k \in 0..Len(log) /\ u.requestId \in {0, k} BY <1>1, <1>3, <3>1, <3>3
      <3> HIDE DEF ClientState
      <3> QED BY <1>3, <3>2, <3>4, <3>5, <3>6
    <2>4. Sound([u EXCEPT !.busy = TRUE], g, Len(log)) BY <1>3
    <2>5. Sound([u EXCEPT !.busy = FALSE], g, Len(log)) BY <1>3
    <2> HIDE DEF Sound, ClientState
    <2> QED BY <1>1, <1>3, <2>1, <2>2, <2>3, <2>4, <2>5 DEF Flags, LogEntry
  <1> HIDE DEF t
  <1>4. Sound(Flags(t, e), g, Len(log)) BY <1>2, <1>3
  <1> QED BY <1>4 DEF EventReceived, t

\* What is sound stays so when more is allowed and more has been emitted.
LEMMA SoundStays ==
  ASSUME NEW g \in Grants, NEW h \in Grants, NEW n \in Nat, NEW m \in Nat, NEW s,
         Sound(s, g, n), n <= m, g.tools \subseteq h.tools, g.turn => h.turn
  PROVE  Sound(s, h, m)
  BY DEF Sound

(***************************************************************************)
(* Steps.                                                                  *)
(***************************************************************************)

\* A function on 1..n is a sequence, and two sequences make one.
LEMMA FunctionIsSeq ==
  ASSUME NEW S, NEW n \in Nat, NEW f \in [1..n -> S]
  PROVE  f \in Seq(S)
  OBVIOUS

LEMMA Concatenated ==
  ASSUME NEW S, NEW p \in Seq(S), NEW q \in Seq(S)
  PROVE  p \o q \in Seq(S)
  OBVIOUS

\* A request is added or taken, a reply is added or taken.
LEMMA RequestAdded ==
  ASSUME TypeOK, NEW r \in Asks, Request(r)
  PROVE  requests' \in Seq(Asks)
  BY DEF TypeOK, Request

\* What is emitted follows what was emitted before.
LEMMA Emitting ==
  ASSUME TypeOK, NEW es \in Seq(LogEntry), Emit(es)
  PROVE  /\ log' \in Seq(LogEntry) /\ wire' \in Seq(1..Len(log)')
         /\ Len(log)' \in Nat /\ Len(log) \in Nat /\ Len(log) <= Len(log)'
         /\ DOMAIN log' = 1..Len(log)' /\ Emitted = 1..Len(log)
         /\ \A e \in Emitted : log'[e] = log[e]
  <1>1. /\ log \in Seq(LogEntry) /\ wire \in Seq(1..Len(log))
        /\ Len(log) \in Nat /\ Len(es) \in Nat
    BY DEF TypeOK
  <1>2. log' = log \o es BY DEF Emit
  <1>3. log' \in Seq(LogEntry) BY <1>1, <1>2
  <1>4. Len(log') = Len(log) + Len(es) BY <1>1, <1>2
  <1>5. \A e \in 1..Len(log) : log'[e] = log[e] BY <1>1, <1>2
  <1>6. wire \in Seq(1..Len(log'))
    <2>1. 1..Len(log) \subseteq 1..Len(log') BY <1>1, <1>4
    <2> QED BY <1>1, <2>1, SeqMonotonic
  <1>7. [i \in DOMAIN es |-> Len(log) + i] \in Seq(1..Len(log'))
    <2>1. DOMAIN es = 1..Len(es) BY <1>1
    <2>2. \A i \in 1..Len(es) : Len(log) + i \in 1..Len(log') BY <1>1, <1>4
    <2>3. PICK k \in Nat : k = Len(es) BY <1>1
    <2>4. [i \in 1..k |-> Len(log) + i] \in [1..k -> 1..Len(log')] BY <2>2, <2>3
    <2>5. [i \in 1..k |-> Len(log) + i] \in Seq(1..Len(log'))
      BY <2>3, <2>4, FunctionIsSeq
    <2> QED BY <2>1, <2>3, <2>5
  <1>8. wire' \in Seq(1..Len(log'))
    <2>1. wire \o [i \in DOMAIN es |-> Len(log) + i] \in Seq(1..Len(log'))
      BY <1>6, <1>7, Concatenated
    <2> QED BY <1>6, <2>1 DEF Emit
  <1>9. DOMAIN log' = 1..Len(log') /\ Len(log') \in Nat /\ Len(log) <= Len(log')
    BY <1>1, <1>3, <1>4
  <1>10. Emitted = 1..Len(log) BY <1>1 DEF Emitted
  <1> QED BY <1>1, <1>3, <1>5, <1>8, <1>9, <1>10

\* A step of which no answer comes.
LEMMA NothingAnswered == NoAnswer \in Answers
  BY DEF NoAnswer, Answers

LEMMA ShowsMore ==
  ASSUME TypeOK
  PROVE  /\ granted \in Grants /\ Shows \in Grants /\ Len(log) \in Nat
         /\ Shows.tools = granted.tools /\ Shows.turn = TRUE
  <1>1. granted \in Grants /\ log \in Seq(LogEntry) BY DEF TypeOK
  <1>2. Len(log) \in Nat BY <1>1
  <1> QED BY <1>1, <1>2 DEF Shows, Grants

\* A step that emits and allows nothing keeps the invariant if both states
\* stay sound and of their type.
LEMMA ClientStep ==
  ASSUME TurnInv, TypeOK', UNCHANGED <<log, granted>>,
         Sound(st', granted, Len(log)), Sound(view', Shows, Len(log))
  PROVE  TurnInv'
  <1>1. Sound(st, granted, Len(log))' /\ Sound(view, Shows, Len(log))'
    BY DEF Sound, Shows
  <1> QED BY <1>1 DEF TurnInv

LEMMA PressSendStep == TurnInv /\ PressSend => TurnInv'
  <1> SUFFICES ASSUME TurnInv, PressSend PROVE TurnInv' OBVIOUS
  <1> DEFINE n == Len(log)
  <1>1. TypeOK /\ granted \in Grants /\ Shows \in Grants /\ n \in Nat
    BY ShowsMore DEF TurnInv
  <1>2. Sound(st', granted, n) /\ Sound(view', Shows, n)
    <2>1. Sound(st, granted, n) /\ Sound(view, Shows, n) BY DEF TurnInv
    <2>2. CASE UNCHANGED <<st, view>> BY <2>1, <2>2
    <2>3. CASE Dispatch(UserMessageSent)
      <3>1. Sound(UserMessageSent(st), granted, n) BY <1>1, <2>1, Reduced
      <3>2. Sound(UserMessageSent(view), Shows, n) BY <1>1, <2>1, Reduced
      <3>3. Sound(Shown(UserMessageSent(view)), Shows, n) BY <1>1, <3>2, Reduced
      <3> QED BY <2>3, <3>1, <3>3 DEF Dispatch
    <2> QED BY <2>2, <2>3 DEF PressSend
  <1>3. requests' \in Seq(Asks) BY <1>1, RequestAdded DEF PressSend, Asks
  <1>4. st' \in ClientState /\ view' \in ClientState BY <1>2 DEF Sound
  <1>5. TypeOK'
    BY <1>1, <1>3, <1>4, NothingAnswered DEF TypeOK, PressSend, Press, server
  <1> QED BY <1>2, <1>5, ClientStep DEF PressSend, server

\* No more than the list of tools is allowed once a state allows no turn.
LEMMA TurnOverSound ==
  ASSUME NEW g \in Grants, NEW n \in Nat, NEW s, Sound(s, g, n), s.allowAll = FALSE
  PROVE  /\ Sound(s, [g EXCEPT !.turn = FALSE], n)
         /\ [g EXCEPT !.turn = FALSE] \in Grants
  BY DEF Sound, Grants

\* What may be shown is not touched by the end of a turn.
LEMMA TurnOverShows ==
  ASSUME TypeOK, granted' = [granted EXCEPT !.turn = FALSE]
  PROVE  Shows' = Shows
  BY DEF TypeOK, Shows, Grants

LEMMA PressAbortStep == TurnInv /\ PressAbort => TurnInv'
  <1> SUFFICES ASSUME TurnInv, PressAbort PROVE TurnInv' OBVIOUS
  <1> DEFINE n == Len(log)
  <1>1. TypeOK /\ granted \in Grants /\ Shows \in Grants /\ n \in Nat
    BY ShowsMore DEF TurnInv
  <1>2. granted' = [granted EXCEPT !.turn = FALSE] BY DEF PressAbort
  <1>3. Sound(st', granted', n) /\ granted' \in Grants
    <2>1. Sound(st, granted, n) BY DEF TurnInv
    <2>2. Sound(AbortTurn(st), granted, n) BY <1>1, <2>1, Reduced
    <2>3. AbortTurn(st).allowAll = FALSE
      BY <2>1 DEF AbortTurn, Quiet, Sound, ClientState
    <2>4. st' = AbortTurn(st) BY DEF PressAbort, Dispatch
    <2> QED BY <1>1, <1>2, <2>2, <2>3, <2>4, TurnOverSound
  <1>4. Sound(view', Shows, n)
    <2>1. Sound(view, Shows, n) BY DEF TurnInv
    <2>2. Sound(AbortTurn(view), Shows, n) BY <1>1, <2>1, Reduced
    <2>3. Sound(Shown(AbortTurn(view)), Shows, n) BY <1>1, <2>2, Reduced
    <2> QED BY <2>3 DEF PressAbort, Dispatch
  <1>5. requests' \in Seq(Asks) BY <1>1, RequestAdded DEF PressAbort, Asks
  <1>6. st' \in ClientState /\ view' \in ClientState BY <1>3, <1>4 DEF Sound
  <1>7. TypeOK'
    BY <1>1, <1>3, <1>5, <1>6, NothingAnswered
    DEF TypeOK, PressAbort, Press, server
  <1>8. UNCHANGED log /\ Shows' = Shows
    BY <1>1, <1>2, TurnOverShows DEF PressAbort, server
  <1> QED BY <1>3, <1>4, <1>7, <1>8 DEF TurnInv

\* The bar asks for a session, or for another model.
LEMMA PressBarStep == TurnInv /\ (PressStart \/ PressApplyModel) => TurnInv'
  <1> SUFFICES ASSUME TurnInv, PressStart \/ PressApplyModel PROVE TurnInv' OBVIOUS
  <1>1. TypeOK /\ Sound(st, granted, Len(log)) /\ Sound(view, Shows, Len(log))
    BY DEF TurnInv
  <1>2. requests' \in Seq(Asks)
    BY <1>1, RequestAdded DEF PressStart, PressApplyModel, Asks
  <1>3. TypeOK'
    <2>1. CASE PressStart
      BY <1>1, <1>2, <2>1, NothingAnswered DEF TypeOK, PressStart, Press, server
    <2>2. CASE PressApplyModel
      BY <1>1, <1>2, <2>2, NothingAnswered DEF TypeOK, PressApplyModel, Press, server
    <2> QED BY <2>1, <2>2
  <1> QED BY <1>1, <1>3, ClientStep DEF PressStart, PressApplyModel, server

LEMMA PressStopStep == TurnInv /\ PressStop => TurnInv'
  <1> SUFFICES ASSUME TurnInv, PressStop PROVE TurnInv' OBVIOUS
  <1> DEFINE n == Len(log)
  <1>1. TypeOK /\ granted \in Grants /\ Shows \in Grants /\ n \in Nat
    BY ShowsMore DEF TurnInv
  <1>2. Sound(st, granted, n) /\ Sound(view, Shows, n) BY DEF TurnInv
  <1>3. /\ Sound(st', granted, n) /\ Sound(view', Shows, n)
        /\ requests' \in Seq(Asks) /\ presses' \in Nat
    <2>1. CASE UNCHANGED <<st, view, requests, presses>>
      BY <1>1, <1>2, <2>1 DEF TypeOK
    <2>2. CASE Press /\ sendStop
      <3>1. \A s : Sound(s, granted, n) => Sound(SessionStopped(Stopping(s)), granted, n)
        BY <1>1, Reduced
      <3>2. \A s : Sound(s, Shows, n) => Sound(SessionStopped(Stopping(s)), Shows, n)
        BY <1>1, Reduced
      <3>3. \A s : Sound(s, Shows, n) => Sound(Shown(s), Shows, n) BY <1>1, Reduced
      <3>4. /\ st' = SessionStopped(Stopping(st))
            /\ view' = Shown(SessionStopped(Stopping(view)))
        BY <2>2 DEF sendStop, Dispatch
      <3>5. Sound(st', granted, n) /\ Sound(view', Shows, n)
        BY <1>2, <3>1, <3>2, <3>3, <3>4
      <3>6. requests' \in Seq(Asks) BY <1>1, <2>2, RequestAdded DEF sendStop, Asks
      <3> QED BY <1>1, <2>2, <3>5, <3>6 DEF Press, TypeOK
    <2> QED BY <2>1, <2>2 DEF PressStop
  <1>4. st' \in ClientState /\ view' \in ClientState BY <1>3 DEF Sound
  <1>5. TypeOK'
    BY <1>1, <1>3, <1>4, NothingAnswered DEF TypeOK, PressStop, server
  <1> QED BY <1>3, <1>5, ClientStep DEF PressStop, server

LEMMA ConfirmLapsesStep == TurnInv /\ ConfirmLapses => TurnInv'
  <1> SUFFICES ASSUME TurnInv, ConfirmLapses PROVE TurnInv' OBVIOUS
  <1>1. TypeOK /\ Sound(st, granted, Len(log)) /\ Sound(view, Shows, Len(log))
    BY DEF TurnInv
  <1>2. TypeOK'
    BY <1>1, NothingAnswered DEF TypeOK, ConfirmLapses, server, link, bounds
  <1> QED BY <1>1, <1>2, ClientStep DEF ConfirmLapses, server

\* The user answers: the request made is for the event that the buttons are
\* shown for.
LEMMA PressAnswerStep ==
  ASSUME TurnInv, NEW allow \in BOOLEAN, PressAnswer(allow) PROVE TurnInv'
  <1> DEFINE n == Len(log)
  <1>1. TypeOK /\ granted \in Grants /\ Shows \in Grants /\ n \in Nat
    BY ShowsMore DEF TurnInv
  <1>2. Sound(st, granted, n) /\ Sound(view, Shows, n) BY DEF TurnInv
  <1>3. Sound(st', granted, n) /\ Sound(view', Shows, n)
    <2>1. \A s : Sound(s, granted, n) => Sound(PermissionAnswered(s), granted, n)
      BY <1>1, Reduced
    <2>2. \A s : Sound(s, Shows, n) => Sound(PermissionAnswered(s), Shows, n)
      BY <1>1, Reduced
    <2>3. \A s : Sound(s, Shows, n) => Sound(Shown(s), Shows, n)
      BY <1>1, Reduced
    <2>4. st' = PermissionAnswered(st) /\ view' = Shown(PermissionAnswered(view))
      BY DEF PressAnswer, Dispatch
    <2> QED BY <1>2, <2>1, <2>2, <2>3, <2>4
  <1>4. answer' \in Answers
    <2>1. AnswerTo(view) \in Nat BY <1>2 DEF Sound, ClientState, AnswerTo
    <2> QED BY <2>1 DEF PressAnswer, Answers
  <1>5. UNCHANGED log BY DEF PressAnswer, server
  <1>6. TypeOK'
    <2>1. st' \in ClientState /\ view' \in ClientState BY <1>3 DEF Sound
    <2> QED BY <1>1, <1>4, <2>1 DEF TypeOK, PressAnswer, server, link, bounds
  <1> QED BY <1>3, <1>5, <1>6, ClientStep DEF PressAnswer

\* The user allows a tool, or all for this turn: both states take up what was
\* allowed.
LEMMA PressAllowToolStep == TurnInv /\ PressAllowTool => TurnInv'
  <1> SUFFICES ASSUME TurnInv, PressAllowTool PROVE TurnInv' OBVIOUS
  <1> DEFINE n == Len(log)
             tool == log[view.prompt].tool
             With(g) == [g EXCEPT !.tools = @ \cup {tool}]
  <1>1. TypeOK /\ granted \in Grants /\ Shows \in Grants /\ n \in Nat
    BY ShowsMore DEF TurnInv
  <1>2. Sound(st, granted, n) /\ Sound(view, Shows, n) BY DEF TurnInv
  <1>3. tool \in Names
    <2>1. view.prompt \in 1..n BY <1>1, <1>2 DEF PressAllowTool, Offers, Sound
    <2>2. log[view.prompt] \in LogEntry BY <1>1, <2>1 DEF TypeOK
    <2> QED BY <2>2 DEF LogEntry
  <1>4. granted' = With(granted) BY DEF PressAllowTool
  <1>5. /\ st' = PermAllowTool(st, tool)
        /\ view' = Shown(PermAllowTool(view, tool))
    BY DEF PressAllowTool, Dispatch
  <1>6. UNCHANGED log BY DEF PressAllowTool, server
  <1> HIDE DEF tool
  <1>7. ASSUME NEW g \in Grants
        PROVE  /\ With(g) \in Grants /\ With(g).tools = g.tools \cup {tool}
               /\ With(g).turn = g.turn
    <2>1. g.tools \cup {tool} \in SUBSET Names BY <1>3 DEF Grants
    <2> QED BY <2>1 DEF Grants
  <1>8. ASSUME NEW g \in Grants, NEW s, Sound(s, g, n)
        PROVE  Sound(PermAllowTool(s, tool), With(g), n)
    <2>1. PermAllowTool(s, tool) \in ClientState
      <3>1. s.allowlist \cup {tool} \in SUBSET Names BY <1>3, <1>8 DEF Sound, ClientState
      <3> QED BY <1>8, <3>1 DEF Sound, ClientState, PermAllowTool
    <2>2. LET t == PermAllowTool(s, tool) IN
          /\ t.prompt = s.prompt /\ t.requestId = s.requestId
          /\ t.thinking = s.thinking /\ t.turnActive = s.turnActive
          /\ t.allowlist = s.allowlist \cup {tool} /\ t.allowAll = s.allowAll
      BY <1>8 DEF Sound, ClientState, PermAllowTool
    <2>3. With(g).tools = g.tools \cup {tool} /\ With(g).turn = g.turn BY <1>7
    <2> HIDE DEF With
    <2> QED BY <1>8, <2>1, <2>2, <2>3 DEF Sound
  <1>9. Shows' = With(Shows) BY <1>1, <1>4 DEF Shows, Grants
  <1> HIDE DEF With
  <1>10. Sound(st', granted', n) /\ Sound(view', Shows', n)
    <2>1. Sound(PermAllowTool(st, tool), With(granted), n)
          /\ Sound(PermAllowTool(view, tool), With(Shows), n)
      BY <1>1, <1>2, <1>8
    <2>2. Sound(Shown(PermAllowTool(view, tool)), With(Shows), n)
      BY <1>1, <1>7, <2>1, Reduced
    <2> QED BY <1>4, <1>5, <1>9, <2>1, <2>2
  <1>11. TypeOK'
    <2>1. st' \in ClientState /\ view' \in ClientState BY <1>10 DEF Sound
    <2>2. granted' \in Grants BY <1>1, <1>4, <1>7
    <2> QED BY <1>1, <2>1, <2>2, NothingAnswered
      DEF TypeOK, PressAllowTool, server, link, bounds
  <1> QED BY <1>6, <1>10, <1>11 DEF TurnInv

LEMMA PressAllowAllStep == TurnInv /\ PressAllowAll => TurnInv'
  <1> SUFFICES ASSUME TurnInv, PressAllowAll PROVE TurnInv' OBVIOUS
  <1> DEFINE n == Len(log)
  <1>1. /\ TypeOK /\ granted \in Grants /\ Shows \in Grants /\ n \in Nat
        /\ Shows.turn = TRUE
    BY ShowsMore DEF TurnInv
  <1>2. Sound(st, granted, n) /\ Sound(view, Shows, n) BY DEF TurnInv
  <1>3. /\ granted' \in Grants /\ granted'.tools = granted.tools
        /\ granted'.turn = TRUE /\ Shows' = Shows
    BY <1>1 DEF PressAllowAll, Grants, Shows
  <1>4. st' = PermAllowAllTurn(st) /\ view' = Shown(PermAllowAllTurn(view))
    BY DEF PressAllowAll, Dispatch
  <1>5. UNCHANGED log BY DEF PressAllowAll, server
  <1>6. ASSUME NEW g \in Grants, NEW h \in Grants, g.tools = h.tools, h.turn = TRUE,
               NEW s, Sound(s, g, n)
        PROVE  Sound(PermAllowAllTurn(s), h, n)
    <2>1. PermAllowAllTurn(s) \in ClientState
      BY <1>6 DEF Sound, ClientState, PermAllowAllTurn
    <2>2. LET t == PermAllowAllTurn(s) IN
          /\ t.prompt = s.prompt /\ t.requestId = s.requestId
          /\ t.thinking = s.thinking /\ t.turnActive = s.turnActive
          /\ t.allowlist = s.allowlist
      BY <1>6 DEF Sound, ClientState, PermAllowAllTurn
    <2> QED BY <1>6, <2>1, <2>2 DEF Sound
  <1>7. Sound(st', granted', n) /\ Sound(view', Shows, n)
    <2>1. Sound(PermAllowAllTurn(st), granted', n)
          /\ Sound(PermAllowAllTurn(view), Shows, n)
      BY <1>1, <1>2, <1>3, <1>6
    <2>2. Sound(Shown(PermAllowAllTurn(view)), Shows, n) BY <1>1, <2>1, Reduced
    <2> QED BY <1>4, <2>1, <2>2
  <1>8. TypeOK'
    <2>1. st' \in ClientState /\ view' \in ClientState BY <1>7 DEF Sound
    <2> QED BY <1>1, <1>3, <2>1, NothingAnswered
      DEF TypeOK, PressAllowAll, server, link, bounds
  <1> QED BY <1>3, <1>5, <1>7, <1>8 DEF TurnInv

\* The render shows the state of the reducer, and the effect answers at most
\* the question that is in it.
LEMMA RenderStep == TurnInv /\ Render => TurnInv'
  <1> SUFFICES ASSUME TurnInv, Render PROVE TurnInv' OBVIOUS
  <1> DEFINE n == Len(log)
  <1>1. /\ TypeOK /\ granted \in Grants /\ Shows \in Grants /\ n \in Nat
        /\ Shows.tools = granted.tools /\ Shows.turn = TRUE
    BY ShowsMore DEF TurnInv
  <1>2. Sound(st, granted, n) BY DEF TurnInv
  <1>3. UNCHANGED log /\ UNCHANGED granted BY DEF Render, server
  <1>4. Sound(view', Shows, n)
    <2>1. Sound(Shown(st), granted, n) BY <1>1, <1>2, Reduced
    <2>2. Sound(Shown(st), Shows, n) BY <1>1, <2>1, SoundStays
    <2> QED BY <2>2 DEF Render
  <1>5. Deps(st) \in Nat \X Nat \X (SUBSET Names) \X BOOLEAN
    BY <1>2 DEF Deps, Sound, ClientState
  <1>6. acted' \in {<<>>} \cup (Nat \X Nat \X (SUBSET Names) \X BOOLEAN)
    BY <1>5 DEF Render
  <1>7. Sound(st', granted, n) /\ answer' \in Answers
    <2>1. CASE answer' = NoAnswer /\ UNCHANGED st BY <1>2, <2>1, NothingAnswered
    <2>2. CASE /\ answer' = [to |-> AnswerTo(st), allow |-> TRUE, by |-> "effect"]
               /\ st' = PermissionAnswered(st)
      <3>1. AnswerTo(st) \in Nat BY <1>2 DEF Sound, ClientState, AnswerTo
      <3>2. Sound(st', granted, n) BY <1>1, <1>2, <2>2, Reduced
      <3> QED BY <2>2, <3>1, <3>2 DEF Answers
    <2> QED BY <2>1, <2>2 DEF Render
  <1>8. TypeOK'
    <2>1. st' \in ClientState /\ view' \in ClientState BY <1>4, <1>7 DEF Sound
    <2> QED BY <1>1, <1>6, <1>7, <2>1 DEF TypeOK, Render, server, link, bounds
  <1> QED BY <1>3, <1>4, <1>7, <1>8, ClientStep

\* An event that ends the turn leaves no allowance for it.
LEMMA ReceiveStep == TurnInv /\ Receive => TurnInv'
  <1> SUFFICES ASSUME TurnInv, Receive PROVE TurnInv' OBVIOUS
  <1> DEFINE n == Len(log)
             e == Head(wire)
  <1>1. /\ TypeOK /\ granted \in Grants /\ log \in Seq(LogEntry) /\ n \in Nat
        /\ Shows.turn = TRUE
    BY ShowsMore DEF TurnInv, TypeOK
  <1>2. Sound(st, granted, n) /\ Sound(view, Shows, n) BY DEF TurnInv
  <1>3. e \in 1..n /\ wire' \in Seq(1..n)
    <2>1. wire \in Seq(1..Len(log)) /\ wire # <<>> BY <1>1 DEF TypeOK, Receive
    <2>2. PICK S : S = 1..Len(log) OBVIOUS
    <2>3. Head(wire) \in S /\ Tail(wire) \in Seq(S) BY <2>1, <2>2
    <2> QED BY <2>2, <2>3 DEF Receive
  <1>4. st' = EventReceived(st, e) /\ UNCHANGED <<view, log>> BY DEF Receive, server
  <1>5. Sound(EventReceived(st, e), granted, n) BY <1>1, <1>2, <1>3, ReceivedSound
  <1>6. Sound(st', granted', n) /\ granted' \in Grants /\ Shows' = Shows
    <2>1. CASE UNCHANGED granted
      BY <1>1, <1>4, <1>5, <2>1 DEF Shows
    <2>2. CASE /\ log[e].kind = "turn_end" /\ ~ Ignored(st, e)
               /\ granted' = [granted EXCEPT !.turn = FALSE]
      <3>1. Shows' = Shows BY <1>1, <2>2, TurnOverShows
      <3>2. EventReceived(st, e).allowAll = FALSE
        <4>1. PICK u : u = [st EXCEPT
                 !.seen = IF Deduplicated(e) THEN @ \cup {e} ELSE @,
                 !.sessionId = IF @ # 0 \/ st.stopping THEN @ ELSE log[e].session]
          OBVIOUS
        <4>2. EventReceived(st, e) = TurnEnd(u)
          BY <2>2, <4>1 DEF EventReceived, Flags
        <4>3. "allowAll" \in DOMAIN u
          BY <1>2, <4>1 DEF Sound, ClientState
        <4> QED BY <4>2, <4>3 DEF TurnEnd, Quiet
      <3> QED BY <1>1, <1>4, <1>5, <2>2, <3>1, <3>2, TurnOverSound
    <2> QED BY <2>1, <2>2 DEF Receive
  <1>7. acted' \in {<<>>} \cup (Nat \X Nat \X (SUBSET Names) \X BOOLEAN)
    BY <1>1 DEF Receive, TypeOK
  <1>8. st' \in ClientState BY <1>6 DEF Sound
  <1> HIDE DEF e
  <1>9. TypeOK'
    BY <1>1, <1>3, <1>6, <1>7, <1>8, NothingAnswered
    DEF TypeOK, Receive, server, bounds
  <1> QED BY <1>2, <1>4, <1>6, <1>9 DEF TurnInv

LEMMA RepliedStep == TurnInv /\ Replied => TurnInv'
  <1> SUFFICES ASSUME TurnInv, Replied PROVE TurnInv' OBVIOUS
  <1> DEFINE n == Len(log)
  <1>1. TypeOK /\ granted \in Grants /\ n \in Nat BY DEF TurnInv, TypeOK
  <1>2. Sound(st, granted, n) /\ Sound(view, Shows, n) BY DEF TurnInv
  <1>3. PICK r : r = Head(replies) OBVIOUS
  <1>4. r \in Reply /\ replies' \in Seq(Reply) BY <1>1, <1>3 DEF Replied, TypeOK
  <1>5. r.session \in Nat BY <1>4 DEF Reply
  <1>6. /\ Sound(SessionStarted(st, r.session), granted, n)
        /\ Sound(ActiveSessionDetected(st, r.session), granted, n)
        /\ Sound(UserMessageSent(st), granted, n)
        /\ Sound(SessionStopped(st), granted, n)
    BY <1>1, <1>2, <1>5, Reduced
  <1>7. \/ st' = SessionStarted(st, r.session)
        \/ st' = ActiveSessionDetected(st, r.session)
        \/ st' = UserMessageSent(st)
        \/ st' = SessionStopped(st)
        \/ st' = st
    BY <1>3 DEF Replied
  <1>8. Sound(st', granted, n) /\ st' \in ClientState
    BY <1>2, <1>6, <1>7 DEF Sound
  <1>9. loading' \in BOOLEAN BY DEF Replied
  <1>10. TypeOK'
    BY <1>1, <1>4, <1>8, <1>9, NothingAnswered DEF TypeOK, Replied, server, bounds
  <1> QED BY <1>2, <1>8, <1>10, ClientStep DEF Replied, server

LEMMA RefreshedStep == TurnInv /\ Refreshed => TurnInv'
  <1> SUFFICES ASSUME TurnInv, Refreshed PROVE TurnInv' OBVIOUS
  <1> DEFINE n == Len(log)
  <1>1. TypeOK /\ granted \in Grants /\ n \in Nat /\ live \in Nat
    BY DEF TurnInv, TypeOK
  <1>2. Sound(st, granted, n) /\ Sound(view, Shows, n) BY DEF TurnInv
  <1>3. /\ Sound(ActiveSessionDetected(st, live), granted, n)
        /\ Sound(SessionStopped(st), granted, n)
    BY <1>1, <1>2, Reduced
  <1>4. Sound([ActiveSessionDetected(st, live) EXCEPT !.saved = live], granted, n)
    BY <1>1, <1>3, Reduced
  <1>5. Sound(st', granted, n) /\ st' \in ClientState
    BY <1>3, <1>4 DEF Refreshed, Sound
  <1>6. TypeOK'
    BY <1>1, <1>5, NothingAnswered DEF TypeOK, Refreshed, server, link, bounds
  <1> QED BY <1>2, <1>5, <1>6, ClientStep DEF Refreshed, server

LEMMA ConnectedStep == TurnInv /\ Connected => TurnInv'
  <1> SUFFICES ASSUME TurnInv, Connected PROVE TurnInv' OBVIOUS
  <1>1. TypeOK /\ granted \in Grants /\ Len(log) \in Nat BY DEF TurnInv, TypeOK
  <1>2. Sound(st, granted, Len(log)) /\ Sound(view, Shows, Len(log)) BY DEF TurnInv
  <1>3. Sound(StatusChanged(st, TRUE), granted, Len(log)) BY <1>1, <1>2, Reduced
  <1>4. Sound(st', granted, Len(log)) /\ st' \in ClientState
    BY <1>3 DEF Connected, Sound
  <1>5. wire' \in Seq(1..Len(log))
    <2>1. PICK n \in Nat : n = Len(log) BY <1>1
    <2>2. Emitted = 1..n BY <1>1, <2>1 DEF Emitted, TypeOK
    <2>3. [i \in 1..n |-> i] \in [1..n -> 1..n] OBVIOUS
    <2>4. [i \in 1..n |-> i] \in Seq(1..n) BY <2>1, <2>3, FunctionIsSeq
    <2> QED BY <2>1, <2>2, <2>4 DEF Connected
  <1>6. TypeOK'
    BY <1>1, <1>4, <1>5, NothingAnswered DEF TypeOK, Connected, server, bounds
  <1> QED BY <1>2, <1>4, <1>6, ClientStep DEF Connected, server

LEMMA DroppedStep == TurnInv /\ Dropped => TurnInv'
  <1> SUFFICES ASSUME TurnInv, Dropped PROVE TurnInv' OBVIOUS
  <1>1. TypeOK /\ granted \in Grants /\ Len(log) \in Nat BY DEF TurnInv, TypeOK
  <1>2. Sound(st, granted, Len(log)) /\ Sound(view, Shows, Len(log)) BY DEF TurnInv
  <1>3. Sound(StatusChanged(st, FALSE), granted, Len(log)) BY <1>1, <1>2, Reduced
  <1>4. Sound(st', granted, Len(log)) /\ st' \in ClientState
    BY <1>3 DEF Dropped, Sound
  <1>5. wire' \in Seq(1..Len(log)) /\ requests' \in Seq(Asks) BY DEF Dropped
  <1>6. replies' \in Seq(Reply)
    <2>1. Unanswered \in Seq(Asks)
      <3>1. PICK m \in Nat : m = Len(replies) BY <1>1 DEF TypeOK
      <3>2. DOMAIN replies = 1..m /\ \A i \in 1..m : replies[i].to \in Asks
        <4>1. PICK rs \in Seq(Reply) : rs = replies BY <1>1 DEF TypeOK
        <4>2. DOMAIN rs = 1..m BY <3>1, <4>1
        <4>3. \A i \in 1..m : rs[i] \in Reply BY <3>1, <4>1
        <4> QED BY <4>1, <4>2, <4>3 DEF Reply
      <3>3. [i \in 1..m |-> replies[i].to] \in Seq(Asks)
        <4>1. PICK f : f = [i \in 1..m |-> replies[i].to] OBVIOUS
        <4>2. f \in [1..m -> Asks] BY <3>2, <4>1
        <4> QED BY <3>1, <4>1, <4>2, FunctionIsSeq
      <3>4. requests \in Seq(Asks) BY <1>1 DEF TypeOK
      <3> QED BY <3>2, <3>3, <3>4, Concatenated DEF Unanswered
    <2>2. PICK asked \in Seq(Asks) : asked = Unanswered BY <2>1
    <2>3. PICK k \in Nat : k = Len(asked) BY <2>2
    <2>4. DOMAIN asked = 1..k /\ \A i \in 1..k : asked[i] \in Asks BY <2>2, <2>3
    <2>5. \A i \in 1..k :
            [to |-> asked[i], session |-> 0, refused |-> FALSE] \in Reply
      BY <2>4 DEF Reply
    <2>6. PICK f : f = [i \in 1..k |-> [to |-> asked[i], session |-> 0,
                                        refused |-> FALSE]]
      OBVIOUS
    <2>7. f \in [1..k -> Reply] BY <2>5, <2>6
    <2>8. f \in Seq(Reply) BY <2>3, <2>7, FunctionIsSeq
    <2> QED BY <2>2, <2>4, <2>6, <2>8 DEF Dropped
  <1>7. TypeOK'
    <2>1. UNCHANGED <<view, acted, granted, confirmStop, loading, live, sessions,
                      running, open, log, remote, presses>>
      BY DEF Dropped, server
    <2>2. drops' \in Nat /\ wire' = <<>> /\ answer' \in Answers
      BY <1>1, NothingAnswered DEF Dropped, TypeOK
    <2> QED BY <1>1, <1>4, <1>5, <1>6, <2>1, <2>2 DEF TypeOK
  <1> QED BY <1>2, <1>4, <1>7, ClientStep DEF Dropped, server

\* A page that is loaded again has no question, no turn, and the list of tools.
LEMMA ReloadStep == TurnInv /\ Reload => TurnInv'
  <1> SUFFICES ASSUME TurnInv, Reload PROVE TurnInv' OBVIOUS
  <1> DEFINE n == Len(log)
             none == [granted EXCEPT !.turn = FALSE]
  <1>1. /\ TypeOK /\ granted \in Grants /\ Shows \in Grants /\ n \in Nat
        /\ Shows.tools = granted.tools /\ Shows.turn = TRUE
    BY ShowsMore DEF TurnInv
  <1>2. Sound(st, granted, n) BY DEF TurnInv
  <1>3. granted' = none /\ none \in Grants /\ none.tools = granted.tools
    BY <1>1 DEF Reload, Grants
  <1>4. Sound(st', none, n)
    <2>1. st' \in ClientState BY <1>2 DEF Reload, initialState, Sound, ClientState
    <2>2. /\ st'.thinking = FALSE /\ st'.prompt = 0 /\ st'.requestId = 0
          /\ st'.allowlist = st.allowlist /\ st'.allowAll = FALSE
      BY DEF Reload, initialState
    <2> HIDE DEF none
    <2> QED BY <1>1, <1>2, <1>3, <2>1, <2>2 DEF Sound
  <1> HIDE DEF none
  <1>5. Sound(view', Shows, n)
    <2>1. Sound(Shown(st'), none, n) BY <1>1, <1>3, <1>4, Reduced
    <2>2. Sound(Shown(st'), Shows, n) BY <1>1, <1>3, <2>1, SoundStays DEF Sound
    <2> QED BY <2>2 DEF Reload
  <1>6. acted' \in {<<>>} \cup (Nat \X Nat \X (SUBSET Names) \X BOOLEAN)
    <2>1. Deps(st') \in Nat \X Nat \X (SUBSET Names) \X BOOLEAN
      BY <1>4 DEF Deps, Sound, ClientState
    <2> QED BY <2>1 DEF Reload
  <1>7. TypeOK'
    <2>1. st' \in ClientState /\ view' \in ClientState BY <1>4, <1>5 DEF Sound
    <2>2. /\ drops' \in Nat /\ wire' = <<>> /\ requests' = <<>> /\ replies' = <<>>
          /\ confirmStop' = FALSE /\ loading' = FALSE /\ answer' \in Answers
          /\ UNCHANGED <<live, sessions, running, open, log, remote, presses>>
      BY <1>1, NothingAnswered DEF Reload, TypeOK, server
    <2>3. wire' \in Seq(1..Len(log)') /\ requests' \in Seq(Asks) /\ replies' \in Seq(Reply)
      BY <2>2
    <2> QED BY <1>1, <1>3, <1>6, <2>1, <2>2, <2>3 DEF TypeOK
  <1>8. UNCHANGED log /\ Shows' = Shows
    <2>1. granted' = [granted EXCEPT !.turn = FALSE] BY DEF Reload
    <2> QED BY <1>1, <2>1, TurnOverShows DEF Reload, server
  <1> QED BY <1>3, <1>4, <1>5, <1>7, <1>8 DEF TurnInv

\* What the server emits takes nothing back.
LEMMA ServerStep ==
  ASSUME TurnInv, TypeOK', UNCHANGED client, NEW es \in Seq(LogEntry),
         Emit(es) \/ UNCHANGED <<log, wire>>
  PROVE  TurnInv'
  <1>1. TypeOK /\ granted \in Grants /\ Shows \in Grants /\ Len(log) \in Nat
    BY ShowsMore DEF TurnInv
  <1>2. Len(log)' \in Nat /\ Len(log) <= Len(log)'
    <2>1. CASE Emit(es) BY <1>1, <2>1, Emitting
    <2>2. CASE UNCHANGED <<log, wire>> BY <1>1, <2>2
    <2> QED BY <2>1, <2>2
  <1>3. UNCHANGED <<st, view, granted>> /\ Shows' = Shows BY DEF client, Shows
  <1>4. Sound(st, granted, Len(log)) /\ Sound(view, Shows, Len(log)) BY DEF TurnInv
  <1>5. Sound(st, granted, Len(log)') /\ Sound(view, Shows, Len(log)')
    BY <1>1, <1>2, <1>4, SoundStays
  <1> QED BY <1>3, <1>5 DEF TurnInv

LEMMA WorksStep ==
  ASSUME TurnInv, NEW kind \in Kinds, NEW tool \in ToolsOf(kind), Works(kind, tool)
  PROVE  TurnInv'
  <1>1. TypeOK /\ live \in Nat BY DEF TurnInv, TypeOK
  <1>2. Event(kind, tool) \in LogEntry
    <2>1. tool \in Names BY DEF ToolsOf, Names
    <2> QED BY <1>1, <2>1, TurnAssumption DEF Event, LogEntry
  <1>3. PICK es \in Seq(LogEntry) : es = <<Event(kind, tool)>>
    <2>1. <<Event(kind, tool)>> \in Seq(LogEntry) BY <1>2
    <2> QED BY <2>1
  <1>4. Emit(es) BY <1>3 DEF Works
  <1>5. log' \in Seq(LogEntry) /\ wire' \in Seq(1..Len(log)') BY <1>1, <1>4, Emitting
  <1>6. /\ UNCHANGED <<client, live, sessions, running, requests, replies, remote,
                       bounds>>
        /\ open' \in BOOLEAN /\ answer' \in Answers
    BY <1>1, NothingAnswered DEF Works, TypeOK
  <1>7. TypeOK' BY <1>1, <1>5, <1>6 DEF TypeOK, client, bounds
  <1> QED BY <1>4, <1>6, <1>7, ServerStep

LEMMA TurnEndsStep == TurnInv /\ TurnEnds => TurnInv'
  <1> SUFFICES ASSUME TurnInv, TurnEnds PROVE TurnInv' OBVIOUS
  <1>1. TypeOK /\ live \in Nat BY DEF TurnInv, TypeOK
  <1>2. /\ Event("end", NoTool) \in LogEntry /\ Event("turn_end", NoTool) \in LogEntry
        /\ Event("died", NoTool) \in LogEntry
    BY <1>1 DEF Event, LogEntry, Names
  <1>3. PICK es \in Seq(LogEntry) : Emit(es)
    <2>1. /\ (IF open THEN <<Event("end", NoTool)>> ELSE <<>>) \in Seq(LogEntry)
          /\ <<Event("turn_end", NoTool)>> \in Seq(LogEntry)
          /\ <<Event("died", NoTool)>> \in Seq(LogEntry)
      BY <1>2
    <2>2. (IF open THEN <<Event("end", NoTool)>> ELSE <<>>)
            \o <<Event("turn_end", NoTool)>> \in Seq(LogEntry)
      BY <2>1, Concatenated
    <2> QED BY <2>1, <2>2 DEF TurnEnds
  <1>4. log' \in Seq(LogEntry) /\ wire' \in Seq(1..Len(log)') BY <1>1, <1>3, Emitting
  <1>5. /\ UNCHANGED <<client, live, sessions, requests, replies, remote, bounds>>
        /\ open' \in BOOLEAN /\ running' \in BOOLEAN /\ answer' \in Answers
    BY <1>1, NothingAnswered DEF TurnEnds, TypeOK
  <1>6. TypeOK' BY <1>1, <1>4, <1>5 DEF TypeOK, client, bounds
  <1> QED BY <1>3, <1>5, <1>6, ServerStep

LEMMA HandlesStep == TurnInv /\ Handles => TurnInv'
  <1> SUFFICES ASSUME TurnInv, Handles PROVE TurnInv' OBVIOUS
  <1>1. TypeOK /\ live \in Nat /\ sessions \in Nat /\ <<>> \in Seq(LogEntry)
    BY DEF TurnInv, TypeOK
  <1>2. PICK r : r = Head(requests) OBVIOUS
  <1>3. r \in Asks /\ requests' \in Seq(Asks) BY <1>1, <1>2 DEF Handles, TypeOK
  <1>4. live' \in Nat /\ sessions' \in Nat
    <2>1. /\ \/ sessions' = sessions + 1
             \/ sessions' = sessions
          /\ \/ live' = sessions'
             \/ live' = 0
             \/ live' = live
      BY <1>2 DEF Handles
    <2> QED BY <1>1, <2>1
  <1>5. running' \in BOOLEAN BY <1>1 DEF Handles, TypeOK
  <1>6. replies' \in Seq(Reply)
    <2>1. PICK b \in BOOLEAN :
            b = ((r = "start" /\ live # 0) \/ (r = "input" /\ live = 0))
      OBVIOUS
    <2>2. PICK k \in Nat : k = IF b THEN 0 ELSE live' BY <1>4
    <2>3. [to |-> r, refused |-> b, session |-> k] \in Reply BY <1>3, <2>1, <2>2 DEF Reply
    <2>4. replies' = Append(replies, [to |-> r, refused |-> b, session |-> k])
      BY <1>2, <2>1, <2>2 DEF Handles
    <2> QED BY <1>1, <2>3, <2>4 DEF TypeOK
  <1>7. PICK es \in Seq(LogEntry) : Emit(es) \/ UNCHANGED <<log, wire>>
    <2>1. [Event("died", NoTool) EXCEPT !.session = live'] \in LogEntry
      BY <1>1, <1>4 DEF Event, LogEntry, Names
    <2>2. PICK e \in LogEntry : e = [Event("died", NoTool) EXCEPT !.session = live']
      BY <2>1
    <2>3. <<e>> \in Seq(LogEntry) OBVIOUS
    <2>4. Emit(<<e>>) \/ UNCHANGED <<log, wire>> BY <2>2 DEF Handles
    <2> QED BY <2>3, <2>4
  <1>8. log' \in Seq(LogEntry) /\ wire' \in Seq(1..Len(log)')
    <2>1. CASE Emit(es) BY <1>1, <2>1, Emitting
    <2>2. CASE UNCHANGED <<log, wire>> BY <1>1, <2>2 DEF TypeOK
    <2> QED BY <1>7, <2>1, <2>2
  <1>9. UNCHANGED <<client, open, remote, bounds>> /\ answer' \in Answers
    BY NothingAnswered DEF Handles
  <1>10. TypeOK'
    BY <1>1, <1>3, <1>4, <1>5, <1>6, <1>8, <1>9 DEF TypeOK, client, bounds
  <1> QED BY <1>7, <1>9, <1>10, ServerStep

(***************************************************************************)
(* Theorems.                                                               *)
(***************************************************************************)

LEMMA TurnInvInit == Init => TurnInv
  <1> SUFFICES ASSUME Init PROVE TurnInv OBVIOUS
  <1>1. TypeOK
    <2>1. st \in ClientState /\ view \in ClientState
      BY DEF Init, initialState, ClientState
    <2>2. acted \in Nat \X Nat \X (SUBSET Names) \X BOOLEAN BY DEF Init
    <2>3. granted \in Grants /\ answer \in Answers
      BY NothingAnswered DEF Init, Grants
    <2>4. Len(log) = 0 /\ log \in Seq(LogEntry) /\ wire \in Seq(1..Len(log)) BY DEF Init
    <2>5. requests \in Seq(Asks) /\ replies \in Seq(Reply) BY DEF Init
    <2>6. /\ confirmStop \in BOOLEAN /\ loading \in BOOLEAN /\ running \in BOOLEAN
          /\ open \in BOOLEAN /\ remote \in BOOLEAN
      BY Zenon DEF Init
    <2>7. live \in Nat /\ sessions \in Nat /\ presses \in Nat /\ drops \in Nat
      BY DEF Init
    <2> QED BY <2>1, <2>2, <2>3, <2>4, <2>5, <2>6, <2>7 DEF TypeOK
  <1>2. Sound(st, granted, Len(log)) /\ Sound(view, Shows, Len(log))
    BY <1>1 DEF Init, initialState, Sound, TypeOK
  <1> QED BY <1>1, <1>2 DEF TurnInv

LEMMA TurnInvStep == TurnInv /\ [Next]_vars => TurnInv'
  <1> SUFFICES ASSUME TurnInv, [Next]_vars PROVE TurnInv' OBVIOUS
  <1>1. CASE Next
    BY <1>1, PressSendStep, PressAbortStep, PressAnswerStep, PressAllowToolStep,
       PressAllowAllStep, PressBarStep, PressStopStep, ConfirmLapsesStep, RenderStep,
       ReceiveStep, RepliedStep, RefreshedStep, ConnectedStep, DroppedStep,
       ReloadStep, WorksStep, TurnEndsStep, HandlesStep
    DEF Next
  <1>2. CASE UNCHANGED vars
    <2>1. TypeOK' BY <1>2 DEF TurnInv, TypeOK, vars, client, server, link, bounds
    <2> QED BY <1>2, <2>1, ClientStep DEF TurnInv, vars, client, server
  <1> QED BY <1>1, <1>2

\* What is rendered and what the reducer has are sound at all times, however
\* far one is behind the other.
THEOREM TurnInvariant == Spec => []TurnInv
  BY TurnInvInit, TurnInvStep, PTL DEF Spec

\* All that the client and the server keep is what the code can hold there.
THEOREM TypeCorrect == Spec => []TypeOK
  <1>1. TurnInv => TypeOK BY DEF TurnInv
  <1> QED BY <1>1, TurnInvariant, PTL

\* The client thinks only within a turn, whatever ends the turn.
THEOREM ThinksInTurn == Spec => []ThinkingInTurn
  <1>1. TurnInv => ThinkingInTurn BY DEF TurnInv, Sound, ThinkingInTurn
  <1> QED BY <1>1, TurnInvariant, PTL

\* One step allows nothing but what AllowedByUser says.
Allows ==
  answer'.allow
    => \/ answer'.by = "user" /\ Offers(view) /\ answer'.to = view.prompt
       \/ /\ answer'.by = "effect"
          /\ log[answer'.to].tool \in granted.tools \/ granted.turn

\* The user allows the event that the buttons are shown for.
LEMMA PressAllows ==
  ASSUME TurnInv, NEW allow \in BOOLEAN, PressAnswer(allow) PROVE Allows
  <1>1. view.requestId \in {0, view.prompt} BY DEF TurnInv, Sound
  <1>2. AnswerTo(view) = view.prompt BY <1>1 DEF AnswerTo
  <1> QED BY <1>2 DEF PressAnswer, Allows

\* The effect allows what is covered as it runs, of the state of the reducer.
LEMMA RenderAllows ==
  ASSUME TurnInv, Render PROVE Allows
  <1>1. /\ st.requestId \in {0, st.prompt} /\ st.allowlist \subseteq granted.tools
        /\ st.allowAll => granted.turn
    BY DEF TurnInv, Sound
  <1>2. AnswerTo(st) = st.prompt BY <1>1 DEF AnswerTo
  <1>3. CASE answer' = NoAnswer BY <1>3 DEF NoAnswer, Allows
  <1>4. CASE /\ AutoAllowed(st)
             /\ answer' = [to |-> AnswerTo(st), allow |-> TRUE, by |-> "effect"]
    BY <1>1, <1>2, <1>4 DEF AutoAllowed, Allows
  <1> QED BY <1>3, <1>4 DEF Render

\* Nothing is allowed but what the user has been shown and allowed, or what is
\* covered at that moment by a tool allowed before or the turn that is allowed,
\* however questions, renders and presses overtake each other.
THEOREM AllowsAsTold == Spec => AllowedByUser
  <1>1. TurnInv /\ [Next]_vars => [Allows]_vars
    <2> SUFFICES ASSUME TurnInv, Next PROVE Allows OBVIOUS
    <2>1. CASE \E allow \in BOOLEAN : PressAnswer(allow) BY <2>1, PressAllows
    <2>2. CASE Render BY <2>2, RenderAllows
    <2>3. CASE answer' = NoAnswer BY <2>3 DEF NoAnswer, Allows
    <2>4. \/ \E allow \in BOOLEAN : PressAnswer(allow)
          \/ Render
          \/ answer' = NoAnswer
      BY DEF Next, PressSend, PressAbort, PressAllowTool, PressAllowAll, PressStart,
             PressApplyModel, PressStop, ConfirmLapses, Receive, Replied, Refreshed,
             Connected, Dropped, Reload, Works, TurnEnds, Handles
    <2> QED BY <2>1, <2>2, <2>3, <2>4
  <1>2. Spec => [][Allows]_vars BY <1>1, TurnInvariant, PTL DEF Spec
  <1>3. [][Allows]_vars => AllowedByUser BY PTL DEF Allows, AllowedByUser
  <1> QED BY <1>2, <1>3
=============================================================================
