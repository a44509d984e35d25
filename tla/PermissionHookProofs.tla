------------------------ MODULE PermissionHookProofs ------------------------
(***************************************************************************)
(* Proofs about PermissionHook, for any number of requests and phones.     *)
(***************************************************************************)
EXTENDS PermissionHook, TLAPS

(***************************************************************************)
(* The inductive invariant.  A request's channel belongs to whoever took   *)
(* its id out of the registry: the Respond or the Abort that did is the    *)
(* only one to touch it, and finds it empty and open.                      *)
(***************************************************************************)

\* p is in Respond with the channel of q.
Answering(p, q) == pc[p] # "idle" /\ asked[p] = q

Untouched(q) == buffer[q] = None /\ ~ closed[q] /\ acks[q] = 0

OneOwner ==
  \A p1, p2 \in Phones, q \in Requests :
    Answering(p1, q) /\ Answering(p2, q) => p1 = p2

PendingFree ==
  \A q \in pending :
    /\ stage[q] \in {"registered", "waiting", "aborting"}
    /\ Untouched(q) /\ accepted[q] = None
    /\ \A p \in Phones : ~ Answering(p, q)

AborterOwns ==
  \A q \in Requests :
    stage[q] = "abortClose" =>
      /\ q \notin pending
      /\ Untouched(q)
      /\ \A p \in Phones : ~ Answering(p, q)

ResponderOwns ==
  \A p \in Phones, q \in Requests :
    Answering(p, q) =>
      /\ q \notin pending
      /\ Announced(q)
      /\ ~ closed[q] /\ acks[q] = 0
      /\ pc[p] = "send" => buffer[q] = None
      /\ choice[p] = accepted[q]

UnregisteredUnused ==
  \A q \in Requests :
    stage[q] \in {"new", "ignored"} =>
      /\ q \notin pending
      /\ Untouched(q) /\ accepted[q] = None
      /\ \A p \in Phones : ~ Answering(p, q)

AcksClose == \A q \in Requests : acks[q] <= 1 /\ (acks[q] > 0 => closed[q])

BufferAccepted ==
  \A q \in Requests : buffer[q] # None => buffer[q] = accepted[q]

AnsweredStage ==
  \A q \in Requests :
    /\ answer[q] # None <=> stage[q] = "answered"
    /\ stage[q] \in {"timedOut", "answered"} => q \notin pending

IInv ==
  /\ TypeOK
  /\ NeverPanics
  /\ OneOwner
  /\ PendingFree
  /\ AborterOwns
  /\ ResponderOwns
  /\ UnregisteredUnused
  /\ AcksClose
  /\ BufferAccepted
  /\ AnsweredStage

(***************************************************************************)
(* Type correctness.                                                       *)
(***************************************************************************)

\* Every step of the hook's handlers and of the phones' read loops keeps the
\* variables within their types.
LEMMA TypeStep == TypeOK /\ [Next]_vars => TypeOK'
<1> SUFFICES ASSUME TypeOK, [Next]_vars PROVE TypeOK'
  OBVIOUS
<1> USE PermissionAssumption DEF TypeOK, Stages, Decisions, InServeHTTP,
        Proceed, http, channel, local
<1>1. ASSUME NEW q \in Requests, Ignore(q) \/ Register(q) \/ Expire(q)
      PROVE  TypeOK'
  <2>1. CASE Ignore(q)  BY <2>1 DEF Ignore
  <2>2. CASE Register(q)  BY <2>2 DEF Register
  <2>3. CASE Expire(q)  BY <2>3 DEF Expire
  <2> QED BY <1>1, <2>1, <2>2, <2>3
<1>2. ASSUME NEW q \in Requests, ServeHTTP(q)
      PROVE  TypeOK'
  <2>1. CASE Announce(q)
    BY <2>1 DEF Announce
  <2>2. CASE Receive(q)
    BY <2>2 DEF Receive
  <2>3. CASE TimeOut(q)
    BY <2>3 DEF TimeOut
  <2>4. CASE AbortTake(q)
    BY <2>4 DEF AbortTake
  <2>5. CASE AbortClose(q)
    BY <2>5 DEF AbortClose, CloseChan
  <2>6. CASE AnswerTimeout(q)
    BY <2>6 DEF AnswerTimeout
  <2> QED BY <1>2, <2>1, <2>2, <2>3, <2>4, <2>5, <2>6 DEF ServeHTTP
<1>3. ASSUME NEW p \in Phones, NEW q \in Requests, NEW d \in Decisions,
             RespondTake(p, q, d)
      PROVE  TypeOK'
  BY <1>3 DEF RespondTake
<1>4. ASSUME NEW p \in Phones, Respond(p)
      PROVE  TypeOK'
  <2>1. CASE RespondSend(p)
    <3>1. asked[p] \in Requests /\ choice[p] \in Decisions
      BY <2>1 DEF RespondSend
    <3>2. panicked' \in BOOLEAN
      BY <2>1, Zenon DEF RespondSend, SendOn
    <3>3. /\ buffer' \in [Requests -> Decisions \cup {None}]
          /\ closed' = closed
      BY <2>1, <3>1 DEF RespondSend, SendOn
    <3> QED
      BY <2>1, <3>2, <3>3 DEF RespondSend
  <2>2. CASE RespondClose(p)
    <3>1. asked[p] \in Requests
      BY <2>2 DEF RespondClose
    <3>2. panicked' \in BOOLEAN
      BY <2>2, <3>1, Zenon DEF RespondClose, CloseChan
    <3>3. acks' \in [Requests -> 0..2]
      BY <2>2, <3>1 DEF RespondClose
    <3> QED
      BY <2>2, <3>1, <3>2, <3>3 DEF RespondClose, CloseChan
  <2> QED BY <1>4, <2>1, <2>2 DEF Respond
<1>5. CASE UNCHANGED vars
  BY <1>5 DEF vars
<1> QED
  BY <1>1, <1>2, <1>3, <1>4, <1>5 DEF Next

(***************************************************************************)
(* Safety.                                                                 *)
(***************************************************************************)

\* Every step of the hook's handlers and of the phones' read loops keeps the
\* inductive invariant: whoever takes an id out of the registry is the only
\* one to touch its channel, and does so once.
LEMMA InvStep == IInv /\ [Next]_vars => IInv'
<1> SUFFICES ASSUME IInv, [Next]_vars PROVE IInv'
  OBVIOUS
<1>0. TypeOK'
  BY TypeStep DEF IInv
<1> USE <1>0, PermissionAssumption DEF IInv, TypeOK, NeverPanics, OneOwner, PendingFree,
        AborterOwns, ResponderOwns, UnregisteredUnused, AcksClose,
        BufferAccepted, AnsweredStage, Answering, Untouched, Announced,
        Decisions, Stages, InServeHTTP, Proceed, http, channel, local
<1>1. ASSUME NEW q \in Requests, Ignore(q)
      PROVE  IInv'
  BY <1>1 DEF Ignore
<1>2. ASSUME NEW q \in Requests, Register(q)
      PROVE  IInv'
  BY <1>2 DEF Register
<1>3. ASSUME NEW q \in Requests, Announce(q)
      PROVE  IInv'
  BY <1>3 DEF Announce
<1>4. ASSUME NEW q \in Requests, Expire(q)
      PROVE  IInv'
  BY <1>4 DEF Expire
<1>5. ASSUME NEW q \in Requests, Receive(q)
      PROVE  IInv'
  <2> USE <1>5 DEF Receive
  <2>1. AnsweredStage'
    OBVIOUS
  <2>2. BufferAccepted'
    OBVIOUS
  <2> QED
    BY <2>1, <2>2
<1>6. ASSUME NEW q \in Requests, TimeOut(q)
      PROVE  IInv'
  BY <1>6 DEF TimeOut
<1>7. ASSUME NEW q \in Requests, AbortTake(q)
      PROVE  IInv'
  <2> USE <1>7 DEF AbortTake
  <2>1. PendingFree'
    OBVIOUS
  <2>2. AborterOwns'
    OBVIOUS
  <2>3. AnsweredStage'
    OBVIOUS
  <2> QED
    BY <2>1, <2>2, <2>3
<1>8. ASSUME NEW q \in Requests, AbortClose(q)
      PROVE  IInv'
  <2> USE <1>8 DEF AbortClose, CloseChan
  <2>1. NeverPanics'
    OBVIOUS
  <2>2. AborterOwns'
    OBVIOUS
  <2>3. ResponderOwns'
    OBVIOUS
  <2>4. AcksClose'
    OBVIOUS
  <2> QED
    BY <2>1, <2>2, <2>3, <2>4
<1>9. ASSUME NEW q \in Requests, AnswerTimeout(q)
      PROVE  IInv'
  BY <1>9 DEF AnswerTimeout
<1>10. ASSUME NEW p \in Phones, NEW q \in Requests, NEW d \in Decisions,
             RespondTake(p, q, d)
      PROVE  IInv'
  <2> USE <1>10 DEF RespondTake
  <2>1. OneOwner'
    OBVIOUS
  <2>2. PendingFree'
    OBVIOUS
  <2>3. AborterOwns'
    OBVIOUS
  <2>4. ResponderOwns'
    OBVIOUS
  <2>5. UnregisteredUnused'
    OBVIOUS
  <2>6. BufferAccepted'
    OBVIOUS
  <2> QED
    BY <2>1, <2>2, <2>3, <2>4, <2>5, <2>6
<1>11. ASSUME NEW p \in Phones, RespondSend(p)
      PROVE  IInv'
  <2> USE <1>11 DEF RespondSend, SendOn
  <2>1. NeverPanics'
    OBVIOUS
  <2>2. ResponderOwns'
    OBVIOUS
  <2>3. PendingFree'
    OBVIOUS
  <2>4. BufferAccepted'
    OBVIOUS
  <2> QED
    BY <2>1, <2>2, <2>3, <2>4
<1>12. ASSUME NEW p \in Phones, RespondClose(p)
      PROVE  IInv'
  <2> USE <1>12 DEF RespondClose, CloseChan
  <2>1. NeverPanics'
    OBVIOUS
  <2>2. AborterOwns'
    OBVIOUS
  <2>3. ResponderOwns'
    OBVIOUS
  <2>4. AcksClose'
    OBVIOUS
  <2> QED
    BY <2>1, <2>2, <2>3, <2>4
<1>13. CASE UNCHANGED vars
  BY <1>13 DEF vars
<1>14. ASSUME NEW q \in Requests, ServeHTTP(q) PROVE IInv'
  BY <1>3, <1>5, <1>6, <1>7, <1>8, <1>9, <1>14 DEF ServeHTTP
<1>15. ASSUME NEW p \in Phones, Respond(p) PROVE IInv'
  BY <1>11, <1>12, <1>15 DEF Respond
<1> QED
  BY <1>1, <1>2, <1>4, <1>10, <1>13, <1>14, <1>15 DEF Next

\* The inductive invariant holds of every reachable state.
LEMMA Invariance == Spec => []IInv
<1>1. Init => IInv
  <2> SUFFICES ASSUME Init PROVE IInv
    OBVIOUS
  <2>1. TypeOK
    <3>1. stage \in [Requests -> Stages]
      BY DEF Init, Stages
    <3>2. /\ expired \in [Requests -> BOOLEAN]
          /\ closed \in [Requests -> BOOLEAN]
          /\ acks \in [Requests -> 0..2]
      BY DEF Init
    <3>3. /\ buffer \in [Requests -> Decisions \cup {None}]
          /\ answer \in [Requests -> Decisions \cup {None}]
          /\ accepted \in [Requests -> Decisions \cup {None}]
      BY DEF Init
    <3>4. /\ pc \in [Phones -> {"idle", "send", "close"}]
          /\ asked \in [Phones -> Requests \cup {None}]
          /\ choice \in [Phones -> Decisions \cup {None}]
          /\ \A p \in Phones : pc[p] = "idle"
      BY DEF Init
    <3> QED
      BY <3>1, <3>2, <3>3, <3>4 DEF Init, TypeOK
  <2> QED
    BY <2>1 DEF Init, IInv, NeverPanics, OneOwner, PendingFree, AborterOwns,
            ResponderOwns, UnregisteredUnused, AcksClose, BufferAccepted,
            AnsweredStage, Answering, Untouched
<1> QED
  BY <1>1, InvStep, PTL DEF Spec

\* Every variable of the hook and of the registry keeps its type, whatever
\* the number of questions and of phones.
THEOREM TypeCorrect == Spec => []TypeOK
<1>1. IInv => TypeOK
  BY DEF IInv
<1> QED
  BY <1>1, Invariance, PTL

\* Respond acknowledges at most one answer to each question.
THEOREM OneAcknowledgement == Spec => []AckedOnce
<1>1. IInv => AckedOnce
  BY DEF IInv, AckedOnce, AcksClose
<1> QED
  BY <1>1, Invariance, PTL

\* No interleaving of Respond and Abort sends on or closes a closed channel.
THEOREM ChannelSafety == Spec => []NeverPanics
<1>1. IInv => NeverPanics
  BY DEF IInv
<1> QED
  BY <1>1, Invariance, PTL

\* The registry holds no question that Claude has been answered.
THEOREM RegistryClean == Spec => []AnsweredNotPending
<1>1. IInv => AnsweredNotPending
  BY DEF IInv, AnsweredNotPending, AnsweredStage
<1> QED
  BY <1>1, Invariance, PTL

(***************************************************************************)
(* Refinement.                                                             *)
(***************************************************************************)

\* A step of the hook is a step of PermissionDecision on the question it is
\* about, or leaves what was said and decided as it was.
LEMMA DecisionStep == IInv /\ [Next]_vars => [Decision!Next]_(Decision!vars)
<1> SUFFICES ASSUME IInv, [Next]_vars
             PROVE  [Decision!Next]_(Decision!vars)
  OBVIOUS
<1> USE PermissionAssumption DEF IInv, TypeOK, Stages, Decisions, InServeHTTP, Proceed,
        http, channel, local, Decision!vars
<1>1. ASSUME NEW q \in Requests,
             \/ Ignore(q) \/ Announce(q) \/ Expire(q) \/ TimeOut(q)
             \/ AbortTake(q) \/ AbortClose(q)
      PROVE  UNCHANGED Decision!vars
  BY <1>1 DEF Ignore, Announce, Expire, TimeOut, AbortTake, AbortClose, Verdict
<1>2. ASSUME NEW q \in Requests, Register(q)
      PROVE  Decision!Ask(q)
  <2>1. stage[q] = "new" /\ answer[q] = None
    BY <1>2 DEF Register, AnsweredStage
  <2>2. /\ stage' = [stage EXCEPT ![q] = "registered"]
        /\ answer' = answer /\ accepted' = accepted
    BY <1>2 DEF Register
  <2>3. Verdict[q] = "unasked"
    BY <2>1 DEF Verdict
  <2>4. Verdict' = [Verdict EXCEPT ![q] = "open"]
    BY <2>1, <2>2 DEF Verdict
  <2> QED
    BY <2>2, <2>3, <2>4 DEF Decision!Ask
<1>3. ASSUME NEW q \in Requests, Receive(q)
      PROVE  Decision!Decide(q, answer'[q])
  BY <1>3 DEF Receive, Decision!Decide, Verdict, AnsweredStage, BufferAccepted
<1>4. ASSUME NEW q \in Requests, AnswerTimeout(q)
      PROVE  Decision!Decide(q, answer'[q])
  BY <1>4 DEF AnswerTimeout, Decision!Decide, Verdict, AnsweredStage
<1>5. ASSUME NEW p \in Phones, NEW q \in Requests, NEW d \in Decisions,
             RespondTake(p, q, d)
      PROVE  Decision!Say(q, d) \/ UNCHANGED Decision!vars
  BY <1>5 DEF RespondTake, Announced, Decision!Say, Verdict, AnsweredStage,
          PendingFree
<1>6. ASSUME NEW p \in Phones, Respond(p)
      PROVE  UNCHANGED Decision!vars
  BY <1>6 DEF Respond, RespondSend, RespondClose, Verdict
<1>7. ASSUME UNCHANGED vars
      PROVE  UNCHANGED Decision!vars
  BY <1>7 DEF vars, Verdict
<1>8. ASSUME NEW q \in Requests, Receive(q) \/ AnswerTimeout(q)
      PROVE  answer'[q] \in Decision!Decisions
  BY <1>8 DEF Receive, AnswerTimeout, Decision!Decisions
<1> QED
  BY <1>1, <1>2, <1>3, <1>4, <1>5, <1>6, <1>7, <1>8
  DEF Next, ServeHTTP, Decision!Next, Decision!Decisions

\* The hook implements the safety part of PermissionDecision: the first
\* answer to a question counts, it is decided once, and "allow" is never made
\* up.
THEOREM Refinement == Spec => ImplementsDecisionSafely
<1>1. Init => Decision!Init
  BY DEF Init, Decision!Init, Verdict
<1> QED
  BY <1>1, DecisionStep, Invariance, PTL
  DEF Spec, ImplementsDecisionSafely, Decision!SafeSpec
=============================================================================
