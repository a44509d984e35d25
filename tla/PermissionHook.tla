--------------------------- MODULE PermissionHook ---------------------------
(***************************************************************************)
(* internal/hook/handler.go and the permission.respond handler of          *)
(* internal/ws/handler.go.  Claude POSTs a question to the hook's          *)
(* ServeHTTP, which registers it in the Registry with a channel, announces *)
(* it to every phone, and waits for a decision on the channel or for its   *)
(* context to end (the timeout, or Claude hanging up).  The read loop of   *)
(* every connection answers questions through Registry.Respond.            *)
(*                                                                         *)
(* Respond and Abort hold the registry's lock only while they look the id  *)
(* up and delete it; what they then do to the channel is a step of its     *)
(* own.  Request ids are fresh uuids: a request is named by its question.  *)
(* The model goes no further than a panic, which NeverPanics excludes.     *)
(***************************************************************************)
EXTENDS Naturals

CONSTANTS
  Requests,        \* the POSTs Claude makes
  Foreign,         \* those refused before Register: made for another
                   \* working directory, or malformed
  Phones,          \* the read loops that handle permission.respond
  DenyOnTimeout,   \* Handler.DenyOnTimeout
  None

ASSUME PermissionAssumption ==
  /\ Foreign \subseteq Requests
  /\ None \notin Requests \cup {"allow", "deny"}
  /\ DenyOnTimeout \in BOOLEAN

Decisions == {"allow", "deny"}

VARIABLES
  stage,     \* where ServeHTTP is with each request
  expired,   \* whether the request's ctx is done
  pending,   \* the ids in Registry.pending
  buffer,    \* the content of each request's channel, of capacity 1
  closed,    \* whether each request's channel is closed
  answer,    \* the behavior written in the HTTP response
  accepted,  \* the decision of the Respond that found the request pending
  pc,        \* where each read loop is
  asked,     \* local variable requestID of Respond
  choice,    \* local variable d of Respond
  acks,      \* how many times Respond returned true for a request (up to 2)
  panicked   \* a handler sent on, or closed, a closed channel

http == <<stage, expired, answer>>
channel == <<buffer, closed, panicked>>
local == <<pc, asked, choice>>
vars == <<stage, expired, pending, buffer, closed, answer, accepted, pc, asked,
          choice, acks, panicked>>

Stages == {"new", "ignored", "registered", "waiting", "aborting",
           "abortClose", "timedOut", "answered"}

TypeOK ==
  /\ stage \in [Requests -> Stages]
  /\ expired \in [Requests -> BOOLEAN]
  /\ pending \in SUBSET Requests
  /\ buffer \in [Requests -> Decisions \cup {None}]
  /\ closed \in [Requests -> BOOLEAN]
  /\ answer \in [Requests -> Decisions \cup {None}]
  /\ accepted \in [Requests -> Decisions \cup {None}]
  /\ pc \in [Phones -> {"idle", "send", "close"}]
  /\ asked \in [Phones -> Requests \cup {None}]
  /\ choice \in [Phones -> Decisions \cup {None}]
  /\ \A p \in Phones :
       pc[p] # "idle" => asked[p] \in Requests /\ choice[p] \in Decisions
  /\ acks \in [Requests -> 0..2]
  /\ panicked \in BOOLEAN

Init ==
  /\ stage = [q \in Requests |-> "new"]
  /\ expired = [q \in Requests |-> FALSE]
  /\ pending = {}
  /\ buffer = [q \in Requests |-> None]
  /\ closed = [q \in Requests |-> FALSE]
  /\ answer = [q \in Requests |-> None]
  /\ accepted = [q \in Requests |-> None]
  /\ pc = [p \in Phones |-> "idle"]
  /\ asked = [p \in Phones |-> None]
  /\ choice = [p \in Phones |-> None]
  /\ acks = [q \in Requests |-> 0]
  /\ panicked = FALSE

(***************************************************************************)
(* The channel of a request, made by Register with capacity 1.             *)
(***************************************************************************)
\* Mutant: the channel has no buffer, so that only a ServeHTTP that waits
\* takes the decision.
SendOnUnbuffered(q, d) ==
  /\ closed[q] \/ (buffer[q] = None /\ stage[q] = "waiting")
  /\ buffer' = [buffer EXCEPT ![q] = d]
  /\ UNCHANGED <<closed, panicked>>

SendOn(q, d) ==
  /\ closed[q] \/ buffer[q] = None            \* otherwise the sender blocks
  /\ IF closed[q]
       THEN panicked' = TRUE /\ UNCHANGED <<buffer, closed>>
       ELSE buffer' = [buffer EXCEPT ![q] = d] /\ UNCHANGED <<closed, panicked>>

CloseChan(q) ==
  /\ panicked' = (panicked \/ closed[q])
  /\ closed' = [closed EXCEPT ![q] = TRUE]
  /\ UNCHANGED buffer

(***************************************************************************)
(* ServeHTTP.                                                              *)
(***************************************************************************)
InServeHTTP(q, s) == ~ panicked /\ stage[q] = s
Proceed(q, s) == stage' = [stage EXCEPT ![q] = s]

Ignore(q) ==
  /\ InServeHTTP(q, "new")
  /\ q \in Foreign
  /\ Proceed(q, "ignored")
  /\ UNCHANGED <<expired, pending, answer, accepted, acks, channel, local>>

Register(q) ==
  /\ InServeHTTP(q, "new")
  /\ q \notin Foreign
  /\ pending' = pending \cup {q}
  /\ Proceed(q, "registered")
  /\ UNCHANGED <<expired, answer, accepted, acks, channel, local>>

\* h.Broadcast(ev), then the context with its timeout is created.
Announce(q) ==
  /\ InServeHTTP(q, "registered")
  /\ Proceed(q, "waiting")
  /\ UNCHANGED <<expired, pending, answer, accepted, acks, channel, local>>

\* The timeout elapses, or Claude closes its connection.
Expire(q) ==
  /\ InServeHTTP(q, "waiting")
  /\ ~ expired[q]
  /\ expired' = [expired EXCEPT ![q] = TRUE]
  /\ UNCHANGED <<stage, pending, answer, accepted, acks, channel, local>>

\* The first branch of the select; an empty closed channel means "deny".
Receive(q) ==
  /\ InServeHTTP(q, "waiting")
  /\ buffer[q] # None \/ closed[q]
  /\ answer' = [answer EXCEPT ![q] = IF buffer[q] = None
                                       THEN "deny" ELSE buffer[q]]
  /\ buffer' = [buffer EXCEPT ![q] = None]
  /\ Proceed(q, "answered")
  /\ UNCHANGED <<expired, pending, accepted, acks, closed, panicked, local>>

\* The second branch, which select may take although a decision is ready.
TimeOut(q) ==
  /\ InServeHTTP(q, "waiting")
  /\ expired[q]
  /\ Proceed(q, "aborting")
  /\ UNCHANGED <<expired, pending, answer, accepted, acks, channel, local>>

\* Mutant: the channel is closed although the id was not found.
AbortTakeUnchecked(q) ==
  /\ InServeHTTP(q, "aborting")
  /\ pending' = pending \ {q}
  /\ Proceed(q, "abortClose")
  /\ UNCHANGED <<expired, answer, accepted, acks, channel, local>>

\* Registry.Abort.
AbortTake(q) ==
  /\ InServeHTTP(q, "aborting")
  /\ pending' = pending \ {q}
  /\ Proceed(q, IF q \in pending THEN "abortClose" ELSE "timedOut")
  /\ UNCHANGED <<expired, answer, accepted, acks, channel, local>>

AbortClose(q) ==
  /\ InServeHTTP(q, "abortClose")
  /\ CloseChan(q)
  /\ Proceed(q, "timedOut")
  /\ UNCHANGED <<expired, pending, answer, accepted, acks, local>>

\* Mutant: the setting is read the wrong way round.
AnswerTimeoutInverted(q) ==
  /\ InServeHTTP(q, "timedOut")
  /\ answer' = [answer EXCEPT ![q] = IF DenyOnTimeout THEN "allow" ELSE "deny"]
  /\ Proceed(q, "answered")
  /\ UNCHANGED <<expired, pending, accepted, acks, channel, local>>

AnswerTimeout(q) ==
  /\ InServeHTTP(q, "timedOut")
  /\ answer' = [answer EXCEPT ![q] = IF DenyOnTimeout THEN "deny" ELSE "allow"]
  /\ Proceed(q, "answered")
  /\ UNCHANGED <<expired, pending, accepted, acks, channel, local>>

(***************************************************************************)
(* handlePermissionRespond: a frame may come from any phone, for any       *)
(* question announced so far, any number of times and however late (new    *)
(* subscribers are shown old questions again).                             *)
(***************************************************************************)
Announced(q) == stage[q] \notin {"new", "ignored", "registered"}

\* Mutant: the id is looked up but not deleted.
RespondTakeKeeps(p, q, d) ==
  /\ ~ panicked
  /\ pc[p] = "idle"
  /\ Announced(q)
  /\ q \in pending
  /\ pc' = [pc EXCEPT ![p] = "send"]
  /\ asked' = [asked EXCEPT ![p] = q]
  /\ choice' = [choice EXCEPT ![p] = d]
  /\ accepted' = [accepted EXCEPT ![q] = d]
  /\ UNCHANGED <<http, pending, acks, channel>>

RespondTake(p, q, d) ==
  /\ ~ panicked
  /\ pc[p] = "idle"
  /\ Announced(q)
  /\ pending' = pending \ {q}
  /\ IF q \in pending
       THEN /\ pc' = [pc EXCEPT ![p] = "send"]
            /\ asked' = [asked EXCEPT ![p] = q]
            /\ choice' = [choice EXCEPT ![p] = d]
            /\ accepted' = [accepted EXCEPT ![q] = d]
       ELSE UNCHANGED <<accepted, local>>     \* false: ErrStaleRequest
  /\ UNCHANGED <<http, acks, channel>>

RespondSend(p) ==
  /\ ~ panicked
  /\ pc[p] = "send"
  /\ SendOn(asked[p], choice[p])
  /\ pc' = [pc EXCEPT ![p] = "close"]
  /\ UNCHANGED <<http, pending, accepted, acks, asked, choice>>

\* close(ch), and true is returned: the phone is told that all went well.
RespondClose(p) ==
  /\ ~ panicked
  /\ pc[p] = "close"
  /\ CloseChan(asked[p])
  /\ acks' = [acks EXCEPT ![asked[p]] = IF @ < 2 THEN @ + 1 ELSE @]
  /\ pc' = [pc EXCEPT ![p] = "idle"]
  /\ asked' = [asked EXCEPT ![p] = None]
  /\ choice' = [choice EXCEPT ![p] = None]
  /\ UNCHANGED <<http, pending, accepted>>

ServeHTTP(q) ==
  \/ Announce(q) \/ Receive(q) \/ TimeOut(q)
  \/ AbortTake(q) \/ AbortClose(q) \/ AnswerTimeout(q)

Respond(p) == RespondSend(p) \/ RespondClose(p)

Next ==
  \/ \E q \in Requests : Ignore(q) \/ Register(q) \/ Expire(q) \/ ServeHTTP(q)
  \/ \E p \in Phones :
       \/ \E q \in Requests, d \in Decisions : RespondTake(p, q, d)
       \/ Respond(p)

\* The handlers' goroutines are scheduled and the context's timer fires;
\* nothing makes Claude ask or a user answer.
Fairness ==
  /\ \A q \in Requests : WF_vars(Expire(q)) /\ WF_vars(ServeHTTP(q))
  /\ \A p \in Phones : WF_vars(Respond(p))

Spec == Init /\ [][Next]_vars
FairSpec == Spec /\ Fairness

-----------------------------------------------------------------------------
(***************************************************************************)
(* Properties.                                                             *)
(***************************************************************************)

\* Of all the answers to a question, from any number of phones and racing
\* with its timeout, at most one is acknowledged: the others are told that
\* the request is stale.
AckedOnce == \A q \in Requests : acks[q] <= 1

\* The channel of a question is never sent on or closed after it was closed,
\* whichever of Respond and Abort come: the panic would take the connection
\* of the phone, or of Claude, with it.
NeverPanics == ~ panicked

\* A question that Claude has been answered is not pending any more: the
\* registry does not leak, and an answer that comes later is refused.
AnsweredNotPending == \A q \in Requests : answer[q] # None => q \notin pending

\* The read loop that answers a question is never held up by it, though the
\* ServeHTTP that made the channel may have stopped listening to it.
RespondReturns == \A p \in Phones : (pc[p] # "idle") ~> (pc[p] = "idle")

(***************************************************************************)
(* The hook implements PermissionDecision: the verdict is the HTTP answer, *)
(* and what the users said is the decision the registry accepted.          *)
(***************************************************************************)
Verdict ==
  [q \in Requests |->
     IF answer[q] # None THEN answer[q]
     ELSE IF stage[q] \in {"new", "ignored"} THEN "unasked" ELSE "open"]

Decision == INSTANCE PermissionDecision WITH said <- accepted, verdict <- Verdict

\* Each question is decided once and in the end; "allow" only if the first
\* user who answered while it was open said so.
ImplementsDecision == Decision!Spec

\* The same without the promise that a decision comes.
ImplementsDecisionSafely == Decision!SafeSpec

\* handler.go:96, "writes the decision and closes the channel, waking the
\* HTTP handler that waits": the decision whose sender was told "ok" is the
\* one Claude gets.
AckedDecisionReachesClaude ==
  \A q \in Requests :
    acks[q] > 0 /\ answer[q] # None => answer[q] = accepted[q]
=============================================================================
