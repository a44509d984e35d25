------------------------- MODULE PermissionDecision -------------------------
(***************************************************************************)
(* What the permission hook promises Claude, which asks before it runs a   *)
(* tool, and the users, who answer from their phones: the first answer to  *)
(* an open question is the one that counts; a question is decided once; it *)
(* is decided "allow" only if that answer is "allow" (or if the hook is    *)
(* configured to allow what nobody answers); and every question is decided *)
(* in the end, whether or not a user answers.                              *)
(***************************************************************************)
CONSTANTS
  Requests,       \* the questions Claude may ask
  DenyOnTimeout,  \* what becomes of a question nobody answers
  None            \* no answer yet

VARIABLES
  said,      \* the first answer to each question
  verdict    \* the decision on each question

vars == <<said, verdict>>

Decisions == {"allow", "deny"}

TypeOK ==
  /\ said \in [Requests -> Decisions \cup {None}]
  /\ verdict \in [Requests -> {"unasked", "open"} \cup Decisions]

Init ==
  /\ said = [q \in Requests |-> None]
  /\ verdict = [q \in Requests |-> "unasked"]

Ask(q) ==
  /\ verdict[q] = "unasked"
  /\ verdict' = [verdict EXCEPT ![q] = "open"]
  /\ UNCHANGED said

Say(q, d) ==
  /\ verdict[q] = "open"
  /\ said[q] = None
  /\ said' = [said EXCEPT ![q] = d]
  /\ UNCHANGED verdict

Decide(q, d) ==
  /\ verdict[q] = "open"
  /\ d = "allow" => said[q] = "allow" \/ ~ DenyOnTimeout
  /\ verdict' = [verdict EXCEPT ![q] = d]
  /\ UNCHANGED said

Next == \E q \in Requests :
  \/ Ask(q)
  \/ \E d \in Decisions : Say(q, d) \/ Decide(q, d)

SafeSpec == Init /\ [][Next]_vars
Spec == SafeSpec /\ \A q \in Requests :
                      WF_vars(\E d \in Decisions : Decide(q, d))
=============================================================================
