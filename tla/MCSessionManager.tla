-------------------------- MODULE MCSessionManager --------------------------
(***************************************************************************)
(* SessionManager for TLC, with a variable that remembers whether requests *)
(* have overlapped: some of what the manager promises it only keeps to     *)
(* callers that come one after the other.                                  *)
(***************************************************************************)
EXTENDS SessionManager, TLC

VARIABLE overlapped   \* two callers were in the middle of a request at once

MCInit == Init /\ overlapped = FALSE

MCNext ==
  /\ Next
  /\ overlapped' = (overlapped \/ Cardinality({c \in Callers : pc'[c] # "idle"}) > 1)

MCSpec == MCInit /\ [][MCNext]_<<vars, overlapped>>

\* Callers, process runners and ClaudeRunners are interchangeable within
\* their sets.
Symmetry == Permutations(Callers) \cup Permutations(Runners \ ClaudeRunners)
              \cup Permutations(ClaudeRunners)

\* manager.go:62, "requires that there is no active runner": whichever of
\* Start, Restart and Stop the callers make, one after the other, and however
\* runners fail, exit and are killed meanwhile, two are never running at the
\* same time.
OneRunsInTurn == ~overlapped => SingleLiveRunner

\* Of callers that come one after the other, none leaves a runner running
\* that Write, Abort and Stop cannot reach through m.active.
ReachableInTurn == ~overlapped => LiveRunnerReachable

\* No sequence of requests makes Start send on, or Close close, the channels
\* of a ClaudeRunner that were closed, unless requests overlapped.
NoPanicInTurn == ~overlapped => NeverPanics
=============================================================================
