--------------------------- MODULE MCClaudeRunner ---------------------------
(***************************************************************************)
(* Instances of ClaudeRunner for TLC.                                      *)
(***************************************************************************)
EXTENDS ClaudeRunner, TLC

\* Callers are interchangeable.
Symmetry == Permutations(Callers)
=============================================================================
