----------------------------- MODULE MCEventHub -----------------------------
(***************************************************************************)
(* Instances of EventHub for TLC.                                          *)
(***************************************************************************)
EXTENDS EventHub, TLC

\* Connections are interchangeable.
Symmetry == Permutations(Conns)
=============================================================================
