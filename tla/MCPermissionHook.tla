-------------------------- MODULE MCPermissionHook --------------------------
(***************************************************************************)
(* Instances of PermissionHook for TLC.                                    *)
(***************************************************************************)
EXTENDS PermissionHook, TLC

\* Phones are interchangeable, and so are the requests that are registered.
Symmetry == Permutations(Phones) \cup Permutations(Requests \ Foreign)
=============================================================================
