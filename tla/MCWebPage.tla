----------------------------- MODULE MCWebPage -----------------------------
(* Values for the constants of WebPage, and the symmetry of its names. *)
EXTENDS WebPage

CONSTANTS t1, t2

\* The browser has stored nothing yet, or two texts.
StoredHistories == {<<>>, <<t1, t2>>}
PageSymmetry == Permutations(Files) \cup Permutations(Cwds) \cup Permutations(Settings)
=============================================================================
