------------------------------- MODULE MCPages -------------------------------
(***************************************************************************)
(* Symmetry for the run of Pages.                                          *)
(***************************************************************************)
EXTENDS Pages, TLC

Symmetric == Permutations(Tabs) \cup Permutations(Posts)
=============================================================================
