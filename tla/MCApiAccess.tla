----------------------------- MODULE MCApiAccess -----------------------------
(***************************************************************************)
(* Symmetry for the runs of ApiAccess.                                     *)
(***************************************************************************)
EXTENDS ApiAccess, TLC

Symmetric == Permutations(Workers) \cup Permutations(Keys)
=============================================================================
