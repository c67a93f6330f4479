------------------------------ MODULE MCAccounts ------------------------------
(***************************************************************************)
(* A small instance of Accounts: the seeded administrator, a colleague and *)
(* one subject of one identity provider, whose name the colleague may have.*)
(***************************************************************************)
EXTENDS Accounts, TLC

MCNewUsers == {[name |-> "ann", role |-> "admin"]}

MCPatches ==
  {[name |-> "ann", role |-> NULL],
   [name |-> NULL, role |-> "view_only"]}

MCSettings == {[enabled |-> e, admits |-> Subjects] : e \in BOOLEAN}

MCSsoNames == [s \in Subjects |-> {"ann", "ann-2"}]

WorkerSymmetry == Permutations(Workers)
=============================================================================
