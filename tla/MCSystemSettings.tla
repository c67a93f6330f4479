-------------------------- MODULE MCSystemSettings --------------------------
(***************************************************************************)
(* Instances of SystemSettings for TLC: a backup of another instance,      *)
(* which has a provider and keeps its events forever, and one of this      *)
(* instance from before it had a key.  As many keys can be drawn as        *)
(* requests can find none.                                                 *)
(***************************************************************************)
EXTENDS SystemSettings, TLC

CONSTANTS ours1, ours2

MCKeys == {"theirs", ours1, ours2}

MCArchives ==
  {[content |-> [window |-> 0, secret |-> "theirs", old |-> TRUE], key |-> "theirs"],
   [content |-> [window |-> 30, secret |-> None, old |-> FALSE], key |-> None]}

WorkerKeySymmetry == Permutations(Workers) \cup Permutations({ours1, ours2})
=============================================================================
