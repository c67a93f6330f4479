--------------------------- MODULE MCImportWizard ---------------------------
(* Instances of ImportWizard for TLC. *)
EXTENDS ImportWizard, TLC

CONSTANTS k1, k2, e1

MCParses == [t \in Types |-> IF t = "text" THEN Raws ELSE {"7"}]

(* The import defines k1 as an active field that is not required. *)
MCShapes ==
  k1 :> {[type |-> "number", active |-> FALSE, required |-> FALSE]}
  @@ k2 :> {[type |-> "text", active |-> TRUE, required |-> TRUE]}

(* One key at a time.  What is not a number comes from the file. *)
MCInputs == {[EmptyBag EXCEPT ![k] = "7"] : k \in Keys}

MCMappings == {[key |-> k1, type |-> t] : t \in Types}
MCCells == e1 :> "word"

WorkerSymmetry == Permutations(Workers)
=============================================================================
