---------------------------- MODULE ImportWizard ----------------------------
(***************************************************************************)
(* The data import wizard (app/ui/data_import_routes.py,                   *)
(* app/services/data_import.py) beside the other writers of the registry   *)
(* and of the bags.                                                        *)
(*                                                                         *)
(* A batch is mapped and resolved in steps that any administrator may      *)
(* repeat at any time: each loads the batch, waits for the form, and       *)
(* commits the columns that it makes different from those it loaded.  The  *)
(* request that commits the batch makes two commits: the definitions, the  *)
(* lookups and the employees first, the batch's own status second.         *)
(***************************************************************************)
EXTENDS CustomFields

CONSTANTS
  Mappings,    \* what the batch's column can be mapped to: a key and a type
  Cells        \* for each employee the file lists: the cell in that column

ASSUME MappingsAssumption == Mappings \subseteq [key : Keys, type : Types]
ASSUME CellsAssumption ==
  \E rows \in SUBSET Emps : Cells \in [rows -> Raws \cup {None}]

VARIABLES
  status,    \* of the batch
  mapping,   \* the column's target, None before the upload
  saving,    \* for each worker: the save of the mapping it handles, or None
  imported   \* whether the rows have been applied with this mapping: "never",
             \* "once", "again"; "unsure" once commits of the batch have
             \* overlapped, a mapping was saved under one, or one was cut off
             \* between its commits, or a save that had loaded the batch before
             \* left it committed

batchVars == <<status, mapping, saving, imported>>
vars == <<fieldVars, batchVars>>

Init ==
  /\ FieldsInit
  /\ status = "none" /\ mapping = None
  /\ saving = [w \in Workers |-> None]
  /\ imported = "never"

Rows == DOMAIN Cells

Committing == {w \in Workers : req[w].op = "wizard"}

Open == {"uploaded", "mapped", "resolved"}
Statuses == {"none", "committed"} \cup Open

(* What a save makes different from the batch it loaded, None for what     *)
(* stays as it was.                                                        *)
Saving == [status : {"mapped", "resolved", None}, target : Mappings \cup {None}]

Differs(old, new) == IF new = old THEN None ELSE new

Upload(m) ==
  /\ status = "none"
  /\ status' = "uploaded" /\ mapping' = m
  /\ UNCHANGED <<fieldVars, saving, imported>>

LoadBatch(w, next, target) ==
  /\ req[w] = Idle /\ status # "none"
  /\ saving' = [saving EXCEPT ![w] = [status |-> Differs(status, next),
                                       target |-> Differs(mapping, target)]]
  /\ UNCHANGED <<fieldVars, status, mapping, imported>>

(* save_map and save_resolve ask for no status: a committed batch is       *)
(* opened again, and one that is being committed too.                      *)
LoadMapping(w, m) == LoadBatch(w, "mapped", m)

LoadResolve(w) == LoadBatch(w, "resolved", mapping)

(* The ORM writes what differs.  A batch that another request has          *)
(* committed meanwhile stays committed if the save had loaded the very     *)
(* status that it sets.                                                    *)
CommitMapping(w) ==
  LET s == saving[w]
  IN /\ s # None
     /\ status' = IF s.status # None THEN s.status ELSE status
     /\ mapping' = IF s.target # None THEN s.target ELSE mapping
     /\ imported' = IF Committing # {} \/ status' = "committed" THEN "unsure"
                    ELSE "never"
     /\ saving' = [saving EXCEPT ![w] = None]
     /\ UNCHANGED fieldVars

-----------------------------------------------------------------------------
(* commit_batch loads the batch; from is the definition it would add. *)
BeginCommit(w) ==
  /\ req[w] = Idle /\ status \in Open
  /\ req' = [req EXCEPT ![w] = [Idle EXCEPT !.at = "classify", !.op = "wizard",
                                  !.from = [type |-> mapping.type, active |-> TRUE,
                                            required |-> FALSE],
                                  !.key = mapping.key, !.touched = {mapping.key}]]
  /\ imported' = IF Committing = {} THEN imported ELSE "unsure"
  /\ UNCHANGED <<field, place, bag, status, mapping, saving>>

(* A cell that the type rejects is dropped; inactive fields are written too. *)
RowValues(f, key, e) == [EmptyBag EXCEPT ![key] = Coerce(f, key, Cells[e])]

(* The values of the rows that are accepted when the definitions are f. *)
WizardPlan(f, key) ==
  [e \in Emps |->
     IF e \in Rows /\ RowAccepted(f, bag[e], EmptyBag, RowValues(f, key, e))
     THEN RowValues(f, key, e) ELSE None]

(* Broken on purpose: every row is taken for an update. *)
InsertedNone(plan) == {}

Inserted(plan) == {e \in Emps \ Present : plan[e] # None}

Store(plan) ==
  /\ bag' = [e \in Emps |-> IF plan[e] # None THEN Overlay(bag[e], plan[e]) ELSE bag[e]]
  /\ place' = [e \in Emps |-> IF e \in Inserted(plan) THEN "roster" ELSE place[e]]

Applied ==
  imported' = CASE imported = "never" -> "once"
                [] imported = "once" -> "again"
                [] OTHER -> imported

Finishing == [Idle EXCEPT !.at = "finish", !.op = "wizard"]

(* A key without a definition gets one: from that flush to the commit the  *)
(* request holds the database's write lock, and checks, merges and writes. *)
DefineAndApply(w) ==
  LET r == req[w]
      f == [field EXCEPT ![r.key] = r.from]
      plan == WizardPlan(f, r.key)
  IN /\ r.at = "classify" /\ field[r.key] = None
     /\ field' = f
     /\ Store(plan)
     /\ Applied
     /\ Proceed(w, Finishing, TRUE, {e \in Emps : plan[e] # None})
     /\ UNCHANGED <<status, mapping, saving>>

(* Otherwise it reads first and writes later. *)
Classify(w) ==
  LET r == req[w]
      plan == WizardPlan(field, r.key)
  IN /\ r.at = "classify" /\ field[r.key] # None
     /\ req' = [req EXCEPT ![w] = [r EXCEPT !.at = "apply", !.from = None, !.plan = plan,
                                     !.fresh = Inserted(plan),
                                     !.unmerged = {e \in Present : plan[e] # None},
                                     !.stale = FALSE, !.raced = {}]]
     /\ UNCHANGED <<field, place, bag, batchVars>>

Apply(w) ==
  /\ req[w].at = "apply" /\ Merged(w) /\ Inserts(w)
  /\ WriteBags(w)
  /\ Applied
  /\ Proceed(w, Finishing, FALSE, Planned(w))
  /\ UNCHANGED <<field, status, mapping, saving>>

(* Broken on purpose: nothing commits the status. *)
FinishUnsaved(w) ==
  /\ req[w].at = "finish"
  /\ End(w)
  /\ UNCHANGED <<field, place, bag, batchVars>>

Finish(w) ==
  /\ req[w].at = "finish"
  /\ status' = "committed"
  /\ End(w)
  /\ UNCHANGED <<field, place, bag, mapping, saving, imported>>

(* The definition or a number was added by another: the unique index       *)
(* refuses the insert, and the whole import is rolled back.                *)
ImportRefused(w) ==
  /\ \/ req[w].at = "classify" /\ req[w].stale /\ field[req[w].key] # None
     \/ req[w].at = "apply" /\ Merged(w) /\ ~Inserts(w)
  /\ End(w)
  /\ UNCHANGED <<field, place, bag, batchVars>>

(* A lock timeout, an unexpected error: what is not committed is lost. *)
Fail(w) ==
  /\ req[w] # Idle
  /\ End(w)
  /\ imported' = IF req[w].at = "finish" THEN "unsure" ELSE imported
  /\ UNCHANGED <<field, place, bag, status, mapping, saving>>

FailSaving(w) ==
  /\ saving[w] # None
  /\ saving' = [saving EXCEPT ![w] = None]
  /\ UNCHANGED <<fieldVars, status, mapping, imported>>

Restart ==
  /\ \E w \in Workers : req[w] # Idle \/ saving[w] # None
  /\ req' = [w \in Workers |-> Idle]
  /\ saving' = [w \in Workers |-> None]
  /\ imported' = IF \E w \in Workers : req[w].at = "finish" THEN "unsure" ELSE imported
  /\ UNCHANGED <<field, place, bag, status, mapping>>

Mapping(w) ==
  \/ \E m \in Mappings : LoadMapping(w, m)
  \/ LoadResolve(w)

Wizard(w) ==
  \/ BeginCommit(w) \/ DefineAndApply(w) \/ Classify(w) \/ Apply(w) \/ Finish(w)
  \/ ImportRefused(w) \/ Fail(w)

(* A worker handles one request at a time. *)
Next ==
  \/ \E w \in Workers : /\ saving[w] = None
                        /\ \/ (Saves(w) \/ Registry(w)) /\ UNCHANGED batchVars
                           \/ Mapping(w) \/ Wizard(w)
  \/ \E w \in Workers : CommitMapping(w) \/ FailSaving(w)
  \/ \E m \in Mappings : Upload(m)
  \/ Restart

Spec == Init /\ [][Next]_vars

-----------------------------------------------------------------------------
TypeOK ==
  /\ FieldsTypeOK
  /\ status \in Statuses
  /\ mapping \in Mappings \cup {None}
  /\ status # "none" => mapping \in Mappings
  /\ saving \in [Workers -> Saving \cup {None}]
  /\ imported \in {"never", "once", "again", "unsure"}

(* A batch is applied at most once for each mapping that was saved, and    *)
(* "committed" says that it was, unless commits of the batch overlapped,   *)
(* the mapping was saved under one, or by a request that had loaded the    *)
(* batch before and so left it committed, or a commit was cut off between  *)
(* its two parts.                                                          *)
AppliedOnce ==
  \/ imported = "unsure"
  \/ imported # "again" /\ (status = "committed" => imported = "once")
=============================================================================
