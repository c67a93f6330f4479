---------------------------- MODULE CustomFields ----------------------------
(***************************************************************************)
(* Custom attributes of employees: the registry of definitions             *)
(* (app/services/custom_fields.py, app/ui/custom_field_routes.py) and the  *)
(* bag of values that each employee carries in one JSON column             *)
(* (app/api/v1/employees.py, app/ui/employee_routes.py,                    *)
(* app/services/employee_import.py).                                       *)
(*                                                                         *)
(* Nothing in the database ties a bag to the registry.  A request reads    *)
(* both, decides, and commits later: a save writes back the whole bag it   *)
(* merged, a change of a definition the columns it changed.  An import     *)
(* reads each employee twice, to check the row and to merge it.            *)
(***************************************************************************)
EXTENDS Naturals, FiniteSets

CONSTANTS
  Workers,  \* requests that can be in flight at the same time
  Emps,     \* employee numbers
  Keys,     \* keys of custom fields
  Types,    \* data types
  Raws,     \* what a cell or an input can hold
  Parses,   \* for each type: the inputs it accepts
  Shapes,   \* for each key: the definitions an administrator can enter
  Inputs,   \* what a request can carry: for each key an input or nothing
  None      \* no definition, no value, nothing entered

ASSUME ParsesAssumption == Parses \in [Types -> SUBSET Raws]
ASSUME ShapesAssumption ==
  Shapes \in [Keys -> SUBSET [type : Types, active : BOOLEAN, required : BOOLEAN]]
ASSUME InputsAssumption == Inputs \subseteq [Keys -> Raws \cup {None}]
Definition == [type : Types, active : BOOLEAN, required : BOOLEAN]

(* A stored value: what coerce_value made of an input for a type. *)
Value == [type : Types, raw : Raws]
Bag == [Keys -> Value \cup {None}]
EmptyBag == [k \in Keys |-> None]

ASSUME NoneAssumption ==
  None \notin Keys /\ None \notin Raws /\ None \notin Definition
    /\ None \notin Value /\ None \notin Bag

VARIABLES
  field,  \* for each key: its definition, or None
  place,  \* for each employee: "absent", "roster" or "archived"
  bag,    \* for each employee: the custom values
  req     \* the request each worker is handling

fieldVars == <<field, place, bag, req>>

Places == {"idle", "commit", "classify", "apply", "finish"}
Operations == {"none", "create", "update", "delete", "save", "wizard"}

(* from and shape: the definition that an update loaded, or an import      *)
(* would add, and the one to store.                                        *)
(* plan: the bag to store for each employee of a save; fresh: those of     *)
(* them that it inserts; unmerged: those of an import for which plan has   *)
(* the row's own values only; touched: the keys it is about.  stale: the   *)
(* registry has changed since the request read it; raced: the employees    *)
(* whose bag or place has changed since it read them; shifted: those that  *)
(* changed between the check of their row and its merge.                   *)
Request == [at : Places, op : Operations, key : Keys \cup {None},
            from : Definition \cup {None}, shape : Definition \cup {None},
            plan : [Emps -> Bag \cup {None}], fresh : SUBSET Emps,
            unmerged : SUBSET Emps, shifted : SUBSET Emps,
            touched : SUBSET Keys, stale : BOOLEAN, raced : SUBSET Emps]

NoPlan == [e \in Emps |-> None]

Idle == [at |-> "idle", op |-> "none", key |-> None, from |-> None, shape |-> None,
         plan |-> NoPlan, fresh |-> {}, unmerged |-> {}, shifted |-> {},
         touched |-> {}, stale |-> FALSE, raced |-> {}]

FieldsInit ==
  /\ field = [k \in Keys |-> None]
  /\ place = [e \in Emps |-> "absent"]
  /\ bag = [e \in Emps |-> EmptyBag]
  /\ req = [w \in Workers |-> Idle]

Present == {e \in Emps : place[e] # "absent"}
Roster == {e \in Emps : place[e] = "roster"}

(* Another request in flight has read what is now out of date: a save read *)
(* the registry and a bag, a change of a definition the roster's bags.     *)
Disturb(r, registry, emps) ==
  [r EXCEPT !.stale = \/ @
                      \/ /\ registry /\ r.op \in {"save", "wizard"}
                         /\ r.at \in {"commit", "classify", "apply"},
            !.raced = IF r.at \in {"commit", "apply"} /\ r.op \in {"update", "save", "wizard"}
                      THEN @ \cup emps ELSE @]

(* Worker w goes on as next; the others learn what its commit changed. *)
Proceed(w, next, registry, emps) ==
  req' = [v \in Workers |-> IF v = w THEN next
                            ELSE Disturb(req[v], registry, emps)]

End(w) == req' = [req EXCEPT ![w] = Idle]

-----------------------------------------------------------------------------
(* Reading the registry.  f is the table of definitions as it is then. *)

Live(f) == {k \in Keys : f[k] # None /\ f[k].active}
Required(f) == {k \in Live(f) : f[k].required}
Complete(f, b) == \A k \in Required(f) : b[k] # None

Coerce(f, k, raw) ==
  IF f[k] # None /\ raw \in Parses[f[k].type] THEN [type |-> f[k].type, raw |-> raw]
  ELSE None

(* An input that its field's type rejects fails the whole record. *)
Accepted(f, keys, input) ==
  \A k \in keys : input[k] # None => Coerce(f, k, input[k]) # None

(* Keys without an active definition are ignored, blanks dropped. *)
Resolved(f, input) ==
  [k \in Keys |-> IF k \in Live(f) THEN Coerce(f, k, input[k]) ELSE None]

(* Broken on purpose: the values that were sent replace the bag. *)
OverlayOnlyNew(old, new) == new

Overlay(old, new) == [k \in Keys |-> IF new[k] # None THEN new[k] ELSE old[k]]

(* The form has an input for every active field; a blank one clears. *)
FormBag(f, old, input) ==
  [k \in Keys |-> IF k \in Live(f) THEN Coerce(f, k, input[k]) ELSE old[k]]

Has(k) == {e \in Roster : bag[e][k] # None}

-----------------------------------------------------------------------------
(* Saves: over the API, with the form, and from a CSV file.  What is       *)
(* refused changes nothing and is no step; nor is a save that leaves the   *)
(* bag as it is.                                                           *)

Save(w, plan, fresh, unmerged, touched) ==
  /\ req[w] = Idle
  /\ \E e \in Emps : plan[e] # None
  /\ req' = [req EXCEPT ![w] = [Idle EXCEPT !.at = "commit", !.op = "save",
               !.plan = plan, !.fresh = fresh, !.unmerged = unmerged,
               !.touched = touched]]
  /\ UNCHANGED <<field, place, bag>>

One(e, b) == [NoPlan EXCEPT ![e] = b]

Named(input) == {k \in Keys : input[k] # None}

ApiCreate(w, e, input) ==
  /\ e \notin Present
  /\ Accepted(field, Live(field), input)
  /\ Complete(field, Resolved(field, input))
  /\ Save(w, One(e, Resolved(field, input)), {e}, {}, Keys)

FormCreate(w, e, input) ==
  LET new == FormBag(field, EmptyBag, input)
  IN /\ e \notin Present
     /\ Accepted(field, Live(field), input) /\ Complete(field, new)
     /\ Save(w, One(e, new), {e}, {}, Keys)

ApiPatch(w, e, input) ==
  LET new == Overlay(bag[e], Resolved(field, input))
  IN /\ e \in Present
     /\ Accepted(field, Live(field), input) /\ Complete(field, new)
     /\ new # bag[e]
     /\ Save(w, One(e, new), {}, {}, Named(input))

FormEdit(w, e, input) ==
  LET new == FormBag(field, bag[e], input)
  IN /\ e \in Present
     /\ Accepted(field, Live(field), input) /\ Complete(field, new)
     /\ new # bag[e]
     /\ Save(w, One(e, new), {}, {}, Live(field))

(* Broken on purpose: only the cells of the row are checked. *)
RowAcceptedUnchecked(f, old, cells, values) == Accepted(f, Live(f), cells)

(* The check of a row, with the bag it finds; values is what its cells are *)
(* coerced to.                                                             *)
RowAccepted(f, old, cells, values) ==
  Accepted(f, Live(f), cells) /\ Complete(f, Overlay(old, values))

(* A file lists each of rows once, with a column for each of columns.  It  *)
(* is refused without a column for every required field.  A row without    *)
(* values leaves the bag of an employee who is there as it is.             *)
CsvImport(w, rows, columns, input) ==
  LET cells == [k \in Keys |-> IF k \in columns THEN input[k] ELSE None]
      values == Resolved(field, cells)
      taken == {e \in rows : /\ RowAccepted(field, bag[e], cells, values)
                             /\ e \in Present => values # EmptyBag}
      plan == [e \in Emps |-> IF e \in taken THEN values ELSE None]
  IN /\ Required(field) \subseteq columns
     /\ Save(w, plan, taken \ Present, taken \cap Present, Named(cells))

(* commit_preview reads the employee of a row again, and lays the values   *)
(* of the row over the bag it finds now.  A bag that stays as it is is not *)
(* written.  Nobody deletes an employee here, so none has vanished.        *)
Merge(w, e) ==
  LET r == req[w]
      new == Overlay(bag[e], r.plan[e])
  IN /\ e \in r.unmerged
     /\ req' = [req EXCEPT ![w] =
          [r EXCEPT !.plan[e] = IF new = bag[e] THEN None ELSE new,
                    !.unmerged = @ \ {e}, !.raced = @ \ {e},
                    !.shifted = IF e \in r.raced THEN @ \cup {e} ELSE @]]
     /\ UNCHANGED <<field, place, bag>>

Planned(w) == {e \in Emps : req[w].plan[e] # None}

Merged(w) == req[w].unmerged = {}

(* The insert of a number that another request has taken fails. *)
Inserts(w) == req[w].fresh \cap Present = {}

WriteBags(w) ==
  /\ bag' = [e \in Emps |-> IF e \in Planned(w) THEN req[w].plan[e] ELSE bag[e]]
  /\ place' = [e \in Emps |-> IF e \in req[w].fresh THEN "roster" ELSE place[e]]

CommitSave(w) ==
  /\ req[w].at = "commit" /\ req[w].op = "save" /\ Merged(w) /\ Inserts(w)
  /\ WriteBags(w)
  /\ Proceed(w, Idle, FALSE, Planned(w))
  /\ UNCHANGED field

(* Archiving and restoring look at no bag. *)
Archive(w, e) ==
  /\ req[w] = Idle /\ place[e] = "roster"
  /\ place' = [place EXCEPT ![e] = "archived"]
  /\ Proceed(w, Idle, FALSE, {e})
  /\ UNCHANGED <<field, bag>>

Restore(w, e) ==
  /\ req[w] = Idle /\ place[e] = "archived"
  /\ place' = [place EXCEPT ![e] = "roster"]
  /\ Proceed(w, Idle, FALSE, {e})
  /\ UNCHANGED <<field, bag>>

-----------------------------------------------------------------------------
(* The registry.  A field that becomes required while the roster lacks     *)
(* values needs a confirmation, which the administrator may give: the      *)
(* check refuses nothing.                                                  *)

Change(w, op, k, from, shape) ==
  /\ req[w] = Idle
  /\ req' = [req EXCEPT ![w] = [Idle EXCEPT !.at = "commit", !.op = op, !.key = k,
                                            !.from = from, !.shape = shape]]
  /\ UNCHANGED <<field, place, bag>>

CreateField(w, k, shape) == Change(w, "create", k, None, shape)

(* Broken on purpose: only a required field keeps its type. *)
MayRetypeUnlessRequired(k, shape) ==
  shape.type # field[k].type => ~field[k].required \/ Has(k) = {}

(* _validate: a field that holds data on the roster keeps its type. *)
MayRetype(k, shape) == shape.type # field[k].type => Has(k) = {}

UpdateField(w, k, shape) ==
  /\ field[k] # None /\ shape # field[k]
  /\ MayRetype(k, shape)
  /\ Change(w, "update", k, field[k], shape)

DeleteField(w, k) == field[k] # None /\ Change(w, "delete", k, None, None)

(* The columns the form changed; the others stay as another left them. *)
Edited(r) ==
  LET now == field[r.key]
      Pick(new, old, cur) == IF new # old THEN new ELSE cur
  IN [type |-> Pick(r.shape.type, r.from.type, now.type),
      active |-> Pick(r.shape.active, r.from.active, now.active),
      required |-> Pick(r.shape.required, r.from.required, now.required)]

(* The key is unique, and a row that is gone cannot be updated. *)
Refused(r) ==
  \/ r.op = "create" /\ field[r.key] # None
  \/ r.op = "update" /\ field[r.key] = None

CommitField(w) ==
  LET r == req[w]
  IN /\ r.at = "commit" /\ r.op \in {"create", "update", "delete"}
     /\ ~Refused(r)
     /\ field' = [field EXCEPT ![r.key] = IF r.op = "update" THEN Edited(r)
                                          ELSE r.shape]
     /\ Proceed(w, Idle, TRUE, {})
     /\ UNCHANGED <<place, bag>>

(* A conflict found at the commit: an answer, and nothing written. *)
CommitRefused(w) ==
  /\ req[w].at = "commit"
  /\ IF req[w].op = "save" THEN Merged(w) /\ ~Inserts(w) ELSE Refused(req[w])
  /\ End(w)
  /\ UNCHANGED <<field, place, bag>>

Saves(w) ==
  \/ \E e \in Emps, input \in Inputs :
       ApiCreate(w, e, input) \/ FormCreate(w, e, input)
         \/ ApiPatch(w, e, input) \/ FormEdit(w, e, input)
  \/ \E rows \in SUBSET Emps, columns \in SUBSET Keys, input \in Inputs :
       CsvImport(w, rows, columns, input)
  \/ CommitSave(w)
  \/ \E e \in Emps : Merge(w, e) \/ Archive(w, e) \/ Restore(w, e)

Registry(w) ==
  \/ \E k \in Keys : \/ \E shape \in Shapes[k] : CreateField(w, k, shape) \/ UpdateField(w, k, shape)
                    \/ DeleteField(w, k)
  \/ CommitField(w) \/ CommitRefused(w)

-----------------------------------------------------------------------------
FieldsTypeOK ==
  /\ field \in [Keys -> Definition \cup {None}]
  /\ place \in [Emps -> {"absent", "roster", "archived"}]
  /\ bag \in [Emps -> Bag]
  /\ \A e \in Emps : place[e] = "absent" => bag[e] = EmptyBag
  /\ req \in [Workers -> Request]

Mistyped(e, k) ==
  field[k] # None /\ bag[e][k] # None /\ bag[e][k].type # field[k].type

(* The request that takes this step's commit. *)
Commits(w, ops) == req[w].op \in ops /\ req'[w].at # req[w].at

(* "Re-typing a field that holds data would leave the bag inconsistent     *)
(* with the registry": a value gets out of step with the type of its field *)
(* in three ways only.  The field is defined anew over what a deleted one  *)
(* left, or re-typed while the value is out of the roster's sight or is    *)
(* just being saved, or the registry or the bag changed under a save.      *)
ValuesFollowTypes ==
  [][\A e \in Emps, k \in Keys : Mistyped(e, k)' /\ ~Mistyped(e, k) =>
       \/ field[k] = None
       \/ \E w \in Workers : /\ Commits(w, {"update"}) /\ req[w].key = k
                             /\ place[e] = "archived" \/ e \in req[w].raced
       \/ \E w \in Workers : /\ Commits(w, {"save", "wizard"})
                             /\ req[w].stale \/ e \in req[w].raced]_fieldVars

(* "A record can never be saved in a state that violates the registry":    *)
(* whichever way a bag is written, what is stored has a value for every    *)
(* required field, whatever the bag had before, unless the registry has    *)
(* changed since the request read it, or an import merges a row into a bag *)
(* that is not the one it was checked with.                                *)
SavedComplete ==
  [][\A e \in Emps : bag'[e] # bag[e] \/ (e \notin Present /\ place'[e] # "absent") =>
       \/ Complete(field', bag'[e])
       \/ \E w \in Workers : /\ Commits(w, {"save", "wizard"})
                             /\ req[w].stale \/ e \in req[w].shifted]_fieldVars

(* A save keeps the values it is not about, those of inactive fields and   *)
(* of deleted ones too, unless another save came between (that one's       *)
(* values are lost, since the whole bag is written).                       *)
OtherValuesKept ==
  [][\A e \in Emps, k \in Keys : bag'[e][k] # bag[e][k] =>
       \E w \in Workers : /\ Commits(w, {"save", "wizard"})
                          /\ k \in req[w].touched \/ e \in req[w].raced]_fieldVars
=============================================================================
