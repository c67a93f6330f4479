--------------------------- MODULE EmployeeRules ---------------------------
(***************************************************************************)
(* What the employee API promises (docs/API.md, docs/SCHEMA.md, the        *)
(* docstrings of app/api/v1/employees.py): every operation is one step     *)
(* that checks its rules on the table it changes.                          *)
(*                                                                         *)
(* Terminate is the docstring's, not the code's: a second termination      *)
(* changes the date if it names one and nothing else.  EmployeeStore says  *)
(* where the code departs from it.                                         *)
(***************************************************************************)
EXTENDS EmployeeRecords

CONSTANTS
  NewRows,    \* bodies of POST: records [row |-> ..., ui |-> ...]
  Edits       \* bodies of PATCH and of the edit form

VARIABLES
  rows,       \* the employees table
  titleDept,  \* the department of each job title
  active      \* the statuses with is_active_status

rulesVars == <<rows, titleDept, active>>

Store(e, r) == rows' = [rows EXCEPT ![e] = r]

Create(e, new) ==
  /\ IsNextId(rows, e)
  /\ CreateAccepted(rows, titleDept, active, new.row, new.ui)
  /\ Store(e, new.row)

Update(e, edit) ==
  /\ rows[e] # NoRow
  /\ UpdateAccepted(rows, titleDept, active, e, edit)
  /\ Store(e, Overlay(rows[e], edit))

Archive(e) == rows[e] # NoRow /\ Store(e, Archived(rows[e]))

Restore(e) == rows[e] # NoRow /\ Store(e, Restored(rows[e]))

(* The date may be left to the server, which takes the day's. *)
Terminate(e, status, date) ==
  /\ rows[e] # NoRow
  /\ ~AlreadyTerminated(rows[e], active)
  /\ \E d \in IF date = NULL THEN Dates ELSE {date} :
       /\ TerminateAccepted(rows[e], d)
       /\ Store(e, Terminated(rows[e], status, d))

(* "returns 200 with the current state unchanged (except termination_date, *)
(* which will update if a new one is supplied)".                           *)
TerminateAgain(e, date) ==
  /\ rows[e] # NoRow
  /\ AlreadyTerminated(rows[e], active)
  /\ TerminateAccepted(rows[e], date)
  /\ Store(e, [rows[e] EXCEPT !.termination_date = date])

Reactivate(e, status, clear) ==
  /\ rows[e] # NoRow
  /\ ~rows[e].is_archived
  /\ Store(e, Reactivated(rows[e], status, clear))

(* Exactly the employees archived when they are deleted. *)
Purge ==
  rows' = Purged(rows, {e \in Present(rows) : rows[e].is_archived})

ChangeEmployees ==
  /\ Purge \/ \E e \in Ids :
       \/ \E new \in NewRows : Create(e, new)
       \/ \E edit \in Edits : Update(e, edit)
       \/ Archive(e)
       \/ Restore(e)
       \/ \E s \in Statuses, d \in Dates \cup {NULL} : Terminate(e, s, d)
       \/ \E d \in Dates : TerminateAgain(e, d)
       \/ \E s \in Statuses, b \in BOOLEAN : Reactivate(e, s, b)
  /\ Constraints(rows')
  /\ UNCHANGED <<titleDept, active>>

(* An administrator moves titles and flags statuses as they like. *)
ChangeLookups ==
  /\ titleDept' \in [Titles -> Departments]
  /\ active' \in SUBSET Statuses
  /\ UNCHANGED rows

RulesInit ==
  /\ rows = [e \in Ids |-> NoRow]
  /\ titleDept \in [Titles -> Departments]
  /\ active \in SUBSET Statuses

RulesSpec == RulesInit /\ [][ChangeEmployees \/ ChangeLookups]_rulesVars
=============================================================================
