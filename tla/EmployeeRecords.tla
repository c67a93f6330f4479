-------------------------- MODULE EmployeeRecords --------------------------
(***************************************************************************)
(* The employees table of app/models/employee.py and the checks that       *)
(* app/services/employee_validation.py makes before a row is written.      *)
(*                                                                         *)
(* Everything here is a constant operator: the table, the job titles and   *)
(* the statuses are arguments, so that the same checks serve the atomic    *)
(* rules (EmployeeRules) and the handlers as they run (EmployeeStore).     *)
(*                                                                         *)
(* Names, addresses and contact data are left out: no check reads them.    *)
(* The pair state/country is validated by the same code shape as the pair  *)
(* job title/department and is not modelled twice.                         *)
(***************************************************************************)
EXTENDS Naturals

CONSTANTS
  MaxId,        \* bound: employee ids are 1..MaxId
  MaxDate,      \* bound: dates are 0..MaxDate
  Numbers,      \* spellings of employee numbers ("E1", "e1", ...)
  Canon,        \* the lower-cased form of each spelling
  Ssns,         \* social security numbers
  Departments,
  Titles,
  Statuses,     \* employment statuses
  NULL,
  NoRow         \* what the table holds at an id without a row

Ids == 1..MaxId
Dates == 0..MaxDate

(* The columns an update can set; archiving has its own operations. *)
Columns == {"employee_number", "ssn", "supervisor_id", "department_id",
            "job_title_id", "employment_status_id", "hire_date",
            "termination_date"}

(* archived_at is modelled by whether it is set. *)
Row == [employee_number      : Numbers,
        ssn                  : Ssns \cup {NULL},
        supervisor_id        : Ids \cup {NULL},
        department_id        : Departments \cup {NULL},
        job_title_id         : Titles \cup {NULL},
        employment_status_id : Statuses \cup {NULL},
        hire_date            : Dates \cup {NULL},
        termination_date     : Dates \cup {NULL},
        is_archived          : BOOLEAN,
        archived_at          : BOOLEAN]

(* The body of an update: the columns it names, and their values. A form   *)
(* of the web UI names every column, except a social security number left  *)
(* blank, and is also checked for its employee number.                     *)
Edit == [fields : SUBSET Columns, body : Row, ui : BOOLEAN]

Table == [Ids -> Row \cup {NoRow}]

ASSUME BoundsAssumption == MaxId \in Nat /\ MaxDate \in Nat
ASSUME NoRowAssumption  == NoRow \notin Row
ASSUME NullAssumption   == NULL \notin Ids /\ NULL \notin Ssns /\ NULL \notin Dates

Present(t) == {e \in Ids : t[e] # NoRow}

(* An INTEGER PRIMARY KEY without AUTOINCREMENT: a new row gets the id     *)
(* after the largest one present, so the id of a deleted row can return.   *)
IsNextId(t, e) ==
  /\ e = 1 \/ (e - 1) \in Present(t)
  /\ \A i \in Present(t) : i < e

-----------------------------------------------------------------------------
(* What the database itself enforces when a transaction commits. *)

NumbersUnique(t) ==
  \A i, j \in Present(t) : t[i].employee_number = t[j].employee_number => i = j

SsnsUnique(t) ==
  \A i, j \in Present(t) : t[i].ssn # NULL /\ t[i].ssn = t[j].ssn => i = j

SupervisorsExist(t) ==
  \A i \in Present(t) :
    t[i].supervisor_id # NULL => t[i].supervisor_id \in Present(t)

NoSelfSupervision(t) == \A i \in Present(t) : t[i].supervisor_id # i

Constraints(t) ==
  /\ NumbersUnique(t)
  /\ SsnsUnique(t)
  /\ SupervisorsExist(t)
  /\ NoSelfSupervision(t)

-----------------------------------------------------------------------------
(* What the handlers check before they write, on the row as it would be. *)

TitleFits(r, titleDept) ==
  r.job_title_id # NULL /\ r.department_id # NULL
    => titleDept[r.job_title_id] = r.department_id

(* A supervisor without a status raises instead of being refused: either   *)
(* way nothing is written.                                                 *)
SupervisorEligible(t, active, s) ==
  /\ s \in Present(t)
  /\ ~t[s].is_archived
  /\ t[s].employment_status_id \in active

DatesOrdered(r) ==
  r.hire_date # NULL /\ r.termination_date # NULL
    => r.hire_date <= r.termination_date

SsnFree(t, ssn, others) ==
  \A i \in Present(t) \cap others : t[i].ssn # ssn

NumberFreeIgnoringCase(t, number, others) ==
  \A i \in Present(t) \cap others : Canon[t[i].employee_number] # Canon[number]

(* The row an update produces: the columns of the body over the others. *)
Overlay(r, edit) ==
  LET value(c, new, old) == IF c \in edit.fields THEN new ELSE old
      b == edit.body
  IN [employee_number      |-> value("employee_number", b.employee_number, r.employee_number),
      ssn                  |-> value("ssn", b.ssn, r.ssn),
      supervisor_id        |-> value("supervisor_id", b.supervisor_id, r.supervisor_id),
      department_id        |-> value("department_id", b.department_id, r.department_id),
      job_title_id         |-> value("job_title_id", b.job_title_id, r.job_title_id),
      employment_status_id |-> value("employment_status_id", b.employment_status_id,
                                     r.employment_status_id),
      hire_date            |-> value("hire_date", b.hire_date, r.hire_date),
      termination_date     |-> value("termination_date", b.termination_date,
                                     r.termination_date),
      is_archived          |-> r.is_archived,
      archived_at          |-> r.archived_at]

(* update_employee: a pair is checked again when the body names either     *)
(* half of it, the dates always.                                           *)
UpdateAccepted(t, titleDept, active, e, edit) ==
  LET r == Overlay(t[e], edit)
      named(c) == c \in edit.fields
  IN /\ named("department_id") \/ named("job_title_id") => TitleFits(r, titleDept)
     /\ named("supervisor_id") /\ r.supervisor_id # NULL
          => r.supervisor_id # e /\ SupervisorEligible(t, active, r.supervisor_id)
     /\ named("ssn") /\ r.ssn # NULL => SsnFree(t, r.ssn, Ids \ {e})
     /\ edit.ui => NumberFreeIgnoringCase(t, r.employee_number, Ids \ {e})
     /\ DatesOrdered(r)

(* create_employee, for a row that is neither archived nor numbered yet. *)
CreateAccepted(t, titleDept, active, r, ui) ==
  /\ TitleFits(r, titleDept)
  /\ r.supervisor_id # NULL => SupervisorEligible(t, active, r.supervisor_id)
  /\ r.ssn # NULL => SsnFree(t, r.ssn, Ids)
  /\ ui => NumberFreeIgnoringCase(t, r.employee_number, Ids)
  /\ DatesOrdered(r)

(* Broken on purpose: the date is not compared with the hire date. *)
TerminateAnyDate(r, date) == ~r.is_archived /\ r.hire_date # NULL

(* terminate_employee refuses an archived row and a date before the hire   *)
(* date, and raises on a row without one.                                  *)
TerminateAccepted(r, date) ==
  /\ ~r.is_archived
  /\ r.hire_date # NULL
  /\ r.hire_date <= date

Terminated(r, status, date) ==
  [r EXCEPT !.employment_status_id = status, !.termination_date = date]

(* Terminated before: a date, and no active status. *)
AlreadyTerminated(r, active) ==
  r.termination_date # NULL /\ r.employment_status_id \notin active

(* clear: the request's clear_termination_date, true by default. *)
Reactivated(r, status, clear) ==
  [r EXCEPT !.employment_status_id = status,
            !.termination_date = IF clear THEN NULL ELSE @]

(* Broken on purpose: the row is archived with no timestamp at all. *)
ArchivedWithoutStamp(r) == [r EXCEPT !.is_archived = TRUE, !.archived_at = NULL]

(* Broken on purpose: restoring forgets to clear archived_at. *)
RestoredWithStamp(r) == [r EXCEPT !.is_archived = FALSE]

Archived(r) == [r EXCEPT !.is_archived = TRUE, !.archived_at = TRUE]

Restored(r) == [r EXCEPT !.is_archived = FALSE, !.archived_at = FALSE]

(* Broken on purpose: the references to the doomed rows stay. *)
PurgedOnly(t, doomed) == [e \in Ids |-> IF e \in doomed THEN NoRow ELSE t[e]]

(* purge_archived_employees: the doomed rows go, and what pointed at them  *)
(* points nowhere.                                                         *)
Purged(t, doomed) ==
  [e \in Ids |->
     IF e \in doomed THEN NoRow
     ELSE IF t[e] # NoRow /\ t[e].supervisor_id \in doomed
          THEN [t[e] EXCEPT !.supervisor_id = NULL]
          ELSE t[e]]
=============================================================================
