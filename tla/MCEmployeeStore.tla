-------------------------- MODULE MCEmployeeStore --------------------------
(***************************************************************************)
(* Bodies of requests for the runs of EmployeeStore.  Each run varies the  *)
(* columns its question is about and keeps the others at those of Plain.   *)
(***************************************************************************)
EXTENDS EmployeeStore, TLC

(* Two spellings of one number, and another number. *)
MCCanon == [n \in Numbers |-> IF n = "e1" THEN "E1" ELSE n]

Plain == [employee_number |-> "E1", ssn |-> NULL, supervisor_id |-> NULL,
          department_id |-> NULL, job_title_id |-> NULL,
          employment_status_id |-> "Active", hire_date |-> 0,
          termination_date |-> NULL, is_archived |-> FALSE,
          archived_at |-> FALSE]

Patch(c, v) == [fields |-> {c}, body |-> [Plain EXCEPT ![c] = v], ui |-> FALSE]

(* The edit form: every column, the blank social security number excepted. *)
Form(r) == [fields |-> IF r.ssn = NULL THEN Columns \ {"ssn"} ELSE Columns,
            body |-> r, ui |-> TRUE]

New(r) == [row |-> r, ui |-> FALSE]

(* Two employees, overlapping requests: numbers, social security numbers   *)
(* and supervisors, beside archiving, termination and the purge.           *)
OverlapNew ==
  {New(Plain),
   New([Plain EXCEPT !.employee_number = "e1", !.supervisor_id = 1])}
OverlapEdits ==
  {Patch("supervisor_id", 2), Patch("ssn", "s1")}

(* One employee: dates, the two statuses of a termination, and a title     *)
(* that moves between departments while the form names both.               *)
DatesNew == {New(Plain)}
DatesEdits ==
  {Patch("hire_date", 1),
   Form([Plain EXCEPT !.department_id = "d1", !.job_title_id = "t1"])}

(* A termination that names no date, twice. *)
TerminateNew == {New(Plain)}

WorkerSymmetry == Permutations(Workers)
=============================================================================
