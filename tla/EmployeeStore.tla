--------------------------- MODULE EmployeeStore ---------------------------
(***************************************************************************)
(* The employee handlers of app/api/v1/employees.py and                    *)
(* app/ui/employee_routes.py as they run: concurrent requests over one     *)
(* SQLite database.                                                        *)
(*                                                                         *)
(* A handler reads (each SELECT sees the last commit, no transaction is    *)
(* open yet), checks in memory what it read, and then writes everything in *)
(* one transaction at db.commit().  So a request is two steps, a Read and  *)
(* a Commit, and other requests' steps fall between them.  The commit      *)
(* writes only the columns whose value differs from the one loaded, which  *)
(* is how the ORM flushes an object, and the database enforces its         *)
(* constraints on the result.                                              *)
(***************************************************************************)
EXTENDS EmployeeRecords

CONSTANTS
  Workers,    \* requests that can be in flight at the same time
  NewRows,    \* bodies of POST: records [row |-> ..., ui |-> ...]
  Edits       \* bodies of PATCH and of the edit form

ASSUME BodiesAssumption ==
  /\ NewRows \subseteq [row : Row, ui : BOOLEAN]
  /\ \A n \in NewRows : ~n.row.is_archived /\ ~n.row.archived_at
  /\ Edits \subseteq Edit
  /\ \A x \in Edits : x.ui => Columns \ {"ssn"} \subseteq x.fields

VARIABLES
  rows,       \* the employees table, as committed
  titleDept,  \* job_titles.department_id
  active,     \* the statuses with is_active_status
  req         \* what each worker's request holds in its session

vars == <<rows, titleDept, active, req>>

Operations == {"idle", "create", "update", "archive", "restore",
               "terminate", "reactivate", "purge"}

(* A session: the row it loaded and the object it will flush over it.      *)
(* An idle worker, an insert and a purge have loaded nothing.  dated: the  *)
(* body of a termination names a date.  overtaken, which only properties   *)
(* read: another request has committed since this one read.                *)
Session == [op : Operations, id : Ids \cup {NULL},
            loaded : Row \cup {NoRow}, object : Row \cup {NoRow},
            doomed : SUBSET Ids, dated : BOOLEAN, overtaken : BOOLEAN]

RowOperations == {"update", "archive", "restore", "terminate", "reactivate"}

Idle == [op |-> "idle", id |-> NULL, loaded |-> NoRow, object |-> NoRow,
         doomed |-> {}, dated |-> FALSE, overtaken |-> FALSE]

Init ==
  /\ rows = [e \in Ids |-> NoRow]
  /\ titleDept \in [Titles -> Departments]
  /\ active \in SUBSET Statuses
  /\ req = [w \in Workers |-> Idle]

-----------------------------------------------------------------------------
(* Reads: load, check, and set the new values on the object in memory. *)

Begin(w, session) ==
  /\ req[w] = Idle
  /\ req' = [req EXCEPT ![w] = session]
  /\ UNCHANGED <<rows, titleDept, active>>

(* A request about one row that is there (404 otherwise). *)
BeginOn(w, op, e, object) ==
  /\ rows[e] # NoRow
  /\ Begin(w, [Idle EXCEPT !.op = op, !.id = e, !.loaded = rows[e],
                           !.object = object])

ReadCreate(w, new) ==
  /\ CreateAccepted(rows, titleDept, active, new.row, new.ui)
  /\ Begin(w, [Idle EXCEPT !.op = "create", !.object = new.row])

ReadUpdate(w, e, edit) ==
  /\ rows[e] # NoRow
  /\ UpdateAccepted(rows, titleDept, active, e, edit)
  /\ BeginOn(w, "update", e, Overlay(rows[e], edit))

(* Archiving an archived row, or restoring one that is not, answers 200    *)
(* and changes nothing.                                                    *)
ReadArchive(w, e) ==
  /\ rows[e] # NoRow /\ ~rows[e].is_archived
  /\ BeginOn(w, "archive", e, Archived(rows[e]))

ReadRestore(w, e) ==
  /\ rows[e] # NoRow /\ rows[e].is_archived
  /\ BeginOn(w, "restore", e, Restored(rows[e]))

(* A body without a date gets the day's, whatever the row holds already. *)
ReadTerminate(w, e, status, date) ==
  /\ rows[e] # NoRow
  /\ \E d \in IF date = NULL THEN Dates ELSE {date} :
       /\ TerminateAccepted(rows[e], d)
       /\ Begin(w, [Idle EXCEPT !.op = "terminate", !.id = e, !.loaded = rows[e],
                                !.object = Terminated(rows[e], status, d),
                                !.dated = (date # NULL)])

(* Broken on purpose: an archived row is reactivated. *)
ReadReactivateArchived(w, e, status, clear) ==
  BeginOn(w, "reactivate", e, Reactivated(rows[e], status, clear))

ReadReactivate(w, e, status, clear) ==
  /\ rows[e] # NoRow /\ ~rows[e].is_archived
  /\ BeginOn(w, "reactivate", e, Reactivated(rows[e], status, clear))

ReadPurge(w) ==
  LET doomed == {e \in Present(rows) : rows[e].is_archived}
  IN /\ doomed # {}
     /\ Begin(w, [Idle EXCEPT !.op = "purge", !.doomed = doomed])

-----------------------------------------------------------------------------
(* Commits. *)

(* The UPDATE of a flush: a column is written if the object's value is not *)
(* the one that was loaded, and is otherwise left as it is now.            *)
Flush(now, loaded, object) ==
  LET written(new, old, current) == IF new # old THEN new ELSE current
  IN [employee_number      |-> written(object.employee_number,
                                 loaded.employee_number, now.employee_number),
      ssn                  |-> written(object.ssn, loaded.ssn, now.ssn),
      supervisor_id        |-> written(object.supervisor_id,
                                 loaded.supervisor_id, now.supervisor_id),
      department_id        |-> written(object.department_id,
                                 loaded.department_id, now.department_id),
      job_title_id         |-> written(object.job_title_id,
                                 loaded.job_title_id, now.job_title_id),
      employment_status_id |-> written(object.employment_status_id,
                                 loaded.employment_status_id,
                                 now.employment_status_id),
      hire_date            |-> written(object.hire_date, loaded.hire_date,
                                 now.hire_date),
      termination_date     |-> written(object.termination_date,
                                 loaded.termination_date, now.termination_date),
      is_archived          |-> written(object.is_archived, loaded.is_archived,
                                 now.is_archived),
      archived_at          |-> written(object.archived_at, loaded.archived_at,
                                 now.archived_at)]

(* The others have read what may be no longer so. *)
Overtaken(w) ==
  [v \in Workers |->
     IF v = w THEN Idle ELSE [req[v] EXCEPT !.overtaken = req[v].op # "idle"]]

End(w) == req' = Overtaken(w) /\ UNCHANGED <<titleDept, active>>

(* Broken on purpose: every column is written back, changed or not. *)
CommitWholeObject(w, op) ==
  LET r == req[w]
  IN /\ r.op = op
     /\ rows[r.id] # NoRow
     /\ rows' = [rows EXCEPT ![r.id] = r.object]
     /\ Constraints(rows')
     /\ End(w)

(* Nothing to write: the commit succeeds without touching the row.         *)
(* Otherwise the row must still be there (StaleDataError).                 *)
CommitObject(w, op) ==
  LET r == req[w]
  IN /\ r.op = op
     /\ \/ r.object = r.loaded /\ UNCHANGED rows
        \/ /\ r.object # r.loaded
           /\ rows[r.id] # NoRow
           /\ rows' = [rows EXCEPT ![r.id] = Flush(@, r.loaded, r.object)]
           /\ Constraints(rows')
     /\ End(w)

CommitUpdate(w)     == CommitObject(w, "update")
CommitArchive(w)    == CommitObject(w, "archive")
CommitRestore(w)    == CommitObject(w, "restore")
CommitTerminate(w)  == CommitObject(w, "terminate")
CommitReactivate(w) == CommitObject(w, "reactivate")

CommitCreate(w) ==
  /\ req[w].op = "create"
  /\ \E e \in Ids :
       /\ IsNextId(rows, e)
       /\ rows' = [rows EXCEPT ![e] = req[w].object]
  /\ Constraints(rows')
  /\ End(w)

(* One transaction: clear the references to the rows that were read as     *)
(* archived, then delete those rows.  A row that is already gone is only   *)
(* a warning.                                                              *)
CommitPurge(w) ==
  /\ req[w].op = "purge"
  /\ rows' = Purged(rows, req[w].doomed)
  /\ End(w)

(* An error response, a constraint that refuses the commit, a lock timeout *)
(* or the end of the process: the session is closed and nothing written.   *)
Fail(w) ==
  /\ req[w] # Idle
  /\ req' = [req EXCEPT ![w] = Idle]
  /\ UNCHANGED <<rows, titleDept, active>>

-----------------------------------------------------------------------------
(* Updates of one column of a lookup row, whose read and commit no other   *)
(* request can tell apart from a single step.  They take a worker, too.    *)

MoveTitle(w, t, d) ==
  /\ req[w] = Idle
  /\ titleDept' = [titleDept EXCEPT ![t] = d]
  /\ req' = Overtaken(w)
  /\ UNCHANGED <<rows, active>>

FlagStatus(w, s) ==
  /\ req[w] = Idle
  /\ active' = IF s \in active THEN active \ {s} ELSE active \cup {s}
  /\ req' = Overtaken(w)
  /\ UNCHANGED <<rows, titleDept>>

Read(w) ==
  \/ \E new \in NewRows : ReadCreate(w, new)
  \/ \E e \in Ids, edit \in Edits : ReadUpdate(w, e, edit)
  \/ \E e \in Ids : ReadArchive(w, e)
  \/ \E e \in Ids : ReadRestore(w, e)
  \/ \E e \in Ids, s \in Statuses, d \in Dates \cup {NULL} : ReadTerminate(w, e, s, d)
  \/ \E e \in Ids, s \in Statuses, b \in BOOLEAN : ReadReactivate(w, e, s, b)
  \/ ReadPurge(w)

Commit(w) ==
  \/ CommitCreate(w)
  \/ CommitUpdate(w)
  \/ CommitArchive(w)
  \/ CommitRestore(w)
  \/ CommitTerminate(w)
  \/ CommitReactivate(w)
  \/ CommitPurge(w)

Next ==
  \E w \in Workers :
    \/ Read(w)
    \/ Commit(w)
    \/ Fail(w)
    \/ \E t \in Titles, d \in Departments : MoveTitle(w, t, d)
    \/ \E s \in Statuses : FlagStatus(w, s)

Spec == Init /\ [][Next]_vars

-----------------------------------------------------------------------------
(* Invariants, however the requests interleave. *)

TypeOK ==
  /\ rows \in Table
  /\ titleDept \in [Titles -> Departments]
  /\ active \in SUBSET Statuses
  /\ req \in [Workers -> Session]

(* However creations, updates and purges overlap, no two employees share a *)
(* number or a social security number, and every supervisor reference is   *)
(* to another employee that is still in the table: in particular a purge   *)
(* leaves no reference to what it deletes, even to one that was made after *)
(* it chose its victims.                                                   *)
TableIntegrity == Constraints(rows)

(* archived_at is set exactly while is_archived is, whatever archive,      *)
(* restore and update requests were in flight together.                    *)
ArchiveStamped ==
  \A e \in Present(rows) : rows[e].is_archived <=> rows[e].archived_at

-----------------------------------------------------------------------------
(* What the checks of the handlers are for.  They are made when a request  *)
(* reads, so each property says what must not have changed by its commit.  *)

(* The columns that a request writes are as it has read them, and its      *)
(* checks are true of the table it commits to.  Columns that are none of   *)
(* its business may have changed.                                          *)
ReadsHold(r) ==
  LET same(C) == \A c \in C : rows[r.id][c] = r.loaded[c]
  IN /\ r.op = "create" =>
          \E new \in NewRows :
            /\ r.object = new.row
            /\ CreateAccepted(rows, titleDept, active, new.row, new.ui)
     /\ r.op \in RowOperations => rows[r.id] # NoRow
     /\ r.op = "update" =>
          \E edit \in Edits :
            /\ r.object = Overlay(r.loaded, edit)
            /\ same(edit.fields)
            /\ UpdateAccepted(rows, titleDept, active, r.id, edit)
     /\ r.op = "archive" =>
          r.object = Archived(r.loaded) /\ same({"is_archived", "archived_at"})
     /\ r.op = "restore" =>
          r.object = Restored(r.loaded) /\ same({"is_archived", "archived_at"})
     /\ r.op = "terminate" =>
          \E s \in Statuses, d \in Dates :
            /\ r.object = Terminated(r.loaded, s, d)
            /\ same({"employment_status_id", "termination_date"})
            /\ TerminateAccepted(rows[r.id], d)
     /\ r.op = "reactivate" =>
          \E s \in Statuses, b \in BOOLEAN :
            /\ r.object = Reactivated(r.loaded, s, b)
            /\ same({"employment_status_id", "termination_date"})
            /\ ~rows[r.id].is_archived
     /\ r.op = "purge" =>
          r.doomed = {e \in Present(rows) : rows[e].is_archived}

(* A termination of who is terminated already that does what its docstring *)
(* says it does not: a new status, or a date although none was supplied.   *)
RewritesTermination(r) ==
  /\ r.op = "terminate"
  /\ AlreadyTerminated(rows[r.id], active)
  /\ ~r.dated \/ r.object.employment_status_id # rows[r.id].employment_status_id

Rules == INSTANCE EmployeeRules

(* However requests overlap, a commit that no other has overtaken, or      *)
(* whose reads still hold, is one of the operations of EmployeeRules, done *)
(* to the row as it is now: what others have changed of its other columns  *)
(* since it was loaded is kept.  So updates come apart only over columns   *)
(* that both are about, and a purge only from archivings and restorations  *)
(* that it overlaps.  The repeated termination is left out: there the code *)
(* does not do what it promises.                                           *)
FreshCommits ==
  \A w \in Workers :
    rows' # rows /\ Commit(w) =>
      /\ req[w].overtaken => ReadsHold(req[w])
      /\ ~RewritesTermination(req[w])

FollowsRules ==
  [][FreshCommits =>
       \/ UNCHANGED Rules!rulesVars
       \/ Rules!ChangeEmployees \/ Rules!ChangeLookups]_vars

(* A request sets one of the two dates and leaves the other, which is not  *)
(* the one it was compared with: another request has changed it since.     *)
StaleDate(w) ==
  \E c, d \in {"hire_date", "termination_date"} :
    /\ req[w].op \in RowOperations
    /\ req[w].object[c] # req[w].loaded[c]
    /\ req[w].object[d] = req[w].loaded[d]
    /\ rows[req[w].id][d] # req[w].loaded[d]

(* docs/SCHEMA.md: termination_date, if set, is on or after hire_date.  Of *)
(* all overlaps of requests, purges and ids that return, only one kind     *)
(* breaks it, a commit of one date after another request has changed the   *)
(* other date.                                                             *)
DatesCrossOnlyWhenStale ==
  [][\A e \in Present(rows') :
       ~DatesOrdered(rows'[e]) =>
         \/ e \in Present(rows) /\ ~DatesOrdered(rows[e])
         \/ \E w \in Workers : Commit(w) /\ req[w].id = e /\ StaleDate(w)]_vars

(* terminate_employee, of an employee who is terminated already: "returns  *)
(* 200 with the current state unchanged (except termination_date, which    *)
(* will update if a new one is supplied)".  The code does not keep this.   *)
TerminateIsIdempotent ==
  [][\A w \in Workers :
       /\ CommitTerminate(w)
       /\ ~req[w].dated
       /\ AlreadyTerminated(req[w].loaded, active)
       => UNCHANGED rows]_vars
=============================================================================
