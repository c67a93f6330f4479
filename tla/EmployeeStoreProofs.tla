------------------------ MODULE EmployeeStoreProofs ------------------------
(***************************************************************************)
(* Theorems of EmployeeStore, for any number of requests in flight, any    *)
(* bodies and any table size.                                              *)
(*                                                                         *)
(* The inductive invariant adds to the properties what each session holds: *)
(* a request about a row has loaded a row and will flush a row, both with  *)
(* their archive stamp, and an insert holds a row that is not archived.    *)
(***************************************************************************)
EXTENDS EmployeeStore, TLAPS

Stamped(r) == r.is_archived <=> r.archived_at

SessionsOK ==
  \A w \in Workers :
    /\ req[w].op = "create" => req[w].object \in Row /\ Stamped(req[w].object)
    /\ req[w].op \in RowOperations =>
         /\ req[w].id \in Ids
         /\ req[w].loaded \in Row /\ Stamped(req[w].loaded)
         /\ req[w].object \in Row /\ Stamped(req[w].object)

IInv ==
  /\ TypeOK
  /\ SessionsOK
  /\ ArchiveStamped
  /\ TableIntegrity

-----------------------------------------------------------------------------
(* Lemmas about the operators on rows. *)

LEMMA PresentRow ==
  ASSUME NEW t \in Table, NEW e \in Ids, t[e] # NoRow
  PROVE  t[e] \in Row
BY DEF Table

LEMMA StoredRow ==
  ASSUME NEW t \in Table, NEW e \in Ids, NEW r \in Row
  PROVE  [t EXCEPT ![e] = r] \in Table
BY DEF Table

(* An update keeps the type of the row and its archive stamp. *)
LEMMA OverlayRow ==
  ASSUME NEW r \in Row, NEW edit \in Edit
  PROVE  /\ Overlay(r, edit) \in Row
         /\ Overlay(r, edit).is_archived = r.is_archived
         /\ Overlay(r, edit).archived_at = r.archived_at
<1>1. edit.body \in Row
  BY DEF Edit
<1>2. Overlay(r, edit) \in Row
  BY <1>1 DEF Overlay, Row
<1> QED
  BY <1>2 DEF Overlay

(* So do the operations that set a status and a date. *)
LEMMA StatusRows ==
  ASSUME NEW r \in Row, Stamped(r),
         NEW s \in Statuses, NEW d \in Dates, NEW b \in BOOLEAN
  PROVE  /\ Terminated(r, s, d) \in Row /\ Stamped(Terminated(r, s, d))
         /\ Reactivated(r, s, b) \in Row /\ Stamped(Reactivated(r, s, b))
<1>1. Terminated(r, s, d) \in Row /\ Stamped(Terminated(r, s, d))
  BY DEF Terminated, Stamped, Row
<1>2. Reactivated(r, s, b) \in Row /\ Stamped(Reactivated(r, s, b))
  BY DEF Reactivated, Stamped, Row
<1> QED
  BY <1>1, <1>2

(* Archiving and restoring set the stamp with the flag. *)
LEMMA ArchiveRows ==
  ASSUME NEW r \in Row
  PROVE  /\ Archived(r) \in Row /\ Stamped(Archived(r))
         /\ Restored(r) \in Row /\ Stamped(Restored(r))
BY DEF Archived, Restored, Stamped, Row

(* A flush of one stamped row over another leaves a stamped row, whatever  *)
(* the row has become in the meantime: both columns are written or neither *)
(* is.                                                                     *)
LEMMA FlushRow ==
  ASSUME NEW now \in Row, NEW loaded \in Row, NEW object \in Row
  PROVE  /\ Flush(now, loaded, object) \in Row
         /\ Stamped(now) /\ Stamped(loaded) /\ Stamped(object)
              => Stamped(Flush(now, loaded, object))
<1>1. Flush(now, loaded, object) \in Row
  BY DEF Flush, Row
<1>2. ASSUME Stamped(now), Stamped(loaded), Stamped(object)
      PROVE  Stamped(Flush(now, loaded, object))
  <2>1. /\ now.is_archived \in BOOLEAN /\ now.archived_at \in BOOLEAN
        /\ loaded.is_archived \in BOOLEAN /\ loaded.archived_at \in BOOLEAN
        /\ object.is_archived \in BOOLEAN /\ object.archived_at \in BOOLEAN
    BY DEF Row
  <2> QED
    BY <1>2, <2>1 DEF Flush, Stamped
<1> QED
  BY <1>1, <1>2

(* A purge leaves a table in which a row that is still there differs from  *)
(* what it was in its supervisor at most.                                  *)
LEMMA PurgedRows ==
  ASSUME NEW t \in Table, NEW doomed \in SUBSET Ids
  PROVE  /\ Purged(t, doomed) \in Table
         /\ Present(Purged(t, doomed)) = Present(t) \ doomed
         /\ \A e \in Present(t) \ doomed :
              LET now == Purged(t, doomed)[e] IN
              /\ now.employee_number = t[e].employee_number
              /\ now.ssn = t[e].ssn
              /\ now.supervisor_id =
                   IF t[e].supervisor_id \in doomed THEN NULL
                   ELSE t[e].supervisor_id
              /\ Stamped(t[e]) => Stamped(now)
<1> DEFINE p == Purged(t, doomed)
<1>1. ASSUME NEW e \in Present(t) \ doomed
      PROVE  /\ t[e] \in Row
             /\ p[e] \in Row
             /\ p[e] = IF t[e].supervisor_id \in doomed
                       THEN [t[e] EXCEPT !.supervisor_id = NULL] ELSE t[e]
  <2>1. t[e] \in Row
    BY PresentRow DEF Present
  <2>2. p[e] = IF t[e].supervisor_id \in doomed
               THEN [t[e] EXCEPT !.supervisor_id = NULL] ELSE t[e]
    BY DEF Purged, Present
  <2> QED
    BY <2>1, <2>2 DEF Row
<1>2. \A e \in Ids : e \notin Present(t) \ doomed => p[e] = NoRow
  BY DEF Purged, Present, Table
<1>3. p \in Table
  BY <1>1, <1>2 DEF Purged, Table
<1>4. Present(p) = Present(t) \ doomed
  BY <1>1, <1>2, NoRowAssumption DEF Present
<1>5. ASSUME NEW e \in Present(t) \ doomed
      PROVE  /\ p[e].employee_number = t[e].employee_number
             /\ p[e].ssn = t[e].ssn
             /\ p[e].supervisor_id = IF t[e].supervisor_id \in doomed THEN NULL
                                     ELSE t[e].supervisor_id
             /\ Stamped(t[e]) => Stamped(p[e])
  <2>1. t[e] \in Row
    BY <1>1
  <2>2. CASE t[e].supervisor_id \in doomed
    <3>1. p[e] = [t[e] EXCEPT !.supervisor_id = NULL]
      BY <1>1, <2>2
    <3> HIDE DEF p
    <3> QED
      BY <2>1, <2>2, <3>1 DEF Row, Stamped
  <2>3. CASE t[e].supervisor_id \notin doomed
    <3>1. p[e] = t[e]
      BY <1>1, <2>3
    <3> HIDE DEF p
    <3> QED
      BY <2>3, <3>1
  <2> QED
    BY <2>2, <2>3
<1> QED
  BY <1>3, <1>4, <1>5

(* What the comment in purge_archived_employees claims: once the references *)
(* to the doomed rows are cleared, deleting them breaks no constraint.     *)
LEMMA PurgedConstraints ==
  ASSUME NEW t \in Table, NEW doomed \in SUBSET Ids, Constraints(t)
  PROVE  Constraints(Purged(t, doomed))
<1> DEFINE p == Purged(t, doomed)
<1>1. Present(p) = Present(t) \ doomed
  BY PurgedRows
<1>2. \A e \in Present(p) :
        /\ p[e].employee_number = t[e].employee_number
        /\ p[e].ssn = t[e].ssn
        /\ p[e].supervisor_id = IF t[e].supervisor_id \in doomed THEN NULL
                                ELSE t[e].supervisor_id
  BY <1>1, PurgedRows
<1> HIDE DEF p
<1>3. NumbersUnique(p) /\ SsnsUnique(p)
  BY <1>1, <1>2 DEF Constraints, NumbersUnique, SsnsUnique
<1>4. SupervisorsExist(p)
  BY <1>1, <1>2 DEF Constraints, SupervisorsExist
<1>5. NoSelfSupervision(p)
  BY <1>1, <1>2, NullAssumption DEF Constraints, NoSelfSupervision, Present
<1> QED
  BY <1>3, <1>4, <1>5 DEF Constraints, p

-----------------------------------------------------------------------------
(* The invariant is inductive: one lemma for each kind of step. *)

LEMMA InitInv == Init => IInv
<1> SUFFICES ASSUME Init PROVE IInv
  OBVIOUS
<1>1. Idle \in Session
  BY DEF Idle, Session, Operations
<1>2. TypeOK
  BY <1>1 DEF Init, TypeOK, Table
<1>3. Present(rows) = {}
  BY DEF Init, Present
<1>4. ArchiveStamped /\ TableIntegrity
  BY <1>3 DEF ArchiveStamped, TableIntegrity, Constraints, NumbersUnique,
              SsnsUnique, SupervisorsExist, NoSelfSupervision
<1>5. SessionsOK
  BY DEF Init, SessionsOK, Idle, RowOperations
<1> QED
  BY <1>2, <1>4, <1>5 DEF IInv

(* A step that leaves the table alone and one session as it should be. *)
LEMMA SessionStep ==
  ASSUME IInv, NEW w \in Workers, NEW s \in Session,
         UNCHANGED <<rows, titleDept, active>>, req' = [req EXCEPT ![w] = s],
         s.op = "create" => s.object \in Row /\ Stamped(s.object),
         s.op \in RowOperations =>
           /\ s.id \in Ids
           /\ s.loaded \in Row /\ Stamped(s.loaded)
           /\ s.object \in Row /\ Stamped(s.object)
  PROVE  IInv'
<1>1. TypeOK'
  BY DEF IInv, TypeOK
<1>2. ArchiveStamped' /\ TableIntegrity'
  BY DEF IInv, ArchiveStamped, TableIntegrity, Present
<1>3. \A v \in Workers : req'[v] = IF v = w THEN s ELSE req[v]
  BY DEF IInv, TypeOK
<1>4. SessionsOK'
  BY <1>3 DEF IInv, SessionsOK
<1> QED
  BY <1>1, <1>2, <1>4 DEF IInv

LEMMA ReadInv ==
  ASSUME IInv, NEW w \in Workers, Read(w)
  PROVE  IInv'
<1> USE DEF IInv
<1>1. Idle \in Session
  BY DEF Idle, Session, Operations
<1>2. ASSUME NEW e \in Ids, rows[e] # NoRow
      PROVE  rows[e] \in Row /\ Stamped(rows[e])
  BY <1>2, PresentRow DEF TypeOK, ArchiveStamped, Stamped, Present
<1>3. ASSUME NEW op \in RowOperations, NEW e \in Ids, NEW object \in Row,
             Stamped(object), BeginOn(w, op, e, object)
      PROVE  IInv'
  <2> DEFINE s == [Idle EXCEPT !.op = op, !.id = e, !.loaded = rows[e],
                               !.object = object]
  <2>1. rows[e] \in Row /\ Stamped(rows[e])
    BY <1>2, <1>3 DEF BeginOn
  <2>2. /\ s \in Session /\ s.op = op /\ s.id = e
        /\ s.loaded = rows[e] /\ s.object = object
    BY <2>1 DEF Idle, Session, Operations, RowOperations
  <2>3. req' = [req EXCEPT ![w] = s] /\ UNCHANGED <<rows, titleDept, active>>
    BY <1>3 DEF BeginOn, Begin
  <2>4. op # "create"
    BY DEF RowOperations
  <2> HIDE DEF IInv, s
  <2> QED
    BY <1>3, <2>1, <2>2, <2>3, <2>4, SessionStep
<1>4. ASSUME NEW new \in NewRows, ReadCreate(w, new) PROVE IInv'
  <2> DEFINE s == [Idle EXCEPT !.op = "create", !.object = new.row]
  <2>1. new.row \in Row /\ Stamped(new.row)
    BY BodiesAssumption DEF Stamped
  <2>2. /\ s \in Session /\ s.op = "create" /\ s.object = new.row
    BY <2>1 DEF Idle, Session, Operations
  <2>3. req' = [req EXCEPT ![w] = s] /\ UNCHANGED <<rows, titleDept, active>>
    BY <1>4 DEF ReadCreate, Begin
  <2>4. s.op \notin RowOperations
    BY <2>2 DEF RowOperations
  <2> HIDE DEF IInv, s
  <2> QED
    BY <2>1, <2>2, <2>3, <2>4, SessionStep
<1>5. ASSUME NEW e \in Ids, NEW edit \in Edits, ReadUpdate(w, e, edit)
      PROVE  IInv'
  <2>1. rows[e] \in Row /\ Stamped(rows[e]) /\ edit \in Edit
    BY <1>2, <1>5, BodiesAssumption DEF ReadUpdate
  <2>2. Overlay(rows[e], edit) \in Row /\ Stamped(Overlay(rows[e], edit))
    BY <2>1, OverlayRow DEF Stamped
  <2> QED
    BY <1>3, <1>5, <2>2 DEF ReadUpdate, RowOperations
<1>6. ASSUME NEW e \in Ids, ReadArchive(w, e) PROVE IInv'
  <2>1. Archived(rows[e]) \in Row /\ Stamped(Archived(rows[e]))
    BY <1>2, <1>6, ArchiveRows DEF ReadArchive
  <2> QED
    BY <1>3, <1>6, <2>1 DEF ReadArchive, RowOperations
<1>7. ASSUME NEW e \in Ids, ReadRestore(w, e) PROVE IInv'
  <2>1. Restored(rows[e]) \in Row /\ Stamped(Restored(rows[e]))
    BY <1>2, <1>7, ArchiveRows DEF ReadRestore
  <2> QED
    BY <1>3, <1>7, <2>1 DEF ReadRestore, RowOperations
<1>8. ASSUME NEW e \in Ids, NEW s \in Statuses, NEW date \in Dates \cup {NULL},
             ReadTerminate(w, e, s, date)
      PROVE  IInv'
  <2>1. PICK d \in Dates :
          Begin(w, [Idle EXCEPT !.op = "terminate", !.id = e, !.loaded = rows[e],
                                !.object = Terminated(rows[e], s, d),
                                !.dated = (date # NULL)])
    BY <1>8 DEF ReadTerminate
  <2>2. /\ rows[e] \in Row /\ Stamped(rows[e])
        /\ Terminated(rows[e], s, d) \in Row /\ Stamped(Terminated(rows[e], s, d))
    BY <1>2, <1>8, StatusRows DEF ReadTerminate
  <2> DEFINE t == [Idle EXCEPT !.op = "terminate", !.id = e, !.loaded = rows[e],
                               !.object = Terminated(rows[e], s, d),
                               !.dated = (date # NULL)]
  <2>3. /\ t \in Session /\ t.op = "terminate" /\ t.id = e
        /\ t.loaded = rows[e] /\ t.object = Terminated(rows[e], s, d)
    BY <2>2 DEF Idle, Session, Operations
  <2>4. req' = [req EXCEPT ![w] = t] /\ UNCHANGED <<rows, titleDept, active>>
    BY <2>1 DEF Begin
  <2> HIDE DEF IInv, t
  <2> QED
    BY <2>2, <2>3, <2>4, SessionStep
<1>9. ASSUME NEW e \in Ids, NEW s \in Statuses, NEW b \in BOOLEAN,
             ReadReactivate(w, e, s, b)
      PROVE  IInv'
  <2>1. Reactivated(rows[e], s, b) \in Row /\ Stamped(Reactivated(rows[e], s, b))
    BY <1>2, <1>9, StatusRows, BoundsAssumption DEF ReadReactivate, Dates
  <2> QED
    BY <1>3, <1>9, <2>1 DEF ReadReactivate, RowOperations
<1>10. ASSUME ReadPurge(w) PROVE IInv'
  <2> DEFINE s == [Idle EXCEPT !.op = "purge",
                   !.doomed = {e \in Present(rows) : rows[e].is_archived}]
  <2>1. s \in Session /\ s.op = "purge"
    BY DEF Idle, Session, Operations, Present
  <2>2. req' = [req EXCEPT ![w] = s] /\ UNCHANGED <<rows, titleDept, active>>
    BY <1>10 DEF ReadPurge, Begin
  <2>3. s.op # "create" /\ s.op \notin RowOperations
    BY <2>1 DEF RowOperations
  <2> HIDE DEF IInv, s
  <2> QED
    BY <2>1, <2>2, <2>3, SessionStep
<1> QED
  BY <1>4, <1>5, <1>6, <1>7, <1>8, <1>9, <1>10 DEF Read

(* Whoever is overtaken keeps the rest of its session. *)
LEMMA OvertakenSessions ==
  ASSUME TypeOK, NEW w \in Workers
  PROVE  /\ Overtaken(w) \in [Workers -> Session]
         /\ Overtaken(w)[w] = Idle
         /\ \A v \in Workers \ {w} :
              LET r == Overtaken(w)[v] IN
              /\ r = [req[v] EXCEPT !.overtaken = (req[v].op # "idle")]
              /\ r.op = req[v].op /\ r.id = req[v].id /\ r.doomed = req[v].doomed
              /\ r.loaded = req[v].loaded /\ r.object = req[v].object
              /\ r.overtaken = (req[v].op # "idle")
<1>1. Idle \in Session
  BY DEF Idle, Session, Operations
<1>2. \A v \in Workers : req[v] \in Session
  BY DEF TypeOK
<1>3. ASSUME NEW r \in Session
      PROVE  LET q == [r EXCEPT !.overtaken = (r.op # "idle")] IN
             /\ q \in Session
             /\ q.op = r.op /\ q.id = r.id /\ q.doomed = r.doomed
             /\ q.loaded = r.loaded /\ q.object = r.object
             /\ q.overtaken = (r.op # "idle")
  BY DEF Session
<1> QED
  BY <1>1, <1>2, <1>3 DEF Overtaken

LEMMA OvertakenOK ==
  ASSUME TypeOK, SessionsOK, NEW w \in Workers, req' = Overtaken(w)
  PROVE  req' \in [Workers -> Session] /\ SessionsOK'
<1>1. ASSUME NEW v \in Workers
      PROVE  \/ req'[v].op \notin RowOperations /\ req'[v].op # "create"
             \/ /\ req'[v].op = req[v].op /\ req'[v].id = req[v].id
                /\ req'[v].loaded = req[v].loaded /\ req'[v].object = req[v].object
  <2>1. CASE v = w
    <3>1. req'[v] = Idle
      BY <2>1, OvertakenSessions
    <3> QED
      BY <3>1 DEF Idle, RowOperations
  <2>2. CASE v # w
    BY <2>2, OvertakenSessions
  <2> QED
    BY <2>1, <2>2
<1>2. SessionsOK'
  BY <1>1 DEF SessionsOK
<1> QED
  BY <1>2, OvertakenSessions

(* Ending a request: the table changes, the worker's session is closed. *)
LEMMA EndStep ==
  ASSUME IInv, NEW w \in Workers, End(w), rows' \in Table,
         ArchiveStamped', TableIntegrity'
  PROVE  IInv'
<1>1. TypeOK' /\ SessionsOK'
  BY OvertakenOK DEF IInv, TypeOK, End
<1> QED
  BY <1>1 DEF IInv

(* A commit that stores one stamped row under the constraints. *)
LEMMA StoreStep ==
  ASSUME IInv, NEW w \in Workers, End(w), NEW e \in Ids, NEW r \in Row,
         Stamped(r), rows' = [rows EXCEPT ![e] = r], Constraints(rows')
  PROVE  IInv'
<1>1. rows \in Table
  BY DEF IInv, TypeOK
<1>2. rows' \in Table
  BY <1>1, StoredRow
<1>3. \A i \in Ids : rows'[i] = IF i = e THEN r ELSE rows[i]
  BY <1>1 DEF Table
<1>4. ArchiveStamped'
  BY <1>3 DEF IInv, ArchiveStamped, Stamped, Present
<1>5. TableIntegrity'
  BY DEF TableIntegrity
<1> QED
  BY <1>2, <1>4, <1>5, EndStep

LEMMA CommitInv ==
  ASSUME IInv, NEW w \in Workers, Commit(w)
  PROVE  IInv'
<1>1. ASSUME NEW op \in RowOperations, CommitObject(w, op) PROVE IInv'
  <2> DEFINE r == req[w]
  <2>1. /\ r.id \in Ids
        /\ r.loaded \in Row /\ Stamped(r.loaded)
        /\ r.object \in Row /\ Stamped(r.object)
    BY <1>1 DEF IInv, SessionsOK, CommitObject
  <2>2. CASE UNCHANGED rows
    BY <1>1, <2>2, EndStep
       DEF CommitObject, IInv, TypeOK, ArchiveStamped, TableIntegrity, Present
  <2>3. CASE /\ rows[r.id] # NoRow
             /\ rows' = [rows EXCEPT ![r.id] = Flush(@, r.loaded, r.object)]
             /\ Constraints(rows')
    <3>1. rows[r.id] \in Row /\ Stamped(rows[r.id])
      BY <2>1, <2>3, PresentRow
         DEF IInv, TypeOK, ArchiveStamped, Stamped, Present
    <3>2. /\ Flush(rows[r.id], r.loaded, r.object) \in Row
          /\ Stamped(Flush(rows[r.id], r.loaded, r.object))
      BY <2>1, <3>1, FlushRow
    <3>3. End(w)
      BY <1>1 DEF CommitObject
    <3> QED
      BY <2>1, <2>3, <3>2, <3>3, StoreStep
  <2> QED
    BY <1>1, <2>2, <2>3 DEF CommitObject
<1>2. ASSUME CommitCreate(w) PROVE IInv'
  <2>1. PICK e \in Ids : rows' = [rows EXCEPT ![e] = req[w].object]
    BY <1>2 DEF CommitCreate
  <2>2. req[w].object \in Row /\ Stamped(req[w].object)
    BY <1>2 DEF CommitCreate, IInv, SessionsOK
  <2> QED
    BY <1>2, <2>1, <2>2, StoreStep DEF CommitCreate
<1>3. ASSUME CommitPurge(w) PROVE IInv'
  <2>1. rows \in Table /\ req[w].doomed \in SUBSET Ids
    BY DEF IInv, TypeOK, Session
  <2>2. rows' = Purged(rows, req[w].doomed)
    BY <1>3 DEF CommitPurge
  <2>3. rows' \in Table
    BY <2>1, <2>2, PurgedRows
  <2>4. ArchiveStamped'
    <3>1. \A e \in Present(rows) : Stamped(rows[e])
      BY DEF IInv, ArchiveStamped, Stamped
    <3>2. Present(rows') = Present(rows) \ req[w].doomed
      BY <2>1, <2>2, PurgedRows
    <3>3. \A e \in Present(rows') : Stamped(rows'[e])
      BY <2>1, <2>2, <3>1, <3>2, PurgedRows
    <3> QED
      BY <3>3 DEF ArchiveStamped, Stamped, Present
  <2>5. TableIntegrity'
    BY <2>1, <2>2, PurgedConstraints DEF IInv, TableIntegrity
  <2> QED
    BY <1>3, <2>3, <2>4, <2>5, EndStep DEF CommitPurge
<1> QED
  BY <1>1, <1>2, <1>3
     DEF Commit, CommitUpdate, CommitArchive, CommitRestore, CommitTerminate,
         CommitReactivate, RowOperations

LEMMA NextInv == IInv /\ [Next]_vars => IInv'
<1> SUFFICES ASSUME IInv, [Next]_vars PROVE IInv'
  OBVIOUS
<1>1. ASSUME NEW w \in Workers, Fail(w) PROVE IInv'
  <2>1. Idle \in Session /\ Idle.op = "idle"
    BY DEF Idle, Session, Operations
  <2> QED
    BY <1>1, <2>1, SessionStep DEF Fail, RowOperations
<1>2. ASSUME NEW w \in Workers, NEW t \in Titles, NEW d \in Departments,
             MoveTitle(w, t, d)
      PROVE  IInv'
  <2>1. TypeOK' /\ SessionsOK' /\ UNCHANGED rows
    BY <1>2, OvertakenOK DEF MoveTitle, IInv, TypeOK
  <2> QED
    BY <2>1 DEF IInv, ArchiveStamped, TableIntegrity, Present
<1>3. ASSUME NEW w \in Workers, NEW s \in Statuses, FlagStatus(w, s)
      PROVE  IInv'
  <2>1. TypeOK' /\ SessionsOK' /\ UNCHANGED rows
    BY <1>3, OvertakenOK DEF FlagStatus, IInv, TypeOK
  <2> QED
    BY <2>1 DEF IInv, ArchiveStamped, TableIntegrity, Present
<1>4. CASE UNCHANGED vars
  BY <1>4 DEF vars, IInv, TypeOK, SessionsOK, ArchiveStamped, TableIntegrity,
              Present
<1> QED
  BY <1>1, <1>2, <1>3, <1>4, ReadInv, CommitInv DEF Next

-----------------------------------------------------------------------------

(* Every session and every row is well formed, for any number of requests. *)
THEOREM TypeCorrect == Spec => []TypeOK
<1>1. IInv => TypeOK
  BY DEF IInv
<1> QED
  BY <1>1, InitInv, NextInv, PTL DEF Spec

(* The unique keys and the supervisor references hold through any overlap  *)
(* of requests, and a purge never meets the foreign key: its commit has no *)
(* constraint in its guard.                                                *)
THEOREM IntegrityKept == Spec => []TableIntegrity
<1>1. IInv => TableIntegrity
  BY DEF IInv
<1> QED
  BY <1>1, InitInv, NextInv, PTL DEF Spec

(* The archive flag and its timestamp never part, although a commit writes *)
(* them column by column over a row that others may have changed.          *)
THEOREM StampKept == Spec => []ArchiveStamped
<1>1. IInv => ArchiveStamped
  BY DEF IInv
<1> QED
  BY <1>1, InitInv, NextInv, PTL DEF Spec

-----------------------------------------------------------------------------
(* What a request knows that no other has overtaken.                       *)

(* Its row is as it was loaded, and its checks are still true. *)
Untouched(r) ==
  /\ r.op \in RowOperations =>
       r.id \in Ids /\ rows[r.id] # NoRow /\ r.loaded = rows[r.id]
  /\ ReadsHold(r)

NothingMissed == \A w \in Workers : ~req[w].overtaken => Untouched(req[w])

LEMMA IdleReads == ASSUME NEW r, r.op = "idle" PROVE Untouched(r)
BY DEF Untouched, ReadsHold, RowOperations

(* A read leaves a session whose checks were just made. *)
LEMMA ReadHolds ==
  ASSUME IInv, NEW w \in Workers, Read(w)
  PROVE  Untouched(req'[w]) /\ UNCHANGED <<rows, titleDept, active>>
<1>1. ASSUME NEW s, Begin(w, s)
      PROVE  req'[w] = s /\ UNCHANGED <<rows, titleDept, active>>
  BY <1>1 DEF Begin, IInv, TypeOK
<1>2. ASSUME NEW op, NEW e \in Ids, NEW object, BeginOn(w, op, e, object)
      PROVE  /\ req'[w].op = op /\ req'[w].id = e /\ req'[w].object = object
             /\ rows[e] # NoRow /\ req'[w].loaded = rows[e]
             /\ UNCHANGED <<rows, titleDept, active>>
  <2> DEFINE s == [Idle EXCEPT !.op = op, !.id = e, !.loaded = rows[e],
                               !.object = object]
  <2>1. s.op = op /\ s.id = e /\ s.object = object /\ s.loaded = rows[e]
    BY DEF Idle
  <2>2. Begin(w, s) /\ rows[e] # NoRow
    BY <1>2 DEF BeginOn
  <2> HIDE DEF s
  <2> QED
    BY <1>1, <2>1, <2>2
<1>3. ASSUME NEW new \in NewRows, ReadCreate(w, new)
      PROVE  Untouched(req'[w]) /\ UNCHANGED <<rows, titleDept, active>>
  <2>1. /\ req'[w] = [Idle EXCEPT !.op = "create", !.object = new.row]
        /\ UNCHANGED <<rows, titleDept, active>>
    BY <1>1, <1>3 DEF ReadCreate
  <2>2. req'[w].op = "create" /\ req'[w].object = new.row
    BY <2>1 DEF Idle
  <2> QED
    BY <1>3, <2>1, <2>2 DEF ReadCreate, Untouched, ReadsHold, RowOperations
<1>4. ASSUME NEW e \in Ids, NEW edit \in Edits, ReadUpdate(w, e, edit)
      PROVE  Untouched(req'[w]) /\ UNCHANGED <<rows, titleDept, active>>
  BY <1>2, <1>4 DEF ReadUpdate, Untouched, ReadsHold
<1>5. ASSUME NEW e \in Ids, ReadArchive(w, e)
      PROVE  Untouched(req'[w]) /\ UNCHANGED <<rows, titleDept, active>>
  BY <1>2, <1>5 DEF ReadArchive, Untouched, ReadsHold
<1>6. ASSUME NEW e \in Ids, ReadRestore(w, e)
      PROVE  Untouched(req'[w]) /\ UNCHANGED <<rows, titleDept, active>>
  BY <1>2, <1>6 DEF ReadRestore, Untouched, ReadsHold
<1>7. ASSUME NEW e \in Ids, NEW s \in Statuses, NEW date \in Dates \cup {NULL},
             ReadTerminate(w, e, s, date)
      PROVE  Untouched(req'[w]) /\ UNCHANGED <<rows, titleDept, active>>
  <2> DEFINE t(d) == [Idle EXCEPT !.op = "terminate", !.id = e, !.loaded = rows[e],
                                  !.object = Terminated(rows[e], s, d),
                                  !.dated = (date # NULL)]
  <2>1. PICK d \in Dates : TerminateAccepted(rows[e], d) /\ Begin(w, t(d))
    BY <1>7 DEF ReadTerminate
  <2>2. /\ t(d).op = "terminate" /\ t(d).id = e /\ t(d).loaded = rows[e]
        /\ t(d).object = Terminated(rows[e], s, d)
    BY DEF Idle
  <2>3. rows[e] # NoRow
    BY <1>7 DEF ReadTerminate
  <2> HIDE DEF t
  <2>4. req'[w] = t(d) /\ UNCHANGED <<rows, titleDept, active>>
    BY <1>1, <2>1
  <2> QED
    BY <2>1, <2>2, <2>3, <2>4 DEF Untouched, ReadsHold
<1>8. ASSUME NEW e \in Ids, NEW s \in Statuses, NEW b \in BOOLEAN,
             ReadReactivate(w, e, s, b)
      PROVE  Untouched(req'[w]) /\ UNCHANGED <<rows, titleDept, active>>
  BY <1>2, <1>8 DEF ReadReactivate, Untouched, ReadsHold
<1>9. ASSUME ReadPurge(w)
      PROVE  Untouched(req'[w]) /\ UNCHANGED <<rows, titleDept, active>>
  <2> DEFINE doomed == {e \in Present(rows) : rows[e].is_archived}
  <2>1. /\ req'[w] = [Idle EXCEPT !.op = "purge", !.doomed = doomed]
        /\ UNCHANGED <<rows, titleDept, active>>
    BY <1>1, <1>9 DEF ReadPurge
  <2>2. req'[w].op = "purge" /\ req'[w].doomed = doomed
    BY <2>1 DEF Idle
  <2> QED
    BY <2>1, <2>2 DEF Untouched, ReadsHold, RowOperations
<1> QED
  BY <1>3, <1>4, <1>5, <1>6, <1>7, <1>8, <1>9 DEF Read

LEMMA NothingMissedInit == Init => NothingMissed
BY IdleReads DEF Init, NothingMissed, Idle

(* A step that writes overtakes every other request in flight. *)
LEMMA NothingMissedNext ==
  ASSUME IInv, NothingMissed, [Next]_vars
  PROVE  NothingMissed'
<1>1. ASSUME NEW v \in Workers, req'[v].op = "idle" PROVE Untouched(req[v])'
  BY <1>1 DEF Untouched, ReadsHold, RowOperations
<1>2. ASSUME NEW v \in Workers, req'[v] = req[v], UNCHANGED <<rows, titleDept, active>>,
             ~req'[v].overtaken
      PROVE  Untouched(req[v])'
  <2>1. Untouched(req[v])
    BY <1>2 DEF NothingMissed
  <2> QED
    BY <1>2, <2>1 DEF Untouched, ReadsHold, Present
<1>3. ASSUME NEW w \in Workers, Read(w) PROVE NothingMissed'
  <2>1. Untouched(req'[w]) /\ UNCHANGED <<rows, titleDept, active>>
    BY <1>3, ReadHolds
  <2>2. Untouched(req[w])'
    BY <2>1 DEF Untouched, ReadsHold, Present
  <2>3. \A v \in Workers \ {w} : req'[v] = req[v]
    BY <1>3 DEF Read, ReadCreate, ReadUpdate, ReadArchive, ReadRestore, ReadTerminate,
                ReadReactivate, ReadPurge, BeginOn, Begin, IInv, TypeOK
  <2> QED
    BY <1>2, <2>1, <2>2, <2>3 DEF NothingMissed
<1>4. ASSUME NEW w \in Workers, req' = Overtaken(w) PROVE NothingMissed'
  <2>1. ASSUME NEW v \in Workers
        PROVE  req'[v].op = "idle" \/ req'[v].overtaken
    <3>1. CASE v = w
      <4>1. req'[v] = Idle
        BY <1>4, <3>1, OvertakenSessions DEF IInv
      <4> QED
        BY <4>1 DEF Idle
    <3>2. CASE v # w
      BY <1>4, <3>2, OvertakenSessions DEF IInv
    <3> QED
      BY <3>1, <3>2
  <2> QED
    BY <1>1, <2>1 DEF NothingMissed
<1>5. ASSUME NEW w \in Workers, Fail(w) PROVE NothingMissed'
  <2>1. \A v \in Workers : req'[v] = IF v = w THEN Idle ELSE req[v]
    BY <1>5 DEF Fail, IInv, TypeOK
  <2>2. req'[w].op = "idle" /\ UNCHANGED <<rows, titleDept, active>>
    BY <1>5, <2>1 DEF Fail, Idle
  <2> QED
    BY <1>1, <1>2, <2>1, <2>2 DEF NothingMissed
<1>6. CASE UNCHANGED vars
  BY <1>2, <1>6 DEF vars, NothingMissed
<1> QED
  BY <1>3, <1>4, <1>5, <1>6
     DEF Next, Commit, CommitCreate, CommitPurge, CommitObject, CommitUpdate,
         CommitArchive, CommitRestore, CommitTerminate, CommitReactivate, End,
         MoveTitle, FlagStatus

-----------------------------------------------------------------------------
(* What a flush leaves when the columns it is about have not changed: the  *)
(* operation, done to the row as it is now.                                *)

SameRow(q, r) ==
  /\ \A c \in Columns : q[c] = r[c]
  /\ q.is_archived = r.is_archived /\ q.archived_at = r.archived_at

LEMMA RowsEqual == ASSUME NEW q \in Row, NEW r \in Row, SameRow(q, r) PROVE q = r
BY DEF SameRow, Columns, Row

LEMMA FlushColumns ==
  ASSUME NEW now, NEW loaded, NEW object, NEW c \in Columns \cup {"is_archived", "archived_at"}
  PROVE  Flush(now, loaded, object)[c]
           = IF object[c] # loaded[c] THEN object[c] ELSE now[c]
BY DEF Flush, Columns

LEMMA FlushUpdated ==
  ASSUME NEW now \in Row, NEW loaded \in Row, NEW edit \in Edit,
         \A c \in edit.fields : now[c] = loaded[c]
  PROVE  Flush(now, loaded, Overlay(loaded, edit)) = Overlay(now, edit)
<1> DEFINE o == Overlay(loaded, edit)
           f == Flush(now, loaded, o)
           n == Overlay(now, edit)
<1>1. ASSUME NEW c \in Columns
      PROVE  /\ o[c] = IF c \in edit.fields THEN edit.body[c] ELSE loaded[c]
             /\ n[c] = IF c \in edit.fields THEN edit.body[c] ELSE now[c]
             /\ f[c] = IF o[c] # loaded[c] THEN o[c] ELSE now[c]
  BY DEF Columns, Overlay, Flush
<1>2. SameRow(f, n)
  <2>1. \A c \in Columns : f[c] = n[c]
    BY <1>1
  <2> QED
    BY <2>1 DEF SameRow, Overlay, Flush
<1> QED
  BY <1>2, OverlayRow, FlushRow, RowsEqual

LEMMA ArchivedColumns ==
  ASSUME NEW r \in Row
  PROVE  /\ \A c \in Columns : Archived(r)[c] = r[c] /\ Restored(r)[c] = r[c]
         /\ Archived(r)["is_archived"] = TRUE /\ Archived(r)["archived_at"] = TRUE
         /\ Restored(r)["is_archived"] = FALSE /\ Restored(r)["archived_at"] = FALSE
BY DEF Archived, Restored, Row, Columns

LEMMA FlushArchived ==
  ASSUME NEW now \in Row, NEW loaded \in Row,
         now.is_archived = loaded.is_archived, now.archived_at = loaded.archived_at
  PROVE  /\ Flush(now, loaded, Archived(loaded)) = Archived(now)
         /\ Flush(now, loaded, Restored(loaded)) = Restored(now)
<1> DEFINE a == Archived(loaded)
           t == Restored(loaded)
           f == Flush(now, loaded, a)
           g == Flush(now, loaded, t)
<1>1. /\ a \in Row /\ t \in Row /\ f \in Row /\ g \in Row
      /\ Archived(now) \in Row /\ Restored(now) \in Row
  BY ArchiveRows, FlushRow
<1>2. /\ \A c \in Columns : a[c] = loaded[c] /\ t[c] = loaded[c]
      /\ a["is_archived"] = TRUE /\ a["archived_at"] = TRUE
      /\ t["is_archived"] = FALSE /\ t["archived_at"] = FALSE
  BY ArchivedColumns
<1>3. \A c \in Columns \cup {"is_archived", "archived_at"} :
        /\ f[c] = IF a[c] # loaded[c] THEN a[c] ELSE now[c]
        /\ g[c] = IF t[c] # loaded[c] THEN t[c] ELSE now[c]
  BY FlushColumns
<1> HIDE DEF a, t, f, g
<1>4. /\ \A c \in Columns : f[c] = now[c] /\ g[c] = now[c]
      /\ f["is_archived"] = TRUE /\ f["archived_at"] = TRUE
      /\ g["is_archived"] = FALSE /\ g["archived_at"] = FALSE
  <2>1. \A c \in Columns : f[c] = now[c] /\ g[c] = now[c]
    BY <1>2, <1>3
  <2>2. now["is_archived"] = loaded["is_archived"] /\ now["archived_at"] = loaded["archived_at"]
    OBVIOUS
  <2>3. f["is_archived"] = TRUE /\ g["is_archived"] = FALSE
    BY <1>2, <1>3, <2>2
  <2>4. f["archived_at"] = TRUE /\ g["archived_at"] = FALSE
    BY <1>2, <1>3, <2>2
  <2> QED
    BY <2>1, <2>3, <2>4
<1>5. SameRow(f, Archived(now)) /\ SameRow(g, Restored(now))
  <2>1. /\ \A c \in Columns : Archived(now)[c] = now[c] /\ Restored(now)[c] = now[c]
        /\ Archived(now)["is_archived"] = TRUE /\ Archived(now)["archived_at"] = TRUE
        /\ Restored(now)["is_archived"] = FALSE /\ Restored(now)["archived_at"] = FALSE
    BY ArchivedColumns
  <2>2. f.is_archived = Archived(now).is_archived /\ g.is_archived = Restored(now).is_archived
    BY <1>4, <2>1, Zenon
  <2>3. f.archived_at = Archived(now).archived_at /\ g.archived_at = Restored(now).archived_at
    BY <1>4, <2>1, Zenon
  <2> QED
    BY <1>4, <2>1, <2>2, <2>3, Zenon DEF SameRow
<1> QED
  BY <1>1, <1>5, RowsEqual DEF a, t, f, g

LEMMA TerminatedColumns ==
  ASSUME NEW r \in Row, NEW s \in Statuses, NEW d \in Dates
  PROVE  LET t == Terminated(r, s, d) IN
         /\ t \in Row /\ t.employment_status_id = s /\ t.termination_date = d
         /\ t.is_archived = r.is_archived /\ t.archived_at = r.archived_at
         /\ \A c \in Columns \ {"employment_status_id", "termination_date"} : t[c] = r[c]
<1>1. Terminated(r, s, d) \in Row
  BY DEF Terminated, Row
<1> QED
  BY <1>1 DEF Terminated, Row, Columns

LEMMA ReactivatedColumns ==
  ASSUME NEW r \in Row, NEW s \in Statuses, NEW b \in BOOLEAN
  PROVE  LET t == Reactivated(r, s, b) IN
         /\ t \in Row /\ t.employment_status_id = s
         /\ t.termination_date = IF b THEN NULL ELSE r.termination_date
         /\ t.is_archived = r.is_archived /\ t.archived_at = r.archived_at
         /\ \A c \in Columns \ {"employment_status_id", "termination_date"} : t[c] = r[c]
<1>1. Reactivated(r, s, b) \in Row
  BY DEF Reactivated, Row
<1> QED
  BY <1>1 DEF Reactivated, Row, Columns

LEMMA FlushTerminated ==
  ASSUME NEW now \in Row, NEW loaded \in Row, NEW s \in Statuses, NEW d \in Dates,
         now.employment_status_id = loaded.employment_status_id,
         now.termination_date = loaded.termination_date
  PROVE  Flush(now, loaded, Terminated(loaded, s, d)) = Terminated(now, s, d)
<1>1. Flush(now, loaded, Terminated(loaded, s, d)) \in Row
  BY TerminatedColumns, FlushRow
<1>2. SameRow(Flush(now, loaded, Terminated(loaded, s, d)), Terminated(now, s, d))
  BY TerminatedColumns, FlushColumns DEF SameRow
<1> QED
  BY <1>1, <1>2, RowsEqual, TerminatedColumns

LEMMA FlushReactivated ==
  ASSUME NEW now \in Row, NEW loaded \in Row, NEW s \in Statuses, NEW b \in BOOLEAN,
         now.employment_status_id = loaded.employment_status_id,
         now.termination_date = loaded.termination_date
  PROVE  Flush(now, loaded, Reactivated(loaded, s, b)) = Reactivated(now, s, b)
<1>1. Flush(now, loaded, Reactivated(loaded, s, b)) \in Row
  BY ReactivatedColumns, FlushRow
<1>2. SameRow(Flush(now, loaded, Reactivated(loaded, s, b)), Reactivated(now, s, b))
  BY ReactivatedColumns, FlushColumns DEF SameRow
<1> QED
  BY <1>1, <1>2, RowsEqual, ReactivatedColumns

-----------------------------------------------------------------------------
(* The two modules build rows with the same operators. *)
LEMMA SameOperators ==
  /\ Ids = Rules!Ids /\ Dates = Rules!Dates
  /\ \A t : Present(t) = Rules!Present(t)
  /\ \A t : Constraints(t) = Rules!Constraints(t)
BY DEF Ids, Rules!Ids, Dates, Rules!Dates, Present, Rules!Present,
       Constraints, Rules!Constraints, NumbersUnique, Rules!NumbersUnique,
       SsnsUnique, Rules!SsnsUnique, SupervisorsExist, Rules!SupervisorsExist,
       NoSelfSupervision, Rules!NoSelfSupervision

LEMMA SameChecks ==
  /\ \A t, e : IsNextId(t, e) <=> Rules!IsNextId(t, e)
  /\ \A r, x : Overlay(r, x) = Rules!Overlay(r, x)
  /\ \A t, f, a, e, x :
       UpdateAccepted(t, f, a, e, x) <=> Rules!UpdateAccepted(t, f, a, e, x)
  /\ \A t, f, a, r, u :
       CreateAccepted(t, f, a, r, u) <=> Rules!CreateAccepted(t, f, a, r, u)
  /\ \A r, d : TerminateAccepted(r, d) <=> Rules!TerminateAccepted(r, d)
BY DEF Ids, Rules!Ids, IsNextId, Rules!IsNextId, Present, Rules!Present,
       Overlay, Rules!Overlay, UpdateAccepted, Rules!UpdateAccepted,
       CreateAccepted, Rules!CreateAccepted, TerminateAccepted,
       Rules!TerminateAccepted, TitleFits, Rules!TitleFits,
       SupervisorEligible, Rules!SupervisorEligible, DatesOrdered,
       Rules!DatesOrdered, SsnFree, Rules!SsnFree, NumberFreeIgnoringCase,
       Rules!NumberFreeIgnoringCase

LEMMA SameRows ==
  /\ \A r, s, d : Terminated(r, s, d) = Rules!Terminated(r, s, d)
  /\ \A r, s, b : Reactivated(r, s, b) = Rules!Reactivated(r, s, b)
  /\ \A r, a : AlreadyTerminated(r, a) <=> Rules!AlreadyTerminated(r, a)
  /\ \A r : Archived(r) = Rules!Archived(r) /\ Restored(r) = Rules!Restored(r)
  /\ \A t, d : Purged(t, d) = Rules!Purged(t, d)
BY DEF Terminated, Rules!Terminated, AlreadyTerminated,
       Rules!AlreadyTerminated, Reactivated, Rules!Reactivated, Archived,
       Rules!Archived, Restored, Rules!Restored, Purged, Rules!Purged,
       Ids, Rules!Ids

-----------------------------------------------------------------------------
(* Every commit that is fresh is a step of the rules.                      *)

(* The row that a commit changes, as it finds and leaves it. *)
LEMMA RowCommitted ==
  ASSUME IInv, NEW w \in Workers, NEW op \in RowOperations,
         CommitObject(w, op), rows' # rows
  PROVE  LET r == req[w] IN
         /\ r.op = op /\ r.id \in Ids /\ rows[r.id] # NoRow
         /\ rows[r.id] \in Row /\ r.loaded \in Row /\ r.object \in Row
         /\ rows' = [rows EXCEPT ![r.id] = Flush(rows[r.id], r.loaded, r.object)]
         /\ Constraints(rows')
         /\ UNCHANGED <<titleDept, active>>
<1>1. /\ req[w].op = op /\ req[w].id \in Ids
      /\ req[w].loaded \in Row /\ req[w].object \in Row
  BY DEF CommitObject, IInv, SessionsOK
<1>2. /\ rows[req[w].id] # NoRow
      /\ rows' = [rows EXCEPT ![req[w].id]
                    = Flush(rows[req[w].id], req[w].loaded, req[w].object)]
      /\ Constraints(rows') /\ UNCHANGED <<titleDept, active>>
  BY DEF CommitObject, End
<1> QED
  BY <1>1, <1>2, PresentRow DEF IInv, TypeOK

(* A step of the rules, or none. *)
RulesStep == \/ Rules!ChangeEmployees
             \/ Rules!ChangeLookups
             \/ UNCHANGED <<rows, titleDept, active>>

LEMMA RowStepFollows ==
  ASSUME NEW e \in Ids, NEW r, rows' = [rows EXCEPT ![e] = r],
         Constraints(rows'), UNCHANGED <<titleDept, active>>,
         Rules!Store(e, r) =>
           \/ \E new \in NewRows : Rules!Create(e, new)
           \/ \E edit \in Edits : Rules!Update(e, edit)
           \/ Rules!Archive(e)
           \/ Rules!Restore(e)
           \/ \E s \in Statuses, d \in Dates \cup {NULL} : Rules!Terminate(e, s, d)
           \/ \E d \in Dates : Rules!TerminateAgain(e, d)
           \/ \E s \in Statuses, b \in BOOLEAN : Rules!Reactivate(e, s, b)
  PROVE  RulesStep
<1>1. Rules!Store(e, r)
  BY DEF Rules!Store
<1>2. /\ Ids = Rules!Ids /\ Dates = Rules!Dates
      /\ Rules!Constraints(rows')
  <2>1. Constraints(rows') = Rules!Constraints(rows')
    BY SameOperators
  <2> QED
    BY <2>1, SameOperators
<1>3. CASE \E s \in Statuses, d \in Dates \cup {NULL} : Rules!Terminate(e, s, d)
  BY <1>2, <1>3 DEF RulesStep, Rules!ChangeEmployees
<1>4. CASE \E d \in Dates : Rules!TerminateAgain(e, d)
  BY <1>2, <1>4 DEF RulesStep, Rules!ChangeEmployees
<1>5. CASE \/ \E new \in NewRows : Rules!Create(e, new)
           \/ \E edit \in Edits : Rules!Update(e, edit)
           \/ Rules!Archive(e)
           \/ Rules!Restore(e)
           \/ \E s \in Statuses, b \in BOOLEAN : Rules!Reactivate(e, s, b)
  BY <1>2, <1>5 DEF RulesStep, Rules!ChangeEmployees
<1> QED
  BY <1>1, <1>3, <1>4, <1>5

LEMMA CreateFollows ==
  ASSUME NEW w \in Workers, CommitCreate(w), ReadsHold(req[w])
  PROVE  RulesStep
<1>1. PICK e \in Ids : IsNextId(rows, e) /\ rows' = [rows EXCEPT ![e] = req[w].object]
  BY DEF CommitCreate
<1>2. PICK new \in NewRows :
        /\ req[w].object = new.row
        /\ CreateAccepted(rows, titleDept, active, new.row, new.ui)
  BY DEF CommitCreate, ReadsHold
<1>3. Rules!Store(e, new.row) => Rules!Create(e, new)
  BY <1>1, <1>2, SameChecks DEF Rules!Create
<1> QED
  BY <1>1, <1>2, <1>3, RowStepFollows DEF CommitCreate, End

LEMMA UpdateFollows ==
  ASSUME IInv, NEW w \in Workers, CommitUpdate(w), ReadsHold(req[w]), rows' # rows
  PROVE  RulesStep
<1> DEFINE r == req[w]
           now == rows[r.id]
<1>1. /\ r.op = "update" /\ r.id \in Ids /\ now # NoRow
      /\ now \in Row /\ r.loaded \in Row
      /\ rows' = [rows EXCEPT ![r.id] = Flush(now, r.loaded, r.object)]
      /\ Constraints(rows') /\ UNCHANGED <<titleDept, active>>
  BY RowCommitted DEF CommitUpdate, RowOperations
<1>2. PICK edit \in Edits :
        /\ r.object = Overlay(r.loaded, edit)
        /\ \A c \in edit.fields : now[c] = r.loaded[c]
        /\ UpdateAccepted(rows, titleDept, active, r.id, edit)
  BY <1>1 DEF ReadsHold
<1>3. rows' = [rows EXCEPT ![r.id] = Overlay(now, edit)]
  BY <1>1, <1>2, FlushUpdated, BodiesAssumption
<1>4. Rules!Store(r.id, Overlay(now, edit)) => Rules!Update(r.id, edit)
  BY <1>1, <1>2, SameChecks DEF Rules!Update
<1> QED
  BY <1>1, <1>3, <1>4, RowStepFollows

LEMMA ArchiveFollows ==
  ASSUME IInv, NEW w \in Workers, CommitArchive(w) \/ CommitRestore(w),
         ReadsHold(req[w]), rows' # rows
  PROVE  RulesStep
<1> DEFINE r == req[w]
           now == rows[r.id]
<1>1. /\ r.op \in {"archive", "restore"} /\ r.id \in Ids /\ now # NoRow
      /\ now \in Row /\ r.loaded \in Row
      /\ rows' = [rows EXCEPT ![r.id] = Flush(now, r.loaded, r.object)]
      /\ Constraints(rows') /\ UNCHANGED <<titleDept, active>>
  BY RowCommitted DEF CommitArchive, CommitRestore, RowOperations
<1>2. /\ now.is_archived = r.loaded.is_archived
      /\ now.archived_at = r.loaded.archived_at
      /\ r.op = "archive" => r.object = Archived(r.loaded)
      /\ r.op = "restore" => r.object = Restored(r.loaded)
  BY <1>1 DEF ReadsHold
<1>3. \/ rows' = [rows EXCEPT ![r.id] = Archived(now)]
      \/ rows' = [rows EXCEPT ![r.id] = Restored(now)]
  BY <1>1, <1>2, FlushArchived
<1>4. /\ Rules!Store(r.id, Archived(now)) => Rules!Archive(r.id)
      /\ Rules!Store(r.id, Restored(now)) => Rules!Restore(r.id)
  BY <1>1, SameRows DEF Rules!Archive, Rules!Restore
<1> QED
  BY <1>1, <1>3, <1>4, RowStepFollows

(* A repeated termination that keeps the status and names a date is the    *)
(* one repetition that the rules know.                                     *)
LEMMA TerminateFollows ==
  ASSUME IInv, NEW w \in Workers, CommitTerminate(w), ReadsHold(req[w]),
         ~RewritesTermination(req[w]), rows' # rows
  PROVE  RulesStep
<1> DEFINE r == req[w]
           now == rows[r.id]
<1>1. /\ r.op = "terminate" /\ r.id \in Ids /\ now # NoRow
      /\ now \in Row /\ r.loaded \in Row
      /\ rows' = [rows EXCEPT ![r.id] = Flush(now, r.loaded, r.object)]
      /\ Constraints(rows') /\ UNCHANGED <<titleDept, active>>
  BY RowCommitted DEF CommitTerminate, RowOperations
<1>2. PICK s \in Statuses, d \in Dates :
        /\ r.object = Terminated(r.loaded, s, d)
        /\ now.employment_status_id = r.loaded.employment_status_id
        /\ now.termination_date = r.loaded.termination_date
        /\ TerminateAccepted(now, d)
  BY <1>1 DEF ReadsHold
<1>3. rows' = [rows EXCEPT ![r.id] = Terminated(now, s, d)]
  BY <1>1, <1>2, FlushTerminated
<1>4. CASE ~AlreadyTerminated(now, active)
  <2>1. Rules!Store(r.id, Terminated(now, s, d)) => Rules!Terminate(r.id, s, d)
    <3>1. d # NULL
      BY NullAssumption
    <3>2. ~Rules!AlreadyTerminated(now, active) /\ Rules!TerminateAccepted(now, d)
      BY <1>2, <1>4, SameChecks, SameRows
    <3>3. Terminated(now, s, d) = Rules!Terminated(now, s, d)
      BY SameRows
    <3> QED
      BY <1>1, <3>1, <3>2, <3>3 DEF Rules!Terminate
  <2> QED
    BY <1>1, <1>3, <2>1, RowStepFollows
<1>5. CASE AlreadyTerminated(now, active)
  <2>1. r.object.employment_status_id = now.employment_status_id
    BY <1>1, <1>5 DEF RewritesTermination
  <2>2. s = now.employment_status_id
    BY <1>1, <1>2, <2>1, TerminatedColumns
  <2>3. Terminated(now, s, d) = [now EXCEPT !.termination_date = d]
    BY <1>1, <2>2 DEF Terminated, Row
  <2>4. Rules!Store(r.id, Terminated(now, s, d)) => Rules!TerminateAgain(r.id, d)
    <3>1. Rules!AlreadyTerminated(now, active) /\ Rules!TerminateAccepted(now, d)
      BY <1>2, <1>5, SameChecks, SameRows
    <3> QED
      BY <1>1, <2>3, <3>1 DEF Rules!TerminateAgain
  <2> QED
    BY <1>1, <1>3, <2>4, RowStepFollows
<1> QED
  BY <1>4, <1>5

LEMMA ReactivateFollows ==
  ASSUME IInv, NEW w \in Workers, CommitReactivate(w), ReadsHold(req[w]), rows' # rows
  PROVE  RulesStep
<1> DEFINE r == req[w]
           now == rows[r.id]
<1>1. /\ r.op = "reactivate" /\ r.id \in Ids /\ now # NoRow
      /\ now \in Row /\ r.loaded \in Row
      /\ rows' = [rows EXCEPT ![r.id] = Flush(now, r.loaded, r.object)]
      /\ Constraints(rows') /\ UNCHANGED <<titleDept, active>>
  BY RowCommitted DEF CommitReactivate, RowOperations
<1>2. PICK s \in Statuses, b \in BOOLEAN :
        /\ r.object = Reactivated(r.loaded, s, b)
        /\ now.employment_status_id = r.loaded.employment_status_id
        /\ now.termination_date = r.loaded.termination_date
        /\ ~now.is_archived
  BY <1>1 DEF ReadsHold
<1>3. rows' = [rows EXCEPT ![r.id] = Reactivated(now, s, b)]
  BY <1>1, <1>2, FlushReactivated
<1>4. Rules!Store(r.id, Reactivated(now, s, b)) => Rules!Reactivate(r.id, s, b)
  BY <1>1, <1>2, SameRows DEF Rules!Reactivate
<1>5. Rules!Store(r.id, Reactivated(now, s, b)) =>
        \E st \in Statuses, cl \in BOOLEAN : Rules!Reactivate(r.id, st, cl)
  BY <1>4
<1> QED
  BY <1>1, <1>3, <1>5, RowStepFollows

LEMMA PurgeFollows ==
  ASSUME IInv, NEW w \in Workers, CommitPurge(w), ReadsHold(req[w])
  PROVE  RulesStep
<1>1. req[w].doomed = {e \in Present(rows) : rows[e].is_archived}
  BY DEF CommitPurge, ReadsHold
<1>2. rows' = Rules!Purged(rows, {e \in Rules!Present(rows) : rows[e].is_archived})
  <2>1. Present(rows) = Rules!Present(rows)
    BY SameOperators
  <2>2. rows' = Rules!Purged(rows, req[w].doomed)
    BY SameRows DEF CommitPurge
  <2> QED
    BY <1>1, <2>1, <2>2, Zenon
<1>3. Constraints(rows')
  BY CommitInv DEF Commit, IInv, TableIntegrity
<1>4. Rules!Purge
  BY <1>2 DEF Rules!Purge
<1>5. Rules!Constraints(rows') /\ UNCHANGED <<titleDept, active>>
  BY <1>3, SameOperators DEF CommitPurge, End
<1> QED
  BY <1>4, <1>5 DEF RulesStep, Rules!ChangeEmployees

LEMMA StepFollowsRules ==
  ASSUME IInv, NothingMissed, [Next]_vars, [FreshCommits]_vars
  PROVE  RulesStep
<1>1. ASSUME UNCHANGED <<rows, titleDept, active>> PROVE RulesStep
  BY <1>1 DEF RulesStep
<1>2. ASSUME NEW w \in Workers, Commit(w) PROVE RulesStep
  <2>1. CASE rows' = rows
    BY <1>1, <1>2, <2>1
       DEF Commit, CommitCreate, CommitPurge, CommitObject, CommitUpdate,
           CommitArchive, CommitRestore, CommitTerminate, CommitReactivate, End
  <2>2. CASE rows' # rows
    <3>1. ReadsHold(req[w]) /\ ~RewritesTermination(req[w])
      BY <1>2, <2>2 DEF FreshCommits, NothingMissed, Untouched, vars
    <3> QED
      BY <1>2, <2>2, <3>1, CreateFollows, UpdateFollows, ArchiveFollows,
         TerminateFollows, ReactivateFollows, PurgeFollows DEF Commit
  <2> QED
    BY <2>1, <2>2
<1>3. ASSUME NEW w \in Workers, NEW t \in Titles, NEW d \in Departments,
             MoveTitle(w, t, d)
      PROVE  RulesStep
  BY <1>3 DEF MoveTitle, IInv, TypeOK, RulesStep, Rules!ChangeLookups
<1>4. ASSUME NEW w \in Workers, NEW s \in Statuses, FlagStatus(w, s)
      PROVE  RulesStep
  BY <1>4 DEF FlagStatus, IInv, TypeOK, RulesStep, Rules!ChangeLookups
<1>5. ASSUME NEW w \in Workers, Read(w) \/ Fail(w) PROVE RulesStep
  BY <1>1, <1>5, ReadHolds DEF Fail
<1>6. CASE UNCHANGED vars
  BY <1>1, <1>6 DEF vars
<1> QED
  BY <1>2, <1>3, <1>4, <1>5, <1>6 DEF Next

(* However many requests are in flight: a commit that none has overtaken,  *)
(* or that finds the columns it is about as it read them and its checks    *)
(* still true, is one of the documented operations on the row as it is.    *)
(* The proof rests on NothingMissed: who is not overtaken has missed       *)
(* nothing, so what its request checked holds when it commits.             *)
THEOREM FreshCommitsFollowRules == Spec => FollowsRules
<1>1. Init => IInv /\ NothingMissed
  BY InitInv, NothingMissedInit
<1>2. IInv /\ NothingMissed /\ [Next]_vars => (IInv /\ NothingMissed)'
  BY NextInv, NothingMissedNext
<1>3. ASSUME IInv, NothingMissed, [Next]_vars
      PROVE  [FreshCommits =>
                \/ UNCHANGED Rules!rulesVars
                \/ Rules!ChangeEmployees \/ Rules!ChangeLookups]_vars
  BY <1>3, StepFollowsRules DEF RulesStep, Rules!rulesVars
<1> QED
  BY <1>1, <1>2, <1>3, PTL DEF Spec, FollowsRules

-----------------------------------------------------------------------------
(* Dates.                                                                  *)

(* What a session will store was compared when it was read, or it leaves   *)
(* both dates alone.                                                       *)
DatesChecked(r) ==
  /\ r.op = "create" => DatesOrdered(r.object)
  /\ r.op \in RowOperations =>
       \/ DatesOrdered(r.object)
       \/ /\ r.object["hire_date"] = r.loaded["hire_date"]
          /\ r.object["termination_date"] = r.loaded["termination_date"]

ObjectsOrdered == \A w \in Workers : DatesChecked(req[w])

LEMMA ReadsOrdered ==
  ASSUME IInv, NEW r, Untouched(r)
  PROVE  DatesChecked(r)
<1>1. CASE r.op = "create"
  BY <1>1 DEF Untouched, ReadsHold, CreateAccepted, DatesChecked, RowOperations
<1>2. CASE r.op = "update"
  BY <1>2 DEF Untouched, ReadsHold, UpdateAccepted, DatesChecked, RowOperations
<1>3. ASSUME r.op \in RowOperations PROVE r.loaded \in Row /\ r.loaded = rows[r.id]
  BY <1>3, PresentRow DEF Untouched, IInv, TypeOK
<1>4. CASE r.op \in {"archive", "restore"}
  <2>1. r.loaded \in Row /\ r.object \in {Archived(r.loaded), Restored(r.loaded)}
    BY <1>3, <1>4 DEF Untouched, ReadsHold, RowOperations
  <2> QED
    BY <1>4, <2>1, ArchivedColumns DEF DatesChecked, Columns
<1>5. CASE r.op = "terminate"
  <2>1. PICK s \in Statuses, d \in Dates :
          TerminateAccepted(rows[r.id], d) /\ r.object = Terminated(r.loaded, s, d)
    BY <1>5 DEF Untouched, ReadsHold
  <2>2. r.loaded \in Row /\ r.loaded = rows[r.id]
    BY <1>3, <1>5 DEF RowOperations
  <2>3. /\ r.object.termination_date = d
        /\ r.object["hire_date"] = r.loaded["hire_date"]
    BY <2>1, <2>2, TerminatedColumns DEF Columns
  <2> QED
    BY <1>5, <2>1, <2>2, <2>3 DEF TerminateAccepted, DatesOrdered, DatesChecked
<1>6. CASE r.op = "reactivate"
  <2>1. PICK s \in Statuses, b \in BOOLEAN : r.object = Reactivated(r.loaded, s, b)
    BY <1>6 DEF Untouched, ReadsHold
  <2>2. r.loaded \in Row
    BY <1>3, <1>6 DEF RowOperations
  <2>3. /\ r.object["termination_date"] = IF b THEN NULL ELSE r.loaded["termination_date"]
        /\ r.object["hire_date"] = r.loaded["hire_date"]
    BY <2>1, <2>2 DEF Reactivated, Row
  <2> QED
    BY <1>6, <2>3 DEF DatesOrdered, DatesChecked
<1> QED
  BY <1>1, <1>2, <1>4, <1>5, <1>6 DEF RowOperations, DatesChecked

LEMMA OrderedInit == Init => ObjectsOrdered
BY DEF Init, ObjectsOrdered, DatesChecked, Idle, RowOperations

LEMMA OrderedNext ==
  ASSUME IInv, ObjectsOrdered, [Next]_vars
  PROVE  ObjectsOrdered'
<1>1. ASSUME NEW w \in Workers, req' = Overtaken(w) PROVE ObjectsOrdered'
  <2>1. ASSUME NEW v \in Workers PROVE DatesChecked(req'[v])
    <3>1. CASE v = w
      <4>1. req'[v] = Idle
        BY <1>1, <3>1, OvertakenSessions DEF IInv
      <4> QED
        BY <4>1 DEF Idle, DatesChecked, RowOperations
    <3>2. CASE v # w
      <4>1. /\ req'[v].op = req[v].op /\ req'[v].object = req[v].object
            /\ req'[v].loaded = req[v].loaded
        BY <1>1, <3>2, OvertakenSessions DEF IInv
      <4> QED
        BY <4>1 DEF ObjectsOrdered, DatesChecked
    <3> QED
      BY <3>1, <3>2
  <2> QED
    BY <2>1 DEF ObjectsOrdered, DatesChecked
<1>2. ASSUME NEW w \in Workers, DatesChecked(req'[w]),
             \A v \in Workers \ {w} : req'[v] = req[v]
      PROVE  ObjectsOrdered'
  <2>1. \A v \in Workers : DatesChecked(req'[v])
    BY <1>2 DEF ObjectsOrdered
  <2> QED
    BY <2>1 DEF ObjectsOrdered, DatesChecked
<1>3. ASSUME NEW w \in Workers, Read(w) PROVE ObjectsOrdered'
  <2>1. DatesChecked(req'[w])
    BY <1>3, ReadHolds, ReadsOrdered
  <2>2. \A v \in Workers \ {w} : req'[v] = req[v]
    BY <1>3 DEF Read, ReadCreate, ReadUpdate, ReadArchive, ReadRestore, ReadTerminate,
                ReadReactivate, ReadPurge, BeginOn, Begin, IInv, TypeOK
  <2> QED
    BY <1>2, <2>1, <2>2
<1>4. ASSUME NEW w \in Workers, Fail(w) PROVE ObjectsOrdered'
  <2>1. req'[w] = Idle /\ \A v \in Workers \ {w} : req'[v] = req[v]
    BY <1>4 DEF Fail, IInv, TypeOK
  <2>2. DatesChecked(req'[w])
    BY <2>1 DEF Idle, DatesChecked, RowOperations
  <2> QED
    BY <1>2, <2>1, <2>2
<1>5. CASE UNCHANGED vars
  BY <1>5 DEF vars, ObjectsOrdered, DatesChecked
<1> QED
  BY <1>1, <1>3, <1>4, <1>5
     DEF Next, Commit, CommitCreate, CommitPurge, CommitObject, CommitUpdate,
         CommitArchive, CommitRestore, CommitTerminate, CommitReactivate, End,
         MoveTitle, FlagStatus

(* A flush that is not of one date beside another that has moved leaves    *)
(* the two dates of the row, or stores the two of the object.              *)
LEMMA FlushOrdered ==
  ASSUME NEW now \in Row, NEW loaded \in Row, NEW object \in Row,
         DatesOrdered(now),
         \/ DatesOrdered(object)
         \/ /\ object["hire_date"] = loaded["hire_date"]
            /\ object["termination_date"] = loaded["termination_date"],
         ~\E c, d \in {"hire_date", "termination_date"} :
            object[c] # loaded[c] /\ object[d] = loaded[d] /\ now[d] # loaded[d]
  PROVE  DatesOrdered(Flush(now, loaded, object))
<1> DEFINE f == Flush(now, loaded, object)
<1>1. /\ f.hire_date = IF object.hire_date # loaded.hire_date
                       THEN object.hire_date ELSE now.hire_date
      /\ f.termination_date = IF object.termination_date # loaded.termination_date
                              THEN object.termination_date ELSE now.termination_date
  BY DEF Flush
<1>2. \/ f.hire_date = now.hire_date /\ f.termination_date = now.termination_date
      \/ /\ f.hire_date = object.hire_date /\ f.termination_date = object.termination_date
         /\ DatesOrdered(object)
  BY <1>1
<1>3. DatesOrdered(f)
  <2> HIDE DEF f
  <2> QED
    BY <1>2 DEF DatesOrdered
<1> QED
  BY <1>3

(* The step that leaves a row with its dates crossed. *)
LEMMA CrossingStep ==
  ASSUME IInv, ObjectsOrdered, [Next]_vars, NEW e \in Present(rows'),
         ~DatesOrdered(rows'[e]), ~(e \in Present(rows) /\ ~DatesOrdered(rows[e]))
  PROVE  \E w \in Workers : Commit(w) /\ req[w].id = e /\ StaleDate(w)
<1>1. e \in Ids /\ rows \in Table /\ rows'[e] # NoRow
  BY DEF Present, IInv, TypeOK
<1>2. rows' # rows
  BY <1>1 DEF Present
<1>3. PICK w \in Workers : Commit(w)
  BY <1>2, ReadHolds DEF Next, vars, Fail, MoveTitle, FlagStatus
<1>4. ASSUME CommitCreate(w) PROVE FALSE
  <2>1. PICK i \in Ids : rows' = [rows EXCEPT ![i] = req[w].object]
    BY <1>4 DEF CommitCreate
  <2>2. DatesOrdered(req[w].object)
    BY <1>4 DEF CommitCreate, ObjectsOrdered, DatesChecked
  <2>3. rows'[e] = IF e = i THEN req[w].object ELSE rows[e]
    BY <1>1, <2>1 DEF Table
  <2> QED
    BY <1>1, <2>2, <2>3 DEF Present
<1>5. ASSUME CommitPurge(w) PROVE FALSE
  <2>1. req[w].doomed \in SUBSET Ids /\ rows' = Purged(rows, req[w].doomed)
    BY <1>5 DEF CommitPurge, IInv, TypeOK, Session
  <2>2. e \in Present(rows) /\ rows[e] \in Row
    BY <1>1, <2>1, PurgedRows, PresentRow DEF Present
  <2>3. \/ rows'[e] = rows[e]
        \/ rows'[e] = [rows[e] EXCEPT !.supervisor_id = NULL]
    BY <1>1, <2>1, <2>2 DEF Purged, Present
  <2> QED
    BY <2>2, <2>3 DEF DatesOrdered, Row
<1>6. ASSUME NEW op \in RowOperations, CommitObject(w, op)
      PROVE  req[w].id = e /\ StaleDate(w)
  <2> DEFINE r == req[w]
  <2>1. /\ r.op = op /\ r.id \in Ids /\ rows[r.id] # NoRow
        /\ rows[r.id] \in Row /\ r.loaded \in Row /\ r.object \in Row
        /\ rows' = [rows EXCEPT ![r.id] = Flush(rows[r.id], r.loaded, r.object)]
    BY <1>2, <1>6, RowCommitted
  <2>2. r.id = e
    <3>1. SUFFICES ASSUME r.id # e PROVE FALSE
      OBVIOUS
    <3>2. rows'[e] = rows[e]
      BY <1>1, <2>1, <3>1 DEF Table
    <3> QED
      BY <1>1, <3>2 DEF Present
  <2>3. rows'[e] = Flush(rows[e], r.loaded, r.object) /\ DatesOrdered(rows[e])
    BY <1>1, <2>1, <2>2 DEF Table, Present
  <2>4. \/ DatesOrdered(r.object)
        \/ /\ r.object["hire_date"] = r.loaded["hire_date"]
           /\ r.object["termination_date"] = r.loaded["termination_date"]
    BY <2>1 DEF ObjectsOrdered, DatesChecked
  <2>5. \E c, d \in {"hire_date", "termination_date"} :
          /\ r.object[c] # r.loaded[c] /\ r.object[d] = r.loaded[d]
          /\ rows[e][d] # r.loaded[d]
    BY <2>1, <2>2, <2>3, <2>4, FlushOrdered
  <2> QED
    BY <2>1, <2>2, <2>5 DEF StaleDate
<1> QED
  BY <1>3, <1>4, <1>5, <1>6
     DEF Commit, CommitUpdate, CommitArchive, CommitRestore, CommitTerminate,
         CommitReactivate, RowOperations

(* "termination_date, if set, is on or after hire_date": of all overlaps   *)
(* of requests, purges and ids that return, only one kind breaks it, a     *)
(* commit of one date after another request has changed the other date.    *)
THEOREM OnlyStaleDatesCross == Spec => DatesCrossOnlyWhenStale
<1>1. IInv /\ ObjectsOrdered /\ [Next]_vars => (IInv /\ ObjectsOrdered)'
  BY NextInv, OrderedNext
<1>2. ASSUME IInv, ObjectsOrdered, [Next]_vars
      PROVE  [\A e \in Present(rows') :
                ~DatesOrdered(rows'[e]) =>
                  \/ e \in Present(rows) /\ ~DatesOrdered(rows[e])
                  \/ \E w \in Workers :
                       Commit(w) /\ req[w].id = e /\ StaleDate(w)]_vars
  BY <1>2, CrossingStep
<1> QED
  BY <1>1, <1>2, InitInv, OrderedInit, PTL DEF Spec, DatesCrossOnlyWhenStale

-----------------------------------------------------------------------------
(* Requests that do not overlap.                                           *)

OneAtATime == \A v, w \in Workers : v = w

LEMMA NobodyOvertaken ==
  ASSUME OneAtATime, IInv, NothingMissed, \A w \in Workers : ~req[w].overtaken,
         [Next]_vars
  PROVE  \A w \in Workers : ~req'[w].overtaken
<1>1. ASSUME NEW w \in Workers, req' = Overtaken(w) \/ req' = [req EXCEPT ![w] = Idle]
      PROVE  \A v \in Workers : ~req'[v].overtaken
  <2>1. req'[w] = Idle
    BY <1>1, OvertakenSessions DEF IInv, TypeOK
  <2> QED
    BY <2>1 DEF OneAtATime, Idle
<1>2. ASSUME NEW w \in Workers, Read(w) PROVE \A v \in Workers : ~req'[v].overtaken
  <2>1. PICK s : req' = [req EXCEPT ![w] = s] /\ s.overtaken = FALSE
    <3>1. ASSUME NEW op, NEW e, NEW object, BeginOn(w, op, e, object)
          PROVE  \E s : req' = [req EXCEPT ![w] = s] /\ s.overtaken = FALSE
      <4> DEFINE q == [Idle EXCEPT !.op = op, !.id = e, !.loaded = rows[e],
                                   !.object = object]
      <4>1. q.overtaken = FALSE
        BY DEF Idle
      <4>2. req' = [req EXCEPT ![w] = q]
        BY <3>1 DEF BeginOn, Begin
      <4> HIDE DEF q
      <4> QED
        BY <4>1, <4>2
    <3>2. ASSUME NEW new, ReadCreate(w, new)
          PROVE  \E s : req' = [req EXCEPT ![w] = s] /\ s.overtaken = FALSE
      <4> DEFINE q == [Idle EXCEPT !.op = "create", !.object = new.row]
      <4>1. q.overtaken = FALSE
        BY DEF Idle
      <4>2. req' = [req EXCEPT ![w] = q]
        BY <3>2 DEF ReadCreate, Begin
      <4> HIDE DEF q
      <4> QED
        BY <4>1, <4>2
    <3>3. ASSUME NEW e, NEW s, NEW d, ReadTerminate(w, e, s, d)
          PROVE  \E t : req' = [req EXCEPT ![w] = t] /\ t.overtaken = FALSE
      <4> DEFINE q(x) == [Idle EXCEPT !.op = "terminate", !.id = e, !.loaded = rows[e],
                                      !.object = Terminated(rows[e], s, x),
                                      !.dated = (d # NULL)]
      <4>1. PICK x : Begin(w, q(x))
        BY <3>3 DEF ReadTerminate
      <4>2. q(x).overtaken = FALSE
        BY DEF Idle
      <4>3. req' = [req EXCEPT ![w] = q(x)]
        BY <4>1 DEF Begin
      <4> HIDE DEF q
      <4> QED
        BY <4>2, <4>3
    <3>4. ASSUME ReadPurge(w)
          PROVE  \E s : req' = [req EXCEPT ![w] = s] /\ s.overtaken = FALSE
      <4> DEFINE q == [Idle EXCEPT !.op = "purge",
                       !.doomed = {e \in Present(rows) : rows[e].is_archived}]
      <4>1. q.overtaken = FALSE
        BY DEF Idle
      <4>2. req' = [req EXCEPT ![w] = q]
        BY <3>4 DEF ReadPurge, Begin
      <4> HIDE DEF q
      <4> QED
        BY <4>1, <4>2
    <3> QED
      BY <1>2, <3>1, <3>2, <3>3, <3>4
         DEF Read, ReadUpdate, ReadArchive, ReadRestore, ReadReactivate
  <2>2. req'[w].overtaken = FALSE
    BY <2>1 DEF IInv, TypeOK
  <2> QED
    BY <2>2 DEF OneAtATime
<1> QED
  BY <1>1, <1>2
     DEF Next, Commit, CommitCreate, CommitPurge, CommitObject, CommitUpdate,
         CommitArchive, CommitRestore, CommitTerminate, CommitReactivate, End,
         MoveTitle, FlagStatus, Fail, vars

DatesInOrder == \A e \in Present(rows) : DatesOrdered(rows[e])

(* No employee leaves before being hired, as long as requests do not       *)
(* overlap: the checks are made on the row as it would be, so they suffice *)
(* when nothing changes between check and commit.                          *)
THEOREM SerialDatesInOrder == ASSUME OneAtATime PROVE Spec => []DatesInOrder
<1> DEFINE I == /\ IInv /\ NothingMissed /\ ObjectsOrdered /\ DatesInOrder
                /\ \A w \in Workers : ~req[w].overtaken
<1>1. Init => I
  <2>1. Init => DatesInOrder /\ \A w \in Workers : ~req[w].overtaken
    BY DEF Init, DatesInOrder, Present, Idle
  <2> QED
    BY <2>1, InitInv, NothingMissedInit, OrderedInit
<1>2. I /\ [Next]_vars => I'
  <2> SUFFICES ASSUME I, [Next]_vars PROVE I'
    OBVIOUS
  <2>1. \A w \in Workers : ~StaleDate(w)
    BY DEF NothingMissed, Untouched, StaleDate
  <2>2. DatesInOrder'
    BY <2>1, CrossingStep DEF DatesInOrder
  <2> QED
    BY <2>2, NextInv, NothingMissedNext, OrderedNext, NobodyOvertaken
<1> QED
  BY <1>1, <1>2, PTL DEF Spec
=============================================================================
