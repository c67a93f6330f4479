--------------------------- MODULE ReferenceProofs ---------------------------
(***************************************************************************)
(* Theorems of ReferenceData, for lookup tables and employees of any size  *)
(* and any number of requests, resets and restarts.                        *)
(***************************************************************************)
EXTENDS ReferenceData, TLAPS

(* Why the samples that ClearAudit commits refer to nothing that is gone:  *)
(* while they are pending nobody else commits, and they were due.          *)
SamplesStillDue == pending # {} => Needed \subseteq present

(* No deletion that has passed its checks is about to take a system row:   *)
(* the titles that go with a department are not statuses.                  *)
DeletionsSpareSystem ==
  \A w \in Workers :
    req[w].op = "delete" =>
      /\ req[w].row \in Names \ System
      /\ \A n \in req[w].titles : Parent[n] # None

IInv ==
  /\ TypeOK
  /\ ReferencesResolve
  /\ SystemRowsStay
  /\ SamplesStillDue
  /\ DeletionsSpareSystem

-----------------------------------------------------------------------------
(* Seeding adds defaults, and what it adds has its parent beside it. *)
LEMMA SeededRows ==
  ASSUME NEW rows \in SUBSET Names, NEW tables \in SUBSET Tables,
         \A n \in rows : Parent[n] \in rows \cup {None}
  PROVE  /\ Seeded(rows, tables) \in SUBSET Names
         /\ rows \subseteq Seeded(rows, tables)
         /\ \A n \in Seeded(rows, tables) : Parent[n] \in Seeded(rows, tables) \cup {None}
         /\ \A n \in Defaults : Kind[n] \in tables /\ Parent[n] = None
                                  => n \in Seeded(rows, tables)
<1> DEFINE missing == {n \in Defaults : Kind[n] \in tables}
<1>1. ASSUME NEW n \in missing, Parent[n] \in missing, Parent[n] # None
      PROVE  Parent[Parent[n]] = None
  BY <1>1, TablesAssumption, SeedAssumption
<1>2. missing \subseteq Names
  BY SeedAssumption
<1> QED
  BY <1>1, <1>2, TablesAssumption DEF Seeded

LEMMA SamplesRefer ==
  /\ WithSamples \in [People -> SUBSET Names]
  /\ Nobody \in [People -> SUBSET Names]
  /\ Referred(WithSamples) \subseteq Needed
  /\ Referred(Nobody) = {}
<1>1. \A p \in Samples : SampleRefs[p] \in SUBSET Names
  BY SeedAssumption
<1>2. Referred(WithSamples) \subseteq Needed
  BY DEF Referred, WithSamples, Needed
<1> QED
  BY <1>1, <1>2 DEF WithSamples, Nobody, Referred

(* A status has no parent, so no title or state is one. *)
LEMMA SystemRows ==
  \A n \in System : n \in Names /\ Kind[n] = "statuses" /\ Parent[n] = None
BY TablesAssumption, SeedAssumption

LEMMA InitInv == Init => IInv
<1> SUFFICES ASSUME Init PROVE IInv
  OBVIOUS
<1>1. TypeOK
  BY SamplesRefer, SeedAssumption DEF Init, TypeOK, Idle, Request
<1>2. ReferencesResolve
  BY SamplesRefer, SeedAssumption, TablesAssumption DEF Init, ReferencesResolve
<1> QED
  BY <1>1, <1>2, SeedAssumption
     DEF Init, IInv, SystemRowsStay, SamplesStillDue, DeletionsSpareSystem, Idle

-----------------------------------------------------------------------------
(* A step that ends the request of one worker, or of all. *)
LEMMA EndRequests ==
  ASSUME IInv, req' \in [Workers -> Request],
         \A w \in Workers : req'[w] = req[w] \/ req'[w] = Idle,
         \A w \in pending' : w \in pending /\ req'[w] = req[w]
  PROVE  /\ \A w \in pending' : /\ pending' = {w}
                                /\ req'[w].op = "reset"
                                /\ req'[w].todo \subseteq {"audit", "record"}
         /\ pending' \in SUBSET Workers
         /\ DeletionsSpareSystem'
BY DEF IInv, TypeOK, DeletionsSpareSystem, Idle

LEMMA NextInv == IInv /\ [Next]_vars => IInv'
<1> SUFFICES ASSUME IInv, [Next]_vars PROVE IInv'
  OBVIOUS
<1>1. Idle \in Request /\ Idle.op = "idle"
  BY DEF Idle, Request
<1>2. ASSUME NEW w \in Workers, CanWrite(w), req[w] = Idle PROVE pending = {}
  BY <1>1, <1>2 DEF CanWrite, IInv, TypeOK
<1>3. ASSUME NEW w \in Workers, CanWrite(w), NEW s \in Steps, IsNext(w, s),
             s \notin {"audit", "record"}
      PROVE  pending = {}
  BY <1>3 DEF CanWrite, IsNext, IInv, TypeOK
<1>4. ASSUME NEW w \in Workers, NEW s \in Steps, IsNext(w, s), Done(w, s)
      PROVE  /\ req' \in [Workers -> Request]
             /\ \A v \in Workers : /\ req'[v].op = req[v].op
                                   /\ req'[v].row = req[v].row
                                   /\ req'[v].titles = req[v].titles
                                   /\ req'[v].todo \subseteq req[v].todo
             /\ DeletionsSpareSystem'
  <2>1. req' \in [Workers -> Request]
    BY <1>4 DEF Done, IsNext, IInv, TypeOK, Request
  <2>2. \A v \in Workers : /\ req'[v].op = req[v].op
                           /\ req'[v].row = req[v].row
                           /\ req'[v].titles = req[v].titles
                           /\ req'[v].todo \subseteq req[v].todo
    BY <1>4 DEF Done, IsNext, IInv, TypeOK, Request
  <2> QED
    BY <2>1, <2>2 DEF IInv, DeletionsSpareSystem
<1>5. ASSUME NEW w \in Workers, NEW n \in Names, AddRow(w, n) PROVE IInv'
  BY <1>5 DEF AddRow, IInv, TypeOK, ReferencesResolve, SystemRowsStay,
              SamplesStillDue, DeletionsSpareSystem
<1>6. ASSUME NEW w \in Workers, NEW p \in People,
             \/ PurgeEmployee(w, p)
             \/ \E b \in Bodies : SaveEmployee(w, p, b)
      PROVE  IInv'
  <2>1. PICK b \in SUBSET present : refs' = [refs EXCEPT ![p] = b]
    BY <1>6 DEF PurgeEmployee, SaveEmployee
  <2>2. UNCHANGED <<present, req, pending, logged>>
    BY <1>6 DEF PurgeEmployee, SaveEmployee
  <2>3. refs' \in [People -> SUBSET Names] /\ Referred(refs') \subseteq present
    BY <2>1 DEF Referred, IInv, TypeOK, ReferencesResolve
  <2> QED
    BY <2>2, <2>3 DEF IInv, TypeOK, ReferencesResolve, SystemRowsStay,
                      SamplesStillDue, DeletionsSpareSystem
<1>7. ASSUME NEW w \in Workers, NEW n \in Names,
             ReadDelete(w, n) \/ ConfirmDepartment(w, n)
      PROVE  IInv'
  <2>1. PICK titles \in SUBSET Names :
          /\ BeginDelete(w, n, titles)
          /\ n \notin System
          /\ \A t \in titles : Parent[t] # None
    <3>1. CASE ReadDelete(w, n)
      BY <3>1 DEF ReadDelete
    <3>2. CASE ConfirmDepartment(w, n)
      <4>1. Children(n, present) \in SUBSET Names
            /\ \A t \in Children(n, present) : Parent[t] # None
        BY TablesAssumption DEF Children, IInv, TypeOK
      <4>2. n \notin System
        BY <3>2, SystemRows DEF ConfirmDepartment
      <4> QED
        BY <3>2, <4>1, <4>2 DEF ConfirmDepartment
    <3> QED
      BY <1>7, <3>1, <3>2
  <2>2. req' \in [Workers -> Request] /\ UNCHANGED <<present, refs, pending, logged>>
    BY <2>1 DEF BeginDelete, Idle, IInv, TypeOK, Request
  <2>3. DeletionsSpareSystem'
    BY <2>1, <2>2 DEF BeginDelete, Idle, IInv, TypeOK, DeletionsSpareSystem
  <2>4. \A v \in pending : req'[v] = req[v]
    BY <1>1, <2>1 DEF BeginDelete, IInv, TypeOK
  <2> QED
    BY <2>2, <2>3, <2>4 DEF IInv, TypeOK, ReferencesResolve, SystemRowsStay,
                            SamplesStillDue
<1>8. ASSUME NEW w \in Workers, CommitDelete(w) PROVE IInv'
  <2> DEFINE gone == {req[w].row} \cup req[w].titles \cup Children(req[w].row, present)
  <2>1. /\ present' = present \ gone /\ Referred(refs) \cap gone = {}
        /\ Deleted(w, gone) /\ UNCHANGED <<refs, pending, logged>>
        /\ req[w].op = "delete"
    BY <1>8 DEF CommitDelete
  <2>2. pending = {}
    BY <1>8 DEF CommitDelete, CanWrite, IInv, TypeOK
  <2>3. \A n \in present' : Parent[n] \in present' \cup {None}
    <3> SUFFICES ASSUME NEW n \in present', Parent[n] # None PROVE Parent[n] \in present'
      OBVIOUS
    <3>1. Parent[n] \in present /\ Parent[n] # req[w].row
      BY <2>1 DEF IInv, ReferencesResolve, Children
    <3>2. n \in Names /\ Parent[n] \in Names /\ Parent[Parent[n]] = None
      BY <2>1, TablesAssumption DEF IInv, TypeOK
    <3>3. Parent[n] \notin req[w].titles
      BY <2>1, <3>2 DEF IInv, DeletionsSpareSystem
    <3>4. Parent[n] \notin Children(req[w].row, present)
      BY <2>1, <3>2, TablesAssumption DEF Children, IInv, DeletionsSpareSystem
    <3> QED
      BY <2>1, <3>1, <3>3, <3>4
  <2>4. System \cap gone = {}
    BY <2>1, SystemRows, TablesAssumption DEF Children, IInv, DeletionsSpareSystem
  <2>5. req' \in [Workers -> Request] /\ DeletionsSpareSystem'
    <3>1. \A v \in Workers : req'[v] \in Request
             /\ (req'[v].op = "delete" => req'[v] = req[v])
      <4> SUFFICES ASSUME NEW v \in Workers
                   PROVE  req'[v] \in Request /\ (req'[v].op = "delete" => req'[v] = req[v])
        OBVIOUS
      <4>1. Restored(req[v].chosen) \in SUBSET Names /\ req[v] \in Request
        BY SeedAssumption DEF Restored, IInv, TypeOK
      <4>2. CASE v = w \/ req[v].op # "reset"
        BY <1>1, <2>1, <4>1, <4>2 DEF Deleted
      <4>3. CASE v # w /\ req[v].op = "reset"
        <5> DEFINE more == gone \cap Restored(req[v].chosen)
        <5>1. req'[v] = [req[v] EXCEPT !.taken = @ \cup more]
          BY <2>1, <4>3 DEF Deleted
        <5>2. more \in SUBSET Names
          BY <4>1
        <5> HIDE DEF more
        <5> QED
          BY <4>1, <4>3, <5>1, <5>2 DEF Request
      <4> QED
        BY <4>2, <4>3
    <3>2. req' \in [Workers -> Request]
      BY <2>1, <3>1 DEF Deleted
    <3> QED
      BY <3>1, <3>2 DEF IInv, DeletionsSpareSystem
  <2> QED
    BY <2>1, <2>2, <2>3, <2>4, <2>5
       DEF IInv, TypeOK, ReferencesResolve, SystemRowsStay, SamplesStillDue
<1>9. ASSUME NEW w \in Workers, NEW chosen \in SUBSET Boxes, BeginReset(w, chosen)
      PROVE  IInv'
  <2>1. req' \in [Workers -> Request] /\ UNCHANGED <<present, refs, pending>>
    BY <1>9 DEF BeginReset, Idle, IInv, TypeOK, Request, Steps, Boxes
  <2>2. \A v \in Workers : v # w => req'[v] = req[v]
    BY <1>9 DEF BeginReset, IInv, TypeOK
  <2>3. req'[w].op = "reset" /\ w \notin pending /\ logged' \in SUBSET Workers
    BY <1>1, <1>9 DEF BeginReset, IInv, TypeOK, Idle
  <2> QED
    BY <2>1, <2>2, <2>3 DEF IInv, TypeOK, ReferencesResolve, SystemRowsStay,
                            SamplesStillDue, DeletionsSpareSystem
<1>10. ASSUME NEW w \in Workers, ResetEmployees(w) PROVE IInv'
  <2>1. /\ UNCHANGED <<present, pending, logged>>
        /\ refs' \in [People -> SUBSET Names] /\ Referred(refs') \subseteq present
    BY <1>10, SamplesRefer DEF ResetEmployees, SamplesDue
  <2>2. pending = {}
    BY <1>10, <1>3 DEF ResetEmployees, Steps, Boxes
  <2>3. req' \in [Workers -> Request] /\ DeletionsSpareSystem'
    BY <1>10, <1>4 DEF ResetEmployees, Steps, Boxes
  <2> QED
    BY <2>1, <2>2, <2>3 DEF IInv, TypeOK, ReferencesResolve, SystemRowsStay,
                            SamplesStillDue
<1>11. ASSUME NEW w \in Workers,
              NEW s \in {"statuses", "departments", "states", "countries", "locations"},
              NEW table \in [People -> SUBSET present],
              IsNext(w, s), CanWrite(w), Done(w, s),
              Referred(table) \cap Wiped(s) = {}, refs' = table,
              present' = Seeded(present \ Wiped(s), Emptied(s)),
              UNCHANGED <<pending, logged>>
       PROVE  IInv'
  <2> DEFINE kept == present \ Wiped(s)
  <2>1. Emptied(s) \in SUBSET Tables
    BY DEF Emptied, Tables
  <2>2. \A n \in kept : Parent[n] \in kept \cup {None}
    <3> SUFFICES ASSUME NEW n \in kept, Parent[n] # None PROVE Parent[n] \in kept
      OBVIOUS
    <3>1. n \in Names /\ Parent[n] \in present /\ Kind[n] \notin Emptied(s)
      BY DEF IInv, TypeOK, ReferencesResolve, Wiped
    <3>2. \/ Kind[n] = "titles" /\ Kind[Parent[n]] = "departments"
          \/ Kind[n] = "states" /\ Kind[Parent[n]] = "countries"
      BY <3>1, TablesAssumption
    <3>3. Kind[Parent[n]] \notin Emptied(s)
      BY <3>1, <3>2 DEF Emptied
    <3> QED
      BY <3>1, <3>3 DEF Wiped
  <2>3. /\ present' \in SUBSET Names
        /\ kept \subseteq present'
        /\ \A n \in present' : Parent[n] \in present' \cup {None}
        /\ \A n \in Defaults : Kind[n] \in Emptied(s) /\ Parent[n] = None => n \in present'
    <3>1. kept \in SUBSET Names
      BY DEF IInv, TypeOK
    <3> HIDE DEF kept
    <3>2. present' = Seeded(kept, Emptied(s))
      BY <1>11 DEF kept
    <3> QED
      BY <2>1, <2>2, <3>1, <3>2, SeededRows
  <2>4. Referred(refs') \subseteq present'
    BY <1>11, <2>3 DEF Referred
  <2>5. System \subseteq present'
    BY <2>3, SystemRows, SeedAssumption DEF IInv, SystemRowsStay, Wiped
  <2>6. pending = {}
    BY <1>11, <1>3 DEF Steps, Boxes
  <2>7. req' \in [Workers -> Request] /\ DeletionsSpareSystem'
    BY <1>11, <1>4 DEF Steps, Boxes
  <2> QED
    BY <1>11, <2>3, <2>4, <2>5, <2>6, <2>7
       DEF IInv, TypeOK, ReferencesResolve, SystemRowsStay, SamplesStillDue
<1>12. \A p \in People : refs[p] \in SUBSET present
  BY DEF IInv, ReferencesResolve, Referred
<1>13. ASSUME NEW w \in Workers,
              NEW s \in {"statuses", "departments", "states", "countries"}, ResetTable(w, s)
       PROVE  IInv'
  <2>1. refs \in [People -> SUBSET present]
    BY <1>12 DEF IInv, TypeOK
  <2> QED
    BY <1>11, <1>13, <2>1 DEF ResetTable
<1>14. ASSUME NEW w \in Workers, ResetLocations(w) PROVE IInv'
  <2> DEFINE table == [p \in People |-> refs[p] \ Wiped("locations")]
  <2>1. table \in [People -> SUBSET present]
    BY <1>12
  <2>2. Referred(table) \cap Wiped("locations") = {}
    BY DEF Referred
  <2>3. refs' = table
    BY <1>14 DEF ResetLocations
  <2> HIDE DEF table
  <2> QED
    BY <1>11, <1>14, <2>1, <2>2, <2>3 DEF ResetLocations
<1>15. ASSUME NEW w \in Workers, SeedSamples(w) PROVE IInv'
  <2>1. /\ req' \in [Workers -> Request] /\ DeletionsSpareSystem'
        /\ UNCHANGED <<present, refs, logged>>
    BY <1>15, <1>4 DEF SeedSamples, Steps
  <2>2. pending = {} /\ pending' \in SUBSET {w}
        /\ (pending' # {} => Needed \subseteq present)
    BY <1>15, <1>3 DEF SeedSamples, Steps, SamplesDue
  <2>3. req'[w].op = "reset" /\ req'[w].todo \subseteq {"audit", "record"}
    <3>1. req'[w].op = "reset" /\ req'[w].todo = req[w].todo \ {"samples"}
      BY <1>15 DEF SeedSamples, IsNext, Done, IInv, TypeOK
    <3>2. req[w].todo \subseteq {"samples", "audit", "record"}
      BY <1>15 DEF SeedSamples, IsNext, IInv, TypeOK, Request, Steps, Boxes, Rank
    <3> QED
      BY <3>1, <3>2
  <2> QED
    BY <2>1, <2>2, <2>3 DEF IInv, TypeOK, ReferencesResolve, SystemRowsStay,
                            SamplesStillDue
<1>16. ASSUME NEW w \in Workers, ClearAudit(w) PROVE IInv'
  <2>1. req' \in [Workers -> Request] /\ DeletionsSpareSystem'
    BY <1>16, <1>4 DEF ClearAudit, Steps, Boxes
  <2>2. pending' = {} /\ present' = present /\ logged' = {}
    BY <1>16 DEF ClearAudit, CanWrite
  <2>3. refs' \in [People -> SUBSET Names] /\ Referred(refs') \subseteq present
    BY <1>16, SamplesRefer
       DEF ClearAudit, IInv, TypeOK, ReferencesResolve, SamplesStillDue
  <2> QED
    BY <2>1, <2>2, <2>3 DEF IInv, TypeOK, ReferencesResolve, SystemRowsStay,
                            SamplesStillDue
<1>17. ASSUME NEW w \in Workers, Record(w) \/ Fail(w) PROVE IInv'
  <2>1. /\ req' = [req EXCEPT ![w] = Idle] /\ pending' = pending \ {w}
        /\ UNCHANGED <<present, refs>> /\ logged' \in SUBSET Workers
    BY <1>17 DEF Record, Fail, IInv, TypeOK
  <2>2. /\ req' \in [Workers -> Request]
        /\ \A v \in Workers : req'[v] = req[v] \/ req'[v] = Idle
        /\ \A v \in pending' : v \in pending /\ req'[v] = req[v]
    BY <1>1, <2>1 DEF IInv, TypeOK
  <2> QED
    BY <2>1, <2>2, EndRequests DEF IInv, TypeOK, ReferencesResolve, SystemRowsStay,
                                   SamplesStillDue
<1>18. CASE Restart
  <2> DEFINE tables == {"countries", "states", "statuses"}
  <2>1. /\ present' \in SUBSET Names
        /\ present \subseteq present'
        /\ \A n \in present' : Parent[n] \in present' \cup {None}
    <3>1. tables \in SUBSET Tables /\ present' = Seeded(present, tables)
      BY <1>18 DEF Restart, Tables
    <3>2. present \in SUBSET Names /\ \A n \in present : Parent[n] \in present \cup {None}
      BY DEF IInv, TypeOK, ReferencesResolve
    <3> HIDE DEF tables
    <3> QED
      BY <3>1, <3>2, SeededRows
  <2>2. refs' \in [People -> SUBSET Names] /\ Referred(refs') \subseteq present'
    BY <1>18, <2>1, SamplesRefer
       DEF Restart, SamplesDue, IInv, TypeOK, ReferencesResolve
  <2>3. /\ req' \in [Workers -> Request]
        /\ \A v \in Workers : req'[v] = Idle
        /\ pending' = {} /\ logged' = logged
    BY <1>1, <1>18 DEF Restart
  <2> QED
    BY <2>1, <2>2, <2>3, EndRequests DEF IInv, TypeOK, ReferencesResolve,
                                         SystemRowsStay, SamplesStillDue
<1>19. CASE UNCHANGED vars
  BY <1>19 DEF vars, IInv, TypeOK, ReferencesResolve, SystemRowsStay,
               SamplesStillDue, DeletionsSpareSystem
<1> QED
  BY <1>5, <1>6, <1>7, <1>8, <1>9, <1>10, <1>13, <1>14, <1>15, <1>16, <1>17,
     <1>18, <1>19, RequestsAssumption
     DEF Next, ResetStep, Add, AddCountry, AddState, AddStatus, AddDepartment,
         AddTitle, AddLocation, Delete, DeleteCountry, DeleteState, DeleteStatus,
         DeleteDepartment, DeleteTitle, DeleteLocation

(* Rows, employees and requests stay well formed, and the write lock is    *)
(* never left with a request that is over.                                 *)
THEOREM ReferenceTypes == Spec => []TypeOK
<1>1. IInv => TypeOK
  BY DEF IInv
<1> QED
  BY InitInv, NextInv, <1>1, PTL DEF Spec

(* No overlap of deletions, resets, saves and restarts leaves a reference  *)
(* to a row that is not there.                                             *)
THEOREM NothingDangles == Spec => []ReferencesResolve
<1>1. IInv => ReferencesResolve
  BY DEF IInv
<1> QED
  BY InitInv, NextInv, <1>1, PTL DEF Spec

(* The system statuses are in the table at every commit. *)
THEOREM SystemKept == Spec => []SystemRowsStay
<1>1. IInv => SystemRowsStay
  BY DEF IInv
<1> QED
  BY InitInv, NextInv, <1>1, PTL DEF Spec

-----------------------------------------------------------------------------
(* The samples of a reset do not wait for the clearing of the log once it  *)
(* is over: the clearing comes after them, and commits them.               *)
ClearedThenRecorded ==
  \A w \in Workers :
    req[w].op = "reset" /\ "audit" \in req[w].chosen \ req[w].todo =>
      w \notin pending /\ req[w].todo \subseteq {"record"}

(* Every step of a reset keeps the boxes it was given, and those still to  *)
(* come are the later ones.                                                *)
LEMMA StepsInOrder ==
  ASSUME TypeOK, NEW w \in Workers, NEW s \in Steps, IsNext(w, s), Done(w, s)
  PROVE  /\ \A v \in Workers : v # w => req'[v] = req[v]
         /\ req'[w].chosen = req[w].chosen /\ req'[w].todo = req[w].todo \ {s}
         /\ req[w].op = "reset" /\ s \in req[w].todo
         /\ \A other \in req[w].todo : Rank[s] <= Rank[other]
         /\ req[w].todo \subseteq Steps
BY DEF TypeOK, IsNext, Done, Request

LEMMA ClearedThenRecordedNext ==
  ASSUME TypeOK, ClearedThenRecorded, [Next]_vars
  PROVE  ClearedThenRecorded'
<1>1. ASSUME UNCHANGED <<req, pending>> PROVE ClearedThenRecorded'
  BY <1>1 DEF ClearedThenRecorded
<1>2. ASSUME NEW w \in Workers, NEW r \in Request, req' = [req EXCEPT ![w] = r],
             r.op # "reset" \/ r.chosen \subseteq r.todo, pending' \subseteq pending
      PROVE  ClearedThenRecorded'
  <2>1. \A v \in Workers : req'[v] = IF v = w THEN r ELSE req[v]
    BY <1>2 DEF TypeOK
  <2> QED
    BY <1>2, <2>1 DEF ClearedThenRecorded
<1>3. Idle \in Request /\ Idle.op = "idle"
  BY DEF Idle, Request
<1>4. ASSUME NEW w \in Workers, NEW s \in Steps \ {"audit", "record"},
             IsNext(w, s), Done(w, s), pending' \subseteq pending \cup {w}
      PROVE  ClearedThenRecorded'
  BY <1>4, StepsInOrder DEF ClearedThenRecorded
<1>5. ASSUME NEW w \in Workers, ClearAudit(w) PROVE ClearedThenRecorded'
  <2>1. IsNext(w, "audit") /\ Done(w, "audit") /\ pending' = pending \ {w}
    BY <1>5 DEF ClearAudit
  <2>2. req'[w].todo \subseteq {"record"}
    BY <2>1, StepsInOrder DEF Steps, Boxes, Rank
  <2> QED
    BY <2>1, <2>2, StepsInOrder DEF ClearedThenRecorded, Steps, Boxes
<1>6. ASSUME NEW w \in Workers, ResetStep(w) PROVE ClearedThenRecorded'
  <2>1. CASE \/ ResetEmployees(w) \/ ResetLocations(w) \/ SeedSamples(w)
             \/ \E s \in {"statuses", "departments", "states", "countries"} :
                   ResetTable(w, s)
    <3>1. PICK s \in Steps \ {"audit", "record"} :
            IsNext(w, s) /\ Done(w, s) /\ pending' \subseteq pending \cup {w}
      BY <2>1 DEF ResetEmployees, ResetLocations, SeedSamples, ResetTable, Steps, Boxes
    <3> QED
      BY <3>1, <1>4
  <2>2. CASE Record(w)
    BY <2>2, <1>2, <1>3 DEF Record
  <2> QED
    BY <1>5, <1>6, <2>1, <2>2 DEF ResetStep
<1>7. ASSUME NEW w \in Workers, NEW chosen \in SUBSET Boxes, BeginReset(w, chosen)
      PROVE  ClearedThenRecorded'
  <2> DEFINE again == chosen \cap {"statuses", "departments", "states", "countries"} # {}
             r == [Idle EXCEPT !.op = "reset", !.chosen = chosen,
                               !.todo = chosen \cup {"record"} \cup
                                        (IF again THEN {"samples"} ELSE {})]
  <2>1. r \in Request /\ r.chosen \subseteq r.todo
    BY <1>3 DEF Request, Steps
  <2>2. req' = [req EXCEPT ![w] = r] /\ pending' = pending
    BY <1>7 DEF BeginReset
  <2> HIDE DEF r
  <2> QED
    BY <1>2, <2>1, <2>2
<1>8. ASSUME NEW w \in Workers, NEW n \in Names, Delete(w, n) PROVE ClearedThenRecorded'
  <2>1. PICK titles \in SUBSET Names : BeginDelete(w, n, titles)
    BY <1>8 DEF Delete, DeleteCountry, DeleteState, DeleteStatus, DeleteDepartment,
                DeleteTitle, DeleteLocation, ConfirmDepartment, ReadDelete, Children,
                TypeOK
  <2> DEFINE r == [Idle EXCEPT !.op = "delete", !.row = n, !.titles = titles]
  <2>2. r \in Request /\ r.op = "delete"
    BY <1>3 DEF Request
  <2>3. req' = [req EXCEPT ![w] = r] /\ pending' = pending
    BY <2>1 DEF BeginDelete
  <2> HIDE DEF r
  <2> QED
    BY <1>2, <2>2, <2>3
<1>9. ASSUME NEW w \in Workers, CommitDelete(w) \/ Fail(w) PROVE ClearedThenRecorded'
  <2>1. CASE Fail(w)
    BY <2>1, <1>2, <1>3 DEF Fail
  <2>2. CASE CommitDelete(w)
    <3>1. PICK gone : Deleted(w, gone) /\ pending' = pending
      BY <2>2 DEF CommitDelete
    <3>2. \A v \in Workers : \/ req'[v].op # "reset"
                             \/ /\ req'[v].op = req[v].op
                                /\ req'[v].chosen = req[v].chosen
                                /\ req'[v].todo = req[v].todo
      BY <3>1, <1>3 DEF Deleted, TypeOK, Request
    <3> QED
      BY <3>1, <3>2 DEF ClearedThenRecorded
  <2> QED
    BY <1>9, <2>1, <2>2
<1>10. CASE Restart
  BY <1>10 DEF Restart, ClearedThenRecorded, Idle
<1>11. ASSUME NEW w \in Workers, NEW n \in Names, Add(w, n) PROVE ClearedThenRecorded'
  BY <1>1, <1>11 DEF Add, AddCountry, AddState, AddStatus, AddDepartment, AddTitle,
                     AddLocation, AddRow
<1>12. ASSUME NEW w \in Workers, NEW p \in People,
              \/ PurgeEmployee(w, p)
              \/ \E b \in Bodies : SaveEmployee(w, p, b)
       PROVE  ClearedThenRecorded'
  BY <1>1, <1>12 DEF PurgeEmployee, SaveEmployee
<1>13. CASE UNCHANGED vars
  BY <1>1, <1>13 DEF vars
<1> QED
  BY <1>6, <1>7, <1>8, <1>9, <1>10, <1>11, <1>12, <1>13, RequestsAssumption DEF Next

(* A reset that clears the log has committed its samples by then, so that  *)
(* its own session does not keep the event of the clearing out of the log. *)
THEOREM ClearingIsLogged == Spec => ClearedLogSaysSo
<1> DEFINE Says == \A w \in Workers :
                     Record(w) /\ "audit" \in req[w].chosen /\ pending \subseteq {w}
                       => w \in logged'
<1>1. Init => ClearedThenRecorded
  BY DEF Init, ClearedThenRecorded, Idle
<1>2. IInv => TypeOK
  BY DEF IInv
<1>3. ASSUME TypeOK, ClearedThenRecorded PROVE Says
  <2> SUFFICES ASSUME NEW w \in Workers, Record(w), "audit" \in req[w].chosen,
                      pending \subseteq {w}
               PROVE  w \in logged'
    OBVIOUS
  <2>1. req[w].op = "reset" /\ "audit" \notin req[w].todo
    BY DEF Record, IsNext, Rank
  <2>2. pending = {}
    BY <1>3, <2>1 DEF ClearedThenRecorded
  <2> QED
    BY <2>2 DEF Record
<1>4. TypeOK /\ ClearedThenRecorded => [Says]_vars
  BY <1>3
<1> QED
  BY InitInv, NextInv, ClearedThenRecordedNext, <1>1, <1>2, <1>4, PTL
     DEF Spec, ClearedLogSaysSo

-----------------------------------------------------------------------------
(* What the steps of a reset have restored so far is there, or an          *)
(* administrator has deleted it since the reset began.                     *)
RestoredSoFar ==
  \A w \in Workers :
    req[w].op = "reset" =>
      Restored(req[w].chosen \ req[w].todo) \subseteq present \cup req[w].taken

(* Seeding the tables of a step brings back all that it restores, and      *)
(* wiping them first loses no default: its parent is there or comes back.  *)
LEMMA SeedingRestores ==
  ASSUME TypeOK, ReferencesResolve,
         NEW s \in {"statuses", "departments", "states", "countries", "locations"}
  PROVE  /\ Restored({s}) \subseteq Seeded(present \ Wiped(s), Emptied(s))
         /\ present \cap Defaults \subseteq Seeded(present \ Wiped(s), Emptied(s))
<1> DEFINE missing == {n \in Defaults : Kind[n] \in Emptied(s)}
           kept == present \ Wiped(s)
<1>1. Restored({s}) \subseteq Seeded(kept, Emptied(s))
  <2> SUFFICES ASSUME NEW n \in Restored({s}) PROVE n \in Seeded(kept, Emptied(s))
    OBVIOUS
  <2>1. n \in missing /\ s # "states"
    BY DEF Restored
  <2>2. Parent[n] # None => Parent[n] \in missing
    <3> SUFFICES ASSUME Parent[n] # None PROVE Parent[n] \in missing
      OBVIOUS
    <3>1. n \in Names /\ Parent[n] \in Defaults
      BY <2>1, SeedAssumption
    <3>2. \/ Kind[n] = "titles" /\ Kind[Parent[n]] = "departments"
          \/ Kind[n] = "states" /\ Kind[Parent[n]] = "countries"
      BY <3>1, TablesAssumption
    <3> QED
      BY <2>1, <3>1, <3>2 DEF Emptied
  <2> QED
    BY <2>1, <2>2 DEF Seeded
<1>2. present \cap Defaults \subseteq Seeded(kept, Emptied(s))
  <2> SUFFICES ASSUME NEW n \in present, n \in Defaults, n \notin kept
               PROVE  n \in Seeded(kept, Emptied(s))
    BY DEF Seeded
  <2>1. n \in missing
    BY DEF Wiped
  <2>2. Parent[n] # None => Parent[n] \in kept \cup missing
    BY SeedAssumption DEF ReferencesResolve, Wiped
  <2> QED
    BY <2>1, <2>2 DEF Seeded
<1> QED
  BY <1>1, <1>2

(* The steps that wipe no table restore none. *)
LEMMA OtherStepsRestoreNothing ==
  ASSUME NEW s \in {"employees", "samples", "audit", "record"}
  PROVE  Restored({s}) = {}
<1>1. \A n \in Defaults : n \in Names /\ Kind[n] \in Tables
  BY SeedAssumption, TablesAssumption
<1> QED
  BY <1>1 DEF Restored, Emptied, Tables

LEMMA RestoredSoFarNext ==
  ASSUME TypeOK, ReferencesResolve, RestoredSoFar, [Next]_vars
  PROVE  RestoredSoFar'
<1>1. ASSUME present \cap Defaults \subseteq present',
             \A v \in Workers : \/ req'[v] = req[v]
                               \/ req'[v].op # "reset"
                               \/ req'[v].chosen \subseteq req'[v].todo
      PROVE  RestoredSoFar'
  BY <1>1 DEF RestoredSoFar, Restored
<1>2. ASSUME NEW w \in Workers, NEW r \in Request, req' = [req EXCEPT ![w] = r],
             r.op # "reset" \/ r.chosen \subseteq r.todo,
             present \cap Defaults \subseteq present'
      PROVE  RestoredSoFar'
  <2>1. \A v \in Workers : req'[v] = IF v = w THEN r ELSE req[v]
    BY <1>2 DEF TypeOK
  <2> QED
    BY <1>1, <1>2, <2>1
<1>3. Idle \in Request /\ Idle.op = "idle"
  BY DEF Idle, Request
<1>4. ASSUME NEW w \in Workers, NEW s \in Steps, IsNext(w, s), Done(w, s),
             present \cap Defaults \subseteq present', Restored({s}) \subseteq present'
      PROVE  RestoredSoFar'
  <2>1. ASSUME NEW v \in Workers, v # w, req'[v].op = "reset"
        PROVE  Restored(req'[v].chosen \ req'[v].todo) \subseteq present' \cup req'[v].taken
    BY <1>4, <2>1, StepsInOrder DEF RestoredSoFar, Restored
  <2>2. Restored(req'[w].chosen \ req'[w].todo) \subseteq present' \cup req'[w].taken
    <3>1. req'[w].taken = req[w].taken
      BY <1>4 DEF Done, TypeOK, Request
    <3>2. req'[w].chosen \ req'[w].todo \subseteq (req[w].chosen \ req[w].todo) \cup {s}
      BY <1>4, StepsInOrder
    <3>3. Restored(req'[w].chosen \ req'[w].todo)
            \subseteq Restored(req[w].chosen \ req[w].todo) \cup Restored({s})
      BY <3>2 DEF Restored
    <3>4. Restored(req[w].chosen \ req[w].todo) \subseteq present' \cup req[w].taken
      BY <1>4, StepsInOrder DEF RestoredSoFar, Restored
    <3> QED
      BY <1>4, <3>1, <3>3, <3>4
  <2> QED
    BY <2>1, <2>2 DEF RestoredSoFar
<1>5. ASSUME NEW w \in Workers, ResetStep(w) PROVE RestoredSoFar'
  <2>1. CASE \/ ResetLocations(w)
             \/ \E s \in {"statuses", "departments", "states", "countries"} :
                   ResetTable(w, s)
    <3>1. PICK s \in {"statuses", "departments", "states", "countries", "locations"} :
            /\ IsNext(w, s) /\ Done(w, s)
            /\ present' = Seeded(present \ Wiped(s), Emptied(s))
      BY <2>1 DEF ResetLocations, ResetTable
    <3> QED
      BY <3>1, <1>4, SeedingRestores DEF Steps, Boxes
  <2>2. CASE ResetEmployees(w) \/ SeedSamples(w) \/ ClearAudit(w)
    <3>1. PICK s \in {"employees", "samples", "audit"} :
            IsNext(w, s) /\ Done(w, s) /\ present' = present
      BY <2>2 DEF ResetEmployees, SeedSamples, ClearAudit
    <3> QED
      BY <3>1, <1>4, OtherStepsRestoreNothing DEF Steps, Boxes
  <2>3. CASE Record(w)
    BY <2>3, <1>2, <1>3 DEF Record
  <2> QED
    BY <1>5, <2>1, <2>2, <2>3 DEF ResetStep
<1>6. ASSUME NEW w \in Workers, NEW chosen \in SUBSET Boxes, BeginReset(w, chosen)
      PROVE  RestoredSoFar'
  <2> DEFINE again == chosen \cap {"statuses", "departments", "states", "countries"} # {}
             r == [Idle EXCEPT !.op = "reset", !.chosen = chosen,
                               !.todo = chosen \cup {"record"} \cup
                                        (IF again THEN {"samples"} ELSE {})]
  <2>1. r \in Request /\ r.chosen \subseteq r.todo
    BY <1>3 DEF Request, Steps
  <2>2. req' = [req EXCEPT ![w] = r] /\ present' = present
    BY <1>6 DEF BeginReset
  <2> HIDE DEF r
  <2> QED
    BY <1>2, <2>1, <2>2
<1>7. ASSUME NEW w \in Workers, NEW n \in Names, Delete(w, n) PROVE RestoredSoFar'
  <2>1. PICK titles \in SUBSET Names : BeginDelete(w, n, titles)
    BY <1>7 DEF Delete, DeleteCountry, DeleteState, DeleteStatus, DeleteDepartment,
                DeleteTitle, DeleteLocation, ConfirmDepartment, ReadDelete, Children,
                TypeOK
  <2> DEFINE r == [Idle EXCEPT !.op = "delete", !.row = n, !.titles = titles]
  <2>2. r \in Request /\ r.op = "delete"
    BY <1>3 DEF Request
  <2>3. req' = [req EXCEPT ![w] = r] /\ present' = present
    BY <2>1 DEF BeginDelete
  <2> HIDE DEF r
  <2> QED
    BY <1>2, <2>2, <2>3
<1>8. ASSUME NEW w \in Workers, CommitDelete(w) PROVE RestoredSoFar'
  <2>1. PICK gone : Deleted(w, gone) /\ present' = present \ gone
    BY <1>8 DEF CommitDelete
  <2> SUFFICES ASSUME NEW v \in Workers, req'[v].op = "reset"
               PROVE  Restored(req'[v].chosen \ req'[v].todo)
                        \subseteq present' \cup req'[v].taken
    BY DEF RestoredSoFar
  <2>2. /\ req[v].op = "reset"
        /\ req'[v].chosen = req[v].chosen /\ req'[v].todo = req[v].todo
        /\ req'[v].taken = req[v].taken \cup (gone \cap Restored(req[v].chosen))
    BY <2>1, <1>3 DEF Deleted, TypeOK, Request
  <2>3. Restored(req[v].chosen \ req[v].todo) \subseteq Restored(req[v].chosen)
    BY DEF Restored
  <2> QED
    BY <2>1, <2>2, <2>3 DEF RestoredSoFar
<1>9. ASSUME NEW w \in Workers, Fail(w) PROVE RestoredSoFar'
  BY <1>9, <1>2, <1>3 DEF Fail
<1>10. CASE Restart
  BY <1>10 DEF Restart, RestoredSoFar, Idle
<1>11. ASSUME NEW w \in Workers, NEW n \in Names, Add(w, n) PROVE RestoredSoFar'
  BY <1>1, <1>11 DEF Add, AddCountry, AddState, AddStatus, AddDepartment, AddTitle,
                     AddLocation, AddRow
<1>12. ASSUME NEW w \in Workers, NEW p \in People,
              \/ PurgeEmployee(w, p)
              \/ \E b \in Bodies : SaveEmployee(w, p, b)
       PROVE  RestoredSoFar'
  BY <1>1, <1>12 DEF PurgeEmployee, SaveEmployee
<1>13. CASE UNCHANGED vars
  BY <1>1, <1>13 DEF vars
<1> QED
  BY <1>5, <1>6, <1>7, <1>8, <1>9, <1>10, <1>11, <1>12, <1>13, RequestsAssumption
     DEF Next

(* However resets of the same tables, edits and restarts overlap, a reset  *)
(* that completes has brought back every default it was asked for and      *)
(* nobody deleted meanwhile: what one of its steps commits, no later step  *)
(* of a reset takes away.                                                  *)
THEOREM CompletedResetsRestore == Spec => ResetRestoresDefaults
<1> DEFINE Restores == \A w \in Workers :
             Record(w) => Restored(req[w].chosen) \subseteq present' \cup req[w].taken
<1>1. Init => RestoredSoFar
  BY DEF Init, RestoredSoFar, Idle
<1>2. IInv => TypeOK /\ ReferencesResolve
  BY DEF IInv
<1>3. ASSUME TypeOK, RestoredSoFar PROVE Restores
  <2> SUFFICES ASSUME NEW w \in Workers, Record(w)
               PROVE  Restored(req[w].chosen) \subseteq present' \cup req[w].taken
    OBVIOUS
  <2>1. req[w].op = "reset" /\ req[w].todo \subseteq {"record"}
    BY <1>3 DEF Record, IsNext, Rank, TypeOK, Request, Steps, Boxes
  <2>2. req[w].chosen \ req[w].todo = req[w].chosen
    BY <1>3, <2>1 DEF TypeOK, Request, Boxes
  <2> QED
    BY <1>3, <2>1, <2>2 DEF RestoredSoFar, Record
<1>4. TypeOK /\ RestoredSoFar => [Restores]_vars
  BY <1>3
<1> QED
  BY InitInv, NextInv, RestoredSoFarNext, <1>1, <1>2, <1>4, PTL
     DEF Spec, ResetRestoresDefaults
=============================================================================
