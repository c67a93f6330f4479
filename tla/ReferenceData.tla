---------------------------- MODULE ReferenceData ----------------------------
(***************************************************************************)
(* The lookup tables, what refers to them, and the three ways their rows   *)
(* come and go: the administrator's edits (app/ui/lookup_routes.py and the *)
(* routers of app/api/v1), the seeding at startup, and Settings -> Reset   *)
(* (app/services/seed_data.py, do_reset of app/ui/settings_routes.py).     *)
(*                                                                         *)
(* A row is its name: a reset gives a default row a new id, but it is the  *)
(* same row to everyone who chooses it by name.  A deletion checks the     *)
(* references and commits later; a reset commits after every table, and    *)
(* its last samples are flushed without a commit, which holds the one      *)
(* write lock of the database until the request is over.                   *)
(***************************************************************************)
EXTENDS Naturals

CONSTANTS
  Workers,     \* administrators' requests in flight together
  Names,       \* rows of all the lookup tables
  Kind,        \* the table of each name
  Parent,      \* department of a job title, country of a state, or None
  Defaults,    \* the names the program seeds
  System,      \* the statuses with is_system
  People,      \* employee numbers
  SampleRefs,  \* what each sample employee refers to
  Bodies,      \* what an employee form can refer to
  Choices,     \* combinations of check boxes on the reset page
  None

Tables == {"statuses", "departments", "titles", "locations", "states", "countries"}
Boxes == {"employees", "statuses", "departments", "locations", "states",
          "countries", "audit"}
Steps == Boxes \cup {"samples", "record"}

Samples == DOMAIN SampleRefs
Needed == UNION {SampleRefs[p] : p \in Samples}

ASSUME TablesAssumption ==
  /\ None \notin Names
  /\ Kind \in [Names -> Tables]
  /\ Parent \in [Names -> Names \cup {None}]
  /\ \A n \in Names :
       /\ Kind[n] = "titles" => Parent[n] \in Names /\ Kind[Parent[n]] = "departments"
       /\ Kind[n] = "states" => Parent[n] \in Names /\ Kind[Parent[n]] = "countries"
       /\ Kind[n] \notin {"titles", "states"} => Parent[n] = None
ASSUME SeedAssumption ==
  /\ Defaults \subseteq Names
  /\ \A n \in Defaults : Parent[n] # None => Parent[n] \in Defaults
  /\ System \subseteq {n \in Defaults : Kind[n] = "statuses"}
  /\ Samples \subseteq People
  /\ \A p \in Samples :
       SampleRefs[p] \subseteq Defaults /\ (\E n \in SampleRefs[p] : Kind[n] # "locations")
ASSUME RequestsAssumption ==
  /\ Bodies \subseteq SUBSET Names
  /\ \A b \in Bodies : \E n \in b : Kind[n] # "locations"
  /\ Choices \subseteq SUBSET Boxes

VARIABLES
  present,  \* the lookup rows, as committed
  refs,     \* the lookup rows each employee refers to, as committed; every
            \* employee has a country, so no row at all means no employee
  req,      \* the request of each worker
  pending,  \* workers that have flushed the samples and not committed
  logged    \* workers whose latest reset is in the activity log

vars == <<present, refs, req, pending, logged>>

(* chosen: the boxes of a reset, todo: its steps to come; row and titles:  *)
(* what a deletion will delete.  taken is a history, not in the code: the  *)
(* defaults it restores that somebody deleted while it was in flight.      *)
Request == [op : {"idle", "reset", "delete"}, chosen : SUBSET Boxes,
            todo : SUBSET Steps, row : Names \cup {None}, titles : SUBSET Names,
            taken : SUBSET Names]

Idle == [op |-> "idle", chosen |-> {}, todo |-> {}, row |-> None, titles |-> {},
         taken |-> {}]

Employed(table) == {p \in People : table[p] # {}}

Referred(table) == UNION {table[p] : p \in People}

Children(n, rows) == {c \in rows : Parent[c] = n}

(* The tables a step empties and fills again. *)
Emptied(s) ==
  CASE s = "departments" -> {"departments", "titles"}
    [] s = "countries" -> {"countries", "states"}
    [] OTHER -> {s}

(* The defaults that a reset of these boxes brings back.  A reset of the   *)
(* states alone brings back only those of the countries it finds.          *)
Restored(chosen) ==
  {n \in Defaults : \E s \in chosen \ {"states"} : Kind[n] \in Emptied(s)}

-----------------------------------------------------------------------------
(* Seeding *)

(* seed_countries, seed_states_provinces, seed_employment_statuses,        *)
(* seed_departments_and_titles, seed_locations: the defaults that are not  *)
(* there, children only under a parent that is.                            *)
Seeded(rows, tables) ==
  LET missing == {n \in Defaults : Kind[n] \in tables}
  IN rows \cup {n \in missing : Parent[n] \in rows \cup missing \cup {None}}

(* seed_sample_employees: only into an empty table, and only when what the *)
(* samples refer to is there.                                              *)
SamplesDue(rows, table) == Employed(table) = {} /\ Needed \subseteq rows

WithSamples == [p \in People |-> IF p \in Samples THEN SampleRefs[p] ELSE {}]

Nobody == [p \in People |-> {}]

(* seed_database on a new volume. *)
Init ==
  /\ present = Defaults
  /\ refs = IF Needed \subseteq Defaults THEN WithSamples ELSE Nobody
  /\ req = [w \in Workers |-> Idle]
  /\ pending = {}
  /\ logged = {}

(* The process dies and starts: lifespan calls seed_database, for which    *)
(* the organisation's defaults have already been seeded once.              *)
Restart ==
  /\ present' = Seeded(present, {"countries", "states", "statuses"})
  /\ refs' = IF SamplesDue(present', refs) THEN WithSamples ELSE refs
  /\ req' = [w \in Workers |-> Idle]
  /\ pending' = {}
  /\ UNCHANGED logged

-----------------------------------------------------------------------------
(* Edits of single rows.  A commit needs the write lock. *)

CanWrite(w) == pending \subseteq {w}

AddRow(w, n) ==
  /\ req[w] = Idle /\ CanWrite(w)
  /\ n \notin present
  /\ Parent[n] \in present \cup {None}
  /\ present' = present \cup {n}
  /\ UNCHANGED <<refs, req, pending, logged>>

AddCountry(w, n)    == Kind[n] = "countries" /\ AddRow(w, n)
AddState(w, n)      == Kind[n] = "states" /\ AddRow(w, n)
AddStatus(w, n)     == Kind[n] = "statuses" /\ AddRow(w, n)
AddDepartment(w, n) == Kind[n] = "departments" /\ AddRow(w, n)
AddTitle(w, n)      == Kind[n] = "titles" /\ AddRow(w, n)
AddLocation(w, n)   == Kind[n] = "locations" /\ AddRow(w, n)

(* create or update of an employee; foreign keys are checked. *)
SaveEmployee(w, p, body) ==
  /\ req[w] = Idle /\ CanWrite(w)
  /\ body \subseteq present
  /\ refs' = [refs EXCEPT ![p] = body]
  /\ UNCHANGED <<present, req, pending, logged>>

PurgeEmployee(w, p) ==
  /\ req[w] = Idle /\ CanWrite(w)
  /\ refs[p] # {}
  /\ refs' = [refs EXCEPT ![p] = {}]
  /\ UNCHANGED <<present, req, pending, logged>>

BeginDelete(w, n, titles) ==
  /\ req[w] = Idle
  /\ req' = [req EXCEPT ![w] = [Idle EXCEPT !.op = "delete", !.row = n,
                                            !.titles = titles]]
  /\ UNCHANGED <<present, refs, pending, logged>>

(* Broken on purpose: a system row is deleted like any other. *)
ReadDeleteAny(w, n) ==
  /\ n \in present
  /\ n \notin Referred(refs)
  /\ Children(n, present) = {}
  /\ BeginDelete(w, n, {})

(* No row refers to this one, and the program does not depend on it. *)
ReadDelete(w, n) ==
  /\ n \in present \ System
  /\ n \notin Referred(refs)
  /\ Children(n, present) = {}
  /\ BeginDelete(w, n, {})

DeleteCountry(w, n)    == Kind[n] = "countries" /\ ReadDelete(w, n)
DeleteState(w, n)      == Kind[n] = "states" /\ ReadDelete(w, n)
DeleteStatus(w, n)     == Kind[n] = "statuses" /\ ReadDelete(w, n)
DeleteDepartment(w, n) == Kind[n] = "departments" /\ ReadDelete(w, n)
DeleteTitle(w, n)      == Kind[n] = "titles" /\ ReadDelete(w, n)
DeleteLocation(w, n)   == Kind[n] = "locations" /\ ReadDelete(w, n)

(* delete_dept of the web UI, confirmed: the department goes with its      *)
(* titles if no employee refers to any of them.                            *)
ConfirmDepartment(w, d) ==
  LET titles == Children(d, present)
  IN /\ d \in present /\ Kind[d] = "departments"
     /\ titles # {}
     /\ Referred(refs) \cap ({d} \cup titles) = {}
     /\ BeginDelete(w, d, titles)

(* The deletion of a worker is answered, and the resets in flight have     *)
(* lost the rows.                                                          *)
Deleted(w, gone) ==
  req' = [v \in Workers |->
            CASE v = w -> Idle
              [] req[v].op = "reset" -> [req[v] EXCEPT !.taken = @ \cup (gone \cap Restored(req[v].chosen))]
              [] OTHER -> req[v]]

(* Broken on purpose: the database does not enforce foreign keys. *)
CommitDeleteUnchecked(w) ==
  /\ req[w].op = "delete" /\ CanWrite(w)
  /\ present' = present \ ({req[w].row} \cup req[w].titles)
  /\ Deleted(w, {req[w].row} \cup req[w].titles)
  /\ UNCHANGED <<refs, pending, logged>>

(* The DELETEs and their ON DELETE CASCADE; employees' foreign keys refuse *)
(* them together.  A row that is already gone is no error.                 *)
CommitDelete(w) ==
  LET n == req[w].row
      gone == {n} \cup req[w].titles \cup Children(n, present)
  IN /\ req[w].op = "delete" /\ CanWrite(w)
     /\ Referred(refs) \cap gone = {}
     /\ present' = present \ gone
     /\ Deleted(w, gone)
     /\ UNCHANGED <<refs, pending, logged>>

-----------------------------------------------------------------------------
(* do_reset *)

Rank == [employees |-> 1, statuses |-> 2, departments |-> 3, locations |-> 4,
         states |-> 5, countries |-> 6, samples |-> 7, audit |-> 8, record |-> 9]

IsNext(w, s) ==
  /\ req[w].op = "reset"
  /\ s \in req[w].todo
  /\ \A other \in req[w].todo : Rank[s] <= Rank[other]

(* Resetting a table takes resetting those that refer to it. *)
Allowed(chosen) ==
  /\ chosen # {}
  /\ chosen \cap {"statuses", "departments", "states"} # {} => "employees" \in chosen
  /\ "countries" \in chosen => {"states", "employees"} \subseteq chosen

BeginReset(w, chosen) ==
  LET again == chosen \cap {"statuses", "departments", "states", "countries"} # {}
  IN /\ req[w] = Idle
     /\ Allowed(chosen)
     /\ req' = [req EXCEPT ![w] =
                  [Idle EXCEPT !.op = "reset", !.chosen = chosen,
                               !.todo = chosen \cup {"record"} \cup
                                        (IF again THEN {"samples"} ELSE {})]]
     /\ logged' = logged \ {w}
     /\ UNCHANGED <<present, refs, pending>>

Done(w, s) == req' = [req EXCEPT ![w].todo = @ \ {s}]

(* reset_employees, which brings the samples back at once. *)
ResetEmployees(w) ==
  /\ IsNext(w, "employees") /\ CanWrite(w)
  /\ refs' = IF SamplesDue(present, Nobody) THEN WithSamples ELSE Nobody
  /\ Done(w, "employees")
  /\ UNCHANGED <<present, pending, logged>>

Wiped(s) == {n \in present : Kind[n] \in Emptied(s)}

(* Broken on purpose: what went with the rows of the table stays gone. *)
ResetTableOnly(w, s) ==
  /\ IsNext(w, s) /\ CanWrite(w)
  /\ Referred(refs) \cap Wiped(s) = {}
  /\ present' = Seeded(present \ Wiped(s), {s})
  /\ Done(w, s)
  /\ UNCHANGED <<refs, pending, logged>>

(* reset_employment_statuses, reset_departments_and_titles,                *)
(* reset_states_provinces and reset_countries: an employee's foreign key   *)
(* refuses the DELETE.                                                     *)
ResetTable(w, s) ==
  /\ IsNext(w, s) /\ CanWrite(w)
  /\ Referred(refs) \cap Wiped(s) = {}
  /\ present' = Seeded(present \ Wiped(s), Emptied(s))
  /\ Done(w, s)
  /\ UNCHANGED <<refs, pending, logged>>

(* reset_locations clears the references first. *)
ResetLocations(w) ==
  LET s == "locations"
  IN /\ IsNext(w, s) /\ CanWrite(w)
     /\ refs' = [p \in People |-> refs[p] \ Wiped(s)]
     /\ present' = Seeded(present \ Wiped(s), Emptied(s))
     /\ Done(w, s)
     /\ UNCHANGED <<pending, logged>>

(* The second seed_sample_employees: flushed, and not committed. *)
SeedSamples(w) ==
  /\ IsNext(w, "samples") /\ CanWrite(w)
  /\ pending' = IF SamplesDue(present, refs) THEN pending \cup {w} ELSE pending
  /\ Done(w, "samples")
  /\ UNCHANGED <<present, refs, logged>>

(* Broken on purpose: the events are deleted and nothing is committed. *)
ClearAuditUncommitted(w) ==
  /\ IsNext(w, "audit") /\ CanWrite(w)
  /\ pending' = pending \cup {w}
  /\ Done(w, "audit")
  /\ UNCHANGED <<present, refs, logged>>

(* The only commit that can follow the second seeding. *)
ClearAudit(w) ==
  /\ IsNext(w, "audit") /\ CanWrite(w)
  /\ refs' = IF w \in pending THEN WithSamples ELSE refs
  /\ pending' = pending \ {w}
  /\ logged' = {}
  /\ Done(w, "audit")
  /\ UNCHANGED present

(* record_event writes in a session of its own, and gives up when it       *)
(* cannot get the write lock.  Then the request's session is closed.       *)
Record(w) ==
  /\ IsNext(w, "record")
  /\ logged' = IF pending = {} THEN logged \cup {w} ELSE logged
  /\ req' = [req EXCEPT ![w] = Idle]
  /\ pending' = pending \ {w}
  /\ UNCHANGED <<present, refs>>

(* Broken on purpose: the session stays open with its transaction. *)
FailHoldingLock(w) ==
  /\ req[w] # Idle
  /\ req' = [req EXCEPT ![w] = Idle]
  /\ UNCHANGED <<present, refs, pending, logged>>

(* A refused DELETE, a lock timeout: rolled back, with what earlier steps  *)
(* committed left as it is.                                                *)
Fail(w) ==
  /\ req[w] # Idle
  /\ req' = [req EXCEPT ![w] = Idle]
  /\ pending' = pending \ {w}
  /\ UNCHANGED <<present, refs, logged>>

Add(w, n) ==
  \/ AddCountry(w, n)
  \/ AddState(w, n)
  \/ AddStatus(w, n)
  \/ AddDepartment(w, n)
  \/ AddTitle(w, n)
  \/ AddLocation(w, n)

Delete(w, n) ==
  \/ DeleteCountry(w, n)
  \/ DeleteState(w, n)
  \/ DeleteStatus(w, n)
  \/ DeleteDepartment(w, n)
  \/ DeleteTitle(w, n)
  \/ DeleteLocation(w, n)
  \/ ConfirmDepartment(w, n)

ResetStep(w) ==
  \/ ResetEmployees(w)
  \/ \E s \in {"statuses", "departments", "states", "countries"} : ResetTable(w, s)
  \/ ResetLocations(w)
  \/ SeedSamples(w)
  \/ ClearAudit(w)
  \/ Record(w)

Next ==
  \/ \E w \in Workers :
       \/ \E n \in Names : Add(w, n) \/ Delete(w, n)
       \/ \E p \in People, b \in Bodies : SaveEmployee(w, p, b)
       \/ \E p \in People : PurgeEmployee(w, p)
       \/ CommitDelete(w)
       \/ \E chosen \in Choices : BeginReset(w, chosen)
       \/ ResetStep(w)
       \/ Fail(w)
  \/ Restart

Spec == Init /\ [][Next]_vars

-----------------------------------------------------------------------------
(* Properties of any overlap of edits, resets and restarts. *)

(* Types, and whose the write lock is: one reset's that is past its second *)
(* seeding and still open.                                                 *)
TypeOK ==
  /\ present \in SUBSET Names
  /\ refs \in [People -> SUBSET Names]
  /\ req \in [Workers -> Request]
  /\ pending \in SUBSET Workers
  /\ logged \in SUBSET Workers
  /\ \A w \in pending :
       /\ pending = {w}
       /\ req[w].op = "reset"
       /\ req[w].todo \subseteq {"audit", "record"}

(* Whatever deletions, resets, new employees and restarts overlap, what an *)
(* employee refers to is there, and so is the parent of every title and    *)
(* state: the checks of a deletion are stale when it commits, and a reset  *)
(* deletes whole tables with an employee being saved beside it.            *)
ReferencesResolve ==
  /\ Referred(refs) \subseteq present
  /\ \A n \in present : Parent[n] \in present \cup {None}

(* The statuses that integrations depend on are there at every commit: no  *)
(* deletion takes them, and a reset puts them back in the same commit.     *)
SystemRowsStay == System \subseteq present

(* A reset that completes has restored every default of the tables it was  *)
(* asked to reset, those that go with their rows included, except what an  *)
(* administrator deleted meanwhile: neither its own later steps nor those  *)
(* of another reset of the same tables, committed one by one between them, *)
(* take away what a step has restored.                                     *)
ResetRestoresDefaults ==
  [][\A w \in Workers :
       Record(w) => Restored(req[w].chosen) \subseteq present' \cup req[w].taken]_vars

(* "documents that the log was cleared": a reset that cleared the activity *)
(* log is itself in the log when it completes, with no other reset about.  *)
ClearedLogSaysSo ==
  [][\A w \in Workers :
       Record(w) /\ "audit" \in req[w].chosen /\ pending \subseteq {w} => w \in logged']_vars

-----------------------------------------------------------------------------
(* What the documentation says of a reset. *)

(* "reload the 2 sample employees": a completed reset of the employees     *)
(* leaves the samples, when all they refer to is there.                    *)
SamplesReloaded ==
  [][\A w \in Workers :
       Record(w) /\ "employees" \in req[w].chosen /\ Needed \subseteq present'
         => Samples \subseteq Employed(refs')]_vars
=============================================================================
