--------------------------- MODULE AccountsProofs ---------------------------
(***************************************************************************)
(* Theorems of Accounts, for any number of accounts, providers, subjects   *)
(* and requests, deletions, first sign-ins and restarts.                   *)
(***************************************************************************)
EXTENDS Accounts, TLAPS

SeededRow(i) == users[i] # NoRow /\ users[i].seeded

(* A seeded account is never anything but an active administrator. *)
SeededAdministrate ==
  \A i \in Ids : SeededRow(i) => users[i].active /\ users[i].role = "admin"

(* What request r may still commit, whatever was committed since it began: *)
(* an account that is now seeded is not the one it deletes, demotes or     *)
(* disables, although its id may have been another account's.              *)
Sound(r) ==
  /\ r.op \in {"create", "enrol"} => r.object \in User /\ ~r.object.seeded
  /\ r.op \in {"exchange", "enrol"} => r.provider \in Providers /\ r.subject \in Subjects
  /\ r.op = "update" =>
       /\ r.id \in Ids /\ r.loaded \in User /\ r.object \in User
       /\ SeededRow(r.id) => /\ r.object.role = r.loaded.role
                             /\ r.loaded.active => r.object.active
  /\ r.op = "delete" => r.id \in Ids /\ ~SeededRow(r.id)

RequestsSound == \A w \in Workers : Sound(req[w])

IInv ==
  /\ TypeOK
  /\ AdministratorRemains
  /\ AccountsResolve
  /\ SeededAdministrate
  /\ RequestsSound

-----------------------------------------------------------------------------
LEMMA RowTypes ==
  /\ \A u \in User : u # NoRow
  /\ \A p \in Provider : p # NoRow
  /\ Seeded \in User /\ 1 \in Ids
BY RowsAssumption, BoundsAssumption, NamesAssumption DEF User, Provider, Seeded, Ids

LEMMA IdleSound == Idle \in Request /\ Sound(Idle)
BY DEF Idle, Request, Operations, Sound

LEMMA InitIInv == Init => IInv
<1> SUFFICES ASSUME Init PROVE IInv
  OBVIOUS
<1> USE DEF Init
<1>1. TypeOK
  BY RowTypes, IdleSound DEF TypeOK
<1>2. /\ Present(users) = {1}
      /\ users[1] = Seeded
  BY RowTypes DEF Present
<1>3. AdministratorRemains
  <2>1. 1 \in Present(users) /\ users[1].seeded /\ users[1].active
        /\ users[1].role = "admin"
    BY <1>2 DEF Seeded
  <2> QED
    BY <2>1 DEF AdministratorRemains
<1>4. AccountsResolve
  BY <1>2 DEF AccountsResolve, UsernamesUnique
<1>5. SeededAdministrate
  BY RowTypes DEF SeededAdministrate, SeededRow, Seeded
<1>6. RequestsSound
  BY IdleSound DEF RequestsSound
<1> QED
  BY <1>1, <1>3, <1>4, <1>5, <1>6 DEF IInv

-----------------------------------------------------------------------------
(* Steps that change one request. *)

LEMMA RequestStep ==
  ASSUME IInv, NEW w \in Workers, NEW r \in Request, Sound(r),
         req' = [req EXCEPT ![w] = r],
         UNCHANGED <<users, providers, identities, owners>>
  PROVE  IInv'
<1>1. TypeOK'
  BY DEF IInv, TypeOK
<1>2. AdministratorRemains' /\ AccountsResolve' /\ SeededAdministrate'
  BY DEF IInv, AdministratorRemains, AccountsResolve, SeededAdministrate, SeededRow,
         UsernamesUnique, Present
<1>3. RequestsSound'
  <2> SUFFICES ASSUME NEW v \in Workers PROVE Sound(req[v])'
    BY DEF RequestsSound
  <2>1. req'[v] = IF v = w THEN r ELSE req[v]
    BY DEF IInv, TypeOK
  <2> QED
    BY <2>1 DEF IInv, RequestsSound, Sound, SeededRow
<1> QED
  BY <1>1, <1>2, <1>3 DEF IInv

(* A request to update account i that spares it if it is seeded. *)
LEMMA UpdateStep ==
  ASSUME IInv, NEW w \in Workers, NEW i \in Ids, NEW object \in User,
         i \in Present(users),
         users[i].seeded => /\ object.role = users[i].role
                            /\ users[i].active => object.active,
         BeginUpdate(w, i, object)
  PROVE  IInv'
<1> DEFINE r == [Idle EXCEPT !.op = "update", !.id = i, !.loaded = users[i],
                            !.object = object]
<1>1. users[i] \in User
  BY DEF IInv, TypeOK, Present
<1>2. r \in Request
  BY <1>1 DEF Idle, Request, Operations
<1>3. Sound(r)
  BY <1>1 DEF Idle, Sound, SeededRow
<1>4. /\ req' = [req EXCEPT ![w] = r]
      /\ UNCHANGED <<users, providers, identities, owners>>
  BY DEF BeginUpdate, Begin
<1> QED
  BY <1>2, <1>3, <1>4, RequestStep

LEMMA CreateStep ==
  ASSUME IInv, NEW w \in Workers, NEW u \in NewUsers, CreateUser(w, u)
  PROVE  IInv'
<1> DEFINE object == [name |-> u.name, role |-> u.role,
                      active |-> TRUE, seeded |-> FALSE]
           r == [Idle EXCEPT !.op = "create", !.object = object]
<1>1. object \in User /\ ~object.seeded
  BY NamesAssumption DEF User
<1>2. r \in Request /\ Sound(r)
  BY <1>1 DEF Idle, Request, Operations, Sound
<1>3. /\ req' = [req EXCEPT ![w] = r]
      /\ UNCHANGED <<users, providers, identities, owners>>
  BY DEF CreateUser, Begin
<1> QED
  BY <1>2, <1>3, RequestStep

LEMMA DisableStep ==
  ASSUME IInv, NEW w \in Workers, NEW i \in Ids, DisableUser(w, i)
  PROVE  IInv'
<1>1. users[i] \in User /\ i \in Present(users) /\ ~users[i].seeded
  BY DEF DisableUser, IInv, TypeOK, Present
<1>2. [users[i] EXCEPT !.active = FALSE] \in User
  BY <1>1 DEF User
<1> QED
  BY <1>1, <1>2, UpdateStep DEF DisableUser

LEMMA EnableStep ==
  ASSUME IInv, NEW w \in Workers, NEW i \in Ids, EnableUser(w, i)
  PROVE  IInv'
<1> DEFINE object == [users[i] EXCEPT !.active = TRUE]
<1>1. users[i] \in User /\ i \in Present(users)
  BY DEF EnableUser, IInv, TypeOK, Present
<1>2. object \in User /\ object.role = users[i].role /\ object.active
  BY <1>1 DEF User
<1>3. BeginUpdate(w, i, object)
  BY DEF EnableUser
<1> HIDE DEF object
<1> QED
  BY <1>1, <1>2, <1>3, UpdateStep

LEMMA SameStep ==
  ASSUME IInv, NEW w \in Workers, NEW i \in Ids, i \in Present(users),
         BeginUpdate(w, i, users[i])
  PROVE  IInv'
<1>1. users[i] \in User
  BY DEF IInv, TypeOK, Present
<1> QED
  BY <1>1, UpdateStep

LEMMA PatchStep ==
  ASSUME IInv, NEW w \in Workers, NEW i \in Ids, NEW patch \in Patches,
         UpdateUser(w, i, patch)
  PROVE  IInv'
<1> DEFINE named(value, old) == IF value = NULL THEN old ELSE value
           object == [users[i] EXCEPT !.name = named(patch.name, @),
                                      !.role = named(patch.role, @)]
<1>1. users[i] \in User /\ i \in Present(users)
  BY DEF UpdateUser, IInv, TypeOK, Present
<1>2. named(patch.name, users[i].name) \in Names /\ named(patch.role, users[i].role) \in Roles
  BY <1>1, NamesAssumption DEF User
<1>3. /\ object \in User
      /\ object.role = named(patch.role, users[i].role)
      /\ object.active = users[i].active
  BY <1>1, <1>2 DEF User
<1>4. users[i].seeded => object.role = users[i].role
  BY <1>3 DEF UpdateUser
<1>5. BeginUpdate(w, i, object)
  BY DEF UpdateUser
<1> HIDE DEF object
<1> QED
  BY <1>1, <1>3, <1>4, <1>5, UpdateStep

-----------------------------------------------------------------------------
(* The steps of each kind of request. *)

LEMMA ManageStep ==
  ASSUME IInv, NEW w \in Workers, NEW a \in Ids, NEW i \in Ids, Manage(w, a, i)
  PROVE  IInv'
<1>1. i \in Present(users) => users[i] \in User
  BY DEF IInv, TypeOK, Present
<1>2. ASSUME NEW role \in Roles, ChangeRole(w, a, i, role) PROVE IInv'
  <2> DEFINE object == [users[i] EXCEPT !.role = role]
  <2>1. object \in User /\ i \in Present(users) /\ ~users[i].seeded
    BY <1>1, <1>2 DEF ChangeRole, User
  <2>2. BeginUpdate(w, i, object)
    BY <1>2 DEF ChangeRole
  <2> QED
    BY <2>1, <2>2, UpdateStep
<1>3. CASE ChangePassword(w, a, i)
  BY <1>3, SameStep DEF ChangePassword
<1>4. CASE DisableAdmin(w, a, i)
  BY <1>4, DisableStep DEF DisableAdmin
<1>5. CASE EnableAdmin(w, a, i)
  BY <1>5, EnableStep DEF EnableAdmin
<1>6. CASE DeleteAdmin(w, a, i)
  <2> DEFINE r == [Idle EXCEPT !.op = "delete", !.id = i]
  <2>1. r \in Request /\ Sound(r)
    BY <1>6 DEF DeleteAdmin, Idle, Request, Operations, Sound, SeededRow
  <2>2. /\ req' = [req EXCEPT ![w] = r]
        /\ UNCHANGED <<users, providers, identities, owners>>
    BY <1>6 DEF DeleteAdmin, Begin
  <2> QED
    BY <2>1, <2>2, RequestStep
<1> QED
  BY <1>2, <1>3, <1>4, <1>5, <1>6 DEF Manage

LEMMA SignInStep ==
  ASSUME IInv, NEW w \in Workers, SignIn(w)
  PROVE  IInv'
<1>1. req[w] \in Request /\ Sound(req[w])
  BY DEF IInv, TypeOK, RequestsSound
<1>2. ASSUME NEW i \in Ids, DoLogin(w, i) PROVE IInv'
  BY <1>2, SameStep DEF DoLogin
<1>3. ASSUME NEW p \in Providers, NEW s \in Subjects, Exchange(w, p, s) PROVE IInv'
  <2> DEFINE r == [Idle EXCEPT !.op = "exchange", !.provider = p, !.subject = s]
  <2>1. r \in Request /\ Sound(r)
    BY DEF Idle, Request, Operations, Sound
  <2>2. /\ req' = [req EXCEPT ![w] = r]
        /\ UNCHANGED <<users, providers, identities, owners>>
    BY <1>3 DEF Exchange, Begin
  <2> QED
    BY <2>1, <2>2, RequestStep
<1>4. CASE FindUser(w)
  <2>1. PICK link \in Linked(req[w].provider, req[w].subject) :
          req' = [req EXCEPT ![w].op = "update", ![w].id = link.user,
                             ![w].loaded = users[link.user],
                             ![w].object = users[link.user]]
    BY <1>4 DEF FindUser
  <2> DEFINE r == [req[w] EXCEPT !.op = "update", !.id = link.user,
                                 !.loaded = users[link.user],
                                 !.object = users[link.user]]
  <2>2. link.user \in Ids /\ users[link.user] \in User
    BY DEF Linked, IInv, TypeOK, AccountsResolve, Present, Identity
  <2>3. r \in Request
    BY <1>1, <2>2 DEF Request, Operations
  <2>4. Sound(r)
    BY <1>1, <2>2 DEF Request, Sound
  <2>5. req' = [req EXCEPT ![w] = r]
    BY <2>1 DEF IInv, TypeOK
  <2>6. UNCHANGED <<users, providers, identities, owners>>
    BY <1>4 DEF FindUser
  <2> QED
    BY <2>3, <2>4, <2>5, <2>6, RequestStep
<1>5. CASE NewUser(w)
  <2>1. PICK n \in SsoNames[req[w].subject] :
          req' = [req EXCEPT ![w].op = "enrol",
                             ![w].object = [name |-> n, role |-> "view_only",
                                            active |-> TRUE, seeded |-> FALSE]]
    BY <1>5 DEF NewUser
  <2> DEFINE object == [name |-> n, role |-> "view_only",
                        active |-> TRUE, seeded |-> FALSE]
             r == [req[w] EXCEPT !.op = "enrol", !.object = object]
  <2>2. /\ req[w].provider \in Providers /\ req[w].subject \in Subjects
        /\ UNCHANGED <<users, providers, identities, owners>>
    BY <1>1, <1>5 DEF NewUser, Sound
  <2>3. object \in User /\ ~object.seeded
    BY <2>2, NamesAssumption DEF User
  <2>4. r \in Request
    BY <1>1, <2>3 DEF Request, Operations
  <2>5. Sound(r)
    BY <1>1, <2>2, <2>3 DEF Request, Sound
  <2>6. req' = [req EXCEPT ![w] = r]
    BY <2>1 DEF IInv, TypeOK
  <2> QED
    BY <2>2, <2>4, <2>5, <2>6, RequestStep
<1> QED
  BY <1>2, <1>3, <1>4, <1>5 DEF SignIn

-----------------------------------------------------------------------------
(* Commits.  None of them makes a seeded account of one that was not, so   *)
(* the requests of the others stay sound.                                  *)
LEMMA OthersSound ==
  ASSUME IInv, NEW w \in Workers, req' = [req EXCEPT ![w] = Idle],
         \A i \in Ids : SeededRow(i)' => SeededRow(i)
  PROVE  RequestsSound' /\ req' \in [Workers -> Request]
<1>1. req' \in [Workers -> Request]
  BY IdleSound DEF IInv, TypeOK
<1>2. ASSUME NEW v \in Workers PROVE Sound(req[v])'
  <2>1. req'[v] = Idle \/ (req'[v] = req[v] /\ Sound(req[v]))
    BY DEF IInv, TypeOK, RequestsSound
  <2>2. Idle.op = "idle"
    BY DEF Idle
  <2> QED
    BY <2>1, <2>2 DEF Sound
<1> QED
  BY <1>1, <1>2 DEF RequestsSound

(* A new row for an account that is not seeded. *)
LEMMA NewRow ==
  ASSUME IInv, NEW i \in Ids, NEW u \in User, IsNextId(users, i), ~u.seeded,
         users' = [users EXCEPT ![i] = u]
  PROVE  /\ users' \in [Ids -> User \cup {NoRow}]
         /\ i \notin Present(users)
         /\ Present(users)' = Present(users) \cup {i}
         /\ \A j \in Ids : SeededRow(j)' => SeededRow(j)
         /\ AdministratorRemains' /\ SeededAdministrate'
<1>1. i \notin Present(users)
  BY DEF IsNextId, Ids
<1>2. \A j \in Ids : users'[j] = IF j = i THEN u ELSE users[j]
  BY DEF IInv, TypeOK
<1>3. users' \in [Ids -> User \cup {NoRow}]
  BY DEF IInv, TypeOK
<1>4. Present(users)' = Present(users) \cup {i}
  BY <1>2, <1>3, RowTypes DEF Present, IInv, TypeOK
<1>5. \A j \in Ids : SeededRow(j)' => SeededRow(j) /\ users'[j] = users[j]
  BY <1>2 DEF SeededRow
<1>6. SeededAdministrate'
  BY <1>5 DEF IInv, SeededAdministrate
<1>7. AdministratorRemains'
  BY <1>1, <1>2, <1>4 DEF IInv, TypeOK, AdministratorRemains, Present
<1> QED
  BY <1>1, <1>3, <1>4, <1>5, <1>6, <1>7

LEMMA CommitCreateStep ==
  ASSUME IInv, NEW w \in Workers, CommitCreate(w)
  PROVE  IInv'
<1>1. /\ req[w].object \in User /\ ~req[w].object.seeded
      /\ req' = [req EXCEPT ![w] = Idle]
      /\ UNCHANGED <<providers, identities, owners>>
      /\ UsernamesUnique(users)'
  BY DEF CommitCreate, End, IInv, RequestsSound, Sound, UsernamesUnique, Present
<1>2. PICK i \in Ids : IsNextId(users, i) /\ users' = [users EXCEPT ![i] = req[w].object]
  BY DEF CommitCreate
<1> DEFINE u == req[w].object
<1>3. /\ users' \in [Ids -> User \cup {NoRow}]
      /\ Present(users)' = Present(users) \cup {i}
      /\ \A j \in Ids : SeededRow(j)' => SeededRow(j)
      /\ AdministratorRemains' /\ SeededAdministrate'
  BY <1>1, <1>2, NewRow
<1>4. TypeOK' /\ RequestsSound'
  BY <1>1, <1>3, OthersSound DEF IInv, TypeOK
<1>5. AccountsResolve'
  BY <1>1, <1>3 DEF IInv, AccountsResolve, Present
<1> QED
  BY <1>3, <1>4, <1>5 DEF IInv

LEMMA CommitEnrolStep ==
  ASSUME IInv, NEW w \in Workers, CommitEnrol(w)
  PROVE  IInv'
<1> DEFINE r == req[w]
<1>1. /\ r.object \in User /\ ~r.object.seeded
      /\ r.provider \in Present(providers) /\ r.provider \in Providers
      /\ r.subject \in Subjects
      /\ Linked(r.provider, r.subject) = {}
      /\ req' = [req EXCEPT ![w] = Idle]
      /\ UNCHANGED <<providers, owners>>
      /\ UsernamesUnique(users)'
  BY DEF CommitEnrol, End, IInv, RequestsSound, Sound, UsernamesUnique, Present
<1>2. PICK i \in Ids :
        /\ IsNextId(users, i)
        /\ users' = [users EXCEPT ![i] = r.object]
        /\ identities' = identities \cup
             {[provider |-> r.provider, subject |-> r.subject, user |-> i]}
  BY DEF CommitEnrol
<1> DEFINE link == [provider |-> r.provider, subject |-> r.subject, user |-> i]
<1>3. /\ users' \in [Ids -> User \cup {NoRow}]
      /\ i \notin Present(users)
      /\ Present(users)' = Present(users) \cup {i}
      /\ \A j \in Ids : SeededRow(j)' => SeededRow(j)
      /\ AdministratorRemains' /\ SeededAdministrate'
  BY <1>1, <1>2, NewRow
<1>4. link \in Identity /\ link.user = i
      /\ link.provider = r.provider /\ link.subject = r.subject
  BY <1>1 DEF Identity
<1>5. TypeOK' /\ RequestsSound'
  BY <1>1, <1>2, <1>3, <1>4, OthersSound DEF IInv, TypeOK
<1>6. AccountsResolve'
  <2>1. /\ \A l \in identities : /\ l.user \in Present(users)
                                 /\ l.user # i
                                 /\ l.provider \in Present(providers)
                                 /\ ~(l.provider = r.provider /\ l.subject = r.subject)
        /\ owners \subseteq Present(users)
    BY <1>1, <1>3 DEF IInv, AccountsResolve, Linked
  <2>2. \A l \in identities' : l \in identities \/ l = link
    BY <1>2
  <2>3. \A l \in identities' : l.user \in Present(users)' /\ l.provider \in Present(providers)'
    BY <1>1, <1>3, <1>4, <2>1, <2>2 DEF Present
  <2>4. \A k, l \in identities' :
          k.user = l.user \/ (k.provider = l.provider /\ k.subject = l.subject) => k = l
    <3>1. \A k, l \in identities :
            k.user = l.user \/ (k.provider = l.provider /\ k.subject = l.subject) => k = l
      BY DEF IInv, AccountsResolve
    <3> HIDE DEF link
    <3> QED
      BY <1>4, <2>1, <2>2, <3>1
  <2>5. owners' \subseteq Present(users)'
    BY <1>1, <1>3, <2>1
  <2> QED
    BY <1>1, <2>3, <2>4, <2>5 DEF AccountsResolve
<1> QED
  BY <1>3, <1>5, <1>6 DEF IInv

LEMMA CommitUpdateStep ==
  ASSUME IInv, NEW w \in Workers, CommitUpdate(w)
  PROVE  IInv'
<1> DEFINE r == req[w]
<1>1. /\ r.op = "update" /\ Sound(r)
      /\ req' = [req EXCEPT ![w] = Idle]
      /\ UNCHANGED <<providers, identities, owners>>
  BY DEF CommitUpdate, End, IInv, RequestsSound
<1>2. r.id \in Ids /\ r.loaded \in User /\ r.object \in User
  BY <1>1 DEF Sound
<1>3. CASE UNCHANGED users
  BY <1>1, <1>3, IdleSound, RequestStep
<1>4. CASE /\ r.id \in Present(users)
           /\ users' = [users EXCEPT ![r.id] = Flush(@, r.loaded, r.object)]
           /\ UsernamesUnique(users')
  <2> DEFINE new == Flush(users[r.id], r.loaded, r.object)
  <2>1. users[r.id] \in User
    BY <1>4 DEF IInv, TypeOK, Present
  <2>2. new \in User
    BY <1>2, <2>1 DEF Flush, User
  <2>3. /\ new.seeded = users[r.id].seeded
        /\ new.role = IF r.object.role # r.loaded.role THEN r.object.role
                      ELSE users[r.id].role
        /\ new.active = IF r.object.active # r.loaded.active THEN r.object.active
                        ELSE users[r.id].active
    BY DEF Flush
  <2>4. users[r.id].seeded => new.active /\ new.role = "admin"
    <3>1. SUFFICES ASSUME users[r.id].seeded
                   PROVE  new.active /\ new.role = "admin"
      OBVIOUS
    <3>2. SeededRow(r.id) /\ users[r.id].active /\ users[r.id].role = "admin"
      BY <1>2, <1>4, <3>1 DEF SeededRow, Present, IInv, SeededAdministrate
    <3>3. r.object.role = r.loaded.role /\ (r.loaded.active => r.object.active)
      BY <1>1, <3>2 DEF Sound
    <3>4. r.object.active \in BOOLEAN /\ r.loaded.active \in BOOLEAN
      BY <1>2 DEF User
    <3> HIDE DEF new, r
    <3> QED
      BY <2>3, <3>2, <3>3, <3>4
  <2>5. /\ \A i \in Ids : users'[i] = IF i = r.id THEN new ELSE users[i]
        /\ users' \in [Ids -> User \cup {NoRow}]
    BY <1>2, <1>4, <2>2 DEF IInv, TypeOK
  <2> HIDE DEF new
  <2>6. Present(users)' = Present(users)
    BY <1>4, <2>2, <2>5, RowTypes DEF IInv, TypeOK, Present
  <2>7. \A i \in Ids : SeededRow(i)' => SeededRow(i)
    BY <1>4, <2>3, <2>5 DEF SeededRow, Present
  <2>8. TypeOK' /\ RequestsSound'
    BY <1>1, <2>5, <2>7, OthersSound DEF IInv, TypeOK
  <2>9. SeededAdministrate'
    BY <2>3, <2>4, <2>5, <2>7 DEF IInv, SeededAdministrate, SeededRow
  <2>10. AdministratorRemains'
    BY <2>3, <2>4, <2>5, <2>6 DEF IInv, TypeOK, AdministratorRemains, Present
  <2>11. AccountsResolve'
    BY <1>1, <1>4, <2>6 DEF IInv, AccountsResolve, UsernamesUnique, Present
  <2> QED
    BY <2>8, <2>9, <2>10, <2>11 DEF IInv
<1> QED
  BY <1>3, <1>4 DEF CommitUpdate

LEMMA CommitDeleteStep ==
  ASSUME IInv, NEW w \in Workers, CommitDelete(w)
  PROVE  IInv'
<1> DEFINE d == req[w].id
<1>1. /\ d \in Ids /\ ~SeededRow(d) /\ d \notin owners
      /\ users' = [users EXCEPT ![d] = NoRow]
      /\ identities' = {l \in identities : l.user # d}
      /\ req' = [req EXCEPT ![w] = Idle]
      /\ UNCHANGED <<providers, owners>>
  BY DEF CommitDelete, End, IInv, RequestsSound, Sound
<1> HIDE DEF d
<1>2. /\ \A i \in Ids : users'[i] = IF i = d THEN NoRow ELSE users[i]
      /\ users' \in [Ids -> User \cup {NoRow}]
  BY <1>1 DEF IInv, TypeOK
<1>3. Present(users)' = Present(users) \ {d}
  BY <1>2 DEF IInv, TypeOK, Present
<1>4. \A i \in Ids : SeededRow(i)' => SeededRow(i) /\ users'[i] = users[i]
  BY <1>2 DEF SeededRow
<1>5. TypeOK' /\ RequestsSound'
  BY <1>1, <1>2, <1>4, OthersSound DEF IInv, TypeOK
<1>6. SeededAdministrate'
  BY <1>4 DEF IInv, SeededAdministrate
<1>7. AdministratorRemains'
  BY <1>1, <1>2, <1>3 DEF IInv, TypeOK, AdministratorRemains, SeededRow, Present
<1>8. AccountsResolve'
  BY <1>1, <1>2, <1>3 DEF IInv, TypeOK, AccountsResolve, UsernamesUnique, Present
<1> QED
  BY <1>5, <1>6, <1>7, <1>8 DEF IInv

LEMMA CommitStep ==
  ASSUME IInv, NEW w \in Workers, Commit(w)
  PROVE  IInv'
BY CommitCreateStep, CommitUpdateStep, CommitDeleteStep, CommitEnrolStep DEF Commit

-----------------------------------------------------------------------------
(* Steps that leave the accounts alone, or are not a request's. *)

LEMMA SameUsers ==
  ASSUME IInv, UNCHANGED <<users, req>>
  PROVE  /\ AdministratorRemains' /\ SeededAdministrate' /\ RequestsSound'
         /\ Present(users)' = Present(users) /\ UsernamesUnique(users)'
BY DEF IInv, AdministratorRemains, SeededAdministrate, RequestsSound, Sound,
       SeededRow, Present, AccountsResolve, UsernamesUnique

LEMMA AdministerStep ==
  ASSUME IInv, NEW a \in Ids, Administer(a)
  PROVE  IInv'
<1>1. UNCHANGED <<users, req>>
  BY DEF Administer, CreateProvider, UpdateProvider, DeleteProvider, CreateKey, DeleteKey
<1>2. a \in Present(users)
  BY DEF Administer, CreateProvider, UpdateProvider, DeleteProvider, CreateKey,
         DeleteKey, AsAdmin, SignedIn
<1>3. SUFFICES TypeOK' /\ AccountsResolve'
  BY <1>1, SameUsers DEF IInv
<1>4. ASSUME NEW p \in Providers, NEW settings \in Settings,
             CreateProvider(a, p, settings) \/ UpdateProvider(a, p, settings)
      PROVE  TypeOK' /\ AccountsResolve'
  <2>1. /\ settings \in Provider
        /\ providers' = [providers EXCEPT ![p] = settings]
        /\ identities' = identities /\ owners' \in {owners, owners \cup {a}}
    BY <1>4, NamesAssumption DEF CreateProvider, UpdateProvider
  <2>2. TypeOK'
    BY <1>1, <2>1 DEF IInv, TypeOK
  <2>3. Present(providers) \subseteq Present(providers)'
    BY <2>1, RowTypes DEF IInv, TypeOK, Present
  <2> QED
    BY <1>1, <1>2, <2>1, <2>2, <2>3, SameUsers DEF IInv, AccountsResolve
<1>5. ASSUME NEW p \in Providers, DeleteProvider(a, p)
      PROVE  TypeOK' /\ AccountsResolve'
  <2>1. /\ providers' = [providers EXCEPT ![p] = NoRow]
        /\ identities' = {l \in identities : l.provider # p}
        /\ owners' \subseteq owners
    BY <1>5 DEF DeleteProvider
  <2>2. TypeOK'
    BY <1>1, <2>1 DEF IInv, TypeOK
  <2>3. \A q \in Present(providers) : q # p => q \in Present(providers)'
    BY <2>1 DEF IInv, TypeOK, Present
  <2> QED
    BY <1>1, <2>1, <2>2, <2>3, SameUsers DEF IInv, AccountsResolve
<1>6. ASSUME CreateKey(a) \/ \E i \in Ids : DeleteKey(a, i)
      PROVE  TypeOK' /\ AccountsResolve'
  <2>1. /\ UNCHANGED <<providers, identities>>
        /\ owners' \subseteq owners \cup {a}
    BY <1>6 DEF CreateKey, DeleteKey
  <2>2. TypeOK'
    BY <1>1, <2>1 DEF IInv, TypeOK
  <2> QED
    BY <1>1, <1>2, <2>1, <2>2, SameUsers DEF IInv, AccountsResolve, Present
<1> QED
  BY <1>4, <1>5, <1>6 DEF Administer

LEMMA RestartStep ==
  ASSUME IInv, Restart
  PROVE  IInv'
<1>1. /\ req' = [w \in Workers |-> Idle]
      /\ UNCHANGED <<providers, identities, owners>>
  BY DEF Restart
<1>2. RequestsSound' /\ req' \in [Workers -> Request]
  <2>1. \A w \in Workers : req'[w].op = "idle"
    BY <1>1 DEF Idle
  <2> QED
    BY <1>1, <2>1, IdleSound DEF RequestsSound, Sound
<1>3. CASE UNCHANGED users
  BY <1>1, <1>2, <1>3 DEF IInv, TypeOK, AdministratorRemains, AccountsResolve,
     UsernamesUnique, SeededAdministrate, SeededRow, Present
<1>4. CASE /\ \A i \in Present(users) : users[i].name # InitialName
           /\ \E i \in Ids : IsNextId(users, i) /\ users' = [users EXCEPT ![i] = Seeded]
  <2>1. PICK i \in Ids : IsNextId(users, i) /\ users' = [users EXCEPT ![i] = Seeded]
    BY <1>4
  <2>2. /\ Seeded \in User /\ Seeded.active /\ Seeded.role = "admin"
        /\ Seeded.name = InitialName
    BY RowTypes DEF Seeded
  <2>3. i \notin Present(users)
    BY <2>1 DEF IsNextId, Ids
  <2>4. /\ \A j \in Ids : users'[j] = IF j = i THEN Seeded ELSE users[j]
        /\ users' \in [Ids -> User \cup {NoRow}]
    BY <2>1, <2>2 DEF IInv, TypeOK
  <2>5. Present(users)' = Present(users) \cup {i}
    BY <2>2, <2>4, RowTypes DEF IInv, TypeOK, Present
  <2>6. TypeOK'
    BY <1>1, <1>2, <2>4 DEF IInv, TypeOK
  <2>7. SeededAdministrate'
    BY <2>2, <2>4 DEF IInv, SeededAdministrate, SeededRow
  <2>8. AdministratorRemains'
    BY <2>3, <2>4, <2>5 DEF IInv, TypeOK, AdministratorRemains, Present
  <2>9. AccountsResolve'
    <3>1. UsernamesUnique(users)'
      BY <1>4, <2>2, <2>3, <2>4, <2>5 DEF IInv, TypeOK, AccountsResolve,
         UsernamesUnique, Present
    <3> QED
      BY <1>1, <2>5, <3>1 DEF IInv, AccountsResolve, Present
  <2> QED
    BY <1>2, <2>6, <2>7, <2>8, <2>9 DEF IInv
<1> QED
  BY <1>3, <1>4 DEF Restart

LEMMA ResetAdminStep ==
  ASSUME IInv, ResetAdmin
  PROVE  UNCHANGED vars
<1>1. PICK i \in Present(users) :
        users[i].seeded /\ users' = [users EXCEPT ![i].active = TRUE]
  BY DEF ResetAdmin
<1>2. i \in Ids /\ users[i] \in User /\ users[i].active = TRUE
  <2>1. i \in Ids /\ users[i] \in User /\ SeededRow(i)
    BY <1>1 DEF IInv, TypeOK, Present, SeededRow
  <2>2. users[i].active /\ users[i].active \in BOOLEAN
    BY <2>1 DEF IInv, SeededAdministrate, User
  <2> QED
    BY <2>1, <2>2
<1>3. [users[i] EXCEPT !.active = TRUE] = users[i]
  BY <1>2 DEF User
<1>4. users' = users
  BY <1>1, <1>2, <1>3 DEF IInv, TypeOK
<1> QED
  BY <1>4 DEF ResetAdmin, vars

-----------------------------------------------------------------------------
LEMMA NextIInv == IInv /\ [Next]_vars => IInv'
<1> SUFFICES ASSUME IInv, [Next]_vars PROVE IInv'
  OBVIOUS
<1>1. ASSUME NEW w \in Workers, NEW a \in Ids, NEW u \in NewUsers, CreateAdmin(w, a, u)
      PROVE  IInv'
  BY <1>1, CreateStep DEF CreateAdmin
<1>2. ASSUME NEW w \in Workers, NEW a \in Ids, NEW i \in Ids, Manage(w, a, i)
      PROVE  IInv'
  BY <1>2, ManageStep
<1>3. ASSUME NEW w \in Workers, Api(w) PROVE IInv'
  BY <1>3, CreateStep, PatchStep, DisableStep, EnableStep DEF Api
<1>4. ASSUME NEW w \in Workers, SignIn(w) PROVE IInv'
  BY <1>4, SignInStep
<1>5. ASSUME NEW w \in Workers, Commit(w) PROVE IInv'
  BY <1>5, CommitStep
<1>6. ASSUME NEW w \in Workers, Fail(w) PROVE IInv'
  BY <1>6, IdleSound, RequestStep DEF Fail, End
<1>7. ASSUME NEW a \in Ids, Administer(a) PROVE IInv'
  BY <1>7, AdministerStep
<1>8. CASE Restart
  BY <1>8, RestartStep
<1>9. ASSUME UNCHANGED vars PROVE IInv'
  BY <1>9 DEF vars, IInv, TypeOK, AdministratorRemains, AccountsResolve, UsernamesUnique,
     SeededAdministrate, SeededRow, RequestsSound, Sound, Present
<1>10. CASE ResetAdmin
  BY <1>9, <1>10, ResetAdminStep
<1> QED
  BY <1>1, <1>2, <1>3, <1>4, <1>5, <1>6, <1>7, <1>8, <1>9, <1>10 DEF Next

(* Every reachable state satisfies the inductive invariant. *)
THEOREM Invariance == Spec => []IInv
<1> QED
  BY InitIInv, NextIInv, PTL DEF Spec

(* The tables and requests of the handlers keep their types. *)
THEOREM TypeCorrect == Spec => []TypeOK
<1>1. IInv => TypeOK
  BY DEF IInv
<1> QED
  BY <1>1, Invariance, PTL

(* However many accounts and requests there are, a seeded account remains  *)
(* an active administrator: users.py and settings_routes.py check the row  *)
(* they loaded, and that is enough.                                        *)
THEOREM AdministratorAlwaysRemains == Spec => []AdministratorRemains
<1>1. IInv => AdministratorRemains
  BY DEF IInv
<1> QED
  BY <1>1, Invariance, PTL

(* Names and identities stay unique and refer to rows that exist, whatever *)
(* sign-ins and deletions overlap.                                         *)
THEOREM AccountsAlwaysResolve == Spec => []AccountsResolve
<1>1. IInv => AccountsResolve
  BY DEF IInv
<1> QED
  BY <1>1, Invariance, PTL

-----------------------------------------------------------------------------
LEMMA NextEnabledOnRequest == IInv /\ [Next]_vars => [EnabledOnRequest]_vars
<1> SUFFICES ASSUME IInv, Next, ~ResetAdmin,
                    NEW i \in Present(users), ~users[i].active,
                    users'[i] # NoRow, users'[i].active
             PROVE  \E w \in Workers :
                      /\ req[w].id = i /\ req'[w] # req[w]
                      /\ req[w].object.active /\ ~req[w].loaded.active
  BY DEF EnabledOnRequest
<1>1. i \in Ids /\ users[i] \in User /\ users'[i] # users[i]
  BY DEF IInv, TypeOK, Present
<1>2. ASSUME NEW j \in Ids, NEW u, IsNextId(users, j), users' = [users EXCEPT ![j] = u]
      PROVE  FALSE
  <2>1. j # i
    BY <1>2 DEF IsNextId, Ids
  <2> QED
    BY <1>1, <1>2, <2>1 DEF IInv, TypeOK
<1>3. ~Restart
  BY <1>1, <1>2 DEF Restart
<1>4. ASSUME NEW a \in Ids PROVE ~Administer(a)
  BY <1>1 DEF Administer, CreateProvider, UpdateProvider, DeleteProvider, CreateKey,
     DeleteKey
<1>5. PICK w \in Workers : Commit(w)
  <2>1. ASSUME NEW v \in Workers, Api(v) PROVE users' = users
    BY <2>1 DEF Api, CreateUser, UpdateUser, DisableUser, EnableUser, BeginUpdate, Begin
  <2>2. ASSUME NEW v \in Workers, SignIn(v) PROVE users' = users
    BY <2>2 DEF SignIn, DoLogin, Exchange, FindUser, NewUser, BeginUpdate, Begin
  <2>3. ASSUME NEW v \in Workers, Fail(v) PROVE users' = users
    BY <2>3 DEF Fail
  <2>4. ASSUME NEW v \in Workers, NEW a \in Ids, NEW u \in NewUsers, CreateAdmin(v, a, u)
        PROVE  users' = users
    BY <2>4 DEF CreateAdmin, CreateUser, Begin
  <2>5. ASSUME NEW v \in Workers, NEW a \in Ids, NEW j \in Ids, Manage(v, a, j)
        PROVE  users' = users
    BY <2>5 DEF Manage, ChangeRole, ChangePassword, DisableAdmin, EnableAdmin,
       DeleteAdmin, DisableUser, EnableUser, BeginUpdate, Begin
  <2> QED
    BY <1>1, <1>3, <1>4, <2>1, <2>2, <2>3, <2>4, <2>5 DEF Next
<1>6. ~CommitCreate(w) /\ ~CommitEnrol(w)
  BY <1>2 DEF CommitCreate, CommitEnrol
<1>7. ~CommitDelete(w)
  BY <1>1 DEF CommitDelete, IInv, TypeOK
<1> DEFINE r == req[w]
<1>8. /\ r.op = "update" /\ r.id \in Ids /\ r.loaded \in User /\ r.object \in User
      /\ users' = [users EXCEPT ![r.id] = Flush(@, r.loaded, r.object)]
      /\ req' = [req EXCEPT ![w] = Idle]
  BY <1>1, <1>5, <1>6, <1>7 DEF Commit, CommitUpdate, End, IInv, RequestsSound, Sound
<1>9. r.id = i /\ users'[i] = Flush(users[i], r.loaded, r.object)
  BY <1>1, <1>8 DEF IInv, TypeOK
<1>10. r.object.active /\ ~r.loaded.active
  <2>1. users'[i].active = IF r.object.active # r.loaded.active THEN r.object.active
                           ELSE users[i].active
    <3>1. Flush(users[i], r.loaded, r.object).active =
            IF r.object.active # r.loaded.active THEN r.object.active
            ELSE users[i].active
      BY DEF Flush
    <3> QED
      BY <1>9, <3>1
  <2>2. r.object.active \in BOOLEAN /\ r.loaded.active \in BOOLEAN
    BY <1>8 DEF User
  <2> HIDE DEF r
  <2> QED
    BY <2>1, <2>2
<1>11. req'[w] # req[w]
  BY <1>8 DEF IInv, TypeOK, Idle
<1> QED
  BY <1>9, <1>10, <1>11

(* Of all that may be in flight, only a request to enable a disabled       *)
(* account commits that it is active.                                      *)
THEOREM DisabledAccountsStayDisabled == Spec => DisabledStaysDisabled
<1> QED
  BY Invariance, NextEnabledOnRequest, PTL DEF Spec, DisabledStaysDisabled
=============================================================================
