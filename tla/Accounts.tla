------------------------------ MODULE Accounts ------------------------------
(***************************************************************************)
(* Console accounts: who may sign in and administer, the identities of     *)
(* single sign-on, and what an account is named as the creator of          *)
(* (app/api/v1/users.py, the admin users and identity providers of         *)
(* app/ui/settings_routes.py, the sign-in routes, app/services/oidc.py).   *)
(*                                                                         *)
(* A handler reads, checks and then commits, as in EmployeeStore; a single *)
(* sign-on also waits for the identity provider between two of its reads.  *)
(* A session cookie holds an account id and is checked against the account *)
(* on every request: any account may have signed in, so a request of the   *)
(* console is made by any active one.  Passwords are left out: who signs in *)
(* or sets one writes a column that is not modelled.  Allowlists are       *)
(* modelled by the subjects they admit.                                    *)
(***************************************************************************)
EXTENDS Naturals, FiniteSets

CONSTANTS
  Workers,      \* requests under way at the same time
  MaxId,        \* bound: account ids are 1..MaxId
  MaxProvider,  \* bound: provider ids are 1..MaxProvider
  MaxOwners,    \* bound: accounts that are creators at the same time
  Names,        \* user names
  Roles,        \* admin, management and view_only, or fewer
  InitialName,  \* initial_admin_username
  NewUsers,     \* bodies of POST: records [name |-> ..., role |-> ...]
  Patches,      \* bodies of PATCH: the same, NULL for a field left out
  Settings,     \* what the form of an identity provider can say
  Subjects,     \* people at the identity providers
  SsoNames,     \* the names _unique_username may try for each subject
  NULL,
  NoRow         \* what a table holds at an id without a row

Ids == 1..MaxId
Providers == 1..MaxProvider

User == [name : Names, role : Roles, active : BOOLEAN, seeded : BOOLEAN]

Provider == [enabled : BOOLEAN, admits : SUBSET Subjects]

Identity == [provider : Providers, subject : Subjects, user : Ids]

ASSUME BoundsAssumption ==
  MaxId \in Nat \ {0} /\ MaxProvider \in Nat /\ MaxOwners \in Nat
ASSUME NamesAssumption ==
  /\ InitialName \in Names
  /\ {"admin", "view_only"} \subseteq Roles
  /\ SsoNames \in [Subjects -> SUBSET Names]
  /\ NewUsers \subseteq [name : Names, role : Roles]
  /\ Patches \subseteq [name : Names \cup {NULL}, role : Roles \cup {NULL}]
  /\ Settings \subseteq Provider
ASSUME RowsAssumption ==
  /\ NoRow \notin User /\ NoRow \notin Provider
  /\ NULL \notin Ids /\ NULL \notin Providers /\ NULL \notin Subjects
  /\ NULL \notin Names /\ NULL \notin Roles

VARIABLES
  users,       \* app_users, as committed
  providers,   \* auth_providers, as committed
  identities,  \* user_identities, as committed
  owners,      \* accounts named as creator by a key, a client or a provider
  req          \* the requests

vars == <<users, providers, identities, owners, req>>

Operations == {"idle", "create", "update", "delete", "exchange", "enrol"}

Request == [op : Operations, id : Ids \cup {NULL},
            loaded : User \cup {NoRow}, object : User \cup {NoRow},
            provider : Providers \cup {NULL}, subject : Subjects \cup {NULL}]

Idle == [op |-> "idle", id |-> NULL, loaded |-> NoRow, object |-> NoRow,
         provider |-> NULL, subject |-> NULL]

Present(table) == {i \in DOMAIN table : table[i] # NoRow}

(* The id after the largest one present, so that of a deleted row returns. *)
IsNextId(table, i) ==
  /\ i = 1 \/ (i - 1) \in Present(table)
  /\ \A j \in Present(table) : j < i

Seeded == [name |-> InitialName, role |-> "admin", active |-> TRUE,
           seeded |-> TRUE]

(* seed_admin_user on a new volume. *)
Init ==
  /\ users = [i \in Ids |-> IF i = 1 THEN Seeded ELSE NoRow]
  /\ providers = [p \in Providers |-> NoRow]
  /\ identities = {}
  /\ owners = {}
  /\ req = [w \in Workers |-> Idle]

-----------------------------------------------------------------------------
(* require_ui_user, get_current_user; require_admin *)
SignedIn(a) == a \in Present(users) /\ users[a].active

AsAdmin(a) == SignedIn(a) /\ users[a].role = "admin"

(* Requests about accounts: load, check, set the new values in memory. *)

Begin(w, request) ==
  /\ req[w] = Idle
  /\ req' = [req EXCEPT ![w] = request]
  /\ UNCHANGED <<users, providers, identities, owners>>

BeginUpdate(w, i, object) ==
  Begin(w, [Idle EXCEPT !.op = "update", !.id = i, !.loaded = users[i],
                        !.object = object])

(* create_user of the API; create_admin of the settings page checks the    *)
(* same and needs an admin.                                                *)
CreateUser(w, u) ==
  Begin(w, [Idle EXCEPT !.op = "create",
                        !.object = [name |-> u.name, role |-> u.role,
                                    active |-> TRUE, seeded |-> FALSE]])

CreateAdmin(w, a, u) == AsAdmin(a) /\ CreateUser(w, u)

(* Broken on purpose: a field the body leaves out is set to null. *)
UpdateEveryField(w, i, patch) ==
  /\ i \in Present(users)
  /\ users[i].seeded => patch.role \in {NULL, users[i].role}
  /\ BeginUpdate(w, i, [users[i] EXCEPT !.name = patch.name,
                                        !.role = patch.role])

(* PATCH of a name, a role and a password, any of them. *)
UpdateUser(w, i, patch) ==
  LET named(value, old) == IF value = NULL THEN old ELSE value
  IN /\ i \in Present(users)
     /\ users[i].seeded => patch.role \in {NULL, users[i].role}
     /\ BeginUpdate(w, i, [users[i] EXCEPT !.name = named(patch.name, @),
                                           !.role = named(patch.role, @)])

ChangeRole(w, a, i, r) ==
  /\ AsAdmin(a)
  /\ i \in Present(users) /\ ~users[i].seeded /\ i # a
  /\ r # users[i].role
  /\ BeginUpdate(w, i, [users[i] EXCEPT !.role = r])

ChangePassword(w, a, i) ==
  /\ AsAdmin(a)
  /\ i \in Present(users)
  /\ BeginUpdate(w, i, users[i])

(* Broken on purpose: the seeded account is disabled like any other. *)
DisableAnyUser(w, i) ==
  /\ i \in Present(users) /\ users[i].active
  /\ BeginUpdate(w, i, [users[i] EXCEPT !.active = FALSE])

DisableUser(w, i) ==
  /\ i \in Present(users) /\ ~users[i].seeded /\ users[i].active
  /\ BeginUpdate(w, i, [users[i] EXCEPT !.active = FALSE])

DisableAdmin(w, a, i) == AsAdmin(a) /\ i # a /\ DisableUser(w, i)

EnableUser(w, i) ==
  /\ i \in Present(users) /\ ~users[i].active
  /\ BeginUpdate(w, i, [users[i] EXCEPT !.active = TRUE])

EnableAdmin(w, a, i) == AsAdmin(a) /\ EnableUser(w, i)

DeleteAdmin(w, a, i) ==
  /\ AsAdmin(a)
  /\ i \in Present(users) /\ ~users[i].seeded /\ i # a
  /\ Begin(w, [Idle EXCEPT !.op = "delete", !.id = i])

(* The owner of account i signs in, with the form or the JSON login: only  *)
(* last_login_at is set.                                                   *)
DoLogin(w, i) ==
  /\ i \in Present(users) /\ users[i].active
  /\ BeginUpdate(w, i, users[i])

-----------------------------------------------------------------------------
(* Single sign-on *)

(* oidc_callback up to its wait: the provider it loaded, with its          *)
(* allowlist, is the one it goes on with.                                  *)
Exchange(w, p, s) ==
  /\ p \in Present(providers)
  /\ providers[p].enabled /\ s \in providers[p].admits
  /\ Begin(w, [Idle EXCEPT !.op = "exchange", !.provider = p, !.subject = s])

Linked(p, s) == {i \in identities : i.provider = p /\ i.subject = s}

(* find_or_create_user: the account the subject is linked to, active or    *)
(* not; only last_login_at is set ...                                      *)
FindUser(w) ==
  /\ req[w].op = "exchange"
  /\ \E i \in Linked(req[w].provider, req[w].subject) :
       req' = [req EXCEPT ![w].op = "update", ![w].id = i.user,
                          ![w].loaded = users[i.user],
                          ![w].object = users[i.user]]
  /\ UNCHANGED <<users, providers, identities, owners>>

(* ... or a new one, with a name nobody has. *)
NewUser(w) ==
  /\ req[w].op = "exchange"
  /\ Linked(req[w].provider, req[w].subject) = {}
  /\ \E n \in SsoNames[req[w].subject] :
       /\ \A i \in Present(users) : users[i].name # n
       /\ req' = [req EXCEPT ![w].op = "enrol",
                             ![w].object = [name |-> n, role |-> "view_only",
                                            active |-> TRUE, seeded |-> FALSE]]
  /\ UNCHANGED <<users, providers, identities, owners>>

-----------------------------------------------------------------------------
(* Commits *)

UsernamesUnique(table) ==
  \A i, j \in Present(table) : table[i].name = table[j].name => i = j

End(w) == req' = [req EXCEPT ![w] = Idle]

CommitCreate(w) ==
  /\ req[w].op = "create"
  /\ \E i \in Ids :
       /\ IsNextId(users, i)
       /\ users' = [users EXCEPT ![i] = req[w].object]
  /\ UsernamesUnique(users')
  /\ End(w)
  /\ UNCHANGED <<providers, identities, owners>>

(* The columns that differ from the loaded ones are written. *)
Flush(now, loaded, object) ==
  LET written(new, old, current) == IF new # old THEN new ELSE current
  IN [name   |-> written(object.name, loaded.name, now.name),
      role   |-> written(object.role, loaded.role, now.role),
      active |-> written(object.active, loaded.active, now.active),
      seeded |-> now.seeded]

(* Broken on purpose: every column is written back. *)
CommitWholeUser(w) ==
  /\ req[w].op = "update"
  /\ req[w].id \in Present(users)
  /\ users' = [users EXCEPT ![req[w].id] = req[w].object]
  /\ UsernamesUnique(users')
  /\ End(w)
  /\ UNCHANGED <<providers, identities, owners>>

CommitUpdate(w) ==
  LET r == req[w]
  IN /\ r.op = "update"
     /\ \/ r.object = r.loaded /\ UNCHANGED users
        \/ /\ r.object # r.loaded
           /\ r.id \in Present(users)
           /\ users' = [users EXCEPT ![r.id] = Flush(@, r.loaded, r.object)]
           /\ UsernamesUnique(users')
     /\ End(w)
     /\ UNCHANGED <<providers, identities, owners>>

(* Broken on purpose: the creator of a key is deleted. *)
CommitDeleteOwner(w) ==
  /\ req[w].op = "delete"
  /\ users' = [users EXCEPT ![req[w].id] = NoRow]
  /\ identities' = {i \in identities : i.user # req[w].id}
  /\ End(w)
  /\ UNCHANGED <<providers, owners>>

(* The identities go with the account; the foreign keys of what it created *)
(* refuse.  A row that is already gone is no error.                        *)
CommitDelete(w) ==
  /\ req[w].op = "delete"
  /\ req[w].id \notin owners
  /\ users' = [users EXCEPT ![req[w].id] = NoRow]
  /\ identities' = {i \in identities : i.user # req[w].id}
  /\ End(w)
  /\ UNCHANGED <<providers, owners>>

(* The account and its identity, in one transaction. *)
CommitEnrol(w) ==
  LET r == req[w]
  IN /\ r.op = "enrol"
     /\ r.provider \in Present(providers)
     /\ Linked(r.provider, r.subject) = {}
     /\ \E i \in Ids :
          /\ IsNextId(users, i)
          /\ users' = [users EXCEPT ![i] = r.object]
          /\ identities' = identities \cup
               {[provider |-> r.provider, subject |-> r.subject, user |-> i]}
     /\ UsernamesUnique(users')
     /\ End(w)
     /\ UNCHANGED <<providers, owners>>

(* A refused commit, a failed exchange, a wrong password, a lock timeout. *)
Fail(w) ==
  /\ req[w] # Idle
  /\ End(w)
  /\ UNCHANGED <<users, providers, identities, owners>>

-----------------------------------------------------------------------------
(* What an administrator creates.  Nothing is checked here that another    *)
(* request could change before the commit, so these are single steps.      *)

CreateProvider(a, p, settings) ==
  /\ AsAdmin(a)
  /\ IsNextId(providers, p)
  /\ providers' = [providers EXCEPT ![p] = settings]
  /\ owners' = owners \cup {a} /\ Cardinality(owners') <= MaxOwners
  /\ UNCHANGED <<users, identities, req>>

(* edit and toggle *)
UpdateProvider(a, p, settings) ==
  /\ AsAdmin(a)
  /\ p \in Present(providers)
  /\ providers' = [providers EXCEPT ![p] = settings]
  /\ UNCHANGED <<users, identities, owners, req>>

DeleteProvider(a, p) ==
  /\ AsAdmin(a)
  /\ p \in Present(providers)
  /\ providers' = [providers EXCEPT ![p] = NoRow]
  /\ identities' = {i \in identities : i.provider # p}
  /\ owners' \in {owners} \cup {owners \ {i} : i \in owners}
  /\ UNCHANGED <<users, req>>

(* create_api_key, create_oauth_client, create of a gateway token. *)
CreateKey(a) ==
  /\ SignedIn(a)
  /\ a \notin owners
  /\ owners' = owners \cup {a} /\ Cardinality(owners') <= MaxOwners
  /\ UNCHANGED <<users, providers, identities, req>>

(* The last thing that names account i as its creator is deleted. *)
DeleteKey(a, i) ==
  /\ SignedIn(a)
  /\ i \in owners
  /\ owners' = owners \ {i}
  /\ UNCHANGED <<users, providers, identities, req>>

(* The process starts again. *)
Restart ==
  /\ req' = [w \in Workers |-> Idle]
  /\ \/ /\ \E i \in Present(users) : users[i].name = InitialName
        /\ UNCHANGED users
     \/ /\ \A i \in Present(users) : users[i].name # InitialName
        /\ \E i \in Ids : /\ IsNextId(users, i)
                          /\ users' = [users EXCEPT ![i] = Seeded]
  /\ UNCHANGED <<providers, identities, owners>>

(* hrsot-reset-admin *)
ResetAdmin ==
  /\ \E i \in Present(users) :
       /\ users[i].name = InitialName /\ users[i].seeded
       /\ users' = [users EXCEPT ![i].active = TRUE]
  /\ UNCHANGED <<providers, identities, owners, req>>

-----------------------------------------------------------------------------
Manage(w, a, i) ==
  \/ \E r \in Roles : ChangeRole(w, a, i, r)
  \/ ChangePassword(w, a, i)
  \/ DisableAdmin(w, a, i)
  \/ EnableAdmin(w, a, i)
  \/ DeleteAdmin(w, a, i)

Administer(a) ==
  \/ \E p \in Providers, s \in Settings :
       \/ CreateProvider(a, p, s)
       \/ UpdateProvider(a, p, s)
  \/ \E p \in Providers : DeleteProvider(a, p)
  \/ CreateKey(a)
  \/ \E i \in Ids : DeleteKey(a, i)

Api(w) ==
  \/ \E u \in NewUsers : CreateUser(w, u)
  \/ \E i \in Ids : \/ \E patch \in Patches : UpdateUser(w, i, patch)
                    \/ DisableUser(w, i)
                    \/ EnableUser(w, i)

SignIn(w) ==
  \/ \E i \in Ids : DoLogin(w, i)
  \/ \E p \in Providers, s \in Subjects : Exchange(w, p, s)
  \/ FindUser(w)
  \/ NewUser(w)

Commit(w) ==
  \/ CommitCreate(w)
  \/ CommitUpdate(w)
  \/ CommitDelete(w)
  \/ CommitEnrol(w)

Next ==
  \/ \E w \in Workers :
       \/ \E a \in Ids : \/ \E u \in NewUsers : CreateAdmin(w, a, u)
                         \/ \E i \in Ids : Manage(w, a, i)
       \/ Api(w)
       \/ SignIn(w)
       \/ Commit(w)
       \/ Fail(w)
  \/ \E a \in Ids : Administer(a)
  \/ Restart
  \/ ResetAdmin

Spec == Init /\ [][Next]_vars

-----------------------------------------------------------------------------
TypeOK ==
  /\ users \in [Ids -> User \cup {NoRow}]
  /\ providers \in [Providers -> Provider \cup {NoRow}]
  /\ identities \in SUBSET Identity
  /\ owners \in SUBSET Ids
  /\ req \in [Workers -> Request]

(* "guaranteeing at least one active admin remains": whatever renames,     *)
(* demotions, disablings and deletions overlap, over the API and the       *)
(* settings page, on ids that return, a seeded account is an active admin. *)
AdministratorRemains ==
  \E i \in Present(users) :
    users[i].seeded /\ users[i].active /\ users[i].role = "admin"

(* However creations, deletions and first sign-ins overlap: names are      *)
(* unique, a subject has one account at a provider and an account one      *)
(* identity, and nothing names an account or a provider that is gone.      *)
AccountsResolve ==
  /\ UsernamesUnique(users)
  /\ owners \subseteq Present(users)
  /\ \A i \in identities :
       i.user \in Present(users) /\ i.provider \in Present(providers)
  /\ \A i, j \in identities :
       i.user = j.user \/ (i.provider = j.provider /\ i.subject = j.subject) => i = j

EnabledOnRequest ==
  \A i \in Present(users) :
    /\ ~users[i].active
    /\ users'[i] # NoRow /\ users'[i].active
    => ResetAdmin \/ \E w \in Workers :
         /\ req[w].id = i /\ req'[w] # req[w]
         /\ req[w].object.active /\ ~req[w].loaded.active

(* An account that was disabled is enabled again by nothing but a request  *)
(* to enable it, or the reset of the seeded account: no update, login or   *)
(* change of role that was in flight brings it back.                       *)
DisabledStaysDisabled == [][EnabledOnRequest]_vars
=============================================================================
