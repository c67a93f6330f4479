---------------------------- MODULE GatewayTokens ----------------------------
(***************************************************************************)
(* The inbound tokens of the MCP server: rows of mcp_gateway_tokens in the *)
(* application's database, and the file on the shared volume from which    *)
(* the MCP server, which has no database, reads the hashes it accepts.     *)
(*                                                                         *)
(* generate, revoke and delete of app/services/mcp_gateway_tokens.py each  *)
(* commit their row and then rewrite the file: a query for the active      *)
(* rows, the opening of the file (which truncates it) and the write.       *)
(* Nothing locks the file, so the steps of requests interleave, and        *)
(* nothing rewrites it when the application starts.                        *)
(***************************************************************************)
EXTENDS Naturals, FiniteSets

CONSTANTS
  Workers,      \* requests of administrators in flight together
  Tokens,       \* the secrets that can be generated; none is drawn twice
  MaxFailures,  \* bound: requests that fail and processes that die
  None

ASSUME FailuresAssumption == MaxFailures \in Nat
ASSUME NoneAssumption == None \notin Tokens

VARIABLES
  rows,       \* the status of each token in the table
  file,       \* the tokens whose hashes the file holds, or Torn
  req,        \* where each request is
  withdrawn,  \* tokens whose revocation or deletion was answered
  failures,
  disturbed   \* whether requests have overlapped, or one failed after its
              \* commit, and none has run alone from its query on since

vars == <<rows, file, req, withdrawn, failures, disturbed>>

Statuses == {"unissued", "active", "revoked", "deleted"}
Places == {"idle", "commit", "query", "open", "write"}
Operations == {"none", "generate", "revoke", "delete"}

Request == [at : Places, op : Operations, token : Tokens \cup {None},
            payload : SUBSET Tokens]

Idle == [at |-> "idle", op |-> "none", token |-> None, payload |-> {}]

(* The contents of a file that is not JSON; no list of tokens is like it. *)
Torn == {None}

(* No request but this one is in flight. *)
Alone(w) == \A v \in Workers \ {w} : req[v] = Idle

(* A request that starts beside another one disturbs both. *)
Start(w) == disturbed' = IF Alone(w) THEN disturbed ELSE "yes"

Active == {t \in Tokens : rows[t] = "active"}

(* _active_hashes: a missing, empty or unreadable file lets nobody in. *)
Accepted == IF file = Torn THEN {} ELSE file

Init ==
  /\ rows = [t \in Tokens |-> "unissued"]
  /\ file = {}
  /\ req = [w \in Workers |-> Idle]
  /\ withdrawn = {}
  /\ failures = 0
  /\ disturbed = "no"

-----------------------------------------------------------------------------
(* Broken on purpose: the file is rewritten before the row is stored. *)
GenerateUnstored(w, t) ==
  /\ req[w] = Idle
  /\ rows[t] = "unissued"
  /\ file' = Accepted \cup {t}
  /\ req' = [req EXCEPT ![w] = [at |-> "query", op |-> "generate", token |-> t,
                                payload |-> {}]]
  /\ Start(w)
  /\ UNCHANGED <<rows, withdrawn, failures>>

(* create: the row is new, so its commit is the first step. *)
Generate(w, t) ==
  /\ req[w] = Idle
  /\ rows[t] = "unissued"
  /\ rows' = [rows EXCEPT ![t] = "active"]
  /\ req' = [req EXCEPT ![w] = [at |-> "query", op |-> "generate", token |-> t,
                                payload |-> {}]]
  /\ Start(w)
  /\ UNCHANGED <<file, withdrawn, failures>>

(* revoke and delete load the row first (404 without one). *)
Load(w, op, t) ==
  /\ req[w] = Idle
  /\ req' = [req EXCEPT ![w] = [at |-> "commit", op |-> op, token |-> t,
                                payload |-> {}]]
  /\ Start(w)
  /\ UNCHANGED <<rows, file, withdrawn, failures>>

LoadRevoke(w, t) == rows[t] = "active" /\ Load(w, "revoke", t)

LoadDelete(w, t) == rows[t] \in {"active", "revoked"} /\ Load(w, "delete", t)

(* A token that is already revoked: answered as a success, and that is all. *)
RevokeAgain(w, t) ==
  /\ req[w] = Idle
  /\ rows[t] = "revoked"
  /\ withdrawn' = withdrawn \cup {t}
  /\ Start(w)
  /\ UNCHANGED <<rows, file, req, failures>>

(* Deleting a row that is already gone succeeds. *)
Commit(w) ==
  LET t == req[w].token
  IN /\ req[w].at = "commit"
     /\ \/ /\ req[w].op = "revoke" /\ rows[t] # "deleted"
           /\ rows' = [rows EXCEPT ![t] = "revoked"]
        \/ /\ req[w].op = "delete"
           /\ rows' = [rows EXCEPT ![t] = "deleted"]
     /\ req' = [req EXCEPT ![w].at = "query"]
     /\ UNCHANGED <<file, withdrawn, failures, disturbed>>

(* The UPDATE of a row that is gone raises: nothing is written. *)
RowGone(w) ==
  /\ req[w].at = "commit" /\ req[w].op = "revoke"
  /\ rows[req[w].token] = "deleted"
  /\ req' = [req EXCEPT ![w] = Idle]
  /\ UNCHANGED <<rows, file, withdrawn, failures, disturbed>>

-----------------------------------------------------------------------------
(* sync_active_tokens *)

(* Broken on purpose: the revoked tokens are listed with the active ones. *)
QueryAll(w) ==
  /\ req[w].at = "query"
  /\ req' = [req EXCEPT ![w].at = "open",
                        ![w].payload = {t \in Tokens : rows[t] \in {"active", "revoked"}}]
  /\ disturbed' = IF Alone(w) /\ disturbed = "yes" THEN "healing" ELSE disturbed
  /\ UNCHANGED <<rows, file, withdrawn, failures>>

Query(w) ==
  /\ req[w].at = "query"
  /\ req' = [req EXCEPT ![w].at = "open", ![w].payload = Active]
  /\ disturbed' = IF Alone(w) /\ disturbed = "yes" THEN "healing" ELSE disturbed
  /\ UNCHANGED <<rows, file, withdrawn, failures>>

Open(w) ==
  /\ req[w].at = "open"
  /\ file' = {}
  /\ req' = [req EXCEPT ![w].at = "write"]
  /\ disturbed' = IF disturbed = "healing" THEN "no" ELSE disturbed
  /\ UNCHANGED <<rows, withdrawn, failures>>

(* Broken on purpose: what is left of a longer list is read as an entry. *)
OverwrittenWithTail(old, new) == {new, new \cup Torn}

(* The text is written from the start of the file.  What another request   *)
(* wrote there since both opened it shows at the end if it was longer: two *)
(* closing brackets, which is not JSON.  More tokens make a longer text;   *)
(* of two different lists neither of which contains the other, either can  *)
(* be the longer one.                                                      *)
Overwritten(old, new) ==
  IF old # Torn /\ old \subseteq new THEN {new}
  ELSE IF old # Torn /\ new \subseteq old THEN {Torn}
  ELSE {new, Torn}

(* Broken on purpose: the request is answered before its list is written. *)
WriteSkipped(w) ==
  /\ req[w].at = "write"
  /\ req' = [req EXCEPT ![w] = Idle]
  /\ UNCHANGED <<rows, file, withdrawn, failures, disturbed>>

Write(w) ==
  /\ req[w].at = "write"
  /\ file' \in Overwritten(file, req[w].payload)
  /\ req' = [req EXCEPT ![w] = Idle]
  /\ withdrawn' = IF req[w].op = "generate" THEN withdrawn
                  ELSE withdrawn \cup {req[w].token}
  /\ UNCHANGED <<rows, failures, disturbed>>

-----------------------------------------------------------------------------
(* An exception ends one request: a lock timeout, a volume that cannot be  *)
(* written.                                                                *)
Fail(w) ==
  /\ failures < MaxFailures
  /\ req[w] # Idle
  /\ req' = [req EXCEPT ![w] = Idle]
  /\ failures' = failures + 1
  /\ disturbed' = IF req[w].at = "commit" THEN disturbed ELSE "yes"
  /\ UNCHANGED <<rows, file, withdrawn>>

(* The process dies and starts again, with the file as it is. *)
Restart ==
  /\ failures < MaxFailures
  /\ \E w \in Workers : req[w] # Idle
  /\ req' = [w \in Workers |-> Idle]
  /\ failures' = failures + 1
  /\ disturbed' = IF \A w \in Workers : req[w].at \in {"idle", "commit"}
                  THEN disturbed ELSE "yes"
  /\ UNCHANGED <<rows, file, withdrawn>>

Sync(w) == Query(w) \/ Open(w) \/ Write(w)

Next ==
  \/ \E w \in Workers :
       \/ \E t \in Tokens : \/ Generate(w, t)
                            \/ LoadRevoke(w, t)
                            \/ LoadDelete(w, t)
                            \/ RevokeAgain(w, t)
       \/ Commit(w)
       \/ RowGone(w)
       \/ Sync(w)
       \/ Fail(w)
  \/ Restart

Spec == Init /\ [][Next]_vars

(* A handler that has committed runs to its end unless it fails. *)
FairSpec == Spec /\ \A w \in Workers : WF_vars(Commit(w) \/ RowGone(w) \/ Sync(w))

-----------------------------------------------------------------------------
(* Properties that hold through overlaps, failures and restarts. *)

TypeOK ==
  /\ rows \in [Tokens -> Statuses]
  /\ file \in (SUBSET Tokens) \cup {Torn}
  /\ req \in [Workers -> Request]
  /\ withdrawn \in SUBSET Tokens
  /\ failures \in 0..MaxFailures
  /\ disturbed \in {"no", "healing", "yes"}

(* The MCP server accepts no token that was never committed, whatever      *)
(* overlaps, fails or dies: a secret that was drawn for a row that was not *)
(* stored never opens the gateway.                                         *)
AcceptedOnRecord == \A t \in Accepted : rows[t] # "unissued"

(* "Creating or revoking a token re-syncs the file, so changes take effect *)
(* on the MCP server's very next call": a token whose revocation has been  *)
(* answered is not accepted.  Requests that overlap and a failure between  *)
(* a commit and its file break this; the next request that runs alone      *)
(* restores it, for the tokens of the earlier requests too.                *)
RevokedStops == disturbed = "no" => withdrawn \cap Accepted = {}

(* ... and, when no request is in flight, every active token is accepted.  *)
ActiveWorks ==
  disturbed = "no" /\ (\A w \in Workers : req[w] = Idle) => Active \subseteq Accepted

(* The table and the file together behave as the administrator is promised:*)
(* the server accepts what is on record before the next change is made.    *)
Access == INSTANCE GatewayAccess WITH promised <- Active, accepted <- Accepted

OrderlyChanges ==
  [][disturbed = "no" /\ disturbed' = "no" =>
       [Access!AccessNext]_(Access!accessVars)]_vars

(* "Changes take effect on the MCP server's very next call", once they are *)
(* through: unless a disturbance is left at the end, the server comes to   *)
(* accept just the active tokens and stays there, whatever overlapped or   *)
(* failed on the way.  (The secrets of the model run out, so changes end.) *)
CatchesUp == <>[](disturbed = "no") => <>[](Accepted = Active)
=============================================================================
