------------------------------ MODULE ApiAccess ------------------------------
(***************************************************************************)
(* Credentials of the JSON API: API keys, OAuth clients and their access   *)
(* tokens (app/services/auth.py, app/api/v1/api_keys.py,                   *)
(* app/api/v1/oauth_clients.py, app/api/v1/oauth_token.py) and the key of  *)
(* the MCP server, which is a row of api_keys and a file on the data       *)
(* volume (app/services/mcp_token.py).                                     *)
(*                                                                         *)
(* A credential is named here by its secret, drawn afresh for each one;    *)
(* the code names the row of a credential by its integer id, and SQLite    *)
(* gives the highest id out again once its row is deleted.  A request      *)
(* loads a row, decides on what it loaded, and commits later: the commit   *)
(* changes the row that has that id by then, whoever's it is.              *)
(***************************************************************************)
EXTENDS Naturals, FiniteSets

CONSTANTS
  Workers,      \* requests that can be in flight at the same time
  Keys,         \* the API keys that can be drawn
  Clients,      \* the OAuth clients that can be created
  MaxFailures,  \* bound on requests that end with an error, and restarts
  MaxIssued,    \* bound on the credentials that are ever issued
  None          \* no credential

ASSUME FailuresAssumption == MaxFailures \in Nat /\ MaxIssued \in Nat
ASSUME NoneAssumption == None \notin Keys \cup Clients
ASSUME KindsAssumption == Keys \cap Clients = {}

Creds == Keys \cup Clients

VARIABLES
  row,       \* for each credential: what its table says of it
  id,        \* the id of its row, 0 when there is none
  expiry,    \* for each key: no expires_at, one ahead, or one that has passed
  tokens,    \* clients with an access token whose lifetime is not over
  mcp,       \* the keys named "MCP Server"
  file,      \* the key in the file, None when it is empty or missing
  req,       \* the request each worker is handling
  withdrawn, \* a history: whether an answer said that the credential is
             \* "replaced" (its key rotated or cleared) or "pulled" (revoked or
             \* deleted), or a request meant for another credential, whose id
             \* it had got, has "struck" it
  stranded,  \* the last change of the file was cut off after its commit
  disturbed, \* changes of the MCP key have overlapped, or one has failed
  failures

vars == <<row, id, expiry, tokens, mcp, file, req, withdrawn, stranded, disturbed,
          failures>>

Statuses == {"unissued", "active", "revoked", "deleted"}
Places == {"idle", "commit", "touch", "serve", "error", "open", "write", "unlink"}
Operations == {"none", "call", "token", "revoke", "delete", "rotate", "clear"}

(* cred is what the request is about, old the key that a change of the MCP *)
(* key revokes, id the row it has loaded, 0 for none, late whether cred    *)
(* was withdrawn before the call began.                                    *)
Request == [at : Places, op : Operations, cred : Creds \cup {None},
            old : Keys \cup {None}, id : Nat, late : BOOLEAN]

Idle == [at |-> "idle", op |-> "none", cred |-> None, old |-> None, id |-> 0,
         late |-> FALSE]

Init ==
  /\ row = [c \in Creds |-> "unissued"]
  /\ id = [c \in Creds |-> 0]
  /\ expiry = [k \in Keys |-> "none"]
  /\ tokens = {} /\ mcp = {}
  /\ withdrawn = [c \in Creds |-> "no"]
  /\ file = None
  /\ req = [w \in Workers |-> Idle]
  /\ stranded = FALSE /\ disturbed = FALSE
  /\ failures = 0

Stored(c) == row[c] \in {"active", "revoked"}

Goto(w, place) == req' = [req EXCEPT ![w].at = place]

End(w) == req' = [req EXCEPT ![w] = Idle]

Begin(w, place, op, c, old) ==
  /\ req[w] = Idle
  /\ req' = [req EXCEPT ![w] = [at |-> place, op |-> op, cred |-> c, old |-> old,
                                id |-> IF c \in Creds THEN id[c]
                                       ELSE IF old \in Keys THEN id[old] ELSE 0,
                                late |-> c \in Creds /\ withdrawn[c] # "no"]]

Table(c) == IF c \in Clients THEN Clients ELSE Keys

(* The row that the UPDATE or DELETE of a request finds: none, its own, or *)
(* a newer one of the same table that got the id.                          *)
Hit(w) == {c \in Table(req[w].cred) : Stored(c) /\ id[c] = req[w].id}

Struck(w) ==
  [c \in Creds |-> IF c \in Hit(w) \ {req[w].cred, req[w].old} /\ withdrawn[c] = "no"
                   THEN "struck" ELSE withdrawn[c]]

(* No AUTOINCREMENT: one more than the highest id in the table. *)
NextIds(table) ==
  LET rows == {c \in table : Stored(c)}
  IN {i \in {1} \cup {id[c] + 1 : c \in rows} : \A c \in rows : id[c] < i}

mcpVars == <<mcp, file, stranded, disturbed>>

(* A new secret; the bound is not in the code. *)
Drawn(c) ==
  /\ row[c] = "unissued"
  /\ Cardinality({x \in Creds : row[x] # "unissued"}) < MaxIssued

-----------------------------------------------------------------------------
(* Issuing: new rows, which nothing read before can contradict. *)

CreateKey(k, e) ==
  /\ Drawn(k)
  /\ row' = [row EXCEPT ![k] = "active"]
  /\ \E i \in NextIds(Keys) : id' = [id EXCEPT ![k] = i]
  /\ expiry' = [expiry EXCEPT ![k] = e]
  /\ UNCHANGED <<tokens, mcpVars, req, withdrawn, failures>>

CreateClient(c) ==
  /\ Drawn(c)
  /\ row' = [row EXCEPT ![c] = "active"]
  /\ \E i \in NextIds(Clients) : id' = [id EXCEPT ![c] = i]
  /\ UNCHANGED <<expiry, tokens, mcpVars, req, withdrawn, failures>>

(* The token endpoint: the client is checked, and the token answered after *)
(* the commit that notes its use.                                          *)
BeginToken(w, c) ==
  /\ row[c] = "active"
  /\ Begin(w, "touch", "token", c, None)
  /\ UNCHANGED <<row, id, expiry, tokens, mcpVars, withdrawn, failures>>

IssueToken(w) ==
  /\ req[w].at = "touch" /\ req[w].op = "token" /\ Hit(w) # {}
  /\ tokens' = tokens \cup {req[w].cred}
  /\ End(w)
  /\ UNCHANGED <<row, id, expiry, mcpVars, withdrawn, failures>>

TokenExpires(c) ==
  /\ c \in tokens
  /\ tokens' = tokens \ {c}
  /\ UNCHANGED <<row, id, expiry, mcpVars, req, withdrawn, failures>>

KeyExpires(k) ==
  /\ expiry[k] = "ahead"
  /\ expiry' = [expiry EXCEPT ![k] = "passed"]
  /\ UNCHANGED <<row, id, tokens, mcpVars, req, withdrawn, failures>>

-----------------------------------------------------------------------------
(* Calls.  Only what gets past the checks is a step; a 401 changes nothing. *)

(* _validate_api_key.  SQLite gives expires_at back without a time zone,   *)
(* and comparing it with the aware clock raises, so a key that has one     *)
(* never passes: the request ends in an error.                             *)
PresentKey(w, k) ==
  /\ row[k] = "active"
  /\ Begin(w, IF expiry[k] = "none" THEN "touch" ELSE "error", "call", k, None)
  /\ UNCHANGED <<row, id, expiry, tokens, mcpVars, withdrawn, failures>>

(* _validate_jwt: signature and lifetime, then the row of the client. *)
PresentToken(w, c) ==
  /\ c \in tokens /\ row[c] = "active"
  /\ Begin(w, "touch", "call", c, None)
  /\ UNCHANGED <<row, id, expiry, tokens, mcpVars, withdrawn, failures>>

(* Broken on purpose: the whole row that was checked is written back. *)
TouchWholeRow(w) ==
  /\ req[w].at = "touch" /\ req[w].op = "call" /\ Hit(w) # {}
  /\ row' = [c \in Creds |-> IF c \in Hit(w) THEN "active" ELSE row[c]]
  /\ Goto(w, "serve")
  /\ UNCHANGED <<id, expiry, tokens, mcpVars, withdrawn, failures>>

(* The commit of last_used_at and last_used_ip; then the endpoint runs. *)
Touch(w) ==
  /\ req[w].at = "touch" /\ req[w].op = "call" /\ Hit(w) # {}
  /\ Goto(w, "serve")
  /\ UNCHANGED <<row, id, expiry, tokens, mcpVars, withdrawn, failures>>

Answer(w) ==
  /\ req[w].at \in {"serve", "error"}
  /\ End(w)
  /\ UNCHANGED <<row, id, expiry, tokens, mcpVars, withdrawn, failures>>

-----------------------------------------------------------------------------
(* Revoking and deleting, a key or a client, over the API.  The pages do   *)
(* the same, but not to the key that is in the file.                       *)

LoadRevoke(w, c) ==
  /\ row[c] = "active"
  /\ Begin(w, "commit", "revoke", c, None)
  /\ UNCHANGED <<row, id, expiry, tokens, mcpVars, withdrawn, failures>>

LoadDelete(w, c) ==
  /\ Stored(c)
  /\ Begin(w, "commit", "delete", c, None)
  /\ UNCHANGED <<row, id, expiry, tokens, mcpVars, withdrawn, failures>>

CommitRevoke(w) ==
  /\ req[w].at = "commit" /\ req[w].op = "revoke" /\ Hit(w) # {}
  /\ row' = [c \in Creds |-> IF c \in Hit(w) THEN "revoked" ELSE row[c]]
  /\ withdrawn' = [Struck(w) EXCEPT ![req[w].cred] = "pulled"]
  /\ End(w)
  /\ UNCHANGED <<id, expiry, tokens, mcpVars, failures>>

(* Deleting a row that is already gone succeeds. *)
CommitDelete(w) ==
  /\ req[w].at = "commit" /\ req[w].op = "delete"
  /\ row' = [c \in Creds |-> IF c \in Hit(w) THEN "deleted" ELSE row[c]]
  /\ id' = [c \in Creds |-> IF c \in Hit(w) THEN 0 ELSE id[c]]
  /\ expiry' = [k \in Keys |-> IF k \in Hit(w) THEN "none" ELSE expiry[k]]
  /\ withdrawn' = [Struck(w) EXCEPT ![req[w].cred] = "pulled"]
  /\ End(w)
  /\ mcp' = mcp \ Hit(w)
  /\ UNCHANGED <<tokens, file, stranded, disturbed, failures>>

-----------------------------------------------------------------------------
(* The key of the MCP server: rotate and clear. *)

Changing == {w \in Workers : req[w].op \in {"rotate", "clear"}}

(* Whom a change revokes: the key in the file if its row was active then. *)
Previous == IF file \in Keys /\ row[file] = "active" THEN file ELSE None

Replaced(old) ==
  withdrawn' = [c \in Creds |-> IF c = old /\ withdrawn[c] # "pulled" THEN "replaced"
                                ELSE withdrawn[c]]

BeginRotate(w) ==
  /\ Begin(w, "commit", "rotate", None, Previous)
  /\ disturbed' = (disturbed \/ Changing # {})
  /\ UNCHANGED <<row, id, expiry, tokens, mcp, file, stranded, withdrawn, failures>>

(* The row of the previous key is there to be updated, or there is none. *)
PreviousUpdated(w) == req[w].old # None => Hit(w) # {}

(* Broken on purpose: the key drawn for the row is not the one to write. *)
CommitRotateForgetful(w, k) ==
  /\ req[w].at = "commit" /\ req[w].op = "rotate"
  /\ Drawn(k) /\ PreviousUpdated(w)
  /\ row' = [c \in Creds |-> IF c = k THEN "active"
                             ELSE IF c \in Hit(w) THEN "revoked" ELSE row[c]]
  /\ \E i \in NextIds(Keys) : id' = [id EXCEPT ![k] = i]
  /\ withdrawn' = Struck(w)
  /\ mcp' = mcp \cup {k}
  /\ Goto(w, "open")
  /\ UNCHANGED <<expiry, tokens, file, stranded, disturbed, failures>>

(* Broken on purpose: the previous key is left active. *)
CommitRotateKeepingOld(w, k) ==
  /\ req[w].at = "commit" /\ req[w].op = "rotate"
  /\ Drawn(k) /\ PreviousUpdated(w)
  /\ row' = [row EXCEPT ![k] = "active"]
  /\ \E i \in NextIds(Keys) : id' = [id EXCEPT ![k] = i]
  /\ mcp' = mcp \cup {k}
  /\ req' = [req EXCEPT ![w].at = "open", ![w].cred = k]
  /\ UNCHANGED <<expiry, tokens, file, stranded, disturbed, withdrawn, failures>>

CommitRotate(w, k) ==
  /\ req[w].at = "commit" /\ req[w].op = "rotate"
  /\ Drawn(k) /\ PreviousUpdated(w)
  /\ row' = [c \in Creds |-> IF c = k THEN "active"
                             ELSE IF c \in Hit(w) THEN "revoked" ELSE row[c]]
  /\ \E i \in NextIds(Keys) : id' = [id EXCEPT ![k] = i]
  /\ withdrawn' = Struck(w)
  /\ mcp' = mcp \cup {k}
  /\ req' = [req EXCEPT ![w].at = "open", ![w].cred = k]
  /\ UNCHANGED <<expiry, tokens, file, stranded, disturbed, failures>>

(* path.write_text: the file is truncated, and then written. *)
OpenFile(w) ==
  /\ req[w].at = "open"
  /\ file' = None
  /\ Goto(w, "write")
  /\ UNCHANGED <<row, id, expiry, tokens, mcp, stranded, disturbed, withdrawn, failures>>

(* All keys have one length: a later write replaces an earlier one. *)
WriteFile(w) ==
  /\ req[w].at = "write"
  /\ file' = req[w].cred
  /\ stranded' = FALSE
  /\ Replaced(req[w].old)
  /\ End(w)
  /\ UNCHANGED <<row, id, expiry, tokens, mcp, disturbed, failures>>

(* Without a key in the file there is nothing to clear; a key that is      *)
(* already revoked leaves nothing to commit.                               *)
BeginClear(w) ==
  /\ file # None
  /\ Begin(w, IF Previous = None THEN "unlink" ELSE "commit", "clear", None, Previous)
  /\ disturbed' = (disturbed \/ Changing # {})
  /\ UNCHANGED <<row, id, expiry, tokens, mcp, file, stranded, withdrawn, failures>>

CommitClear(w) ==
  /\ req[w].at = "commit" /\ req[w].op = "clear" /\ Hit(w) # {}
  /\ row' = [c \in Creds |-> IF c \in Hit(w) THEN "revoked" ELSE row[c]]
  /\ withdrawn' = Struck(w)
  /\ Goto(w, "unlink")
  /\ UNCHANGED <<id, expiry, tokens, mcpVars, failures>>

(* Broken on purpose: the file stays. *)
UnlinkSkipped(w) ==
  /\ req[w].at = "unlink"
  /\ Replaced(req[w].old)
  /\ End(w)
  /\ UNCHANGED <<row, id, expiry, tokens, mcpVars, failures>>

Unlink(w) ==
  /\ req[w].at = "unlink"
  /\ file' = None
  /\ stranded' = FALSE
  /\ Replaced(req[w].old)
  /\ End(w)
  /\ UNCHANGED <<row, id, expiry, tokens, mcp, disturbed, failures>>

-----------------------------------------------------------------------------
Committed(w) == req[w].at \in {"open", "write", "unlink"}

(* The UPDATE that finds no row with the id raises: nothing is written. *)
RowGone(w) ==
  /\ \/ req[w].at = "touch"
     \/ req[w].at = "commit" /\ req[w].op = "revoke"
     \/ req[w].at = "commit" /\ req[w].op \in {"rotate", "clear"} /\ req[w].old # None
  /\ Hit(w) = {}
  /\ End(w)
  /\ UNCHANGED <<row, id, expiry, tokens, mcpVars, withdrawn, failures>>

(* A lock timeout, a volume that cannot be written. *)
Fail(w) ==
  /\ failures < MaxFailures
  /\ req[w] # Idle
  /\ End(w)
  /\ failures' = failures + 1
  /\ stranded' = (stranded \/ Committed(w))
  /\ disturbed' = (disturbed \/ Committed(w))
  /\ UNCHANGED <<row, id, expiry, tokens, mcp, file, withdrawn>>

(* The process dies and starts again, with the file as it is. *)
Restart ==
  /\ failures < MaxFailures
  /\ \E w \in Workers : req[w] # Idle
  /\ req' = [w \in Workers |-> Idle]
  /\ failures' = failures + 1
  /\ stranded' = (stranded \/ \E w \in Workers : Committed(w))
  /\ disturbed' = (disturbed \/ \E w \in Workers : Committed(w))
  /\ UNCHANGED <<row, id, expiry, tokens, mcp, file, withdrawn>>

Calls(w) ==
  \/ \E k \in Keys : PresentKey(w, k)
  \/ \E c \in Clients : PresentToken(w, c) \/ BeginToken(w, c)
  \/ IssueToken(w) \/ Touch(w) \/ Answer(w)

Withdrawals(w) ==
  \/ \E c \in Creds : LoadRevoke(w, c) \/ LoadDelete(w, c)
  \/ CommitRevoke(w) \/ CommitDelete(w)

McpKey(w) ==
  \/ BeginRotate(w) \/ BeginClear(w)
  \/ \E k \in Keys : CommitRotate(w, k)
  \/ OpenFile(w) \/ WriteFile(w) \/ CommitClear(w) \/ Unlink(w)

Issuing ==
  \/ \E k \in Keys : KeyExpires(k) \/ \E e \in {"none", "ahead"} : CreateKey(k, e)
  \/ \E c \in Clients : CreateClient(c) \/ TokenExpires(c)

Next ==
  \/ Issuing
  \/ \E w \in Workers : Calls(w) \/ Withdrawals(w) \/ McpKey(w)
                      \/ RowGone(w) \/ Fail(w)
  \/ Restart

Spec == Init /\ [][Next]_vars

-----------------------------------------------------------------------------
TypeOK ==
  /\ row \in [Creds -> Statuses]
  /\ id \in [Creds -> Nat]
  /\ expiry \in [Keys -> {"none", "ahead", "passed"}]
  /\ tokens \in SUBSET Clients
  /\ mcp \in SUBSET Keys
  /\ file \in Keys \cup {None}
  /\ req \in [Workers -> Request]
  /\ \A w \in Workers : req[w].at \in {"open", "write"} => req[w].cred \in Keys
  /\ withdrawn \in [Creds -> {"no", "replaced", "pulled", "struck"}]
  /\ stranded \in BOOLEAN /\ disturbed \in BOOLEAN
  /\ failures \in 0..MaxFailures

(* "Rotating ... revokes the previous one, so an old token stops working": *)
(* no call is served whose key, or whose client, had been withdrawn before *)
(* the call began, although every call also writes to the row it checked,  *)
(* and a token outlives the revocation of its client.                      *)
NoCallAfterWithdrawal ==
  \A w \in Workers : req[w].at = "serve" => ~req[w].late

(* The MCP server can always work: when no change of its key is running,   *)
(* the key in the file is active, unless it was withdrawn on the pages or  *)
(* over the API, or a revocation or deletion of another key, loaded before *)
(* the id of its row came to this one, has struck it, or the last change   *)
(* was cut off between commit and file.  However many rotations overlap.   *)
FileKeyWorks ==
  (Changing = {} /\ ~stranded /\ file # None) =>
    row[file] = "active" \/ withdrawn[file] \in {"pulled", "struck"}

(* A rotation or a clearing leaves no key of the MCP server active but the *)
(* one in the file, as long as they neither overlapped nor failed.         *)
OldMcpKeysStop ==
  (Changing = {} /\ ~disturbed) =>
    \A k \in mcp : row[k] = "active" => k = file

Standing ==
  [c \in Creds |-> CASE row[c] = "unissued" -> "unissued"
                     [] row[c] = "active" -> "good"
                     [] OTHER -> "over"]
Announced == {c \in Creds : withdrawn[c] \in {"replaced", "pulled"}}
InCall == [w \in Workers |-> IF req[w].op = "call" THEN req[w].cred ELSE None]

Promise == INSTANCE CredentialPromise WITH
  standing <- Standing, announced <- Announced, calls <- InCall

(* What the tables and the answers say of credentials is the promise, step *)
(* by step: of the requests that overlap, none revives a credential that   *)
(* another has withdrawn, announces a withdrawal too early, or separates   *)
(* the new key of a rotation from the revocation of the old one.           *)
HonoursPromise == Promise!PromiseSpec

(* "Optional expiration": an active key whose expiry is still ahead is let *)
(* in, and not turned away with an error.                                  *)
ExpiryIsHonoured ==
  \A w \in Workers : req[w].at = "error" =>
    ~(row[req[w].cred] = "active" /\ expiry[req[w].cred] = "ahead")
=============================================================================
