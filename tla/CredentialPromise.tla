-------------------------- MODULE CredentialPromise --------------------------
(***************************************************************************)
(* What the holders of API credentials and the administrators who issue    *)
(* them are promised (app/services/auth.py, app/services/mcp_token.py,     *)
(* docs/SECURITY.md): a credential is issued once and withdrawn for good;  *)
(* an answer says that it is withdrawn only when it is; a call begins only *)
(* with a good credential; and when a key replaces another, it is good     *)
(* from the very step on at which the other one is over.                   *)
(***************************************************************************)
CONSTANTS Creds, Workers, None

VARIABLES
  standing,   \* of each credential: "unissued", "good" or "over"
  announced,  \* credentials that some answer said are withdrawn
  calls       \* the credential of the call that each worker handles, or None

promiseVars == <<standing, announced, calls>>

PromiseInit ==
  /\ standing = [c \in Creds |-> "unissued"]
  /\ announced = {}
  /\ calls = [w \in Workers |-> None]

Issue(c) ==
  /\ standing[c] = "unissued"
  /\ standing' = [standing EXCEPT ![c] = "good"]
  /\ UNCHANGED <<announced, calls>>

Replace(old, new) ==
  /\ standing[new] = "unissued" /\ standing[old] # "unissued"
  /\ standing' = [standing EXCEPT ![new] = "good", ![old] = "over"]
  /\ UNCHANGED <<announced, calls>>

(* Withdrawing and saying so may be two steps, in this order. *)
Withdraw(c) ==
  /\ standing[c] # "unissued"
  /\ standing' = [standing EXCEPT ![c] = "over"]
  /\ \E said \in SUBSET {x \in Creds : standing'[x] = "over"} :
       announced' = announced \cup said
  /\ UNCHANGED calls

Call(w, c) ==
  /\ calls[w] = None /\ standing[c] = "good"
  /\ calls' = [calls EXCEPT ![w] = c]
  /\ UNCHANGED <<standing, announced>>

(* Calls end, all at once when the process does. *)
Finish(ended) ==
  /\ calls' = [w \in Workers |-> IF w \in ended THEN None ELSE calls[w]]
  /\ UNCHANGED <<standing, announced>>

PromiseNext ==
  \/ \E c \in Creds : Issue(c) \/ Withdraw(c)
  \/ \E old, new \in Creds : Replace(old, new)
  \/ \E w \in Workers, c \in Creds : Call(w, c)
  \/ \E ended \in SUBSET Workers : Finish(ended)

PromiseSpec == PromiseInit /\ [][PromiseNext]_promiseVars
=============================================================================
