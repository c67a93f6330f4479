---------------------------- MODULE GatewayProofs ----------------------------
(***************************************************************************)
(* Theorems of GatewayTokens, for any number of tokens, requests, failures *)
(* and restarts: what holds through all of them, and what holds again from *)
(* the first request on that ran alone.                                    *)
(***************************************************************************)
EXTENDS GatewayTokens, TLAPS

(* What is listed, or about to be, has been stored. *)
ListedStored ==
  /\ \A t \in Accepted : rows[t] # "unissued"
  /\ \A w \in Workers : \A t \in req[w].payload : rows[t] # "unissued"
  /\ \A w \in Workers : req[w].at # "idle" => req[w].token \in Tokens

OverlapInv == TypeOK /\ ListedStored

LEMMA OverwrittenFile ==
  ASSUME NEW old \in (SUBSET Tokens) \cup {Torn}, NEW new \in SUBSET Tokens,
         NEW f \in Overwritten(old, new)
  PROVE  f \in {new, Torn}
BY DEF Overwritten

LEMMA OverlapInit == Init => OverlapInv
BY FailuresAssumption
   DEF Init, OverlapInv, TypeOK, ListedStored, Idle, Request, Statuses, Places,
       Operations, Accepted

(* A step that leaves the file alone and forgets no stored token. *)
LEMMA RequestStep ==
  ASSUME OverlapInv, UNCHANGED file,
         rows' \in [Tokens -> Statuses], req' \in [Workers -> Request],
         withdrawn' \in SUBSET Tokens, failures' \in 0..MaxFailures,
         disturbed' \in {"no", "healing", "yes"},
         \A t \in Tokens : rows[t] # "unissued" => rows'[t] # "unissued",
         \A w \in Workers : \A t \in req'[w].payload : rows'[t] # "unissued",
         \A w \in Workers : req'[w].at # "idle" => req'[w].token \in Tokens
  PROVE  OverlapInv'
<1>1. Accepted' = Accepted /\ Accepted \in SUBSET Tokens
  BY DEF Accepted, OverlapInv, TypeOK
<1>2. TypeOK'
  BY DEF OverlapInv, TypeOK
<1> QED
  BY <1>1, <1>2 DEF OverlapInv, ListedStored

LEMMA OverlapNext == OverlapInv /\ [Next]_vars => OverlapInv'
<1> SUFFICES ASSUME OverlapInv, [Next]_vars PROVE OverlapInv'
  OBVIOUS
<1>1. Idle \in Request /\ Idle.payload = {} /\ Idle.at = "idle"
  BY DEF Idle, Request, Places, Operations
<1>2. \A w \in Workers : \A t \in req[w].payload : t \in Tokens
  BY DEF OverlapInv, TypeOK, Request
<1>0. disturbed' \in {"no", "healing", "yes"}
  BY DEF Next, Generate, LoadRevoke, LoadDelete, Load, RevokeAgain, Start, Commit,
         RowGone, Sync, Query, Open, Write, Fail, Restart, vars, OverlapInv, TypeOK
<1>3. ASSUME NEW w \in Workers, NEW t \in Tokens, Generate(w, t)
      PROVE  OverlapInv'
  <2>1. rows' \in [Tokens -> Statuses] /\ req' \in [Workers -> Request]
    BY <1>3 DEF Generate, OverlapInv, TypeOK, Statuses, Request, Places, Operations
  <2> QED
    BY <1>0, <1>2, <1>3, <2>1, RequestStep DEF Generate, OverlapInv, TypeOK, ListedStored
<1>4. ASSUME NEW w \in Workers, NEW t \in Tokens, NEW op \in Operations,
             Load(w, op, t)
      PROVE  OverlapInv'
  <2>1. req' \in [Workers -> Request]
    BY <1>4 DEF Load, OverlapInv, TypeOK, Request, Places
  <2> QED
    BY <1>0, <1>2, <1>4, <2>1, RequestStep DEF Load, OverlapInv, TypeOK, ListedStored
<1>5. ASSUME NEW w \in Workers, NEW t \in Tokens, RevokeAgain(w, t)
      PROVE  OverlapInv'
  BY <1>0, <1>2, <1>5, RequestStep DEF RevokeAgain, OverlapInv, TypeOK, ListedStored
<1>6. ASSUME NEW w \in Workers, Commit(w) PROVE OverlapInv'
  <2>1. rows' \in [Tokens -> Statuses] /\ req' \in [Workers -> Request]
    BY <1>6 DEF Commit, OverlapInv, TypeOK, Statuses, Request, Places
  <2>2. \A v \in Workers : req'[v].payload = req[v].payload
                           /\ req'[v].token = req[v].token
                           /\ (req'[v].at # "idle" => req[v].at # "idle")
    BY <1>6 DEF Commit, OverlapInv, TypeOK, Request
  <2>3. \A t \in Tokens : rows[t] # "unissued" => rows'[t] # "unissued"
    BY <1>6 DEF Commit, OverlapInv, TypeOK
  <2>4. UNCHANGED <<file, withdrawn, failures>>
    BY <1>6 DEF Commit
  <2> QED
    BY <1>0, <1>2, <2>1, <2>2, <2>3, <2>4, RequestStep
       DEF OverlapInv, TypeOK, ListedStored
<1>7. ASSUME NEW w \in Workers, RowGone(w) \/ Fail(w) PROVE OverlapInv'
  <2>1. req' \in [Workers -> Request] /\ UNCHANGED <<rows, file, withdrawn>>
    BY <1>1, <1>7 DEF RowGone, Fail, OverlapInv, TypeOK
  <2>2. failures' \in 0..MaxFailures
    BY <1>7, FailuresAssumption DEF RowGone, Fail, OverlapInv, TypeOK
  <2>3. \A v \in Workers : req'[v] = req[v] \/ req'[v] = Idle
    BY <1>7 DEF RowGone, Fail, OverlapInv, TypeOK
  <2> QED
    BY <1>0, <1>1, <1>2, <2>1, <2>2, <2>3, RequestStep DEF OverlapInv, TypeOK, ListedStored
<1>8. ASSUME NEW w \in Workers, Query(w) PROVE OverlapInv'
  <2>1. Active \in SUBSET Tokens /\ \A t \in Active : rows[t] # "unissued"
    BY DEF Active
  <2>2. req' \in [Workers -> Request]
    BY <1>8, <2>1 DEF Query, OverlapInv, TypeOK, Request, Places
  <2>3. \A v \in Workers :
          /\ req'[v].payload = req[v].payload \/ req'[v].payload = Active
          /\ req'[v].token = req[v].token
          /\ req'[v].at # "idle" => req[v].at # "idle"
    BY <1>8 DEF Query, OverlapInv, TypeOK, Request
  <2> QED
    BY <1>0, <1>2, <1>8, <2>1, <2>2, <2>3, RequestStep
       DEF Query, OverlapInv, TypeOK, ListedStored
<1>9. ASSUME NEW w \in Workers, Open(w) PROVE OverlapInv'
  <2>1. req' \in [Workers -> Request] /\ file' = {} /\ UNCHANGED <<rows, withdrawn, failures>>
    BY <1>9 DEF Open, OverlapInv, TypeOK, Request, Places
  <2>2. \A v \in Workers : req'[v].payload = req[v].payload
                           /\ req'[v].token = req[v].token
                           /\ (req'[v].at # "idle" => req[v].at # "idle")
    BY <1>9 DEF Open, OverlapInv, TypeOK, Request
  <2>3. Accepted' = {}
    BY <2>1 DEF Accepted
  <2> QED
    BY <1>0, <2>1, <2>2, <2>3 DEF OverlapInv, TypeOK, ListedStored
<1>10. ASSUME NEW w \in Workers, Write(w) PROVE OverlapInv'
  <2>1. req[w].payload \in SUBSET Tokens /\ req[w].token \in Tokens
    BY <1>0, <1>2, <1>10 DEF Write, OverlapInv, ListedStored
  <2>2. file' \in {req[w].payload, Torn}
    BY <1>10, <2>1, OverwrittenFile DEF Write, OverlapInv, TypeOK
  <2>3. /\ req' \in [Workers -> Request] /\ withdrawn' \in SUBSET Tokens
        /\ UNCHANGED <<rows, failures>>
    BY <1>1, <1>10, <2>1 DEF Write, OverlapInv, TypeOK
  <2>4. \A v \in Workers : req'[v] = req[v] \/ req'[v] = Idle
    BY <1>10 DEF Write, OverlapInv, TypeOK
  <2>5. \A t \in Accepted' : rows'[t] # "unissued"
    BY <2>2, <2>3 DEF Accepted, OverlapInv, ListedStored
  <2>6. TypeOK'
    BY <1>0, <2>1, <2>2, <2>3 DEF TypeOK, OverlapInv
  <2> QED
    BY <1>1, <2>3, <2>4, <2>5, <2>6 DEF OverlapInv, ListedStored
<1>11. CASE Restart
  <2>1. req' \in [Workers -> Request] /\ UNCHANGED <<rows, file, withdrawn>>
    BY <1>1, <1>11 DEF Restart
  <2>2. failures' \in 0..MaxFailures
    BY <1>11, FailuresAssumption DEF Restart, OverlapInv, TypeOK
  <2>3. \A v \in Workers : req'[v] = Idle
    BY <1>11 DEF Restart
  <2> QED
    BY <1>0, <1>1, <2>1, <2>2, <2>3, RequestStep DEF OverlapInv, TypeOK, ListedStored
<1>12. CASE UNCHANGED vars
  BY <1>12 DEF vars, OverlapInv, TypeOK, ListedStored, Accepted
<1> QED
  BY <1>3, <1>4, <1>5, <1>6, <1>7, <1>8, <1>9, <1>10, <1>11, <1>12
     DEF Next, Sync, LoadRevoke, LoadDelete, Operations

(* The file never lets in a secret whose row was not committed, through    *)
(* any number of overlapping requests, failures and restarts.              *)
THEOREM OnlyStoredAccepted == Spec => []AcceptedOnRecord
<1>1. OverlapInv => AcceptedOnRecord
  BY DEF OverlapInv, ListedStored, AcceptedOnRecord
<1> QED
  BY <1>1, OverlapInit, OverlapNext, PTL DEF Spec

(* Rows, file and requests stay well formed. *)
THEOREM GatewayTypes == Spec => []TypeOK
<1>1. OverlapInv => TypeOK
  BY DEF OverlapInv
<1> QED
  BY <1>1, OverlapInit, OverlapNext, PTL DEF Spec
-----------------------------------------------------------------------------
(* What no disturbance can break: no withdrawn token becomes active again. *)
Lasting ==
  /\ \A t \in withdrawn : rows[t] \in {"revoked", "deleted"}
  /\ \A w \in Workers :
       /\ req[w].at = "idle" => req[w] = Idle
       /\ req[w].at \in {"query", "open", "write"} /\ req[w].op # "generate"
            => rows[req[w].token] \in {"revoked", "deleted"}

(* The file is the table until a request has committed, is emptied, and    *)
(* then becomes the table again; it holds nothing withdrawn in between.    *)
Current ==
  /\ file # Torn /\ withdrawn \cap file = {}
  /\ (\A w \in Workers : req[w].at \in {"idle", "commit"}) => file = Active
  /\ \A w \in Workers :
       /\ req[w].at \in {"open", "write"} => req[w].payload = Active
       /\ req[w].at = "write" => file = {}

(* Undisturbed requests come one at a time, and one that has queried alone *)
(* is about to write the table into the file, whatever the file was.       *)
Orderly ==
  /\ disturbed # "yes" =>
       \A v, w \in Workers : req[v] # Idle /\ req[w] # Idle => v = w
  /\ disturbed = "healing" =>
       \E w \in Workers : req[w].at = "open" /\ req[w].payload = Active
  /\ disturbed = "no" => Current

LEMMA TornListsNothing == Torn \notin SUBSET Tokens
BY NoneAssumption DEF Torn

LEMMA OrderInit == Init => Lasting /\ Orderly
<1> SUFFICES ASSUME Init PROVE Lasting /\ Orderly
  OBVIOUS
<1>1. Active = {} /\ file = {} /\ withdrawn = {} /\ file # Torn /\ disturbed = "no"
  BY DEF Init, Active, Torn
<1>2. \A w \in Workers : req[w] = Idle /\ req[w].at = "idle"
  BY DEF Init, Idle
<1> QED
  BY <1>1, <1>2 DEF Lasting, Orderly, Current

(* Nothing is known of a disturbed file. *)
LEMMA LastingNext ==
  ASSUME OverlapInv, Lasting, [Next]_vars
  PROVE  Lasting'
<1>1. Idle.at = "idle"
  BY DEF Idle
<1>2. ASSUME NEW w \in Workers, NEW r, req' = [req EXCEPT ![w] = r], UNCHANGED rows,
             r.at = "idle" => r = Idle,
             r.at \in {"query", "open", "write"} /\ r.op # "generate" =>
               rows[r.token] \in {"revoked", "deleted"},
             \A t \in withdrawn' : rows[t] \in {"revoked", "deleted"}
      PROVE  Lasting'
  <2>1. \A v \in Workers : req'[v] = IF v = w THEN r ELSE req[v]
    BY <1>2 DEF OverlapInv, TypeOK
  <2> QED
    BY <1>2, <2>1 DEF Lasting
<1>3. ASSUME NEW w \in Workers, NEW t \in Tokens, Generate(w, t) PROVE Lasting'
  <2>1. \A u \in Tokens : rows[u] \in {"revoked", "deleted"} => rows'[u] = rows[u]
    BY <1>3 DEF Generate, OverlapInv, TypeOK
  <2>2. \A v \in Workers : /\ v # w => req'[v] = req[v]
                           /\ v = w => req'[v].at = "query" /\ req'[v].op = "generate"
    BY <1>3 DEF Generate, OverlapInv, TypeOK
  <2>3. \A v \in Workers : req[v].at # "idle" => req[v].token \in Tokens
    BY DEF OverlapInv, ListedStored
  <2> QED
    BY <1>3, <2>1, <2>2, <2>3 DEF Generate, Lasting, OverlapInv, TypeOK
<1>4. ASSUME NEW w \in Workers, NEW t \in Tokens, NEW op, Load(w, op, t) PROVE Lasting'
  <2> DEFINE r == [at |-> "commit", op |-> op, token |-> t, payload |-> {}]
  <2>1. r.at = "commit" /\ req' = [req EXCEPT ![w] = r] /\ UNCHANGED <<rows, withdrawn>>
    BY <1>4 DEF Load
  <2> HIDE DEF r
  <2> QED
    BY <1>2, <2>1 DEF Lasting
<1>5. ASSUME NEW w \in Workers, NEW t \in Tokens, RevokeAgain(w, t) PROVE Lasting'
  BY <1>5 DEF RevokeAgain, Lasting
<1>6. ASSUME NEW w \in Workers, Commit(w) PROVE Lasting'
  <2>1. req[w].token \in Tokens
    BY <1>6 DEF Commit, OverlapInv, ListedStored
  <2>2. /\ rows'[req[w].token] \in {"revoked", "deleted"}
        /\ \A u \in Tokens : u # req[w].token => rows'[u] = rows[u]
    BY <1>6, <2>1 DEF Commit, OverlapInv, TypeOK
  <2>3. \A v \in Workers : /\ v # w => req'[v] = req[v]
                           /\ v = w => /\ req'[v].at = "query"
                                       /\ req'[v].token = req[v].token
    BY <1>6 DEF Commit, OverlapInv, TypeOK, Request
  <2>4. \A v \in Workers : req[v].at # "idle" => req[v].token \in Tokens
    BY DEF OverlapInv, ListedStored
  <2>5. UNCHANGED withdrawn
    BY <1>6 DEF Commit
  <2> QED
    BY <2>2, <2>3, <2>4, <2>5 DEF Lasting, OverlapInv, TypeOK
<1>7. ASSUME NEW w \in Workers, RowGone(w) \/ Fail(w) PROVE Lasting'
  BY <1>1, <1>2, <1>7 DEF RowGone, Fail, Lasting
<1>8. ASSUME NEW w \in Workers, Query(w) \/ Open(w) PROVE Lasting'
  <2>1. \A v \in Workers : /\ v # w => req'[v] = req[v]
                           /\ v = w => /\ req'[v].at \in {"open", "write"}
                                       /\ req'[v].op = req[v].op
                                       /\ req'[v].token = req[v].token
    BY <1>8 DEF Query, Open, OverlapInv, TypeOK, Request
  <2>2. UNCHANGED <<rows, withdrawn>> /\ req[w].at \in {"query", "open"}
    BY <1>8 DEF Query, Open
  <2> QED
    BY <2>1, <2>2 DEF Lasting
<1>9. ASSUME NEW w \in Workers, Write(w) PROVE Lasting'
  <2>1. \A t \in withdrawn' : rows[t] \in {"revoked", "deleted"}
    BY <1>9 DEF Write, Lasting
  <2> QED
    BY <1>1, <1>2, <1>9, <2>1 DEF Write
<1>10. CASE Restart
  BY <1>1, <1>10 DEF Restart, Lasting
<1>11. CASE UNCHANGED vars
  BY <1>11 DEF vars, Lasting
<1> QED
  BY <1>3, <1>4, <1>5, <1>6, <1>7, <1>8, <1>9, <1>10, <1>11
     DEF Next, Sync, LoadRevoke, LoadDelete

(* What an undisturbed step does to what the administrator sees and to     *)
(* what the server accepts.                                                *)
Promised ==
  disturbed = "no" /\ disturbed' = "no" => [Access!AccessNext]_(Access!accessVars)

LEMMA OrderNext ==
  ASSUME OverlapInv, Lasting, Orderly, [Next]_vars
  PROVE  Orderly' /\ Promised
<1> DEFINE Goal == Orderly' /\ Promised
<1>1. /\ Active \in SUBSET Tokens /\ Active' \in SUBSET Tokens
      /\ {} # Torn /\ Active # Torn /\ Active' # Torn
  BY TornListsNothing DEF Active, Torn
<1>2. ASSUME UNCHANGED <<rows, file>> PROVE Active' = Active /\ Accepted' = Accepted
  BY <1>2 DEF Active, Accepted
<1>3. Idle.at = "idle"
  BY DEF Idle
<1>4. ASSUME disturbed' = "yes" PROVE Goal
  BY <1>4 DEF Orderly, Promised
(* At rest and undisturbed, both agree. *)
<1>5. ASSUME NEW w \in Workers, req[w] = Idle, Alone(w), disturbed # "yes"
      PROVE  /\ disturbed = "no" /\ file = Active /\ Accepted = Active
             /\ withdrawn \cap file = {}
  <2>1. \A v \in Workers : req[v] = Idle
    BY <1>5 DEF Alone
  <2>2. disturbed = "no" /\ file = Active /\ withdrawn \cap file = {}
    BY <1>3, <1>5, <2>1 DEF Orderly, Current, OverlapInv, TypeOK
  <2> QED
    BY <1>1, <2>2 DEF Accepted
<1>6. ASSUME NEW w \in Workers, NEW t \in Tokens, Generate(w, t), disturbed' # "yes"
      PROVE  Goal
  <2>1. Alone(w) /\ disturbed' = disturbed /\ disturbed # "yes"
    BY <1>6 DEF Generate, Start
  <2>2. disturbed = "no" /\ file = Active /\ Accepted = Active /\ withdrawn \cap file = {}
    BY <1>5, <1>6, <2>1 DEF Generate
  <2>3. Active' = Active \cup {t} /\ Accepted' = Accepted /\ UNCHANGED <<file, withdrawn>>
    BY <1>6 DEF Generate, Active, Accepted, OverlapInv, TypeOK
  <2>4. /\ req'[w].at = "query" /\ \A v \in Workers : v # w => req'[v] = Idle
    BY <1>6, <2>1 DEF Generate, Alone, OverlapInv, TypeOK
  <2>5. Orderly'
    BY <1>1, <1>3, <2>1, <2>2, <2>3, <2>4 DEF Orderly, Current
  <2> QED
    BY <2>2, <2>3, <2>5 DEF Promised, Access!AccessNext, Access!Change
<1>7. ASSUME NEW w \in Workers, NEW t \in Tokens, NEW op, Load(w, op, t),
             disturbed' # "yes"
      PROVE  Goal
  <2>1. Alone(w) /\ disturbed' = disturbed /\ disturbed # "yes"
    BY <1>7 DEF Load, Start
  <2>2. disturbed = "no" /\ file = Active /\ withdrawn \cap file = {}
    BY <1>5, <1>7, <2>1 DEF Load
  <2>3. Active' = Active /\ Accepted' = Accepted /\ UNCHANGED <<file, withdrawn>>
    BY <1>2, <1>7 DEF Load
  <2>4. req'[w].at = "commit" /\ \A v \in Workers : v # w => req'[v] = Idle
    BY <1>7, <2>1 DEF Load, Alone, OverlapInv, TypeOK
  <2> QED
    BY <1>1, <1>3, <2>1, <2>2, <2>3, <2>4
       DEF Orderly, Current, Promised, Access!accessVars
<1>8. ASSUME NEW w \in Workers, NEW t \in Tokens, RevokeAgain(w, t), disturbed' # "yes"
      PROVE  Goal
  <2>1. Alone(w) /\ disturbed' = disturbed /\ disturbed # "yes"
    BY <1>8 DEF RevokeAgain, Start
  <2>2. disturbed = "no" /\ file = Active /\ withdrawn \cap file = {}
    BY <1>5, <1>8, <2>1 DEF RevokeAgain
  <2>3. /\ Active' = Active /\ Accepted' = Accepted /\ UNCHANGED <<file, req>>
        /\ withdrawn' = withdrawn \cup {t} /\ t \notin Active
    BY <1>2, <1>8 DEF RevokeAgain, Active
  <2> QED
    BY <2>1, <2>2, <2>3 DEF Orderly, Current, Promised, Access!accessVars
(* A step of a request in flight, the only one. *)
<1>9. ASSUME NEW w \in Workers, req[w].at # "idle", disturbed # "yes"
      PROVE  /\ \A v \in Workers : v # w => req[v] = Idle
             /\ disturbed = "healing" => req[w].at = "open" /\ req[w].payload = Active
             /\ disturbed = "no" => Current
  BY <1>3, <1>9 DEF Orderly
<1>10. ASSUME NEW w \in Workers, Commit(w), disturbed' # "yes" PROVE Goal
  <2>1. /\ disturbed' = disturbed /\ req[w].at = "commit" /\ UNCHANGED <<file, withdrawn>>
    BY <1>10 DEF Commit
  <2>2. /\ disturbed = "no" /\ Current
        /\ \A v \in Workers : v # w => req[v] = Idle
    BY <1>9, <1>10, <2>1 DEF OverlapInv, TypeOK
  <2>3. file = Active
    BY <1>3, <2>1, <2>2 DEF Current
  <2>4. Active' = Active \ {req[w].token} /\ Accepted' = Accepted /\ Accepted = Active
    <3>1. req[w].token \in Tokens
      BY <2>1 DEF OverlapInv, ListedStored
    <3> QED
      BY <1>1, <1>10, <2>3, <3>1 DEF Commit, Active, Accepted, OverlapInv, TypeOK
  <2>5. req'[w].at = "query" /\ \A v \in Workers : v # w => req'[v] = Idle
    BY <1>10, <2>2 DEF Commit, OverlapInv, TypeOK, Request
  <2>6. Orderly'
    BY <1>3, <2>1, <2>2, <2>5 DEF Orderly, Current
  <2>7. Access!AccessNext \/ UNCHANGED Access!accessVars
    <3>1. req[w].token \in Tokens
      BY <2>1 DEF OverlapInv, ListedStored
    <3> QED
      BY <2>4, <3>1 DEF Access!AccessNext, Access!Change
  <2> QED
    BY <2>6, <2>7 DEF Promised
<1>11. ASSUME NEW w \in Workers, RowGone(w) \/ Fail(w), disturbed' # "yes" PROVE Goal
  <2>1. /\ disturbed' = disturbed /\ req[w].at = "commit"
        /\ UNCHANGED <<rows, file, withdrawn>> /\ req' = [req EXCEPT ![w] = Idle]
    BY <1>11 DEF RowGone, Fail
  <2>2. /\ disturbed = "no" /\ Current
        /\ \A v \in Workers : v # w => req[v] = Idle
    BY <1>9, <1>11, <2>1 DEF OverlapInv, TypeOK
  <2>3. file = Active
    BY <1>3, <2>1, <2>2 DEF Current
  <2>4. Active' = Active /\ Accepted' = Accepted /\ \A v \in Workers : req'[v] = Idle
    BY <1>2, <2>1, <2>2 DEF OverlapInv, TypeOK
  <2> QED
    BY <1>3, <2>1, <2>2, <2>3, <2>4 DEF Orderly, Current, Promised, Access!accessVars
<1>12. ASSUME NEW w \in Workers, Query(w), disturbed' # "yes" PROVE Goal
  <2>1. /\ req'[w].at = "open" /\ req'[w].payload = Active
        /\ \A v \in Workers : v # w => req'[v] = req[v]
        /\ req[w].at = "query" /\ UNCHANGED <<rows, file, withdrawn>>
    BY <1>12 DEF Query, OverlapInv, TypeOK, Request
  <2>2. Active' = Active /\ Accepted' = Accepted
    BY <1>2, <2>1
  <2>3. \A v \in Workers : v # w => req[v] = Idle
    BY <1>9, <1>12, <2>1 DEF Query, Alone
  <2>4. \/ disturbed = "yes" /\ disturbed' = "healing"
        \/ disturbed = "no" /\ disturbed' = "no" /\ Current
    BY <1>9, <1>12, <2>1 DEF Query, OverlapInv, TypeOK
  <2>5. Orderly'
    BY <1>3, <2>1, <2>2, <2>3, <2>4 DEF Orderly, Current
  <2> QED
    BY <2>2, <2>5 DEF Promised, Access!accessVars
<1>13. ASSUME NEW w \in Workers, Open(w), disturbed' # "yes" PROVE Goal
  <2>1. /\ req'[w].at = "write" /\ req'[w].payload = req[w].payload
        /\ \A v \in Workers : v # w => req'[v] = req[v]
        /\ req[w].at = "open" /\ file' = {} /\ UNCHANGED <<rows, withdrawn>>
    BY <1>13 DEF Open, OverlapInv, TypeOK, Request
  <2>2. Active' = Active /\ Accepted' = {}
    BY <1>1, <2>1 DEF Active, Accepted
  <2>3. disturbed \in {"no", "healing"} /\ disturbed' = "no"
    BY <1>13 DEF Open, OverlapInv, TypeOK
  <2>4. /\ \A v \in Workers : v # w => req[v] = Idle
        /\ req[w].payload = Active
    BY <1>9, <2>1, <2>3 DEF Current
  <2>5. Orderly'
    BY <1>1, <1>3, <2>1, <2>2, <2>3, <2>4 DEF Orderly, Current
  <2> QED
    BY <2>2, <2>5 DEF Promised, Access!AccessNext, Access!Blank
<1>14. ASSUME NEW w \in Workers, Write(w), disturbed' # "yes" PROVE Goal
  <2>1. disturbed' = disturbed /\ req[w].at = "write" /\ UNCHANGED rows
    BY <1>14 DEF Write
  <2>2. /\ disturbed = "no" /\ Current
        /\ \A v \in Workers : v # w => req[v] = Idle
    BY <1>9, <1>14, <2>1 DEF OverlapInv, TypeOK
  <2>3. file' = Active
    BY <1>1, <1>14, <2>1, <2>2 DEF Write, Current, Overwritten
  <2>4. Active' = Active
    BY <2>1 DEF Active
  <2>5. Accepted' = Active
    BY <1>1, <2>3 DEF Accepted
  <2>6. \A v \in Workers : req'[v] = Idle
    BY <1>14, <2>2 DEF Write, OverlapInv, TypeOK
  <2>7. withdrawn' \cap Active = {}
    BY <1>14 DEF Write, Lasting, Active
  <2>8. Orderly'
    BY <1>1, <1>3, <2>1, <2>2, <2>3, <2>4, <2>6, <2>7 DEF Orderly, Current
  <2> QED
    BY <2>4, <2>5, <2>8 DEF Promised, Access!AccessNext, Access!CatchUp
<1>15. ASSUME Restart, disturbed' # "yes" PROVE Goal
  <2>1. /\ disturbed' = disturbed /\ UNCHANGED <<rows, file, withdrawn>>
        /\ \A w \in Workers : req[w].at \in {"idle", "commit"}
        /\ \A w \in Workers : req'[w] = Idle
    BY <1>15 DEF Restart
  <2>2. disturbed = "no" /\ Current
    BY <1>15, <2>1 DEF Orderly, OverlapInv, TypeOK
  <2>3. file = Active
    BY <2>1, <2>2 DEF Current
  <2>4. Active' = Active /\ Accepted' = Accepted
    BY <1>2, <2>1
  <2> QED
    BY <1>3, <2>1, <2>2, <2>3, <2>4 DEF Orderly, Current, Promised, Access!accessVars
<1>16. CASE UNCHANGED vars
  BY <1>2, <1>16 DEF vars, Orderly, Current, Promised, Access!accessVars
<1> QED
  BY <1>4, <1>6, <1>7, <1>8, <1>10, <1>11, <1>12, <1>13, <1>14, <1>15, <1>16
     DEF Next, Sync, LoadRevoke, LoadDelete

OrderInv == OverlapInv /\ Lasting /\ Orderly

LEMMA OrderInvInit == Init => OrderInv
BY OverlapInit, OrderInit DEF OrderInv

LEMMA OrderInvNext == OrderInv /\ [Next]_vars => OrderInv' /\ Promised
BY OverlapNext, LastingNext, OrderNext DEF OrderInv

(* Once a request has run alone, a token whose withdrawal was answered     *)
(* stays out until requests overlap again or one fails after its commit.   *)
THEOREM WithdrawnStaysOut == Spec => []RevokedStops
<1>1. OrderInv => RevokedStops
  BY DEF OrderInv, Orderly, Current, RevokedStops, Accepted
<1> QED
  BY <1>1, OrderInvInit, OrderInvNext, PTL DEF Spec

(* Under the same condition every active token gets in, at rest. *)
THEOREM ActiveGetsIn == Spec => []ActiveWorks
<1>1. OrderInv => ActiveWorks
  BY DEF OrderInv, Orderly, Current, ActiveWorks, Accepted, Idle
<1> QED
  BY <1>1, OrderInvInit, OrderInvNext, PTL DEF Spec

(* Every step between two undisturbed states is one of GatewayAccess, or   *)
(* changes nothing there.                                                  *)
THEOREM UndisturbedStepsKeepPromise == Spec => OrderlyChanges
<1>1. OrderInv /\ [Next]_vars => [Promised]_vars
  BY OrderInvNext
<1> QED
  BY <1>1, OrderInvInit, OrderInvNext, PTL DEF Spec, OrderlyChanges, Promised

Undisturbed == disturbed = "no"

(* A history that nothing disturbs implements GatewayAccess. *)
THEOREM UndisturbedKeepsPromise == Spec /\ []Undisturbed => Access!AccessSpec
<1>1. OrderInv /\ [Next]_vars /\ Undisturbed /\ Undisturbed'
        => [Access!AccessNext]_(Access!accessVars)
  BY OrderInvNext DEF Promised, Undisturbed
<1>2. Init => Access!AccessInit
  BY DEF Init, Access!AccessInit, Active, Accepted, Torn
<1> QED
  BY <1>1, <1>2, OrderInvInit, OrderInvNext, PTL DEF Spec, Access!AccessSpec

(* Nothing is ever disturbed by one administrator at a time for whom       *)
(* nothing fails: such a history implements GatewayAccess.                 *)
THEOREM SerialKeepsPromise ==
  ASSUME \A v, w \in Workers : v = w, MaxFailures = 0
  PROVE  Spec => Access!AccessSpec
<1>1. Init => Undisturbed
  BY DEF Init, Undisturbed
<1>2. OrderInv /\ Undisturbed /\ [Next]_vars => Undisturbed'
  <2>1. ASSUME NEW w \in Workers PROVE Alone(w)
    BY DEF Alone
  <2>2. OrderInv => ~Restart /\ \A w \in Workers : ~Fail(w)
    BY DEF Restart, Fail, OrderInv, OverlapInv, TypeOK
  <2> QED
    BY <2>1, <2>2 DEF Next, Generate, LoadRevoke, LoadDelete, Load, RevokeAgain, Start,
                      Commit, RowGone, Sync, Query, Open, Write, vars, Undisturbed
<1> QED
  BY <1>1, <1>2, OrderInvInit, OrderInvNext, UndisturbedKeepsPromise, PTL DEF Spec
=============================================================================
