--------------------------- MODULE ApiAccessProofs ---------------------------
(***************************************************************************)
(* Theorems of ApiAccess, for any number of keys, clients and overlapping  *)
(* requests, through failures and restarts.                                *)
(***************************************************************************)
EXTENDS ApiAccess, TLAPS

(* Which operation can be where. *)
OpsFit ==
  \A w \in Workers :
    /\ req[w].at \in {"open", "write"} => req[w].op = "rotate"
    /\ req[w].at = "unlink" => req[w].op = "clear"
    /\ req[w].at = "idle" => req[w] = Idle
    /\ req[w].op = "token" => req[w].cred \in Clients
    /\ req[w].op \in {"rotate", "clear"} =>
         req[w].at \in {"commit", "open", "write", "unlink"}

(* What was answered as withdrawn, or is replaced by a change that has     *)
(* committed, is not active, and never will be: keys are issued once.      *)
WithdrawnGone ==
  /\ \A c \in Creds : withdrawn[c] # "no" => row[c] \in {"revoked", "deleted"}
  /\ \A w \in Workers : Committed(w) /\ req[w].old # None =>
       row[req[w].old] \in {"revoked", "deleted"}
  /\ \A k \in mcp : row[k] # "unissued"
  /\ \A w \in Workers : req[w].old # None => row[req[w].old] # "unissued"
  /\ file # None => row[file] # "unissued"

(* What a request that has loaded a row is about. *)
CredsNamed ==
  \A w \in Workers :
    /\ req[w].op \in {"call", "token", "revoke", "delete"} =>
         req[w].cred \in Creds /\ row[req[w].cred] # "unissued" /\ req[w].old = None
    /\ req[w].op \in {"rotate", "clear"} =>
         req[w].cred \notin Clients /\ (req[w].at = "commit" => req[w].cred = None)

(* An id names one row of its table at a time, and as long as the row that *)
(* a request has loaded is there, it has the id it had then.               *)
IdsUnique ==
  \A c, d \in Creds :
    Stored(c) /\ Stored(d) /\ Table(c) = Table(d) /\ id[c] = id[d] => c = d

RowLoaded(w) ==
  /\ (req[w].op \in {"call", "token", "revoke", "delete"} /\ Stored(req[w].cred))
       => req[w].id = id[req[w].cred]
  /\ (req[w].op \in {"rotate", "clear"} /\ req[w].at = "commit"
      /\ req[w].old # None /\ Stored(req[w].old))
       => req[w].id = id[req[w].old]

IdsFit == IdsUnique /\ \A w \in Workers : RowLoaded(w)

CallsFresh ==
  \A w \in Workers : req[w].at \in {"touch", "serve"} => ~req[w].late

Pending(w) == req[w].at \in {"open", "write"}

(* A key on its way to the file: nobody else has it, nobody has read it    *)
(* from the file, and only a request about keys by their ids can have      *)
(* withdrawn it.                                                           *)
PendingFresh ==
  \A w \in Workers : Pending(w) =>
    LET k == req[w].cred
    IN /\ k # file /\ row[k] # "unissued"
       /\ row[k] = "active" \/ withdrawn[k] \in {"pulled", "struck"}
       /\ \A v \in Workers : req[v].old # k /\ (v # w /\ Pending(v) => req[v].cred # k)

(* The key in the file is active unless a change that has committed is     *)
(* about to replace it.                                                    *)
FileGood ==
  file # None =>
    \/ row[file] = "active" \/ withdrawn[file] \in {"pulled", "struck"}
    \/ stranded
    \/ \E w \in Workers : Committed(w) /\ req[w].old = file

(* Without overlap or failure: at most one change, and at each of its      *)
(* places the keys of the MCP server that can still be active.             *)
OnlyInFile == \A k \in mcp : row[k] = "active" => k = file

OneChange ==
  ~disturbed =>
    /\ \A v, w \in Changing : v = w
    /\ Changing = {} => OnlyInFile
    /\ \A w \in Changing :
         /\ req[w].at = "commit" =>
              OnlyInFile /\ (file # None /\ row[file] = "active" => req[w].old = file)
         /\ Pending(w) => \A k \in mcp : row[k] = "active" => k = req[w].cred
         /\ req[w].at = "unlink" => \A k \in mcp : row[k] # "active"

IInv == TypeOK /\ OpsFit /\ CredsNamed /\ IdsFit /\ WithdrawnGone /\ CallsFresh
        /\ PendingFresh /\ FileGood /\ OneChange

-----------------------------------------------------------------------------
LEMMA IdsAreNumbers ==
  ASSUME TypeOK, NEW table \in SUBSET Creds, NEW i \in NextIds(table)
  PROVE  i \in Nat /\ \A c \in table : Stored(c) => id[c] < i
BY DEF TypeOK, NextIds

(* What the UPDATE or DELETE of a request finds. *)
LEMMA HitRow ==
  ASSUME IInv, NEW w \in Workers
  PROVE  /\ Hit(w) \subseteq Creds
         /\ \A c \in Hit(w) : row[c] \in {"active", "revoked"}
         /\ \A c, d \in Hit(w) : c = d
         /\ req[w].op \in {"revoke", "delete"} =>
              req[w].cred \in Hit(w) \/ row[req[w].cred] = "deleted"
         /\ req[w].op \in {"rotate", "clear"} /\ req[w].at = "commit"
              /\ req[w].old # None =>
              req[w].old \in Hit(w) \/ row[req[w].old] = "deleted"
<1> DEFINE table == Table(req[w].cred)
<1>1. table \in SUBSET Creds /\ \A c \in table : Table(c) = table
  BY KindsAssumption DEF Table, Creds
<1>2. Hit(w) = {c \in table : Stored(c) /\ id[c] = req[w].id}
  BY DEF Hit
<1>3. \A c \in Creds : ~Stored(c) => row[c] \in {"unissued", "deleted"}
  BY DEF Stored, IInv, TypeOK, Statuses
<1>4. ASSUME req[w].op \in {"revoke", "delete"}
      PROVE  req[w].cred \in Hit(w) \/ row[req[w].cred] = "deleted"
  <2>1. req[w].cred \in Creds /\ row[req[w].cred] # "unissued"
    BY <1>4 DEF IInv, CredsNamed
  <2>2. req[w].cred \in table
    BY <2>1 DEF Table, Creds
  <2> QED
    BY <1>2, <1>3, <1>4, <2>1, <2>2 DEF IInv, IdsFit, RowLoaded
<1>5. ASSUME req[w].op \in {"rotate", "clear"}, req[w].at = "commit", req[w].old # None
      PROVE  req[w].old \in Hit(w) \/ row[req[w].old] = "deleted"
  <2>1. req[w].old \in Keys /\ row[req[w].old] # "unissued"
    BY <1>5 DEF IInv, TypeOK, Request, WithdrawnGone
  <2>2. req[w].old \in table /\ req[w].old \in Creds
    BY <1>5, <2>1 DEF Table, Creds, IInv, CredsNamed
  <2> QED
    BY <1>2, <1>3, <1>5, <2>1, <2>2 DEF IInv, IdsFit, RowLoaded
<1>6. \A c, d \in Hit(w) : c = d
  BY <1>1, <1>2 DEF IInv, IdsFit, IdsUnique
<1> HIDE DEF table
<1> QED
  BY <1>1, <1>2, <1>4, <1>5, <1>6 DEF Stored

(* Whom a commit strikes that was meant for another row. *)
LEMMA StruckRows ==
  ASSUME TypeOK, NEW w \in Workers
  PROVE  /\ Struck(w) \in [Creds -> {"no", "replaced", "pulled", "struck"}]
         /\ \A c \in Creds : withdrawn[c] # "no" => Struck(w)[c] = withdrawn[c]
         /\ \A c \in Creds : Struck(w)[c] # withdrawn[c] =>
              c \in Hit(w) /\ Struck(w)[c] = "struck"
         /\ \A c \in Creds : c \in Hit(w) /\ c # req[w].cred /\ c # req[w].old
              => Struck(w)[c] # "no"
BY DEF TypeOK, Struck

(* What a commit takes that was meant for another row is struck, unless it *)
(* is the row of the previous MCP key.                                     *)
LEMMA CommitsStrike ==
  ASSUME IInv, NEW w \in Workers, NEW s \in {"revoked", "deleted"},
         NEW k \in Keys \cup {None},
         row' = [c \in Creds |-> IF c = k THEN "active"
                                ELSE IF c \in Hit(w) THEN s ELSE row[c]],
         \A c \in Creds : withdrawn'[c] = Struck(w)[c] \/ withdrawn'[c] = "pulled",
         \/ req[w].op \in {"revoke", "delete"} /\ withdrawn'[req[w].cred] = "pulled"
         \/ req[w].op \in {"rotate", "clear"} /\ req[w].at = "commit",
         NEW p \in Creds, p # k, p # req[w].old,
         row[p] = "active" \/ withdrawn[p] \in {"pulled", "struck"}
  PROVE  row'[p] = "active" \/ withdrawn'[p] \in {"pulled", "struck"}
<1>1. row[p] = "active" => withdrawn[p] = "no"
  BY DEF IInv, TypeOK, WithdrawnGone
<1>2. CASE p \notin Hit(w)
  BY <1>1, <1>2, StruckRows DEF IInv
<1>3. CASE p \in Hit(w) /\ p = req[w].cred
  BY <1>3, NoneAssumption DEF IInv, CredsNamed, Creds
<1>4. CASE p \in Hit(w) /\ p # req[w].cred
  BY <1>1, <1>4, StruckRows DEF IInv
<1> QED
  BY <1>2, <1>3, <1>4

LEMMA IdsNext == IInv /\ [Next]_vars => IdsFit'
<1> SUFFICES ASSUME IInv, [Next]_vars PROVE IdsFit'
  OBVIOUS
<1>1. TypeOK /\ Idle.op = "none"
  BY DEF IInv, Idle
(* A row that is there keeps its id, and a request keeps what it loaded. *)
<1>2. ASSUME \A c \in Creds : Stored(c)' => Stored(c) /\ id'[c] = id[c],
             \A v \in Workers :
               \/ req'[v].op = "none"
               \/ req'[v].op = "rotate" /\ req'[v].at # "commit"
               \/ /\ req'[v].op = req[v].op /\ req'[v].id = req[v].id
                  /\ req'[v].cred = req[v].cred /\ req'[v].old = req[v].old
                  /\ req'[v].at = "commit" => req[v].at = "commit"
      PROVE  IdsFit'
  <2>1. \A v \in Workers : req[v].op \in {"call", "token", "revoke", "delete"} =>
          req[v].cred \in Creds
    BY DEF IInv, CredsNamed
  <2>2. \A v \in Workers : req[v].old # None => req[v].old \in Creds
    BY <1>1 DEF TypeOK, Request, Creds
  <2>3. IdsUnique'
    BY <1>2 DEF IInv, IdsFit, IdsUnique, Table
  <2>4. ASSUME NEW v \in Workers PROVE RowLoaded(v)'
    <3>1. CASE req'[v].op = "none" \/ (req'[v].op = "rotate" /\ req'[v].at # "commit")
      BY <3>1 DEF RowLoaded
    <3>2. CASE /\ req'[v].op = req[v].op /\ req'[v].id = req[v].id
               /\ req'[v].cred = req[v].cred /\ req'[v].old = req[v].old
               /\ req'[v].at = "commit" => req[v].at = "commit"
      BY <1>2, <2>1, <2>2, <3>2 DEF IInv, IdsFit, RowLoaded, Stored
    <3> QED
      BY <1>2, <3>1, <3>2
  <2> QED
    BY <2>3, <2>4 DEF IdsFit
<1>3. ASSUME NEW k \in Creds, NEW table \in {Keys, Clients}, k \in table,
             row[k] = "unissued", NEW i \in NextIds(table), id' = [id EXCEPT ![k] = i],
             \A c \in Creds : c # k => row'[c] = row[c] \/ Stored(c),
             \A v \in Workers :
               \/ req'[v] = req[v]
               \/ req'[v].op = "rotate" /\ req'[v].at # "commit"
      PROVE  IdsFit'
  <2>1. \A c \in table : c \in Creds /\ Table(c) = table
    BY <1>3, KindsAssumption DEF Table, Creds
  <2>2. \A c \in Creds : Table(c) = table => c \in table
    BY <1>3, KindsAssumption DEF Table, Creds
  <2>3. \A c \in Creds : c # k /\ Stored(c)' => Stored(c) /\ id'[c] = id[c]
    BY <1>1, <1>3 DEF TypeOK, Stored
  <2>4. i \in Nat /\ id'[k] = i /\ \A c \in table : Stored(c) => id[c] < i
    BY <1>1, <1>3, IdsAreNumbers, <2>1 DEF TypeOK
  <2>5. \A c, d \in Creds :
          Stored(c)' /\ Stored(d)' /\ Table(c) = Table(d) /\ id'[c] = id'[d] => c = d
    <3> SUFFICES ASSUME NEW c \in Creds, NEW d \in Creds, Stored(c)', Stored(d)',
                        Table(c) = Table(d), id'[c] = id'[d], c # d
                 PROVE  FALSE
      OBVIOUS
    <3>1. CASE c # k /\ d # k
      BY <2>3, <3>1 DEF IInv, IdsFit, IdsUnique
    <3>2. CASE c = k
      <4>1. d \in table /\ Stored(d) /\ id'[d] = id[d] /\ id[d] \in Nat
        BY <1>1, <1>3, <2>1, <2>2, <2>3, <3>2 DEF TypeOK
      <4> QED
        BY <2>4, <3>2, <4>1
    <3>3. CASE d = k
      <4>1. c \in table /\ Stored(c) /\ id'[c] = id[c] /\ id[c] \in Nat
        BY <1>1, <1>3, <2>1, <2>2, <2>3, <3>3 DEF TypeOK
      <4> QED
        BY <2>4, <3>3, <4>1
    <3> QED
      BY <3>1, <3>2, <3>3
  <2>6. ASSUME NEW v \in Workers, req'[v] = req[v] PROVE RowLoaded(v)'
    <3>1. req[v].op \in {"call", "token", "revoke", "delete"} =>
            req[v].cred \in Creds /\ req[v].cred # k
      BY <1>3 DEF IInv, CredsNamed
    <3>2. req[v].old # None => req[v].old \in Creds /\ req[v].old # k
      BY <1>1, <1>3 DEF TypeOK, Request, Creds, IInv, WithdrawnGone
    <3>3. RowLoaded(v)
      BY DEF IInv, IdsFit
    <3>4. ASSUME req'[v].op \in {"call", "token", "revoke", "delete"}, Stored(req[v].cred)'
          PROVE  req'[v].id = id'[req'[v].cred]
      <4>1. Stored(req[v].cred) /\ id'[req[v].cred] = id[req[v].cred]
        BY <2>3, <2>6, <3>1, <3>4 DEF Stored
      <4> QED
        BY <2>6, <3>3, <3>4, <4>1 DEF RowLoaded
    <3>5. ASSUME req'[v].op \in {"rotate", "clear"}, req'[v].at = "commit",
                 req'[v].old # None, Stored(req[v].old)'
          PROVE  req'[v].id = id'[req'[v].old]
      <4>1. Stored(req[v].old) /\ id'[req[v].old] = id[req[v].old]
        BY <2>3, <2>6, <3>2, <3>5 DEF Stored
      <4> QED
        BY <2>6, <3>3, <3>5, <4>1 DEF RowLoaded
    <3> QED
      BY <2>6, <3>4, <3>5 DEF RowLoaded, Stored
  <2>7. ASSUME NEW v \in Workers, req'[v].op = "rotate", req'[v].at # "commit"
        PROVE  RowLoaded(v)'
    BY <2>7 DEF RowLoaded
  <2>8. IdsUnique'
    BY <2>5 DEF IdsUnique, Table
  <2> QED
    BY <1>3, <2>6, <2>7, <2>8 DEF IdsFit
<1>4. ASSUME UNCHANGED <<row, id>>, NEW w \in Workers,
             NEW place, NEW op, NEW c \in Creds \cup {None}, NEW old \in Keys \cup {None},
             Begin(w, place, op, c, old),
             op \in {"call", "token", "revoke", "delete"} => c \in Creds,
             op \in {"rotate", "clear"} => c = None
      PROVE  IdsFit'
  <2>1. \A v \in Workers : v # w => req'[v] = req[v]
    BY <1>1, <1>4 DEF Begin, TypeOK
  <2>2. /\ req'[w].op = op /\ req'[w].cred = c /\ req'[w].old = old
        /\ c \in Creds => req'[w].id = id[c]
        /\ c = None /\ old # None => req'[w].id = id[old]
    BY <1>1, <1>4, NoneAssumption DEF Begin, TypeOK, Creds
  <2> QED
    <3>1. IdsUnique'
      BY <1>4 DEF IInv, IdsFit, IdsUnique, Stored, Table
    <3>2. \A v \in Workers : v # w => RowLoaded(v)'
      BY <1>4, <2>1 DEF IInv, IdsFit, RowLoaded, Stored
    <3>3. RowLoaded(w)'
      BY <1>4, <2>2 DEF RowLoaded
    <3> QED
      BY <3>1, <3>2, <3>3 DEF IdsFit
<1>5. ASSUME NEW w \in Workers, End(w), UNCHANGED <<row, id>> PROVE IdsFit'
  BY <1>1, <1>2, <1>5 DEF End, TypeOK, Stored
<1>6. ASSUME NEW w \in Workers, NEW place, Goto(w, place), place # "commit",
             UNCHANGED <<row, id>>
      PROVE  IdsFit'
  BY <1>1, <1>2, <1>6 DEF Goto, TypeOK, Request, Stored
<1>7. ASSUME NEW w \in Workers, CommitRevoke(w) \/ CommitClear(w) PROVE IdsFit'
  <2>1. /\ row' = [c \in Creds |-> IF c \in Hit(w) THEN "revoked" ELSE row[c]]
        /\ id' = id /\ (End(w) \/ Goto(w, "unlink"))
    BY <1>7 DEF CommitRevoke, CommitClear
  <2>2. \A c \in Creds : Stored(c)' => Stored(c) /\ id'[c] = id[c]
    BY <2>1, HitRow DEF Stored
  <2> QED
    BY <1>1, <1>2, <2>1, <2>2 DEF End, Goto, TypeOK, Request
<1>8. ASSUME NEW w \in Workers, CommitDelete(w) PROVE IdsFit'
  <2>1. \A c \in Creds : Stored(c)' => Stored(c) /\ id'[c] = id[c]
    BY <1>8 DEF CommitDelete, Stored
  <2> QED
    BY <1>1, <1>2, <1>8, <2>1 DEF CommitDelete, End, TypeOK, Request
<1>9. ASSUME NEW w \in Workers, NEW k \in Keys, CommitRotate(w, k) PROVE IdsFit'
  <2>1. PICK i \in NextIds(Keys) : id' = [id EXCEPT ![k] = i]
    BY <1>9 DEF CommitRotate
  <2>2. k \in Creds /\ row[k] = "unissued" /\ req[w].op = "rotate"
    BY <1>9 DEF CommitRotate, Drawn, Creds
  <2>3. \A c \in Creds : c # k => row'[c] = row[c] \/ Stored(c)
    BY <1>9, HitRow DEF CommitRotate, Stored
  <2>4. \A v \in Workers : \/ req'[v] = req[v]
                           \/ req'[v].op = "rotate" /\ req'[v].at # "commit"
    BY <1>1, <1>9, <2>2 DEF CommitRotate, TypeOK, Request
  <2> QED
    BY <1>3, <2>1, <2>2, <2>3, <2>4
<1>10. CASE Issuing
  <2>1. ASSUME NEW k \in Keys, NEW e \in {"none", "ahead"}, CreateKey(k, e) PROVE IdsFit'
    <3>1. PICK i \in NextIds(Keys) : id' = [id EXCEPT ![k] = i]
      BY <2>1 DEF CreateKey
    <3> QED
      BY <1>1, <1>3, <2>1, <3>1 DEF CreateKey, Drawn, Creds, TypeOK
  <2>2. ASSUME NEW k \in Clients, CreateClient(k) PROVE IdsFit'
    <3>1. PICK i \in NextIds(Clients) : id' = [id EXCEPT ![k] = i]
      BY <2>2 DEF CreateClient
    <3> QED
      BY <1>1, <1>3, <2>2, <3>1 DEF CreateClient, Drawn, Creds, TypeOK
  <2>3. ASSUME UNCHANGED <<row, id, req>> PROVE IdsFit'
    BY <1>2, <2>3 DEF Stored
  <2> QED
    BY <1>10, <2>1, <2>2, <2>3 DEF Issuing, KeyExpires, TokenExpires
<1>11. ASSUME NEW w \in Workers, Calls(w) PROVE IdsFit'
  BY <1>4, <1>5, <1>6, <1>11, NoneAssumption
     DEF Calls, PresentKey, PresentToken, BeginToken, IssueToken, Touch, Answer, Creds
<1>12. ASSUME NEW w \in Workers, Withdrawals(w) PROVE IdsFit'
  BY <1>4, <1>7, <1>8, <1>12 DEF Withdrawals, LoadRevoke, LoadDelete
<1>13. ASSUME NEW w \in Workers, McpKey(w) PROVE IdsFit'
  <2>1. Previous \in Keys \cup {None}
    BY DEF Previous
  <2> QED
    BY <1>4, <1>5, <1>6, <1>7, <1>9, <1>13, <2>1
       DEF McpKey, BeginRotate, BeginClear, OpenFile, WriteFile, Unlink
<1>14. ASSUME NEW w \in Workers, RowGone(w) \/ Fail(w) PROVE IdsFit'
  BY <1>5, <1>14 DEF RowGone, Fail
<1>15. CASE Restart
  BY <1>1, <1>2, <1>15 DEF Restart, Stored
<1>16. CASE UNCHANGED vars
  BY <1>2, <1>16 DEF vars, Stored
<1> QED
  BY <1>10, <1>11, <1>12, <1>13, <1>14, <1>15, <1>16 DEF Next

(* No row goes back to what it was before it was issued. *)
LEMMA IssuedStay ==
  ASSUME TypeOK, [Next]_vars
  PROVE  \A c \in Creds : row[c] # "unissued" => row'[c] # "unissued"
<1>1. ASSUME NEW w \in Workers, NEW k \in Keys, CommitRotate(w, k)
      PROVE  \A c \in Creds : row[c] # "unissued" => row'[c] # "unissued"
  BY <1>1 DEF CommitRotate
<1>2. ASSUME NEW w \in Workers, CommitRevoke(w) \/ CommitDelete(w) \/ CommitClear(w)
      PROVE  \A c \in Creds : row[c] # "unissued" => row'[c] # "unissued"
  BY <1>2 DEF CommitRevoke, CommitDelete, CommitClear, TypeOK
<1>3. CASE Issuing
  BY <1>3 DEF Issuing, KeyExpires, CreateKey, CreateClient, TokenExpires, TypeOK, Creds
<1>4. CASE UNCHANGED row
  BY <1>4
<1> QED
  BY <1>1, <1>2, <1>3, <1>4
     DEF Next, vars, Calls, PresentKey, PresentToken, BeginToken, IssueToken, Touch,
         Answer, Withdrawals, LoadRevoke, LoadDelete, McpKey, BeginRotate, BeginClear,
         OpenFile, WriteFile, Unlink, RowGone, Fail, Restart

LEMMA NamedNext ==
  ASSUME IInv, [Next]_vars
  PROVE  CredsNamed'
<1>1. /\ TypeOK /\ Idle.op = "none"
      /\ \A c \in Creds : row[c] # "unissued" => row'[c] # "unissued"
  BY IssuedStay DEF IInv, Idle
<1>2. ASSUME \A v \in Workers :
               \/ req'[v].op = "none"
               \/ req'[v].op = "rotate" /\ req'[v].cred \notin Clients
                    /\ req'[v].at # "commit"
               \/ req'[v].op = req[v].op /\ req'[v].cred = req[v].cred
                    /\ req'[v].old = req[v].old /\ (req'[v].at = "commit" => req[v].at = "commit")
      PROVE  CredsNamed'
  BY <1>1, <1>2 DEF CredsNamed, IInv
<1>3. ASSUME NEW w \in Workers, NEW c \in Creds,
             NEW place, NEW op \in {"call", "token", "revoke", "delete"},
             Begin(w, place, op, c, None), row[c] # "unissued"
      PROVE  CredsNamed'
  <2>1. /\ \A v \in Workers : v # w => req'[v] = req[v]
        /\ req'[w].op = op /\ req'[w].cred = c /\ req'[w].old = None
    BY <1>1, <1>3 DEF Begin, TypeOK
  <2> QED
    BY <1>1, <1>3, <2>1 DEF CredsNamed, IInv
<1>4. ASSUME NEW w \in Workers, NEW place, NEW op \in {"rotate", "clear"}, NEW old,
             Begin(w, place, op, None, old)
      PROVE  CredsNamed'
  <2>1. /\ \A v \in Workers : v # w => req'[v] = req[v]
        /\ req'[w].op = op /\ req'[w].cred = None
    BY <1>1, <1>4 DEF Begin, TypeOK
  <2> QED
    BY <1>1, <1>4, <2>1, NoneAssumption DEF CredsNamed, IInv, Creds
<1>5. ASSUME NEW w \in Workers, End(w) PROVE CredsNamed'
  BY <1>1, <1>2, <1>5 DEF End, TypeOK
<1>6. ASSUME NEW w \in Workers, NEW place, Goto(w, place), place # "commit" PROVE CredsNamed'
  BY <1>1, <1>2, <1>6 DEF Goto, TypeOK, Request
<1>7. ASSUME NEW w \in Workers, NEW k \in Keys, CommitRotate(w, k) PROVE CredsNamed'
  BY <1>1, <1>2, <1>7, KindsAssumption DEF CommitRotate, TypeOK, Request
<1>8. CASE Issuing \/ UNCHANGED vars
  BY <1>1, <1>2, <1>8
     DEF Issuing, KeyExpires, CreateKey, CreateClient, TokenExpires, vars
<1>9. CASE Restart
  BY <1>1, <1>2, <1>9 DEF Restart
<1>10. ASSUME NEW w \in Workers, Calls(w) PROVE CredsNamed'
  BY <1>3, <1>5, <1>6, <1>10
     DEF Calls, PresentKey, PresentToken, BeginToken, IssueToken, Touch, Answer, Creds
<1>11. ASSUME NEW w \in Workers, Withdrawals(w) PROVE CredsNamed'
  BY <1>3, <1>5, <1>11
     DEF Withdrawals, LoadRevoke, LoadDelete, CommitRevoke, CommitDelete, Stored
<1>12. ASSUME NEW w \in Workers, McpKey(w) PROVE CredsNamed'
  BY <1>4, <1>5, <1>6, <1>7, <1>12
     DEF McpKey, BeginRotate, BeginClear, OpenFile, WriteFile, CommitClear, Unlink
<1>13. ASSUME NEW w \in Workers, RowGone(w) \/ Fail(w) PROVE CredsNamed'
  BY <1>5, <1>13 DEF RowGone, Fail
<1> QED
  BY <1>8, <1>9, <1>10, <1>11, <1>12, <1>13 DEF Next

LEMMA TypesNext == IInv /\ [Next]_vars => TypeOK'
<1> SUFFICES ASSUME IInv, [Next]_vars PROVE TypeOK'
  OBVIOUS
<1>a. /\ Idle \in Request /\ Idle.at = "idle" /\ Idle.op = "none" /\ Idle.old = None
      /\ ~Idle.late /\ Idle.cred = None
      /\ None \notin Keys /\ None \notin Creds
  BY NoneAssumption DEF Idle, Request, Places, Operations, Creds
<1>b. TypeOK /\ Keys \in SUBSET Creds /\ Clients \in SUBSET Creds
  BY DEF IInv, Creds
<1>1. CASE Issuing
  <2>1. ASSUME NEW k \in Keys, NEW e \in {"none", "ahead"}, CreateKey(k, e) PROVE TypeOK'
    <3>1. PICK i \in Nat : id' = [id EXCEPT ![k] = i]
      BY <1>b, <2>1, IdsAreNumbers DEF CreateKey
    <3> QED
      BY <1>b, <2>1, <3>1 DEF CreateKey, TypeOK, Statuses, mcpVars
  <2>2. ASSUME NEW c \in Clients, CreateClient(c) PROVE TypeOK'
    <3>1. PICK i \in Nat : id' = [id EXCEPT ![c] = i]
      BY <1>b, <2>2, IdsAreNumbers DEF CreateClient
    <3> QED
      BY <1>b, <2>2, <3>1 DEF CreateClient, TypeOK, Statuses, mcpVars
  <2>3. CASE (\E k \in Keys : KeyExpires(k)) \/ (\E c \in Clients : TokenExpires(c))
    BY <2>3 DEF KeyExpires, TokenExpires, IInv, TypeOK, mcpVars
  <2> QED
    BY <1>1, <2>1, <2>2, <2>3 DEF Issuing
<1>2. ASSUME NEW w \in Workers, NEW k \in Keys, PresentKey(w, k)
      PROVE  TypeOK'
  BY <1>2, <1>a
     DEF PresentKey, IInv, TypeOK, Begin, Request, Places, Operations, Idle,
         Statuses, mcpVars, Creds, Changing, OpsFit
<1>3. ASSUME NEW w \in Workers, NEW c \in Clients, PresentToken(w, c)
      PROVE  TypeOK'
  BY <1>3, <1>a
     DEF PresentToken, IInv, TypeOK, Begin, Request, Places, Operations, Idle,
         Statuses, mcpVars, Creds, Changing, OpsFit
<1>4. ASSUME NEW w \in Workers, NEW c \in Clients, BeginToken(w, c)
      PROVE  TypeOK'
  BY <1>4, <1>a
     DEF BeginToken, IInv, TypeOK, Begin, Request, Places, Operations, Idle,
         Statuses, mcpVars, Creds, Changing, OpsFit
<1>5. ASSUME NEW w \in Workers, IssueToken(w)
      PROVE  TypeOK'
  BY <1>5, <1>a
     DEF IssueToken, IInv, TypeOK, End, Stored, Request, Places, Operations,
         Idle, Statuses, mcpVars, Creds, Changing, OpsFit
<1>6. ASSUME NEW w \in Workers, Touch(w)
      PROVE  TypeOK'
  BY <1>6, <1>a
     DEF Touch, IInv, TypeOK, Goto, Stored, Request, Places, Operations, Idle,
         Statuses, mcpVars, Creds, Changing, OpsFit
<1>7. ASSUME NEW w \in Workers, Answer(w)
      PROVE  TypeOK'
  BY <1>7, <1>a
     DEF Answer, IInv, TypeOK, End, Request, Places, Operations, Idle,
         Statuses, mcpVars, Creds, Changing, OpsFit
<1>8. ASSUME NEW w \in Workers, NEW c \in Creds, LoadRevoke(w, c)
      PROVE  TypeOK'
  BY <1>8, <1>a
     DEF LoadRevoke, IInv, TypeOK, Begin, Request, Places, Operations, Idle,
         Statuses, mcpVars, Creds, Changing, OpsFit
<1>9. ASSUME NEW w \in Workers, NEW c \in Creds, LoadDelete(w, c)
      PROVE  TypeOK'
  BY <1>9, <1>a
     DEF LoadDelete, IInv, TypeOK, Begin, Stored, Request, Places, Operations,
         Idle, Statuses, mcpVars, Creds, Changing, OpsFit
<1>10. ASSUME NEW w \in Workers, CommitRevoke(w)
      PROVE  TypeOK'
  <2>1. /\ row' \in [Creds -> Statuses] /\ req' \in [Workers -> Request]
        /\ withdrawn' \in [Creds -> {"no", "replaced", "pulled", "struck"}]
        /\ UNCHANGED <<id, expiry, tokens, mcpVars, failures>>
    BY <1>10, <1>a, <1>b, StruckRows DEF CommitRevoke, End, TypeOK, Statuses
  <2>2. \A v \in Workers : req'[v] = req[v] \/ req'[v] = Idle
    BY <1>10, <1>b DEF CommitRevoke, End, TypeOK
  <2> QED
    BY <1>a, <1>b, <2>1, <2>2 DEF TypeOK, mcpVars
<1>11. ASSUME NEW w \in Workers, CommitDelete(w)
      PROVE  TypeOK'
  <2>1. /\ row' \in [Creds -> Statuses] /\ req' \in [Workers -> Request]
        /\ id' \in [Creds -> Nat] /\ mcp' \in SUBSET Keys
        /\ expiry' \in [Keys -> {"none", "ahead", "passed"}]
        /\ withdrawn' \in [Creds -> {"no", "replaced", "pulled", "struck"}]
        /\ UNCHANGED <<tokens, file, stranded, disturbed, failures>>
    BY <1>11, <1>a, <1>b, StruckRows DEF CommitDelete, End, TypeOK, Statuses
  <2>2. \A v \in Workers : req'[v] = req[v] \/ req'[v] = Idle
    BY <1>11, <1>b DEF CommitDelete, End, TypeOK
  <2> QED
    BY <1>a, <1>b, <2>1, <2>2 DEF TypeOK
<1>12. ASSUME NEW w \in Workers, BeginRotate(w)
      PROVE  TypeOK'
  BY <1>12, <1>a
     DEF BeginRotate, IInv, TypeOK, Begin, Request, Places, Operations, Idle,
         Statuses, Previous, Creds, Changing, OpsFit
<1>13. ASSUME NEW w \in Workers, BeginClear(w)
      PROVE  TypeOK'
  BY <1>13, <1>a
     DEF BeginClear, IInv, TypeOK, Begin, Request, Places, Operations, Idle,
         Statuses, Previous, Creds, Changing, OpsFit
<1>14. ASSUME NEW w \in Workers, NEW k \in Keys, CommitRotate(w, k)
      PROVE  TypeOK'
  <2>1. PICK i \in Nat : id' = [id EXCEPT ![k] = i]
    BY <1>14, <1>b, IdsAreNumbers DEF CommitRotate
  <2>2. /\ row' \in [Creds -> Statuses]
        /\ withdrawn' \in [Creds -> {"no", "replaced", "pulled", "struck"}]
        /\ mcp' \in SUBSET Keys
        /\ UNCHANGED <<expiry, tokens, file, stranded, disturbed, failures>>
    BY <1>14, <1>b, StruckRows DEF CommitRotate, TypeOK, Statuses
  <2>3. /\ req' \in [Workers -> Request]
        /\ \A v \in Workers : req'[v] = req[v] \/ req'[v].cred = k
    <3>1. req' = [req EXCEPT ![w] = [req[w] EXCEPT !.at = "open", !.cred = k]]
      BY <1>14, <1>b DEF CommitRotate, TypeOK
    <3>2. [req[w] EXCEPT !.at = "open", !.cred = k] \in Request
      BY <1>b DEF TypeOK, Request, Places
    <3>3. [req[w] EXCEPT !.at = "open", !.cred = k].cred = k
      BY <1>b DEF TypeOK, Request
    <3> DEFINE r == [req[w] EXCEPT !.at = "open", !.cred = k]
    <3> HIDE DEF r
    <3> QED
      BY <1>b, <3>1, <3>2, <3>3 DEF TypeOK, r
  <2> QED
    BY <1>b, <2>1, <2>2, <2>3 DEF TypeOK
<1>15. ASSUME NEW w \in Workers, OpenFile(w)
      PROVE  TypeOK'
  BY <1>15, <1>a
     DEF OpenFile, IInv, TypeOK, Goto, Request, Places, Operations, Idle,
         Statuses, Creds, Changing, OpsFit
<1>16. ASSUME NEW w \in Workers, WriteFile(w)
      PROVE  TypeOK'
  BY <1>16, <1>a
     DEF WriteFile, IInv, TypeOK, End, Request, Places, Operations, Idle,
         Statuses, Replaced, Creds, Changing, OpsFit
<1>17. ASSUME NEW w \in Workers, CommitClear(w)
      PROVE  TypeOK'
  <2>1. /\ row' \in [Creds -> Statuses]
        /\ withdrawn' \in [Creds -> {"no", "replaced", "pulled", "struck"}]
        /\ UNCHANGED <<id, expiry, tokens, mcpVars, failures>>
    BY <1>17, <1>b, StruckRows DEF CommitClear, TypeOK, Statuses
  <2>2. /\ req' \in [Workers -> Request]
        /\ \A v \in Workers : req'[v] = req[v] \/ req'[v].at = "unlink"
    BY <1>17, <1>b DEF CommitClear, Goto, TypeOK, Request, Places
  <2> QED
    BY <1>b, <2>1, <2>2 DEF TypeOK, mcpVars
<1>18. ASSUME NEW w \in Workers, Unlink(w)
      PROVE  TypeOK'
  BY <1>18, <1>a
     DEF Unlink, IInv, TypeOK, End, Request, Places, Operations, Idle,
         Statuses, Replaced, Creds, Changing, OpsFit
<1>19. ASSUME NEW w \in Workers, RowGone(w)
      PROVE  TypeOK'
  BY <1>19, <1>a
     DEF RowGone, IInv, TypeOK, End, Stored, Request, Places, Operations, Idle,
         Statuses, mcpVars, Creds, Changing, OpsFit
<1>20. ASSUME NEW w \in Workers, Fail(w)
      PROVE  TypeOK'
  BY <1>20, <1>a, FailuresAssumption DEF Fail, End, IInv, TypeOK, Idle
<1>21. CASE Restart
  BY <1>21, <1>a, FailuresAssumption DEF Restart, IInv, TypeOK
<1>22. CASE UNCHANGED vars
  BY <1>22
     DEF vars, IInv, TypeOK, Request, Places, Operations, Idle, Statuses,
         Creds, Changing, OpsFit
<1> QED
  BY <1>1, <1>2, <1>3, <1>4, <1>5, <1>6, <1>7, <1>8, <1>9, <1>10, <1>11, <1>12, <1>13, <1>14, <1>15, <1>16, <1>17, <1>18, <1>19, <1>20, <1>21, <1>22
     DEF Next, Calls, Withdrawals, McpKey

LEMMA OpsNext == IInv /\ [Next]_vars => OpsFit'
<1> SUFFICES ASSUME IInv, [Next]_vars PROVE OpsFit'
  OBVIOUS
<1>a. /\ Idle \in Request /\ Idle.at = "idle" /\ Idle.op = "none" /\ Idle.old = None
      /\ ~Idle.late /\ Idle.cred = None
      /\ None \notin Keys /\ None \notin Creds
  BY NoneAssumption DEF Idle, Request, Places, Operations, Creds
<1>1. CASE Issuing
  BY <1>1, <1>a
     DEF Issuing, KeyExpires, CreateKey, CreateClient, TokenExpires, IInv,
         TypeOK, OpsFit, Request, Idle, mcpVars
<1>2. ASSUME NEW w \in Workers, NEW k \in Keys, PresentKey(w, k)
      PROVE  OpsFit'
  BY <1>2, <1>a
     DEF PresentKey, IInv, TypeOK, OpsFit, Begin, Request, Idle, mcpVars
<1>3. ASSUME NEW w \in Workers, NEW c \in Clients, PresentToken(w, c)
      PROVE  OpsFit'
  BY <1>3, <1>a
     DEF PresentToken, IInv, TypeOK, OpsFit, Begin, Request, Idle, mcpVars
<1>4. ASSUME NEW w \in Workers, NEW c \in Clients, BeginToken(w, c)
      PROVE  OpsFit'
  BY <1>4, <1>a
     DEF BeginToken, IInv, TypeOK, OpsFit, Begin, Request, Idle, mcpVars
<1>5. ASSUME NEW w \in Workers, IssueToken(w)
      PROVE  OpsFit'
  BY <1>5, <1>a
     DEF IssueToken, IInv, TypeOK, OpsFit, End, Stored, Request, Idle, mcpVars
<1>6. ASSUME NEW w \in Workers, Touch(w)
      PROVE  OpsFit'
  BY <1>6, <1>a
     DEF Touch, IInv, TypeOK, OpsFit, Goto, Stored, Request, Idle, mcpVars
<1>7. ASSUME NEW w \in Workers, Answer(w)
      PROVE  OpsFit'
  BY <1>7, <1>a DEF Answer, IInv, TypeOK, OpsFit, End, Request, Idle, mcpVars
<1>8. ASSUME NEW w \in Workers, NEW c \in Creds, LoadRevoke(w, c)
      PROVE  OpsFit'
  BY <1>8, <1>a
     DEF LoadRevoke, IInv, TypeOK, OpsFit, Begin, Request, Idle, mcpVars
<1>9. ASSUME NEW w \in Workers, NEW c \in Creds, LoadDelete(w, c)
      PROVE  OpsFit'
  BY <1>9, <1>a
     DEF LoadDelete, IInv, TypeOK, OpsFit, Begin, Stored, Request, Idle,
         mcpVars
<1>10. ASSUME NEW w \in Workers, CommitRevoke(w)
      PROVE  OpsFit'
  BY <1>10, <1>a
     DEF CommitRevoke, IInv, TypeOK, OpsFit, End, Stored, Request, Idle,
         mcpVars
<1>11. ASSUME NEW w \in Workers, CommitDelete(w)
      PROVE  OpsFit'
  BY <1>11, <1>a
     DEF CommitDelete, IInv, TypeOK, OpsFit, End, Request, Idle, mcpVars
<1>12. ASSUME NEW w \in Workers, BeginRotate(w)
      PROVE  OpsFit'
  BY <1>12, <1>a
     DEF BeginRotate, IInv, TypeOK, OpsFit, Begin, Request, Idle, Previous
<1>13. ASSUME NEW w \in Workers, BeginClear(w)
      PROVE  OpsFit'
  BY <1>13, <1>a
     DEF BeginClear, IInv, TypeOK, OpsFit, Begin, Request, Idle, Previous
<1>14. ASSUME NEW w \in Workers, NEW k \in Keys, CommitRotate(w, k)
      PROVE  OpsFit'
  BY <1>14, <1>a DEF CommitRotate, IInv, TypeOK, OpsFit, Stored, Request, Idle
<1>15. ASSUME NEW w \in Workers, OpenFile(w)
      PROVE  OpsFit'
  BY <1>15, <1>a DEF OpenFile, IInv, TypeOK, OpsFit, Goto, Request, Idle
<1>16. ASSUME NEW w \in Workers, WriteFile(w)
      PROVE  OpsFit'
  BY <1>16, <1>a DEF WriteFile, IInv, TypeOK, OpsFit, End, Request, Idle
<1>17. ASSUME NEW w \in Workers, CommitClear(w)
      PROVE  OpsFit'
  BY <1>17, <1>a
     DEF CommitClear, IInv, TypeOK, OpsFit, Goto, Stored, Request, Idle,
         mcpVars
<1>18. ASSUME NEW w \in Workers, Unlink(w)
      PROVE  OpsFit'
  BY <1>18, <1>a DEF Unlink, IInv, TypeOK, OpsFit, End, Request, Idle
<1>19. ASSUME NEW w \in Workers, RowGone(w) \/ Fail(w)
      PROVE  OpsFit'
  BY <1>19, <1>a
     DEF RowGone, Fail, IInv, TypeOK, OpsFit, End, Stored, Request, Idle,
         mcpVars
<1>20. CASE Restart
  BY <1>20, <1>a DEF Restart, IInv, TypeOK, OpsFit, Request, Idle
<1>21. CASE UNCHANGED vars
  BY <1>21 DEF vars, IInv, TypeOK, OpsFit, Request, Idle
<1> QED
  BY <1>1, <1>2, <1>3, <1>4, <1>5, <1>6, <1>7, <1>8, <1>9, <1>10, <1>11, <1>12, <1>13, <1>14, <1>15, <1>16, <1>17, <1>18, <1>19, <1>20, <1>21
     DEF Next, Calls, Withdrawals, McpKey

LEMMA WithdrawnNext == IInv /\ [Next]_vars => WithdrawnGone'
<1> SUFFICES ASSUME IInv, [Next]_vars PROVE WithdrawnGone'
  OBVIOUS
<1>a. /\ Idle \in Request /\ Idle.at = "idle" /\ Idle.op = "none" /\ Idle.old = None
      /\ ~Idle.late /\ Idle.cred = None
      /\ None \notin Keys /\ None \notin Creds
  BY NoneAssumption DEF Idle, Request, Places, Operations, Creds
(* The commits: what they take is gone after them, and nothing comes back. *)
<1>b. ASSUME NEW w \in Workers, NEW s \in {"revoked", "deleted"}, NEW k \in Keys \cup {None},
             k # None => row[k] = "unissued",
             row' = [c \in Creds |-> IF c = k THEN "active"
                                    ELSE IF c \in Hit(w) THEN s ELSE row[c]]
      PROVE  /\ \A c \in Creds : row[c] \in {"revoked", "deleted"} =>
                                 row'[c] \in {"revoked", "deleted"}
             /\ \A c \in Creds : row[c] # "unissued" => row'[c] # "unissued"
             /\ \A c \in Hit(w) : row'[c] \in {"revoked", "deleted"}
             /\ \A c \in Creds : Struck(w)[c] # "no" => row'[c] \in {"revoked", "deleted"}
             /\ req[w].op \in {"revoke", "delete"} =>
                  row'[req[w].cred] \in {"revoked", "deleted"}
             /\ req[w].op \in {"rotate", "clear"} /\ req[w].at = "commit"
                  /\ req[w].old # None => row'[req[w].old] \in {"revoked", "deleted"}
  <2>1. /\ \A c \in Creds : row[c] \in {"revoked", "deleted"} =>
                             row'[c] \in {"revoked", "deleted"}
        /\ \A c \in Creds : row[c] # "unissued" => row'[c] # "unissued"
        /\ \A c \in Hit(w) : row'[c] \in {"revoked", "deleted"}
    BY <1>b, <1>a, HitRow
  <2>2. ASSUME NEW c \in Creds, Struck(w)[c] # "no"
        PROVE  row'[c] \in {"revoked", "deleted"}
    <3>1. withdrawn[c] # "no" \/ c \in Hit(w)
      BY <2>2, StruckRows DEF IInv
    <3> QED
      BY <2>1, <3>1 DEF IInv, WithdrawnGone
  <2>3. req[w].op \in {"revoke", "delete"} => req[w].cred \in Creds
    BY DEF IInv, CredsNamed
  <2>4. req[w].old # None => req[w].old \in Creds
    BY DEF IInv, TypeOK, Request, Creds
  <2> QED
    BY <2>1, <2>2, <2>3, <2>4, HitRow
<1>1. CASE Issuing
  <2>1. CASE \/ \E k \in Keys, e \in {"none", "ahead"} : CreateKey(k, e)
             \/ \E c \in Clients : CreateClient(c)
    <3>1. PICK c \in Creds : row[c] = "unissued" /\ row' = [row EXCEPT ![c] = "active"]
      BY <2>1 DEF CreateKey, CreateClient, Drawn, Creds
    <3>2. UNCHANGED <<mcp, file, req, withdrawn>>
      BY <2>1 DEF CreateKey, CreateClient, mcpVars
    <3>3. /\ file # None => file \in Creds
          /\ \A k \in mcp : k \in Creds
          /\ \A w \in Workers : req[w].old # None => req[w].old \in Creds
      BY DEF IInv, TypeOK, Request, Creds
    <3> QED
      BY <3>1, <3>2, <3>3 DEF IInv, TypeOK, WithdrawnGone, Committed
  <2>2. CASE (\E k \in Keys : KeyExpires(k)) \/ (\E c \in Clients : TokenExpires(c))
    BY <2>2 DEF KeyExpires, TokenExpires, IInv, WithdrawnGone, Committed, mcpVars
  <2> QED
    BY <1>1, <2>1, <2>2 DEF Issuing
<1>2. ASSUME NEW w \in Workers, Calls(w)
      PROVE  WithdrawnGone'
  BY <1>2, <1>a
     DEF Calls, PresentKey, PresentToken, BeginToken, IssueToken, Touch,
         Answer, IInv, TypeOK, OpsFit, WithdrawnGone, Committed, Request, Creds,
         Begin, mcpVars, End, Stored, Goto
<1>3. ASSUME NEW w \in Workers, Withdrawals(w)
      PROVE  WithdrawnGone'
  <2>1. CASE \E c \in Creds : LoadRevoke(w, c) \/ LoadDelete(w, c)
    BY <2>1, <1>a
       DEF LoadRevoke, LoadDelete, IInv, TypeOK, WithdrawnGone, Committed, Request,
           Creds, Begin, mcpVars
  <2>2. CASE CommitRevoke(w) \/ CommitDelete(w)
    <3>1. PICK s \in {"revoked", "deleted"} :
            row' = [c \in Creds |-> IF c \in Hit(w) THEN s ELSE row[c]]
      BY <2>2 DEF CommitRevoke, CommitDelete
    <3>2. row' = [c \in Creds |-> IF c = None THEN "active"
                                 ELSE IF c \in Hit(w) THEN s ELSE row[c]]
      BY <1>a, <3>1
    <3>3. /\ withdrawn' = [Struck(w) EXCEPT ![req[w].cred] = "pulled"]
          /\ req[w].op \in {"revoke", "delete"} /\ End(w)
          /\ mcp' \subseteq mcp /\ file' = file
      BY <2>2 DEF CommitRevoke, CommitDelete, mcpVars
    <3>4. \A c \in Creds : withdrawn'[c] # "no" =>
            Struck(w)[c] # "no" \/ c = req[w].cred
      BY <3>3, StruckRows DEF IInv
    <3>5. \A v \in Workers : req'[v] = req[v] \/ req'[v] = Idle
      BY <3>3 DEF End, IInv, TypeOK
    <3>6. /\ file # None => file \in Creds
          /\ \A k \in mcp : k \in Creds
          /\ \A v \in Workers : req[v].old # None => req[v].old \in Creds
      BY DEF IInv, TypeOK, Request, Creds
    <3> QED
      BY <1>a, <1>b, <3>2, <3>3, <3>4, <3>5, <3>6 DEF IInv, WithdrawnGone, Committed
  <2> QED
    BY <1>3, <2>1, <2>2 DEF Withdrawals
<1>4. ASSUME NEW w \in Workers, BeginRotate(w)
      PROVE  WithdrawnGone'
  BY <1>4, <1>a
     DEF BeginRotate, IInv, TypeOK, OpsFit, WithdrawnGone, Committed, Begin,
         Request, Previous, Creds
<1>5. ASSUME NEW w \in Workers, BeginClear(w)
      PROVE  WithdrawnGone'
  BY <1>5, <1>a
     DEF BeginClear, IInv, TypeOK, OpsFit, WithdrawnGone, Committed, Begin,
         Request, Previous, Creds
<1>6. ASSUME NEW w \in Workers, NEW k \in Keys, CommitRotate(w, k)
      PROVE  WithdrawnGone'
  <2>1. /\ row' = [c \in Creds |-> IF c = k THEN "active"
                                   ELSE IF c \in Hit(w) THEN "revoked" ELSE row[c]]
        /\ row[k] = "unissued" /\ req[w].op = "rotate" /\ req[w].at = "commit"
        /\ withdrawn' = Struck(w) /\ mcp' = mcp \cup {k} /\ file' = file
    BY <1>6 DEF CommitRotate, Drawn
  <2>2. /\ \A v \in Workers : req'[v].old = req[v].old
        /\ \A v \in Workers : v # w => req'[v] = req[v]
    BY <1>6 DEF CommitRotate, IInv, TypeOK, Request
  <2>3. /\ file # None => file \in Creds
        /\ \A x \in mcp \cup {k} : x \in Creds
        /\ \A v \in Workers : req[v].old # None => req[v].old \in Creds
    BY DEF IInv, TypeOK, Request, Creds
  <2> QED
    BY <1>a, <1>b, <2>1, <2>2, <2>3 DEF IInv, WithdrawnGone, Committed
<1>7. ASSUME NEW w \in Workers, OpenFile(w)
      PROVE  WithdrawnGone'
  BY <1>7, <1>a
     DEF OpenFile, IInv, TypeOK, OpsFit, WithdrawnGone, Committed, Goto,
         Request, Creds
<1>8. ASSUME NEW w \in Workers, WriteFile(w)
      PROVE  WithdrawnGone'
  BY <1>8, <1>a
     DEF WriteFile, IInv, TypeOK, OpsFit, WithdrawnGone, PendingFresh, Pending,
         Committed, End, Request, Replaced, Creds
<1>9. ASSUME NEW w \in Workers, CommitClear(w)
      PROVE  WithdrawnGone'
  <2>1. /\ row' = [c \in Creds |-> IF c = None THEN "active"
                                   ELSE IF c \in Hit(w) THEN "revoked" ELSE row[c]]
        /\ req[w].op = "clear" /\ req[w].at = "commit"
        /\ withdrawn' = Struck(w) /\ mcp' = mcp /\ file' = file
    BY <1>9, <1>a DEF CommitClear, mcpVars
  <2>2. /\ \A v \in Workers : req'[v].old = req[v].old
        /\ \A v \in Workers : v # w => req'[v] = req[v]
    BY <1>9 DEF CommitClear, Goto, IInv, TypeOK, Request
  <2>3. /\ file # None => file \in Creds
        /\ \A x \in mcp : x \in Creds
        /\ \A v \in Workers : req[v].old # None => req[v].old \in Creds
    BY DEF IInv, TypeOK, Request, Creds
  <2> QED
    BY <1>a, <1>b, <2>1, <2>2, <2>3 DEF IInv, WithdrawnGone, Committed
<1>10. ASSUME NEW w \in Workers, Unlink(w)
      PROVE  WithdrawnGone'
  BY <1>10, <1>a
     DEF Unlink, IInv, TypeOK, OpsFit, WithdrawnGone, Committed, End, Request,
         Replaced, Creds
<1>11. ASSUME NEW w \in Workers, RowGone(w) \/ Fail(w)
      PROVE  WithdrawnGone'
  BY <1>11, <1>a
     DEF RowGone, Fail, IInv, TypeOK, OpsFit, WithdrawnGone, Committed, End,
         Stored, Request, mcpVars, Creds
<1>12. CASE Restart
  BY <1>12, <1>a
     DEF Restart, IInv, TypeOK, OpsFit, WithdrawnGone, Committed, Request,
         Creds
<1>13. CASE UNCHANGED vars
  BY <1>13
     DEF vars, IInv, TypeOK, OpsFit, WithdrawnGone, Committed, Request, Creds
<1> QED
  BY <1>1, <1>2, <1>3, <1>4, <1>5, <1>6, <1>7, <1>8, <1>9, <1>10, <1>11, <1>12, <1>13
     DEF Next, McpKey

LEMMA CallsNext == IInv /\ [Next]_vars => CallsFresh'
<1> SUFFICES ASSUME IInv, [Next]_vars PROVE CallsFresh'
  OBVIOUS
<1>a. /\ Idle \in Request /\ Idle.at = "idle" /\ Idle.op = "none" /\ Idle.old = None
      /\ ~Idle.late /\ Idle.cred = None
      /\ None \notin Keys /\ None \notin Creds
  BY NoneAssumption DEF Idle, Request, Places, Operations, Creds
<1>1. CASE Issuing
  BY <1>1, <1>a
     DEF Issuing, KeyExpires, CreateKey, CreateClient, TokenExpires, IInv,
         TypeOK, OpsFit, CallsFresh, WithdrawnGone, Request, Creds, mcpVars
<1>2. ASSUME NEW w \in Workers, Calls(w)
      PROVE  CallsFresh'
  BY <1>2, <1>a
     DEF Calls, PresentKey, PresentToken, BeginToken, IssueToken, Touch,
         Answer, IInv, TypeOK, OpsFit, CallsFresh, WithdrawnGone, Request, Creds,
         Begin, mcpVars, End, Stored, Goto
<1>3. ASSUME NEW w \in Workers, Withdrawals(w)
      PROVE  CallsFresh'
  BY <1>3, <1>a
     DEF Withdrawals, LoadRevoke, LoadDelete, CommitRevoke, CommitDelete, IInv,
         TypeOK, OpsFit, CallsFresh, WithdrawnGone, Request, Creds, Begin, mcpVars,
         Stored, End
<1>4. ASSUME NEW w \in Workers, McpKey(w)
      PROVE  CallsFresh'
  BY <1>4, <1>a
     DEF McpKey, BeginRotate, BeginClear, CommitRotate, OpenFile, WriteFile,
         CommitClear, Unlink, IInv, TypeOK, OpsFit, CallsFresh, WithdrawnGone,
         Request, Creds, Begin, Stored, Goto, End, mcpVars
<1>5. ASSUME NEW w \in Workers, RowGone(w) \/ Fail(w)
      PROVE  CallsFresh'
  BY <1>5, <1>a
     DEF RowGone, Fail, IInv, TypeOK, OpsFit, CallsFresh, WithdrawnGone, End,
         Stored, Request, mcpVars, Creds
<1>6. CASE Restart
  BY <1>6, <1>a
     DEF Restart, IInv, TypeOK, OpsFit, CallsFresh, WithdrawnGone, Request,
         Creds
<1>7. CASE UNCHANGED vars
  BY <1>7
     DEF vars, IInv, TypeOK, OpsFit, CallsFresh, WithdrawnGone, Request, Creds
<1> QED
  BY <1>1, <1>2, <1>3, <1>4, <1>5, <1>6, <1>7 DEF Next

LEMMA PendingNext == IInv /\ [Next]_vars => PendingFresh'
<1> SUFFICES ASSUME IInv, [Next]_vars PROVE PendingFresh'
  OBVIOUS
<1>a. /\ Idle \in Request /\ Idle.at = "idle" /\ Idle.op = "none" /\ Idle.old = None
      /\ ~Idle.late /\ Idle.cred = None
      /\ None \notin Keys /\ None \notin Creds
  BY NoneAssumption DEF Idle, Request, Places, Operations, Creds
<1>1. CASE Issuing
  BY <1>1, <1>a
     DEF Issuing, KeyExpires, CreateKey, CreateClient, TokenExpires, IInv,
         TypeOK, OpsFit, WithdrawnGone, PendingFresh, Pending, Request, Creds,
         mcpVars
<1>2. ASSUME NEW w \in Workers, Calls(w)
      PROVE  PendingFresh'
  BY <1>2, <1>a
     DEF Calls, PresentKey, PresentToken, BeginToken, IssueToken, Touch,
         Answer, IInv, TypeOK, OpsFit, WithdrawnGone, PendingFresh, Pending,
         Request, Creds, Begin, mcpVars, End, Stored, Goto
<1>3. ASSUME NEW w \in Workers, Withdrawals(w)
      PROVE  PendingFresh'
  <2>1. CASE \E c \in Creds : LoadRevoke(w, c) \/ LoadDelete(w, c)
    BY <2>1, <1>a
       DEF LoadRevoke, LoadDelete, IInv, TypeOK, WithdrawnGone, PendingFresh, Pending, Request,
           Creds, Begin, mcpVars
  <2>2. CASE CommitRevoke(w) \/ CommitDelete(w)
    <3>1. PICK s \in {"revoked", "deleted"} :
            row' = [c \in Creds |-> IF c \in Hit(w) THEN s ELSE row[c]]
      BY <2>2 DEF CommitRevoke, CommitDelete
    <3>2. row' = [c \in Creds |-> IF c = None THEN "active"
                                 ELSE IF c \in Hit(w) THEN s ELSE row[c]]
      BY <1>a, <3>1
    <3>3. /\ withdrawn' = [Struck(w) EXCEPT ![req[w].cred] = "pulled"]
          /\ req[w].op \in {"revoke", "delete"} /\ End(w)
          /\ file' = file /\ (stranded' <=> stranded)
      BY <2>2 DEF CommitRevoke, CommitDelete, mcpVars
    <3>4. /\ req[w].cred \in Creds /\ req[w].old = None
          /\ withdrawn'[req[w].cred] = "pulled"
          /\ \A c \in Creds : withdrawn'[c] = Struck(w)[c] \/ withdrawn'[c] = "pulled"
      BY <3>3, StruckRows DEF IInv, CredsNamed
    <3>5. \A p \in Creds : row[p] = "active" \/ withdrawn[p] \in {"pulled", "struck"}
            => row'[p] = "active" \/ withdrawn'[p] \in {"pulled", "struck"}
      BY <1>a, <3>2, <3>3, <3>4, CommitsStrike
    <3>6. \A v \in Workers : req'[v] = IF v = w THEN Idle ELSE req[v]
      BY <3>3 DEF End, IInv, TypeOK
    <3>7. \A c \in Creds : row[c] # "unissued" => row'[c] # "unissued"
      BY <3>1
    <3>8. \A x \in Workers : Pending(x) => req[x].cred \in Creds
      BY DEF IInv, TypeOK, Pending, Creds
    <3> QED
      BY <1>a, <3>3, <3>5, <3>6, <3>7, <3>8 DEF IInv, PendingFresh, Pending
  <2> QED
    BY <1>3, <2>1, <2>2 DEF Withdrawals
<1>4. ASSUME NEW w \in Workers, BeginRotate(w)
      PROVE  PendingFresh'
  BY <1>4, <1>a
     DEF BeginRotate, IInv, TypeOK, OpsFit, WithdrawnGone, PendingFresh,
         Pending, Begin, Request, Previous, Creds
<1>5. ASSUME NEW w \in Workers, BeginClear(w)
      PROVE  PendingFresh'
  BY <1>5, <1>a
     DEF BeginClear, IInv, TypeOK, OpsFit, WithdrawnGone, PendingFresh,
         Pending, Begin, Request, Previous, Creds
<1>6. ASSUME NEW w \in Workers, NEW k \in Keys, CommitRotate(w, k)
      PROVE  PendingFresh'
  <2>1. /\ row' = [c \in Creds |-> IF c = k THEN "active"
                                   ELSE IF c \in Hit(w) THEN "revoked" ELSE row[c]]
        /\ row[k] = "unissued" /\ req[w].op = "rotate" /\ req[w].at = "commit"
        /\ withdrawn' = Struck(w) /\ file' = file /\ (stranded' <=> stranded)
    BY <1>6 DEF CommitRotate, Drawn
  <2>2. \A p \in Creds : p # k /\ p # req[w].old
            /\ (row[p] = "active" \/ withdrawn[p] \in {"pulled", "struck"})
            => row'[p] = "active" \/ withdrawn'[p] \in {"pulled", "struck"}
    BY <2>1, CommitsStrike
  <2>3. /\ \A v \in Workers : req'[v].old = req[v].old /\ (v # w => req'[v] = req[v])
        /\ req'[w].at = "open" /\ req'[w].cred = k
    BY <1>6 DEF CommitRotate, IInv, TypeOK, Request
  <2>4. \A c \in Creds : row[c] # "unissued" => row'[c] # "unissued"
    BY <2>1
  <2>5. \A v \in Workers : Pending(v) =>
          /\ req[v].cred \in Creds /\ req[v].cred # k
          /\ \A u \in Workers : req[u].old # req[v].cred
    BY <2>1 DEF IInv, TypeOK, PendingFresh, Pending, Creds
  <2>6. k # file /\ row'[k] = "active" /\ \A u \in Workers : req[u].old # k
    BY <1>a, <2>1 DEF IInv, TypeOK, WithdrawnGone, Creds
  <2> QED
    BY <2>1, <2>2, <2>3, <2>4, <2>5, <2>6 DEF IInv, PendingFresh, Pending
<1>7. ASSUME NEW w \in Workers, OpenFile(w)
      PROVE  PendingFresh'
  BY <1>7, <1>a
     DEF OpenFile, IInv, TypeOK, OpsFit, WithdrawnGone, PendingFresh, Pending,
         Goto, Request, Creds
<1>8. ASSUME NEW w \in Workers, WriteFile(w)
      PROVE  PendingFresh'
  BY <1>8, <1>a
     DEF WriteFile, IInv, TypeOK, OpsFit, WithdrawnGone, PendingFresh, Pending,
         End, Request, Replaced, Creds
<1>9. ASSUME NEW w \in Workers, CommitClear(w)
      PROVE  PendingFresh'
  <2>1. /\ row' = [c \in Creds |-> IF c = None THEN "active"
                                   ELSE IF c \in Hit(w) THEN "revoked" ELSE row[c]]
        /\ req[w].op = "clear" /\ req[w].at = "commit"
        /\ withdrawn' = Struck(w) /\ file' = file /\ (stranded' <=> stranded)
    BY <1>9, <1>a DEF CommitClear, mcpVars
  <2>2. \A p \in Creds : p # req[w].old
            /\ (row[p] = "active" \/ withdrawn[p] \in {"pulled", "struck"})
            => row'[p] = "active" \/ withdrawn'[p] \in {"pulled", "struck"}
    BY <1>a, <2>1, CommitsStrike
  <2>3. /\ \A v \in Workers : req'[v].old = req[v].old /\ (v # w => req'[v] = req[v])
        /\ req'[w].at = "unlink"
    BY <1>9 DEF CommitClear, Goto, IInv, TypeOK, Request
  <2>4. \A c \in Creds : row[c] # "unissued" => row'[c] # "unissued"
    BY <1>a, <2>1
  <2>5. \A v \in Workers : Pending(v) => req[v].cred \in Creds
    BY DEF IInv, TypeOK, Pending, Creds
  <2> QED
    BY <2>1, <2>2, <2>3, <2>4, <2>5 DEF IInv, PendingFresh, Pending
<1>10. ASSUME NEW w \in Workers, Unlink(w)
      PROVE  PendingFresh'
  BY <1>10, <1>a
     DEF Unlink, IInv, TypeOK, OpsFit, WithdrawnGone, PendingFresh, Pending,
         End, Request, Replaced, Creds
<1>11. ASSUME NEW w \in Workers, RowGone(w) \/ Fail(w)
      PROVE  PendingFresh'
  BY <1>11, <1>a
     DEF RowGone, Fail, IInv, TypeOK, OpsFit, WithdrawnGone, PendingFresh,
         Pending, End, Stored, Request, mcpVars, Creds
<1>12. CASE Restart
  BY <1>12, <1>a
     DEF Restart, IInv, TypeOK, OpsFit, WithdrawnGone, PendingFresh, Pending,
         Request, Creds
<1>13. CASE UNCHANGED vars
  BY <1>13
     DEF vars, IInv, TypeOK, OpsFit, WithdrawnGone, PendingFresh, Pending,
         Request, Creds
<1> QED
  BY <1>1, <1>2, <1>3, <1>4, <1>5, <1>6, <1>7, <1>8, <1>9, <1>10, <1>11, <1>12, <1>13
     DEF Next, McpKey

LEMMA FileNext == IInv /\ [Next]_vars => FileGood'
<1> SUFFICES ASSUME IInv, [Next]_vars PROVE FileGood'
  OBVIOUS
<1>a. /\ Idle \in Request /\ Idle.at = "idle" /\ Idle.op = "none" /\ Idle.old = None
      /\ ~Idle.late /\ Idle.cred = None
      /\ None \notin Keys /\ None \notin Creds
  BY NoneAssumption DEF Idle, Request, Places, Operations, Creds
<1>1. CASE Issuing
  BY <1>1, <1>a
     DEF Issuing, KeyExpires, CreateKey, CreateClient, TokenExpires, IInv,
         TypeOK, OpsFit, WithdrawnGone, PendingFresh, Pending, FileGood, Committed,
         Request, Creds, mcpVars
<1>2. ASSUME NEW w \in Workers, Calls(w)
      PROVE  FileGood'
  BY <1>2, <1>a
     DEF Calls, PresentKey, PresentToken, BeginToken, IssueToken, Touch,
         Answer, IInv, TypeOK, OpsFit, WithdrawnGone, PendingFresh, Pending,
         FileGood, Committed, Request, Creds, Begin, mcpVars, End, Stored, Goto
<1>3. ASSUME NEW w \in Workers, Withdrawals(w)
      PROVE  FileGood'
  <2>1. CASE \E c \in Creds : LoadRevoke(w, c) \/ LoadDelete(w, c)
    <3>1. /\ \A v \in Workers : v # w => req'[v] = req[v]
          /\ req[w] = Idle /\ UNCHANGED <<row, file, withdrawn, stranded>>
      BY <2>1 DEF LoadRevoke, LoadDelete, Begin, mcpVars, IInv, TypeOK
    <3> QED
      BY <1>a, <3>1 DEF IInv, FileGood, Committed
  <2>2. CASE CommitRevoke(w) \/ CommitDelete(w)
    <3>1. PICK s \in {"revoked", "deleted"} :
            row' = [c \in Creds |-> IF c \in Hit(w) THEN s ELSE row[c]]
      BY <2>2 DEF CommitRevoke, CommitDelete
    <3>2. row' = [c \in Creds |-> IF c = None THEN "active"
                                 ELSE IF c \in Hit(w) THEN s ELSE row[c]]
      BY <1>a, <3>1
    <3>3. /\ withdrawn' = [Struck(w) EXCEPT ![req[w].cred] = "pulled"]
          /\ req[w].op \in {"revoke", "delete"} /\ End(w)
          /\ file' = file /\ (stranded' <=> stranded)
      BY <2>2 DEF CommitRevoke, CommitDelete, mcpVars
    <3>4. /\ req[w].cred \in Creds /\ req[w].old = None
          /\ withdrawn'[req[w].cred] = "pulled"
          /\ \A c \in Creds : withdrawn'[c] = Struck(w)[c] \/ withdrawn'[c] = "pulled"
      BY <3>3, StruckRows DEF IInv, CredsNamed
    <3>5. \A p \in Creds : row[p] = "active" \/ withdrawn[p] \in {"pulled", "struck"}
            => row'[p] = "active" \/ withdrawn'[p] \in {"pulled", "struck"}
      BY <1>a, <3>2, <3>3, <3>4, CommitsStrike
    <3>6. \A v \in Workers : req'[v] = IF v = w THEN Idle ELSE req[v]
      BY <3>3 DEF End, IInv, TypeOK
    <3>7. \A c \in Creds : row[c] # "unissued" => row'[c] # "unissued"
      BY <3>1
    <3>8. file # None => file \in Creds
      BY DEF IInv, TypeOK, Creds
    <3>9. \A v \in Workers : Committed(v) => v # w
      BY <3>3 DEF IInv, OpsFit, Committed
    <3> QED
      BY <3>3, <3>5, <3>6, <3>8, <3>9 DEF IInv, FileGood, Committed
  <2> QED
    BY <1>3, <2>1, <2>2 DEF Withdrawals
<1>4. ASSUME NEW w \in Workers, BeginRotate(w)
      PROVE  FileGood'
  BY <1>4, <1>a
     DEF BeginRotate, IInv, TypeOK, OpsFit, WithdrawnGone, PendingFresh,
         Pending, FileGood, Committed, Begin, Request, Previous, Creds
<1>5. ASSUME NEW w \in Workers, BeginClear(w)
      PROVE  FileGood'
  BY <1>5, <1>a
     DEF BeginClear, IInv, TypeOK, OpsFit, WithdrawnGone, PendingFresh,
         Pending, FileGood, Committed, Begin, Request, Previous, Creds
<1>6. ASSUME NEW w \in Workers, NEW k \in Keys, CommitRotate(w, k)
      PROVE  FileGood'
  <2>1. /\ row' = [c \in Creds |-> IF c = k THEN "active"
                                   ELSE IF c \in Hit(w) THEN "revoked" ELSE row[c]]
        /\ row[k] = "unissued" /\ req[w].op = "rotate" /\ req[w].at = "commit"
        /\ withdrawn' = Struck(w) /\ file' = file /\ (stranded' <=> stranded)
    BY <1>6 DEF CommitRotate, Drawn
  <2>2. \A p \in Creds : p # k /\ p # req[w].old
            /\ (row[p] = "active" \/ withdrawn[p] \in {"pulled", "struck"})
            => row'[p] = "active" \/ withdrawn'[p] \in {"pulled", "struck"}
    BY <2>1, CommitsStrike
  <2>3. /\ \A v \in Workers : req'[v].old = req[v].old /\ (v # w => req'[v] = req[v])
        /\ req'[w].at = "open" /\ req'[w].cred = k
    BY <1>6 DEF CommitRotate, IInv, TypeOK, Request
  <2>4. \A c \in Creds : row[c] # "unissued" => row'[c] # "unissued"
    BY <2>1
  <2>5. file # None => file \in Creds /\ file # k
    BY <2>1 DEF IInv, TypeOK, Creds, WithdrawnGone
  <2>6. \A v \in Workers : Committed(v) => Committed(v)' /\ req'[v].old = req[v].old
    BY <2>1, <2>3 DEF Committed
  <2>7. Committed(w)' /\ req'[w].old = req[w].old
    BY <2>3 DEF Committed
  <2> QED
    BY <2>1, <2>2, <2>5, <2>6, <2>7 DEF IInv, FileGood
<1>7. ASSUME NEW w \in Workers, OpenFile(w)
      PROVE  FileGood'
  BY <1>7, <1>a
     DEF OpenFile, IInv, TypeOK, OpsFit, WithdrawnGone, PendingFresh, Pending,
         FileGood, Committed, Goto, Request, Creds
<1>8. ASSUME NEW w \in Workers, WriteFile(w)
      PROVE  FileGood'
  BY <1>8, <1>a
     DEF WriteFile, IInv, TypeOK, OpsFit, WithdrawnGone, PendingFresh, Pending,
         FileGood, Committed, End, Request, Replaced, Creds
<1>9. ASSUME NEW w \in Workers, CommitClear(w)
      PROVE  FileGood'
  <2>1. /\ row' = [c \in Creds |-> IF c = None THEN "active"
                                   ELSE IF c \in Hit(w) THEN "revoked" ELSE row[c]]
        /\ req[w].op = "clear" /\ req[w].at = "commit"
        /\ withdrawn' = Struck(w) /\ file' = file /\ (stranded' <=> stranded)
    BY <1>9, <1>a DEF CommitClear, mcpVars
  <2>2. \A p \in Creds : p # req[w].old
            /\ (row[p] = "active" \/ withdrawn[p] \in {"pulled", "struck"})
            => row'[p] = "active" \/ withdrawn'[p] \in {"pulled", "struck"}
    BY <1>a, <2>1, CommitsStrike
  <2>3. /\ \A v \in Workers : req'[v].old = req[v].old /\ (v # w => req'[v] = req[v])
        /\ req'[w].at = "unlink"
    BY <1>9 DEF CommitClear, Goto, IInv, TypeOK, Request
  <2>4. \A c \in Creds : row[c] # "unissued" => row'[c] # "unissued"
    BY <1>a, <2>1
  <2>5. file # None => file \in Creds
    BY DEF IInv, TypeOK, Creds
  <2>6. \A v \in Workers : Committed(v) => Committed(v)' /\ req'[v].old = req[v].old
    BY <2>1, <2>3 DEF Committed
  <2>7. Committed(w)' /\ req'[w].old = req[w].old
    BY <2>3 DEF Committed
  <2> QED
    BY <2>1, <2>2, <2>5, <2>6, <2>7 DEF IInv, FileGood
<1>10. ASSUME NEW w \in Workers, Unlink(w)
      PROVE  FileGood'
  BY <1>10, <1>a
     DEF Unlink, IInv, TypeOK, OpsFit, WithdrawnGone, PendingFresh, Pending,
         FileGood, Committed, End, Request, Replaced, Creds
<1>11. ASSUME NEW w \in Workers, RowGone(w) \/ Fail(w)
      PROVE  FileGood'
  BY <1>11, <1>a
     DEF RowGone, Fail, IInv, TypeOK, OpsFit, WithdrawnGone, PendingFresh,
         Pending, FileGood, Committed, End, Stored, Request, mcpVars, Creds
<1>12. CASE Restart
  BY <1>12, <1>a
     DEF Restart, IInv, TypeOK, OpsFit, WithdrawnGone, PendingFresh, Pending,
         FileGood, Committed, Request, Creds
<1>13. CASE UNCHANGED vars
  BY <1>13
     DEF vars, IInv, TypeOK, OpsFit, WithdrawnGone, PendingFresh, Pending,
         FileGood, Committed, Request, Creds
<1> QED
  BY <1>1, <1>2, <1>3, <1>4, <1>5, <1>6, <1>7, <1>8, <1>9, <1>10, <1>11, <1>12, <1>13
     DEF Next, McpKey

LEMMA ChangeNext == IInv /\ [Next]_vars => OneChange'
<1> SUFFICES ASSUME IInv, [Next]_vars PROVE OneChange'
  OBVIOUS
<1>a. /\ Idle \in Request /\ Idle.at = "idle" /\ Idle.op = "none" /\ Idle.old = None
      /\ ~Idle.late /\ Idle.cred = None
      /\ None \notin Keys /\ None \notin Creds
  BY NoneAssumption DEF Idle, Request, Places, Operations, Creds
<1>1. ASSUME NEW k \in Keys, KeyExpires(k)
      PROVE  OneChange'
  BY <1>1, <1>a
     DEF KeyExpires, IInv, TypeOK, OpsFit, WithdrawnGone, PendingFresh,
         OneChange, OnlyInFile, Changing, Pending, Committed, Request, mcpVars,
         Creds
<1>2. ASSUME NEW k \in Keys, NEW e \in {"none", "ahead"}, CreateKey(k, e)
      PROVE  OneChange'
  <2>1. /\ Changing' = Changing /\ \A x \in mcp : row'[x] = row[x]
        /\ file # None => row'[file] = row[file]
    BY <1>2 DEF CreateKey, Drawn, Changing, IInv, WithdrawnGone, TypeOK, Creds
  <2> QED
    BY <1>2, <2>1 DEF CreateKey, IInv, OneChange, OnlyInFile, Changing, Pending, mcpVars
<1>3. ASSUME NEW c \in Clients, CreateClient(c)
      PROVE  OneChange'
  <2>1. /\ Changing' = Changing /\ \A x \in mcp : row'[x] = row[x]
        /\ file # None => row'[file] = row[file]
    BY <1>3 DEF CreateClient, Drawn, Changing, IInv, WithdrawnGone, TypeOK, Creds
  <2> QED
    BY <1>3, <2>1 DEF CreateClient, IInv, OneChange, OnlyInFile, Changing, Pending, mcpVars
<1>4. ASSUME NEW c \in Clients, TokenExpires(c)
      PROVE  OneChange'
  BY <1>4, <1>a
     DEF TokenExpires, IInv, TypeOK, OpsFit, WithdrawnGone, PendingFresh,
         OneChange, OnlyInFile, Changing, Pending, Committed, Request, mcpVars,
         Creds
<1>5. ASSUME NEW w \in Workers, Calls(w)
      PROVE  OneChange'
  BY <1>5, <1>a
     DEF Calls, PresentKey, PresentToken, BeginToken, IssueToken, Touch,
         Answer, IInv, TypeOK, OpsFit, WithdrawnGone, PendingFresh, OneChange,
         OnlyInFile, Changing, Pending, Committed, Request, Creds, Begin, mcpVars,
         End, Stored, Goto
<1>6. ASSUME NEW w \in Workers, NEW c \in Creds, LoadRevoke(w, c)
      PROVE  OneChange'
  BY <1>6, <1>a
     DEF LoadRevoke, IInv, TypeOK, OpsFit, WithdrawnGone, PendingFresh,
         OneChange, OnlyInFile, Changing, Pending, Committed, Begin, Request,
         mcpVars, Creds
<1>7. ASSUME NEW w \in Workers, NEW c \in Creds, LoadDelete(w, c)
      PROVE  OneChange'
  BY <1>7, <1>a
     DEF LoadDelete, IInv, TypeOK, OpsFit, WithdrawnGone, PendingFresh,
         OneChange, OnlyInFile, Changing, Pending, Committed, Begin, Stored,
         Request, mcpVars, Creds
<1>8. ASSUME NEW w \in Workers, CommitRevoke(w)
      PROVE  OneChange'
  BY <1>8, <1>a
     DEF CommitRevoke, IInv, TypeOK, OpsFit, WithdrawnGone, PendingFresh,
         OneChange, OnlyInFile, Changing, Pending, Committed, End, Stored, Request,
         mcpVars, Creds
<1>9. ASSUME NEW w \in Workers, CommitDelete(w)
      PROVE  OneChange'
  BY <1>9, <1>a
     DEF CommitDelete, IInv, TypeOK, OpsFit, WithdrawnGone, PendingFresh,
         OneChange, OnlyInFile, Changing, Pending, Committed, End, Request,
         mcpVars, Creds
<1>10. ASSUME NEW w \in Workers, BeginRotate(w)
      PROVE  OneChange'
  <2>1. Changing' = Changing \cup {w}
    BY <1>10, <1>a DEF BeginRotate, Begin, Changing, IInv, TypeOK
  <2>2. ASSUME ~disturbed' PROVE Changing = {} /\ ~disturbed /\ OnlyInFile
    BY <1>10, <2>2 DEF BeginRotate, IInv, OneChange
  <2>3. /\ req'[w].at \in {"commit", "unlink"} /\ req'[w].old = Previous
        /\ req'[w].at = "unlink" => file # None /\ Previous = None
        /\ UNCHANGED <<row, mcp, file>>
    BY <1>10 DEF BeginRotate, Begin, IInv, TypeOK
  <2>4. file # None /\ row[file] = "active" => Previous = file
    BY DEF IInv, TypeOK, Previous
  <2>5. OnlyInFile' = OnlyInFile
    BY <2>3 DEF OnlyInFile
  <2> QED
    BY <1>a, <2>1, <2>2, <2>3, <2>4, <2>5 DEF OneChange, OnlyInFile, Pending
<1>11. ASSUME NEW w \in Workers, BeginClear(w)
      PROVE  OneChange'
  <2>1. Changing' = Changing \cup {w}
    BY <1>11, <1>a DEF BeginClear, Begin, Changing, IInv, TypeOK
  <2>2. ASSUME ~disturbed' PROVE Changing = {} /\ ~disturbed /\ OnlyInFile
    BY <1>11, <2>2 DEF BeginClear, IInv, OneChange
  <2>3. /\ req'[w].at \in {"commit", "unlink"} /\ req'[w].old = Previous
        /\ req'[w].at = "unlink" => file # None /\ Previous = None
        /\ UNCHANGED <<row, mcp, file>>
    BY <1>11 DEF BeginClear, Begin, IInv, TypeOK
  <2>4. file # None /\ row[file] = "active" => Previous = file
    BY DEF IInv, TypeOK, Previous
  <2>5. OnlyInFile' = OnlyInFile
    BY <2>3 DEF OnlyInFile
  <2> QED
    BY <1>a, <2>1, <2>2, <2>3, <2>4, <2>5 DEF OneChange, OnlyInFile, Pending
<1>12. ASSUME NEW w \in Workers, NEW k \in Keys, CommitRotate(w, k)
      PROVE  OneChange'
  <2>1. /\ row' = [c \in Creds |-> IF c = k THEN "active"
                                   ELSE IF c \in Hit(w) THEN "revoked" ELSE row[c]]
        /\ req[w].op = "rotate" /\ req[w].at = "commit"
        /\ mcp' = mcp \cup {k} /\ UNCHANGED <<file, disturbed>>
    BY <1>12 DEF CommitRotate
  <2>2. /\ \A v \in Workers : req'[v].op = req[v].op /\ (v # w => req'[v] = req[v])
        /\ req'[w].at = "open" /\ req'[w].cred = k
    BY <1>12 DEF CommitRotate, IInv, TypeOK, Request
  <2>3. Changing' = Changing /\ w \in Changing
    BY <2>1, <2>2 DEF Changing
  <2>4. ASSUME ~disturbed, NEW x \in mcp', row'[x] = "active" PROVE x = k
    <3> SUFFICES ASSUME x # k PROVE FALSE
      OBVIOUS
    <3>1. x \in mcp /\ x \in Creds /\ row[x] = "active" /\ x \notin Hit(w)
      BY <2>1, <2>4 DEF IInv, TypeOK, Creds
    <3>2. x = file /\ req[w].old = file
      BY <1>a, <2>1, <2>3, <2>4, <3>1 DEF IInv, TypeOK, OneChange, OnlyInFile
    <3> QED
      BY <1>a, <2>1, <3>1, <3>2, HitRow DEF IInv, TypeOK
  <2>5. ~disturbed => \A v \in Changing : v = w
    BY <2>3 DEF IInv, OneChange
  <2> QED
    BY <2>1, <2>2, <2>3, <2>4, <2>5 DEF OneChange, Pending
<1>13. ASSUME NEW w \in Workers, OpenFile(w)
      PROVE  OneChange'
  BY <1>13, <1>a
     DEF OpenFile, IInv, TypeOK, OpsFit, WithdrawnGone, PendingFresh,
         OneChange, OnlyInFile, Changing, Pending, Committed, Goto, Request, Creds
<1>14. ASSUME NEW w \in Workers, WriteFile(w)
      PROVE  OneChange'
  BY <1>14, <1>a
     DEF WriteFile, IInv, TypeOK, OpsFit, WithdrawnGone, PendingFresh,
         OneChange, OnlyInFile, Changing, Pending, Committed, End, Request,
         Replaced, Creds
<1>15. ASSUME NEW w \in Workers, CommitClear(w)
      PROVE  OneChange'
  <2>1. /\ row' = [c \in Creds |-> IF c \in Hit(w) THEN "revoked" ELSE row[c]]
        /\ req[w].op = "clear" /\ req[w].at = "commit"
        /\ UNCHANGED <<mcp, file, disturbed>>
    BY <1>15 DEF CommitClear, mcpVars
  <2>2. /\ \A v \in Workers : req'[v].op = req[v].op /\ (v # w => req'[v] = req[v])
        /\ req'[w].at = "unlink"
    BY <1>15 DEF CommitClear, Goto, IInv, TypeOK, Request
  <2>3. Changing' = Changing /\ w \in Changing
    BY <2>1, <2>2 DEF Changing
  <2>4. ASSUME ~disturbed, NEW x \in mcp PROVE row'[x] # "active"
    <3> SUFFICES ASSUME row'[x] = "active" PROVE FALSE
      OBVIOUS
    <3>1. x \in Creds /\ row[x] = "active" /\ x \notin Hit(w)
      BY <2>1, <2>4 DEF IInv, TypeOK, Creds
    <3>2. x = file /\ req[w].old = file
      BY <1>a, <2>1, <2>3, <2>4, <3>1 DEF IInv, TypeOK, OneChange, OnlyInFile
    <3> QED
      BY <1>a, <2>1, <3>1, <3>2, HitRow DEF IInv, TypeOK
  <2>5. ~disturbed => \A v \in Changing : v = w
    BY <2>3 DEF IInv, OneChange
  <2> QED
    BY <2>1, <2>2, <2>3, <2>4, <2>5 DEF OneChange, Pending
<1>16. ASSUME NEW w \in Workers, Unlink(w)
      PROVE  OneChange'
  BY <1>16, <1>a
     DEF Unlink, IInv, TypeOK, OpsFit, WithdrawnGone, PendingFresh, OneChange,
         OnlyInFile, Changing, Pending, Committed, End, Request, Replaced, Creds
<1>17. ASSUME NEW w \in Workers, RowGone(w)
      PROVE  OneChange'
  BY <1>17, <1>a
     DEF RowGone, IInv, TypeOK, OpsFit, WithdrawnGone, PendingFresh, OneChange,
         OnlyInFile, Changing, Pending, Committed, End, Stored, Request, mcpVars,
         Creds
<1>18. ASSUME NEW w \in Workers, Fail(w)
      PROVE  OneChange'
  <2>1. Changing' \subseteq Changing /\ UNCHANGED <<row, mcp, file>>
    BY <1>18, <1>a DEF Fail, End, Changing, IInv, TypeOK
  <2>2. \A v \in Changing' : req'[v] = req[v]
    BY <1>18, <1>a DEF Fail, End, Changing, IInv, TypeOK
  <2>3. ASSUME ~disturbed', Changing # {} , Changing' = {} PROVE OnlyInFile
    BY <1>18, <1>a, <2>3 DEF Fail, End, Committed, Changing, IInv, TypeOK, OneChange, OpsFit
  <2>4. ~disturbed' => ~disturbed
    BY <1>18 DEF Fail
  <2> QED
    BY <2>1, <2>2, <2>3, <2>4 DEF IInv, OneChange, OnlyInFile, Pending
<1>19. CASE Restart
  <2>1. Changing' \subseteq Changing /\ UNCHANGED <<row, mcp, file>>
    BY <1>19, <1>a DEF Restart, End, Changing, IInv, TypeOK
  <2>2. \A v \in Changing' : req'[v] = req[v]
    BY <1>19, <1>a DEF Restart, End, Changing, IInv, TypeOK
  <2>3. ASSUME ~disturbed', Changing # {} , Changing' = {} PROVE OnlyInFile
    BY <1>19, <1>a, <2>3 DEF Restart, End, Committed, Changing, IInv, TypeOK, OneChange, OpsFit
  <2>4. ~disturbed' => ~disturbed
    BY <1>19 DEF Restart
  <2> QED
    BY <2>1, <2>2, <2>3, <2>4 DEF IInv, OneChange, OnlyInFile, Pending
<1>20. CASE UNCHANGED vars
  BY <1>20
     DEF vars, IInv, TypeOK, OpsFit, WithdrawnGone, PendingFresh, OneChange,
         OnlyInFile, Changing, Pending, Committed, Request, Creds
<1> QED
  BY <1>1, <1>2, <1>3, <1>4, <1>5, <1>6, <1>7, <1>8, <1>9, <1>10, <1>11, <1>12, <1>13, <1>14, <1>15, <1>16, <1>17, <1>18, <1>19, <1>20
     DEF Next, Issuing, Withdrawals, McpKey

LEMMA InitIInv == Init => IInv
<1> SUFFICES ASSUME Init PROVE IInv
  OBVIOUS
<1>1. Idle \in Request /\ Idle.at = "idle" /\ Idle.op = "none"
  BY DEF Idle, Request, Places, Operations
<1>2. TypeOK
  <2>1. row \in [Creds -> Statuses] /\ failures \in 0..MaxFailures
    BY FailuresAssumption DEF Init, Statuses
  <2>2. /\ expiry \in [Keys -> {"none", "ahead", "passed"}]
        /\ withdrawn \in [Creds -> {"no", "replaced", "pulled", "struck"}]
        /\ id \in [Creds -> Nat]
    BY DEF Init
  <2>3. \A w \in Workers : req[w].at = "idle"
    BY <1>1 DEF Init
  <2>4. req \in [Workers -> Request] /\ file \in Keys \cup {None}
    BY <1>1 DEF Init
  <2> QED
    BY <2>1, <2>2, <2>3, <2>4 DEF Init, TypeOK
<1>3. \A w \in Workers : req[w] = Idle
  BY DEF Init
<1>4. Changing = {} /\ OnlyInFile /\ OpsFit /\ CallsFresh /\ PendingFresh
  BY <1>1, <1>3 DEF Init, Changing, OnlyInFile, OpsFit, CallsFresh, PendingFresh,
                    Pending
<1>5. FileGood /\ OneChange
  BY <1>4 DEF Init, FileGood, OneChange
<1>6. WithdrawnGone
  BY <1>3 DEF Init, WithdrawnGone, Idle
<1>7. CredsNamed
  BY <1>1, <1>3 DEF CredsNamed
<1>8. IdsFit
  <2>1. \A c \in Creds : ~Stored(c)
    BY DEF Init, Stored
  <2>2. \A w \in Workers : RowLoaded(w)
    BY <1>1, <1>3 DEF RowLoaded
  <2> QED
    BY <2>1, <2>2 DEF IdsFit, IdsUnique
<1> QED
  BY <1>2, <1>4, <1>5, <1>6, <1>7, <1>8 DEF IInv

LEMMA NextIInv == IInv /\ [Next]_vars => IInv'
BY TypesNext, OpsNext, NamedNext, IdsNext, WithdrawnNext, CallsNext, PendingNext, FileNext, ChangeNext
   DEF IInv

LEMMA AlwaysIInv == Spec => []IInv
BY InitIInv, NextIInv, PTL DEF Spec

(* Rows, file and requests stay well formed. *)
THEOREM AccessTypes == Spec => []TypeOK
<1>1. IInv => TypeOK
  BY DEF IInv
<1> QED
  BY <1>1, AlwaysIInv, PTL

(* No call is served with a credential whose withdrawal was answered       *)
(* before the call began.                                                  *)
THEOREM WithdrawnRefused == Spec => []NoCallAfterWithdrawal
<1>1. IInv => NoCallAfterWithdrawal
  BY DEF IInv, CallsFresh, NoCallAfterWithdrawal
<1> QED
  BY <1>1, AlwaysIInv, PTL

(* However many rotations and clearings overlap, when none runs the key in *)
(* the file is active, unless it was pulled by hand, a request that had    *)
(* loaded the former row of its id struck it, or a change was cut off.     *)
THEOREM McpServerHasAKey == Spec => []FileKeyWorks
<1>1. IInv => FileKeyWorks
  <2>1. IInv => \A w \in Workers : Committed(w) => w \in Changing
    BY DEF IInv, OpsFit, Committed, Changing
  <2> QED
    BY <2>1 DEF IInv, FileGood, FileKeyWorks
<1> QED
  BY <1>1, AlwaysIInv, PTL

(* Changes of the MCP key that neither overlap nor fail leave no key but   *)
(* the one in the file active.                                             *)
THEOREM OneMcpKey == Spec => []OldMcpKeysStop
<1>1. IInv => OldMcpKeysStop
  BY DEF IInv, OneChange, OnlyInFile, OldMcpKeysStop
<1> QED
  BY <1>1, AlwaysIInv, PTL
-----------------------------------------------------------------------------
(* The tables and the answers implement CredentialPromise.                 *)

(* What a changed row is to the holder of the credential. *)
LEMMA StandingOfRow ==
  ASSUME TypeOK, NEW c \in Creds, NEW s \in Statuses, row' = [row EXCEPT ![c] = s]
  PROVE  Standing' = [Standing EXCEPT ![c] = CASE s = "unissued" -> "unissued"
                                               [] s = "active" -> "good"
                                               [] OTHER -> "over"]
BY DEF Standing, TypeOK

(* A step that begins no call, and may end some. *)
LEMMA NoCallBegins ==
  ASSUME \A v \in Workers : req'[v].op = "call" =>
           req[v].op = "call" /\ req'[v].cred = req[v].cred
  PROVE  \E ended \in SUBSET Workers :
           InCall' = [w \in Workers |-> IF w \in ended THEN None ELSE InCall[w]]
<1> DEFINE ended == {w \in Workers : req'[w].op # "call"}
<1>1. InCall' = [w \in Workers |-> IF w \in ended THEN None ELSE InCall[w]]
  BY DEF InCall
<1> QED
  BY <1>1

(* A step of one request that is no call. *)
LEMMA OtherRequest ==
  ASSUME TypeOK, NEW w \in Workers, req[w].op # "call", NEW r, r.op # "call",
         req' = [req EXCEPT ![w] = r]
  PROVE  InCall' = InCall
BY DEF InCall, TypeOK

(* A step that only ends requests, or moves them on. *)
LEMMA RequestsMove ==
  ASSUME UNCHANGED <<row, withdrawn>>,
         \A v \in Workers : req'[v].op = "call" =>
           req[v].op = "call" /\ req'[v].cred = req[v].cred
  PROVE  Promise!PromiseNext
<1>1. Standing' = Standing /\ Announced' = Announced
  BY DEF Standing, Announced
<1>2. PICK ended \in SUBSET Workers :
        InCall' = [w \in Workers |-> IF w \in ended THEN None ELSE InCall[w]]
  BY NoCallBegins
<1> QED
  BY <1>1, <1>2 DEF Promise!PromiseNext, Promise!Finish

LEMMA StepHonours ==
  ASSUME IInv, [Next]_vars
  PROVE  [Promise!PromiseNext]_(Promise!promiseVars)
<1> DEFINE Goal == [Promise!PromiseNext]_(Promise!promiseVars)
<1>1. TypeOK /\ Idle.op = "none" /\ Idle.cred = None /\ None \notin Creds
  BY NoneAssumption DEF IInv, Idle, Creds
<1>2. Standing = [c \in Creds |-> Standing[c]]
  BY DEF Standing
<1>3. ASSUME NEW c \in Creds, row[c] = "unissued", row' = [row EXCEPT ![c] = "active"],
             UNCHANGED <<withdrawn, req>>
      PROVE  Goal
  <2>1. Standing' = [Standing EXCEPT ![c] = "good"] /\ Standing[c] = "unissued"
    BY <1>1, <1>3, StandingOfRow DEF Standing, Statuses
  <2>2. Announced' = Announced /\ InCall' = InCall
    BY <1>3 DEF Announced, InCall
  <2> QED
    BY <2>1, <2>2 DEF Promise!PromiseNext, Promise!Issue
(* A commit that withdraws, an answer that says so, or both at once. *)
<1>4. ASSUME NEW c \in Creds, row[c] # "unissued",
             row' = [row EXCEPT ![c] = row'[c]], row'[c] \in {"revoked", "deleted"},
             Announced \subseteq Announced',
             \A x \in Announced' \ Announced : row'[x] \in {"revoked", "deleted"},
             InCall' = InCall
      PROVE  Goal
  <2> DEFINE said == Announced' \ Announced
  <2>1. Standing' = [Standing EXCEPT ![c] = "over"] /\ Standing[c] # "unissued"
    BY <1>1, <1>4, StandingOfRow DEF Standing, Statuses
  <2>2. said \in SUBSET {x \in Creds : Standing'[x] = "over"}
    BY <1>4 DEF Standing, Announced
  <2>3. Announced' = Announced \cup said
    BY <1>4
  <2>4. Promise!Withdraw(c)
    BY <1>4, <2>1, <2>2, <2>3 DEF Promise!Withdraw
  <2> QED
    BY <2>4 DEF Promise!PromiseNext
<1>5. ASSUME NEW w \in Workers, NEW c \in Creds, NEW place, row[c] = "active",
             Begin(w, place, "call", c, None), UNCHANGED <<row, withdrawn>>
      PROVE  Goal
  <2>1. Standing' = Standing /\ Announced' = Announced /\ Standing[c] = "good"
    BY <1>5 DEF Standing, Announced
  <2>2. InCall[w] = None /\ InCall' = [InCall EXCEPT ![w] = c]
    BY <1>1, <1>5 DEF Begin, InCall, TypeOK
  <2> QED
    BY <2>1, <2>2 DEF Promise!PromiseNext, Promise!Call
<1>6. ASSUME UNCHANGED <<row, withdrawn>>,
             \A v \in Workers : req'[v].op = "call" =>
               req[v].op = "call" /\ req'[v].cred = req[v].cred
      PROVE  Goal
  BY <1>6, RequestsMove
<1>7. ASSUME NEW w \in Workers, NEW place, NEW op, NEW c, NEW old,
             Begin(w, place, op, c, old), op # "call", UNCHANGED <<row, withdrawn>>
      PROVE  Goal
  <2>1. \A v \in Workers : req'[v].op = "call" =>
          req[v].op = "call" /\ req'[v].cred = req[v].cred
    BY <1>1, <1>7 DEF Begin, TypeOK
  <2> QED
    BY <1>6, <1>7, <2>1
<1>8. ASSUME NEW w \in Workers, End(w), UNCHANGED <<row, withdrawn>> PROVE Goal
  <2>1. \A v \in Workers : req'[v].op = "call" =>
          req[v].op = "call" /\ req'[v].cred = req[v].cred
    BY <1>1, <1>8 DEF End, TypeOK
  <2> QED
    BY <1>6, <1>8, <2>1
<1>9. ASSUME NEW w \in Workers, NEW place, Goto(w, place), UNCHANGED <<row, withdrawn>>
      PROVE  Goal
  <2>1. \A v \in Workers : req'[v].op = "call" =>
          req[v].op = "call" /\ req'[v].cred = req[v].cred
    BY <1>1, <1>9 DEF Goto, TypeOK, Request
  <2> QED
    BY <1>6, <1>9, <2>1
<1>10. CASE Issuing
  <2>1. CASE \/ \E k \in Keys : KeyExpires(k)
             \/ \E c \in Clients : TokenExpires(c)
    BY <1>6, <2>1 DEF KeyExpires, TokenExpires
  <2>2. CASE \/ \E k \in Keys, e \in {"none", "ahead"} : CreateKey(k, e)
             \/ \E c \in Clients : CreateClient(c)
    BY <1>3, <2>2 DEF CreateKey, CreateClient, Drawn, Creds
  <2> QED
    BY <1>10, <2>1, <2>2 DEF Issuing
<1>11. ASSUME NEW w \in Workers, Calls(w) PROVE Goal
  BY <1>5, <1>7, <1>8, <1>9, <1>11
     DEF Calls, PresentKey, PresentToken, BeginToken, IssueToken, Touch, Answer, Creds
<1>12. ASSUME NEW w \in Workers, CommitRevoke(w) \/ CommitDelete(w) PROVE Goal
  <2> DEFINE c == req[w].cred
  <2>1. c \in Creds /\ row[c] # "unissued" /\ req[w].op \in {"revoke", "delete"}
    BY <1>12 DEF CommitRevoke, CommitDelete, IInv, CredsNamed
  <2>2. PICK s \in {"revoked", "deleted"} :
          /\ row' = [x \in Creds |-> IF x \in Hit(w) THEN s ELSE row[x]]
          /\ Hit(w) = {} => s = "deleted"
    BY <1>12 DEF CommitRevoke, CommitDelete
  <2>3. withdrawn' = [Struck(w) EXCEPT ![c] = "pulled"]
    BY <1>12 DEF CommitRevoke, CommitDelete
  <2>4. Announced' = Announced \cup {c}
    <3>1. \A x \in Creds : Struck(w)[x] \in {"replaced", "pulled"}
                           <=> withdrawn[x] \in {"replaced", "pulled"}
      BY <1>1, StruckRows
    <3> QED
      BY <1>1, <2>1, <2>3, <3>1, StruckRows DEF Announced
  <2>5. row'[c] \in {"revoked", "deleted"}
    BY <2>1, <2>2, HitRow
  <2>6. InCall' = InCall
    BY <1>1, <1>12, <2>1, OtherRequest DEF CommitRevoke, CommitDelete, End
  <2>7. CASE Hit(w) = {}
    <3>1. row' = row
      BY <1>1, <2>2, <2>7 DEF TypeOK
    <3>2. row' = [row EXCEPT ![c] = row'[c]]
      BY <1>1, <2>1, <3>1 DEF TypeOK
    <3> QED
      BY <1>4, <2>1, <2>4, <2>5, <2>6, <3>2
  <2>8. ASSUME NEW x \in Hit(w) PROVE Goal
    <3>1. x \in Creds /\ row[x] # "unissued" /\ \A y \in Hit(w) : y = x
      BY HitRow
    <3>2. row' = [row EXCEPT ![x] = row'[x]] /\ row'[x] \in {"revoked", "deleted"}
      BY <1>1, <2>2, <2>8, <3>1 DEF TypeOK
    <3> QED
      BY <1>4, <2>1, <2>4, <2>5, <2>6, <3>1, <3>2
  <2> QED
    BY <2>7, <2>8
<1>13. ASSUME NEW w \in Workers, NEW k \in Keys, CommitRotate(w, k) PROVE Goal
  <2>1. /\ row[k] = "unissued" /\ k \in Creds /\ withdrawn' = Struck(w)
        /\ row' = [c \in Creds |-> IF c = k THEN "active"
                                   ELSE IF c \in Hit(w) THEN "revoked" ELSE row[c]]
    BY <1>13 DEF CommitRotate, Drawn, Creds
  <2>2. Announced' = Announced
    BY <1>1, <2>1, StruckRows DEF Announced
  <2>3. InCall' = InCall
    BY <1>13 DEF CommitRotate, InCall, IInv, TypeOK, Request
  <2>4. Standing[k] = "unissued"
    BY <2>1 DEF Standing
  <2>5. CASE Hit(w) = {}
    <3>1. Standing' = [Standing EXCEPT ![k] = "good"]
      BY <2>1, <2>5 DEF Standing
    <3> QED
      BY <2>1, <2>2, <2>3, <2>4, <3>1 DEF Promise!PromiseNext, Promise!Issue
  <2>6. ASSUME NEW old \in Hit(w) PROVE Goal
    <3>1. row[old] # "unissued" /\ old # k /\ old \in Creds /\ \A x \in Hit(w) : x = old
      BY <2>1, HitRow
    <3>2. Standing[old] # "unissued"
      BY <3>1 DEF Standing
    <3>3. Standing' = [Standing EXCEPT ![k] = "good", ![old] = "over"]
      BY <2>1, <2>6, <3>1 DEF Standing
    <3> QED
      BY <2>1, <2>2, <2>3, <2>4, <3>1, <3>2, <3>3
         DEF Promise!PromiseNext, Promise!Replace
  <2> QED
    BY <2>5, <2>6
<1>14. ASSUME NEW w \in Workers, CommitClear(w) PROVE Goal
  <2>1. /\ row' = [c \in Creds |-> IF c \in Hit(w) THEN "revoked" ELSE row[c]]
        /\ withdrawn' = Struck(w) /\ Goto(w, "unlink") /\ req[w].op = "clear"
        /\ Hit(w) # {}
    BY <1>14 DEF CommitClear
  <2>2. InCall' = InCall
    BY <1>1, <2>1 DEF Goto, InCall, TypeOK, Request
  <2>3. Announced' = Announced
    BY <1>1, <2>1, StruckRows DEF Announced
  <2>4. PICK old \in Hit(w) : TRUE
    BY <2>1
  <2>5. old \in Creds /\ row[old] # "unissued" /\ \A x \in Hit(w) : x = old
    BY HitRow
  <2>6. row' = [row EXCEPT ![old] = row'[old]] /\ row'[old] \in {"revoked", "deleted"}
    BY <1>1, <2>1, <2>4, <2>5 DEF TypeOK
  <2> QED
    BY <1>4, <2>2, <2>3, <2>5, <2>6
(* The end of a change of the MCP key says that the old key is over. *)
<1>15. ASSUME NEW w \in Workers, WriteFile(w) \/ Unlink(w) PROVE Goal
  <2> DEFINE old == req[w].old
  <2>1. /\ Replaced(old) /\ End(w) /\ UNCHANGED row
        /\ Committed(w) /\ req[w].op \in {"rotate", "clear"}
    BY <1>15 DEF WriteFile, Unlink, Committed, IInv, OpsFit
  <2>2. InCall' = InCall
    BY <1>1, <2>1, OtherRequest DEF End
  <2>3. Standing' = Standing
    BY <2>1 DEF Standing
  <2>4. old \in Keys \cup {None}
    BY <1>1 DEF TypeOK, Request
  <2>5. CASE old = None
    <3>1. Announced' = Announced
      BY <1>1, <2>1, <2>5 DEF Replaced, Announced
    <3> QED
      BY <2>2, <2>3, <3>1 DEF Promise!promiseVars
  <2>6. CASE old \in Keys
    <3>1. row[old] \in {"revoked", "deleted"} /\ old \in Creds
      BY <1>1, <2>1, <2>6 DEF IInv, WithdrawnGone, Creds
    <3>3. row' = [row EXCEPT ![old] = row'[old]] /\ row'[old] \in {"revoked", "deleted"}
      BY <1>1, <2>1, <3>1 DEF TypeOK
    <3>4. Announced' = Announced \cup {old}
      BY <1>1, <2>1, <3>1 DEF Replaced, Announced, TypeOK
    <3> QED
      BY <1>4, <2>1, <2>2, <3>1, <3>3, <3>4
  <2> QED
    BY <2>4, <2>5, <2>6
<1>16. ASSUME NEW w \in Workers, Withdrawals(w) PROVE Goal
  BY <1>7, <1>12, <1>16 DEF Withdrawals, LoadRevoke, LoadDelete
<1>17. ASSUME NEW w \in Workers, McpKey(w) PROVE Goal
  BY <1>7, <1>9, <1>13, <1>14, <1>15, <1>17
     DEF McpKey, BeginRotate, BeginClear, OpenFile
<1>18. ASSUME NEW w \in Workers, RowGone(w) \/ Fail(w) PROVE Goal
  BY <1>8, <1>18 DEF RowGone, Fail
<1>19. CASE Restart
  BY <1>1, <1>6, <1>19 DEF Restart
<1>20. CASE UNCHANGED vars
  BY <1>20 DEF vars, Promise!promiseVars, Standing, Announced, InCall
<1> QED
  BY <1>10, <1>11, <1>16, <1>17, <1>18, <1>19, <1>20 DEF Next

(* However requests overlap, fail or die, what holders and administrators  *)
(* see of credentials is a history that CredentialPromise allows.          *)
THEOREM PromiseHonoured == Spec => HonoursPromise
<1>1. Init => Promise!PromiseInit /\ CredsNamed
  <2> SUFFICES ASSUME Init PROVE Promise!PromiseInit /\ CredsNamed
    OBVIOUS
  <2>1. Standing = [c \in Creds |-> "unissued"] /\ Announced = {}
    BY DEF Init, Standing, Announced
  <2>2. InCall = [w \in Workers |-> None] /\ CredsNamed
    BY DEF Init, InCall, Idle, CredsNamed
  <2> QED
    BY <2>1, <2>2 DEF Promise!PromiseInit
<1>2. IInv /\ CredsNamed /\ [Next]_vars => CredsNamed'
  BY NamedNext
<1>3. IInv /\ CredsNamed /\ [Next]_vars => [Promise!PromiseNext]_(Promise!promiseVars)
  BY StepHonours
<1> QED
  BY <1>1, <1>2, <1>3, AlwaysIInv, PTL DEF Spec, HonoursPromise, Promise!PromiseSpec
=============================================================================
