--------------------------- MODULE SettingsProofs ---------------------------
(***************************************************************************)
(* Proofs about SystemSettings, for any number of requests, of windows, of *)
(* keys and of archives.  Shape joins what the requests and the restore    *)
(* look like, Keys what the requests and the caches hold of the key, and   *)
(* Settled what they hold of the retention window.                         *)
(***************************************************************************)
EXTENDS SystemSettings, TLAPS

USE DEF keyVars, Midway

Steps == {"swapped", "blanked", "keyed", "cleared"}

(* Once the file is swapped every request with a session is one of before. *)
Shape ==
  /\ restore.at \in Steps => \A w \in Workers :
       req[w].op \in {"page", "set", "secret"} => req[w].old
  /\ \A w \in Workers :
       /\ req[w].at \in {"encrypt", "create", "fill", "fernet", "commit"} =>
            req[w].op = "secret"
       /\ req[w].at \in {"create", "fill", "fernet", "commit"} =>
            req[w].secret \in SecretKeys
       /\ req[w].at \in {"load", "store", "use", "write", "invalidate", "delete"} =>
            req[w].op # "secret"

(* The key on disk, the cached one and those held by the requests agree. *)
Keys ==
  (~spoiled /\ ~astray) =>
    /\ ~Midway => fernet \in {key, None} /\ file.secret \in {key, None}
    /\ restore.at \in Steps => file.secret = restore.from.content.secret
    /\ restore.at \in {"keyed", "cleared"} => restore.from.key \in {key, None}
    /\ \A w \in Workers :
         req[w].at \in {"fernet", "commit"} /\ ~req[w].old => req[w].secret = key

(* The window that a request holds without doubt is that of the file. *)
Held(w) ==
  (~spoiled /\ ~req[w].doubt) =>
    /\ req[w].at \in {"store", "invalidate", "delete"} => req[w].window = file.window
    /\ req[w].at = "write" /\ ~req[w].old => req[w].seen = file.window
    /\ req[w].at = "delete" => req[w].window # 0

Settled == CacheFollowsSetting /\ \A w \in Workers : Held(w)

SettingsInv == TypeOK /\ Shape /\ Keys /\ Settled

LEMMA IdleRequest ==
  /\ Idle \in Request /\ Idle.at = "idle" /\ Idle.op = "none" /\ ~Idle.old
  /\ None \notin SecretKeys /\ None \notin Archives /\ None \notin Cached
  /\ Empty \notin SecretKeys /\ Empty # None
  /\ Default \in Windows
  /\ \A a \in Archives : /\ a.content \in Content /\ a.key \in SecretKeys \cup {None}
                          /\ a.content.secret \in {a.key, None}
BY WindowsAssumption, ArchivesAssumption, NoneAssumption
   DEF Idle, Request, Places, Operations, Archive

(* What a load leaves with the request: the window of the file, or one     *)
(* that is in doubt.                                                       *)
LEMMA LoadStep ==
  ASSUME NEW w \in Workers, TypeOK, Load(w)
  PROVE  \E x \in Windows, b \in BOOLEAN :
           /\ req' = [req EXCEPT ![w] = [req[w] EXCEPT !.at = "store", !.window = x,
                                                       !.doubt = b]]
           /\ ~b => x = file.window
BY IdleRequest DEF Load, Goto, TypeOK, Content

(* A use of the cache ends the request, or lets it prune with what the     *)
(* cache holds.                                                            *)
LEMMA UseCacheStep ==
  ASSUME NEW w \in Workers, TypeOK, UseCache(w)
  PROVE  /\ req[w].at = "use"
         /\ UNCHANGED <<file, keyVars, cache, restore, pooled, spoiled>>
         /\ \E r \in Request :
              /\ req' = [req EXCEPT ![w] = r]
              /\ \/ r.at = "close" /\ r.old /\ req[w].old /\ r.op = req[w].op
                 \/ r = Idle
                 \/ /\ r.at = "delete" /\ r.op = req[w].op /\ r.old = req[w].old
                    /\ cache # None /\ r.window = cache.window /\ r.window # 0
                    /\ ~r.doubt => cache.sure /\ ~Lagging
<1>1. /\ req[w].at = "use"
      /\ UNCHANGED <<file, keyVars, cache, restore, pooled, spoiled>>
  BY DEF UseCache
<1>2. req[w] \in Request
  BY DEF TypeOK
<1>3. CASE cache = None \/ req[w].op = "page" \/ cache.window = 0
  <2>1. req' = [req EXCEPT ![w] = Ended(req[w])]
    BY <1>3 DEF UseCache, Finish, Goto
  <2>2. /\ Ended(req[w]) \in Request
        /\ \/ Ended(req[w]) = Idle
           \/ /\ Ended(req[w]).at = "close" /\ Ended(req[w]).old /\ req[w].old
              /\ Ended(req[w]).op = req[w].op
    BY <1>2, IdleRequest DEF Ended, Request, Places
  <2> QED
    BY <1>1, <2>1, <2>2
<1>4. CASE ~(cache = None \/ req[w].op = "page" \/ cache.window = 0)
  <2> DEFINE doubt == ~cache.sure \/ Lagging
             r == [req[w] EXCEPT !.at = "delete", !.window = cache.window, !.doubt = doubt]
  <2>1. cache \in Cached /\ cache.window \in Windows /\ cache.sure \in BOOLEAN
    BY <1>4 DEF TypeOK, Cached
  <2>2. doubt \in BOOLEAN /\ (~doubt => cache.sure /\ ~Lagging)
    BY <2>1 DEF Lagging
  <2>3. req' = [req EXCEPT ![w] = r]
    BY <1>4 DEF UseCache, Goto
  <2> HIDE DEF doubt
  <2>4. r \in Request
    BY <1>2, <2>1, <2>2 DEF Request, Places
  <2>5. /\ r.at = "delete" /\ r.op = req[w].op /\ r.old = req[w].old
        /\ r.window = cache.window /\ r.doubt = doubt
    BY <1>2 DEF Request
  <2> HIDE DEF r
  <2> QED
    BY <1>1, <1>4, <2>2, <2>3, <2>4, <2>5
<1> QED
  BY <1>3, <1>4

(* The key that an encryption goes on with: the cached one, the one on     *)
(* disk, or a new one.                                                     *)
LEMMA EncryptStep ==
  ASSUME NEW w \in Workers, TypeOK, Encrypt(w)
  PROVE  /\ req[w].at = "encrypt"
         /\ UNCHANGED <<file, keyVars, cache, restore, pooled, spoiled>>
         /\ \/ req' = [req EXCEPT ![w] = Ended(req[w])]
            \/ \E at \in {"commit", "fernet", "create"}, k \in SecretKeys :
                 /\ req' = [req EXCEPT ![w] = [req[w] EXCEPT !.at = at, !.secret = k]]
                 /\ at = "commit" => k = fernet
                 /\ at = "fernet" => k = key
BY DEF Encrypt, Goto, Finish, Drawable, TypeOK

LEMMA SettingTypesNext == TypeOK /\ [Next]_vars => TypeOK'
<1> SUFFICES ASSUME TypeOK, [Next]_vars PROVE TypeOK'
  OBVIOUS
<1>1. ASSUME NEW w \in Workers, Page(w)
      PROVE  TypeOK'
  BY <1>1, IdleRequest
     DEF Page, Begin, Reading, TypeOK, Idle, Request, Places,
         Operations, Stages, Content, NoRestore, Cached
<1>2. ASSUME NEW w \in Workers, Prune(w)
      PROVE  TypeOK'
  BY <1>2, IdleRequest
     DEF Prune, Goto, Reading, TypeOK, Idle, Request, Places,
         Operations, Stages, Content, NoRestore, Cached
<1>3. ASSUME NEW w \in Workers, Load(w)
      PROVE  TypeOK'
  <2>1. PICK x \in Windows, b \in BOOLEAN :
          /\ req' = [req EXCEPT ![w] = [req[w] EXCEPT !.at = "store", !.window = x,
                                                      !.doubt = b]]
          /\ ~b => x = file.window
    BY <1>3, LoadStep
  <2>2. req' \in [Workers -> Request]
    BY <2>1 DEF TypeOK, Request, Places
  <2> QED
    BY <1>3, <2>2 DEF Load, OwnSession, TypeOK
<1>4. ASSUME NEW w \in Workers, StoreCache(w)
      PROVE  TypeOK'
  BY <1>4, IdleRequest
     DEF StoreCache, Goto, TypeOK, Idle, Request, Places, Operations,
         Stages, Content, NoRestore, Cached
<1>5. ASSUME NEW w \in Workers, UseCache(w)
      PROVE  TypeOK'
  <2>1. PICK r \in Request :
          /\ req' = [req EXCEPT ![w] = r]
          /\ \/ r.at = "close" /\ r.old /\ req[w].old /\ r.op = req[w].op
             \/ r = Idle
             \/ /\ r.at = "delete" /\ r.op = req[w].op /\ r.old = req[w].old
                /\ cache # None /\ r.window = cache.window /\ r.window # 0
                /\ ~r.doubt => cache.sure /\ ~Lagging
    BY <1>5, UseCacheStep
  <2>2. req[w].at = "use" /\ UNCHANGED <<file, keyVars, cache, restore, pooled, spoiled>>
    BY <1>5, UseCacheStep
  <2> QED
    BY <2>1, <2>2, IdleRequest
       DEF TypeOK, Idle, Request, Places, Operations, Stages, Content
<1>6. ASSUME NEW w \in Workers, DeleteOld(w)
      PROVE  TypeOK'
  BY <1>6, IdleRequest
     DEF DeleteOld, Finish, Ended, Goto, OwnSession, TypeOK, Idle,
         Request, Places, Operations, Stages, Content, NoRestore, Cached
<1>7. ASSUME NEW w \in Workers, NEW x \in Windows, BeginSet(w, x)
      PROVE  TypeOK'
  <2>1. PICK seen \in Windows :
          req' = [req EXCEPT ![w] = [Idle EXCEPT !.at = "write", !.op = "set",
                                       !.window = x, !.seen = seen, !.old = pooled]]
    BY <1>7, IdleRequest DEF BeginSet, Begin, TypeOK, Content, Idle
  <2> QED
    BY <1>7, <2>1, IdleRequest
       DEF BeginSet, TypeOK, Idle, Request, Places, Operations
<1>8. ASSUME NEW w \in Workers, CommitSet(w)
      PROVE  TypeOK'
  <2>1. file' \in Content
    BY <1>8 DEF CommitSet, TypeOK, Content, Request
  <2>2. ASSUME NEW v \in Workers
        PROVE  req'[v] \in Request
    <3>1. req[v] \in Request /\ req[w] \in Request
      BY DEF TypeOK
    <3>2. Unsettled(req[v]) \in Request
      BY <3>1 DEF Unsettled, Request
    <3> DEFINE doubt == ~(req[w].window # req[w].seen /\ ~req[w].old)
                          /\ (req[w].doubt \/ req[w].old)
               r == [req[w] EXCEPT !.at = "invalidate", !.seen = Default, !.doubt = doubt]
    <3>3. r \in Request
      BY <3>1, IdleRequest DEF Request, Places
    <3>4. req'[v] \in {r, Unsettled(req[v]), req[v]}
      BY <1>8 DEF CommitSet
    <3> HIDE DEF r
    <3> QED
      BY <3>1, <3>2, <3>3, <3>4
  <2> QED
    BY <1>8, <2>1, <2>2 DEF CommitSet, TypeOK
<1>9. ASSUME NEW w \in Workers, Invalidate(w)
      PROVE  TypeOK'
  <2>1. PICK r \in Request : req' = [req EXCEPT ![w] = r]
    <3>1. req[w] \in Request /\ Idle \in Request
      BY IdleRequest DEF TypeOK
    <3>2. /\ [req[w] EXCEPT !.at = "close"] \in Request
          /\ [req[w] EXCEPT !.at = "delete"] \in Request
      BY <3>1 DEF Request, Places
    <3> QED
      BY <1>9, <3>1, <3>2 DEF Invalidate, Finish, Ended, Goto
  <2> QED
    BY <1>9, <2>1 DEF Invalidate, TypeOK
<1>10. ASSUME NEW w \in Workers, BeginSecret(w)
      PROVE  TypeOK'
  BY <1>10, IdleRequest
     DEF BeginSecret, Begin, TypeOK, Idle, Request, Places, Operations,
         Stages, Content, NoRestore, Cached
<1>11. ASSUME NEW w \in Workers, Encrypt(w)
      PROVE  TypeOK'
  <2>1. /\ req[w].at = "encrypt"
        /\ UNCHANGED <<file, keyVars, cache, restore, pooled, spoiled>>
    BY <1>11, EncryptStep
  <2>2. CASE req' = [req EXCEPT ![w] = Ended(req[w])]
    BY <2>1, <2>2, IdleRequest
         DEF Ended, TypeOK, Idle, Request, Places, Operations, Stages,
             Content, NoRestore, Cached
  <2>3. ASSUME NEW at \in {"commit", "fernet", "create"}, NEW k \in SecretKeys,
               req' = [req EXCEPT ![w] = [req[w] EXCEPT !.at = at, !.secret = k]],
               at = "commit" => k = fernet, at = "fernet" => k = key
        PROVE  TypeOK'
    <3>1. req' \in [Workers -> Request]
      BY <2>3 DEF TypeOK, Request, Places
    <3> QED
      BY <2>1, <3>1 DEF TypeOK
  <2> QED
    BY <1>11, <2>2, <2>3, EncryptStep
<1>12. ASSUME NEW w \in Workers, CreateKey(w)
      PROVE  TypeOK'
  BY <1>12, IdleRequest
     DEF CreateKey, Goto, TypeOK, Idle, Request, Places, Operations,
         Stages, Content, NoRestore, Cached
<1>13. ASSUME NEW w \in Workers, FillKey(w)
      PROVE  TypeOK'
  BY <1>13, IdleRequest
     DEF FillKey, Goto, TypeOK, Idle, Request, Places, Operations,
         Stages, Content, NoRestore, Cached
<1>14. ASSUME NEW w \in Workers, CacheKey(w)
      PROVE  TypeOK'
  BY <1>14, IdleRequest
     DEF CacheKey, Goto, TypeOK, Idle, Request, Places, Operations,
         Stages, Content, NoRestore, Cached
<1>15. ASSUME NEW w \in Workers, CommitSecret(w)
      PROVE  TypeOK'
  BY <1>15, IdleRequest
     DEF CommitSecret, Finish, Ended, Goto, TypeOK, Idle, Request,
         Places, Operations, Stages, Content, NoRestore, Cached
<1>16. ASSUME NEW w \in Workers, CloseOld(w)
      PROVE  TypeOK'
  BY <1>16, IdleRequest
     DEF CloseOld, Goto, TypeOK, Idle, Request, Places, Operations,
         Stages, Content, NoRestore, Cached
<1>17. ASSUME NEW w \in Workers, Fail(w)
      PROVE  TypeOK'
  BY <1>17, IdleRequest
     DEF Fail, Finish, Ended, Goto, TypeOK, Idle, Request, Places,
         Operations, Stages, Content, NoRestore, Cached
<1>18. ASSUME NEW a \in Archives, BeginRestore(a)
      PROVE  TypeOK'
  BY <1>18, IdleRequest
     DEF BeginRestore, NoRestore, TypeOK, Idle, Request, Places,
         Operations, Stages, Content, NoRestore, Cached
<1>19. CASE Swap
  BY <1>19, IdleRequest
     DEF Swap, Unsettled, Alone, TypeOK, Idle, Request, Places,
         Operations, Stages, Content, NoRestore, Cached
<1>20. CASE BlankKey
  BY <1>20, IdleRequest
     DEF BlankKey, TypeOK, Idle, Request, Places, Operations, Stages,
         Content, NoRestore, Cached
<1>21. CASE RestoreKey
  BY <1>21, IdleRequest
     DEF RestoreKey, TypeOK, Idle, Request, Places, Operations, Stages,
         Content, NoRestore, Cached
<1>22. CASE ClearCaches
  BY <1>22, IdleRequest
     DEF ClearCaches, TypeOK, Idle, Request, Places, Operations, Stages,
         Content, NoRestore, Cached
<1>23. CASE EndRestore
  BY <1>23, IdleRequest
     DEF EndRestore, NoRestore, TypeOK, Idle, Request, Places,
         Operations, Stages, Content, NoRestore, Cached
<1>24. CASE AgeEvents
  BY <1>24, IdleRequest
     DEF AgeEvents, TypeOK, Idle, Request, Places, Operations, Stages,
         Content, NoRestore, Cached
<1>25. CASE Restart
  BY <1>25, IdleRequest
     DEF Restart, NoRestore, TypeOK, Idle, Request, Places, Operations,
         Stages, Content, NoRestore, Cached
<1>26. CASE UNCHANGED vars
  BY <1>26, IdleRequest
     DEF vars, TypeOK, Idle, Request, Places, Operations, Stages,
         Content, NoRestore, Cached
<1> QED
  BY <1>1, <1>2, <1>3, <1>4, <1>5, <1>6, <1>7, <1>8, <1>9, <1>10, <1>11,
     <1>12, <1>13, <1>14, <1>15, <1>16, <1>17, <1>18, <1>19, <1>20,
     <1>21, <1>22, <1>23, <1>24, <1>25, <1>26
     DEF Next, Reads, Sets, Secrets, Restores

LEMMA ShapeNext == TypeOK /\ Shape /\ [Next]_vars => Shape'
<1> SUFFICES ASSUME TypeOK /\ Shape, [Next]_vars PROVE Shape'
  OBVIOUS
<1>1. ASSUME NEW w \in Workers, Page(w)
      PROVE  Shape'
  BY <1>1, IdleRequest
     DEF Page, Begin, Reading, TypeOK, Shape, Idle, Request, Steps,
         NoRestore, Stages
<1>2. ASSUME NEW w \in Workers, Prune(w)
      PROVE  Shape'
  BY <1>2, IdleRequest
     DEF Prune, Goto, Reading, TypeOK, Shape, Idle, Request, Steps,
         NoRestore, Stages
<1>3. ASSUME NEW w \in Workers, Load(w)
      PROVE  Shape'
  <2>1. PICK x \in Windows, b \in BOOLEAN :
          /\ req' = [req EXCEPT ![w] = [req[w] EXCEPT !.at = "store", !.window = x,
                                                      !.doubt = b]]
          /\ ~b => x = file.window
    BY <1>3, LoadStep
  <2> QED
    BY <1>3, <2>1, IdleRequest
       DEF Load, OwnSession, TypeOK, Shape, Idle, Request, Steps
<1>4. ASSUME NEW w \in Workers, StoreCache(w)
      PROVE  Shape'
  BY <1>4, IdleRequest
     DEF StoreCache, Goto, TypeOK, Shape, Idle, Request, Steps,
         NoRestore, Stages
<1>5. ASSUME NEW w \in Workers, UseCache(w)
      PROVE  Shape'
  <2>1. PICK r \in Request :
          /\ req' = [req EXCEPT ![w] = r]
          /\ \/ r.at = "close" /\ r.old /\ req[w].old /\ r.op = req[w].op
             \/ r = Idle
             \/ /\ r.at = "delete" /\ r.op = req[w].op /\ r.old = req[w].old
                /\ cache # None /\ r.window = cache.window /\ r.window # 0
                /\ ~r.doubt => cache.sure /\ ~Lagging
    BY <1>5, UseCacheStep
  <2>2. req[w].at = "use" /\ UNCHANGED <<file, keyVars, cache, restore, pooled, spoiled>>
    BY <1>5, UseCacheStep
  <2> QED
    BY <2>1, <2>2, IdleRequest
       DEF TypeOK, Shape, Idle, Request, Steps
<1>6. ASSUME NEW w \in Workers, DeleteOld(w)
      PROVE  Shape'
  BY <1>6, IdleRequest
     DEF DeleteOld, Finish, Ended, Goto, OwnSession, TypeOK, Shape,
         Idle, Request, Steps, NoRestore, Stages
<1>7. ASSUME NEW w \in Workers, NEW x \in Windows, BeginSet(w, x)
      PROVE  Shape'
  BY <1>7, IdleRequest
     DEF BeginSet, Begin, TypeOK, Shape, Idle, Request, Steps,
         NoRestore, Stages
<1>8. ASSUME NEW w \in Workers, CommitSet(w)
      PROVE  Shape'
  BY <1>8, IdleRequest
     DEF CommitSet, Unsettled, TypeOK, Shape, Idle, Request, Steps,
         NoRestore, Stages
<1>9. ASSUME NEW w \in Workers, Invalidate(w)
      PROVE  Shape'
  BY <1>9, IdleRequest
     DEF Invalidate, Finish, Ended, Goto, TypeOK, Shape, Idle, Request,
         Steps, NoRestore, Stages
<1>10. ASSUME NEW w \in Workers, BeginSecret(w)
      PROVE  Shape'
  BY <1>10, IdleRequest
     DEF BeginSecret, Begin, TypeOK, Shape, Idle, Request, Steps,
         NoRestore, Stages
<1>11. ASSUME NEW w \in Workers, Encrypt(w)
      PROVE  Shape'
  <2>1. /\ req[w].at = "encrypt"
        /\ UNCHANGED <<file, keyVars, cache, restore, pooled, spoiled>>
    BY <1>11, EncryptStep
  <2>2. CASE req' = [req EXCEPT ![w] = Ended(req[w])]
    BY <2>1, <2>2, IdleRequest
         DEF Ended, TypeOK, Shape, Idle, Request, Steps, NoRestore,
             Stages
  <2>3. ASSUME NEW at \in {"commit", "fernet", "create"}, NEW k \in SecretKeys,
               req' = [req EXCEPT ![w] = [req[w] EXCEPT !.at = at, !.secret = k]],
               at = "commit" => k = fernet, at = "fernet" => k = key
        PROVE  Shape'
    BY <2>1, <2>3, IdleRequest
         DEF TypeOK, Shape, Idle, Request, Steps, NoRestore, Stages
  <2> QED
    BY <1>11, <2>2, <2>3, EncryptStep
<1>12. ASSUME NEW w \in Workers, CreateKey(w)
      PROVE  Shape'
  BY <1>12, IdleRequest
     DEF CreateKey, Goto, TypeOK, Shape, Idle, Request, Steps,
         NoRestore, Stages
<1>13. ASSUME NEW w \in Workers, FillKey(w)
      PROVE  Shape'
  BY <1>13, IdleRequest
     DEF FillKey, Goto, TypeOK, Shape, Idle, Request, Steps, NoRestore,
         Stages
<1>14. ASSUME NEW w \in Workers, CacheKey(w)
      PROVE  Shape'
  BY <1>14, IdleRequest
     DEF CacheKey, Goto, TypeOK, Shape, Idle, Request, Steps, NoRestore,
         Stages
<1>15. ASSUME NEW w \in Workers, CommitSecret(w)
      PROVE  Shape'
  BY <1>15, IdleRequest
     DEF CommitSecret, Finish, Ended, Goto, TypeOK, Shape, Idle,
         Request, Steps, NoRestore, Stages
<1>16. ASSUME NEW w \in Workers, CloseOld(w)
      PROVE  Shape'
  BY <1>16, IdleRequest
     DEF CloseOld, Goto, TypeOK, Shape, Idle, Request, Steps, NoRestore,
         Stages
<1>17. ASSUME NEW w \in Workers, Fail(w)
      PROVE  Shape'
  BY <1>17, IdleRequest
     DEF Fail, Finish, Ended, Goto, TypeOK, Shape, Idle, Request, Steps,
         NoRestore, Stages
<1>18. ASSUME NEW a \in Archives, BeginRestore(a)
      PROVE  Shape'
  BY <1>18, IdleRequest
     DEF BeginRestore, NoRestore, TypeOK, Shape, Idle, Request, Steps,
         NoRestore, Stages
<1>19. CASE Swap
  BY <1>19, IdleRequest
     DEF Swap, Unsettled, Alone, TypeOK, Shape, Idle, Request, Steps,
         NoRestore, Stages
<1>20. CASE BlankKey
  BY <1>20, IdleRequest
     DEF BlankKey, TypeOK, Shape, Idle, Request, Steps, NoRestore,
         Stages
<1>21. CASE RestoreKey
  BY <1>21, IdleRequest
     DEF RestoreKey, TypeOK, Shape, Idle, Request, Steps, NoRestore,
         Stages
<1>22. CASE ClearCaches
  BY <1>22, IdleRequest
     DEF ClearCaches, TypeOK, Shape, Idle, Request, Steps, NoRestore,
         Stages
<1>23. CASE EndRestore
  BY <1>23, IdleRequest
     DEF EndRestore, NoRestore, TypeOK, Shape, Idle, Request, Steps,
         NoRestore, Stages
<1>24. CASE AgeEvents
  BY <1>24, IdleRequest
     DEF AgeEvents, TypeOK, Shape, Idle, Request, Steps, NoRestore,
         Stages
<1>25. CASE Restart
  BY <1>25, IdleRequest
     DEF Restart, NoRestore, TypeOK, Shape, Idle, Request, Steps,
         NoRestore, Stages
<1>26. CASE UNCHANGED vars
  BY <1>26, IdleRequest
     DEF vars, TypeOK, Shape, Idle, Request, Steps, NoRestore, Stages
<1> QED
  BY <1>1, <1>2, <1>3, <1>4, <1>5, <1>6, <1>7, <1>8, <1>9, <1>10, <1>11,
     <1>12, <1>13, <1>14, <1>15, <1>16, <1>17, <1>18, <1>19, <1>20,
     <1>21, <1>22, <1>23, <1>24, <1>25, <1>26
     DEF Next, Reads, Sets, Secrets, Restores

LEMMA KeysNext == TypeOK /\ Shape /\ Keys /\ [Next]_vars => Keys'
<1> SUFFICES ASSUME TypeOK /\ Shape /\ Keys, [Next]_vars PROVE Keys'
  OBVIOUS
<1>1. ASSUME NEW w \in Workers, Page(w)
      PROVE  Keys'
  BY <1>1, IdleRequest
     DEF Page, Begin, Reading, TypeOK, Shape, Keys, Idle, Request,
         Steps, Content, NoRestore, Stages
<1>2. ASSUME NEW w \in Workers, Prune(w)
      PROVE  Keys'
  BY <1>2, IdleRequest
     DEF Prune, Goto, Reading, TypeOK, Shape, Keys, Idle, Request,
         Steps, Content, NoRestore, Stages
<1>3. ASSUME NEW w \in Workers, Load(w)
      PROVE  Keys'
  <2>1. PICK x \in Windows, b \in BOOLEAN :
          /\ req' = [req EXCEPT ![w] = [req[w] EXCEPT !.at = "store", !.window = x,
                                                      !.doubt = b]]
          /\ ~b => x = file.window
    BY <1>3, LoadStep
  <2> QED
    BY <1>3, <2>1, IdleRequest
       DEF Load, OwnSession, TypeOK, Shape, Keys, Idle, Request, Steps,
           Content
<1>4. ASSUME NEW w \in Workers, StoreCache(w)
      PROVE  Keys'
  BY <1>4, IdleRequest
     DEF StoreCache, Goto, TypeOK, Shape, Keys, Idle, Request, Steps,
         Content, NoRestore, Stages
<1>5. ASSUME NEW w \in Workers, UseCache(w)
      PROVE  Keys'
  <2>1. PICK r \in Request :
          /\ req' = [req EXCEPT ![w] = r]
          /\ \/ r.at = "close" /\ r.old /\ req[w].old /\ r.op = req[w].op
             \/ r = Idle
             \/ /\ r.at = "delete" /\ r.op = req[w].op /\ r.old = req[w].old
                /\ cache # None /\ r.window = cache.window /\ r.window # 0
                /\ ~r.doubt => cache.sure /\ ~Lagging
    BY <1>5, UseCacheStep
  <2>2. req[w].at = "use" /\ UNCHANGED <<file, keyVars, cache, restore, pooled, spoiled>>
    BY <1>5, UseCacheStep
  <2> QED
    BY <2>1, <2>2, IdleRequest
       DEF TypeOK, Shape, Keys, Idle, Request, Steps, Content
<1>6. ASSUME NEW w \in Workers, DeleteOld(w)
      PROVE  Keys'
  BY <1>6, IdleRequest
     DEF DeleteOld, Finish, Ended, Goto, OwnSession, TypeOK, Shape,
         Keys, Idle, Request, Steps, Content, NoRestore, Stages
<1>7. ASSUME NEW w \in Workers, NEW x \in Windows, BeginSet(w, x)
      PROVE  Keys'
  BY <1>7, IdleRequest
     DEF BeginSet, Begin, TypeOK, Shape, Keys, Idle, Request, Steps,
         Content, NoRestore, Stages
<1>8. ASSUME NEW w \in Workers, CommitSet(w)
      PROVE  Keys'
  BY <1>8, IdleRequest
     DEF CommitSet, Unsettled, TypeOK, Shape, Keys, Idle, Request,
         Steps, Content, NoRestore, Stages
<1>9. ASSUME NEW w \in Workers, Invalidate(w)
      PROVE  Keys'
  BY <1>9, IdleRequest
     DEF Invalidate, Finish, Ended, Goto, TypeOK, Shape, Keys, Idle,
         Request, Steps, Content, NoRestore, Stages
<1>10. ASSUME NEW w \in Workers, BeginSecret(w)
      PROVE  Keys'
  BY <1>10, IdleRequest
     DEF BeginSecret, Begin, TypeOK, Shape, Keys, Idle, Request, Steps,
         Content, NoRestore, Stages
<1>11. ASSUME NEW w \in Workers, Encrypt(w)
      PROVE  Keys'
  <2>1. /\ req[w].at = "encrypt"
        /\ UNCHANGED <<file, keyVars, cache, restore, pooled, spoiled>>
    BY <1>11, EncryptStep
  <2>2. CASE req' = [req EXCEPT ![w] = Ended(req[w])]
    BY <2>1, <2>2, IdleRequest
         DEF Ended, TypeOK, Shape, Keys, Idle, Request, Steps, Content,
             NoRestore, Stages
  <2>3. ASSUME NEW at \in {"commit", "fernet", "create"}, NEW k \in SecretKeys,
               req' = [req EXCEPT ![w] = [req[w] EXCEPT !.at = at, !.secret = k]],
               at = "commit" => k = fernet, at = "fernet" => k = key
        PROVE  Keys'
    BY <2>1, <2>3, IdleRequest
         DEF TypeOK, Shape, Keys, Idle, Request, Steps, Content,
             NoRestore, Stages
  <2> QED
    BY <1>11, <2>2, <2>3, EncryptStep
<1>12. ASSUME NEW w \in Workers, CreateKey(w)
      PROVE  Keys'
  <2> SUFFICES ASSUME ~spoiled, ~astray, key = None
               PROVE  Keys'
    BY <1>12 DEF CreateKey, Keys
  <2>1. ~Midway => fernet = None /\ file.secret = None
    BY DEF Keys
  <2>2. \A v \in Workers : req[v].at \in {"fernet", "commit"} => req[v].old
    BY IdleRequest DEF Shape, Keys
  <2>3. \A v \in Workers :
          req'[v].at \in {"fernet", "commit"} => req'[v] = req[v]
    BY <1>12 DEF CreateKey, Goto, TypeOK, Request
  <2>4. restore.at \in {"keyed", "cleared"} => restore.from.key = None
    BY DEF Keys
  <2> QED
    BY <1>12, <2>1, <2>2, <2>3, <2>4 DEF CreateKey, Keys
<1>13. ASSUME NEW w \in Workers, FillKey(w)
      PROVE  Keys'
  <2> SUFFICES ASSUME ~spoiled, ~astray, key = Empty
               PROVE  Keys'
    BY <1>13 DEF FillKey, Keys
  <2>1. ~Midway => fernet = None /\ file.secret = None
    BY IdleRequest DEF Keys, TypeOK, Content
  <2>2. \A v \in Workers : req[v].at \in {"fernet", "commit"} => req[v].old
    BY IdleRequest DEF Shape, Keys
  <2>3. \A v \in Workers :
          req'[v].at \in {"fernet", "commit"} =>
            req'[v] = req[v] \/ req'[v].secret = key'
    BY <1>13 DEF FillKey, Goto, TypeOK, Request
  <2>4. restore.at \in {"keyed", "cleared"} => restore.from.key = None
    BY IdleRequest DEF Keys, TypeOK
  <2> QED
    BY <1>13, <2>1, <2>2, <2>3, <2>4 DEF FillKey, Keys
<1>14. ASSUME NEW w \in Workers, CacheKey(w)
      PROVE  Keys'
  BY <1>14, IdleRequest
     DEF CacheKey, Goto, TypeOK, Shape, Keys, Idle, Request, Steps,
         Content, NoRestore, Stages
<1>15. ASSUME NEW w \in Workers, CommitSecret(w)
      PROVE  Keys'
  BY <1>15, IdleRequest
     DEF CommitSecret, Finish, Ended, Goto, TypeOK, Shape, Keys, Idle,
         Request, Steps, Content, NoRestore, Stages
<1>16. ASSUME NEW w \in Workers, CloseOld(w)
      PROVE  Keys'
  BY <1>16, IdleRequest
     DEF CloseOld, Goto, TypeOK, Shape, Keys, Idle, Request, Steps,
         Content, NoRestore, Stages
<1>17. ASSUME NEW w \in Workers, Fail(w)
      PROVE  Keys'
  BY <1>17, IdleRequest
     DEF Fail, Finish, Ended, Goto, TypeOK, Shape, Keys, Idle, Request,
         Steps, Content, NoRestore, Stages
<1>18. ASSUME NEW a \in Archives, BeginRestore(a)
      PROVE  Keys'
  BY <1>18, IdleRequest
     DEF BeginRestore, NoRestore, TypeOK, Shape, Keys, Idle, Request,
         Steps, Content, NoRestore, Stages
<1>19. CASE Swap
  BY <1>19, IdleRequest
     DEF Swap, Unsettled, Alone, TypeOK, Shape, Keys, Idle, Request,
         Steps, Content, NoRestore, Stages
<1>20. CASE BlankKey
  BY <1>20, IdleRequest
     DEF BlankKey, TypeOK, Shape, Keys, Idle, Request, Steps, Content,
         NoRestore, Stages
<1>21. CASE RestoreKey
  BY <1>21, IdleRequest
     DEF RestoreKey, TypeOK, Shape, Keys, Idle, Request, Steps, Content,
         NoRestore, Stages
<1>22. CASE ClearCaches
  BY <1>22, IdleRequest
     DEF ClearCaches, TypeOK, Shape, Keys, Idle, Request, Steps,
         Content, NoRestore, Stages
<1>23. CASE EndRestore
  BY <1>23, IdleRequest
     DEF EndRestore, NoRestore, TypeOK, Shape, Keys, Idle, Request,
         Steps, Content, NoRestore, Stages
<1>24. CASE AgeEvents
  BY <1>24, IdleRequest
     DEF AgeEvents, TypeOK, Shape, Keys, Idle, Request, Steps, Content,
         NoRestore, Stages
<1>25. CASE Restart
  BY <1>25, IdleRequest
     DEF Restart, NoRestore, TypeOK, Shape, Keys, Idle, Request, Steps,
         Content, NoRestore, Stages
<1>26. CASE UNCHANGED vars
  BY <1>26, IdleRequest
     DEF vars, TypeOK, Shape, Keys, Idle, Request, Steps, Content,
         NoRestore, Stages
<1> QED
  BY <1>1, <1>2, <1>3, <1>4, <1>5, <1>6, <1>7, <1>8, <1>9, <1>10, <1>11,
     <1>12, <1>13, <1>14, <1>15, <1>16, <1>17, <1>18, <1>19, <1>20,
     <1>21, <1>22, <1>23, <1>24, <1>25, <1>26
     DEF Next, Reads, Sets, Secrets, Restores

LEMMA SettledNext == SettingsInv /\ [Next]_vars => Settled'
<1> SUFFICES ASSUME SettingsInv, [Next]_vars PROVE Settled'
  OBVIOUS
<1>1. ASSUME NEW w \in Workers, Page(w)
      PROVE  Settled'
  BY <1>1, IdleRequest
     DEF Page, Begin, Reading, SettingsInv, TypeOK, Shape, Settled,
         Held, CacheFollowsSetting, Lagging, Idle, Request, Steps,
         Content, Cached, NoRestore, Stages
<1>2. ASSUME NEW w \in Workers, Prune(w)
      PROVE  Settled'
  BY <1>2, IdleRequest
     DEF Prune, Goto, Reading, SettingsInv, TypeOK, Shape, Settled,
         Held, CacheFollowsSetting, Lagging, Idle, Request, Steps,
         Content, Cached, NoRestore, Stages
<1>3. ASSUME NEW w \in Workers, Load(w)
      PROVE  Settled'
  <2> TypeOK
    BY DEF SettingsInv
  <2>1. PICK x \in Windows, b \in BOOLEAN :
          /\ req' = [req EXCEPT ![w] = [req[w] EXCEPT !.at = "store", !.window = x,
                                                      !.doubt = b]]
          /\ ~b => x = file.window
    BY <1>3, LoadStep
  <2> QED
    BY <1>3, <2>1, IdleRequest
       DEF Load, OwnSession, SettingsInv, TypeOK, Shape, Settled, Held,
           CacheFollowsSetting, Lagging, Idle, Request, Steps, Content,
           Cached
<1>4. ASSUME NEW w \in Workers, StoreCache(w)
      PROVE  Settled'
  BY <1>4, IdleRequest
     DEF StoreCache, Goto, SettingsInv, TypeOK, Shape, Settled, Held,
         CacheFollowsSetting, Lagging, Idle, Request, Steps, Content,
         Cached, NoRestore, Stages
<1>5. ASSUME NEW w \in Workers, UseCache(w)
      PROVE  Settled'
  <2> TypeOK
    BY DEF SettingsInv
  <2>1. PICK r \in Request :
          /\ req' = [req EXCEPT ![w] = r]
          /\ \/ r.at = "close" /\ r.old /\ req[w].old /\ r.op = req[w].op
             \/ r = Idle
             \/ /\ r.at = "delete" /\ r.op = req[w].op /\ r.old = req[w].old
                /\ cache # None /\ r.window = cache.window /\ r.window # 0
                /\ ~r.doubt => cache.sure /\ ~Lagging
    BY <1>5, UseCacheStep
  <2>2. req[w].at = "use" /\ UNCHANGED <<file, keyVars, cache, restore, pooled, spoiled>>
    BY <1>5, UseCacheStep
  <2> QED
    BY <2>1, <2>2, IdleRequest
       DEF SettingsInv, TypeOK, Shape, Settled, Held,
           CacheFollowsSetting, Lagging, Idle, Request, Steps, Content,
           Cached
<1>6. ASSUME NEW w \in Workers, DeleteOld(w)
      PROVE  Settled'
  BY <1>6, IdleRequest
     DEF DeleteOld, Finish, Ended, Goto, OwnSession, SettingsInv,
         TypeOK, Shape, Settled, Held, CacheFollowsSetting, Lagging,
         Idle, Request, Steps, Content, Cached, NoRestore, Stages
<1>7. ASSUME NEW w \in Workers, NEW x \in Windows, BeginSet(w, x)
      PROVE  Settled'
  BY <1>7, IdleRequest
     DEF BeginSet, Begin, SettingsInv, TypeOK, Shape, Settled, Held,
         CacheFollowsSetting, Lagging, Idle, Request, Steps, Content,
         Cached, NoRestore, Stages
<1>8. ASSUME NEW w \in Workers, CommitSet(w)
      PROVE  Settled'
  BY <1>8, IdleRequest
     DEF CommitSet, Unsettled, SettingsInv, TypeOK, Shape, Settled,
         Held, CacheFollowsSetting, Lagging, Idle, Request, Steps,
         Content, Cached, NoRestore, Stages
<1>9. ASSUME NEW w \in Workers, Invalidate(w)
      PROVE  Settled'
  BY <1>9, IdleRequest
     DEF Invalidate, Finish, Ended, Goto, SettingsInv, TypeOK, Shape,
         Settled, Held, CacheFollowsSetting, Lagging, Idle, Request,
         Steps, Content, Cached, NoRestore, Stages
<1>10. ASSUME NEW w \in Workers, BeginSecret(w)
      PROVE  Settled'
  BY <1>10, IdleRequest
     DEF BeginSecret, Begin, SettingsInv, TypeOK, Shape, Settled, Held,
         CacheFollowsSetting, Lagging, Idle, Request, Steps, Content,
         Cached, NoRestore, Stages
<1>11. ASSUME NEW w \in Workers, Encrypt(w)
      PROVE  Settled'
  <2> TypeOK
    BY DEF SettingsInv
  <2>1. /\ req[w].at = "encrypt"
        /\ UNCHANGED <<file, keyVars, cache, restore, pooled, spoiled>>
    BY <1>11, EncryptStep
  <2>2. CASE req' = [req EXCEPT ![w] = Ended(req[w])]
    BY <2>1, <2>2, IdleRequest
         DEF Ended, SettingsInv, TypeOK, Shape, Settled, Held,
             CacheFollowsSetting, Lagging, Idle, Request, Steps,
             Content, Cached, NoRestore, Stages
  <2>3. ASSUME NEW at \in {"commit", "fernet", "create"}, NEW k \in SecretKeys,
               req' = [req EXCEPT ![w] = [req[w] EXCEPT !.at = at, !.secret = k]],
               at = "commit" => k = fernet, at = "fernet" => k = key
        PROVE  Settled'
    BY <2>1, <2>3, IdleRequest
         DEF SettingsInv, TypeOK, Shape, Settled, Held,
             CacheFollowsSetting, Lagging, Idle, Request, Steps,
             Content, Cached, NoRestore, Stages
  <2> QED
    BY <1>11, <2>2, <2>3, EncryptStep
<1>12. ASSUME NEW w \in Workers, CreateKey(w)
      PROVE  Settled'
  BY <1>12, IdleRequest
     DEF CreateKey, Goto, SettingsInv, TypeOK, Shape, Settled, Held,
         CacheFollowsSetting, Lagging, Idle, Request, Steps, Content,
         Cached, NoRestore, Stages
<1>13. ASSUME NEW w \in Workers, FillKey(w)
      PROVE  Settled'
  BY <1>13, IdleRequest
     DEF FillKey, Goto, SettingsInv, TypeOK, Shape, Settled, Held,
         CacheFollowsSetting, Lagging, Idle, Request, Steps, Content,
         Cached, NoRestore, Stages
<1>14. ASSUME NEW w \in Workers, CacheKey(w)
      PROVE  Settled'
  BY <1>14, IdleRequest
     DEF CacheKey, Goto, SettingsInv, TypeOK, Shape, Settled, Held,
         CacheFollowsSetting, Lagging, Idle, Request, Steps, Content,
         Cached, NoRestore, Stages
<1>15. ASSUME NEW w \in Workers, CommitSecret(w)
      PROVE  Settled'
  BY <1>15, IdleRequest
     DEF CommitSecret, Finish, Ended, Goto, SettingsInv, TypeOK, Shape,
         Settled, Held, CacheFollowsSetting, Lagging, Idle, Request,
         Steps, Content, Cached, NoRestore, Stages
<1>16. ASSUME NEW w \in Workers, CloseOld(w)
      PROVE  Settled'
  BY <1>16, IdleRequest
     DEF CloseOld, Goto, SettingsInv, TypeOK, Shape, Settled, Held,
         CacheFollowsSetting, Lagging, Idle, Request, Steps, Content,
         Cached, NoRestore, Stages
<1>17. ASSUME NEW w \in Workers, Fail(w)
      PROVE  Settled'
  BY <1>17, IdleRequest
     DEF Fail, Finish, Ended, Goto, SettingsInv, TypeOK, Shape, Settled,
         Held, CacheFollowsSetting, Lagging, Idle, Request, Steps,
         Content, Cached, NoRestore, Stages
<1>18. ASSUME NEW a \in Archives, BeginRestore(a)
      PROVE  Settled'
  BY <1>18, IdleRequest
     DEF BeginRestore, NoRestore, SettingsInv, TypeOK, Shape, Settled,
         Held, CacheFollowsSetting, Lagging, Idle, Request, Steps,
         Content, Cached, NoRestore, Stages
<1>19. CASE Swap
  BY <1>19, IdleRequest
     DEF Swap, Unsettled, Alone, SettingsInv, TypeOK, Shape, Settled,
         Held, CacheFollowsSetting, Lagging, Idle, Request, Steps,
         Content, Cached, NoRestore, Stages
<1>20. CASE BlankKey
  BY <1>20, IdleRequest
     DEF BlankKey, SettingsInv, TypeOK, Shape, Settled, Held,
         CacheFollowsSetting, Lagging, Idle, Request, Steps, Content,
         Cached, NoRestore, Stages
<1>21. CASE RestoreKey
  BY <1>21, IdleRequest
     DEF RestoreKey, SettingsInv, TypeOK, Shape, Settled, Held,
         CacheFollowsSetting, Lagging, Idle, Request, Steps, Content,
         Cached, NoRestore, Stages
<1>22. CASE ClearCaches
  BY <1>22, IdleRequest
     DEF ClearCaches, SettingsInv, TypeOK, Shape, Settled, Held,
         CacheFollowsSetting, Lagging, Idle, Request, Steps, Content,
         Cached, NoRestore, Stages
<1>23. CASE EndRestore
  BY <1>23, IdleRequest
     DEF EndRestore, NoRestore, SettingsInv, TypeOK, Shape, Settled,
         Held, CacheFollowsSetting, Lagging, Idle, Request, Steps,
         Content, Cached, NoRestore, Stages
<1>24. CASE AgeEvents
  BY <1>24, IdleRequest
     DEF AgeEvents, SettingsInv, TypeOK, Shape, Settled, Held,
         CacheFollowsSetting, Lagging, Idle, Request, Steps, Content,
         Cached, NoRestore, Stages
<1>25. CASE Restart
  BY <1>25, IdleRequest
     DEF Restart, NoRestore, SettingsInv, TypeOK, Shape, Settled, Held,
         CacheFollowsSetting, Lagging, Idle, Request, Steps, Content,
         Cached, NoRestore, Stages
<1>26. CASE UNCHANGED vars
  BY <1>26, IdleRequest
     DEF vars, SettingsInv, TypeOK, Shape, Settled, Held,
         CacheFollowsSetting, Lagging, Idle, Request, Steps, Content,
         Cached, NoRestore, Stages
<1> QED
  BY <1>1, <1>2, <1>3, <1>4, <1>5, <1>6, <1>7, <1>8, <1>9, <1>10, <1>11,
     <1>12, <1>13, <1>14, <1>15, <1>16, <1>17, <1>18, <1>19, <1>20,
     <1>21, <1>22, <1>23, <1>24, <1>25, <1>26
     DEF Next, Reads, Sets, Secrets, Restores

LEMMA SettingsInvInit == Init => SettingsInv
<1> SUFFICES ASSUME Init PROVE SettingsInv
  OBVIOUS
<1>1. TypeOK
  BY IdleRequest DEF Init, TypeOK, NoRestore, Stages, Content
<1>2. Shape /\ Keys
  BY IdleRequest DEF Init, Shape, Keys, Steps, NoRestore
<1>3. Settled
  BY IdleRequest DEF Init, Settled, Held, CacheFollowsSetting
<1> QED
  BY <1>1, <1>2, <1>3 DEF SettingsInv

LEMMA SettingsInvNext == SettingsInv /\ [Next]_vars => SettingsInv'
BY SettingTypesNext, ShapeNext, KeysNext, SettledNext DEF SettingsInv

LEMMA SettingsInvAlways == Spec => []SettingsInv
BY SettingsInvInit, SettingsInvNext, PTL DEF Spec

(* Every state has the types that the module declares. *)
THEOREM SettingTypes == Spec => []TypeOK
<1>1. SettingsInv => TypeOK
  BY DEF SettingsInv
<1> QED
  BY <1>1, SettingsInvAlways, PTL

(* The secret of an identity provider opens with the key in use, whatever  *)
(* a restore ran into, unless the files were spoiled (secret_box.py,       *)
(* backup.restore_backup).                                                 *)
THEOREM ProviderSecretsOpen == Spec => []SecretsOpen
<1>1. SettingsInv => SecretsOpen
  BY IdleRequest DEF SettingsInv, TypeOK, Keys, SecretsOpen
<1> QED
  BY <1>1, SettingsInvAlways, PTL

(* The cached settings follow the database, except while a change is on    *)
(* its way to the cache (system_config._load and invalidate).              *)
THEOREM SettingsCacheFollows == Spec => []CacheFollowsSetting
<1>1. SettingsInv => CacheFollowsSetting
  BY DEF SettingsInv, Settled
<1> QED
  BY <1>1, SettingsInvAlways, PTL

(* The step that ForeverIsForever constrains. *)
ForeverStep ==
  (file.window = 0 /\ file.old /\ ~file'.old) =>
    \/ spoiled \/ spoiled'
    \/ restore.at = "reset" /\ file' = restore.from.content
    \/ \E w \in Workers : req[w].at = "delete" /\ req[w].doubt

LEMMA ForeverNext == SettingsInv /\ [Next]_vars => ForeverStep
<1> SUFFICES ASSUME SettingsInv, [Next]_vars PROVE ForeverStep
  OBVIOUS
<1>1. ASSUME NEW w \in Workers, Page(w)
      PROVE  ForeverStep
  BY <1>1, IdleRequest
     DEF Page, Begin, Reading, ForeverStep, SettingsInv, TypeOK,
         Settled, Held, Content
<1>2. ASSUME NEW w \in Workers, Prune(w)
      PROVE  ForeverStep
  BY <1>2, IdleRequest
     DEF Prune, Goto, Reading, ForeverStep, SettingsInv, TypeOK,
         Settled, Held, Content
<1>3. ASSUME NEW w \in Workers, Load(w)
      PROVE  ForeverStep
  BY <1>3 DEF Load, ForeverStep
<1>4. ASSUME NEW w \in Workers, StoreCache(w)
      PROVE  ForeverStep
  BY <1>4, IdleRequest
     DEF StoreCache, Goto, ForeverStep, SettingsInv, TypeOK, Settled,
         Held, Content
<1>5. ASSUME NEW w \in Workers, UseCache(w)
      PROVE  ForeverStep
  BY <1>5 DEF UseCache, ForeverStep
<1>6. ASSUME NEW w \in Workers, DeleteOld(w)
      PROVE  ForeverStep
  BY <1>6, IdleRequest
     DEF DeleteOld, Finish, Ended, Goto, OwnSession, ForeverStep,
         SettingsInv, TypeOK, Settled, Held, Content
<1>7. ASSUME NEW w \in Workers, NEW x \in Windows, BeginSet(w, x)
      PROVE  ForeverStep
  BY <1>7, IdleRequest
     DEF BeginSet, Begin, ForeverStep, SettingsInv, TypeOK, Settled,
         Held, Content
<1>8. ASSUME NEW w \in Workers, CommitSet(w)
      PROVE  ForeverStep
  BY <1>8, IdleRequest
     DEF CommitSet, Unsettled, ForeverStep, SettingsInv, TypeOK,
         Settled, Held, Content
<1>9. ASSUME NEW w \in Workers, Invalidate(w)
      PROVE  ForeverStep
  BY <1>9, IdleRequest
     DEF Invalidate, Finish, Ended, Goto, ForeverStep, SettingsInv,
         TypeOK, Settled, Held, Content
<1>10. ASSUME NEW w \in Workers, BeginSecret(w)
      PROVE  ForeverStep
  BY <1>10, IdleRequest
     DEF BeginSecret, Begin, ForeverStep, SettingsInv, TypeOK, Settled,
         Held, Content
<1>11. ASSUME NEW w \in Workers, Encrypt(w)
      PROVE  ForeverStep
  BY <1>11 DEF Encrypt, ForeverStep
<1>12. ASSUME NEW w \in Workers, CreateKey(w)
      PROVE  ForeverStep
  BY <1>12, IdleRequest
     DEF CreateKey, Goto, ForeverStep, SettingsInv, TypeOK, Settled,
         Held, Content
<1>13. ASSUME NEW w \in Workers, FillKey(w)
      PROVE  ForeverStep
  BY <1>13, IdleRequest
     DEF FillKey, Goto, ForeverStep, SettingsInv, TypeOK, Settled, Held,
         Content
<1>14. ASSUME NEW w \in Workers, CacheKey(w)
      PROVE  ForeverStep
  BY <1>14, IdleRequest
     DEF CacheKey, Goto, ForeverStep, SettingsInv, TypeOK, Settled,
         Held, Content
<1>15. ASSUME NEW w \in Workers, CommitSecret(w)
      PROVE  ForeverStep
  BY <1>15, IdleRequest
     DEF CommitSecret, Finish, Ended, Goto, ForeverStep, SettingsInv,
         TypeOK, Settled, Held, Content
<1>16. ASSUME NEW w \in Workers, CloseOld(w)
      PROVE  ForeverStep
  BY <1>16, IdleRequest
     DEF CloseOld, Goto, ForeverStep, SettingsInv, TypeOK, Settled,
         Held, Content
<1>17. ASSUME NEW w \in Workers, Fail(w)
      PROVE  ForeverStep
  BY <1>17, IdleRequest
     DEF Fail, Finish, Ended, Goto, ForeverStep, SettingsInv, TypeOK,
         Settled, Held, Content
<1>18. ASSUME NEW a \in Archives, BeginRestore(a)
      PROVE  ForeverStep
  BY <1>18, IdleRequest
     DEF BeginRestore, NoRestore, ForeverStep, SettingsInv, TypeOK,
         Settled, Held, Content
<1>19. CASE Swap
  BY <1>19, IdleRequest
     DEF Swap, Unsettled, Alone, ForeverStep, SettingsInv, TypeOK,
         Settled, Held, Content
<1>20. CASE BlankKey
  BY <1>20, IdleRequest
     DEF BlankKey, ForeverStep, SettingsInv, TypeOK, Settled, Held,
         Content
<1>21. CASE RestoreKey
  BY <1>21, IdleRequest
     DEF RestoreKey, ForeverStep, SettingsInv, TypeOK, Settled, Held,
         Content
<1>22. CASE ClearCaches
  BY <1>22, IdleRequest
     DEF ClearCaches, ForeverStep, SettingsInv, TypeOK, Settled, Held,
         Content
<1>23. CASE EndRestore
  BY <1>23, IdleRequest
     DEF EndRestore, NoRestore, ForeverStep, SettingsInv, TypeOK,
         Settled, Held, Content
<1>24. CASE AgeEvents
  BY <1>24, IdleRequest
     DEF AgeEvents, ForeverStep, SettingsInv, TypeOK, Settled, Held,
         Content
<1>25. CASE Restart
  BY <1>25, IdleRequest
     DEF Restart, NoRestore, ForeverStep, SettingsInv, TypeOK, Settled,
         Held, Content
<1>26. CASE UNCHANGED vars
  BY <1>26, IdleRequest
     DEF vars, ForeverStep, SettingsInv, TypeOK, Settled, Held, Content
<1> QED
  BY <1>1, <1>2, <1>3, <1>4, <1>5, <1>6, <1>7, <1>8, <1>9, <1>10, <1>11,
     <1>12, <1>13, <1>14, <1>15, <1>16, <1>17, <1>18, <1>19, <1>20,
     <1>21, <1>22, <1>23, <1>24, <1>25, <1>26
     DEF Next, Reads, Sets, Secrets, Restores

(* While events are to be kept forever none is pruned, except with a       *)
(* window that was in doubt (audit.prune_old_events).                      *)
THEOREM EventsKeptForever == Spec => ForeverIsForever
<1>1. SettingsInv /\ [Next]_vars => [ForeverStep]_vars
  BY ForeverNext
<1> QED
  BY <1>1, SettingsInvAlways, PTL DEF Spec, ForeverIsForever, ForeverStep
=============================================================================
