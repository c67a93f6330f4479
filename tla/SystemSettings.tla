--------------------------- MODULE SystemSettings ---------------------------
(***************************************************************************)
(* What the instance keeps outside the rows of a request's transaction:    *)
(* the system settings and their cache in the process                      *)
(* (app/services/system_config.py; app/services/branding.py caches the     *)
(* same way), the pruning of the audit log that reads them                 *)
(* (app/services/audit.py), the key of the identity providers' secrets     *)
(* with its cache (app/services/secret_box.py), and the restore of a       *)
(* backup, which replaces all of it under the running requests             *)
(* (app/services/backup.py).                                               *)
(*                                                                         *)
(* The restore runs on the event loop: while it does, no request begins,   *)
(* but those in the thread pool go on.                                     *)
(***************************************************************************)
EXTENDS Naturals

CONSTANTS
  Workers,     \* requests and daily prunes that can be in flight together
  Windows,     \* retention windows that can be chosen, in days
  Default,     \* the one of the environment, for want of a row
  SecretKeys,  \* keys that this instance can draw, and those of others
  Archives,    \* the backups that can be uploaded
  Empty,       \* what the key's file holds between its truncation and the write
  None

(* The tables that matter here: the retention window, the key under which  *)
(* the provider's secret is encrypted, None if no secret is stored, and    *)
(* whether the audit log holds events older than any window.               *)
Content == [window : Windows, secret : SecretKeys \cup {None}, old : BOOLEAN]

(* A backup has the key's file if there was one.  Its secret opens with    *)
(* its key: one taken while the two changed is not considered.             *)
Archive == {a \in [content : Content, key : SecretKeys \cup {None}] :
              a.content.secret \in {a.key, None}}

(* A cached window, and whether it was read for sure. *)
Cached == [window : Windows, sure : BOOLEAN]

ASSUME WindowsAssumption == Windows \subseteq Nat /\ Default \in Windows
ASSUME ArchivesAssumption == Archives \subseteq Archive
ASSUME NoneAssumption ==
  /\ None \notin SecretKeys /\ None \notin Archives /\ None \notin Cached
  /\ Empty \notin SecretKeys /\ Empty # None

VARIABLES
  file,     \* what a new connection finds in the database
  key,      \* provider_secret_key on the data volume, None without the file
  fernet,   \* the key that secret_box has cached, None before its first use
  cache,    \* the settings that system_config has cached, or None
  restore,  \* the steps of a restore, and the archive it restores
  pooled,   \* the pool holds a connection to the replaced database
  req,      \* where each request is
  spoiled,  \* the database has been left in a state that no restore wrote: see
            \* BeginRestore, CloseOld and Restart
  astray    \* the key on disk is not the one that secrets were encrypted with:
            \* see CreateKey, FillKey, CacheKey and Restart

keyVars == <<key, fernet, astray>>
vars == <<file, keyVars, cache, restore, pooled, req, spoiled>>

Places == {"idle", "load", "store", "use", "write", "invalidate", "delete",
           "encrypt", "create", "fill", "fernet", "commit", "close"}
Operations == {"none", "page", "prune", "set", "secret"}
Stages == {"idle", "reset", "swapped", "blanked", "keyed", "cleared"}

(* doubt: the window was not read for sure, or the settings have changed   *)
(* since it was read or posted.  old: the request's connection is to a     *)
(* database that was replaced.                                             *)
Request == [at : Places, op : Operations, window : Windows, seen : Windows,
            secret : SecretKeys \cup {None}, doubt : BOOLEAN, old : BOOLEAN]

Idle == [at |-> "idle", op |-> "none", window |-> Default, seen |-> Default,
         secret |-> None, doubt |-> FALSE, old |-> FALSE]

NoRestore == [at |-> "idle", from |-> None]

Init ==
  /\ file = [window |-> Default, secret |-> None, old |-> FALSE]
  /\ key = None /\ fernet = None /\ astray = FALSE
  /\ cache = None
  /\ restore = NoRestore
  /\ pooled = FALSE
  /\ req = [w \in Workers |-> Idle]
  /\ spoiled = FALSE

-----------------------------------------------------------------------------
(* Connections.  What follows about replaced databases is SQLite's doing:  *)
(* as long as a connection from before the replacement is open, its WAL    *)
(* shadows the new file, and new connections get a disk I/O error.         *)

OldOpen == \E w \in Workers : req[w].old

(* The session of a request takes the pooled connection, or a new one. *)
Begin(w, r) ==
  /\ req[w] = Idle /\ restore.at = "idle"
  /\ pooled \/ ~OldOpen
  /\ req' = [req EXCEPT ![w] = [r EXCEPT !.old = pooled]]

Goto(w, r) == req' = [req EXCEPT ![w] = r]

Ended(r) == IF r.old THEN [r EXCEPT !.at = "close"] ELSE Idle
Finish(w) == Goto(w, Ended(req[w]))

(* A session of its own, opened in the middle of a restore, leaves its     *)
(* connection in the new pool.                                             *)
OwnSession == pooled' = (pooled \/ restore.at = "reset")

Replaced == OldOpen \/ (pooled /\ restore.at # "reset")

(* The settings have changed: what the others hold of them is in doubt. *)
Unsettled(r) ==
  IF r.at \in {"store", "write", "invalidate", "delete"} /\ r.op # "secret"
  THEN [r EXCEPT !.doubt = TRUE] ELSE r

-----------------------------------------------------------------------------
(* Reading the settings: a page that shows them, or the daily prune, which *)
(* has no session until it deletes.                                        *)

Reading(op) == [Idle EXCEPT !.op = op, !.at = IF cache = None THEN "load" ELSE "use"]

Page(w) ==
  /\ Begin(w, Reading("page"))
  /\ UNCHANGED <<file, keyVars, cache, restore, pooled, spoiled>>

Prune(w) ==
  /\ req[w] = Idle /\ restore.at = "idle"
  /\ Goto(w, Reading("prune"))
  /\ UNCHANGED <<file, keyVars, cache, restore, pooled, spoiled>>

(* _load: every error is swallowed, and the default returned. *)
Load(w) ==
  /\ req[w].at = "load"
  /\ \/ /\ ~Replaced
        /\ Goto(w, [req[w] EXCEPT !.at = "store", !.window = file.window,
                                  !.doubt = FALSE])
     \/ /\ OldOpen \/ restore.at = "reset"
        /\ Goto(w, [req[w] EXCEPT !.at = "store", !.window = Default, !.doubt = TRUE])
     \/ /\ pooled
        /\ \E x \in Windows :
             Goto(w, [req[w] EXCEPT !.at = "store", !.window = x, !.doubt = TRUE])
  /\ OwnSession
  /\ UNCHANGED <<file, keyVars, cache, restore, spoiled>>

StoreCache(w) ==
  /\ req[w].at = "store"
  /\ cache' = [window |-> req[w].window, sure |-> ~req[w].doubt]
  /\ Goto(w, [req[w] EXCEPT !.at = "use", !.window = Default, !.doubt = FALSE])
  /\ UNCHANGED <<file, keyVars, restore, pooled, spoiled>>

(* The database is the restored one, and the caches are not cleared yet. *)
Midway == restore.at \in {"swapped", "blanked", "keyed"}

(* The database has changed and the cache is not dropped yet. *)
Lagging ==
  (\E w \in Workers : req[w].at = "invalidate") \/ Midway

(* Broken on purpose: a window of 0 days is taken at its word. *)
UseCacheZero(w) ==
  /\ req[w].at = "use"
  /\ IF cache = None \/ req[w].op = "page" THEN Finish(w)
     ELSE Goto(w, [req[w] EXCEPT !.at = "delete", !.window = cache.window,
                                 !.doubt = ~cache.sure \/ Lagging])
  /\ UNCHANGED <<file, keyVars, cache, restore, pooled, spoiled>>

(* The cache is read a second time; if it has been dropped meanwhile, the  *)
(* request fails, or the prune is given up.                                *)
UseCache(w) ==
  /\ req[w].at = "use"
  /\ IF cache = None \/ req[w].op = "page" \/ cache.window = 0 THEN Finish(w)
     ELSE Goto(w, [req[w] EXCEPT !.at = "delete", !.window = cache.window,
                                 !.doubt = ~cache.sure \/ Lagging])
  /\ UNCHANGED <<file, keyVars, cache, restore, pooled, spoiled>>

(* prune_old_events, in a session of its own. *)
DeleteOld(w) ==
  /\ req[w].at = "delete"
  /\ file' = IF Replaced THEN file ELSE [file EXCEPT !.old = FALSE]
  /\ OwnSession
  /\ Finish(w)
  /\ UNCHANGED <<keyVars, cache, restore, spoiled>>

AgeEvents ==
  /\ ~file.old
  /\ file' = [file EXCEPT !.old = TRUE]
  /\ UNCHANGED <<keyVars, cache, restore, pooled, req, spoiled>>

-----------------------------------------------------------------------------
(* Changing them: the row is loaded (or created, with what an absent row   *)
(* stands for), committed, the cache dropped, and the log pruned.          *)

BeginSet(w, x) ==
  /\ \E seen \in IF pooled THEN Windows ELSE {file.window} :
       Begin(w, [Idle EXCEPT !.at = "write", !.op = "set", !.window = x, !.seen = seen])
  /\ UNCHANGED <<file, keyVars, cache, restore, pooled, spoiled>>

(* Only a value that differs from the loaded one is written. *)
CommitSet(w) ==
  LET r == req[w]
      written == r.window # r.seen /\ ~r.old
  IN /\ r.at = "write"
     /\ file' = IF written THEN [file EXCEPT !.window = r.window] ELSE file
     /\ req' = [v \in Workers |->
                  IF v = w THEN [r EXCEPT !.at = "invalidate", !.seen = Default,
                                          !.doubt = ~written /\ (r.doubt \/ r.old)]
                  ELSE IF file' # file THEN Unsettled(req[v]) ELSE req[v]]
     /\ UNCHANGED <<keyVars, cache, restore, pooled, spoiled>>

(* Broken on purpose: the cache is kept until the process restarts. *)
InvalidateNothing(w) ==
  /\ req[w].at = "invalidate"
  /\ IF req[w].window = 0 THEN Finish(w) ELSE Goto(w, [req[w] EXCEPT !.at = "delete"])
  /\ UNCHANGED <<file, keyVars, cache, restore, pooled, spoiled>>

Invalidate(w) ==
  /\ req[w].at = "invalidate"
  /\ cache' = None
  /\ IF req[w].window = 0 THEN Finish(w) ELSE Goto(w, [req[w] EXCEPT !.at = "delete"])
  /\ UNCHANGED <<file, keyVars, restore, pooled, spoiled>>

-----------------------------------------------------------------------------
(* Saving a provider's secret: encrypted with the key that secret_box has  *)
(* cached, or reads from its file.  A login that decrypts it goes the same *)
(* way, and commits nothing (Fail).                                        *)

BeginSecret(w) ==
  /\ Begin(w, [Idle EXCEPT !.at = "encrypt", !.op = "secret"])
  /\ UNCHANGED <<file, keyVars, cache, restore, pooled, spoiled>>

(* A key that is drawn is like no other. *)
Drawable ==
  SecretKeys \ ({key, fernet, file.secret} \cup {req[w].secret : w \in Workers}
                  \cup {a.key : a \in Archives})

(* The file is tested and read without a lock.  Without it, the request    *)
(* draws a key of its own; an empty one is no key, and the request fails.  *)
Encrypt(w) ==
  LET Hold(at, k) == Goto(w, [req[w] EXCEPT !.at = at, !.secret = k])
  IN /\ req[w].at = "encrypt"
     /\ \/ fernet # None /\ Hold("commit", fernet)
        \/ fernet = None /\ key \in SecretKeys /\ Hold("fernet", key)
        \/ fernet = None /\ key = Empty /\ Finish(w)
        \/ fernet = None /\ key = None /\ \E k \in Drawable : Hold("create", k)
     /\ UNCHANGED <<file, keyVars, cache, restore, pooled, spoiled>>

(* The new key's file is opened, which creates or empties it, and then     *)
(* written.  Two requests that found no file each write a key of their     *)
(* own, one over the other, and one may write over a restored one.         *)
CreateKey(w) ==
  /\ req[w].at = "create"
  /\ key' = Empty
  /\ astray' = (astray \/ key # None)
  /\ Goto(w, [req[w] EXCEPT !.at = "fill"])
  /\ UNCHANGED <<file, fernet, cache, restore, pooled, spoiled>>

FillKey(w) ==
  /\ req[w].at = "fill"
  /\ key' = req[w].secret
  /\ astray' = (astray \/ key # Empty)
  /\ Goto(w, [req[w] EXCEPT !.at = "fernet"])
  /\ UNCHANGED <<file, fernet, cache, restore, pooled, spoiled>>

(* lru_cache keeps the first key it is given; a request that comes later   *)
(* goes on with its own.  A key read before a restore may be cached after  *)
(* it, until the next one.                                                 *)
CacheKey(w) ==
  /\ req[w].at = "fernet"
  /\ fernet' = IF fernet = None THEN req[w].secret ELSE fernet
  /\ astray' = (astray \/ (fernet' # key /\ ~Midway))
  /\ Goto(w, [req[w] EXCEPT !.at = "commit"])
  /\ UNCHANGED <<file, key, cache, restore, pooled, spoiled>>

(* Broken on purpose: what is stored is not encrypted. *)
CommitSecretPlain(w) ==
  /\ req[w].at = "commit"
  /\ file' = IF req[w].old THEN file ELSE [file EXCEPT !.secret = Empty]
  /\ Finish(w)
  /\ UNCHANGED <<keyVars, cache, restore, pooled, spoiled>>

CommitSecret(w) ==
  /\ req[w].at = "commit"
  /\ file' = IF req[w].old THEN file ELSE [file EXCEPT !.secret = req[w].secret]
  /\ Finish(w)
  /\ UNCHANGED <<keyVars, cache, restore, pooled, spoiled>>

-----------------------------------------------------------------------------
(* The restore. *)

(* The engine is disposed of: pooled connections are closed, those of      *)
(* running requests are not.                                               *)
BeginRestore(a) ==
  /\ restore = NoRestore
  /\ pooled \/ ~OldOpen
  /\ restore' = [at |-> "reset", from |-> a]
  /\ pooled' = FALSE
  /\ spoiled' = (spoiled \/ pooled)
  /\ UNCHANGED <<file, keyVars, cache, req>>

Alone == ~pooled /\ \A w \in Workers : req[w] = Idle

(* The database file is written in place and its WAL deleted.  A restore   *)
(* that runs alone from here on mends what had been spoiled before.        *)
Swap ==
  /\ restore.at = "reset"
  /\ file' = restore.from.content
  /\ restore' = [restore EXCEPT !.at = "swapped"]
  /\ req' = [w \in Workers |->
               [Unsettled(req[w]) EXCEPT !.old = @ \/ req[w].op \in {"page", "set", "secret"}]]
  /\ spoiled' = (spoiled /\ ~Alone)
  /\ astray' = (astray /\ ~Alone)
  /\ UNCHANGED <<key, fernet, cache, pooled>>

(* The key's file is written over, if the archive has one. *)
BlankKey ==
  /\ restore.at = "swapped" /\ restore.from.key # None
  /\ key' = Empty
  /\ restore' = [restore EXCEPT !.at = "blanked"]
  /\ UNCHANGED <<file, fernet, astray, cache, pooled, req, spoiled>>

RestoreKey ==
  /\ \/ restore.at = "swapped" /\ restore.from.key = None /\ UNCHANGED key
     \/ restore.at = "blanked" /\ key' = restore.from.key
  /\ restore' = [restore EXCEPT !.at = "keyed"]
  /\ UNCHANGED <<file, fernet, astray, cache, pooled, req, spoiled>>

(* Broken on purpose: the cached key survives the restore. *)
ClearSettingsOnly ==
  /\ restore.at = "keyed"
  /\ cache' = None
  /\ restore' = [restore EXCEPT !.at = "cleared"]
  /\ UNCHANGED <<file, keyVars, pooled, req, spoiled>>

ClearCaches ==
  /\ restore.at = "keyed"
  /\ fernet' = None /\ cache' = None
  /\ restore' = [restore EXCEPT !.at = "cleared"]
  /\ UNCHANGED <<file, key, astray, pooled, req, spoiled>>

(* The migrations, whose connection fails while an old one is open: the    *)
(* answer is then that the restore failed.                                 *)
EndRestore ==
  /\ restore.at = "cleared"
  /\ restore' = NoRestore
  /\ UNCHANGED <<file, keyVars, cache, pooled, req, spoiled>>

(* When the last connection to a replaced database is closed, its WAL is   *)
(* dropped or, page by page, written over the database that replaced it.   *)
CloseOld(w) ==
  /\ req[w].at = "close"
  /\ Goto(w, Idle)
  /\ \/ UNCHANGED <<file, spoiled>>
     \/ /\ ~pooled /\ \A v \in Workers \ {w} : ~req[v].old
        /\ file' \in Content
        /\ spoiled' = TRUE
  /\ UNCHANGED <<keyVars, cache, restore, pooled>>

-----------------------------------------------------------------------------
(* A lock timeout ends one request. *)
Fail(w) ==
  /\ req[w].at \in {"write", "commit", "delete"}
  /\ Finish(w)
  /\ UNCHANGED <<file, keyVars, cache, restore, pooled, spoiled>>

(* The process dies, or is stopped, and starts again. *)
Restart ==
  /\ req' = [w \in Workers |-> Idle]
  /\ fernet' = None /\ cache' = None
  /\ restore' = NoRestore
  /\ pooled' = FALSE
  /\ \/ UNCHANGED <<file, spoiled>>
     \/ (OldOpen \/ pooled) /\ file' \in Content /\ spoiled' = TRUE
  /\ astray' = \/ astray
               \/ restore.at \in {"swapped", "blanked"} /\ restore.from.key # None
  /\ UNCHANGED key

Reads(w) ==
  Page(w) \/ Prune(w) \/ Load(w) \/ StoreCache(w) \/ UseCache(w) \/ DeleteOld(w)
Sets(w) == (\E x \in Windows : BeginSet(w, x)) \/ CommitSet(w) \/ Invalidate(w)
Secrets(w) ==
  \/ BeginSecret(w) \/ Encrypt(w) \/ CreateKey(w) \/ FillKey(w) \/ CacheKey(w)
  \/ CommitSecret(w)
Restores ==
  \/ \E a \in Archives : BeginRestore(a)
  \/ Swap \/ BlankKey \/ RestoreKey \/ ClearCaches \/ EndRestore

Next ==
  \/ \E w \in Workers : Reads(w) \/ Sets(w) \/ Secrets(w) \/ CloseOld(w) \/ Fail(w)
  \/ Restores
  \/ AgeEvents
  \/ Restart

Spec == Init /\ [][Next]_vars

-----------------------------------------------------------------------------
TypeOK ==
  /\ file \in Content
  /\ key \in SecretKeys \cup {Empty, None}
  /\ fernet \in SecretKeys \cup {None}
  /\ cache \in Cached \cup {None}
  /\ restore \in [at : Stages, from : Archives \cup {None}]
  /\ restore.at # "idle" => restore.from # None
  /\ req \in [Workers -> Request]
  /\ pooled \in BOOLEAN /\ spoiled \in BOOLEAN /\ astray \in BOOLEAN

(* The cached settings are those of the database, except between a commit  *)
(* and its invalidation or a swap and its clearing, and unless they were   *)
(* loaded while they changed, or while the database could not be read.     *)
CacheFollowsSetting ==
  (cache # None /\ cache.sure /\ ~spoiled /\ ~Lagging) => cache.window = file.window

(* "0 keeps events forever": while that is the setting no old event is     *)
(* deleted, except by a prune whose window is in doubt, or by a restore.   *)
ForeverIsForever ==
  [][(file.window = 0 /\ file.old /\ ~file'.old) =>
       \/ spoiled \/ spoiled'
       \/ restore.at = "reset" /\ file' = restore.from.content
       \/ \E w \in Workers : req[w].at = "delete" /\ req[w].doubt]_vars

(* "encrypted provider secrets remain decryptable across restarts", and a  *)
(* backup "restores as a faithful clone": the provider's secret opens with *)
(* the key in use, whatever a request, a restore or a restart ran into,    *)
(* unless two writers of the key's file met (each found none and drew a    *)
(* key, or a restore came between), a key read before a restore was cached *)
(* after it, a restore was cut off before its key, or the database was     *)
(* spoiled.                                                                *)
SecretsOpen ==
  (~spoiled /\ ~astray /\ ~Midway) =>
    file.secret \in {None, IF fernet = None THEN key ELSE fernet}
=============================================================================
