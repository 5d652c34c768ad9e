--------------------------------- MODULE Backup ---------------------------------
(* keyhub.backup and the import and export of api/credentials.py: how          *)
(* credentials leave the store as a list of plain values under a password, as  *)
(* JSON or CSV, or as a copy of SQLite's file, and how they come back while    *)
(* other sessions go on.  Every database session has a connection of its own   *)
(* (db.py:51-54, write-ahead log): what is committed while another one is open *)
(* is in the log and not yet in the file.  A credential is its name and value. *)
(* A restore copies and overwrites the file under whoever has it open: nothing *)
(* stops the sessions that are, and engine.dispose() closes none of them.      *)
EXTENDS Integers, FiniteSets

CONSTANTS Names, Values,
          None,      \* no row of this name; nothing
          Gone       \* a row with deleted = True, which still has its name

ASSUME NameAssumption  == IsFiniteSet(Names)
ASSUME ValueAssumption ==
  /\ None # Gone /\ {None, Gone} \cap Values = {}
  /\ None \notin [Names -> Values \union {None, Gone}]

VARIABLES rows,      \* what is committed: the file and the log together
          main,      \* what the database file alone says
          logged,    \* the names the log has something to say about
          busy,      \* another session is open
          unlocked,
          file,      \* the last list exported: CLI backup or API answer
          full,      \* the last encrypted copy of the database file
          pc, todo, cur, mode,  \* the import that is running, or was last
          lost,      \* history: live names that import has deleted, not created
          step,      \* the restore that is running
          torn,      \* the database file has been truncated
          bak,       \* the copy it makes first, keyhub.db.bak
          raced,     \* history: names that copy does not have for certain
          old        \* history: the store when the file was truncated

storeVars  == <<rows, main, logged>>
importVars == <<pc, todo, cur, mode, lost>>
restoreVars == <<step, torn, bak, raced, old>>
vars == <<storeVars, busy, unlocked, file, full, importVars, restoreVars>>

Row   == Values \union {None, Gone}
Store == [Names -> Row]
List  == [Names -> Values \union {None}]

TypeOK ==
  /\ rows \in Store /\ main \in Store
  /\ logged \subseteq Names
  /\ \A n \in Names \ logged : main[n] = rows[n]
  /\ busy \in BOOLEAN /\ unlocked \in BOOLEAN
  /\ file \in List \union {None} /\ full \in Store \union {None}
  /\ pc \in {"idle", "next", "delete", "create"} /\ todo \subseteq Names
  /\ cur \in Names \union {None} /\ lost \subseteq Names
  /\ mode \in {"none", "merge", "overwrite", "api", "export"}
  /\ step \in {"idle", "copy", "truncate", "write"}
  /\ torn \in BOOLEAN /\ raced \subseteq Names
  /\ bak \in Store \union {None} /\ old \in Store \union {None}

Init ==
  /\ rows = [n \in Names |-> None] /\ main = rows /\ logged = {}
  /\ busy = FALSE /\ unlocked = TRUE
  /\ file = None /\ full = None
  /\ pc = "idle" /\ todo = {} /\ cur = None /\ mode = "none" /\ lost = {}
  /\ step = "idle" /\ torn = FALSE /\ bak = None /\ raced = {} /\ old = None

--------------------------------------------------------------------------------
Live(n) == rows[n] \in Values

\* The copy of a file that is written meanwhile mixes pages of two states, and
\* one of a file whose log has something for n is without it.
RacedBy(n, intoFile) ==
  IF step = "copy" /\ intoFile THEN Names
  ELSE raced \union IF step \in {"copy", "truncate"} THEN {n} ELSE {}

\* A transaction that writes one row; the last connection to close moves the
\* log into the file.  A connection opened on the truncated file finds no table.
Commit(n, v) ==
  /\ torn => busy
  /\ rows' = [rows EXCEPT ![n] = v]
  /\ main' = IF busy THEN main ELSE rows'
  /\ logged' = IF busy THEN logged \union {n} ELSE {}
  /\ raced' = RacedBy(n, ~busy)
  /\ UNCHANGED <<busy, full, step, torn, bak, old>>

StoreIdle == UNCHANGED <<storeVars, busy, full, restoreVars>>

SessionOpens ==
  /\ ~busy /\ ~torn
  /\ busy' = TRUE
  /\ UNCHANGED <<storeVars, unlocked, file, full, importVars, restoreVars>>

\* It may be one that was open when the file was truncated.
SessionCloses ==
  /\ busy
  /\ busy' = FALSE
  /\ main' = rows /\ logged' = {}
  /\ raced' = IF step = "copy" /\ logged # {} THEN Names ELSE raced
  /\ UNCHANGED <<rows, unlocked, file, full, importVars, step, torn, bak, old>>

\* The handlers of api/credentials: create refuses a name that has a row,
\* soft-deleted ones included; update and delete need a live one.  A session
\* open since before the file was truncated goes by what it has read.
User(n, v) ==
  /\ \/ rows[n] = None /\ v \in Values
     \/ (Live(n) \/ torn) /\ v # None /\ v # rows[n]
  /\ v = Gone \/ unlocked
  /\ Commit(n, v)
  /\ lost' = lost \ {n}
  /\ UNCHANGED <<unlocked, file, pc, todo, cur, mode>>

LockOrUnlock ==
  /\ unlocked' = ~unlocked
  /\ StoreIdle /\ UNCHANGED <<file, importVars>>

--------------------------------------------------------------------------------
\* export_backup: one session, all or nothing; a write that fails leaves a file
\* nothing can be read from.
ExportBackup ==
  /\ pc = "idle" /\ step = "idle" /\ unlocked /\ ~torn
  /\ file' \in {[n \in Names |-> IF Live(n) THEN rows[n] ELSE None], None}
  /\ StoreIdle /\ UNCHANGED <<unlocked, importVars>>

\* GET /export: the names first, then each value in a transaction of its own;
\* what cannot be read any more is left out.
BeginApiExport ==
  /\ pc = "idle" /\ step = "idle" /\ ~torn
  /\ pc' = "next" /\ mode' = "export" /\ lost' = {}
  /\ todo' = {n \in Names : Live(n)}
  /\ file' = [n \in Names |-> None]
  /\ StoreIdle /\ UNCHANGED <<unlocked, cur>>

ApiExport(n) ==
  /\ pc = "next" /\ mode = "export" /\ n \in todo
  /\ todo' = todo \ {n}
  /\ file' = IF Live(n) /\ unlocked THEN [file EXCEPT ![n] = rows[n]] ELSE file
  /\ StoreIdle /\ UNCHANGED <<unlocked, pc, cur, mode, lost>>

--------------------------------------------------------------------------------
BeginImport(m) ==
  /\ pc = "idle" /\ step = "idle" /\ ~torn /\ file # None
  /\ m = "api" \/ unlocked
  /\ pc' = "next" /\ mode' = m /\ lost' = {}
  /\ todo' = {n \in Names : file[n] # None}
  /\ StoreIdle /\ UNCHANGED <<unlocked, file, cur>>

\* First transaction of an item: is the name live?  A soft-deleted row of the
\* name is removed for good.
LookUp(n) ==
  /\ pc = "next" /\ mode \in {"merge", "overwrite"} /\ n \in todo
  /\ IF rows[n] = Gone THEN Commit(n, None) ELSE StoreIdle
  /\ IF Live(n) /\ mode = "merge"
       THEN todo' = todo \ {n} /\ UNCHANGED <<pc, cur>>
       ELSE /\ cur' = n /\ UNCHANGED todo
            /\ pc' = IF Live(n) THEN "delete" ELSE "create"
  /\ UNCHANGED <<unlocked, file, mode, lost>>

\* Second transaction: the row that was live is deleted, whatever it is now.
DeleteRow ==
  /\ pc = "delete"
  /\ IF rows[cur] # None THEN Commit(cur, None) ELSE StoreIdle
  /\ lost' = IF Live(cur) THEN lost \union {cur} ELSE lost
  /\ pc' = "create"
  /\ UNCHANGED <<unlocked, file, todo, cur, mode>>

\* Third transaction, create_credential.
CreateRow ==
  /\ pc = "create" /\ unlocked /\ rows[cur] = None
  /\ Commit(cur, file[cur])
  /\ lost' = lost \ {cur} /\ todo' = todo \ {cur} /\ pc' = "next" /\ cur' = None
  /\ UNCHANGED <<unlocked, file, mode>>

\* Fault variant: an import that goes on with the next item.
GoOn ==
  /\ pc \in {"next", "delete", "create"}
  /\ pc' = "next" /\ todo' = todo \ {cur} /\ cur' = None
  /\ StoreIdle /\ UNCHANGED <<unlocked, file, mode, lost>>

\* The name has a row again, the vault is locked, the database is locked, the
\* process dies: the import stops where it is.
ImportStops ==
  /\ pc \in {"next", "delete", "create"}
  /\ pc' = "idle" /\ todo' = {} /\ cur' = None
  /\ mode' = IF lost = {} THEN "none" ELSE mode
  /\ StoreIdle /\ UNCHANGED <<unlocked, file, lost>>

\* POST /import: each item by itself; those that fail are only counted.
ApiItem(n) ==
  /\ pc = "next" /\ mode = "api" /\ n \in todo
  /\ todo' = todo \ {n}
  /\ \/ unlocked /\ rows[n] = None /\ Commit(n, file[n])
     \/ StoreIdle
  /\ UNCHANGED <<unlocked, file, pc, cur, mode, lost>>

ImportEnds ==
  /\ pc = "next" /\ todo = {}
  /\ pc' = "idle" /\ mode' = "none"
  /\ StoreIdle /\ UNCHANGED <<unlocked, file, todo, cur, lost>>

--------------------------------------------------------------------------------
\* export_encrypted_backup reads the file as it is, without the log; the audit
\* entry it makes of it fails on a truncated one.
ExportFull ==
  /\ pc = "idle" /\ step = "idle" /\ unlocked /\ ~torn
  /\ full' = main
  /\ UNCHANGED <<storeVars, busy, unlocked, file, importVars, restoreVars>>

\* import_encrypted_backup has opened what it was sent (a wrong password or a
\* broken file changes nothing) and starts copying, over the copy there was.
\* It does not ask what is in the file: it may be a truncated one.
BeginRestore ==
  /\ step = "idle" /\ pc = "idle" /\ unlocked /\ full # None
  /\ step' = "copy" /\ bak' = None /\ raced' = logged /\ old' = None
  /\ UNCHANGED <<storeVars, busy, unlocked, file, full, importVars, torn>>

\* Fault variant: the copy is taken of the file that has been truncated.
CopyTooLate ==
  /\ step = "copy"
  /\ bak' = [n \in Names |-> None]
  /\ step' = "truncate"
  /\ UNCHANGED <<storeVars, busy, unlocked, file, full, importVars, torn, raced, old>>

\* shutil.copy2 has ended: the file, not the log, and any part of it when the
\* file was written to while it was read.
CopyOld ==
  /\ step = "copy"
  /\ \E part \in IF raced = Names THEN SUBSET Names ELSE {Names} :
       bak' = [n \in Names |-> IF n \in part THEN main[n] ELSE None]
  /\ step' = "truncate"
  /\ UNCHANGED <<storeVars, busy, unlocked, file, full, importVars, torn, raced, old>>

\* Fault variant: the sessions go on seeing what was there.
ReplaceUnseen(content) ==
  /\ main' = content
  /\ rows' = rows
  /\ lost' = {}
  /\ UNCHANGED <<busy, file, full, pc, todo, cur, mode>>

\* What is read from now on, if the database file has this content: the log,
\* if it is still there, goes before it.
Replace(content) ==
  /\ main' = content
  /\ rows' = [n \in Names |-> IF n \in logged' THEN rows[n] ELSE content[n]]
  /\ lost' = {}
  /\ UNCHANGED <<busy, file, full, pc, todo, cur, mode>>

\* open(db_path, "wb")
Truncate ==
  /\ step = "truncate"
  /\ torn' = TRUE /\ old' = rows
  /\ step' = "write"
  /\ logged' = logged /\ Replace([n \in Names |-> None])
  /\ UNCHANGED <<unlocked, bak, raced>>

\* SQLite removes the log it finds beside an empty file.
LogRemoved ==
  /\ torn /\ logged # {}
  /\ logged' = {} /\ Replace(main)
  /\ UNCHANGED <<unlocked, restoreVars>>

WriteNew ==
  /\ step = "write"
  /\ logged' = logged /\ Replace(full)
  /\ step' = "idle" /\ torn' = FALSE
  /\ bak' = None /\ raced' = {} /\ old' = None
  /\ UNCHANGED unlocked

\* The process dies, or the disk is full; a copy nobody needs is forgotten.
RestoreStops ==
  /\ step # "idle"
  /\ step' = "idle"
  /\ IF step = "write" THEN UNCHANGED <<bak, raced>> ELSE bak' = None /\ raced' = {}
  /\ UNCHANGED <<storeVars, busy, unlocked, file, full, importVars, torn, old>>

\* init_db at the start makes an empty database of the truncated file.
Restart ==
  /\ torn /\ step = "idle"
  /\ torn' = FALSE /\ unlocked' = FALSE
  /\ UNCHANGED <<storeVars, busy, file, full, importVars, step, bak, raced, old>>

\* The operator puts the copy back; nothing else reads it.
PutBack ==
  /\ bak # None /\ step = "idle" /\ pc = "idle"
  /\ logged' = logged /\ Replace(bak)
  /\ torn' = FALSE /\ bak' = None /\ raced' = {} /\ old' = None
  /\ UNCHANGED <<unlocked, step>>

--------------------------------------------------------------------------------
Import == \/ \E n \in Names : LookUp(n) \/ ApiItem(n) \/ ApiExport(n)
          \/ DeleteRow \/ CreateRow \/ ImportStops \/ ImportEnds

Next ==
  \/ \E n \in Names, v \in Row : User(n, v)
  \/ SessionOpens \/ SessionCloses \/ LockOrUnlock
  \/ ExportBackup \/ BeginApiExport
  \/ \E m \in {"merge", "overwrite", "api"} : BeginImport(m)
  \/ Import
  \/ ExportFull
  \/ BeginRestore \/ CopyOld \/ Truncate \/ LogRemoved \/ WriteNew
  \/ RestoreStops \/ Restart \/ PutBack

Spec == Init /\ [][Next]_vars

--------------------------------------------------------------------------------
\* However an import ends, at most one credential that was live is gone: the
\* one an overwriting import was replacing.  A merging import loses none.
ImportLosesAtMostOne ==
  /\ Cardinality(lost) <= 1
  /\ lost # {} => mode = "overwrite" /\ pc \in {"create", "idle"}

\* Once a restore has truncated the database file, and until it has written the
\* new one, the copy is put back or another restore begins, keyhub.db.bak has
\* the store as it was, but for names that were in the log when the copy began
\* or were written since, and unless the log went into the file while it was
\* copied: whatever the sessions still open write, and even when a restart has
\* made an empty database of the file and others go on with that one.
OldStoreKept ==
  old # None => bak # None /\ \A n \in Names \ raced : bak[n] = old[n]
================================================================================
