------------------------------ MODULE BackupProofs ------------------------------
(* What TLAPS proves of Backup for any names and values: types, what an import *)
(* that stops half way has cost, and what is left when a restore does.         *)
EXTENDS Backup, FiniteSetTheorems, TLAPS

USE NameAssumption, ValueAssumption

\* An import has read a file, and an item it is at is one of it.
ImportFollows ==
  /\ pc # "idle" => file # None
  /\ pc \in {"delete", "create"} => cur \in Names
  /\ pc = "delete" => mode = "overwrite"

\* What is lost is the item that is being replaced, or was when the import
\* stopped.
OneLost ==
  /\ \E x : lost \subseteq {x}
  /\ pc = "create" => lost \subseteq {cur}
  /\ lost # {} => mode = "overwrite" /\ pc \in {"create", "idle"}

\* While the file is copied, what has not been raced is in the file and nowhere
\* in the log; from then on the copy has it, and it has the store of the moment
\* when the file was truncated, whatever becomes of rows.
CopyFollows ==
  /\ step # "idle" => full # None
  /\ step \in {"copy", "truncate"} => logged \subseteq raced
  /\ step = "truncate" => bak \in Store /\ \A n \in Names \ raced : bak[n] = rows[n]
  /\ old # None => bak \in Store /\ \A n \in Names \ raced : bak[n] = old[n]
  /\ step \in {"copy", "truncate"} => old = None

\* The two halves of the invariant: database and restore, lists and import.
StoreOK ==
  /\ rows \in Store /\ main \in Store
  /\ logged \subseteq Names
  /\ \A n \in Names \ logged : main[n] = rows[n]
  /\ busy \in BOOLEAN /\ full \in Store \union {None}
  /\ step \in {"idle", "copy", "truncate", "write"}
  /\ torn \in BOOLEAN /\ raced \subseteq Names
  /\ bak \in Store \union {None} /\ old \in Store \union {None}
  /\ CopyFollows

ImportOK ==
  /\ unlocked \in BOOLEAN
  /\ file \in List \union {None}
  /\ pc \in {"idle", "next", "delete", "create"} /\ todo \subseteq Names
  /\ cur \in Names \union {None} /\ lost \subseteq Names
  /\ mode \in {"none", "merge", "overwrite", "api", "export"}
  /\ ImportFollows /\ OneLost

BackupInv == StoreOK /\ ImportOK

LEMMA InvGives == BackupInv => TypeOK /\ ImportFollows /\ OneLost /\ CopyFollows
BY DEF BackupInv, TypeOK, StoreOK, ImportOK

LEMMA BackupInit == Init => BackupInv
<1> SUFFICES ASSUME Init PROVE BackupInv
  OBVIOUS
<1>1. StoreOK
  BY DEF Init, StoreOK, CopyFollows, Store, Row
<1>2. ImportOK
  BY DEF Init, ImportOK, ImportFollows, OneLost
<1> QED
  BY <1>1, <1>2 DEF BackupInv

LEMMA RacedByGrows ==
  ASSUME StoreOK, NEW n \in Names, NEW intoFile \in BOOLEAN
  PROVE  /\ RacedBy(n, intoFile) \subseteq Names
         /\ raced \subseteq RacedBy(n, intoFile)
         /\ step \in {"copy", "truncate"} => n \in RacedBy(n, intoFile)
         /\ step \notin {"copy", "truncate"} => RacedBy(n, intoFile) = raced
BY DEF RacedBy, StoreOK

LEMMA CommitKeepsStore ==
  ASSUME StoreOK, NEW n \in Names, NEW v \in Row, Commit(n, v)
  PROVE  StoreOK'
<1>1. /\ rows' \in Store /\ rows' = [rows EXCEPT ![n] = v] /\ main' \in Store
      /\ logged' \subseteq Names /\ logged' \subseteq logged \union {n}
      /\ \A m \in Names \ logged' : main'[m] = rows'[m]
  BY DEF StoreOK, Commit, Store
<1>2. UNCHANGED <<busy, full, step, torn, bak, old>>
  BY DEF Commit
<1>3. /\ raced' \subseteq Names /\ raced \subseteq raced'
      /\ step \in {"copy", "truncate"} => n \in raced'
      /\ step \notin {"copy", "truncate"} => raced' = raced
  <2>1. (~busy) \in BOOLEAN /\ raced' = RacedBy(n, ~busy)
    BY DEF Commit
  <2> QED
    BY <2>1, RacedByGrows
<1>4. CopyFollows'
  <2>1. CopyFollows
    BY DEF StoreOK
  <2>2. step \in {"copy", "truncate"} => logged' \subseteq raced'
    BY <1>1, <1>3, <2>1 DEF CopyFollows
  <2>3. step = "truncate" => \A m \in Names \ raced' : bak[m] = rows'[m]
    <3> SUFFICES ASSUME step = "truncate", NEW m \in Names \ raced' PROVE bak[m] = rows'[m]
      OBVIOUS
    <3>1. m # n /\ m \notin raced
      BY <1>3
    <3>2. rows \in Store /\ rows'[m] = rows[m]
      BY <1>1, <3>1 DEF StoreOK, Store
    <3> QED
      BY <2>1, <3>1, <3>2 DEF CopyFollows
  <2>4. old # None => \A m \in Names \ raced' : bak[m] = old[m]
    BY <1>3, <2>1 DEF CopyFollows
  <2> QED
    BY <1>2, <2>1, <2>2, <2>3, <2>4 DEF CopyFollows
<1> QED
  BY <1>1, <1>2, <1>3, <1>4 DEF StoreOK

LEMMA IdleKeepsStore ==
  ASSUME StoreOK, StoreIdle
  PROVE  StoreOK'
BY DEF StoreOK, StoreIdle, storeVars, restoreVars, CopyFollows

\* An operator's write or another session leave the import where it is.
LEMMA UserKeepsInv ==
  ASSUME BackupInv, NEW n \in Names, NEW v \in Row, User(n, v)
  PROVE  BackupInv'
<1>1. StoreOK'
  BY CommitKeepsStore DEF BackupInv, User
<1>2. ImportOK'
  BY DEF BackupInv, ImportOK, User, ImportFollows, OneLost
<1> QED
  BY <1>1, <1>2 DEF BackupInv

LEMMA ListsAreSomething == \A l \in List \union Store : l # None
<1>1. List \subseteq Store
  BY DEF List, Store, Row
<1> QED
  BY <1>1 DEF Store, Row

\* A log that goes into the file while it is copied leaves no name unraced.
LEMMA CloseKeepsStore ==
  ASSUME StoreOK, SessionCloses
  PROVE  StoreOK'
<1>1. /\ main' = rows /\ logged' = {} /\ busy' = FALSE
      /\ UNCHANGED <<rows, full, step, torn, bak, old>>
  BY DEF SessionCloses
<1>2. raced' \subseteq Names /\ raced \subseteq raced'
  BY DEF SessionCloses, StoreOK
<1>3. CopyFollows'
  BY <1>1, <1>2 DEF StoreOK, CopyFollows
<1> QED
  BY <1>1, <1>2, <1>3 DEF StoreOK

LEMMA OthersKeepInv ==
  ASSUME BackupInv, SessionOpens \/ SessionCloses \/ LockOrUnlock \/ ExportFull
  PROVE  BackupInv'
<1>0. StoreOK /\ ImportOK
  BY DEF BackupInv
<1>1. ImportOK'
  BY <1>0 DEF ImportOK, SessionOpens, SessionCloses, LockOrUnlock, ExportFull,
              importVars, ImportFollows, OneLost
<1>2. CASE SessionOpens
  BY <1>0, <1>1, <1>2 DEF BackupInv, StoreOK, SessionOpens, storeVars, restoreVars, CopyFollows
<1>3. CASE SessionCloses
  BY <1>0, <1>1, <1>3, CloseKeepsStore DEF BackupInv
<1>4. CASE LockOrUnlock
  BY <1>0, <1>1, <1>4, IdleKeepsStore DEF BackupInv, LockOrUnlock
<1>5. CASE ExportFull
  <2>1. full' = main /\ UNCHANGED <<storeVars, busy, restoreVars>>
    BY <1>5 DEF ExportFull
  <2>2. full' \in Store /\ full' # None
    BY <1>0, <2>1, ListsAreSomething DEF StoreOK
  <2>3. StoreOK'
    BY <1>0, <2>1, <2>2 DEF StoreOK, storeVars, restoreVars, CopyFollows
  <2> QED
    BY <1>1, <2>3 DEF BackupInv
<1> QED
  BY <1>2, <1>3, <1>4, <1>5

--------------------------------------------------------------------------------
LEMMA ExportKeepsInv ==
  ASSUME BackupInv, ExportBackup \/ BeginApiExport \/ \E n \in Names : ApiExport(n)
  PROVE  BackupInv'
<1>0. StoreOK /\ ImportOK /\ StoreOK'
  BY IdleKeepsStore DEF BackupInv, ExportBackup, BeginApiExport, ApiExport
<1>1. CASE ExportBackup
  <2>1. [n \in Names |-> IF Live(n) THEN rows[n] ELSE None] \in List
    BY DEF Live, List
  <2>2. file' \in List \union {None}
    BY <1>1, <2>1 DEF ExportBackup
  <2>3. ImportOK'
    BY <1>0, <1>1, <2>2 DEF ImportOK, ExportBackup, importVars, ImportFollows, OneLost
  <2> QED
    BY <1>0, <2>3 DEF BackupInv
<1>2. CASE BeginApiExport
  <2>1. file' \in List /\ file' # None
    BY <1>2, ListsAreSomething DEF BeginApiExport, List
  <2>2. ImportOK'
    BY <1>0, <1>2, <2>1 DEF ImportOK, BeginApiExport, ImportFollows, OneLost
  <2> QED
    BY <1>0, <2>2 DEF BackupInv
<1>3. ASSUME NEW n \in Names, ApiExport(n) PROVE BackupInv'
  <2>1. file \in List
    BY <1>0, <1>3 DEF ApiExport, ImportOK, ImportFollows
  <2>2. file' \in List /\ file' # None
    BY <2>1, <1>3, ListsAreSomething DEF ApiExport, List, Live
  <2>3. ImportOK'
    BY <1>0, <1>3, <2>2 DEF ImportOK, ApiExport, ImportFollows, OneLost
  <2> QED
    BY <1>0, <2>3 DEF BackupInv
<1> QED
  BY <1>1, <1>2, <1>3

LEMMA ImportKeepsInv ==
  ASSUME BackupInv, Import
  PROVE  BackupInv'
<1>0. StoreOK /\ ImportOK
  BY DEF BackupInv
<1>1. ASSUME NEW n \in Names, LookUp(n) PROVE BackupInv'
  <2>1. StoreOK'
    BY <1>0, <1>1, CommitKeepsStore, IdleKeepsStore DEF LookUp, Row
  <2>2. ImportOK'
    BY <1>0, <1>1 DEF ImportOK, LookUp, ImportFollows, OneLost
  <2> QED
    BY <2>1, <2>2 DEF BackupInv
<1>2. ASSUME NEW n \in Names, ApiItem(n) PROVE BackupInv'
  <2>1. file[n] \in Row
    BY <1>0, <1>2 DEF ApiItem, ImportOK, ImportFollows, List, Row
  <2>2. StoreOK'
    BY <1>0, <1>2, <2>1, CommitKeepsStore, IdleKeepsStore DEF ApiItem
  <2>3. ImportOK'
    BY <1>0, <1>2 DEF ImportOK, ApiItem, ImportFollows, OneLost
  <2> QED
    BY <2>2, <2>3 DEF BackupInv
<1>3. ASSUME NEW n \in Names, ApiExport(n) PROVE BackupInv'
  BY <1>3, ExportKeepsInv
<1>4. CASE DeleteRow
  <2>1. cur \in Names /\ mode = "overwrite" /\ lost \subseteq Names /\ lost = {}
    BY <1>0, <1>4 DEF DeleteRow, ImportOK, ImportFollows, OneLost
  <2>2. StoreOK'
    BY <1>0, <1>4, <2>1, CommitKeepsStore, IdleKeepsStore DEF DeleteRow, Row
  <2>3. lost' \subseteq {cur} /\ lost' \subseteq Names
    BY <1>4, <2>1 DEF DeleteRow
  <2>4. ImportOK'
    BY <1>0, <1>4, <2>1, <2>3 DEF ImportOK, DeleteRow, ImportFollows, OneLost
  <2> QED
    BY <2>2, <2>4 DEF BackupInv
<1>5. CASE CreateRow
  <2>1. cur \in Names /\ file[cur] \in Row
    BY <1>0, <1>5 DEF CreateRow, ImportOK, ImportFollows, List, Row
  <2>2. StoreOK'
    BY <1>0, <1>5, <2>1, CommitKeepsStore DEF CreateRow
  <2>3. lost' = {}
    BY <1>0, <1>5 DEF CreateRow, ImportOK, OneLost
  <2>4. ImportOK'
    BY <1>0, <1>5, <2>3 DEF ImportOK, CreateRow, ImportFollows, OneLost
  <2> QED
    BY <2>2, <2>4 DEF BackupInv
<1>6. CASE ImportStops
  <2>1. StoreOK'
    BY <1>0, <1>6, IdleKeepsStore DEF ImportStops
  <2>2. ImportOK'
    BY <1>0, <1>6 DEF ImportOK, ImportStops, ImportFollows, OneLost
  <2> QED
    BY <2>1, <2>2 DEF BackupInv
<1>7. CASE ImportEnds
  <2>1. StoreOK'
    BY <1>0, <1>7, IdleKeepsStore DEF ImportEnds
  <2>2. lost = {} \/ mode = "overwrite"
    BY <1>0 DEF ImportOK, OneLost
  <2>3. ImportOK'
    BY <1>0, <1>7 DEF ImportOK, ImportEnds, ImportFollows, OneLost
  <2> QED
    BY <2>1, <2>3 DEF BackupInv
<1> QED
  BY <1>1, <1>2, <1>3, <1>4, <1>5, <1>6, <1>7 DEF Import

LEMMA BeginImportKeepsInv ==
  ASSUME BackupInv, NEW m \in {"merge", "overwrite", "api"}, BeginImport(m)
  PROVE  BackupInv'
<1>0. StoreOK /\ ImportOK
  BY DEF BackupInv
<1>1. StoreOK'
  BY <1>0, IdleKeepsStore DEF BeginImport
<1>2. ImportOK'
  BY <1>0 DEF ImportOK, BeginImport, ImportFollows, OneLost
<1> QED
  BY <1>1, <1>2 DEF BackupInv

\* A file put in place: rows the log does not have are those of the file.
LEMMA ReplaceFits ==
  ASSUME StoreOK, NEW content \in Store, Replace(content), logged' \subseteq logged
  PROVE  /\ rows' \in Store /\ main' \in Store /\ logged' \subseteq Names
         /\ \A n \in Names \ logged' : main'[n] = rows'[n]
         /\ UNCHANGED <<busy, full>>
BY DEF StoreOK, Replace, Store

LEMMA ReplaceKeepsImport ==
  ASSUME ImportOK, NEW content, Replace(content), unlocked' \in BOOLEAN
  PROVE  ImportOK'
BY DEF ImportOK, Replace, ImportFollows, OneLost

\* A copy that has ended has every name that was not raced.
LEMMA CopyKeepsStore ==
  ASSUME StoreOK, CopyOld
  PROVE  StoreOK'
<1>1. step = "copy" /\ step' = "truncate"
      /\ UNCHANGED <<storeVars, busy, full, torn, raced, old>>
  BY DEF CopyOld
<1>2. PICK part \in IF raced = Names THEN SUBSET Names ELSE {Names} :
        bak' = [n \in Names |-> IF n \in part THEN main[n] ELSE None]
  BY DEF CopyOld
<1>3. bak' \in Store
  BY <1>2 DEF StoreOK, Store, Row
<1>4. ASSUME NEW n \in Names \ raced PROVE bak'[n] = rows[n]
  <2>1. part = Names /\ n \notin logged
    BY <1>1, <1>2, <1>4 DEF StoreOK, CopyFollows
  <2> QED
    BY <1>2, <2>1 DEF StoreOK
<1>5. CopyFollows'
  BY <1>1, <1>3, <1>4 DEF StoreOK, CopyFollows, storeVars
<1> QED
  BY <1>1, <1>3, <1>5 DEF StoreOK, storeVars

\* The truncation: the store as it was is what the copy has.
LEMMA TruncateKeepsStore ==
  ASSUME StoreOK, Truncate
  PROVE  StoreOK'
<1>1. [n \in Names |-> None] \in Store
  BY DEF Store, Row
<1>2. /\ rows' \in Store /\ main' \in Store /\ logged' \subseteq Names
      /\ \A n \in Names \ logged' : main'[n] = rows'[n]
      /\ UNCHANGED <<busy, full>>
  BY <1>1, ReplaceFits DEF Truncate
<1>3. step = "truncate" /\ torn' = TRUE /\ old' = rows /\ step' = "write"
      /\ UNCHANGED <<bak, raced>>
  BY DEF Truncate
<1>4. CopyFollows'
  BY <1>2, <1>3 DEF StoreOK, CopyFollows
<1> QED
  BY <1>2, <1>3, <1>4 DEF StoreOK

LEMMA RestoreKeepsInv ==
  ASSUME BackupInv,
         \/ BeginRestore \/ CopyOld \/ Truncate \/ LogRemoved \/ WriteNew
         \/ RestoreStops \/ Restart \/ PutBack
  PROVE  BackupInv'
<1>0. StoreOK /\ ImportOK
  BY DEF BackupInv
<1>1. CASE BeginRestore
  <2>1. StoreOK'
    BY <1>0, <1>1 DEF StoreOK, BeginRestore, storeVars, CopyFollows
  <2>2. ImportOK'
    BY <1>0, <1>1 DEF ImportOK, BeginRestore, importVars, ImportFollows, OneLost
  <2> QED
    BY <2>1, <2>2 DEF BackupInv
<1>2. CASE CopyOld
  <2>1. ImportOK'
    BY <1>0, <1>2 DEF ImportOK, CopyOld, importVars, ImportFollows, OneLost
  <2> QED
    BY <1>0, <1>2, <2>1, CopyKeepsStore DEF BackupInv
<1>3. CASE Truncate
  <2>1. ImportOK'
    BY <1>0, <1>3, ReplaceKeepsImport DEF ImportOK, Truncate
  <2> QED
    BY <1>0, <1>3, <2>1, TruncateKeepsStore DEF BackupInv
<1>4. CASE LogRemoved
  <2>0. /\ rows' \in Store /\ main' \in Store /\ logged' = {}
        /\ \A n \in Names \ logged' : main'[n] = rows'[n]
        /\ UNCHANGED <<busy, full, restoreVars>>
    BY <1>0, <1>4, ReplaceFits DEF LogRemoved, StoreOK
  <2>1. \A n \in Names \ logged : rows'[n] = rows[n]
    BY <1>0, <1>4 DEF LogRemoved, Replace, StoreOK
  <2>2. StoreOK'
    BY <1>0, <2>0, <2>1 DEF StoreOK, CopyFollows, restoreVars
  <2>3. ImportOK'
    BY <1>0, <1>4, ReplaceKeepsImport DEF ImportOK, LogRemoved
  <2> QED
    BY <2>2, <2>3 DEF BackupInv
<1>5. ASSUME NEW content \in Store, Replace(content), logged' = logged,
             step' = "idle", torn' = FALSE, bak' = None, raced' = {}, old' = None,
             UNCHANGED unlocked
      PROVE  BackupInv'
  <2>0. /\ rows' \in Store /\ main' \in Store /\ logged' \subseteq Names
        /\ \A n \in Names \ logged' : main'[n] = rows'[n]
        /\ UNCHANGED <<busy, full>>
    BY <1>0, <1>5, ReplaceFits
  <2>1. StoreOK'
    BY <1>0, <1>5, <2>0 DEF StoreOK, CopyFollows
  <2>2. ImportOK'
    BY <1>0, <1>5, ReplaceKeepsImport DEF ImportOK
  <2> QED
    BY <2>1, <2>2 DEF BackupInv
<1>6. CASE WriteNew
  BY <1>0, <1>5, <1>6 DEF WriteNew, StoreOK, CopyFollows
<1>7. CASE PutBack
  BY <1>0, <1>5, <1>7 DEF PutBack, StoreOK
<1>8. CASE RestoreStops
  <2>1. StoreOK'
    BY <1>0, <1>8 DEF StoreOK, RestoreStops, storeVars, CopyFollows
  <2>2. ImportOK'
    BY <1>0, <1>8 DEF ImportOK, RestoreStops, importVars, ImportFollows, OneLost
  <2> QED
    BY <2>1, <2>2 DEF BackupInv
<1>9. CASE Restart
  <2>1. StoreOK'
    BY <1>0, <1>9 DEF StoreOK, Restart, storeVars, CopyFollows
  <2>2. ImportOK'
    BY <1>0, <1>9 DEF ImportOK, Restart, importVars, ImportFollows, OneLost
  <2> QED
    BY <2>1, <2>2 DEF BackupInv
<1> QED
  BY <1>1, <1>2, <1>3, <1>4, <1>6, <1>7, <1>8, <1>9

LEMMA BackupStep == BackupInv /\ [Next]_vars => BackupInv'
<1> SUFFICES ASSUME BackupInv, [Next]_vars PROVE BackupInv'
  OBVIOUS
<1>1. CASE Next
  BY <1>1, UserKeepsInv, OthersKeepInv, ExportKeepsInv, BeginImportKeepsInv,
     ImportKeepsInv, RestoreKeepsInv DEF Next
<1>2. CASE UNCHANGED vars
  BY <1>2 DEF vars, storeVars, importVars, restoreVars, BackupInv, StoreOK,
     ImportOK, ImportFollows, OneLost, CopyFollows
<1> QED
  BY <1>1, <1>2

THEOREM BackupInvariant == Spec => []BackupInv
BY BackupInit, BackupStep, PTL DEF Spec

\* Type correctness, for any names and values.
THEOREM BackupTypeCorrect == Spec => []TypeOK
<1>1. BackupInv => TypeOK
  BY InvGives
<1> QED
  BY <1>1, BackupInvariant, PTL

\* However an import ends (finished, refused, killed between its transactions),
\* it has lost at most the one credential it was replacing.
THEOREM ImportsLoseAtMostOne == Spec => []ImportLosesAtMostOne
<1>1. BackupInv => ImportLosesAtMostOne
  <2> SUFFICES ASSUME BackupInv PROVE ImportLosesAtMostOne
    OBVIOUS
  <2>1. OneLost
    BY InvGives
  <2>2. PICK x : lost \subseteq {x}
    BY <2>1 DEF OneLost
  <2>3. IsFiniteSet({x}) /\ Cardinality({x}) = 1
    BY FS_Singleton
  <2>4. Cardinality(lost) <= 1
    BY <2>2, <2>3, FS_Subset
  <2> QED
    BY <2>1, <2>4 DEF OneLost, ImportLosesAtMostOne
<1> QED
  BY <1>1, BackupInvariant, PTL

\* From the truncation of the database file until the restore is done, the copy
\* is put back or another restore begins, the copy has every row of the store as
\* it was that no other session was writing, whatever is written meanwhile.
THEOREM OldStoresAreKept == Spec => []OldStoreKept
<1>1. BackupInv => OldStoreKept
  <2> SUFFICES ASSUME BackupInv, old # None PROVE OldStoreKept
    BY DEF OldStoreKept
  <2>1. bak \in Store /\ \A n \in Names \ raced : bak[n] = old[n]
    BY InvGives DEF CopyFollows
  <2> QED
    BY <2>1, ListsAreSomething DEF OldStoreKept
<1> QED
  BY <1>1, BackupInvariant, PTL

================================================================================
