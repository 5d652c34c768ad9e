----------------------------- MODULE KeyStoreProofs -----------------------------
(* What TLAPS proves of KeyStore, for any processes, threads, credentials and   *)
(* changes and however they overlap: types, that only a credential whose write *)
(* crossed a change can become unreadable, and that the store implements       *)
(* CredentialStore.                                                            *)
EXTENDS KeyStore, TLAPS

USE ProcOfType, BoundsNat, NoThreadIsNone, NoKeyIsNone, NoCipherIsNone, NoCredIsNone

Creating == {"createEncrypt", "createCommit"}
Valuing  == {"updateEncrypt", "valueCommit"}

\* What the locals of a thread are worth follows from where it is; whoever is
\* past a check has seen the store initialized.
Holding(t) ==
  /\ pc[t] \in Creating \union Valuing => tgt[t] \in Creds
  /\ pc[t] \in Valuing => seen[t] \in Ciphers
  /\ pc[t] \in {"createCommit", "valueCommit"} => made[t] \in Ciphers
  /\ pc[t] \in KeySteps \union ChangeSteps => key[t] \in Keys
  /\ pc[t] = "changeCommit" => /\ \A c \in snap[t].rows : snap[t].ct[c] \in Ciphers
                              /\ snap[t].todo \subseteq snap[t].rows
  /\ pc[t] \notin {"idle", "initCommit"} => kv # NoKey

RowsOK  == \A c \in Creds : state[c] # "absent" => ct[c] \in Ciphers /\ kv # NoKey
ProcsOK == \A p \in Procs : vault[p] # NoKey \/ initSeen[p] = "yes" => kv # NoKey

StoreInv == TypeOK /\ RowsOK /\ ProcsOK /\ \A t \in Threads : Holding(t)

\* TypeOK in two: what is shared, and what is a thread's own.
SharedOK ==
  /\ kv \in Keys \union {NoKey}
  /\ state \in [Creds -> {"absent", "live", "deleted"}]
  /\ ct \in [Creds -> Ciphers \union {NoCipher}]
  /\ logs \in [Creds -> Seq(Ciphers)] /\ had \in [Creds -> SUBSET Values]
  /\ dbWriter \in Threads \union {NoThread}
  /\ salts \in Nat
  /\ vault \in [Procs -> Keys \union {NoKey}]
  /\ initSeen \in [Procs -> {"unknown", "yes", "no"}]
  /\ rwWriter \in [Procs -> Threads \union {NoThread}]
  /\ behind \subseteq Procs /\ raced \subseteq Creds

LocalsOK ==
  /\ pc \in [Threads -> {"idle"} \union ChangeSteps \union KeySteps \union WriteSteps]
  /\ tgt \in [Threads -> Creds \union {NoCred}]
  /\ seen \in [Threads -> Ciphers \union {NoCipher}]
  /\ made \in [Threads -> Ciphers \union {NoCipher}]
  /\ key \in [Threads -> Keys \union {NoKey}]
  /\ snap \in [Threads -> Snapshots]
  /\ overtaken \subseteq Threads

LEMMA TypesSplit == TypeOK <=> SharedOK /\ LocalsOK
BY DEF TypeOK, SharedOK, LocalsOK

LEMMA NoRowsType == NoRows \in Snapshots
<1>1. [c \in Creds |-> NoCipher] \in [Creds -> Ciphers \union {NoCipher}]
  OBVIOUS
<1>2. [c \in Creds |-> <<>>] \in [Creds -> Seq(Ciphers)]
  OBVIOUS
<1> QED
  BY <1>1, <1>2 DEF NoRows, Snapshots

\* A new key is one.
LEMMA KeyType == \A w \in Passwords, n \in Nat : [pw |-> w, salt |-> n] \in Keys
BY DEF Keys

LEMMA TableIsSequence ==
  ASSUME NEW S, NEW n \in Nat, NEW f \in [1..n -> S]
  PROVE  f \in Seq(S)
OBVIOUS

LEMMA CipherType == \A k \in Keys, v \in Values : [key |-> k, val |-> v] \in Ciphers
BY DEF Ciphers

LEMMA ReencryptType ==
  ASSUME NEW c \in Ciphers, NEW old, NEW new \in Keys
  PROVE  /\ Reencrypt(c, old, new) \in Ciphers
         /\ Reencrypt(c, old, new).val = c.val
         /\ c.key = old => Reencrypt(c, old, new).key = new
BY DEF Reencrypt, Ciphers

--------------------------------------------------------------------------------
\* What a thread's step does to the other threads: nothing.
OthersStay(t) ==
  \A o \in Threads \ {t} :
    /\ pc'[o] = pc[o] /\ tgt'[o] = tgt[o] /\ seen'[o] = seen[o]
    /\ made'[o] = made[o] /\ key'[o] = key[o] /\ snap'[o] = snap[o]

LEMMA ReturnTypes ==
  ASSUME LocalsOK, NEW t \in Threads, Return(t)
  PROVE  LocalsOK' /\ OthersStay(t) /\ pc'[t] = "idle" /\ Holding(t)'
<1>1. LocalsOK' /\ OthersStay(t) /\ pc'[t] = "idle"
  BY NoRowsType DEF LocalsOK, Return, Goto, OthersStay
<1> QED
  BY <1>1 DEF Holding, Creating, Valuing, KeySteps, ChangeSteps

\* A thread that only goes somewhere.
LEMMA GotoTypes ==
  ASSUME LocalsOK, NEW t \in Threads,
         NEW place \in ChangeSteps \union KeySteps \union WriteSteps,
         Goto(t, place), UNCHANGED localVars
  PROVE  LocalsOK' /\ OthersStay(t) /\ pc'[t] = place
BY DEF LocalsOK, Goto, OthersStay, localVars

LEMMA StoreFrame ==
  ASSUME StoreInv, NEW t \in Threads, OthersStay(t), SharedOK', LocalsOK', RowsOK', ProcsOK',
         Holding(t)', kv # NoKey => kv' # NoKey
  PROVE  StoreInv'
<1>1. \A o \in Threads \ {t} : Holding(o)'
  BY DEF StoreInv, OthersStay, Holding
<1> QED
  BY <1>1, TypesSplit DEF StoreInv, TypeOK, SharedOK, LocalsOK

\* The same of a step that writes nothing to the database.
LEMMA StoreQuiet ==
  ASSUME StoreInv, NEW t \in Threads, OthersStay(t), LocalsOK', ProcsOK', Holding(t)',
         UNCHANGED dbVars,
         dbWriter' \in Threads \union {NoThread}, salts' \in Nat,
         vault' \in [Procs -> Keys \union {NoKey}],
         initSeen' \in [Procs -> {"unknown", "yes", "no"}],
         rwWriter' \in [Procs -> Threads \union {NoThread}], behind' \subseteq Procs
  PROVE  StoreInv'
<1>1. SharedOK' /\ RowsOK'
  BY DEF StoreInv, TypeOK, SharedOK, RowsOK, dbVars
<1> QED
  BY <1>1, StoreFrame DEF dbVars

LEMMA StoreInit == Init => StoreInv
<1> SUFFICES ASSUME Init PROVE StoreInv
  OBVIOUS
<1>1. SharedOK
  BY DEF Init, SharedOK
<1>2. LocalsOK
  BY NoRowsType DEF Init, LocalsOK
<1>3. RowsOK /\ ProcsOK
  BY DEF Init, RowsOK, ProcsOK
<1>4. \A t \in Threads : Holding(t)
  BY DEF Init, Holding, Creating, Valuing, KeySteps, ChangeSteps
<1> QED
  BY <1>1, <1>2, <1>3, <1>4, TypesSplit DEF StoreInv

--------------------------------------------------------------------------------
\* A remembered yes is true.
LEMMA RememberTypes ==
  ASSUME StoreInv, NEW p \in Procs, Remember(p), UNCHANGED <<kv, vault>>
  PROVE  /\ initSeen' \in [Procs -> {"unknown", "yes", "no"}] /\ ProcsOK'
         /\ IsInitialized(p) => kv # NoKey
BY DEF StoreInv, TypeOK, ProcsOK, Remember, IsInitialized

LEMMA ProcType == \A t \in Threads : Proc(t) \in Procs
BY DEF Proc

\* The first step of a handler: its locals are set, nothing else but a memory.
LEMMA BeginKeepsStore ==
  ASSUME StoreInv, NEW t \in Threads, Begin(t)
  PROVE  StoreInv'
<1>0. SharedOK /\ LocalsOK /\ Proc(t) \in Procs
  BY TypesSplit, ProcType DEF StoreInv
<1>1. CASE Observe(t)
  <2>1. LocalsOK' /\ OthersStay(t) /\ Holding(t)'
    BY <1>0, <1>1 DEF StoreInv, Observe, LocalsOK, localVars, dbVars, OthersStay, Holding
  <2> QED
    BY <1>0, <1>1, <2>1, RememberTypes, StoreQuiet DEF Observe, SharedOK, dbVars
<1>2. CASE Lock(t)
  <2>1. LocalsOK' /\ OthersStay(t) /\ Holding(t)'
    BY <1>0, <1>2 DEF StoreInv, Lock, LocalsOK, localVars, dbVars, OthersStay, Holding
  <2>2. ProcsOK' /\ vault' \in [Procs -> Keys \union {NoKey}] /\ behind' \subseteq Procs
    BY <1>0, <1>2 DEF StoreInv, ProcsOK, SharedOK, Lock, dbVars
  <2>3. UNCHANGED <<dbVars, dbWriter, salts, initSeen, rwWriter>>
    BY <1>2 DEF Lock
  <2>4. /\ dbWriter' \in Threads \union {NoThread} /\ salts' \in Nat
        /\ initSeen' \in [Procs -> {"unknown", "yes", "no"}]
        /\ rwWriter' \in [Procs -> Threads \union {NoThread}]
    BY <1>0, <2>3 DEF SharedOK
  <2> QED
    BY <2>1, <2>2, <2>3, <2>4, StoreQuiet
<1>3. ASSUME NEW w \in Passwords, InitCheck(t, w) PROVE StoreInv'
  <2>0. salts' \in Nat
    BY <1>0, <1>3 DEF InitCheck, SharedOK
  <2>1. salts' \in Nat /\ [pw |-> w, salt |-> salts'] \in Keys
    BY <2>0, KeyType
  <2>2. LocalsOK' /\ OthersStay(t) /\ pc'[t] = "initCommit" /\ key'[t] \in Keys
    BY <1>0, <1>3, <2>1 DEF InitCheck, Goto, LocalsOK, OthersStay, KeySteps
  <2>3. Holding(t)'
    BY <2>2 DEF Holding, Creating, Valuing
  <2> QED
    BY <1>0, <1>3, <2>1, <2>2, <2>3, RememberTypes, StoreQuiet DEF InitCheck, SharedOK, dbVars
<1>4. ASSUME NEW w \in Passwords, UnlockReadParams(t, w) PROVE StoreInv'
  <2>0. kv \in Keys /\ kv' = kv /\ kv # NoKey
    BY <1>0, <1>4, RememberTypes DEF UnlockReadParams, SharedOK, dbVars
  <2>1. [pw |-> w, salt |-> kv.salt] \in Keys
    BY <2>0, KeyType DEF Keys
  <2>2. LocalsOK' /\ OthersStay(t) /\ pc'[t] = "unlockHash" /\ key'[t] \in Keys
    BY <1>0, <1>4, <2>1 DEF UnlockReadParams, Goto, LocalsOK, OthersStay, KeySteps
  <2>3. Holding(t)'
    BY <2>0, <2>2 DEF Holding, Creating, Valuing
  <2> QED
    BY <1>0, <1>4, <2>2, <2>3, RememberTypes, StoreQuiet DEF UnlockReadParams, SharedOK, dbVars
<1>5. ASSUME NEW old \in Passwords, NEW new \in Passwords, ChangeVerify(t, old, new)
      PROVE  StoreInv'
  <2>0. kv' = kv /\ kv # NoKey
    BY <1>0, <1>5 DEF StoreInv, ProcsOK, ChangeVerify, Vault, dbVars
  <2>1. salts' \in Nat /\ [pw |-> new, salt |-> salts'] \in Keys
    BY <1>0, <1>5, KeyType DEF ChangeVerify, SharedOK
  <2>2. LocalsOK' /\ OthersStay(t) /\ pc'[t] = "changeEnter" /\ key'[t] \in Keys
    BY <1>0, <1>5, <2>1 DEF ChangeVerify, Goto, LocalsOK, OthersStay, ChangeSteps
  <2>3. Holding(t)'
    BY <2>0, <2>2 DEF Holding, Creating, Valuing
  <2> QED
    BY <1>0, <1>5, <2>1, <2>2, <2>3, StoreQuiet DEF StoreInv, ProcsOK, ChangeVerify, SharedOK, dbVars, procVars
<1>6. ASSUME NEW c \in Creds, CreateInsert(t, c) PROVE StoreInv'
  <2>0. kv' = kv /\ kv # NoKey
    BY <1>0, <1>6 DEF StoreInv, ProcsOK, CreateInsert, Vault, dbVars
  <2>2. LocalsOK' /\ OthersStay(t) /\ pc'[t] = "createEncrypt" /\ tgt'[t] = c
    BY <1>0, <1>6 DEF CreateInsert, Goto, LocalsOK, OthersStay, WriteSteps
  <2>3. Holding(t)'
    BY <2>0, <2>2 DEF Holding, Creating, Valuing, KeySteps, ChangeSteps
  <2> QED
    BY <1>0, <1>6, <2>2, <2>3, StoreQuiet DEF StoreInv, ProcsOK, CreateInsert, SharedOK, dbVars, procVars
<1>7. ASSUME NEW c \in Creds, UpdateRead(t, c) PROVE StoreInv'
  <2>0. kv' = kv /\ kv # NoKey /\ ct[c] \in Ciphers
    BY <1>0, <1>7 DEF StoreInv, RowsOK, UpdateRead, dbVars
  <2>2. /\ LocalsOK' /\ OthersStay(t) /\ pc'[t] = "updateEncrypt"
        /\ tgt'[t] = c /\ seen'[t] = ct[c]
    BY <1>0, <1>7, <2>0 DEF UpdateRead, Goto, LocalsOK, OthersStay, WriteSteps
  <2>3. Holding(t)'
    BY <2>0, <2>2 DEF Holding, Creating, Valuing, KeySteps, ChangeSteps
  <2> QED
    BY <1>0, <1>7, <2>2, <2>3, StoreQuiet DEF StoreInv, ProcsOK, UpdateRead, SharedOK, dbVars, procVars
<1>8. ASSUME NEW c \in Creds, NEW i \in 1..MaxLogs, RollbackRead(t, c, i) PROVE StoreInv'
  <2>0. kv' = kv /\ kv # NoKey /\ ct[c] \in Ciphers /\ logs[c][i] \in Ciphers
    BY <1>0, <1>8 DEF StoreInv, RowsOK, RollbackRead, dbVars, SharedOK
  <2>2. /\ LocalsOK' /\ OthersStay(t) /\ pc'[t] = "valueCommit"
        /\ tgt'[t] = c /\ seen'[t] = ct[c] /\ made'[t] = logs[c][i]
    BY <1>0, <1>8, <2>0 DEF RollbackRead, Goto, LocalsOK, OthersStay, WriteSteps
  <2>3. Holding(t)'
    BY <2>0, <2>2 DEF Holding, Creating, Valuing, KeySteps, ChangeSteps
  <2> QED
    BY <1>0, <1>8, <2>2, <2>3, StoreQuiet DEF StoreInv, ProcsOK, RollbackRead, SharedOK, dbVars, procVars
<1>9. ASSUME NEW c \in Creds, Delete(t, c) PROVE StoreInv'
  <2>1. LocalsOK' /\ OthersStay(t) /\ Holding(t)' /\ kv' = kv
    BY <1>0, <1>9 DEF StoreInv, Delete, LocalsOK, localVars, OthersStay, Holding
  <2>2. SharedOK' /\ RowsOK' /\ ProcsOK'
    BY <1>0, <1>9 DEF StoreInv, ProcsOK, RowsOK, SharedOK, Delete, procVars
  <2> QED
    BY <2>1, <2>2, StoreFrame
<1> QED
  BY <1>1, <1>2, <1>3, <1>4, <1>5, <1>6, <1>7, <1>8, <1>9 DEF Begin

\* A handler that returns, whatever it leaves behind in the tables.
LEMMA ReturnKeepsStore ==
  ASSUME StoreInv, NEW t \in Threads, Return(t), SharedOK', RowsOK', ProcsOK',
         kv # NoKey => kv' # NoKey
  PROVE  StoreInv'
BY ReturnTypes, StoreFrame, TypesSplit DEF StoreInv

LEMMA UnlockKeepsStore ==
  ASSUME StoreInv, NEW t \in Threads,
         InitCommit(t) \/ InitInstall(t) \/ UnlockReadHash(t) \/ UnlockInstall(t)
  PROVE  StoreInv'
<1>0. SharedOK /\ LocalsOK /\ RowsOK /\ ProcsOK /\ Holding(t) /\ Proc(t) \in Procs
  BY TypesSplit, ProcType DEF StoreInv
<1>1. CASE InitCommit(t)
  <2>1. key[t] \in Keys
    BY <1>0, <1>1 DEF InitCommit, Holding, KeySteps
  <2>2. SharedOK' /\ RowsOK' /\ ProcsOK' /\ (kv # NoKey => kv' # NoKey)
    BY <1>0, <1>1, <2>1 DEF InitCommit, SharedOK, RowsOK, ProcsOK, procVars
  <2>3. CASE kv = NoKey
    <3>1. LocalsOK' /\ OthersStay(t) /\ pc'[t] = "initInstall" /\ key'[t] = key[t]
      BY <1>0, <1>1, <2>3, GotoTypes DEF InitCommit, KeySteps, localVars
    <3>2. Holding(t)' /\ kv' # NoKey
      BY <1>1, <2>1, <2>3, <3>1 DEF InitCommit, Holding, Creating, Valuing
    <3> QED
      BY <2>2, <3>1, <3>2, StoreFrame
  <2>4. CASE kv # NoKey
    BY <1>1, <2>2, <2>4, ReturnKeepsStore DEF InitCommit
  <2> QED
    BY <2>3, <2>4
<1>2. CASE InitInstall(t) \/ UnlockInstall(t)
  <2>1. key[t] \in Keys /\ kv # NoKey /\ kv' = kv
    BY <1>0, <1>2 DEF InitInstall, UnlockInstall, Holding, KeySteps, dbVars
  <2>2. SharedOK' /\ RowsOK' /\ ProcsOK'
    BY <1>0, <1>2, <2>1 DEF InitInstall, UnlockInstall, Install, SharedOK, RowsOK, ProcsOK, dbVars
  <2> QED
    BY <1>2, <2>1, <2>2, ReturnKeepsStore DEF InitInstall, UnlockInstall
<1>3. CASE UnlockReadHash(t)
  <2>1. SharedOK' /\ RowsOK' /\ ProcsOK' /\ kv' = kv
    BY <1>0, <1>3 DEF UnlockReadHash, SharedOK, RowsOK, ProcsOK, dbVars, procVars
  <2>2. CASE Goto(t, "unlockInstall") /\ UNCHANGED localVars
    <3>1. LocalsOK' /\ OthersStay(t) /\ pc'[t] = "unlockInstall" /\ key'[t] = key[t]
      BY <1>0, <2>2, GotoTypes DEF KeySteps, localVars
    <3>2. Holding(t)'
      BY <1>0, <1>3, <2>1, <3>1 DEF UnlockReadHash, Holding, Creating, Valuing, KeySteps
    <3> QED
      BY <2>1, <3>1, <3>2, StoreFrame
  <2> QED
    BY <1>3, <2>1, <2>2, ReturnKeepsStore DEF UnlockReadHash
<1> QED
  BY <1>1, <1>2, <1>3

\* A change's own steps: its snapshot holds ciphertexts, and so do its results.
LEMMA ChangeKeepsStore ==
  ASSUME StoreInv, NEW t \in Threads,
         \/ ChangeEnter(t) \/ ChangeRead(t) \/ ChangeCommit(t) \/ ChangeSwap(t)
         \/ \E c \in Creds : ChangeLoad(t, c)
  PROVE  StoreInv'
<1>0. SharedOK /\ LocalsOK /\ RowsOK /\ ProcsOK /\ Holding(t) /\ Proc(t) \in Procs
  BY TypesSplit, ProcType DEF StoreInv
<1>1. key[t] \in Keys /\ kv # NoKey
  BY <1>0 DEF ChangeEnter, ChangeRead, ChangeLoad, ChangeCommit, ChangeSwap, Holding, ChangeSteps
<1>2. CASE ChangeEnter(t)
  <2>1. SharedOK' /\ RowsOK' /\ ProcsOK' /\ kv' = kv
    BY <1>0, <1>2 DEF ChangeEnter, SharedOK, RowsOK, ProcsOK, dbVars
  <2>2. CASE Goto(t, "changeRead") /\ UNCHANGED localVars
    <3>1. LocalsOK' /\ OthersStay(t) /\ pc'[t] = "changeRead" /\ key'[t] = key[t]
      BY <1>0, <2>2, GotoTypes DEF ChangeSteps, localVars
    <3>2. Holding(t)'
      BY <1>1, <2>1, <3>1 DEF Holding, Creating, Valuing, KeySteps
    <3> QED
      BY <2>1, <3>1, <3>2, StoreFrame
  <2> QED
    BY <1>2, <2>1, <2>2, ReturnKeepsStore DEF ChangeEnter
<1>3. CASE ChangeRead(t)
  <2>1. SharedOK' /\ RowsOK' /\ ProcsOK' /\ kv' = kv
    BY <1>0, <1>3 DEF ChangeRead, SharedOK, RowsOK, ProcsOK, dbVars
  <2> DEFINE live == {c \in Creds : state[c] = "live"}
             read == [rows |-> live, todo |-> live, ct |-> ct, logs |-> [c \in Creds |-> <<>>]]
  <2>2. CASE /\ snap' = [snap EXCEPT ![t] = read] /\ Goto(t, "changeCommit")
             /\ overtaken' = overtaken \ {t} /\ UNCHANGED <<tgt, seen, made, key>>
    <3>1. read \in Snapshots
      <4>1. [c \in Creds |-> <<>>] \in [Creds -> Seq(Ciphers)]
        OBVIOUS
      <4> QED
        BY <1>0, <4>1 DEF SharedOK, Snapshots
    <3>2. /\ LocalsOK' /\ OthersStay(t) /\ pc'[t] = "changeCommit" /\ key'[t] = key[t]
          /\ snap'[t].rows = live /\ snap'[t].ct = ct /\ snap'[t].todo = live
      BY <1>0, <2>2, <3>1 DEF LocalsOK, OthersStay, Goto, ChangeSteps
    <3>3. Holding(t)'
      BY <1>0, <1>1, <2>1, <3>2 DEF Holding, Creating, Valuing, KeySteps, RowsOK
    <3> QED
      BY <2>1, <3>2, <3>3, StoreFrame
  <2> QED
    BY <1>3, <2>1, <2>2, ReturnKeepsStore DEF ChangeRead
<1>4. CASE ChangeCommit(t)
  <2>0. snap[t] \in Snapshots /\ pc[t] = "changeCommit"
    BY <1>0, <1>4 DEF LocalsOK, ChangeCommit
  <2> DEFINE s == snap[t]
             New(old) == Reencrypt(old, Vault(t), key[t])
  <2>1. /\ ct' = [c \in Creds |-> IF c \in s.rows THEN New(s.ct[c]) ELSE ct[c]]
        /\ logs' = [c \in Creds |->
                     [i \in 1..Len(logs[c]) |->
                        IF c \in s.rows /\ i <= Len(s.logs[c])
                          THEN New(s.logs[c][i]) ELSE logs[c][i]]]
        /\ kv' = key[t] /\ Goto(t, "changeSwap") /\ UNCHANGED <<tgt, seen, made, key, snap>>
    BY <1>4 DEF ChangeCommit
  <2>2. \A old \in Ciphers : New(old) \in Ciphers
    BY <1>1, ReencryptType
  <2>3. \A c \in s.rows : s.ct[c] \in Ciphers
    BY <1>0, <2>0 DEF Holding
  <2>4. ct' \in [Creds -> Ciphers \union {NoCipher}]
    BY <1>0, <2>1, <2>2, <2>3 DEF SharedOK
  <2>5. \A c \in Creds : logs'[c] \in Seq(Ciphers)
    <3> SUFFICES ASSUME NEW c \in Creds PROVE logs'[c] \in Seq(Ciphers)
      OBVIOUS
    <3>1. logs[c] \in Seq(Ciphers) /\ s.logs[c] \in Seq(Ciphers) /\ Len(logs[c]) \in Nat
      BY <1>0, <2>0 DEF SharedOK, Snapshots
    <3>2. \A i \in 1..Len(logs[c]) : logs'[c][i] \in Ciphers
      BY <2>1, <2>2, <3>1
    <3>3. logs'[c] = [i \in 1..Len(logs[c]) |-> logs'[c][i]]
      BY <2>1
    <3>4. logs'[c] \in [1..Len(logs[c]) -> Ciphers]
      BY <3>2, <3>3, Zenon
    <3> QED
      BY <3>1, <3>4, TableIsSequence
  <2>6. logs' \in [Creds -> Seq(Ciphers)]
    BY <2>1, <2>5
  <2>7. SharedOK' /\ RowsOK' /\ ProcsOK' /\ kv' # NoKey
    <3>1. kv' \in Keys /\ kv' # NoKey
      BY <1>1, <2>1
    <3>2. SharedOK'
      BY <1>0, <1>4, <2>4, <2>6, <3>1 DEF ChangeCommit, OvertakeOthers, SharedOK
    <3>3. RowsOK'
      BY <1>0, <1>4, <2>1, <2>2, <2>3, <3>1 DEF ChangeCommit, RowsOK
    <3>4. ProcsOK'
      BY <3>1 DEF ProcsOK
    <3> QED
      BY <3>1, <3>2, <3>3, <3>4
  <2>8. LocalsOK' /\ OthersStay(t) /\ pc'[t] = "changeSwap" /\ key'[t] = key[t]
    BY <1>0, <1>4, <2>1 DEF ChangeCommit, OvertakeOthers, LocalsOK, OthersStay, Goto, ChangeSteps
  <2>9. Holding(t)'
    BY <1>1, <2>7, <2>8 DEF Holding, Creating, Valuing, KeySteps
  <2> QED
    BY <2>7, <2>8, <2>9, StoreFrame
<1>5. CASE ChangeSwap(t)
  <2>1. SharedOK' /\ RowsOK' /\ ProcsOK' /\ kv' = kv
    BY <1>0, <1>1, <1>5 DEF ChangeSwap, Install, SharedOK, RowsOK, ProcsOK, dbVars
  <2> QED
    BY <1>5, <2>1, ReturnKeepsStore DEF ChangeSwap
<1>6. ASSUME NEW c \in Creds, ChangeLoad(t, c) PROVE StoreInv'
  <2>1. SharedOK' /\ RowsOK' /\ ProcsOK' /\ kv' = kv
    BY <1>0, <1>6 DEF ChangeLoad, SharedOK, RowsOK, ProcsOK, procVars
  <2>2. snap[t] \in Snapshots /\ logs[c] \in Seq(Ciphers)
    BY <1>0 DEF LocalsOK, SharedOK
  <2> DEFINE read == Loaded(snap[t], c)
  <2>3. read \in Snapshots
    BY <2>2 DEF Loaded, Snapshots
  <2>4. /\ snap' = [snap EXCEPT ![t] = read]
        /\ pc[t] = "changeCommit" /\ UNCHANGED <<pc, tgt, seen, made, key, overtaken>>
    BY <1>6 DEF ChangeLoad
  <2>5. read.rows = snap[t].rows /\ read.ct = snap[t].ct /\ read.todo \subseteq snap[t].todo
    BY <2>2 DEF Loaded, Snapshots
  <2> HIDE DEF read
  <2>6. LocalsOK' /\ OthersStay(t) /\ pc'[t] = pc[t] /\ key'[t] = key[t] /\ snap'[t] = read
    BY <1>0, <2>3, <2>4 DEF LocalsOK, OthersStay
  <2>7. Holding(t)'
    BY <1>0, <2>1, <2>4, <2>5, <2>6 DEF Holding, Creating, Valuing, KeySteps
  <2> QED
    BY <2>1, <2>6, <2>7, StoreFrame
<1> QED
  BY <1>2, <1>3, <1>4, <1>5, <1>6

LEMMA WriteKeepsStore ==
  ASSUME StoreInv, NEW t \in Threads,
         \/ \E v \in Values : CreateEncrypt(t, v) \/ UpdateEncrypt(t, v)
         \/ CreateCommit(t) \/ CreateRefused(t) \/ ValueCommit(t) \/ DbBusy(t)
  PROVE  StoreInv'
<1>0. SharedOK /\ LocalsOK /\ RowsOK /\ ProcsOK /\ Holding(t) /\ Proc(t) \in Procs
  BY TypesSplit, ProcType DEF StoreInv
<1>1. ASSUME NEW v \in Values, CreateEncrypt(t, v) \/ UpdateEncrypt(t, v) PROVE StoreInv'
  <2>1. SharedOK' /\ RowsOK' /\ ProcsOK' /\ kv' = kv
    BY <1>0, <1>1 DEF CreateEncrypt, UpdateEncrypt, SharedOK, RowsOK, ProcsOK, dbVars, procVars
  <2>2. CASE Vault(t) = NoKey
    BY <1>1, <2>1, <2>2, ReturnKeepsStore DEF CreateEncrypt, UpdateEncrypt
  <2>3. CASE Vault(t) # NoKey
    <3>1. [key |-> Vault(t), val |-> v] \in Ciphers
      BY <1>0, <2>3, CipherType DEF Vault, SharedOK
    <3>2. /\ LocalsOK' /\ OthersStay(t) /\ pc'[t] \in {"createCommit", "valueCommit"}
          /\ made'[t] \in Ciphers /\ tgt'[t] = tgt[t] /\ seen'[t] = seen[t]
          /\ pc'[t] = "valueCommit" => pc[t] = "updateEncrypt"
          /\ pc[t] \in {"createEncrypt", "updateEncrypt"}
      BY <1>0, <1>1, <2>3, <3>1
         DEF CreateEncrypt, UpdateEncrypt, NoteEncryption, Goto, LocalsOK, OthersStay, WriteSteps
    <3>3. Holding(t)'
      BY <1>0, <2>1, <3>2 DEF Holding, Creating, Valuing, KeySteps, ChangeSteps
    <3> QED
      BY <2>1, <3>2, <3>3, StoreFrame
  <2> QED
    BY <2>2, <2>3
<1>2. CASE CreateCommit(t)
  <2>1. tgt[t] \in Creds /\ made[t] \in Ciphers /\ kv # NoKey
    BY <1>0, <1>2 DEF CreateCommit, Holding, Creating, Valuing
  <2>2. had' \in [Creds -> SUBSET Values] /\ raced' \subseteq Creds
    BY <1>0, <1>2, <2>1 DEF CreateCommit, NoteWrite, SharedOK, Ciphers
  <2>3. SharedOK' /\ RowsOK' /\ ProcsOK' /\ kv' = kv
    BY <1>0, <1>2, <2>1, <2>2 DEF CreateCommit, SharedOK, RowsOK, ProcsOK, procVars
  <2> QED
    BY <1>2, <2>3, ReturnKeepsStore DEF CreateCommit
<1>3. CASE CreateRefused(t) \/ DbBusy(t)
  <2>1. SharedOK' /\ RowsOK' /\ ProcsOK' /\ kv' = kv
    BY <1>0, <1>3 DEF CreateRefused, DbBusy, SharedOK, RowsOK, ProcsOK, dbVars, procVars
  <2> QED
    BY <1>3, <2>1, ReturnKeepsStore DEF CreateRefused, DbBusy
<1>4. CASE ValueCommit(t)
  <2>1. tgt[t] \in Creds /\ made[t] \in Ciphers /\ seen[t] \in Ciphers /\ kv # NoKey
    BY <1>0, <1>4 DEF ValueCommit, Holding, Creating, Valuing
  <2>2. /\ logs' \in [Creds -> Seq(Ciphers)] /\ had' \in [Creds -> SUBSET Values]
        /\ raced' \subseteq Creds
    <3>1. logs' \in [Creds -> Seq(Ciphers)]
      BY <1>0, <1>4, <2>1 DEF ValueCommit, SharedOK
    <3>2. had' \in [Creds -> SUBSET Values]
      BY <1>0, <1>4, <2>1 DEF ValueCommit, SharedOK, Ciphers
    <3>3. raced' \subseteq Creds
      BY <1>0, <1>4, <2>1 DEF ValueCommit, NoteWrite, SharedOK
    <3> QED
      BY <3>1, <3>2, <3>3
  <2>3. SharedOK' /\ RowsOK' /\ ProcsOK' /\ kv' = kv
    BY <1>0, <1>4, <2>1, <2>2 DEF ValueCommit, SharedOK, RowsOK, ProcsOK, procVars
  <2> QED
    BY <1>4, <2>3, ReturnKeepsStore DEF ValueCommit
<1> QED
  BY <1>1, <1>2, <1>3, <1>4

\* What a crash leaves is what was committed.
LEMMA CrashKeepsStore ==
  ASSUME StoreInv, NEW p \in Procs, Crash(p)
  PROVE  StoreInv'
<1> DEFINE mine == {t \in Threads : ProcOf[t] = p}
<1>0. SharedOK /\ LocalsOK
  BY TypesSplit DEF StoreInv
<1>1. /\ \A t \in mine : pc'[t] = "idle"
      /\ \A t \in Threads \ mine :
           /\ pc'[t] = pc[t] /\ tgt'[t] = tgt[t] /\ seen'[t] = seen[t]
           /\ made'[t] = made[t] /\ key'[t] = key[t] /\ snap'[t] = snap[t]
  BY DEF Crash
<1>2. LocalsOK'
  BY <1>0, NoRowsType DEF Crash, LocalsOK
<1>3. SharedOK' /\ RowsOK' /\ ProcsOK' /\ kv' = kv
  BY <1>0 DEF StoreInv, Crash, SharedOK, RowsOK, ProcsOK, dbVars
<1>4. ASSUME NEW t \in Threads PROVE Holding(t)'
  <2>1. CASE t \in mine
    BY <1>1, <2>1 DEF Holding, Creating, Valuing, KeySteps, ChangeSteps
  <2>2. CASE t \notin mine
    BY <1>1, <1>3, <2>2 DEF StoreInv, Holding
  <2> QED
    BY <2>1, <2>2
<1> QED
  BY <1>2, <1>3, <1>4, TypesSplit DEF StoreInv, TypeOK, SharedOK, LocalsOK

LEMMA StoreStep == StoreInv /\ [Next]_vars => StoreInv'
<1> SUFFICES ASSUME StoreInv, [Next]_vars PROVE StoreInv'
  OBVIOUS
<1>1. CASE UNCHANGED vars
  BY <1>1 DEF StoreInv, TypeOK, RowsOK, ProcsOK, Holding, vars, dbVars, procVars, localVars
<1>2. ASSUME NEW t \in Threads, Continue(t) PROVE StoreInv'
  BY <1>2, UnlockKeepsStore, ChangeKeepsStore, WriteKeepsStore DEF Continue
<1> QED
  BY <1>1, <1>2, BeginKeepsStore, CrashKeepsStore DEF Next

\* Every value of the store is a ciphertext of some key, and nobody is past a
\* check of the password before the store has one, with any overlap.
THEOREM StoreInvariant == Spec => []StoreInv
BY StoreInit, StoreStep, PTL DEF Spec

\* Type correctness, for any number of processes and with any overlap.
THEOREM StoreTypeCorrect == Spec => []TypeOK
<1>1. StoreInv => TypeOK
  BY DEF StoreInv
<1> QED
  BY <1>1, StoreInvariant, PTL

--------------------------------------------------------------------------------
\* Both locks are held only by who is in the section they are for.
Writing == {"changeRead", "changeCommit", "changeSwap"}

VaultOwned == \A p \in Procs : rwWriter[p] # NoThread =>
                Proc(rwWriter[p]) = p /\ pc[rwWriter[p]] \in Writing
BaseOwned  == dbWriter # NoThread => pc[dbWriter] \in Creating
OwnedInv   == VaultOwned /\ BaseOwned

LEMMA OwnedFrame ==
  ASSUME StoreInv, OwnedInv, NEW t \in Threads, NEW place, Goto(t, place),
         UNCHANGED dbWriter \/ dbWriter' = NoThread \/ (dbWriter' = t /\ place \in Creating),
         pc[t] \in Creating => place \in Creating \/ dbWriter' = NoThread,
         \/ UNCHANGED rwWriter /\ (pc[t] \in Writing => place \in Writing)
         \/ rwWriter' = [rwWriter EXCEPT ![Proc(t)] = NoThread]
         \/ rwWriter' = [rwWriter EXCEPT ![Proc(t)] = t] /\ place \in Writing
  PROVE  OwnedInv'
<1>1. /\ pc'[t] = place /\ \A o \in Threads \ {t} : pc'[o] = pc[o]
      /\ Proc(t) \in Procs /\ dbWriter \in Threads \union {NoThread}
      /\ rwWriter \in [Procs -> Threads \union {NoThread}]
  BY ProcType DEF StoreInv, TypeOK, Goto
<1>2. BaseOwned'
  BY <1>1 DEF OwnedInv, BaseOwned
<1>3. ASSUME NEW p \in Procs, rwWriter'[p] # NoThread
      PROVE  Proc(rwWriter'[p]) = p /\ pc'[rwWriter'[p]] \in Writing
  <2>1. CASE rwWriter'[p] = rwWriter[p] /\ (rwWriter[p] = t => place \in Writing)
    BY <1>1, <1>3, <2>1 DEF OwnedInv, VaultOwned
  <2>2. CASE rwWriter'[p] = t /\ p = Proc(t) /\ place \in Writing
    BY <1>1, <2>2
  <2>3. rwWriter[p] = t => p = Proc(t) /\ pc[t] \in Writing
    BY <1>1 DEF OwnedInv, VaultOwned, Proc
  <2> QED
    BY <1>1, <1>3, <2>1, <2>2, <2>3
<1> QED
  BY <1>2, <1>3 DEF OwnedInv, VaultOwned, Proc

LEMMA OwnedStep == StoreInv /\ OwnedInv /\ [Next]_vars => OwnedInv'
<1> SUFFICES ASSUME StoreInv, OwnedInv, [Next]_vars PROVE OwnedInv'
  OBVIOUS
<1> USE DEF Writing, Creating
<1>1. CASE UNCHANGED <<pc, rwWriter, dbWriter>>
  BY <1>1 DEF OwnedInv, VaultOwned, BaseOwned, Proc
<1>2. ASSUME NEW t \in Threads, Begin(t) PROVE OwnedInv'
  <2>1. CASE Observe(t) \/ Lock(t) \/ \E c \in Creds : Delete(t, c)
    <3>1. UNCHANGED <<pc, rwWriter, dbWriter>>
      BY <2>1 DEF Observe, Lock, Delete, procVars
    <3> QED
      BY <1>1, <3>1
  <2>2. ASSUME NEW place \in {"initCommit", "unlockHash", "changeEnter", "updateEncrypt", "valueCommit"},
               pc[t] = "idle", Goto(t, place), UNCHANGED <<dbWriter, rwWriter>>
        PROVE  OwnedInv'
    BY <2>2, OwnedFrame
  <2>3. ASSUME NEW c \in Creds, CreateInsert(t, c) PROVE OwnedInv'
    BY <2>3, OwnedFrame DEF CreateInsert, procVars
  <2> QED
    BY <1>2, <2>1, <2>2, <2>3
       DEF Begin, InitCheck, UnlockReadParams, ChangeVerify, UpdateRead, RollbackRead, procVars
<1>3. ASSUME NEW t \in Threads, Continue(t) PROVE OwnedInv'
  <2>1. CASE InitCommit(t) \/ InitInstall(t) \/ UnlockReadHash(t) \/ UnlockInstall(t)
    <3>1. \E place \in {"idle", "initInstall", "unlockInstall"} : Goto(t, place)
      BY <2>1 DEF InitCommit, InitInstall, UnlockReadHash, UnlockInstall, Return
    <3>2. /\ pc[t] \in {"initCommit", "initInstall", "unlockHash", "unlockInstall"}
          /\ UNCHANGED <<dbWriter, rwWriter>>
      BY <2>1 DEF InitCommit, InitInstall, UnlockReadHash, UnlockInstall, procVars
    <3> QED
      BY <3>1, <3>2, OwnedFrame
  <2>2. CASE \/ ChangeEnter(t) \/ ChangeRead(t) \/ ChangeCommit(t) \/ ChangeSwap(t)
             \/ \E c \in Creds : ChangeLoad(t, c)
    <3>0. CASE \E c \in Creds : ChangeLoad(t, c)
      BY <1>1, <3>0 DEF ChangeLoad, procVars
    <3>1. ASSUME ~\E c \in Creds : ChangeLoad(t, c)
          PROVE  \E place \in {"idle", "changeRead", "changeCommit", "changeSwap"} :
            /\ Goto(t, place) /\ UNCHANGED dbWriter /\ pc[t] \in ChangeSteps
            /\ \/ UNCHANGED rwWriter /\ (pc[t] \in Writing => place \in Writing)
               \/ rwWriter' = [rwWriter EXCEPT ![Proc(t)] = NoThread]
               \/ rwWriter' = [rwWriter EXCEPT ![Proc(t)] = t] /\ place \in Writing
      BY <2>2, <3>1 DEF ChangeEnter, ChangeRead, ChangeCommit, ChangeSwap, Return, procVars, ChangeSteps
    <3> QED
      BY <3>0, <3>1, OwnedFrame DEF ChangeSteps
  <2>3. ASSUME NEW v \in Values, CreateEncrypt(t, v) \/ UpdateEncrypt(t, v) PROVE OwnedInv'
    <3>1. \E place \in {"idle", "createCommit", "valueCommit"} :
            /\ Goto(t, place) /\ UNCHANGED rwWriter /\ pc[t] \in {"createEncrypt", "updateEncrypt"}
            /\ dbWriter' \in {dbWriter, NoThread}
            /\ pc[t] = "createEncrypt" => place = "createCommit" \/ dbWriter' = NoThread
      BY <2>3 DEF CreateEncrypt, UpdateEncrypt, Return, procVars
    <3> QED
      BY <3>1, OwnedFrame
  <2>4. CASE CreateCommit(t) \/ CreateRefused(t) \/ ValueCommit(t)
    <3>1. /\ Goto(t, "idle") /\ UNCHANGED rwWriter /\ pc[t] \in {"createCommit", "valueCommit"}
          /\ dbWriter' = NoThread
      BY <2>4 DEF CreateCommit, CreateRefused, ValueCommit, Return, procVars
    <3> QED
      BY <3>1, OwnedFrame
  <2>5. CASE DbBusy(t)
    <3>1. /\ Goto(t, "idle") /\ UNCHANGED dbWriter
          /\ \/ UNCHANGED rwWriter /\ pc[t] \in {"initCommit", "valueCommit"}
             \/ rwWriter' = [rwWriter EXCEPT ![Proc(t)] = NoThread] /\ pc[t] = "changeCommit"
      BY <2>5 DEF DbBusy, Return
    <3> QED
      BY <3>1, OwnedFrame
  <2> QED
    BY <1>3, <2>1, <2>2, <2>3, <2>4, <2>5 DEF Continue
<1>4. ASSUME NEW p \in Procs, Crash(p) PROVE OwnedInv'
  <2>1. /\ rwWriter' = [rwWriter EXCEPT ![p] = NoThread]
        /\ dbWriter' \in {dbWriter, NoThread}
        /\ dbWriter' # NoThread => ProcOf[dbWriter] # p
        /\ \A t \in Threads : ProcOf[t] # p => pc'[t] = pc[t]
    BY <1>4 DEF Crash, StoreInv, TypeOK
  <2>2. BaseOwned'
    BY <2>1 DEF OwnedInv, BaseOwned, StoreInv, TypeOK
  <2>3. ASSUME NEW q \in Procs, rwWriter'[q] # NoThread
        PROVE  Proc(rwWriter'[q]) = q /\ pc'[rwWriter'[q]] \in Writing
    <3>1. q # p /\ rwWriter'[q] = rwWriter[q] /\ rwWriter[q] \in Threads
      BY <2>1, <2>3 DEF StoreInv, TypeOK
    <3>2. Proc(rwWriter[q]) = q /\ pc[rwWriter[q]] \in Writing
      BY <2>3, <3>1 DEF OwnedInv, VaultOwned
    <3>3. pc'[rwWriter[q]] = pc[rwWriter[q]]
      BY <2>1, <3>1, <3>2 DEF Proc
    <3> QED
      BY <3>1, <3>2, <3>3
  <2> QED
    BY <2>2, <2>3 DEF OwnedInv, VaultOwned, Proc
<1> QED
  BY <1>1, <1>2, <1>3, <1>4 DEF Next, vars, procVars

LEMMA OwnedInvariant == Spec => []OwnedInv
<1>1. Init => OwnedInv
  BY DEF Init, OwnedInv, VaultOwned, BaseOwned
<1> QED
  BY <1>1, OwnedStep, StoreInvariant, PTL DEF Spec

--------------------------------------------------------------------------------
\* What a thread has in its hands agrees with the store, unless a change has
\* overtaken it: who installs a key installs the stored one, and who writes a row
\* nothing has crossed writes what decrypts.  A change has every such live row,
\* under the vault's key and with the value and the history it has now.
Good(c, cipher) == Kept(c) => cipher.key = kv

Held(t, c) ==
  LET s == snap[t] IN
  /\ c \in s.rows /\ s.ct[c].key = Vault(t) /\ s.ct[c].val = ct[c].val
  /\ t \notin overtaken => Vault(t) = kv
  /\ c \notin s.todo =>
       /\ Len(s.logs[c]) = Len(logs[c])
       /\ \A i \in 1..Len(logs[c]) : /\ s.logs[c][i].key = Vault(t)
                                     /\ s.logs[c][i].val = logs[c][i].val

Current(t) ==
  /\ pc[t] \in {"changeSwap", "initInstall", "unlockInstall"} => key[t] = kv
  /\ pc[t] = "unlockHash" => key[t].salt = kv.salt
  /\ pc[t] = "createCommit" => made[t].key = kv
  /\ pc[t] \in Valuing => Good(tgt[t], seen[t])
  /\ pc[t] = "valueCommit" => Good(tgt[t], made[t])

Placed(t) ==
  /\ pc[t] \in Writing => rwWriter[Proc(t)] = t
  /\ pc[t] \in Creating => dbWriter = t /\ state[tgt[t]] = "absent"
  /\ pc[t] \in Valuing => state[tgt[t]] # "absent"
  /\ pc[t] = "changeCommit" => \A c \in Creds : Kept(c) => Held(t, c)

Safe(t) == Placed(t) /\ (t \notin overtaken => Current(t))

BlankRows == \A c \in Creds : state[c] = "absent" => logs[c] = <<>>

Readable == OthersReadable /\ HistoryReadable /\ BlankRows

CrossInv == Readable /\ RuntimeHoldsStoredKey /\ \A t \in Threads : Safe(t)

LEMMA CrossInit == Init => CrossInv
<1> SUFFICES ASSUME Init PROVE CrossInv
  OBVIOUS
<1>1. Readable
  BY DEF Init, Readable, OthersReadable, HistoryReadable, BlankRows
<1>2. RuntimeHoldsStoredKey
  BY DEF Init, RuntimeHoldsStoredKey
<1>3. \A t \in Threads : Safe(t)
  BY DEF Init, Safe, Placed, Current, Writing, Creating, Valuing
<1> QED
  BY <1>1, <1>2, <1>3 DEF CrossInv

\* A thread that is idle has nothing in its hands.
LEMMA IdleSafe == \A t \in Threads : pc[t] = "idle" => Safe(t)
BY DEF Safe, Placed, Current, Writing, Creating, Valuing

\* Whoever finds the write section free, or is in it, shares it with nobody.
LEMMA OneWriter ==
  ASSUME CrossInv, NEW t \in Threads, WriterFree(t) \/ pc[t] \in Writing,
         NEW o \in Threads \ {t}, pc[o] \in Writing
  PROVE  Proc(o) # Proc(t)
BY DEF CrossInv, Safe, Placed, WriterFree

\* The vault of a process is given up or filled by who may write there; the excuse
\* of another process is a thread of its own.
LEMMA OtherProcs ==
  ASSUME StoreInv, OwnedInv, CrossInv, NEW t \in Threads, OthersStay(t),
         NEW p \in Procs, p # Proc(t), p \notin behind, kv' = kv,
         vault'[p] = vault[p], rwWriter'[p] = rwWriter[p], vault'[p] \notin {NoKey, kv}
  PROVE  \E u \in Threads : rwWriter'[p] = u /\ pc'[u] = "changeSwap"
<1>1. PICK u \in Threads : rwWriter[p] = u /\ pc[u] = "changeSwap"
  BY DEF CrossInv, RuntimeHoldsStoredKey
<1>2. u # t
  BY <1>1 DEF OwnedInv, VaultOwned
<1> QED
  BY <1>1, <1>2 DEF OthersStay

\* What happens to the others in a step that writes no row: nothing, where it
\* leaves their process alone or nobody else is in its write section.
LEMMA OthersSafe ==
  ASSUME StoreInv, CrossInv, NEW t \in Threads, OthersStay(t), Proc(t) \in Procs,
         UNCHANGED <<kv, state, ct, logs, had>>, raced \subseteq raced',
         dbWriter' = dbWriter \/ (dbWriter = t /\ dbWriter' = NoThread)
           \/ (dbWriter = NoThread /\ dbWriter' = t),
         overtaken' \ {t} = overtaken \ {t},
         \/ UNCHANGED <<vault, rwWriter>>
         \/ /\ WriterFree(t) \/ pc[t] \in Writing
            /\ \A p \in Procs \ {Proc(t)} : vault'[p] = vault[p] /\ rwWriter'[p] = rwWriter[p]
  PROVE  \A o \in Threads \ {t} : Safe(o)'
<1> SUFFICES ASSUME NEW o \in Threads \ {t} PROVE Safe(o)'
  OBVIOUS
<1>1. /\ pc'[o] = pc[o] /\ tgt'[o] = tgt[o] /\ seen'[o] = seen[o]
      /\ made'[o] = made[o] /\ key'[o] = key[o] /\ snap'[o] = snap[o]
      /\ o \in overtaken' <=> o \in overtaken
      /\ Safe(o)
  BY DEF OthersStay, CrossInv
<1>2. Proc(o)' = Proc(o) /\ Proc(o) \in Procs
  BY ProcType DEF Proc
<1>3. pc[o] \in Writing => Vault(o)' = Vault(o) /\ rwWriter'[Proc(o)] = rwWriter[Proc(o)]
  BY <1>2, OneWriter DEF Vault, Proc
<1>4. \A c \in Creds : Kept(c)' => Kept(c)
  BY DEF Kept
<1>5. \A c : (Kept(c)' => Kept(c)) \/ c \notin Creds
  BY <1>4
<1>6. Placed(o)'
  <2>1. pc[o] \in Writing => rwWriter'[Proc(o)] = o
    BY <1>1, <1>3 DEF Safe, Placed
  <2>2. pc[o] \in Creating => dbWriter' = o /\ state'[tgt[o]] = "absent"
    BY <1>1, NoThreadIsNone DEF Safe, Placed
  <2>3. pc[o] \in Valuing => state'[tgt[o]] # "absent"
    BY <1>1 DEF Safe, Placed
  <2>4. ASSUME pc[o] = "changeCommit", NEW c \in Creds, Kept(c)' PROVE Held(o, c)'
    <3>1. Held(o, c) /\ pc[o] \in Writing
      BY <1>1, <1>4, <2>4 DEF Safe, Placed, Writing
    <3> QED
      BY <1>1, <1>3, <3>1 DEF Held
  <2> QED
    BY <1>1, <1>2, <2>1, <2>2, <2>3, <2>4 DEF Placed
<1>7. ASSUME o \notin overtaken PROVE Current(o)'
  <2>1. Current(o) /\ (pc[o] \in Valuing => tgt[o] \in Creds)
    BY <1>1, <1>7 DEF Safe, StoreInv, Holding
  <2>2. pc[o] = "valueCommit" => pc[o] \in Valuing
    BY DEF Valuing
  <2>3. pc[o] \in Valuing => Good(tgt[o], seen[o])' /\ (pc[o] = "valueCommit" => Good(tgt[o], made[o])')
    BY <1>1, <1>4, <2>1, <2>2 DEF Current, Good
  <2> QED
    BY <1>1, <2>1, <2>2, <2>3 DEF Current
<1> QED
  BY <1>1, <1>6, <1>7 DEF Safe

\* A step that leaves what is stored as it is.
LEMMA CrossFrame ==
  ASSUME StoreInv, CrossInv, NEW t \in Threads, OthersStay(t), Proc(t) \in Procs,
         UNCHANGED <<kv, state, ct, logs, had>>, raced \subseteq raced',
         dbWriter' = dbWriter \/ (dbWriter = t /\ dbWriter' = NoThread)
           \/ (dbWriter = NoThread /\ dbWriter' = t),
         overtaken' \ {t} = overtaken \ {t},
         \/ UNCHANGED <<vault, rwWriter>>
         \/ /\ WriterFree(t) \/ pc[t] \in Writing
            /\ \A p \in Procs \ {Proc(t)} : vault'[p] = vault[p] /\ rwWriter'[p] = rwWriter[p],
         RuntimeHoldsStoredKey', Safe(t)'
  PROVE  CrossInv'
<1>1. Readable'
  BY DEF CrossInv, Readable, OthersReadable, HistoryReadable, BlankRows
<1> QED
  BY <1>1, OthersSafe DEF CrossInv

\* The same where no vault is touched.
LEMMA CrossQuiet ==
  ASSUME StoreInv, CrossInv, NEW t \in Threads, OthersStay(t), pc[t] # "changeSwap",
         UNCHANGED <<kv, state, ct, logs, had>>, raced \subseteq raced',
         dbWriter' = dbWriter \/ (dbWriter = t /\ dbWriter' = NoThread)
           \/ (dbWriter = NoThread /\ dbWriter' = t),
         overtaken' \ {t} = overtaken \ {t},
         UNCHANGED <<vault, rwWriter, behind>>, Safe(t)'
  PROVE  CrossInv'
<1>1. RuntimeHoldsStoredKey'
  BY DEF CrossInv, RuntimeHoldsStoredKey, OthersStay
<1> QED
  BY <1>1, ProcType, CrossFrame

LEMMA ReturnSafe ==
  ASSUME StoreInv, NEW t \in Threads, Return(t)
  PROVE  /\ OthersStay(t) /\ pc'[t] = "idle" /\ Safe(t)'
         /\ overtaken' \ {t} = overtaken \ {t}
<1>1. OthersStay(t) /\ pc'[t] = "idle"
  BY ReturnTypes, TypesSplit DEF StoreInv
<1>2. Safe(t)'
  BY <1>1 DEF Safe, Placed, Current, Writing, Creating, Valuing
<1> QED
  BY <1>1, <1>2 DEF Return

--------------------------------------------------------------------------------
\* A vault is emptied, or filled with the stored key, or its process is behind.
LEMMA VaultKeepsCross ==
  ASSUME StoreInv, OwnedInv, CrossInv, NEW t \in Threads, Proc(t) \in Procs,
         WriterFree(t) \/ pc[t] \in Writing, OthersStay(t),
         NEW k \in {NoKey} \union Keys, vault' = [vault EXCEPT ![Proc(t)] = k],
         k \in {NoKey, kv} \/ Proc(t) \in behind',
         behind' \ {Proc(t)} = behind \ {Proc(t)},
         UNCHANGED <<dbVars, dbWriter>>, overtaken' \ {t} = overtaken \ {t},
         \A p \in Procs \ {Proc(t)} : rwWriter'[p] = rwWriter[p],
         Safe(t)'
  PROVE  CrossInv'
<1>0. SharedOK /\ UNCHANGED <<kv, state, ct, logs, had, raced>>
  BY TypesSplit DEF StoreInv, dbVars
<1>1. \A p \in Procs \ {Proc(t)} : vault'[p] = vault[p] /\ rwWriter'[p] = rwWriter[p]
  BY <1>0 DEF SharedOK
<1>2. RuntimeHoldsStoredKey'
  <2> SUFFICES ASSUME NEW p \in Procs \ behind', vault'[p] \notin {NoKey, kv}
      PROVE  \E u \in Threads : rwWriter'[p] = u /\ pc'[u] = "changeSwap"
    BY <1>0 DEF RuntimeHoldsStoredKey
  <2>1. p # Proc(t)
    BY <1>0 DEF SharedOK
  <2> QED
    BY <1>0, <1>1, <2>1, OtherProcs
<1> QED
  BY <1>0, <1>1, <1>2, CrossFrame

\* The first step of a handler, and one that deletes.
LEMMA BeginKeepsCross ==
  ASSUME StoreInv, OwnedInv, CrossInv, NEW t \in Threads, Begin(t)
  PROVE  CrossInv'
<1>0. SharedOK /\ LocalsOK /\ Proc(t) \in Procs /\ Safe(t) /\ pc[t] = "idle" /\ Readable
  BY TypesSplit, ProcType DEF StoreInv, CrossInv, Begin, Observe, Lock, InitCheck,
     UnlockReadParams, ChangeVerify, CreateInsert, UpdateRead, Delete, RollbackRead
<1>1. CASE Observe(t)
  <2>1. OthersStay(t) /\ Safe(t)'
    BY <1>0, <1>1 DEF Observe, localVars, OthersStay, Safe, Placed, Current, Writing, Creating, Valuing
  <2> QED
    BY <1>0, <1>1, <2>1, CrossQuiet DEF Observe, dbVars, localVars
<1>2. CASE Lock(t)
  <2>1. OthersStay(t) /\ Safe(t)'
    BY <1>0, <1>2 DEF Lock, localVars, OthersStay, Safe, Placed, Current, Writing, Creating, Valuing
  <2> QED
    BY <1>0, <1>2, <2>1, VaultKeepsCross DEF Lock, localVars
<1>3. ASSUME NEW w \in Passwords, InitCheck(t, w) PROVE CrossInv'
  <2>1. OthersStay(t) /\ pc'[t] = "initCommit"
    BY <1>0, <1>3 DEF InitCheck, Goto, LocalsOK, OthersStay
  <2>2. Safe(t)'
    BY <2>1 DEF Safe, Placed, Current, Writing, Creating, Valuing
  <2> QED
    BY <1>0, <1>3, <2>1, <2>2, CrossQuiet DEF InitCheck, dbVars
<1>4. ASSUME NEW w \in Passwords, UnlockReadParams(t, w) PROVE CrossInv'
  <2>1. /\ OthersStay(t) /\ pc'[t] = "unlockHash" /\ kv' = kv
        /\ key'[t] = [pw |-> w, salt |-> kv.salt]
    BY <1>0, <1>4 DEF UnlockReadParams, Goto, LocalsOK, OthersStay, dbVars
  <2>2. Safe(t)'
    BY <2>1 DEF Safe, Placed, Current, Writing, Creating, Valuing
  <2> QED
    BY <1>0, <1>4, <2>1, <2>2, CrossQuiet DEF UnlockReadParams, dbVars
<1>5. ASSUME NEW old \in Passwords, NEW new \in Passwords, ChangeVerify(t, old, new)
      PROVE  CrossInv'
  <2>1. OthersStay(t) /\ pc'[t] = "changeEnter"
    BY <1>0, <1>5 DEF ChangeVerify, Goto, LocalsOK, OthersStay
  <2>2. Safe(t)'
    BY <2>1 DEF Safe, Placed, Current, Writing, Creating, Valuing
  <2> QED
    BY <1>0, <1>5, <2>1, <2>2, CrossQuiet DEF ChangeVerify, dbVars, procVars
<1>6. ASSUME NEW c \in Creds, CreateInsert(t, c) PROVE CrossInv'
  <2>1. OthersStay(t) /\ pc'[t] = "createEncrypt" /\ tgt'[t] = c /\ dbWriter' = t /\ dbWriter = NoThread
    BY <1>0, <1>6 DEF CreateInsert, Goto, LocalsOK, OthersStay
  <2>2. Safe(t)'
    BY <1>6, <2>1 DEF CreateInsert, dbVars, Safe, Placed, Current, Writing, Creating, Valuing
  <2> QED
    BY <1>0, <1>6, <2>1, <2>2, CrossQuiet DEF CreateInsert, dbVars, procVars
<1>7. ASSUME NEW c \in Creds, UpdateRead(t, c) PROVE CrossInv'
  <2>1. OthersStay(t) /\ pc'[t] = "updateEncrypt" /\ tgt'[t] = c /\ seen'[t] = ct[c]
    BY <1>0, <1>7 DEF UpdateRead, Goto, LocalsOK, OthersStay
  <2>2. Kept(c) => ct[c].key = kv
    BY <1>0 DEF Readable, OthersReadable, Kept
  <2>3. Safe(t)'
    BY <1>7, <2>1, <2>2 DEF UpdateRead, dbVars, Safe, Placed, Current, Good, Kept, Writing, Creating, Valuing
  <2> QED
    BY <1>0, <1>7, <2>1, <2>3, CrossQuiet DEF UpdateRead, dbVars, procVars
<1>8. ASSUME NEW c \in Creds, NEW i \in 1..MaxLogs, RollbackRead(t, c, i) PROVE CrossInv'
  <2>1. /\ OthersStay(t) /\ pc'[t] = "valueCommit" /\ tgt'[t] = c /\ seen'[t] = ct[c]
        /\ made'[t] = logs[c][i]
    BY <1>0, <1>8 DEF RollbackRead, Goto, LocalsOK, OthersStay
  <2>2. Kept(c) => ct[c].key = kv /\ logs[c][i].key = kv
    BY <1>0, <1>8 DEF RollbackRead, Readable, OthersReadable, HistoryReadable, Kept
  <2>3. Safe(t)'
    BY <1>8, <2>1, <2>2 DEF RollbackRead, dbVars, Safe, Placed, Current, Good, Kept, Writing, Creating, Valuing
  <2> QED
    BY <1>0, <1>8, <2>1, <2>3, CrossQuiet DEF RollbackRead, dbVars, procVars
<1>9. ASSUME NEW c \in Creds, Delete(t, c) PROVE CrossInv'
  <2>1. /\ kv' = kv /\ ct' = ct /\ logs' = logs /\ raced' = raced /\ dbWriter' = dbWriter
        /\ pc' = pc /\ tgt' = tgt /\ seen' = seen /\ made' = made /\ key' = key /\ snap' = snap
        /\ overtaken' = overtaken
        /\ vault' = vault /\ rwWriter' = rwWriter /\ behind' = behind /\ dbWriter = NoThread
    BY <1>9 DEF Delete, procVars, localVars
  <2>2. \A d \in Creds : /\ state'[d] = "live" => state[d] = "live"
                         /\ state'[d] = "absent" <=> state[d] = "absent"
    BY <1>0, <1>9 DEF Delete, SharedOK
  <2>3. \A d \in Creds : Kept(d)' => Kept(d)
    BY <2>1, <2>2 DEF Kept
  <2>4. ASSUME NEW o \in Threads PROVE Safe(o)'
    <3>1. pc[o] \notin Creating /\ Safe(o) /\ (pc[o] \in Valuing => tgt[o] \in Creds)
      BY <2>1 DEF CrossInv, Safe, Placed, StoreInv, Holding
    <3>2. Proc(o)' = Proc(o) /\ Vault(o)' = Vault(o)
      BY <2>1 DEF Proc, Vault
    <3>3. \A d \in Creds : Held(o, d) => Held(o, d)'
      BY <2>1, <3>2 DEF Held
    <3>4. Placed(o)'
      BY <2>1, <2>2, <2>3, <3>1, <3>2, <3>3 DEF Safe, Placed
    <3>5. ASSUME o \notin overtaken PROVE Current(o)'
      <4>1. pc[o] = "valueCommit" => pc[o] \in Valuing
        BY DEF Valuing
      <4> QED
        BY <2>1, <2>3, <3>1, <3>5, <4>1 DEF Safe, Current, Good
    <3> QED
      BY <2>1, <3>4, <3>5 DEF Safe
  <2>5. Readable'
    BY <2>1, <2>2 DEF CrossInv, Readable, OthersReadable, HistoryReadable, BlankRows
  <2>6. RuntimeHoldsStoredKey'
    BY <2>1 DEF CrossInv, RuntimeHoldsStoredKey
  <2> QED
    BY <2>4, <2>5, <2>6 DEF CrossInv
<1> QED
  BY <1>1, <1>2, <1>3, <1>4, <1>5, <1>6, <1>7, <1>8, <1>9 DEF Begin

LEMMA InstallKeepsCross ==
  ASSUME StoreInv, OwnedInv, CrossInv, NEW t \in Threads, key[t] \in Keys,
         InitInstall(t) \/ UnlockInstall(t) \/ ChangeSwap(t)
  PROVE  CrossInv'
<1>0. SharedOK /\ Proc(t) \in Procs /\ Safe(t)
  BY TypesSplit, ProcType DEF StoreInv, CrossInv
<1>1. /\ pc[t] \in {"initInstall", "unlockInstall", "changeSwap"} /\ Return(t)
      /\ Install(t, key[t]) /\ UNCHANGED <<dbVars, dbWriter>>
      /\ WriterFree(t) \/ pc[t] \in Writing
      /\ \A p \in Procs \ {Proc(t)} : rwWriter'[p] = rwWriter[p]
  BY <1>0 DEF InitInstall, UnlockInstall, ChangeSwap, Writing, SharedOK
<1>2. OthersStay(t) /\ Safe(t)' /\ overtaken' \ {t} = overtaken \ {t}
  BY <1>1, ReturnSafe
<1>3. key[t] \in {NoKey, kv} \/ Proc(t) \in behind'
  BY <1>0, <1>1 DEF Safe, Current, Install
<1>4. vault' = [vault EXCEPT ![Proc(t)] = key[t]] /\ behind' \ {Proc(t)} = behind \ {Proc(t)}
  BY <1>1 DEF Install
<1> QED
  BY <1>0, <1>1, <1>2, <1>3, <1>4, VaultKeepsCross

LEMMA UnlockKeepsCross ==
  ASSUME StoreInv, OwnedInv, CrossInv, NEW t \in Threads, InitCommit(t) \/ UnlockReadHash(t)
  PROVE  CrossInv'
<1>0. SharedOK /\ LocalsOK /\ Proc(t) \in Procs /\ Safe(t) /\ Holding(t)
  BY TypesSplit, ProcType DEF StoreInv, CrossInv
<1>1. CASE UnlockReadHash(t)
  <2>0. pc[t] = "unlockHash" /\ UNCHANGED <<dbVars, dbWriter, procVars>>
    BY <1>1 DEF UnlockReadHash
  <2>1. CASE Return(t)
    BY <2>0, <2>1, ReturnSafe, CrossQuiet DEF dbVars, procVars
  <2>2. CASE key[t].pw = kv.pw /\ Goto(t, "unlockInstall") /\ UNCHANGED localVars
    <3>1. /\ OthersStay(t) /\ pc'[t] = "unlockInstall" /\ key'[t] = key[t] /\ kv' = kv
          /\ overtaken' = overtaken
      BY <1>0, <2>0, <2>2, GotoTypes DEF KeySteps, localVars, dbVars
    <3>2. key[t] \in Keys /\ kv \in Keys /\ (t \notin overtaken => key[t].salt = kv.salt)
      BY <1>0, <2>0 DEF Safe, Current, Holding, KeySteps, SharedOK
    <3>3. t \notin overtaken => key[t] = kv
      BY <2>2, <3>2 DEF Keys
    <3>4. Safe(t)'
      BY <3>1, <3>3 DEF Safe, Placed, Current, Writing, Creating, Valuing
    <3> QED
      BY <2>0, <3>1, <3>4, CrossQuiet DEF dbVars, procVars
  <2> QED
    BY <1>1, <2>1, <2>2 DEF UnlockReadHash
<1>2. CASE InitCommit(t)
  <2>1. CASE kv # NoKey
    BY <1>0, <1>2, <2>1, ReturnSafe, CrossQuiet DEF InitCommit, procVars
  <2>2. CASE kv = NoKey
    <3>1. /\ kv' = key[t] /\ OthersStay(t) /\ pc'[t] = "initInstall" /\ key'[t] = key[t]
          /\ UNCHANGED <<state, logs, vault>>
      BY <1>0, <1>2, <2>2, GotoTypes DEF InitCommit, KeySteps, localVars, procVars
    <3>2. /\ \A c \in Creds : state[c] = "absent"
          /\ \A p \in Procs : vault[p] = NoKey
          /\ \A o \in Threads : pc[o] \in {"idle", "initCommit"}
      BY <2>2 DEF StoreInv, RowsOK, ProcsOK, Holding
    <3>3. Readable' /\ RuntimeHoldsStoredKey'
      BY <3>1, <3>2 DEF CrossInv, Readable, OthersReadable, HistoryReadable, BlankRows,
         RuntimeHoldsStoredKey
    <3>4. ASSUME NEW o \in Threads PROVE Safe(o)'
      BY <3>1, <3>2 DEF Safe, Placed, Current, OthersStay, Writing, Creating, Valuing
    <3> QED
      BY <3>3, <3>4 DEF CrossInv
  <2> QED
    BY <2>1, <2>2
<1> QED
  BY <1>1, <1>2

\* A change enters where nobody is, and reads what is stored; what it finds live
\* decrypts, so that the vault it re-encrypts from holds the stored key.
LEMMA ChangeKeepsCross ==
  ASSUME StoreInv, OwnedInv, CrossInv, NEW t \in Threads, ChangeEnter(t) \/ ChangeRead(t)
  PROVE  CrossInv'
<1>0. /\ SharedOK /\ LocalsOK /\ Proc(t) \in Procs /\ Safe(t) /\ Holding(t)
      /\ RuntimeHoldsStoredKey /\ Readable
  BY TypesSplit, ProcType DEF StoreInv, CrossInv
<1>1. /\ UNCHANGED <<dbVars, dbWriter, vault, behind>>
      /\ UNCHANGED <<kv, state, ct, logs, had, raced>>
      /\ pc[t] \in {"changeEnter", "changeRead"} /\ (WriterFree(t) \/ pc[t] \in Writing)
      /\ \A p \in Procs \ {Proc(t)} : rwWriter'[p] = rwWriter[p]
  BY <1>0 DEF ChangeEnter, ChangeRead, Writing, dbVars, SharedOK
<1>2. ASSUME OthersStay(t) PROVE RuntimeHoldsStoredKey'
  <2> SUFFICES ASSUME NEW p \in Procs \ behind, vault[p] \notin {NoKey, kv}
      PROVE  \E u \in Threads : rwWriter'[p] = u /\ pc'[u] = "changeSwap"
    BY <1>1 DEF RuntimeHoldsStoredKey
  <2>1. CASE p = Proc(t)
    <3>1. PICK u \in Threads : rwWriter[p] = u /\ pc[u] = "changeSwap"
      BY <1>0 DEF RuntimeHoldsStoredKey
    <3> QED
      BY <1>0, <1>1, <2>1, <3>1, NoThreadIsNone DEF WriterFree, Safe, Placed
  <2>2. CASE p # Proc(t)
    BY <1>1, <1>2, <2>2, OtherProcs
  <2> QED
    BY <2>1, <2>2
<1>3. ASSUME OthersStay(t), Safe(t)', overtaken' \ {t} = overtaken \ {t} PROVE CrossInv'
  BY <1>0, <1>1, <1>2, <1>3, CrossFrame
<1>4. CASE Return(t)
  BY <1>3, <1>4, ReturnSafe
<1>5. CASE ChangeEnter(t) /\ ~Return(t)
  <2>1. /\ OthersStay(t) /\ pc'[t] = "changeRead" /\ rwWriter'[Proc(t)] = t
        /\ overtaken' = overtaken
    BY <1>0, <1>5, GotoTypes DEF ChangeEnter, ChangeSteps, SharedOK, localVars
  <2>2. Safe(t)'
    BY <2>1 DEF Safe, Placed, Current, Writing, Creating, Valuing, Proc
  <2> QED
    BY <1>3, <2>1, <2>2
<1>6. CASE ChangeRead(t) /\ ~Return(t)
  <2> DEFINE live == {c \in Creds : state[c] = "live"}
             read == [rows |-> live, todo |-> live, ct |-> ct, logs |-> [c \in Creds |-> <<>>]]
  <2>1. /\ OthersStay(t) /\ pc'[t] = "changeCommit" /\ snap'[t] = read
        /\ overtaken' \ {t} = overtaken \ {t} /\ rwWriter' = rwWriter
        /\ \A c \in live : ct[c].key = Vault(t)
    BY <1>0, <1>6 DEF ChangeRead, LocalsOK, OthersStay, Goto
  <2>2. ASSUME NEW c \in Creds, Kept(c) PROVE Held(t, c)'
    <3>1. c \in live /\ ct[c].key = kv /\ ct[c].key = Vault(t)
      BY <1>0, <2>1, <2>2 DEF Kept, Readable, OthersReadable
    <3>2. Vault(t)' = Vault(t)
      BY <1>1 DEF Vault, Proc
    <3> QED
      BY <1>1, <2>1, <3>1, <3>2 DEF Held
  <2>3. Safe(t)'
    BY <1>0, <1>1, <1>6, <2>1, <2>2
       DEF ChangeRead, Safe, Placed, Current, Kept, Writing, Creating, Valuing, Proc
  <2> QED
    BY <1>3, <2>1, <2>3
<1> QED
  BY <1>4, <1>5, <1>6

\* The history that is loaded is the one there is, or a change has come between.
LEMMA LoadKeepsCross ==
  ASSUME StoreInv, OwnedInv, CrossInv, NEW t \in Threads, NEW c \in Creds, ChangeLoad(t, c)
  PROVE  CrossInv'
<1>0. SharedOK /\ LocalsOK /\ Safe(t) /\ Readable /\ snap[t] \in Snapshots
  BY TypesSplit DEF StoreInv, CrossInv, LocalsOK
<1> DEFINE s == snap[t]
           read == Loaded(s, c)
<1>1. /\ pc[t] = "changeCommit" /\ c \in s.todo /\ snap' = [snap EXCEPT ![t] = read]
      /\ UNCHANGED <<kv, state, ct, logs, had, dbWriter, vault, rwWriter, behind>>
      /\ UNCHANGED <<pc, tgt, seen, made, key, overtaken>>
      /\ raced \subseteq raced' /\ (t \in overtaken => c \in raced')
  BY DEF ChangeLoad, procVars
<1>2. /\ read.rows = s.rows /\ read.ct = s.ct /\ read.todo = s.todo \ {c}
      /\ read.logs = [s.logs EXCEPT ![c] = logs[c]]
      /\ s.logs \in [Creds -> Seq(Ciphers)]
  BY <1>0 DEF Loaded, Snapshots
<1> HIDE DEF read
<1>3. OthersStay(t) /\ snap'[t] = read
  BY <1>0, <1>1 DEF OthersStay, LocalsOK
<1>4. ASSUME NEW d \in Creds, Kept(d)' PROVE Held(t, d)'
  <2>1. Kept(d) /\ Held(t, d)
    BY <1>0, <1>1, <1>4 DEF Kept, Safe, Placed
  <2>2. Vault(t)' = Vault(t)
    BY <1>1 DEF Vault, Proc
  <2>3. CASE d # c
    BY <1>1, <1>2, <1>3, <2>1, <2>2, <2>3 DEF Held
  <2>4. CASE d = c
    <3>1. t \notin overtaken /\ Vault(t) = kv
      BY <1>1, <1>4, <2>1, <2>4 DEF Kept, Held
    <3>2. read.logs[c] = logs[c] /\ \A i \in 1..Len(logs[c]) : logs[c][i].key = kv
      BY <1>0, <1>2, <2>1, <2>4 DEF Readable, HistoryReadable, Kept
    <3> QED
      BY <1>1, <1>2, <1>3, <2>1, <2>2, <2>4, <3>1, <3>2 DEF Held
  <2> QED
    BY <2>3, <2>4
<1>5. Safe(t)'
  BY <1>0, <1>1, <1>3, <1>4 DEF Safe, Placed, Current, Writing, Creating, Valuing, Proc
<1> QED
  BY <1>1, <1>3, <1>5, CrossQuiet

\* The transaction of a change finds the live rows as it has read them, but for
\* those whose write has crossed it.
LEMMA CommitReencrypts ==
  ASSUME StoreInv, CrossInv, NEW t \in Threads, ChangeCommit(t)
  PROVE  \A c \in Creds : Kept(c) =>
           /\ ct'[c].key = key[t] /\ ct'[c].val = ct[c].val
           /\ Len(logs'[c]) = Len(logs[c])
           /\ \A i \in 1..Len(logs[c]) : /\ logs'[c][i].key = key[t]
                                         /\ logs'[c][i].val = logs[c][i].val
<1>0. /\ SharedOK /\ Safe(t) /\ Holding(t) /\ pc[t] = "changeCommit" /\ key[t] \in Keys
      /\ snap[t] \in Snapshots
  BY TypesSplit DEF StoreInv, CrossInv, ChangeCommit, Holding, ChangeSteps, LocalsOK
<1> DEFINE s == snap[t]
           New(old) == Reencrypt(old, Vault(t), key[t])
<1>1. /\ ct' = [c \in Creds |-> IF c \in s.rows THEN New(s.ct[c]) ELSE ct[c]]
      /\ logs' = [c \in Creds |->
                   [i \in 1..Len(logs[c]) |->
                      IF c \in s.rows /\ i <= Len(s.logs[c])
                        THEN New(s.logs[c][i]) ELSE logs[c][i]]]
      /\ s.todo = {}
  BY DEF ChangeCommit
<1> SUFFICES ASSUME NEW c \in Creds, Kept(c)
    PROVE  /\ ct'[c].key = key[t] /\ ct'[c].val = ct[c].val
           /\ Len(logs'[c]) = Len(logs[c])
           /\ \A i \in 1..Len(logs[c]) : /\ logs'[c][i].key = key[t]
                                         /\ logs'[c][i].val = logs[c][i].val
  OBVIOUS
<1>2. /\ c \in s.rows /\ s.ct[c].key = Vault(t) /\ s.ct[c].val = ct[c].val
      /\ Len(s.logs[c]) = Len(logs[c])
      /\ \A i \in 1..Len(logs[c]) : /\ s.logs[c][i].key = Vault(t)
                                    /\ s.logs[c][i].val = logs[c][i].val
  BY <1>0, <1>1 DEF Safe, Placed, Held
<1>3. /\ s.ct[c] \in Ciphers /\ logs[c] \in Seq(Ciphers) /\ s.logs[c] \in Seq(Ciphers)
      /\ Len(logs[c]) \in Nat
  BY <1>0, <1>2 DEF Holding, SharedOK, Snapshots
<1>4. ct'[c] = New(s.ct[c]) /\ ct'[c].key = key[t] /\ ct'[c].val = ct[c].val
  BY <1>0, <1>1, <1>2, <1>3, ReencryptType
<1>5. logs'[c] = [i \in 1..Len(logs[c]) |-> New(s.logs[c][i])]
  BY <1>1, <1>2, <1>3
<1>6. Len(logs'[c]) = Len(logs[c])
  BY <1>3, <1>5
<1>7. ASSUME NEW i \in 1..Len(logs[c])
      PROVE  logs'[c][i].key = key[t] /\ logs'[c][i].val = logs[c][i].val
  <2>1. logs'[c][i] = New(s.logs[c][i]) /\ s.logs[c][i] \in Ciphers
    BY <1>2, <1>3, <1>5
  <2> QED
    BY <1>0, <1>2, <2>1, ReencryptType
<1> QED
  BY <1>4, <1>6, <1>7

\* A change's commit overtakes everyone else; what other changes hold keeps its
\* value, and its key is none of their concern.
LEMMA CommitKeepsCross ==
  ASSUME StoreInv, CrossInv, NEW t \in Threads, ChangeCommit(t)
  PROVE  CrossInv'
<1>0. /\ SharedOK /\ LocalsOK /\ Proc(t) \in Procs /\ Safe(t) /\ BlankRows
      /\ pc[t] = "changeCommit" /\ dbWriter = NoThread
  BY TypesSplit, ProcType DEF StoreInv, CrossInv, ChangeCommit, Readable
<1>1. /\ kv' = key[t] /\ Goto(t, "changeSwap") /\ UNCHANGED <<tgt, seen, made, key, snap>>
      /\ UNCHANGED <<state, raced, dbWriter, vault, rwWriter>>
      /\ overtaken' = {u \in Threads \ {t} : pc[u] # "idle"}
      /\ behind' = behind \union {p \in Procs \ {Proc(t)} : vault[p] # NoKey}
  BY DEF ChangeCommit, OvertakeOthers
<1>2. pc'[t] = "changeSwap" /\ \A o \in Threads \ {t} : pc'[o] = pc[o]
  BY <1>0, <1>1 DEF Goto, LocalsOK
<1>3. \A c \in Creds : Kept(c)' <=> Kept(c)
  BY <1>1 DEF Kept
<1>4. Readable'
  <2>1. OthersReadable' /\ HistoryReadable'
    BY <1>1, CommitReencrypts DEF OthersReadable, HistoryReadable, Kept
  <2>2. ASSUME NEW c \in Creds, state'[c] = "absent" PROVE logs'[c] = <<>>
    <3>1. logs[c] = <<>>
      BY <1>0, <1>1, <2>2 DEF BlankRows
    <3>2. logs'[c] = [i \in 1..Len(logs[c]) |-> logs'[c][i]]
      BY DEF ChangeCommit
    <3> QED
      BY <3>1, <3>2
  <2> QED
    BY <2>1, <2>2 DEF Readable, BlankRows
<1>5. RuntimeHoldsStoredKey'
  <2>1. rwWriter[Proc(t)] = t
    BY <1>0 DEF Safe, Placed, Writing
  <2> QED
    BY <1>1, <1>2, <2>1 DEF RuntimeHoldsStoredKey
<1>6. Safe(t)'
  BY <1>0, <1>1, <1>2 DEF Safe, Placed, Current, Writing, Creating, Valuing, Proc
<1>7. ASSUME NEW o \in Threads \ {t}, pc[o] # "idle" PROVE Safe(o)'
  <2>1. o \in overtaken' /\ pc'[o] = pc[o] /\ Placed(o) /\ Proc(o)' = Proc(o)
    BY <1>1, <1>2, <1>7 DEF CrossInv, Safe, Proc
  <2>2. pc[o] \notin Creating
    BY <1>0, <2>1, NoThreadIsNone DEF Placed
  <2>3. ASSUME pc[o] = "changeCommit", NEW c \in Creds, Kept(c) PROVE Held(o, c)'
    <3>1. Held(o, c)
      BY <2>1, <2>3 DEF Placed
    <3>2. Vault(o)' = Vault(o)
      BY <1>1 DEF Vault, Proc
    <3>3. /\ ct'[c].val = ct[c].val /\ Len(logs'[c]) = Len(logs[c])
          /\ \A i \in 1..Len(logs[c]) : logs'[c][i].val = logs[c][i].val
      BY <2>3, CommitReencrypts
    <3> QED
      BY <1>1, <2>1, <3>1, <3>2, <3>3 DEF Held
  <2> QED
    BY <1>1, <1>3, <2>1, <2>2, <2>3 DEF Safe, Placed
<1>8. ASSUME NEW o \in Threads \ {t}, pc[o] = "idle" PROVE Safe(o)'
  BY <1>2, <1>8 DEF Safe, Placed, Current, Writing, Creating, Valuing
<1> QED
  BY <1>4, <1>5, <1>6, <1>7, <1>8 DEF CrossInv

\* Who encrypts does so under the stored key, or in a process that is behind.
LEMMA EncryptKeepsCross ==
  ASSUME StoreInv, CrossInv, NEW t \in Threads, NEW v \in Values,
         CreateEncrypt(t, v) \/ UpdateEncrypt(t, v), Vault(t) # NoKey
  PROVE  CrossInv'
<1>0. /\ SharedOK /\ LocalsOK /\ Proc(t) \in Procs /\ Safe(t) /\ Holding(t)
      /\ RuntimeHoldsStoredKey
  BY TypesSplit, ProcType DEF StoreInv, CrossInv
<1>1. Vault(t) = kv \/ Proc(t) \in behind
  BY <1>0, NoThreadIsNone DEF RuntimeHoldsStoredKey, CreateEncrypt, UpdateEncrypt, WriterFree, Vault
<1>2. /\ OthersStay(t) /\ made'[t] = [key |-> Vault(t), val |-> v]
      /\ tgt'[t] = tgt[t] /\ seen'[t] = seen[t] /\ NoteEncryption(t)
      /\ UNCHANGED <<dbVars, dbWriter, vault, rwWriter, behind>>
      /\ UNCHANGED <<kv, state, ct, logs, had, raced>>
      /\ \/ pc[t] = "createEncrypt" /\ pc'[t] = "createCommit"
         \/ pc[t] = "updateEncrypt" /\ pc'[t] = "valueCommit"
  BY <1>0 DEF CreateEncrypt, UpdateEncrypt, Return, Goto, LocalsOK, OthersStay, procVars, dbVars
<1>3. t \notin overtaken' => t \notin overtaken /\ made'[t].key = kv
  BY <1>1, <1>2 DEF NoteEncryption
<1>4. Safe(t)'
  BY <1>0, <1>2, <1>3 DEF Safe, Placed, Current, Good, Kept, Writing, Creating, Valuing
<1>5. overtaken' \ {t} = overtaken \ {t}
  BY <1>2 DEF NoteEncryption
<1> QED
  BY <1>2, <1>4, <1>5, CrossQuiet

\* A row is written under a change's eyes, or it concerns none of the others.
LEMMA WriteSafe ==
  ASSUME StoreInv, CrossInv, NEW t \in Threads, OthersStay(t), NEW c \in Creds,
         dbWriter \in {t, NoThread}, NoteWrite(t, c), overtaken' = overtaken \ {t},
         UNCHANGED <<kv, vault, rwWriter>>,
         \A d \in Creds \ {c} : state'[d] = state[d] /\ ct'[d] = ct[d] /\ logs'[d] = logs[d],
         state'[c] # "absent", state'[c] = "live" => state[c] \in {"live", "absent"}
  PROVE  \A o \in Threads \ {t} : Safe(o)'
<1> SUFFICES ASSUME NEW o \in Threads \ {t} PROVE Safe(o)'
  OBVIOUS
<1>1. /\ pc'[o] = pc[o] /\ tgt'[o] = tgt[o] /\ seen'[o] = seen[o]
      /\ made'[o] = made[o] /\ key'[o] = key[o] /\ snap'[o] = snap[o]
      /\ o \in overtaken' <=> o \in overtaken
      /\ Safe(o) /\ Proc(o)' = Proc(o) /\ Vault(o)' = Vault(o)
  BY DEF OthersStay, CrossInv, Proc, Vault
<1>2. pc[o] \notin Creating
  BY <1>1, NoThreadIsNone DEF Safe, Placed
<1>3. raced \subseteq raced' /\ (pc[o] = "changeCommit" => c \in raced')
  BY DEF NoteWrite, Crosses
<1>4. \A d \in Creds : Kept(d)' /\ state[d] # "absent" => Kept(d)
  BY <1>3 DEF Kept
<1>5. pc[o] \in Valuing => tgt[o] \in Creds /\ state[tgt[o]] # "absent" /\ state'[tgt[o]] # "absent"
  BY <1>1 DEF StoreInv, Holding, Safe, Placed
<1>6. ASSUME pc[o] = "changeCommit", NEW d \in Creds, Kept(d)' PROVE Held(o, d)'
  <2>1. d # c /\ Kept(d)
    BY <1>3, <1>6 DEF Kept
  <2> QED
    BY <1>1, <1>6, <2>1 DEF Safe, Placed, Held
<1>7. Placed(o)'
  BY <1>1, <1>2, <1>5, <1>6 DEF Safe, Placed
<1>8. ASSUME o \notin overtaken PROVE Current(o)'
  <2>1. pc[o] = "valueCommit" => pc[o] \in Valuing
    BY DEF Valuing
  <2> QED
    BY <1>1, <1>4, <1>5, <1>8, <2>1 DEF Safe, Current, Good
<1> QED
  BY <1>1, <1>7, <1>8 DEF Safe

LEMMA CreateKeepsCross ==
  ASSUME StoreInv, CrossInv, NEW t \in Threads, CreateCommit(t)
  PROVE  CrossInv'
<1> DEFINE c == tgt[t]
<1>0. /\ SharedOK /\ Safe(t) /\ c \in Creds /\ Readable
      /\ dbWriter = t /\ state[c] = "absent" /\ pc[t] = "createCommit"
  BY TypesSplit DEF StoreInv, CrossInv, Safe, Placed, Holding, Creating, CreateCommit
<1>1. /\ state' = [state EXCEPT ![c] = "live"] /\ ct' = [ct EXCEPT ![c] = made[t]]
      /\ UNCHANGED <<kv, logs, vault, rwWriter, behind>> /\ NoteWrite(t, c) /\ Return(t)
  BY DEF CreateCommit, procVars
<1>2. OthersStay(t) /\ Safe(t)' /\ overtaken' = overtaken \ {t} /\ pc'[t] = "idle"
  BY <1>1, ReturnSafe DEF Return
<1>3. /\ state'[c] = "live" /\ ct'[c] = made[t] /\ logs'[c] = <<>>
      /\ \A d \in Creds \ {c} : state'[d] = state[d] /\ ct'[d] = ct[d] /\ logs'[d] = logs[d]
  BY <1>0, <1>1 DEF SharedOK, Readable, BlankRows
<1>4. raced \subseteq raced' /\ (c \notin raced' => ct'[c].key = kv)
  BY <1>0, <1>1, <1>3 DEF NoteWrite, Crosses, Safe, Current
<1>5. Readable'
  BY <1>0, <1>1, <1>3, <1>4 DEF Readable, OthersReadable, HistoryReadable, BlankRows
<1>6. RuntimeHoldsStoredKey'
  BY <1>0, <1>1, <1>2 DEF CrossInv, RuntimeHoldsStoredKey, OthersStay
<1>7. \A o \in Threads \ {t} : Safe(o)'
  BY <1>0, <1>1, <1>2, <1>3, WriteSafe
<1> QED
  BY <1>2, <1>5, <1>6, <1>7 DEF CrossInv

LEMMA ValueKeepsCross ==
  ASSUME StoreInv, CrossInv, NEW t \in Threads, ValueCommit(t)
  PROVE  CrossInv'
<1> DEFINE c == tgt[t]
<1>0. /\ SharedOK /\ Safe(t) /\ Readable /\ c \in Creds /\ seen[t] \in Ciphers
      /\ pc[t] = "valueCommit" /\ dbWriter = NoThread
  BY TypesSplit DEF StoreInv, CrossInv, Holding, ValueCommit, Valuing
<1>1. /\ ct' = [ct EXCEPT ![c] = made[t]] /\ logs' = [logs EXCEPT ![c] = Append(@, seen[t])]
      /\ UNCHANGED <<kv, state, vault, rwWriter, behind>> /\ NoteWrite(t, c) /\ Return(t)
  BY DEF ValueCommit, procVars
<1>2. OthersStay(t) /\ Safe(t)' /\ overtaken' = overtaken \ {t} /\ pc'[t] = "idle"
  BY <1>1, ReturnSafe DEF Return
<1>3. /\ ct'[c] = made[t] /\ logs'[c] = Append(logs[c], seen[t])
      /\ \A d \in Creds \ {c} : state'[d] = state[d] /\ ct'[d] = ct[d] /\ logs'[d] = logs[d]
  BY <1>0, <1>1 DEF SharedOK
<1>4. /\ raced \subseteq raced' /\ state[c] # "absent"
      /\ state[c] = "live" /\ c \notin raced' => made[t].key = kv /\ seen[t].key = kv
  BY <1>0, <1>1 DEF NoteWrite, Crosses, Safe, Placed, Current, Good, Kept, Valuing
<1>5. OthersReadable' /\ BlankRows'
  BY <1>0, <1>1, <1>3, <1>4 DEF Readable, OthersReadable, BlankRows
<1>6. HistoryReadable'
  <2> SUFFICES ASSUME NEW d \in Creds \ raced', state[d] = "live", NEW i \in 1..Len(logs'[d])
      PROVE  logs'[d][i].key = kv
    BY <1>1 DEF HistoryReadable
  <2>1. CASE d # c
    BY <1>0, <1>3, <1>4, <2>1 DEF Readable, HistoryReadable
  <2>2. CASE d = c
    <3>1. logs[c] \in Seq(Ciphers)
      BY <1>0 DEF SharedOK
    <3>2. CASE i = Len(logs[c]) + 1
      BY <1>0, <1>3, <1>4, <2>2, <3>1, <3>2
    <3>3. CASE i # Len(logs[c]) + 1
      <4>1. i \in 1..Len(logs[c]) /\ logs'[c][i] = logs[c][i]
        BY <1>0, <1>3, <2>2, <3>1, <3>3
      <4> QED
        BY <1>0, <1>4, <2>2, <4>1 DEF Readable, HistoryReadable
    <3> QED
      BY <3>2, <3>3
  <2> QED
    BY <2>1, <2>2
<1>7. RuntimeHoldsStoredKey'
  BY <1>0, <1>1, <1>2 DEF CrossInv, RuntimeHoldsStoredKey, OthersStay
<1>8. \A o \in Threads \ {t} : Safe(o)'
  BY <1>0, <1>1, <1>2, <1>3, <1>4, WriteSafe
<1> QED
  BY <1>2, <1>5, <1>6, <1>7, <1>8 DEF CrossInv, Readable

\* A handler that gives up: with the database, with the write section, or without.
LEMMA GiveUpKeepsCross ==
  ASSUME StoreInv, OwnedInv, CrossInv, NEW t \in Threads,
         \/ CreateRefused(t) \/ DbBusy(t)
         \/ Vault(t) = NoKey /\ \E v \in Values : CreateEncrypt(t, v) \/ UpdateEncrypt(t, v)
  PROVE  CrossInv'
<1>0. SharedOK /\ Safe(t) /\ Proc(t) \in Procs
  BY TypesSplit, ProcType DEF StoreInv, CrossInv
<1>1. /\ pc[t] \in {"createEncrypt", "createCommit", "updateEncrypt", "initCommit", "valueCommit", "changeCommit"}
      /\ Return(t) /\ UNCHANGED <<dbVars, vault, behind>>
      /\ dbWriter' = dbWriter \/ (pc[t] \in Creating /\ dbWriter' = NoThread)
      /\ IF pc[t] = "changeCommit" THEN rwWriter' = [rwWriter EXCEPT ![Proc(t)] = NoThread]
         ELSE rwWriter' = rwWriter
  BY DEF CreateRefused, DbBusy, CreateEncrypt, UpdateEncrypt, procVars, Creating
<1>2. OthersStay(t) /\ Safe(t)' /\ overtaken' \ {t} = overtaken \ {t}
  BY <1>1, ReturnSafe
<1>3. /\ UNCHANGED <<kv, state, ct, logs, had, raced>>
      /\ dbWriter' = dbWriter \/ (dbWriter = t /\ dbWriter' = NoThread)
  BY <1>0, <1>1 DEF dbVars, Safe, Placed
<1>4. CASE pc[t] # "changeCommit"
  BY <1>1, <1>2, <1>3, <1>4, CrossQuiet
<1>5. CASE pc[t] = "changeCommit"
  <2>1. \A p \in Procs \ {Proc(t)} : vault'[p] = vault[p] /\ rwWriter'[p] = rwWriter[p]
    BY <1>0, <1>1, <1>5 DEF SharedOK
  <2>2. rwWriter[Proc(t)] = t /\ pc[t] \in Writing
    BY <1>0, <1>5 DEF Safe, Placed, Writing
  <2>3. RuntimeHoldsStoredKey'
    <3> SUFFICES ASSUME NEW p \in Procs \ behind, vault[p] \notin {NoKey, kv}
        PROVE  \E u \in Threads : rwWriter'[p] = u /\ pc'[u] = "changeSwap"
      BY <1>1, <1>3 DEF RuntimeHoldsStoredKey
    <3>1. p # Proc(t)
      BY <1>5, <2>2 DEF CrossInv, RuntimeHoldsStoredKey
    <3> QED
      BY <1>1, <1>2, <1>3, <2>1, <3>1, OtherProcs
  <2> QED
    BY <1>0, <1>2, <1>3, <2>1, <2>2, <2>3, CrossFrame
<1> QED
  BY <1>4, <1>5

\* Of a process that dies nothing is left in anybody's hands; the others go on.
LEMMA CrashKeepsCross ==
  ASSUME StoreInv, OwnedInv, CrossInv, NEW p \in Procs, Crash(p)
  PROVE  CrossInv'
<1>0. SharedOK /\ LocalsOK
  BY TypesSplit DEF StoreInv
<1>1. /\ UNCHANGED <<kv, state, ct, logs, had, raced>>
      /\ \A q \in Procs \ {p} : vault'[q] = vault[q] /\ rwWriter'[q] = rwWriter[q]
      /\ vault'[p] = NoKey /\ behind' = behind \ {p}
  BY <1>0 DEF Crash, dbVars, SharedOK
<1>2. ASSUME NEW o \in Threads, Proc(o) # p
      PROVE  /\ pc'[o] = pc[o] /\ tgt'[o] = tgt[o] /\ seen'[o] = seen[o]
             /\ made'[o] = made[o] /\ key'[o] = key[o] /\ snap'[o] = snap[o]
             /\ o \in overtaken' <=> o \in overtaken
             /\ dbWriter = o => dbWriter' = o
  BY <1>2 DEF Crash, Proc
<1>3. \A o \in Threads : Proc(o) = p => pc'[o] = "idle"
  BY DEF Crash, Proc
<1>4. Readable'
  BY <1>1 DEF CrossInv, Readable, OthersReadable, HistoryReadable, BlankRows
<1>5. RuntimeHoldsStoredKey'
  <2> SUFFICES ASSUME NEW q \in Procs \ behind', vault'[q] \notin {NoKey, kv}
      PROVE  \E u \in Threads : rwWriter'[q] = u /\ pc'[u] = "changeSwap"
    BY <1>1 DEF RuntimeHoldsStoredKey
  <2>1. q # p /\ q \notin behind /\ vault[q] \notin {NoKey, kv}
    BY <1>1
  <2>2. PICK u \in Threads : rwWriter[q] = u /\ pc[u] = "changeSwap"
    BY <2>1 DEF CrossInv, RuntimeHoldsStoredKey
  <2>3. Proc(u) = q
    BY <2>2, NoThreadIsNone DEF OwnedInv, VaultOwned
  <2> QED
    BY <1>1, <1>2, <2>1, <2>2, <2>3
<1>6. ASSUME NEW o \in Threads PROVE Safe(o)'
  <2>1. CASE Proc(o) = p
    BY <1>3, <2>1 DEF Safe, Placed, Current, Writing, Creating, Valuing
  <2>2. CASE Proc(o) # p
    <3>1. Safe(o) /\ Proc(o)' = Proc(o) /\ Vault(o)' = Vault(o) /\ rwWriter'[Proc(o)] = rwWriter[Proc(o)]
      BY <1>1, <2>2, ProcType DEF CrossInv, Proc, Vault
    <3>2. \A c \in Creds : Held(o, c) => Held(o, c)'
      BY <1>1, <1>2, <2>2, <3>1 DEF Held
    <3>3. \A c : Kept(c)' <=> Kept(c)
      BY <1>1 DEF Kept
    <3>4. Placed(o)'
      BY <1>1, <1>2, <2>2, <3>1, <3>2, <3>3 DEF Safe, Placed
    <3>5. o \notin overtaken => Current(o)'
      BY <1>1, <1>2, <2>2, <3>1, <3>3 DEF Safe, Current, Good
    <3> QED
      BY <1>2, <2>2, <3>4, <3>5 DEF Safe
  <2> QED
    BY <2>1, <2>2
<1> QED
  BY <1>4, <1>5, <1>6 DEF CrossInv

--------------------------------------------------------------------------------
LEMMA ContinueKeepsCross ==
  ASSUME StoreInv, OwnedInv, CrossInv, NEW t \in Threads, Continue(t)
  PROVE  CrossInv'
<1>1. CASE InitCommit(t) \/ UnlockReadHash(t)
  BY <1>1, UnlockKeepsCross
<1>2. CASE InitInstall(t) \/ UnlockInstall(t) \/ ChangeSwap(t)
  <2>1. key[t] \in Keys
    BY <1>2 DEF InitInstall, UnlockInstall, ChangeSwap, StoreInv, Holding, KeySteps, ChangeSteps
  <2> QED
    BY <1>2, <2>1, InstallKeepsCross
<1>3. CASE ChangeEnter(t) \/ ChangeRead(t)
  BY <1>3, ChangeKeepsCross
<1>4. CASE ChangeCommit(t) \/ \E c \in Creds : ChangeLoad(t, c)
  BY <1>4, CommitKeepsCross, LoadKeepsCross
<1>5. ASSUME NEW v \in Values, CreateEncrypt(t, v) \/ UpdateEncrypt(t, v) PROVE CrossInv'
  BY <1>5, EncryptKeepsCross, GiveUpKeepsCross
<1>6. CASE CreateCommit(t)
  BY <1>6, CreateKeepsCross
<1>7. CASE ValueCommit(t)
  BY <1>7, ValueKeepsCross
<1>8. CASE CreateRefused(t) \/ DbBusy(t)
  BY <1>8, GiveUpKeepsCross
<1> QED
  BY <1>1, <1>2, <1>3, <1>4, <1>5, <1>6, <1>7, <1>8 DEF Continue

LEMMA CrossStep == StoreInv /\ OwnedInv /\ CrossInv /\ [Next]_vars => CrossInv'
<1> SUFFICES ASSUME StoreInv, OwnedInv, CrossInv, [Next]_vars PROVE CrossInv'
  OBVIOUS
<1>1. CASE UNCHANGED vars
  <2>1. Readable' /\ RuntimeHoldsStoredKey'
    BY <1>1 DEF CrossInv, Readable, OthersReadable, HistoryReadable, BlankRows,
       RuntimeHoldsStoredKey, vars, dbVars, procVars, localVars
  <2>2. \A t \in Threads : Safe(t)'
    BY <1>1 DEF CrossInv, Safe, Placed, Current, Held, Good, Kept, Proc, Vault, vars, dbVars,
       procVars, localVars
  <2> QED
    BY <2>1, <2>2 DEF CrossInv
<1> QED
  BY <1>1, BeginKeepsCross, ContinueKeepsCross, CrashKeepsCross DEF Next

\* However the requests of any processes overlap, whoever no change has overtaken
\* has in its hands what agrees with the store, and a change has every live row
\* whose write has not crossed it.
THEOREM CrossInvariant == Spec => []CrossInv
BY StoreInvariant, OwnedInvariant, CrossInit, CrossStep, PTL DEF Spec

\* No permanent lock-out (runtime.py:209-212) but by a write that crosses a change:
\* whatever is created, updated, rolled back, deleted, changed or interrupted, in
\* whichever process, every other live value decrypts under the stored password.
THEOREM NoLockout == Spec => []OthersReadable
<1>1. CrossInv => OthersReadable
  BY DEF CrossInv, Readable
<1> QED
  BY <1>1, CrossInvariant, PTL

\* A rollback of such a credential finds a record that decrypts, however many
\* password changes lie between and whichever overlapped.
THEOREM RollbacksReadable == Spec => []HistoryReadable
<1>1. CrossInv => HistoryReadable
  BY DEF CrossInv, Readable
<1> QED
  BY <1>1, CrossInvariant, PTL

\* Nobody encrypts under a key that is not the stored one, except in a process
\* that another's change has left behind.
THEOREM RuntimeKeyIsStored == Spec => []RuntimeHoldsStoredKey
<1>1. CrossInv => RuntimeHoldsStoredKey
  BY DEF CrossInv
<1> QED
  BY <1>1, CrossInvariant, PTL

--------------------------------------------------------------------------------
\* What is stored, and what the threads are to store, the credential has had;
\* of any number of processes, and however they overlap.
Had(t) ==
  /\ pc[t] \in Valuing => state[tgt[t]] # "absent" /\ seen[t].val \in had[tgt[t]]
  /\ pc[t] = "changeCommit" => \A c \in snap[t].rows : snap[t].ct[c].val \in had[c]

HadRows == \A c \in Creds : IF state[c] = "absent" THEN had[c] = {} ELSE ct[c].val \in had[c]

HadInv == HadRows /\ \A t \in Threads : Had(t)

Grows == \A c \in Creds : /\ had[c] \subseteq had'[c]
                          /\ state[c] # "absent" => state'[c] # "absent"

LEMMA HadFrame ==
  ASSUME StoreInv, HadInv, NEW t \in Threads, OthersStay(t), Grows, HadRows', Had(t)'
  PROVE  HadInv'
<1>1. ASSUME NEW o \in Threads \ {t} PROVE Had(o)'
  <2>1. Had(o) /\ Holding(o) /\ snap[o].rows \subseteq Creds
    BY DEF HadInv, StoreInv, TypeOK, Snapshots
  <2> QED
    BY <2>1 DEF OthersStay, Grows, Had, Holding, Valuing, Creating
<1> QED
  BY <1>1 DEF HadInv

LEMMA ReturnHad ==
  ASSUME StoreInv, NEW t \in Threads, Return(t)
  PROVE  OthersStay(t) /\ Had(t)'
BY ReturnTypes, TypesSplit DEF StoreInv, Had, Valuing

LEMMA QuietHad ==
  ASSUME HadInv, UNCHANGED dbVars
  PROVE  Grows /\ HadRows'
BY DEF HadInv, HadRows, Grows, dbVars

LEMMA BeginKeepsHad ==
  ASSUME StoreInv, HadInv, NEW t \in Threads, Begin(t)
  PROVE  HadInv'
<1>0. SharedOK /\ LocalsOK /\ Had(t)
  BY TypesSplit DEF StoreInv, HadInv
<1>1. CASE Observe(t) \/ Lock(t)
  BY <1>0, <1>1, QuietHad, HadFrame DEF Observe, Lock, localVars, OthersStay, Had, dbVars
<1>2. ASSUME NEW w \in Passwords, InitCheck(t, w) \/ UnlockReadParams(t, w) PROVE HadInv'
  <2>1. OthersStay(t) /\ Had(t)'
    BY <1>0, <1>2 DEF InitCheck, UnlockReadParams, LocalsOK, Goto, OthersStay, Had, Valuing
  <2> QED
    BY <1>2, <2>1, QuietHad, HadFrame DEF InitCheck, UnlockReadParams
<1>3. ASSUME NEW w \in Passwords, NEW n \in Passwords, ChangeVerify(t, w, n) PROVE HadInv'
  <2>1. OthersStay(t) /\ Had(t)'
    BY <1>0, <1>3 DEF ChangeVerify, LocalsOK, Goto, OthersStay, Had, Valuing
  <2> QED
    BY <1>3, <2>1, QuietHad, HadFrame DEF ChangeVerify
<1>4. ASSUME NEW c \in Creds, CreateInsert(t, c) PROVE HadInv'
  <2>1. OthersStay(t) /\ Had(t)'
    BY <1>0, <1>4 DEF CreateInsert, LocalsOK, Goto, OthersStay, Had, Valuing
  <2> QED
    BY <1>4, <2>1, QuietHad, HadFrame DEF CreateInsert
<1>5. ASSUME NEW c \in Creds, UpdateRead(t, c) \/ \E i \in 1..MaxLogs : RollbackRead(t, c, i)
      PROVE  HadInv'
  <2>1. /\ OthersStay(t) /\ tgt'[t] = c /\ seen'[t] = ct[c] /\ pc'[t] \in Valuing
        /\ state[c] # "absent" /\ UNCHANGED dbVars
    BY <1>0, <1>5 DEF UpdateRead, RollbackRead, LocalsOK, Goto, OthersStay, Valuing
  <2>2. Had(t)'
    BY <1>5, <2>1 DEF HadInv, HadRows, Had, Valuing, dbVars
  <2> QED
    BY <2>1, <2>2, QuietHad, HadFrame
<1>6. ASSUME NEW c \in Creds, Delete(t, c) PROVE HadInv'
  <2>1. OthersStay(t) /\ Grows /\ HadRows'
    BY <1>0, <1>6 DEF Delete, SharedOK, localVars, OthersStay, HadInv, HadRows, Grows
  <2>2. Had(t)'
    BY <1>0, <1>6, <2>1 DEF Delete, localVars, Had, StoreInv, Holding, Valuing, Creating, Grows
  <2> QED
    BY <2>1, <2>2, HadFrame
<1> QED
  BY <1>1, <1>2, <1>3, <1>4, <1>5, <1>6 DEF Begin

LEMMA ContinueKeepsHad ==
  ASSUME StoreInv, HadInv, NEW t \in Threads, Continue(t)
  PROVE  HadInv'
<1>0. SharedOK /\ LocalsOK /\ Had(t) /\ Holding(t) /\ HadRows
  BY TypesSplit DEF StoreInv, HadInv
<1>1. ASSUME OthersStay(t), Had(t)', UNCHANGED <<state, ct, logs, had>> PROVE HadInv'
  BY <1>0, <1>1, HadFrame DEF Grows, HadRows
<1>2. CASE InitCommit(t) \/ InitInstall(t) \/ UnlockReadHash(t) \/ UnlockInstall(t)
  <2>1. UNCHANGED <<state, ct, logs, had>>
    BY <1>2 DEF InitCommit, InitInstall, UnlockReadHash, UnlockInstall, dbVars
  <2>2. \/ Return(t)
        \/ UNCHANGED localVars /\ (Goto(t, "initInstall") \/ Goto(t, "unlockInstall"))
    BY <1>2 DEF InitCommit, InitInstall, UnlockReadHash, UnlockInstall
  <2>3. ASSUME NEW place \in {"initInstall", "unlockInstall"}, UNCHANGED localVars, Goto(t, place)
        PROVE  HadInv'
    <3>1. OthersStay(t) /\ pc'[t] = place
      BY <1>0, <2>3, GotoTypes DEF KeySteps
    <3> QED
      BY <1>1, <2>1, <2>3, <3>1 DEF Had, Valuing
  <2> QED
    BY <1>1, <2>1, <2>2, <2>3, ReturnHad
<1>3. CASE ChangeEnter(t) \/ ChangeSwap(t)
  <2>1. UNCHANGED <<state, ct, logs, had>>
    BY <1>3 DEF ChangeEnter, ChangeSwap, dbVars
  <2>2. \/ Return(t)
        \/ UNCHANGED localVars /\ Goto(t, "changeRead")
    BY <1>3 DEF ChangeEnter, ChangeSwap
  <2>3. CASE UNCHANGED localVars /\ Goto(t, "changeRead")
    <3>1. OthersStay(t) /\ pc'[t] = "changeRead"
      BY <1>0, <2>3, GotoTypes DEF ChangeSteps
    <3> QED
      BY <1>1, <2>1, <3>1 DEF Had, Valuing
  <2> QED
    BY <1>1, <2>1, <2>2, <2>3, ReturnHad
<1>4. CASE ChangeRead(t)
  <2>1. UNCHANGED <<state, ct, logs, had>>
    BY <1>4 DEF ChangeRead, dbVars
  <2> DEFINE live == {c \in Creds : state[c] = "live"}
             read == [rows |-> live, todo |-> live, ct |-> ct, logs |-> [c \in Creds |-> <<>>]]
  <2>2. CASE /\ snap' = [snap EXCEPT ![t] = read] /\ Goto(t, "changeCommit")
             /\ UNCHANGED <<tgt, seen, made, key, rwWriter>>
    <3>1. OthersStay(t) /\ pc'[t] = "changeCommit" /\ snap'[t].rows = live /\ snap'[t].ct = ct
      BY <1>0, <2>2 DEF LocalsOK, OthersStay, Goto
    <3>2. Had(t)'
      BY <1>0, <2>1, <3>1 DEF Had, HadRows, Valuing
    <3> QED
      BY <1>1, <2>1, <3>1, <3>2
  <2>3. CASE Return(t)
    BY <1>1, <2>1, <2>3, ReturnHad
  <2> QED
    BY <1>4, <2>2, <2>3 DEF ChangeRead
<1>5. CASE ChangeCommit(t)
  <2>1. OthersStay(t) /\ pc'[t] = "changeSwap" /\ UNCHANGED <<state, had>>
    BY <1>0, <1>5 DEF ChangeCommit, LocalsOK, Goto, OthersStay
  <2>2. /\ pc[t] = "changeCommit" /\ key[t] \in Keys
        /\ ct' = [c \in Creds |-> IF c \in snap[t].rows
                                  THEN Reencrypt(snap[t].ct[c], Vault(t), key[t]) ELSE ct[c]]
    BY <1>0, <1>5 DEF ChangeCommit, Holding, ChangeSteps
  <2>3. ASSUME NEW c \in Creds, c \in snap[t].rows
        PROVE  ct'[c].val = snap[t].ct[c].val
    BY <1>0, <2>2, <2>3, ReencryptType DEF Holding
  <2>4. ASSUME NEW c \in Creds, state[c] # "absent" PROVE ct'[c].val \in had[c]
    <3>1. CASE c \in snap[t].rows
      BY <1>0, <2>2, <2>3, <3>1 DEF Had
    <3>2. CASE c \notin snap[t].rows
      BY <1>0, <2>2, <2>4, <3>2 DEF HadRows
    <3> QED
      BY <3>1, <3>2
  <2>5. HadRows' /\ Grows /\ Had(t)'
    BY <1>0, <2>1, <2>4 DEF HadRows, Grows, Had, Valuing
  <2> QED
    BY <2>1, <2>5, HadFrame
<1>6. ASSUME NEW v \in Values, CreateEncrypt(t, v) \/ UpdateEncrypt(t, v) PROVE HadInv'
  <2>1. UNCHANGED <<state, ct, logs, had>>
    BY <1>6 DEF CreateEncrypt, UpdateEncrypt, dbVars
  <2>2. CASE Return(t)
    BY <1>1, <2>1, <2>2, ReturnHad
  <2>3. CASE ~Return(t)
    <3>1. /\ OthersStay(t) /\ tgt'[t] = tgt[t] /\ seen'[t] = seen[t]
          /\ \/ pc'[t] = "createCommit"
             \/ pc'[t] = "valueCommit" /\ pc[t] = "updateEncrypt"
      BY <1>0, <1>6, <2>3 DEF CreateEncrypt, UpdateEncrypt, Goto, LocalsOK, OthersStay
    <3>2. Had(t)'
      BY <1>0, <2>1, <3>1 DEF Had, Valuing
    <3> QED
      BY <1>1, <2>1, <3>1, <3>2
  <2> QED
    BY <2>2, <2>3
<1>7. CASE CreateCommit(t) \/ ValueCommit(t)
  <2>1. /\ tgt[t] \in Creds /\ Return(t)
        /\ ct' = [ct EXCEPT ![tgt[t]] = made[t]]
        /\ had' = [had EXCEPT ![tgt[t]] = @ \union {made[t].val}]
        /\ \/ state' = [state EXCEPT ![tgt[t]] = "live"]
           \/ UNCHANGED state /\ state[tgt[t]] # "absent"
    BY <1>0, <1>7 DEF CreateCommit, ValueCommit, Holding, Had, Creating, Valuing
  <2>2. HadRows' /\ Grows
    BY <1>0, <2>1 DEF SharedOK, HadRows, Grows
  <2> QED
    BY <2>1, <2>2, ReturnHad, HadFrame
<1>8. CASE CreateRefused(t) \/ DbBusy(t)
  BY <1>1, <1>8, ReturnHad DEF CreateRefused, DbBusy, dbVars
<1>9. ASSUME NEW c \in Creds, ChangeLoad(t, c) PROVE HadInv'
  <2>1. /\ OthersStay(t) /\ snap'[t] = Loaded(snap[t], c) /\ snap[t] \in Snapshots
        /\ UNCHANGED <<pc, state, ct, logs, had>>
    BY <1>0, <1>9 DEF ChangeLoad, LocalsOK, OthersStay
  <2>2. snap'[t].rows = snap[t].rows /\ snap'[t].ct = snap[t].ct /\ pc'[t] = "changeCommit"
    BY <1>9, <2>1 DEF ChangeLoad, Loaded, Snapshots
  <2>3. Had(t)'
    BY <1>0, <1>9, <2>1, <2>2 DEF ChangeLoad, Had, Valuing
  <2> QED
    BY <1>1, <2>1, <2>3
<1> QED
  BY <1>2, <1>3, <1>4, <1>5, <1>6, <1>7, <1>8, <1>9 DEF Continue

LEMMA HadStep == StoreInv /\ HadInv /\ [Next]_vars => HadInv'
<1> SUFFICES ASSUME StoreInv, HadInv, [Next]_vars PROVE HadInv'
  OBVIOUS
<1>1. ASSUME NEW p \in Procs, Crash(p) PROVE HadInv'
  <2>1. HadRows'
    BY <1>1, QuietHad DEF Crash
  <2>2. ASSUME NEW t \in Threads PROVE Had(t)'
    BY <1>1 DEF Crash, HadInv, Had, Valuing, dbVars
  <2> QED
    BY <2>1, <2>2 DEF HadInv
<1>2. CASE UNCHANGED vars
  BY <1>2 DEF HadInv, HadRows, Had, vars, dbVars, localVars
<1> QED
  BY <1>1, <1>2, BeginKeepsHad, ContinueKeepsHad DEF Next

\* However the handlers of any processes overlap, what an update is about to
\* record, and what a change is to write back, the credential has had.
THEOREM OnlyPastValuesRecorded == Spec => []HadInv
<1>1. Init => HadInv
  BY DEF Init, HadInv, HadRows, Had, Valuing
<1> QED
  BY <1>1, HadStep, StoreInvariant, PTL DEF Spec

--------------------------------------------------------------------------------
\* Where everything decrypts, what is read is what is written.
Text   == [c \in Creds |-> IF Kept(c) THEN ct[c].val ELSE NoCipher]
Record == [c \in Creds |->
             IF Kept(c) THEN [i \in 1..Len(logs[c]) |-> logs[c][i].val] ELSE <<>>]

LEMMA ReadsWhatIsWritten ==
  /\ CrossInv => Value = Text /\ Past = Record
  /\ CrossInv' => Value' = Text' /\ Past' = Record'
BY DEF CrossInv, Readable, OthersReadable, HistoryReadable, Value, Text, Past, Record, Kept, Plain

Seen == <<kv, Status, Value, Past, Given>>

\* Most steps do not write what is seen.
LEMMA UnseenStep ==
  ASSUME UNCHANGED dbVars
  PROVE  UNCHANGED Seen
BY DEF dbVars, Seen, Status, Value, Past, Given, Kept, Plain

\* A row that is written changes what is read of it, and of no other.
LEMMA OneRow ==
  ASSUME StoreInv, NEW c \in Creds,
         state' = [state EXCEPT ![c] = state'[c]], ct' = [ct EXCEPT ![c] = ct'[c]],
         logs' = [logs EXCEPT ![c] = logs'[c]], had' = [had EXCEPT ![c] = had'[c]],
         raced' \ {c} = raced \ {c}
  PROVE  /\ Status' = [Status EXCEPT ![c] = Status'[c]]
         /\ Text' = [Text EXCEPT ![c] = Text'[c]]
         /\ Record' = [Record EXCEPT ![c] = Record'[c]]
         /\ Given' = [Given EXCEPT ![c] = Given'[c]]
<1>1. \A d \in Creds \ {c} : /\ state'[d] = state[d] /\ ct'[d] = ct[d] /\ logs'[d] = logs[d]
                           /\ had'[d] = had[d] /\ (d \in raced' <=> d \in raced)
  BY DEF StoreInv, TypeOK
<1>2. \A d \in Creds \ {c} : Text'[d] = Text[d]
  BY <1>1 DEF Text, Kept
<1>3. \A d \in Creds \ {c} : Record'[d] = Record[d]
  BY <1>1 DEF Record, Kept
<1>4. \A d \in Creds \ {c} : Given'[d] = Given[d]
  BY <1>1 DEF Given, Kept
<1>0. \A d \in Creds \ {c} : Status'[d] = Status[d]
  BY <1>1 DEF Status
<1>8. Status' = [Status EXCEPT ![c] = Status'[c]]
  BY <1>0 DEF Status
<1>5. Text' = [Text EXCEPT ![c] = Text'[c]]
  BY <1>2 DEF Text
<1>6. Record' = [Record EXCEPT ![c] = Record'[c]]
  BY <1>3 DEF Record
<1>7. Given' = [Given EXCEPT ![c] = Given'[c]]
  BY <1>4 DEF Given
<1> QED
  BY <1>5, <1>6, <1>7, <1>8

LEMMA Untouched ==
  ASSUME NEW c \in Creds, Status'[c] = Status[c], Text'[c] = Text[c], Record'[c] = Record[c],
         Given'[c] = Given[c], Status' = [Status EXCEPT ![c] = Status'[c]],
         Text' = [Text EXCEPT ![c] = Text'[c]], Record' = [Record EXCEPT ![c] = Record'[c]],
         Given' = [Given EXCEPT ![c] = Given'[c]]
  PROVE  Status' = Status /\ Text' = Text /\ Record' = Record /\ Given' = Given
<1>1. /\ Text = [d \in Creds |-> Text[d]] /\ Record = [d \in Creds |-> Record[d]]
      /\ Given = [d \in Creds |-> Given[d]] /\ Status = [d \in Creds |-> Status[d]]
  BY DEF Text, Record, Given, Status
<1>2. Text' = Text
  BY <1>1
<1>3. Record' = Record
  BY <1>1
<1>4. Given' = Given
  BY <1>1
<1>5. Status' = Status
  BY <1>1
<1> QED
  BY <1>2, <1>3, <1>4, <1>5

\* A row whose write crosses a change is lost, or was: nothing is read of it, and
\* the others are as they were.
LEMMA RowIsLost ==
  ASSUME StoreInv, CrossInv, CrossInv', kv' = kv, NEW c \in Creds, c \in raced',
         Status' = [Status EXCEPT ![c] = Status'[c]], Text' = [Text EXCEPT ![c] = Text'[c]],
         Record' = [Record EXCEPT ![c] = Record'[c]], Given' = [Given EXCEPT ![c] = Given'[c]]
  PROVE  [Promise!Lose(c)]_Seen
<1>1. Status'[c] = "lost" /\ Text'[c] = NoCipher /\ Record'[c] = <<>> /\ Given'[c] = {}
  BY DEF Status, Text, Record, Given, Kept
<1>2. CASE c \in raced
  <2>1. Status[c] = "lost" /\ Text[c] = NoCipher /\ Record[c] = <<>> /\ Given[c] = {}
    BY <1>2 DEF Status, Text, Record, Given, Kept
  <2>2. Status' = Status /\ Text' = Text /\ Record' = Record /\ Given' = Given
    BY <1>1, <2>1, Untouched
  <2> QED
    BY <2>2, ReadsWhatIsWritten DEF Seen
<1>3. CASE c \notin raced
  <2>1. Status[c] # "lost"
    BY <1>3 DEF StoreInv, TypeOK, Status
  <2> QED
    BY <1>1, <2>1, ReadsWhatIsWritten DEF Promise!Lose
<1> QED
  BY <1>2, <1>3

\* A new key, under which everything reads as before.
LEMMA PasswordIsSet ==
  ASSUME StoreInv, CrossInv, CrossInv', NEW t \in Threads,
         (InitCommit(t) /\ kv' # kv) \/ ChangeCommit(t)
  PROVE  Promise!SetPassword
<1>0. SharedOK /\ LocalsOK /\ key[t] \in Keys /\ kv' = key[t]
      /\ UNCHANGED <<state, had, raced>>
  BY TypesSplit DEF StoreInv, Holding, KeySteps, ChangeSteps, InitCommit, ChangeCommit
<1>1. ASSUME NEW c \in Creds, Kept(c)
      PROVE  /\ ct'[c].val = ct[c].val /\ Len(logs'[c]) = Len(logs[c])
             /\ \A i \in 1..Len(logs[c]) : logs'[c][i].val = logs[c][i].val
  <2>1. CASE InitCommit(t)
    BY <2>1 DEF InitCommit
  <2>2. CASE ChangeCommit(t)
    <3>1. key[t] \in Keys
      BY <1>0
    <3> QED
      BY <1>1, <2>2, CommitReencrypts
  <2> QED
    BY <2>1, <2>2
<1>2. Text' = Text /\ Given' = Given /\ Status' = Status
  BY <1>0, <1>1 DEF Text, Given, Kept, Status
<1>3. Record' = Record
  BY <1>0, <1>1 DEF Record, Kept
<1> QED
  BY <1>0, <1>2, <1>3, ReadsWhatIsWritten, NoKeyIsNone DEF Promise!SetPassword

LEMMA CredentialIsCreated ==
  ASSUME StoreInv, CrossInv, CrossInv', HadInv, NEW t \in Threads, CreateCommit(t)
  PROVE  [\E c \in Creds, v \in Values : Promise!Create(c, v) \/ Promise!Lose(c)]_Seen
<1> DEFINE c == tgt[t]
           v == made[t].val
<1>0. /\ SharedOK /\ c \in Creds /\ v \in Values /\ state[c] = "absent" /\ logs[c] = <<>> /\ had[c] = {}
      /\ made[t] \in Ciphers
  BY TypesSplit DEF StoreInv, CrossInv, Readable, BlankRows, HadInv, HadRows, Holding, Safe,
     Placed, Creating, Valuing, CreateCommit, Ciphers
<1>1. /\ state' = [state EXCEPT ![c] = "live"] /\ ct' = [ct EXCEPT ![c] = made[t]]
      /\ had' = [had EXCEPT ![c] = @ \union {v}] /\ logs' = logs /\ kv' = kv
      /\ raced' \in {raced, raced \union {c}}
  BY DEF CreateCommit, NoteWrite
<1>2. /\ state'[c] = "live" /\ ct'[c] = made[t] /\ had'[c] = {v} /\ logs'[c] = <<>>
  BY <1>0, <1>1 DEF SharedOK
<1>3. /\ Text' = [Text EXCEPT ![c] = Text'[c]] /\ Record' = [Record EXCEPT ![c] = Record'[c]]
      /\ Given' = [Given EXCEPT ![c] = Given'[c]] /\ Status' = [Status EXCEPT ![c] = Status'[c]]
  <2>1. /\ raced' \ {c} = raced \ {c} /\ state' = [state EXCEPT ![c] = state'[c]] /\ ct' = [ct EXCEPT ![c] = ct'[c]]
        /\ logs' = [logs EXCEPT ![c] = logs'[c]] /\ had' = [had EXCEPT ![c] = had'[c]]
    BY <1>0, <1>1, <1>2 DEF SharedOK
  <2> QED
    BY <1>0, <2>1, OneRow
<1>4. CASE c \in raced'
  <2>1. Promise!Lose(c) \/ UNCHANGED Seen
    BY <1>0, <1>1, <1>3, <1>4, RowIsLost
  <2> QED
    BY <1>0, <2>1
<1>5. CASE c \notin raced'
  <2>1. c \notin raced
    BY <1>1, <1>5
  <2>2. /\ Text'[c] = v /\ Record'[c] = <<>> /\ Given'[c] = {v} /\ Record[c] = <<>> /\ Given[c] = {}
        /\ Status[c] = "absent" /\ Status'[c] = "live"
    BY <1>0, <1>2, <1>5, <2>1 DEF Text, Record, Given, Kept, Status
  <2>3. Record' = Record
    BY <1>0, <1>3, <2>2 DEF Record
  <2>4. Promise!Create(c, v)
    BY <1>0, <1>1, <1>3, <2>2, <2>3, ReadsWhatIsWritten DEF Promise!Create
  <2> QED
    BY <1>0, <2>4
<1> QED
  BY <1>4, <1>5

\* A value that is written, or a row that is flagged, of a live credential; of a
\* deleted one nothing is read.
LEMMA CredentialIsWritten ==
  ASSUME StoreInv, CrossInv, CrossInv', HadInv, NEW t \in Threads,
         ValueCommit(t) \/ \E c \in Creds : Delete(t, c)
  PROVE  [\E c \in Creds : 
           \/ \E v, old \in Values : Promise!Replace(c, v, old)
           \/ Promise!Delete(c) \/ Promise!Lose(c)]_Seen
<1>1. CASE ValueCommit(t)
  <2> DEFINE c == tgt[t]
             v == made[t].val
             old == seen[t].val
  <2>0. /\ SharedOK /\ c \in Creds /\ v \in Values /\ old \in Values /\ state[c] # "absent"
        /\ made[t] \in Ciphers /\ seen[t] \in Ciphers /\ old \in had[c]
    BY <1>1, TypesSplit DEF StoreInv, HadInv, Had, Holding, Creating, Valuing, ValueCommit, Ciphers
  <2>1. /\ ct' = [ct EXCEPT ![c] = made[t]] /\ logs' = [logs EXCEPT ![c] = Append(@, seen[t])]
        /\ had' = [had EXCEPT ![c] = @ \union {v}] /\ state' = state /\ kv' = kv
        /\ raced' \in {raced, raced \union {c}}
    BY <1>1 DEF ValueCommit, NoteWrite
  <2>2. /\ ct'[c] = made[t] /\ logs'[c] = Append(logs[c], seen[t]) /\ had'[c] = had[c] \union {v}
    BY <2>0, <2>1 DEF SharedOK
  <2>3. /\ Text' = [Text EXCEPT ![c] = Text'[c]] /\ Record' = [Record EXCEPT ![c] = Record'[c]]
        /\ Given' = [Given EXCEPT ![c] = Given'[c]] /\ Status' = [Status EXCEPT ![c] = Status'[c]]
    <3>1. /\ raced' \ {c} = raced \ {c} /\ state' = [state EXCEPT ![c] = state'[c]] /\ ct' = [ct EXCEPT ![c] = ct'[c]]
          /\ logs' = [logs EXCEPT ![c] = logs'[c]] /\ had' = [had EXCEPT ![c] = had'[c]]
      BY <2>0, <2>1, <2>2 DEF SharedOK
    <3> QED
      BY <2>0, <3>1, OneRow
  <2>6. CASE c \in raced'
    <3>1. Promise!Lose(c) \/ UNCHANGED Seen
      BY <2>0, <2>1, <2>3, <2>6, RowIsLost
    <3> QED
      BY <2>0, <3>1
  <2>4. CASE state[c] = "live" /\ c \notin raced'
    <3>0. c \notin raced
      BY <2>1, <2>4
    <3>1. Text'[c] = v /\ Given'[c] = Given[c] \union {v} /\ old \in Given[c]
          /\ Status[c] = "live" /\ Status'[c] = "live"
      BY <2>0, <2>1, <2>2, <2>4, <3>0 DEF Text, Given, Kept, Status
    <3>2. Record'[c] = Append(Record[c], old)
      <4>1. /\ logs[c] \in Seq(Ciphers) /\ Len(logs'[c]) = Len(logs[c]) + 1 /\ Len(logs[c]) \in Nat
            /\ \A i \in 1..Len(logs[c]) : logs'[c][i] = logs[c][i]
            /\ logs'[c][Len(logs[c]) + 1] = seen[t]
        BY <2>0, <2>2 DEF SharedOK
      <4>2. /\ Record[c] = [i \in 1..Len(logs[c]) |-> logs[c][i].val]
            /\ Record'[c] = [i \in 1..Len(logs[c]) + 1 |-> logs'[c][i].val]
        BY <2>0, <2>1, <2>4, <3>0, <4>1 DEF Record, Kept
      <4>3. Record[c] \in Seq(Values) /\ Len(Record[c]) = Len(logs[c])
        <5>1. \A i \in 1..Len(logs[c]) : logs[c][i] \in Ciphers
          BY <4>1
        <5>2. \A i \in 1..Len(logs[c]) : logs[c][i].val \in Values
          BY <5>1 DEF Ciphers
        <5>3. Record[c] \in [1..Len(logs[c]) -> Values]
          BY <4>2, <5>2
        <5>4. Record[c] \in Seq(Values)
          BY <4>1, <5>3, TableIsSequence
        <5> QED
          BY <4>1, <4>2, <5>4
      <4>4. Append(Record[c], old) = [i \in 1..Len(logs[c]) + 1 |->
                                       IF i = Len(logs[c]) + 1 THEN old ELSE Record[c][i]]
        BY <2>0, <4>1, <4>3
      <4> QED
        BY <4>1, <4>2, <4>4
    <3>4. Status' = Status
      BY <2>0, <2>3, <3>1 DEF Status
    <3>3. Promise!Replace(c, v, old)
      BY <3>4, <2>0, <2>1, <2>3, <2>4, <3>1, <3>2, ReadsWhatIsWritten DEF Promise!Replace
    <3> QED
      BY <2>0, <3>3
  <2>5. CASE state[c] # "live" /\ c \notin raced'
    <3>1. /\ Text'[c] = Text[c] /\ Given'[c] = Given[c] /\ Record'[c] = Record[c]
          /\ Status'[c] = Status[c]
      BY <2>0, <2>1, <2>5 DEF Text, Given, Record, Kept, Status
    <3>2. Status' = Status /\ Text' = Text /\ Record' = Record /\ Given' = Given
      BY <2>0, <2>3, <3>1, Untouched
    <3>3. UNCHANGED Seen
      BY <2>1, <3>2, ReadsWhatIsWritten DEF Seen
    <3> QED
      BY <3>3
  <2> QED
    BY <2>4, <2>5, <2>6
<1>2. ASSUME NEW c \in Creds, Delete(t, c)
      PROVE  [Promise!Delete(c)]_Seen
  <2>0. SharedOK /\ state' = [state EXCEPT ![c] = "deleted"] 
        /\ UNCHANGED <<kv, ct, logs, had, raced>>
    BY <1>2, TypesSplit DEF StoreInv, Delete
  <2>1. /\ Text' = [Text EXCEPT ![c] = Text'[c]] /\ Record' = [Record EXCEPT ![c] = Record'[c]]
        /\ Given' = [Given EXCEPT ![c] = Given'[c]] /\ Status' = [Status EXCEPT ![c] = Status'[c]]
    <3>1. /\ raced' \ {c} = raced \ {c} /\ state' = [state EXCEPT ![c] = state'[c]] /\ ct' = [ct EXCEPT ![c] = ct'[c]]
          /\ logs' = [logs EXCEPT ![c] = logs'[c]] /\ had' = [had EXCEPT ![c] = had'[c]]
      BY <2>0 DEF SharedOK
    <3> QED
      BY <3>1, OneRow
  <2>2. Text'[c] = NoCipher /\ Record'[c] = <<>> /\ Given'[c] = {}
        /\ Status'[c] = IF c \in raced THEN "lost" ELSE "deleted"
    BY <2>0 DEF SharedOK, Text, Record, Given, Kept, Status
  <2>3. CASE Kept(c)
    <3>1. Status[c] = "live" /\ c \notin raced
      BY <2>3 DEF Kept, Status
    <3> QED
      BY <2>0, <2>1, <2>2, <3>1, ReadsWhatIsWritten DEF Promise!Delete
  <2>4. CASE ~Kept(c)
    <3>1. Text[c] = NoCipher /\ Record[c] = <<>> /\ Given[c] = {} /\ Status'[c] = Status[c]
      BY <1>2, <2>0, <2>2, <2>4 DEF SharedOK, Delete, Text, Record, Given, Kept, Status
    <3>2. Status' = Status /\ Text' = Text /\ Record' = Record /\ Given' = Given
      BY <2>1, <2>2, <3>1, Untouched
    <3>3. UNCHANGED Seen
      BY <2>0, <3>2, ReadsWhatIsWritten DEF Seen
    <3> QED
      BY <3>3
  <2> QED
    BY <2>3, <2>4
<1> QED
  BY <1>1, <1>2

\* A change that loads a history after another has committed may have lost it.
LEMMA LoadMayLose ==
  ASSUME StoreInv, CrossInv, CrossInv', NEW t \in Threads, NEW c \in Creds, ChangeLoad(t, c)
  PROVE  [Promise!Lose(c)]_Seen
<1>0. SharedOK /\ UNCHANGED <<kv, state, ct, logs, had>> /\ raced' \in {raced, raced \union {c}}
  BY TypesSplit DEF StoreInv, ChangeLoad
<1>1. CASE c \in raced'
  <2>1. /\ raced' \ {c} = raced \ {c} /\ state' = [state EXCEPT ![c] = state'[c]]
        /\ ct' = [ct EXCEPT ![c] = ct'[c]] /\ logs' = [logs EXCEPT ![c] = logs'[c]]
        /\ had' = [had EXCEPT ![c] = had'[c]]
    BY <1>0 DEF SharedOK
  <2>2. /\ Text' = [Text EXCEPT ![c] = Text'[c]] /\ Record' = [Record EXCEPT ![c] = Record'[c]]
        /\ Given' = [Given EXCEPT ![c] = Given'[c]] /\ Status' = [Status EXCEPT ![c] = Status'[c]]
    BY <2>1, OneRow
  <2> QED
    BY <1>0, <1>1, <2>2, RowIsLost
<1>2. CASE c \notin raced'
  <2>1. UNCHANGED dbVars
    BY <1>0, <1>2 DEF dbVars
  <2> QED
    BY <2>1, UnseenStep
<1> QED
  BY <1>1, <1>2

LEMMA PromiseStep == StoreInv /\ OwnedInv /\ CrossInv /\ HadInv /\ [Next]_vars => [Promise!Next]_Seen
<1> SUFFICES ASSUME StoreInv, OwnedInv, CrossInv, HadInv, [Next]_vars PROVE [Promise!Next]_Seen
  OBVIOUS
<1>0. CrossInv'
  BY CrossStep
<1>1. \/ UNCHANGED dbVars
      \/ \E t \in Threads : \/ InitCommit(t) \/ ChangeCommit(t) \/ CreateCommit(t)
                            \/ ValueCommit(t)
                            \/ \E c \in Creds : Delete(t, c) \/ ChangeLoad(t, c)
  BY DEF Next, Begin, Continue, Observe, Lock, InitCheck, UnlockReadParams, ChangeVerify,
     CreateInsert, UpdateRead, RollbackRead, InitInstall, UnlockReadHash,
     UnlockInstall, ChangeEnter, ChangeRead, ChangeSwap, CreateEncrypt, UpdateEncrypt,
     CreateRefused, DbBusy, Crash, vars
<1>2. CASE UNCHANGED dbVars
  BY <1>2, UnseenStep
<1>3. ASSUME NEW t \in Threads, InitCommit(t) \/ ChangeCommit(t) PROVE [Promise!Next]_Seen
  <2>1. CASE InitCommit(t) /\ kv' = kv
    BY <1>2, <2>1 DEF InitCommit, dbVars
  <2> QED
    BY <1>0, <1>3, <2>1, PasswordIsSet DEF Promise!Next
<1>4. ASSUME NEW t \in Threads, CreateCommit(t) PROVE [Promise!Next]_Seen
  <2>1. kv # NoKey
    BY <1>4 DEF StoreInv, Holding, CreateCommit
  <2> QED
    BY <1>0, <1>4, <2>1, CredentialIsCreated DEF Promise!Next
<1>5. ASSUME NEW t \in Threads, ValueCommit(t) \/ \E c \in Creds : Delete(t, c)
      PROVE  [Promise!Next]_Seen
  <2>1. kv # NoKey
    BY <1>5 DEF StoreInv, Holding, RowsOK, ValueCommit, Delete
  <2> QED
    BY <1>0, <1>5, <2>1, CredentialIsWritten DEF Promise!Next
<1>6. ASSUME NEW t \in Threads, NEW c \in Creds, ChangeLoad(t, c) PROVE [Promise!Next]_Seen
  <2>1. kv # NoKey
    BY <1>6 DEF StoreInv, Holding, ChangeLoad
  <2> QED
    BY <1>0, <1>6, <2>1, LoadMayLose DEF Promise!Next
<1> QED
  BY <1>1, <1>2, <1>3, <1>4, <1>5, <1>6

\* In whatever processes, however requests interleave, fail or crash, the holder of
\* the password reads a CredentialStore, which loses only what crosses a change.
THEOREM StoreKeepsCredentials == Spec => KeepsCredentials
<1>1. Init => Promise!Init
  BY DEF Init, Promise!Init, Status, Value, Past, Given, Kept
<1>2. StoreInv /\ OwnedInv /\ CrossInv /\ HadInv /\ [Next]_vars
        => [Promise!Next]_<<kv, Status, Value, Past, Given>>
  BY PromiseStep DEF Seen
<1> QED
  BY <1>1, <1>2, StoreInvariant, OwnedInvariant, CrossInvariant, OnlyPastValuesRecorded, PTL
     DEF Spec, KeepsCredentials, Promise!Spec

\* What the promise means for a history: it shows values the credential has had,
\* and nothing else; a rollback goes back to one of them.
PastOK == /\ Past \in [Creds -> Seq(Values)]
          /\ Given \in [Creds -> SUBSET Values]
          /\ \A c \in Creds : \A i \in 1..Len(Past[c]) : Past[c][i] \in Given[c]

THEOREM HistoriesAreTrue == KeepsCredentials => []PastOK
<1>1. Promise!Init => PastOK
  BY DEF Promise!Init, PastOK
<1>2. PastOK /\ [Promise!Next]_Seen => PastOK'
  <2> SUFFICES ASSUME PastOK, [Promise!Next]_Seen PROVE PastOK'
    OBVIOUS
  <2>1. CASE UNCHANGED <<Past, Given>>
    BY <2>1 DEF PastOK
  <2>2. ASSUME NEW c \in Creds, NEW v \in Values, Promise!Create(c, v) PROVE PastOK'
    BY <2>2 DEF PastOK, Promise!Create
  <2>3. ASSUME NEW c \in Creds, NEW v \in Values, NEW old \in Values, Promise!Replace(c, v, old)
        PROVE  PastOK'
    <3>1. /\ Past' = [Past EXCEPT ![c] = Append(@, old)] /\ old \in Given[c]
          /\ Given' = [Given EXCEPT ![c] = @ \union {v}]
      BY <2>3 DEF Promise!Replace
    <3>2. /\ Past[c] \in Seq(Values) /\ Append(Past[c], old) \in Seq(Values)
          /\ Len(Append(Past[c], old)) = Len(Past[c]) + 1
          /\ \A i \in 1..Len(Past[c]) : Append(Past[c], old)[i] = Past[c][i]
          /\ Append(Past[c], old)[Len(Past[c]) + 1] = old
      BY DEF PastOK
    <3>3. /\ Past'[c] = Append(Past[c], old) /\ Given'[c] = Given[c] \union {v}
          /\ \A d \in Creds \ {c} : Past'[d] = Past[d] /\ Given'[d] = Given[d]
      BY <3>1 DEF PastOK
    <3>4. Past' \in [Creds -> Seq(Values)] /\ Given' \in [Creds -> SUBSET Values]
      BY <3>1, <3>2 DEF PastOK
    <3>5. ASSUME NEW i \in 1..Len(Past'[c]) PROVE Past'[c][i] \in Given'[c]
      <4>1. CASE i = Len(Past[c]) + 1
        BY <3>1, <3>2, <3>3, <4>1
      <4>2. CASE i # Len(Past[c]) + 1
        <5>1. i \in 1..Len(Past[c])
          BY <3>2, <3>3, <3>5, <4>2
        <5> QED
          BY <3>2, <3>3, <5>1 DEF PastOK
      <4> QED
        BY <4>1, <4>2
    <3> QED
      BY <3>3, <3>4, <3>5 DEF PastOK
  <2>4. ASSUME NEW c \in Creds, Promise!Delete(c) PROVE PastOK'
    BY <2>4 DEF PastOK, Promise!Delete
  <2>5. ASSUME NEW c \in Creds, Promise!Lose(c) PROVE PastOK'
    BY <2>5 DEF PastOK, Promise!Lose
  <2> QED
    BY <2>1, <2>2, <2>3, <2>4, <2>5 DEF Promise!Next, Promise!SetPassword, Seen
<1> QED
  BY <1>1, <1>2, PTL DEF KeepsCredentials, Promise!Spec, Seen

--------------------------------------------------------------------------------
\* What Continue(t) has to wait for: nothing but the write section, for whoever
\* waits for the database gives up.
MayGoOn(t) ==
  pc[t] \in {"initInstall", "unlockInstall", "changeEnter", "createEncrypt", "updateEncrypt"}
    => WriterFree(t)

\* A creator has the database while it waits for the vault, a change the vault
\* while it waits for the database: still nobody waits in a circle, in whichever
\* process.  Who is held up is held up by a thread that is not.
THEOREM NobodyWaitsInACircle ==
  Spec => [](\A t \in Threads : MayGoOn(t) \/ \E u \in Threads : rwWriter[Proc(t)] = u /\ MayGoOn(u))
<1>1. StoreInv /\ OwnedInv =>
        \A t \in Threads : MayGoOn(t) \/ \E u \in Threads : rwWriter[Proc(t)] = u /\ MayGoOn(u)
  BY ProcType DEF StoreInv, TypeOK, OwnedInv, VaultOwned, MayGoOn, WriterFree, Writing
<1> QED
  BY <1>1, OwnedInvariant, StoreInvariant, PTL
================================================================================
