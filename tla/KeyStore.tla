------------------------------- MODULE KeyStore -------------------------------
(* The master key and what is encrypted under it: runtime.Runtime (initialize, *)
(* unlock, lock, change_master_password) and store.py (create, update, delete, *)
(* rollback) as request threads of one or more processes on one database.      *)
(* SQLite gives each SELECT its own view (pysqlite opens a transaction only at *)
(* the first write), so a handler that reads, encrypts and then commits is     *)
(* three steps.  The read/write lock is taken here as what ReadWriteAccess     *)
(* promises: a read section is one step that no writer overlaps.               *)
EXTENDS Naturals, Sequences

CONSTANTS Procs,       \* operating-system processes: gunicorn workers, a CLI
          Threads,     \* request threads
          ProcOf,      \* the process of each thread
          Creds,       \* credential names
          Passwords,
          Values,      \* plaintexts
          NoThread, NoKey, NoCipher, NoCred,
          MaxSalt,     \* bound: Argon2 parameter sets ever drawn
          MaxLogs      \* bound: rotation records a rotation may add to

ASSUME ProcOfType  == ProcOf \in [Threads -> Procs]
ASSUME BoundsNat   == MaxSalt \in Nat /\ MaxLogs \in Nat
ASSUME NoThreadIsNone == NoThread \notin Threads

\* A master key is what Argon2 derives from a password and a salt; salts are
\* random, so a number never drawn before stands for a new one.
Keys    == [pw : Passwords, salt : Nat]
Ciphers == [key : Keys, val : Values]

ASSUME NoKeyIsNone    == NoKey \notin Keys
ASSUME NoCipherIsNone == NoCipher \notin Ciphers \union Values
ASSUME NoCredIsNone   == NoCred \notin Creds

VARIABLES kv,        \* KVStore argon2_params + master_pw_hash, or NoKey
          state,     \* of each credential row: absent, live, deleted
          ct,        \* Credential.encrypted_value
          logs,      \* RotationLog.encrypted_value, oldest first
          had,       \* history: the values a credential has had
          dbWriter,  \* who has SQLite's write lock in an open transaction
          salts,     \* how many salts have been drawn
          vault,     \* Runtime._vault of each process: its key, or NoKey
          initSeen,  \* Runtime._initialized: unknown, yes, no
          rwWriter,  \* who is inside the process' write section
          pc, tgt, seen, made, key, snap,  \* the locals of each thread
          overtaken, \* history: threads that still carry what they took from
                     \* the store or the runtime before another's change commit
          behind,    \* history: processes whose vault is from before another's
          raced      \* history: credentials written by an overtaken thread, or
                     \* between a change's read of them and its commit

dbVars    == <<kv, state, ct, logs, had, raced>>
procVars  == <<vault, initSeen, rwWriter, behind>>
localVars == <<tgt, seen, made, key, snap, overtaken>>
vars == <<dbVars, dbWriter, salts, procVars, pc, localVars>>

ChangeSteps == {"changeEnter", "changeRead", "changeCommit", "changeSwap"}
KeySteps    == {"initCommit", "initInstall", "unlockHash", "unlockInstall"}
WriteSteps  == {"createEncrypt", "createCommit", "updateEncrypt", "valueCommit"}

\* What a change has read: the live rows with their ciphertexts, and the histories
\* of those whose rotations it has loaded.
Snapshots == [rows : SUBSET Creds, todo : SUBSET Creds,
              ct : [Creds -> Ciphers \union {NoCipher}],
              logs : [Creds -> Seq(Ciphers)]]
NoRows    == [rows |-> {}, todo |-> {}, ct |-> [c \in Creds |-> NoCipher],
              logs |-> [c \in Creds |-> <<>>]]

TypeOK ==
  /\ kv \in Keys \union {NoKey}
  /\ state \in [Creds -> {"absent", "live", "deleted"}]
  /\ ct \in [Creds -> Ciphers \union {NoCipher}]
  /\ logs \in [Creds -> Seq(Ciphers)] /\ had \in [Creds -> SUBSET Values]
  /\ dbWriter \in Threads \union {NoThread}
  /\ salts \in Nat
  /\ vault \in [Procs -> Keys \union {NoKey}]
  /\ initSeen \in [Procs -> {"unknown", "yes", "no"}]
  /\ rwWriter \in [Procs -> Threads \union {NoThread}]
  /\ pc \in [Threads -> {"idle"} \union ChangeSteps \union KeySteps \union WriteSteps]
  /\ tgt \in [Threads -> Creds \union {NoCred}]
  /\ seen \in [Threads -> Ciphers \union {NoCipher}]
  /\ made \in [Threads -> Ciphers \union {NoCipher}]
  /\ key \in [Threads -> Keys \union {NoKey}]
  /\ snap \in [Threads -> Snapshots]
  /\ overtaken \subseteq Threads /\ behind \subseteq Procs /\ raced \subseteq Creds

Init ==
  /\ kv = NoKey
  /\ state = [c \in Creds |-> "absent"]
  /\ ct = [c \in Creds |-> NoCipher]
  /\ logs = [c \in Creds |-> <<>>] /\ had = [c \in Creds |-> {}]
  /\ dbWriter = NoThread
  /\ salts = 0
  /\ vault = [p \in Procs |-> NoKey]
  /\ initSeen = [p \in Procs |-> "unknown"]
  /\ rwWriter = [p \in Procs |-> NoThread]
  /\ pc = [t \in Threads |-> "idle"]
  /\ tgt = [t \in Threads |-> NoCred]
  /\ seen = [t \in Threads |-> NoCipher]
  /\ made = [t \in Threads |-> NoCipher]
  /\ key = [t \in Threads |-> NoKey]
  /\ snap = [t \in Threads |-> NoRows]
  /\ overtaken = {} /\ behind = {} /\ raced = {}

--------------------------------------------------------------------------------
Proc(t)     == ProcOf[t]
Vault(t)    == vault[Proc(t)]
WriterFree(t) == rwWriter[Proc(t)] = NoThread    \* readers and writers may enter
Goto(t, place) == pc' = [pc EXCEPT ![t] = place]

\* The handler returns or raises: its locals are gone.
Return(t) ==
  /\ Goto(t, "idle")
  /\ tgt'  = [tgt  EXCEPT ![t] = NoCred]
  /\ seen' = [seen EXCEPT ![t] = NoCipher]
  /\ made' = [made EXCEPT ![t] = NoCipher]
  /\ key'  = [key  EXCEPT ![t] = NoKey]
  /\ snap' = [snap EXCEPT ![t] = NoRows]
  /\ overtaken' = overtaken \ {t}

\* The histories.  A vault is as old as the key that goes into it, a value as the
\* vault that encrypts it; a write of c by t may cross a change in two ways.
Install(t, k) ==
  /\ vault' = [vault EXCEPT ![Proc(t)] = k]
  /\ behind' = IF t \in overtaken THEN behind \union {Proc(t)} ELSE behind \ {Proc(t)}
NoteEncryption(t) ==
  overtaken' = IF Proc(t) \in behind THEN overtaken \union {t} ELSE overtaken
Crosses(t)      == t \in overtaken \/ \E u \in Threads : pc[u] = "changeCommit"
NoteWrite(t, c) == raced' = IF Crosses(t) THEN raced \union {c} ELSE raced
OvertakeOthers(t) ==
  /\ overtaken' = {u \in Threads \ {t} : pc[u] # "idle"}
  /\ behind' = behind \union {p \in Procs \ {Proc(t)} : vault[p] # NoKey}

\* is_initialized(): the first answer is cached for the life of the process.
IsInitialized(p) ==
  IF initSeen[p] = "unknown" THEN kv # NoKey ELSE initSeen[p] = "yes"
Remember(p) ==
  initSeen' = [initSeen EXCEPT ![p] = IF IsInitialized(p) THEN "yes" ELSE "no"]

Reencrypt(c, old, new) == IF c.key = old THEN [c EXCEPT !.key = new] ELSE c

--------------------------------------------------------------------------------
\* Fault variants of the operations below.

\* An unlock that does not compare the password.
UnlockUnverified(t) ==
  /\ pc[t] = "unlockHash"
  /\ Goto(t, "unlockInstall")
  /\ UNCHANGED <<dbVars, dbWriter, salts, procVars, localVars>>

\* A change that re-encrypts the values but not their histories.
CommitWithoutHistory(t) ==
  LET s == snap[t] IN
  /\ pc[t] = "changeCommit" /\ s.todo = {}
  /\ dbWriter = NoThread
  /\ kv' = key[t]
  /\ ct' = [c \in Creds |-> IF c \in s.rows
                              THEN Reencrypt(s.ct[c], Vault(t), key[t]) ELSE ct[c]]
  /\ Goto(t, "changeSwap")
  /\ OvertakeOthers(t)
  /\ UNCHANGED <<state, logs, had, raced, dbWriter, salts, vault, initSeen,
                 rwWriter, tgt, seen, made, key, snap>>

\* A change that stores the new parameters in a transaction of its own, before
\* the one that re-encrypts.
CommitParamsOnly(t) ==
  /\ pc[t] = "changeCommit" /\ snap[t].todo = {}
  /\ dbWriter = NoThread
  /\ kv' = key[t]
  /\ Goto(t, "changeSwap")
  /\ OvertakeOthers(t)
  /\ UNCHANGED <<state, ct, logs, had, raced, dbWriter, salts, vault, initSeen,
                 rwWriter, tgt, seen, made, key, snap>>

\* A change that writes the re-encrypted history record into the value's column.
CommitHistoryAsValue(t) ==
  LET s == snap[t] IN
  /\ pc[t] = "changeCommit" /\ s.todo = {}
  /\ dbWriter = NoThread
  /\ kv' = key[t]
  /\ ct' = [c \in Creds |->
              IF c \notin s.rows THEN ct[c]
              ELSE Reencrypt(IF s.logs[c] = <<>> THEN s.ct[c] ELSE s.logs[c][1],
                             Vault(t), key[t])]
  /\ logs' = [c \in Creds |-> <<>>]
  /\ Goto(t, "changeSwap")
  /\ OvertakeOthers(t)
  /\ UNCHANGED <<state, had, raced, dbWriter, salts, vault, initSeen,
                 rwWriter, tgt, seen, made, key, snap>>

\* A busy database that is waited for without a timeout.
WaitForDb(t) == FALSE /\ UNCHANGED vars

\* An update that does not notice the vault has been locked meanwhile.
UpdateEncryptUnlocked(t, v) ==
  /\ pc[t] = "updateEncrypt"
  /\ WriterFree(t)
  /\ made' = [made EXCEPT ![t] = [key |-> Vault(t), val |-> v]]
  /\ Goto(t, "valueCommit")
  /\ NoteEncryption(t)
  /\ UNCHANGED <<dbVars, dbWriter, salts, procVars, tgt, seen, key, snap>>

--------------------------------------------------------------------------------
\* status(), the check at startup, and every request refused because this
\* process believes it is not initialized.
Observe(t) ==
  /\ pc[t] = "idle"
  /\ Remember(Proc(t))
  /\ UNCHANGED <<dbVars, dbWriter, salts, vault, rwWriter, behind, pc, localVars>>

\* initialize(): draw parameters and derive the key.
InitCheck(t, pw) ==
  /\ pc[t] = "idle"
  /\ ~IsInitialized(Proc(t))
  /\ salts < MaxSalt
  /\ Remember(Proc(t))
  /\ salts' = salts + 1
  /\ key' = [key EXCEPT ![t] = [pw |-> pw, salt |-> salts']]
  /\ Goto(t, "initCommit")
  /\ UNCHANGED <<dbVars, dbWriter, vault, rwWriter, behind, tgt, seen, made, snap,
                 overtaken>>

\* Its three rows are inserted together, or fail together on the primary key.
InitCommit(t) ==
  /\ pc[t] = "initCommit"
  /\ dbWriter = NoThread
  /\ IF kv = NoKey
       THEN kv' = key[t] /\ Goto(t, "initInstall") /\ UNCHANGED localVars
       ELSE Return(t) /\ UNCHANGED kv
  /\ UNCHANGED <<state, ct, logs, had, raced, dbWriter, salts, procVars>>

InitInstall(t) ==
  /\ pc[t] = "initInstall"
  /\ WriterFree(t)
  /\ Install(t, key[t])
  /\ initSeen' = [initSeen EXCEPT ![Proc(t)] = "yes"]
  /\ Return(t)
  /\ UNCHANGED <<dbVars, dbWriter, salts, rwWriter>>

\* unlock(): one SELECT for the parameters, another for the hash.
UnlockReadParams(t, pw) ==
  /\ pc[t] = "idle"
  /\ IsInitialized(Proc(t))
  /\ Remember(Proc(t))
  /\ key' = [key EXCEPT ![t] = [pw |-> pw, salt |-> kv.salt]]
  /\ Goto(t, "unlockHash")
  /\ UNCHANGED <<dbVars, dbWriter, salts, vault, rwWriter, behind, tgt, seen, made, snap,
                 overtaken>>

UnlockReadHash(t) ==
  /\ pc[t] = "unlockHash"
  /\ IF key[t].pw = kv.pw
       THEN Goto(t, "unlockInstall") /\ UNCHANGED localVars
       ELSE Return(t)
  /\ UNCHANGED <<dbVars, dbWriter, salts, procVars>>

UnlockInstall(t) ==
  /\ pc[t] = "unlockInstall"
  /\ WriterFree(t)
  /\ Install(t, key[t])
  /\ Return(t)
  /\ UNCHANGED <<dbVars, dbWriter, salts, initSeen, rwWriter>>

\* lock(), from the API or from the idle checker; the epoch is Sessions' part.
Lock(t) ==
  /\ pc[t] = "idle"
  /\ WriterFree(t)
  /\ vault' = [vault EXCEPT ![Proc(t)] = NoKey] /\ behind' = behind \ {Proc(t)}
  /\ UNCHANGED <<dbVars, dbWriter, salts, initSeen, rwWriter, pc, localVars>>

--------------------------------------------------------------------------------
\* change_master_password(): unlocked, old password right; derive the new key.
ChangeVerify(t, old, new) ==
  /\ pc[t] = "idle"
  /\ Vault(t) # NoKey
  /\ old = kv.pw
  /\ salts < MaxSalt
  /\ salts' = salts + 1
  /\ key' = [key EXCEPT ![t] = [pw |-> new, salt |-> salts']]
  /\ Goto(t, "changeEnter")
  /\ UNCHANGED <<dbVars, dbWriter, procVars, tgt, seen, made, snap, overtaken>>

\* The write section begins by looking whether lock() came first.
ChangeEnter(t) ==
  /\ pc[t] = "changeEnter"
  /\ WriterFree(t)
  /\ IF Vault(t) = NoKey
       THEN Return(t) /\ UNCHANGED rwWriter
       ELSE /\ rwWriter' = [rwWriter EXCEPT ![Proc(t)] = t]
            /\ Goto(t, "changeRead") /\ UNCHANGED localVars
  /\ UNCHANGED <<dbVars, dbWriter, salts, vault, initSeen, behind>>

\* SELECT the live rows and decrypt them all; one that does not decrypt raises,
\* and the write section ends with nothing written.
ChangeRead(t) ==
  LET live == {c \in Creds : state[c] = "live"} IN
  /\ pc[t] = "changeRead"
  /\ IF \A c \in live : ct[c].key = Vault(t)
       THEN /\ snap' = [snap EXCEPT ![t] = [rows |-> live, todo |-> live, ct |-> ct,
                                           logs |-> [c \in Creds |-> <<>>]]]
            /\ overtaken' = overtaken \ {t}
            /\ Goto(t, "changeCommit")
            /\ UNCHANGED <<tgt, seen, made, key, rwWriter>>
       ELSE Return(t) /\ rwWriter' = [rwWriter EXCEPT ![Proc(t)] = NoThread]
  /\ UNCHANGED <<dbVars, dbWriter, salts, vault, initSeen, behind>>

\* c.rotations is loaded when it is first touched, with a view of its own: if
\* another process has changed the password in between, its records stay as they
\* are.
Loaded(s, c) == [s EXCEPT !.todo = s.todo \ {c}, !.logs[c] = logs[c]]
ChangeLoad(t, c) ==
  /\ pc[t] = "changeCommit"
  /\ c \in snap[t].todo
  /\ snap' = [snap EXCEPT ![t] = Loaded(snap[t], c)]
  /\ raced' = IF t \in overtaken THEN raced \union {c} ELSE raced
  /\ UNCHANGED <<kv, state, ct, logs, had, dbWriter, salts, procVars, pc,
                 tgt, seen, made, key, overtaken>>

\* One transaction: every value and history record read, and the KVStore rows.
\* A history record that does not decrypt is left as it is.
ChangeCommit(t) ==
  LET s == snap[t]
      New(old) == Reencrypt(old, Vault(t), key[t])
  IN
  /\ pc[t] = "changeCommit" /\ s.todo = {}
  /\ dbWriter = NoThread
  /\ kv' = key[t]
  /\ ct' = [c \in Creds |-> IF c \in s.rows THEN New(s.ct[c]) ELSE ct[c]]
  /\ logs' = [c \in Creds |->
                [i \in 1..Len(logs[c]) |->
                   IF c \in s.rows /\ i <= Len(s.logs[c])
                     THEN New(s.logs[c][i]) ELSE logs[c][i]]]
  /\ Goto(t, "changeSwap")
  /\ OvertakeOthers(t)
  /\ UNCHANGED <<state, had, raced, dbWriter, salts, vault, initSeen, rwWriter,
                 tgt, seen, made, key, snap>>

\* After the commit: the new vault, and the write section ends.
ChangeSwap(t) ==
  /\ pc[t] = "changeSwap"
  /\ Install(t, key[t])
  /\ rwWriter' = [rwWriter EXCEPT ![Proc(t)] = NoThread]
  /\ Return(t)
  /\ UNCHANGED <<dbVars, dbWriter, salts, initSeen>>

--------------------------------------------------------------------------------
\* create_credential(): the first flush INSERTs the row and so holds SQLite's
\* write lock while encrypt() waits for the runtime's read lock.  A soft-deleted
\* row still owns its name.
CreateInsert(t, c) ==
  /\ pc[t] = "idle"
  /\ Vault(t) # NoKey
  /\ dbWriter = NoThread
  /\ state[c] = "absent"
  /\ dbWriter' = t
  /\ tgt' = [tgt EXCEPT ![t] = c]
  /\ Goto(t, "createEncrypt")
  /\ UNCHANGED <<dbVars, salts, procVars, seen, made, key, snap,
                 overtaken>>

CreateEncrypt(t, v) ==
  /\ pc[t] = "createEncrypt"
  /\ WriterFree(t)
  /\ IF Vault(t) = NoKey
       THEN Return(t) /\ dbWriter' = NoThread
       ELSE /\ made' = [made EXCEPT ![t] = [key |-> Vault(t), val |-> v]]
            /\ Goto(t, "createCommit")
            /\ NoteEncryption(t)
            /\ UNCHANGED <<dbWriter, tgt, seen, key, snap>>
  /\ UNCHANGED <<dbVars, salts, procVars>>

CreateCommit(t) ==
  /\ pc[t] = "createCommit"
  /\ state' = [state EXCEPT ![tgt[t]] = "live"]
  /\ ct' = [ct EXCEPT ![tgt[t]] = made[t]]
  /\ had' = [had EXCEPT ![tgt[t]] = @ \union {made[t].val}]
  /\ NoteWrite(t, tgt[t])
  /\ dbWriter' = NoThread
  /\ Return(t)
  /\ UNCHANGED <<kv, logs, salts, procVars>>

\* An LLM credential without a provider: raised after the encryption.
CreateRefused(t) ==
  /\ pc[t] = "createCommit"
  /\ dbWriter' = NoThread
  /\ Return(t)
  /\ UNCHANGED <<dbVars, salts, procVars>>

\* update_credential() with a value: the row is read (a deleted one too), the
\* new value encrypted, and both it and the OLD ciphertext written at commit.
UpdateRead(t, c) ==
  /\ pc[t] = "idle"
  /\ Vault(t) # NoKey
  /\ state[c] # "absent"
  /\ Len(logs[c]) < MaxLogs
  /\ tgt' = [tgt EXCEPT ![t] = c]
  /\ seen' = [seen EXCEPT ![t] = ct[c]]
  /\ Goto(t, "updateEncrypt")
  /\ UNCHANGED <<dbVars, dbWriter, salts, procVars, made, key, snap,
                 overtaken>>

UpdateEncrypt(t, v) ==
  /\ pc[t] = "updateEncrypt"
  /\ WriterFree(t)
  /\ IF Vault(t) = NoKey
       THEN Return(t)
       ELSE /\ made' = [made EXCEPT ![t] = [key |-> Vault(t), val |-> v]]
            /\ Goto(t, "valueCommit")
            /\ NoteEncryption(t)
            /\ UNCHANGED <<tgt, seen, key, snap>>
  /\ UNCHANGED <<dbVars, dbWriter, salts, procVars>>

\* rollback_credential(): the history record's ciphertext becomes the value,
\* unseen: whether it decrypts is not asked.
RollbackRead(t, c, i) ==
  /\ pc[t] = "idle"
  /\ Vault(t) # NoKey
  /\ state[c] # "absent"
  /\ i \in 1..Len(logs[c]) /\ Len(logs[c]) < MaxLogs
  /\ tgt' = [tgt EXCEPT ![t] = c]
  /\ seen' = [seen EXCEPT ![t] = ct[c]]
  /\ made' = [made EXCEPT ![t] = logs[c][i]]
  /\ Goto(t, "valueCommit")
  /\ UNCHANGED <<dbVars, dbWriter, salts, procVars, key, snap, overtaken>>

ValueCommit(t) ==
  /\ pc[t] = "valueCommit"
  /\ dbWriter = NoThread
  /\ ct' = [ct EXCEPT ![tgt[t]] = made[t]]
  /\ logs' = [logs EXCEPT ![tgt[t]] = Append(@, seen[t])]
  /\ had' = [had EXCEPT ![tgt[t]] = @ \union {made[t].val}]
  /\ NoteWrite(t, tgt[t])
  /\ Return(t)
  /\ UNCHANGED <<kv, state, dbWriter, salts, procVars>>

\* delete_credential() sets a flag; nothing is unset.
Delete(t, c) ==
  /\ pc[t] = "idle"
  /\ Vault(t) # NoKey
  /\ dbWriter = NoThread
  /\ state[c] # "absent"
  /\ state' = [state EXCEPT ![c] = "deleted"]
  /\ UNCHANGED <<kv, ct, logs, had, raced, dbWriter, salts, procVars, pc, localVars>>

\* busy_timeout: a commit that waited for another's transaction gives up.
DbBusy(t) ==
  /\ pc[t] \in {"initCommit", "valueCommit", "changeCommit"}
  /\ dbWriter # NoThread /\ snap[t].todo = {}
  /\ rwWriter' = IF pc[t] = "changeCommit"
                   THEN [rwWriter EXCEPT ![Proc(t)] = NoThread] ELSE rwWriter
  /\ Return(t)
  /\ UNCHANGED <<dbVars, dbWriter, salts, vault, initSeen, behind>>

\* A process dies and starts again: only what was committed is left.
Crash(p) ==
  LET mine == {t \in Threads : ProcOf[t] = p}
      Forget(f, none) == [t \in Threads |-> IF t \in mine THEN none ELSE f[t]]
  IN
  /\ vault' = [vault EXCEPT ![p] = NoKey]
  /\ initSeen' = [initSeen EXCEPT ![p] = "unknown"]
  /\ rwWriter' = [rwWriter EXCEPT ![p] = NoThread]
  /\ dbWriter' = IF dbWriter \in mine THEN NoThread ELSE dbWriter
  /\ pc' = Forget(pc, "idle")
  /\ tgt' = Forget(tgt, NoCred)
  /\ seen' = Forget(seen, NoCipher)
  /\ made' = Forget(made, NoCipher)
  /\ key' = Forget(key, NoKey)
  /\ snap' = Forget(snap, NoRows)
  /\ overtaken' = overtaken \ mine /\ behind' = behind \ {p}
  /\ UNCHANGED <<dbVars, salts>>

--------------------------------------------------------------------------------
Begin(t) ==
  \/ Observe(t) \/ Lock(t)
  \/ \E pw \in Passwords : InitCheck(t, pw) \/ UnlockReadParams(t, pw)
  \/ \E old, new \in Passwords : ChangeVerify(t, old, new)
  \/ \E c \in Creds : CreateInsert(t, c) \/ UpdateRead(t, c) \/ Delete(t, c)
  \/ \E c \in Creds, i \in 1..MaxLogs : RollbackRead(t, c, i)

Continue(t) ==
  \/ InitCommit(t) \/ InitInstall(t)
  \/ UnlockReadHash(t) \/ UnlockInstall(t)
  \/ ChangeEnter(t) \/ ChangeRead(t) \/ ChangeCommit(t) \/ ChangeSwap(t)
  \/ \E c \in Creds : ChangeLoad(t, c)
  \/ \E v \in Values : CreateEncrypt(t, v) \/ UpdateEncrypt(t, v)
  \/ CreateCommit(t) \/ CreateRefused(t) \/ ValueCommit(t)
  \/ DbBusy(t)

Next == \/ \E t \in Threads : Begin(t) \/ Continue(t)
        \/ \E p \in Procs : Crash(p)

\* A handler that has started goes on: its thread is scheduled.
Fairness == \A t \in Threads : WF_vars(Continue(t))

Spec     == Init /\ [][Next]_vars
FairSpec == Spec /\ Fairness

--------------------------------------------------------------------------------
\* No permanent lock-out (runtime.py:209-212): every live value is encrypted
\* under the key the stored parameters and the stored password derive.
LiveReadable ==
  \A c \in Creds : state[c] = "live" => ct[c].key = kv

\* It fails for a credential whose write crossed a change (store.py:103,201), and
\* for no other: whatever unlocks, locks, changes, writes, timeouts and crashes of
\* whichever processes interleave, another's value never depends on the race.
OthersReadable ==
  \A c \in Creds \ raced : state[c] = "live" => ct[c].key = kv

\* Nor does its history: a rollback finds a ciphertext that decrypts
\* (runtime.py:271-283), although the records are loaded one credential at a time.
HistoryReadable ==
  \A c \in Creds \ raced : state[c] = "live" =>
    \A i \in 1..Len(logs[c]) : logs[c][i].key = kv

\* An unlocked process encrypts under the stored key, unless another's change has
\* committed since its own key was read from the store (a second worker, or an
\* unlock that verified the old password and installs late), or its own change
\* stands between commit and swap, where the write lock keeps everyone out.
RuntimeHoldsStoredKey ==
  \A p \in Procs \ behind :
    vault[p] \notin {NoKey, kv} => \E t \in Threads : rwWriter[p] = t /\ pc[t] = "changeSwap"

\* What the holder of the password reads of the store is a CredentialStore: no
\* change, lock, crash or failed write is seen in it, a handler is one step.
Plain(cipher) == IF cipher.key = kv THEN cipher.val ELSE NoCipher
Kept(c)       == state[c] = "live" /\ c \notin raced

Status == [c \in Creds |-> IF c \in raced THEN "lost" ELSE state[c]]
Value == [c \in Creds |-> IF Kept(c) THEN Plain(ct[c]) ELSE NoCipher]
Past  == [c \in Creds |->
            IF Kept(c) THEN [i \in 1..Len(logs[c]) |-> Plain(logs[c][i])] ELSE <<>>]
Given == [c \in Creds |-> IF Kept(c) THEN had[c] ELSE {}]

Promise == INSTANCE CredentialStore WITH
             Nothing <- NoCipher, master <- kv, status <- Status,
             value <- Value, past <- Past, had <- Given

\* Only an update, a rollback or a deletion (store.py) alters what a credential
\* says, each in one step, and its history holds only values it has had; a change
\* of the password (runtime.py) alters nothing, and a request of the one and a
\* request of the other that cross can lose only the credential they share.
KeepsCredentials == Promise!Spec

\* Every handler ends, although a creator may hold the database while it waits
\* for the runtime lock and a change the other way round.
EveryHandlerEnds == \A t \in Threads : pc[t] # "idle" ~> pc[t] = "idle"
================================================================================
