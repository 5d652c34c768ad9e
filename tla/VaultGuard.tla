------------------------------ MODULE VaultGuard ------------------------------
(* keyhub.runtime.Runtime in one process: the CryptoVault object behind the    *)
(* read/write lock.  A vault is overwritten with zeros in place by zero()      *)
(* (crypto.py:165-167), so a thread that still holds a reference to it would   *)
(* encrypt with a key that is gone.  Threads are in encrypt/decrypt (read      *)
(* sections) or in unlock/initialize, lock and change_master_password (write   *)
(* sections); what is stored in the database is KeyStore's subject.            *)
EXTENDS RWLock

CONSTANTS MaxVaults,   \* bound: CryptoVault objects ever built
          NoVault      \* Python's None

ASSUME MaxVaultsNat  == MaxVaults \in Nat
ASSUME NoVaultIsNone == NoVault \notin Nat

VARIABLES vault,       \* Runtime._vault: the number of an object, or NoVault
          built,       \* how many CryptoVault objects exist (1..built)
          zeroed,      \* the objects whose key has been overwritten
          ref,         \* the object a thread's local variable refers to
          job          \* what each thread is doing, and how far it is

vaultVars == <<vault, built, zeroed, ref, job>>
vars == <<lockVars, vaultVars>>

Objects == 1..MaxVaults

\* "use": self.vault is still to be evaluated / "using": the method runs on ref.
Jobs == {"none", "use", "using", "lock", "locking", "install",
         "change", "reencrypt", "swap", "swapping"}

GuardTypeOK ==
  /\ TypeOK
  /\ vault \in Objects \union {NoVault}
  /\ built \in 0..MaxVaults
  /\ zeroed \subseteq Objects
  /\ ref \in [Threads -> Objects \union {NoVault}]
  /\ job \in [Threads -> Jobs]

GuardInit ==
  /\ Init
  /\ vault = NoVault
  /\ built = 0
  /\ zeroed = {}
  /\ ref = [t \in Threads |-> NoVault]
  /\ job = [t \in Threads |-> "none"]

--------------------------------------------------------------------------------
Goto(t, step)   == job' = [job EXCEPT ![t] = step]
Point(t, o)     == ref' = [ref EXCEPT ![t] = o]
LockIdle        == UNCHANGED lockVars

\* Fault variants: a use that keeps the vault it saw before it got the lock; a
\* change that does not look at _vault again.
BeginUseHoldingVault(t) == CallRead(t) /\ Goto(t, "using") /\ Point(t, vault)
                           /\ UNCHANGED <<vault, built, zeroed>>

CheckChangeSkipped(t) ==
  /\ at[t] = "writing" /\ job[t] = "change"
  /\ Goto(t, "reencrypt")
  /\ LockIdle
  /\ UNCHANGED <<vault, built, zeroed, ref>>

\* A thread asks for the lock with the job it will do inside.  unlock() and
\* initialize() have derived the key of their vault before they ask, a change
\* has built the vault itself, and looked at `unlocked` (runtime.py:216-240).
BeginUse(t)     == CallRead(t)  /\ Goto(t, "use")
                   /\ UNCHANGED <<vault, built, zeroed, ref>>
BeginLock(t)    == CallWrite(t) /\ Goto(t, "lock")
                   /\ UNCHANGED <<vault, built, zeroed, ref>>

BeginBuilding(t, step) == /\ built < MaxVaults
                          /\ CallWrite(t)
                          /\ Goto(t, step)
                          /\ built' = built + 1
                          /\ Point(t, built + 1)
                          /\ UNCHANGED <<vault, zeroed>>
BeginInstall(t) == BeginBuilding(t, "install")
BeginChange(t)  == vault # NoVault /\ BeginBuilding(t, "change")

--------------------------------------------------------------------------------
\* self.vault: raises when None, otherwise the object the method then runs on.
LoadVault(t) ==
  /\ at[t] = "reading" /\ job[t] = "use"
  /\ IF vault = NoVault
       THEN Goto(t, "none") /\ LeaveRead(t) /\ UNCHANGED ref
       ELSE Goto(t, "using") /\ Point(t, vault) /\ LockIdle
  /\ UNCHANGED <<vault, built, zeroed>>

\* AES-GCM runs on ref and the read section ends.
FinishUse(t) ==
  /\ at[t] = "reading" /\ job[t] = "using"
  /\ Goto(t, "none") /\ Point(t, NoVault)
  /\ LeaveRead(t)
  /\ UNCHANGED <<vault, built, zeroed>>

\* lock(): zero() the vault, then drop it.
ZeroVault(t) ==
  /\ at[t] = "writing" /\ job[t] = "lock"
  /\ IF vault = NoVault
       THEN Goto(t, "none") /\ LeaveWrite(t) /\ UNCHANGED zeroed
       ELSE Goto(t, "locking") /\ zeroed' = zeroed \union {vault} /\ LockIdle
  /\ UNCHANGED <<vault, built, ref>>

DropVault(t) ==
  /\ job[t] = "locking"
  /\ vault' = NoVault
  /\ Goto(t, "none")
  /\ LeaveWrite(t)
  /\ UNCHANGED <<built, zeroed, ref>>

\* unlock() and initialize() put a new object in place of whatever is there;
\* the object it replaces is not zeroed (runtime.py:172).
InstallVault(t) ==
  /\ at[t] = "writing" /\ job[t] = "install"
  /\ vault' = ref[t]
  /\ Goto(t, "none") /\ Point(t, NoVault)
  /\ LeaveWrite(t)
  /\ UNCHANGED <<built, zeroed>>

\* change_master_password inside its write section: give up when lock() came
\* first; otherwise read every ciphertext with the old vault.
CheckChange(t) ==
  /\ at[t] = "writing" /\ job[t] = "change"
  /\ IF vault = NoVault
       THEN /\ zeroed' = zeroed \union {ref[t]}
            /\ Goto(t, "none") /\ Point(t, NoVault)
            /\ LeaveWrite(t)
       ELSE Goto(t, "reencrypt") /\ LockIdle /\ UNCHANGED <<zeroed, ref>>
  /\ UNCHANGED <<vault, built>>

ReencryptFails(t) ==
  /\ job[t] = "reencrypt"
  /\ zeroed' = zeroed \union {ref[t]}
  /\ Goto(t, "none") /\ Point(t, NoVault)
  /\ LeaveWrite(t)
  /\ UNCHANGED <<vault, built>>

ReencryptCommits(t) ==
  /\ job[t] = "reencrypt"
  /\ Goto(t, "swap")
  /\ LockIdle
  /\ UNCHANGED <<vault, built, zeroed, ref>>

\* Only after the commit: zero() the old vault, then install the new one.
ZeroOld(t) ==
  /\ job[t] = "swap"
  /\ zeroed' = zeroed \union {vault}
  /\ Goto(t, "swapping")
  /\ LockIdle
  /\ UNCHANGED <<vault, built, ref>>

InstallNew(t) ==
  /\ job[t] = "swapping"
  /\ vault' = ref[t]
  /\ Goto(t, "none") /\ Point(t, NoVault)
  /\ LeaveWrite(t)
  /\ UNCHANGED <<built, zeroed>>

\* The wait loops of the lock itself.
TryEnter(t) == (EnterRead(t) \/ EnterWrite(t)) /\ UNCHANGED vaultVars

Proceed(t) == \/ TryEnter(t)
             \/ LoadVault(t) \/ FinishUse(t)
             \/ ZeroVault(t) \/ DropVault(t)
             \/ InstallVault(t)
             \/ CheckChange(t) \/ ReencryptFails(t) \/ ReencryptCommits(t)
             \/ ZeroOld(t) \/ InstallNew(t)

GuardNext == \E t \in Threads :
  \/ BeginUse(t) \/ BeginLock(t) \/ BeginInstall(t) \/ BeginChange(t)
  \/ Proceed(t)

GuardSpec == GuardInit /\ [][GuardNext]_vars

\* Every thread that has asked for the lock is scheduled until it is out again.
FairGuardSpec == GuardSpec /\ \A t \in Threads : WF_vars(Proceed(t))

--------------------------------------------------------------------------------
\* No thread is inside encrypt/decrypt on a vault that lock() or a password
\* change has overwritten with zeros (what the lock exists for,
\* runtime.py:36-37).
NoUseOfZeroedVault == \A t \in Threads : job[t] = "using" => ref[t] \notin zeroed

\* Whenever the write lock is free, the vault every request will pick up is
\* intact: no operation leaves a zeroed vault installed, on any of its exits.
InstalledVaultIntact == Inside("writing") = {} => vault \notin zeroed

\* The vault a change re-encrypts FROM is intact until its own swap, even when
\* lock() ran while the new key was being derived (runtime.py:243-245).
ReencryptsFromIntactVault ==
  \A t \in Threads : job[t] \in {"reencrypt", "swap"} =>
                       vault # NoVault /\ vault \notin zeroed
================================================================================
