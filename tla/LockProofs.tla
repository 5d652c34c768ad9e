------------------------------- MODULE LockProofs -------------------------------
(* What TLAPS proves of RWLock and VaultGuard for every finite set of threads. *)
(* The lock: its counters count, the sections exclude each other, no wake-up   *)
(* is lost, and every step is a step (or a stutter) of ReadWriteAccess.  The   *)
(* vaults behind it: no encrypt/decrypt runs on a zeroed one, and no operation *)
(* leaves one installed; the guard takes only the lock's steps, so that        *)
(* LockInv holds of it too.                                                    *)
EXTENDS VaultGuard, FiniteSetTheorems, TLAPS

\* The inductive invariant: the four invariants the runs check support each
\* other (exclusion needs the exact counters, the tests read the counters).
LockInv == TypeOK /\ CountersExact /\ MutualExclusion /\ NoLostWakeup

--------------------------------------------------------------------------------
\* The threads at a place are finitely many, so counting them makes sense.
LEMMA InsideFinite ==
  ASSUME NEW place
  PROVE  /\ IsFiniteSet(Inside(place))
         /\ Cardinality(Inside(place)) \in Nat
         /\ Cardinality(Inside(place)) = 0 <=> Inside(place) = {}
<1>1. Inside(place) \in SUBSET Threads
  BY DEF Inside
<1>2. IsFiniteSet(Inside(place))
  BY <1>1, ThreadsFinite, FS_Subset
<1> QED
  BY <1>2, FS_CardinalityType, FS_EmptySet

\* notify_all moves sleepers only: who is inside, idle or testing stays there.
LEMMA WokenKeepsInside ==
  ASSUME NEW places \in [Threads -> Places]
  PROVE  /\ Woken(places) \in [Threads -> Places]
         /\ \A t \in Threads : Woken(places)[t] \notin {"readSleep", "writeSleep"}
         /\ \A t \in Threads, p \in {"reading", "writing"} :
              Woken(places)[t] = p <=> places[t] = p
BY DEF Woken, Places

\* An exit takes its own thread out and changes nobody else's section, whether
\* or not it notifies.
LEMMA ExitTakesOneOut ==
  ASSUME TypeOK, NEW t \in Threads,
         \/ at' = [at EXCEPT ![t] = "idle"]
         \/ at' = Woken([at EXCEPT ![t] = "idle"])
  PROVE  /\ at' \in [Threads -> Places]
         /\ \A p \in {"reading", "writing"} : Inside(p)' = Inside(p) \ {t}
<1> DEFINE left == [at EXCEPT ![t] = "idle"]
<1>1. left \in [Threads -> Places]
  BY DEF TypeOK, Places
<1>2. \A u \in Threads, p \in {"reading", "writing"} :
        left[u] = p <=> at[u] = p /\ u # t
  BY DEF TypeOK
<1>3. /\ at' \in [Threads -> Places]
      /\ \A u \in Threads, p \in {"reading", "writing"} : at'[u] = p <=> left[u] = p
  BY <1>1, WokenKeepsInside
<1> QED
  BY <1>2, <1>3 DEF Inside

\* When nobody writes and nobody reads, the counters are zero, and conversely.
LEMMA CountersTell ==
  ASSUME TypeOK, CountersExact
  PROVE  /\ writers > 0 <=> Inside("writing") # {}
         /\ readers > 0 <=> Inside("reading") # {}
BY InsideFinite DEF TypeOK, CountersExact

--------------------------------------------------------------------------------
LEMMA LockInit == Init => LockInv
<1> SUFFICES ASSUME Init PROVE LockInv
  OBVIOUS
<1>1. \A p \in {"reading", "writing", "readSleep", "writeSleep"} : Inside(p) = {}
  BY DEF Init, Inside
<1>2. TypeOK
  BY MaxCallsNat DEF Init, TypeOK, Places
<1>3. CountersExact
  BY <1>1, FS_EmptySet DEF Init, CountersExact
<1> QED
  BY <1>1, <1>2, <1>3 DEF LockInv, MutualExclusion, NoLostWakeup

LEMMA CallKeepsInv ==
  ASSUME LockInv, NEW t \in Threads, CallRead(t) \/ CallWrite(t)
  PROVE  LockInv'
<1> DEFINE kept == {"reading", "writing", "readSleep", "writeSleep"}
<1>1. TypeOK'
  BY MaxCallsNat DEF LockInv, TypeOK, CallRead, CallWrite, Call, Places
<1>2. \A p \in kept : Inside(p)' = Inside(p)
  BY DEF LockInv, TypeOK, CallRead, CallWrite, Call, Inside
<1>3. readers' = readers /\ writers' = writers
  BY DEF CallRead, CallWrite, Call
<1> QED
  BY <1>1, <1>2, <1>3 DEF LockInv, CountersExact, MutualExclusion, NoLostWakeup

LEMMA EnterReadKeepsInv ==
  ASSUME LockInv, NEW t \in Threads, EnterRead(t)
  PROVE  LockInv'
<1>1. CASE writers > 0
  <2>1. TypeOK'
    BY <1>1 DEF LockInv, TypeOK, EnterRead, Places
  <2>2. \A p \in {"reading", "writing", "writeSleep"} : Inside(p)' = Inside(p)
    BY <1>1 DEF LockInv, TypeOK, EnterRead, Inside
  <2>3. Inside("writing") # {}
    BY <1>1, CountersTell DEF LockInv
  <2>4. readers' = readers /\ writers' = writers
    BY <1>1 DEF EnterRead
  <2> QED
    BY <2>1, <2>2, <2>3, <2>4 DEF LockInv, CountersExact, MutualExclusion, NoLostWakeup
<1>2. CASE ~(writers > 0)
  <2>1. TypeOK'
    BY <1>2 DEF LockInv, TypeOK, EnterRead, Places
  <2>2. \A p \in {"writing", "readSleep", "writeSleep"} : Inside(p)' = Inside(p)
    BY <1>2 DEF LockInv, TypeOK, EnterRead, Inside
  <2>3. Inside("reading")' = Inside("reading") \union {t} /\ t \notin Inside("reading")
    BY <1>2 DEF LockInv, TypeOK, EnterRead, Inside
  <2>4. Inside("writing") = {}
    BY <1>2, CountersTell DEF LockInv
  <2>5. Cardinality(Inside("reading")') = Cardinality(Inside("reading")) + 1
    BY <2>3, InsideFinite, FS_AddElement
  <2>6. readers' = readers + 1 /\ writers' = writers
    BY <1>2 DEF EnterRead
  <2>7. CountersExact'
    BY <2>2, <2>5, <2>6 DEF LockInv, CountersExact
  <2> QED
    BY <2>1, <2>2, <2>3, <2>4, <2>7 DEF LockInv, MutualExclusion, NoLostWakeup
<1> QED
  BY <1>1, <1>2

LEMMA LeaveReadKeepsInv ==
  ASSUME LockInv, NEW t \in Threads, LeaveRead(t)
  PROVE  LockInv'
<1> DEFINE left == [at EXCEPT ![t] = "idle"]
<1>1. left \in [Threads -> Places]
  BY DEF LockInv, TypeOK, Places
<1>2. at' = IF readers' = 0 THEN Woken(left) ELSE left
  BY DEF LeaveRead
<1>3. /\ Inside("reading")' = Inside("reading") \ {t}
      /\ Inside("writing")' = Inside("writing")
      /\ t \in Inside("reading")
  BY <1>2, ExitTakesOneOut DEF LockInv, LeaveRead, Inside
<1>4. readers' = readers - 1 /\ writers' = writers /\ calls' = calls
  BY DEF LeaveRead
<1>5. Cardinality(Inside("reading")') = Cardinality(Inside("reading")) - 1
  BY <1>3, InsideFinite, FS_RemoveElement
<1>6. CountersExact'
  BY <1>3, <1>4, <1>5 DEF LockInv, CountersExact
<1>7. readers > 0
  BY <1>3, CountersTell DEF LockInv
<1>8. TypeOK'
  <2>1. at' \in [Threads -> Places]
    BY <1>2, ExitTakesOneOut DEF LockInv
  <2> QED
    BY <2>1, <1>4, <1>7 DEF LockInv, TypeOK
<1>9. MutualExclusion'
  BY <1>3 DEF LockInv, MutualExclusion
<1>10. NoLostWakeup'
  <2>1. CASE readers' = 0
    <3>1. Inside("readSleep")' = {} /\ Inside("writeSleep")' = {}
      BY <2>1, <1>1, <1>2, WokenKeepsInside DEF Inside
    <3> QED
      BY <3>1 DEF NoLostWakeup
  <2>2. CASE readers' # 0
    <3>1. Inside("readSleep")' = Inside("readSleep")
      BY <2>2, <1>2 DEF LockInv, TypeOK, LeaveRead, Inside
    <3>2. Inside("reading")' # {}
      BY <2>2, <1>6, <1>8, FS_EmptySet DEF CountersExact
    <3> QED
      BY <3>1, <3>2, <1>3 DEF LockInv, NoLostWakeup
  <2> QED
    BY <2>1, <2>2
<1> QED
  BY <1>6, <1>8, <1>9, <1>10 DEF LockInv

LEMMA EnterWriteKeepsInv ==
  ASSUME LockInv, NEW t \in Threads, EnterWrite(t)
  PROVE  LockInv'
<1>1. CASE writers > 0 \/ readers > 0
  <2>1. TypeOK'
    BY <1>1 DEF LockInv, TypeOK, EnterWrite, Places
  <2>2. \A p \in {"reading", "writing", "readSleep"} : Inside(p)' = Inside(p)
    BY <1>1 DEF LockInv, TypeOK, EnterWrite, Inside
  <2>3. Inside("writing") \union Inside("reading") # {}
    BY <1>1, CountersTell DEF LockInv
  <2>4. readers' = readers /\ writers' = writers
    BY <1>1 DEF EnterWrite
  <2> QED
    BY <2>1, <2>2, <2>3, <2>4 DEF LockInv, CountersExact, MutualExclusion, NoLostWakeup
<1>2. CASE ~(writers > 0 \/ readers > 0)
  <2>1. TypeOK'
    BY <1>2 DEF LockInv, TypeOK, EnterWrite, Places
  <2>2. \A p \in {"reading", "readSleep", "writeSleep"} : Inside(p)' = Inside(p)
    BY <1>2 DEF LockInv, TypeOK, EnterWrite, Inside
  <2>3. Inside("writing")' = Inside("writing") \union {t} /\ t \notin Inside("writing")
    BY <1>2 DEF LockInv, TypeOK, EnterWrite, Inside
  <2>4. Inside("writing") = {} /\ Inside("reading") = {}
    BY <1>2, CountersTell DEF LockInv
  <2>5. Cardinality(Inside("writing")') = Cardinality(Inside("writing")) + 1
    BY <2>3, InsideFinite, FS_AddElement
  <2>6. writers' = writers + 1 /\ readers' = readers
    BY <1>2 DEF EnterWrite
  <2>7. CountersExact'
    BY <2>2, <2>5, <2>6 DEF LockInv, CountersExact
  <2>8. MutualExclusion'
    BY <2>2, <2>3, <2>4 DEF MutualExclusion
  <2> QED
    BY <2>1, <2>2, <2>3, <2>4, <2>7, <2>8 DEF LockInv, NoLostWakeup
<1> QED
  BY <1>1, <1>2

LEMMA LeaveWriteKeepsInv ==
  ASSUME LockInv, NEW t \in Threads, LeaveWrite(t)
  PROVE  LockInv'
<1> DEFINE left == [at EXCEPT ![t] = "idle"]
<1>1. left \in [Threads -> Places]
  BY DEF LockInv, TypeOK, Places
<1>2. at' = Woken(left)
  BY DEF LeaveWrite
<1>3. /\ Inside("writing")' = Inside("writing") \ {t}
      /\ Inside("reading")' = Inside("reading")
      /\ t \in Inside("writing")
  BY <1>2, ExitTakesOneOut DEF LockInv, LeaveWrite, Inside
<1>4. writers' = writers - 1 /\ readers' = readers /\ calls' = calls
  BY DEF LeaveWrite
<1>5. Cardinality(Inside("writing")') = Cardinality(Inside("writing")) - 1
  BY <1>3, InsideFinite, FS_RemoveElement
<1>6. CountersExact'
  BY <1>3, <1>4, <1>5 DEF LockInv, CountersExact
<1>7. writers > 0
  BY <1>3, CountersTell DEF LockInv
<1>8. TypeOK'
  <2>1. at' \in [Threads -> Places]
    BY <1>2, ExitTakesOneOut DEF LockInv
  <2> QED
    BY <2>1, <1>4, <1>7 DEF LockInv, TypeOK
<1>9. MutualExclusion'
  BY <1>3 DEF LockInv, MutualExclusion
<1>10. Inside("readSleep")' = {} /\ Inside("writeSleep")' = {}
  BY <1>1, <1>2, WokenKeepsInside DEF Inside
<1> QED
  BY <1>6, <1>8, <1>9, <1>10 DEF LockInv, NoLostWakeup

LEMMA LockStep == LockInv /\ [Next]_lockVars => LockInv'
<1> SUFFICES ASSUME LockInv, [Next]_lockVars PROVE LockInv'
  OBVIOUS
<1>1. CASE UNCHANGED lockVars
  BY <1>1 DEF lockVars, LockInv, TypeOK, CountersExact, MutualExclusion,
              NoLostWakeup, Inside
<1>2. CASE Next
  BY <1>2, CallKeepsInv, EnterReadKeepsInv, LeaveReadKeepsInv,
     EnterWriteKeepsInv, LeaveWriteKeepsInv DEF Next, Running
<1> QED
  BY <1>1, <1>2

\* The inductive invariant holds of every behaviour of the lock.
THEOREM LockInvariant == Spec => []LockInv
BY LockInit, LockStep, PTL DEF Spec

\* _readers and _writers stay counts, and every thread stays at one of the
\* places read() and write() have.
THEOREM LockTypeCorrect == Spec => []TypeOK
BY LockInvariant, PTL DEF LockInv

\* The two counters are exactly the threads inside, whatever the order of
\* entries and exits (runtime.py:45-70).
THEOREM LockCountsExactly == Spec => []CountersExact
BY LockInvariant, PTL DEF LockInv

\* A writer is alone (runtime.py:34), for any number of threads.
THEOREM LockExcludes == Spec => []MutualExclusion
BY LockInvariant, PTL DEF LockInv

\* No thread sleeps in wait() without somebody inside who will notify it.
THEOREM LockLosesNoWakeup == Spec => []NoLostWakeup
BY LockInvariant, PTL DEF LockInv

--------------------------------------------------------------------------------
LEMMA PromiseInit == Init => Promise!Init
BY DEF Init, Promise!Init, Inside

LEMMA PromiseStep == LockInv /\ LockInv' /\ [Next]_lockVars => [Promise!Next]_Promise!vars
<1> SUFFICES ASSUME LockInv, LockInv', Next
             PROVE  [Promise!Next]_Promise!vars
  BY DEF lockVars, Promise!vars, Inside
<1>1. PICK t \in Threads : CallRead(t) \/ CallWrite(t) \/ Running(t)
  BY DEF Next
<1>2. CASE CallRead(t) \/ CallWrite(t)
  BY <1>2 DEF LockInv, TypeOK, CallRead, CallWrite, Call, Inside, Promise!vars
<1>3. CASE EnterRead(t)
  <2>1. CASE writers > 0
    BY <1>3, <2>1 DEF LockInv, TypeOK, EnterRead, Inside, Promise!vars
  <2>2. CASE ~(writers > 0)
    <3>1. /\ Inside("reading")' = Inside("reading") \union {t}
          /\ Inside("writing")' = Inside("writing")
          /\ t \notin Inside("reading")
      BY <1>3, <2>2 DEF LockInv, TypeOK, EnterRead, Inside
    <3>2. Inside("writing") = {}
      BY <2>2, CountersTell DEF LockInv
    <3> QED
      BY <3>1, <3>2 DEF Promise!Next, Promise!EnterRead
  <2> QED
    BY <2>1, <2>2
<1>4. CASE LeaveRead(t)
  <2>1. /\ Inside("reading")' = Inside("reading") \ {t}
        /\ Inside("writing")' = Inside("writing")
        /\ t \in Inside("reading")
    BY <1>4, ExitTakesOneOut DEF LockInv, LeaveRead, Inside
  <2> QED
    BY <2>1 DEF Promise!Next, Promise!LeaveRead
<1>5. CASE EnterWrite(t)
  <2>1. CASE writers > 0 \/ readers > 0
    BY <1>5, <2>1 DEF LockInv, TypeOK, EnterWrite, Inside, Promise!vars
  <2>2. CASE ~(writers > 0 \/ readers > 0)
    <3>1. /\ Inside("writing")' = Inside("writing") \union {t}
          /\ Inside("reading")' = Inside("reading")
      BY <1>5, <2>2 DEF LockInv, TypeOK, EnterWrite, Inside
    <3>2. Inside("writing") = {} /\ Inside("reading") = {}
      BY <2>2, CountersTell DEF LockInv
    <3> QED
      BY <3>1, <3>2 DEF Promise!Next, Promise!EnterWrite
  <2> QED
    BY <2>1, <2>2
<1>6. CASE LeaveWrite(t)
  <2>1. /\ Inside("writing")' = Inside("writing") \ {t}
        /\ Inside("reading")' = Inside("reading")
        /\ t \in Inside("writing")
    BY <1>6, ExitTakesOneOut DEF LockInv, LeaveWrite, Inside
  <2> QED
    BY <2>1 DEF Promise!Next, Promise!LeaveWrite
<1> QED
  BY <1>1, <1>2, <1>3, <1>4, <1>5, <1>6 DEF Running

\* _RWLock implements ReadWriteAccess: many readers or one writer.
THEOREM LockImplementsPromise == Spec => ImplementsPromise
BY PromiseInit, PromiseStep, LockInvariant, PTL DEF Spec, Promise!Spec, ImplementsPromise

--------------------------------------------------------------------------------
\* The vault objects behind the lock.
\* Jobs that hold, in ref, a vault nobody else can see yet.
Building == {"install", "change", "reencrypt", "swap", "swapping"}

\* Each job is done at its own places of the lock.
JobsInPlace ==
  \A t \in Threads :
    /\ at[t] = "idle" => job[t] = "none"
    /\ at[t] \in {"readTest", "readSleep"} => job[t] = "use"
    /\ at[t] = "reading" => job[t] \in {"use", "using"}
    /\ at[t] \in {"writeTest", "writeSleep"} => job[t] \in {"lock", "install", "change"}
    /\ at[t] = "writing" => job[t] \in Building \union {"lock", "locking"}

\* A vault under construction is intact, is not the installed one, and is in
\* one thread's hands.
FreshVaults ==
  /\ zeroed \subseteq 1..built
  /\ vault \in Objects => vault <= built
  /\ \A t \in Threads : job[t] \in Building =>
       /\ ref[t] \in 1..built
       /\ ref[t] \notin zeroed
       /\ ref[t] # vault
       /\ \A u \in Threads : job[u] \in Building /\ ref[u] = ref[t] => u = t

\* Readers run on the installed vault, writers inside find one installed.
Installed ==
  /\ \A t \in Threads : job[t] = "using" => ref[t] = vault /\ vault # NoVault
  /\ \A t \in Threads : job[t] \in {"locking", "reencrypt", "swap", "swapping"}
                          => vault # NoVault
  /\ vault \in zeroed => \E t \in Threads : job[t] \in {"locking", "swapping"}

GuardInv == LockInv /\ GuardTypeOK /\ JobsInPlace /\ FreshVaults /\ Installed

--------------------------------------------------------------------------------
\* Who is inside, as facts about single threads.
LEMMA InsideExclusive ==
  ASSUME LockInv, NEW t \in Threads, at[t] = "writing", NEW u \in Threads,
         at[u] \in {"writing", "reading"}
  PROVE  u = t
BY DEF LockInv, MutualExclusion, Inside

LEMMA GuardTakesLockSteps == GuardNext => [Next]_lockVars
BY DEF GuardNext, Proceed, Next, Running, lockVars, LockIdle, TryEnter, BeginUse, BeginLock,
       BeginInstall, BeginChange, BeginBuilding, LoadVault, FinishUse, ZeroVault, DropVault,
       InstallVault, CheckChange, ReencryptFails, ReencryptCommits, ZeroOld,
       InstallNew

\* NoVault is none of the objects built so far.
LEMMA NoVaultNotBuilt == GuardInv => NoVault \notin 1..built /\ NoVault \notin zeroed
<1> SUFFICES ASSUME GuardInv PROVE NoVault \notin 1..built /\ NoVault \notin zeroed
  OBVIOUS
<1>1. 1..built \subseteq Nat
  OBVIOUS
<1> QED
  BY <1>1, NoVaultIsNone DEF GuardInv, FreshVaults

\* Where an exit leaves the threads.
LEMMA ExitMoves ==
  ASSUME LockInv, NEW t \in Threads, LeaveRead(t) \/ LeaveWrite(t)
  PROVE  /\ at'[t] = "idle"
         /\ \A u \in Threads : u # t =>
              \/ at'[u] = at[u]
              \/ at[u] = "readSleep" /\ at'[u] = "readTest"
              \/ at[u] = "writeSleep" /\ at'[u] = "writeTest"
<1> DEFINE left == [at EXCEPT ![t] = "idle"]
<1>1. /\ left \in [Threads -> Places]
      /\ left[t] = "idle"
      /\ \A u \in Threads : u # t => left[u] = at[u]
  BY DEF LockInv, TypeOK, Places
<1>2. at' = left \/ at' = Woken(left)
  BY DEF LeaveRead, LeaveWrite
<1>3. Woken(left)[t] = "idle"
  BY <1>1 DEF Woken
<1>4. \A u \in Threads : u # t =>
        \/ Woken(left)[u] = at[u]
        \/ at[u] = "readSleep" /\ Woken(left)[u] = "readTest"
        \/ at[u] = "writeSleep" /\ Woken(left)[u] = "writeTest"
  BY <1>1 DEF Woken, Places
<1> QED
  BY <1>1, <1>2, <1>3, <1>4

--------------------------------------------------------------------------------
LEMMA GuardInitInv == GuardInit => GuardInv
<1> SUFFICES ASSUME GuardInit PROVE GuardInv
  OBVIOUS
<1>1. LockInv
  BY LockInit DEF GuardInit
<1>2. GuardTypeOK
  BY <1>1, MaxVaultsNat DEF GuardInit, GuardTypeOK, LockInv, Jobs, Objects
<1>3. JobsInPlace /\ FreshVaults /\ Installed
  BY NoVaultIsNone DEF GuardInit, Init, JobsInPlace, FreshVaults, Installed, Building, Objects
<1> QED
  BY <1>1, <1>2, <1>3 DEF GuardInv

\* Typing is kept by every action; the lock's own part comes from LockStep.
LEMMA GuardTyped ==
  ASSUME GuardInv, LockInv', [GuardNext]_vars
  PROVE  GuardTypeOK'
<1> USE DEF Goto, Point
<1>1. TypeOK' /\ GuardTypeOK
  BY DEF LockInv, GuardInv
<1>2. CASE UNCHANGED vars
  BY <1>1, <1>2 DEF vars, vaultVars, GuardTypeOK
<1>3. CASE GuardNext
  <2>1. PICK t \in Threads :
          \/ BeginUse(t) \/ BeginLock(t) \/ BeginInstall(t) \/ BeginChange(t)
          \/ TryEnter(t)
          \/ LoadVault(t) \/ FinishUse(t)
          \/ ZeroVault(t) \/ DropVault(t)
          \/ InstallVault(t)
          \/ CheckChange(t) \/ ReencryptFails(t) \/ ReencryptCommits(t)
          \/ ZeroOld(t) \/ InstallNew(t)
    BY <1>3 DEF GuardNext, Proceed
  <2>2. job' = job \/ \E step \in Jobs : job' = [job EXCEPT ![t] = step]
    BY <2>1 DEF Jobs, vaultVars, BeginUse, BeginLock, BeginInstall, BeginChange, BeginBuilding,
       TryEnter, LoadVault, FinishUse, ZeroVault, DropVault, InstallVault, CheckChange,
       ReencryptFails, ReencryptCommits, ZeroOld, InstallNew
  <2>3. \/ built' = built /\ (ref' = ref \/ \E o \in {vault, NoVault} : ref' = [ref EXCEPT ![t] = o])
        \/ built' = built + 1 /\ built < MaxVaults /\ ref' = [ref EXCEPT ![t] = built + 1]
    BY <2>1 DEF vaultVars, BeginUse, BeginLock, BeginInstall, BeginChange, BeginBuilding,
       TryEnter, LoadVault, FinishUse, ZeroVault, DropVault, InstallVault, CheckChange,
       ReencryptFails, ReencryptCommits, ZeroOld, InstallNew
  <2>4. vault' \in {vault, NoVault, ref[t]}
    BY <2>1 DEF vaultVars, BeginUse, BeginLock, BeginInstall, BeginChange, BeginBuilding,
       TryEnter, LoadVault, FinishUse, ZeroVault, DropVault, InstallVault, CheckChange,
       ReencryptFails, ReencryptCommits, ZeroOld, InstallNew
  <2>5. \/ zeroed' = zeroed
        \/ zeroed' = zeroed \union {vault} /\ vault # NoVault
        \/ zeroed' = zeroed \union {ref[t]} /\ job[t] \in Building
    BY <2>1 DEF vaultVars, BeginUse, BeginLock, BeginInstall, BeginChange, BeginBuilding,
       TryEnter, LoadVault, FinishUse, ZeroVault, DropVault, InstallVault, CheckChange,
       ReencryptFails, ReencryptCommits, ZeroOld, InstallNew, GuardInv, Installed, Building
  <2>6. built' \in 0..MaxVaults /\ ref' \in [Threads -> Objects \union {NoVault}]
    BY <1>1, <2>3, MaxVaultsNat DEF GuardTypeOK, Objects
  <2>7. job[t] \in Building => ref[t] \in Objects
    BY MaxVaultsNat DEF GuardInv, GuardTypeOK, FreshVaults, Objects
  <2>8. job' \in [Threads -> Jobs]
    BY <1>1, <2>2 DEF GuardTypeOK
  <2> QED
    BY <1>1, <2>4, <2>5, <2>6, <2>7, <2>8 DEF GuardTypeOK
<1> QED
  BY <1>2, <1>3

\* A call: one idle thread takes up a job; nothing is zeroed or replaced.
LEMMA BeginKeepsInv ==
  ASSUME GuardInv, GuardTypeOK', NEW t \in Threads,
         BeginUse(t) \/ BeginLock(t) \/ BeginInstall(t) \/ BeginChange(t)
  PROVE  JobsInPlace' /\ FreshVaults' /\ Installed'
<1> USE DEF GuardInv, GuardTypeOK, Goto, Point, Objects
<1>1. /\ at[t] = "idle"
      /\ job[t] = "none"
      /\ \E place \in {"readTest", "writeTest"} : at' = [at EXCEPT ![t] = place]
  BY DEF BeginUse, BeginLock, BeginInstall, BeginChange, BeginBuilding, CallRead,
         CallWrite, Call, JobsInPlace
<1>2. CASE BeginUse(t) \/ BeginLock(t)
  BY <1>1, <1>2 DEF BeginUse, BeginLock, CallRead, CallWrite, Call, LockInv, TypeOK,
     JobsInPlace, FreshVaults, Installed, Building
<1>3. CASE BeginInstall(t) \/ BeginChange(t)
  <2>1. /\ built' = built + 1 /\ ref' = [ref EXCEPT ![t] = built + 1]
        /\ vault' = vault /\ zeroed' = zeroed
        /\ at' = [at EXCEPT ![t] = "writeTest"]
        /\ \E step \in {"install", "change"} : job' = [job EXCEPT ![t] = step]
    BY <1>3 DEF BeginInstall, BeginChange, BeginBuilding, CallWrite, Call
  <2>2. JobsInPlace'
    BY <1>1, <2>1 DEF LockInv, TypeOK, JobsInPlace, Building
  <2>3. FreshVaults'
    BY <1>1, <2>1, MaxVaultsNat, NoVaultIsNone DEF FreshVaults, Building
  <2>4. Installed'
    BY <1>1, <2>1 DEF Installed
  <2> QED
    BY <2>2, <2>3, <2>4
<1> QED
  BY <1>2, <1>3

\* The lock's own tests move a thread along the same job.
LEMMA TryKeepsInv ==
  ASSUME GuardInv, NEW t \in Threads, TryEnter(t)
  PROVE  JobsInPlace' /\ FreshVaults' /\ Installed'
BY DEF GuardInv, LockInv, TypeOK, TryEnter, EnterRead, EnterWrite, vaultVars,
       JobsInPlace, FreshVaults, Installed, Building, Objects

LEMMA UseKeepsInv ==
  ASSUME GuardInv, NEW t \in Threads, LoadVault(t) \/ FinishUse(t)
  PROVE  JobsInPlace' /\ FreshVaults' /\ Installed'
<1> USE DEF GuardInv, GuardTypeOK, Goto, Point, Objects
<1>1. CASE LoadVault(t) /\ vault # NoVault
  BY <1>1 DEF LoadVault, LockIdle, lockVars, LockInv, TypeOK, JobsInPlace, FreshVaults,
     Installed, Building
<1>2. CASE LoadVault(t) /\ vault = NoVault
  <2>1. LeaveRead(t) /\ job' = [job EXCEPT ![t] = "none"] /\ job[t] = "use"
        /\ UNCHANGED <<vault, built, zeroed, ref>>
    BY <1>2 DEF LoadVault
  <2>2. JobsInPlace'
    BY <2>1, ExitMoves DEF JobsInPlace
  <2>3. FreshVaults' /\ Installed'
    BY <2>1 DEF FreshVaults, Installed, Building
  <2> QED
    BY <2>2, <2>3
<1>3. CASE FinishUse(t)
  <2>1. LeaveRead(t) /\ job' = [job EXCEPT ![t] = "none"] /\ job[t] = "using"
        /\ ref' = [ref EXCEPT ![t] = NoVault]
        /\ UNCHANGED <<vault, built, zeroed>>
    BY <1>3 DEF FinishUse
  <2>2. JobsInPlace'
    BY <2>1, ExitMoves DEF JobsInPlace
  <2>3. FreshVaults' /\ Installed'
    BY <2>1 DEF FreshVaults, Installed, Building
  <2> QED
    BY <2>2, <2>3
<1> QED
  BY <1>1, <1>2, <1>3

\* A writer that stays inside: at is unchanged and it alone moves.
LEMMA WriterStepKeepsInv ==
  ASSUME GuardInv, NEW t \in Threads, LockIdle,
         ZeroVault(t) \/ CheckChange(t) \/ ReencryptCommits(t) \/ ZeroOld(t)
  PROVE  JobsInPlace' /\ FreshVaults' /\ Installed'
<1> USE DEF GuardInv, GuardTypeOK, Goto, Point, Objects, LockIdle, lockVars
<1>1. at[t] = "writing" /\ at' = at
  BY DEF ZeroVault, CheckChange, ReencryptCommits, ZeroOld, JobsInPlace, Places, LockInv, TypeOK
<1>2. \A u \in Threads : job[u] # "using"
  BY <1>1, InsideExclusive DEF JobsInPlace, LockInv, TypeOK, Places, Building
<1>3. CASE ZeroVault(t)
  <2>1. \/ /\ vault # NoVault
           /\ job[t] = "lock" /\ job' = [job EXCEPT ![t] = "locking"]
           /\ zeroed' = zeroed \union {vault} /\ UNCHANGED <<vault, built, ref>>
        \/ LeaveWrite(t)
    BY <1>3 DEF ZeroVault
  <2>2. ~ LeaveWrite(t)
    BY <1>1, ExitMoves
  <2>3. JobsInPlace'
    BY <1>1, <2>1, <2>2 DEF JobsInPlace, Building
  <2>4. FreshVaults'
    <3>1. vault \in 1..built
      BY <2>1, <2>2 DEF FreshVaults
    <3>2. \A u \in Threads : job'[u] \in Building <=> job[u] \in Building
      BY <2>1, <2>2 DEF Building
    <3> QED
      BY <2>1, <2>2, <3>1, <3>2 DEF FreshVaults
  <2>5. Installed'
    BY <1>2, <2>1, <2>2 DEF Installed
  <2> QED
    BY <2>3, <2>4, <2>5
<1>4. CASE CheckChange(t)
  <2>1. ~ LeaveWrite(t)
    BY <1>1, ExitMoves
  <2>2. vault # NoVault /\ job[t] = "change" /\ job' = [job EXCEPT ![t] = "reencrypt"]
        /\ UNCHANGED <<vault, built, zeroed, ref>>
    BY <1>4, <2>1 DEF CheckChange
  <2> QED
    BY <1>1, <1>2, <2>2 DEF JobsInPlace, FreshVaults, Installed, Building
<1>5. CASE ReencryptCommits(t)
  BY <1>1, <1>2, <1>5 DEF ReencryptCommits, JobsInPlace, FreshVaults, Installed, Building
<1>6. CASE ZeroOld(t)
  BY <1>1, <1>2, <1>6 DEF ZeroOld, JobsInPlace, FreshVaults, Installed, Building
<1> QED
  BY <1>3, <1>4, <1>5, <1>6

\* A writer that leaves.
LEMMA WriterExitKeepsInv ==
  ASSUME GuardInv, NEW t \in Threads, LeaveWrite(t),
         \/ ZeroVault(t) \/ DropVault(t) \/ InstallVault(t)
         \/ CheckChange(t) \/ ReencryptFails(t) \/ InstallNew(t)
  PROVE  JobsInPlace' /\ FreshVaults' /\ Installed'
<1> USE DEF GuardInv, GuardTypeOK, Goto, Point, Objects
<1>1. at[t] = "writing" /\ job' = [job EXCEPT ![t] = "none"] /\ built' = built
  <2>1. at[t] = "writing"
    BY DEF LeaveWrite
  <2>2. at'[t] # at[t]
    BY <2>1, ExitMoves
  <2> QED
    BY <2>1, <2>2 DEF ZeroVault, DropVault, InstallVault, CheckChange, ReencryptFails,
       InstallNew, LockIdle, lockVars
<1>2. \A u \in Threads : u # t => job[u] \notin
        {"using", "locking", "reencrypt", "swap", "swapping"}
  BY <1>1, InsideExclusive DEF JobsInPlace, LockInv, TypeOK, Places, Building
<1>3. JobsInPlace'
  BY <1>1, ExitMoves DEF JobsInPlace, Building
<1>4. \/ /\ job[t] = "lock" /\ vault = NoVault /\ UNCHANGED <<vault, zeroed, ref>>
      \/ /\ job[t] = "locking" /\ vault' = NoVault /\ UNCHANGED <<zeroed, ref>>
      \/ /\ job[t] \in {"install", "swapping"} /\ vault' = ref[t] /\ zeroed' = zeroed
         /\ ref' = [ref EXCEPT ![t] = NoVault]
      \/ /\ job[t] \in {"change", "reencrypt"} /\ vault' = vault
         /\ zeroed' = zeroed \union {ref[t]}
         /\ ref' = [ref EXCEPT ![t] = NoVault]
  <2>1. at'[t] # at[t]
    BY <1>1, ExitMoves
  <2> QED
    BY <1>1, <2>1 DEF ZeroVault, DropVault, InstallVault, CheckChange, ReencryptFails,
       InstallNew, LockIdle, lockVars
<1>5. FreshVaults'
  <2>1. \A u \in Threads : job'[u] \in Building =>
          u # t /\ job[u] \in Building /\ ref'[u] = ref[u]
    BY <1>1, <1>4 DEF Building
  <2>2. job[t] \in Building => ref[t] \in 1..built
    BY DEF FreshVaults
  <2>3. zeroed' \subseteq 1..built' /\ (vault' \in Objects => vault' <= built')
    <3>1. NoVault \notin Objects
      BY NoVaultIsNone, MaxVaultsNat
    <3>2. zeroed' \subseteq 1..built
      BY <1>4, <2>2 DEF FreshVaults, Building
    <3>3. vault' \in Objects => vault' <= built
      BY <1>4, <2>2, <3>1 DEF FreshVaults, Building
    <3> QED
      BY <1>1, <3>2, <3>3
  <2>4. \A u \in Threads : job'[u] \in Building =>
          ref[u] \in 1..built /\ ref[u] \notin zeroed' /\ ref[u] # vault'
    BY <1>4, <2>1, NoVaultNotBuilt DEF FreshVaults, Building
  <2> QED
    BY <1>1, <2>1, <2>3, <2>4 DEF FreshVaults
<1>6. Installed'
  <2>1. \A u \in Threads : job'[u] \notin
          {"using", "locking", "reencrypt", "swap", "swapping"}
    BY <1>1, <1>2
  <2>2. vault' \notin zeroed'
    <3>1. vault \in zeroed => job[t] \in {"locking", "swapping"}
      BY <1>2 DEF Installed
    <3> QED
      BY <1>4, <3>1, NoVaultNotBuilt DEF FreshVaults, Building
  <2> QED
    BY <2>1, <2>2 DEF Installed
<1> QED
  BY <1>3, <1>5, <1>6

LEMMA GuardStep == GuardInv /\ [GuardNext]_vars => GuardInv'
<1> SUFFICES ASSUME GuardInv, [GuardNext]_vars PROVE GuardInv'
  OBVIOUS
<1>1. LockInv'
  BY LockStep, GuardTakesLockSteps DEF GuardInv, vars
<1>2. GuardTypeOK'
  BY <1>1, GuardTyped
<1>3. CASE UNCHANGED vars
  BY <1>1, <1>2, <1>3 DEF GuardInv, vars, vaultVars, lockVars, JobsInPlace, FreshVaults,
                          Installed
<1>4. CASE GuardNext
  <2>1. PICK t \in Threads :
          \/ BeginUse(t) \/ BeginLock(t) \/ BeginInstall(t) \/ BeginChange(t)
          \/ TryEnter(t)
          \/ LoadVault(t) \/ FinishUse(t)
          \/ ZeroVault(t) \/ DropVault(t)
          \/ InstallVault(t)
          \/ CheckChange(t) \/ ReencryptFails(t) \/ ReencryptCommits(t)
          \/ ZeroOld(t) \/ InstallNew(t)
    BY <1>4 DEF GuardNext, Proceed
  <2>2. CASE ZeroVault(t) \/ CheckChange(t)
    <3>1. LockIdle \/ LeaveWrite(t)
      BY <2>2 DEF ZeroVault, CheckChange
    <3> QED
      BY <2>2, <3>1, WriterStepKeepsInv, WriterExitKeepsInv, <1>1, <1>2 DEF GuardInv
  <2>3. CASE ReencryptCommits(t) \/ ZeroOld(t)
    <3>1. LockIdle
      BY <2>3 DEF ReencryptCommits, ZeroOld
    <3> QED
      BY <2>3, <3>1, WriterStepKeepsInv, <1>1, <1>2 DEF GuardInv
  <2>4. CASE DropVault(t) \/ InstallVault(t) \/ ReencryptFails(t) \/ InstallNew(t)
    <3>1. LeaveWrite(t)
      BY <2>4 DEF DropVault, InstallVault, ReencryptFails, InstallNew
    <3> QED
      BY <2>4, <3>1, WriterExitKeepsInv, <1>1, <1>2 DEF GuardInv
  <2> QED
    BY <2>1, <2>2, <2>3, <2>4, BeginKeepsInv, TryKeepsInv, UseKeepsInv, <1>1, <1>2
       DEF GuardInv
<1> QED
  BY <1>3, <1>4

\* The inductive invariant holds of every behaviour.
THEOREM GuardInvariant == GuardSpec => []GuardInv
BY GuardInitInv, GuardStep, PTL DEF GuardSpec

\* Every variable stays in its set.
THEOREM GuardTypeCorrect == GuardSpec => []GuardTypeOK
BY GuardInvariant, PTL DEF GuardInv

\* No encrypt or decrypt runs on a vault that has been overwritten with zeros.
THEOREM NeverUsesZeroedVault == GuardSpec => []NoUseOfZeroedVault
<1>1. GuardInv => NoUseOfZeroedVault
  <2> SUFFICES ASSUME GuardInv, NEW t \in Threads, job[t] = "using", ref[t] \in zeroed
               PROVE  FALSE
    BY DEF NoUseOfZeroedVault
  <2>1. PICK u \in Threads : job[u] \in {"locking", "swapping"}
    BY DEF GuardInv, Installed
  <2>2. at[u] = "writing" /\ at[t] = "reading"
    BY <2>1 DEF GuardInv, LockInv, TypeOK, Places, JobsInPlace, Building
  <2> QED
    BY <2>1, <2>2, InsideExclusive DEF GuardInv
<1> QED
  BY <1>1, GuardInvariant, PTL

\* While no writer is inside, the installed vault is intact.
THEOREM VaultStaysIntact == GuardSpec => []InstalledVaultIntact
<1>1. GuardInv => InstalledVaultIntact
  BY DEF GuardInv, LockInv, TypeOK, Places, JobsInPlace, Installed, InstalledVaultIntact,
         Inside, Building
<1> QED
  BY <1>1, GuardInvariant, PTL

\* A change re-encrypts from an installed, intact vault.
THEOREM ChangeReadsIntactVault == GuardSpec => []ReencryptsFromIntactVault
<1>1. GuardInv => ReencryptsFromIntactVault
  <2> SUFFICES ASSUME GuardInv, NEW t \in Threads, job[t] \in {"reencrypt", "swap"}
               PROVE  vault # NoVault /\ vault \notin zeroed
    BY DEF ReencryptsFromIntactVault
  <2>1. vault # NoVault
    BY DEF GuardInv, Installed
  <2>2. ASSUME vault \in zeroed PROVE FALSE
    <3>1. PICK u \in Threads : job[u] \in {"locking", "swapping"}
      BY <2>2 DEF GuardInv, Installed
    <3>2. at[u] = "writing" /\ at[t] = "writing"
      BY <3>1 DEF GuardInv, LockInv, TypeOK, Places, JobsInPlace, Building
    <3> QED
      BY <3>1, <3>2, InsideExclusive DEF GuardInv
  <2> QED
    BY <2>1, <2>2
<1> QED
  BY <1>1, GuardInvariant, PTL
================================================================================
