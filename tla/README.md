# Verification of keyHub

keyHub keeps credentials encrypted under a master key, serves them over an HTTP
API, and proxies calls to LLM providers over a pool of stored API keys. This
directory holds TLA+ models of the parts whose correctness depends on the order
of events, the TLC runs that check them on small instances, and proofs that
TLAPS checks for every value of the constants.

All paths are relative to the repository. `runtime.py` is
`src/keyhub/runtime.py`, `proxy.py` is `src/keyhub/llm/proxy.py`, and so on.

    tlc -workers 2 -config MCProxy.cfg MCProxy     # one run
    tlapm ProxyProofs.tla                          # one proof module

## 1. Inventory

| part | state | operations | what makes it correct |
|---|---|---|---|
| read/write lock (`runtime.py:26-70`) | reader and writer counts, one condition variable | `read()`, `write()` | writers alone, no lost wakeup, everybody gets in |
| vault objects (`runtime.py`, `crypto.py:165`) | the object in `_vault`, its key bytes | encrypt, decrypt, unlock, lock, change | nobody computes with zeroed key bytes |
| master key and store (`runtime.py`, `store.py`, `db.py`) | KVStore rows, ciphertexts, rotation history, the vault of each process | initialize, unlock, lock, change, create, update, rollback, delete | a stored ciphertext opens with the stored password, unless its own write crossed a password change |
| sessions (`auth.py`, `api/auth.py`) | session epoch in the database, cookies at the clients | unlock, request, lock, change | a revoked session stays dead unless bumps overlap, a fresh one works |
| idle checker (`auto_lock.py`) | time of last activity | touch, a loop every ten seconds | idle vaults are locked, busy ones are not |
| balancer (`llm/balancer.py`, `api/llm.py`) | key rows; failure counts, breakers, probes, in-flight counts in memory | pick, pick_cross_provider, three marks, release, cleanup, status, test | no slot leaks, a broken key heals, a limited key returns |
| proxy (`llm/proxy.py`, `api/v1.py`) | the semaphore, the locals of each request | chat, chat_stream, embeddings | what a request takes it gives back on every path; a key goes only to its provider |
| per-key limiter, tracker (`llm/keylimit.py`, `llm/tracker.py`) | two windows per key, the cost in its row | check, record, record_usage | no window sees more than its limit, a budget ends |
| login and token limiters (`ratelimit.py`, `auth.py`) | attempts and locks per address, a window per token | is_locked, failure, success, check | a lock begins and ends, a token's end is one |
| backup (`backup.py`, `api/credentials.py`) | a list of values, a copy of the database file, SQLite's log | export, import (CLI and API), encrypted export and restore | an import that fails leaves what was there |
| audit and live stream (`audit.py`, `api/events.py`) | log rows, subscribers, their queues, callbacks of the event loop | record, broadcast, subscribe, unsubscribe, cleanup | nobody sees more than the log, a subscriber sees all that its own process records |
| rotation and notifications (`rotation.py`, `notify.py`) | the list of reminders, a deduplication window, sending threads | check_once, the loop, notify, retry | whoever is due is told about |
| aliases, cache, latency, price table (`llm/*`) | tables in memory | get, set, resolve | |
| wiring, CLI, importers, config, metrics, web | settings, files | | |

How they interact: every request runs in a thread of a server process (several
with gunicorn, another for the CLI), all on one SQLite database. Threads share
the `Runtime`, the `KeyBalancer` and the semaphore of their process; processes
share only the database: a vault, a balancer, the subscribers of the live stream
and the limiters are each process's own. `session_scope` (`db.py:76-88`) is one
transaction, and pysqlite opens it at the first write, so a SELECT before it sees
an older state.
`store.py` calls `Runtime.encrypt/decrypt` inside its transactions; `lock()` and
`change_master_password()` call back into `auth.bump_session_epoch` after they
have left the lock; the proxy calls the limiter of the key, the balancer, the
store and the tracker; every handler calls `audit.record`, which hands the entry
to the event loop from the thread it runs in.

What is hard: a password change against everything that encrypts; the two locks
(SQLite's and the runtime's) taken in both orders; read-then-write of the epoch;
balancer state split between memory and rows, updated one after the other; the
many exits of the proxy's loops; restarts that forget memory and keep rows;
transactions that fail and exceptions that are swallowed; clocks and rows that
are read before the lock they are used under; imports that are several
transactions; a file that is truncated before it is written. `PROJECT.json`
lists each as a hazard at its line.

## 2. Modules

| module | models | remarks |
|---|---|---|
| `ReadWriteAccess` | the promise of `_RWLock` (`runtime.py:34-38`) | an abstract specification |
| `RWLock` | `_RWLock` | one step per critical section of the condition; `wait` is a sleep ended only by `notify_all` |
| `VaultGuard` | extends `RWLock` with the jobs done inside it and the vault objects | `ref` is the object a thread has in its hands, `zeroed` those overwritten |
| `CredentialStore` | what the store promises to the holder of the master password | an abstract specification |
| `KeyStore` | runtime and store on one database | the lock is taken as what `ReadWriteAccess` promises |
| `Sessions` | epoch, cookies, revocations, idle checker | the vault is only locked or unlocked |
| `Balancer` | `KeyBalancer` and the two console handlers | memory half and row half of each operation are steps of their own |
| `Proxy` | `chat`, `chat_stream` and `embeddings` | the balancer is any pick in scope or a refusal |
| `Throttle` | what a limit of so many requests per window promises | an abstract specification; the requests let in are numbered |
| `Admission` | login limiter, token limiter, limits and budget of a key | three machines that share no state; a behaviour follows one, `subject` |
| `Backup` | exports, imports, whole-file backup and restore among other sessions | SQLite's file and its log are two variables |
| `LiveEvents` | `audit.record`, the broadcaster, the event loop, the streams | |
| `Reminders` | rotation checker, its API, the notifier's window and threads | |
| `Feeds` | composes `LiveEvents` and `Reminders` | they share no state; a behaviour follows one, `feed` |
| `LockProofs`, `KeyStoreProofs`, `SessionsProofs`, `BalancerProofs`, `ProxyProofs`, `AdmissionProofs`, `BackupProofs`, `FeedsProofs` | the proofs | each extends its module and TLAPS |
| `MC*` | instances for TLC | |

The `map` of `PROJECT.json` gives for each definition the lines it stands for.
Definitions called "fault variants" are not part of any specification: each is an
operation with a plausible bug in it, kept to show that a property notices.

### State and actions against the code

**RWLock / VaultGuard.** `at[t]` is the position of a thread in `read()` or
`write()`, `job[t]` what it does inside. `LoadVault` is the `vault` property
(`runtime.py:310-314`), `FinishUse` the end of AES-GCM on that same object.
`BeginChange` builds the new vault before it asks for the lock, as the code
derives the key outside it; `CheckChange` is the second look at `_vault`
(`runtime.py:249`). `ZeroVault`/`DropVault` and `ZeroOld`/`InstallNew` are the two
assignments of `lock()` and of the swap. Key bytes, AES and Argon2 are left out.

**KeyStore.** A key is a password and a salt number; a ciphertext is a key and a
value. Reading, encrypting and committing are three steps because they are three
critical regions in the code. `dbWriter` is SQLite's write lock, held by
`create_credential` from its flush to its commit; `DbBusy` is `busy_timeout`.
A password change reads the rows (`ChangeRead`), loads the history of one
credential at a time (`ChangeLoad`, as the ORM does) and writes what it has made
of them (`ChangeCommit`). `Crash(p)` loses the memory and the open transactions
of a process. `had` is history: the values a credential has been given. So are
`overtaken` (the threads that still carry what they took before another's change
committed), `behind` (the processes whose vault is older than another's change)
and `raced` (the credentials written by such a thread, or while a change stood
between its read and its commit); they guard nothing. `Status`, `Value`, `Past`
and `Given` map the rows to `CredentialStore`: what the stored key decrypts.

**Sessions.** `BumpRead`/`BumpWrite` are the SELECT and the UPDATE of
`bump_session_epoch`; `BumpFails` is its exception, which `lock()` swallows.
Revocations of several threads overlap as they like; two that find no row at all
conflict in their INSERT, and the second fails. `Expire` is the cookie's
`max_age`. `before`, `dead`, `fresh`, `low` (the lowest epoch that was written
over a newer one) and `quietFor` are history variables: they record and guard
nothing.

**Balancer.** `Record` is the first half of a mark (memory), `Write` or
`WriteFails` the second (row and `finally: release`). A pick is `Sweep`, `Heal`
or `HealFails`, `Look`, `Query`, `Take`. The clock is read once per pick, and
`lag` says how old that reading is when the breakers are looked at. Timers count
down; `cool` says only whether `cooldown_until` is set, because it is compared
for active rows alone, and whether it is over is left open (`over`). All five
strategies choose among the keys of the highest priority, half-open ones first:
`Favoured` allows any of them. `allowed_models` is left out. `Take` is two
sections of the lock in one step, the probe's mark and the count.

**Proxy.** `at[r]` is the place in the loop body. `holds[r]` counts permits taken
minus permits released by that request (for a stream `holds[r] > 0` is
`sem_held`), `key[r]` the key whose slot it has to give back. `Broken` is an
exception nobody expects: `chat` has no handler for it, the last handler of
`chat_stream` marks and retries. `lastWord` is the `yield` inside an except
handler. `Legacy` keys are ciphertexts without a bound identity (format v0). The
model assumes `KEYHUB_LLM_MAX_CONCURRENT > 0`; with 0 there is no semaphore.
An unexpected exception at the upstream is a disjunct of `UpstreamFails`, one
while the request is built ends like a failed decryption.
`Embed...` are the steps of the embeddings handler (`api/v1.py`), which picks
from the same balancer, takes no permit and marks or releases its key once.  The
response cache in front of `chat` and request formats are left out.

**Admission.** `at[t]` is where a request is: `judging` between `is_locked` and
`record_failure`/`record_success`; `stamp` before it reads the clock and `take`
before it gets the lock of a window; `gate` with the copy of the key's row in its
hands (`price`); `record` and `usage` after the upstream's answer. `ReadClock`
and `TakeToken`/`TakeKey` are two steps because `now` is read before the lock
(`ratelimit.py`, `keylimit.py`), so stamps enter a window out of order, and
`DropWhile` is `_prune`, which stops at the first stamp that is young enough.
`Lag` bounds how long a thread stands between the two (nothing in the code does:
with an unbounded lag the windows promise nothing), `MaxTokens` and `MaxCost`
what one request consumes. A window is a set of grants `[no, seen, time]` in the
order `no` of their entry, and `last` is the latest number; the code's sequence
of stamps is `seen` in that order, and `time` is when the request really entered.
`granted` and `late` are history. Both limits of a
key are switched on; a limit of 0 switches the gate off and leaves nothing to say.
That the limiter lets in what makes it raise (`keylimit.py:117`) is left out:
nothing it computes does.

**Backup.** `rows` is what a connection reads, `main` what the file alone says,
`logged` the names the log has something to say about; `busy` is another open
session, which keeps the log from being moved into the file. An import item is
`LookUp`, `DeleteRow`, `CreateRow`: three transactions (`backup.py:170-215`);
`ImportStops` is an exception, a locked vault or a kill between any two. The API's
import is one transaction for each item, and its failures are counted only.
`BeginRestore` to `CopyOld` is the copy (`shutil.copy2`), `Truncate` is
`open(..., "wb")`, `WriteNew` the write; nothing keeps other sessions out of any
of it. A session that is open when the file is truncated goes on committing to the
log and may move it into the empty file when it closes; a connection opened
afterwards finds no table, so new transactions fail. SQLite may remove the log it
finds beside an empty file (`LogRemoved`), a start makes an empty database of it
(`Restart`, `main.py:26`), and a second restore, at once or after the start,
writes over the first one's copy. `PutBack` is the operator. `raced` and `old` are
history: the names the copy does not have for certain, and the store when the
file was truncated. A file or log is a table of names here and pages in SQLite: a
copy of a file that is written meanwhile may lack any part (`raced` is then every
name), but a log of the old file applied to the new one may in truth damage more
than its own rows, about which nothing is said. An import and a restore are not
begun while the other runs: a bound. What a credential holds beside its value,
encryption and file formats are left out.

**LiveEvents.** `Record` is the transaction of `audit.record` in the process that
has the subscribers; `Snapshot` and `Schedule` are `broadcast` (the copy of the
set under its lock, and one `call_soon_threadsafe` per subscriber); `Enqueue` is
the callback in the loop; `Send` and `Disconnect` are the generator.
`RecordElsewhere` and `CleanElsewhere` are the CLI and the other workers: the same
log, another broadcaster. `subs` and `open` differ on purpose: a subscriber whose
queue is full is discarded while its stream goes on. `sent`, `ours` and `owed` are
history.

**Reminders.** `Query`, `Install`, `Remind`, `WakeUp` are one round of the
thread; `ApiQuery`, `ApiInstall` the same check from the API, which may install
an older result. `Remind` is `notify`: within the window (`muted`) it does
nothing, otherwise the window begins and a thread (`hook`) tries to send.
Which credential is due is a choice (`BecomeDue`, `Settle`); `told` is history.

## 3. Runs

| run | instance | distinct states | shows |
|---|---|---|---|
| `vault_guard` | 3 threads, 2 sections each, 3 vaults | 108 069 | lock and vault invariants, every call gets in, the refinement of `ReadWriteAccess` |
| `keystore` | 3 threads in 2 processes, 1 credential, 2 passwords, 2 values, 2 salts, 1 record | 1 339 690 (symmetry) | with any overlap: values and histories whose own write did not cross a change are readable, a vault that is not behind is the stored key, the store implements `CredentialStore` |
| `keystore_ends` | 2 threads, 1 credential, 1 value, 2 salts, 2 records | 69 804 | no handler is stuck in the two locks |
| `sessions` | 2 users, the checker, 2 cookies, epoch to 3 | 1 509 201 | with overlapping revocations: what comes back and what cannot, fresh ones work, an idle vault locks |
| `balancer` | 2 callers, 1 key, 2 providers, threshold 2, 2 ticks | 42 117 | slots, breaker and count, healing |
| `proxy` | a chat, a stream, an embeddings call, 1 permit, 2 attempts, 3 keys | 274 932 | permits, slots, concurrency, destinations, termination |
| `admission` | 3 requests, window 3, lag 1, limits of 2 and 1, budget 2, 5 seconds | 1 169 325 (symmetry) | both windows implement `Throttle`; failures, revoked tokens and budgets exceed their bound by the requests in flight at most |
| `backup` | 2 names, 1 value | 11 201 302 (symmetry) | an import loses at most one credential; a torn restore leaves a copy of what nobody was writing |
| `feeds` | 2 recorders, 3 clients for 2 streams, queues of 1, 2 entries; 2 credentials, interval 1, window 2, 3 attempts, 1 restart | 181 059 | no gap and no invented entry in a stream; whoever is due is told about |
| `keystore_lockout` | 2 threads of one process, two values | | violated: a value is lost to an overlapping change |
| `balancer_limited` | 1 caller, 2 keys | | violated: a limited key never returns |
| `proxy_decrypt` | as `proxy`, 3 attempts | | violated: a key stored by this version does not decrypt |

Four more configurations are kept for a reader to run by hand:

    tlc -config MCKeyStoreWorkers.cfg MCKeyStore    # passes: 640 562 states
    tlc -config MCSessionsOverlap.cfg MCSessions    # violated: RevokedNeverValid
    tlc -config MCSessionsEarlyLock.cfg MCSessions  # violated: LocksOnlyIdle
    tlc -config MCFeedsElsewhere.cfg MCFeeds        # violated: SeesEveryOperation

The first is `keystore` with one thread in each of two processes and a third
salt, for a second change after the first. The others show what the invariants
of the runs set apart: two revocations at a time, the checker and a fresh unlock,
an entry of another process.

### The bounds and why they are enough

* *vault_guard*: with three threads one reader leaves while another stays and a
  writer sleeps, the only case in which `notify_all` is withheld. Two sections
  each let a thread that was woken meet the lock again. Three vaults are an
  unlock, a change, and a change after it. The proofs cover every finite set.
* *keystore*: a race is between one change and one other handler, of the same
  process or of another one; the third thread is a handler that meets what they
  left. One credential is enough because every operation acts on one row or on
  all rows alike. `MaxSalt` allows an initialization and a change; a second change
  is in `MCKeyStoreWorkers`, and `MaxLogs` 2 and two credentials were run by hand.
  The proofs cover all of these.
* *sessions*: of two cookies one is issued before and one after a revocation, and
  a slot is free again when its cookie has expired. An epoch of 3 lets one bump
  write 1 over 2. `MaxEpoch` ends the model's time; `IdleLocks` allows for it. Idle
  times above `Limit + 1` make no difference and are not told apart.
* *balancer*: threshold 2 separates the first failure from the one that trips; 2
  ticks give an open, a half-open and an expired breaker. One key lets both
  callers meet on it; the invariants are proved for all keys. The second
  provider makes a pick be refused.
* *proxy*: one permit makes each leak and each surplus visible, and two attempts
  let a request meet what it left behind. The keys are a legacy one, a bound one
  and one of a provider that the table does not know. The invariants are proved
  for any of these numbers.
* *admission*: with three requests two can stand behind the one that reaches a
  limit. The window (3) is longer than the lag (1), and five seconds let it slide
  past its first stamp and a lock expire. A limit of two requests distinguishes
  "one too many" from "any"; a lock of 1, 2 and at most 3 seconds shows doubling
  and its cap.
* *backup*: of two names one can be dealt with when an import stops, and one
  written while the other is not. A copy that is out of date has a name more or
  less, which one value shows. Everything else is finite by itself.
* *feeds*: two entries overfill a queue of one; the third client is one too many.
  Of two entries one can be another process's.
  The window of deduplication is longer than the interval of the checks, as it is
  for any interval below `_DEDUP_WINDOW_SECONDS`, so that a round is swallowed.

### Fairness

Safety runs assume none, except that a run that also checks liveness uses one
specification for both.

* `vault_guard`: weak fairness of each thread inside the lock's code
  (`Proceed`). The thread is scheduled by the OS, and `with` always leaves the
  section. Nobody has to begin a call, and each thread begins finitely many: the
  lock prefers readers, so an endless stream of overlapping ones would starve a
  writer.
* `keystore_ends`: weak fairness of the rest of a handler (`Continue`); it
  includes `DbBusy`, because SQLite's `busy_timeout` ends a wait (`db.py:30-32`).
* `sessions`: the daemon wakes every ten seconds (`auto_lock.py:50-54`) and a
  handler that has begun goes on. No user has to do anything.
* `balancer`: a pick and a mark that have begun go on, and time passes.
  `BrokenKeyHeals` says "while calls keep coming" in its premise: without a pick
  nothing heals a row.
* `feeds`: the checker's thread goes on and time passes (weak fairness of `Round`
  and `Tick`); the database answers and the receiver of the webhook accepts if
  asked again and again (strong fairness of `Query` and `HookDelivers`). With a
  receiver that never answers nobody can be told.
* `proxy`: every wait of the loop has a timeout (semaphore, SQLite, httpx), so a
  request that has begun goes on. Nothing is assumed of the upstream's answer but
  that it ends: httpx's read timeout is for each chunk, and an upstream that sends
  one now and then for ever is assumed away.

### Mutants

Every property of a passing run is shown to depend on the code: with one
definition replaced by its fault variant TLC finds it violated (`mutants` in
`PROJECT.json`).

## 4. Proofs

All are safety theorems `Spec => []Inv`, action properties, or a refinement, for
every value of the constants under the named assumptions of each module (finite
sets of threads, callers or requests; positive bounds; none-values distinct from
real ones). No assumption is about a reachable state.

* **LockProofs.** The four invariants of the lock support each other, so their
  conjunction `LockInv` is inductive: exclusion needs exact counters, because
  entry tests the counters; `NoLostWakeup` needs exclusion, because the thread
  that will wake a sleeper is the one inside. Counting threads goes through
  `FiniteSetTheorems` (`ExitTakesOneOut`, `CountersTell`). From `LockInv` follow
  `LockExcludes`, `LockLosesNoWakeup` and `LockImplementsPromise`: each step of
  the lock is a step or a stutter of `ReadWriteAccess` under the mapping of
  `inRead` and `inWrite` to the threads inside. The vault objects come second:
  the guard only takes the lock's steps (`GuardTakesLockSteps`), so `LockInv` is
  reused, and `GuardInv` adds which job goes with which place, that a vault under
  construction is in one thread's hands, and that readers run on the installed
  one. It yields `NeverUsesZeroedVault`, `VaultStaysIntact` and
  `ChangeReadsIntactVault`.
* **KeyStoreProofs.** `StoreInv` (types, and who may stand where) comes first;
  everything here holds for any threads of any processes with any overlap.
  `CrossInv` is what a password change leaves of it. A thread carries a key or a
  ciphertext from one critical region to the next, and `Safe(t)` says that what it
  carries is still right when it arrives, or that the thread is known to be
  `overtaken`; a vault holds the stored key, or its process is `behind`, or its
  own change stands between commit and swap. A change commits what it has made of
  rows it read before: `CommitReencrypts` shows that they are the rows there are,
  but for credentials in `raced`, and `CommitKeepsCross` that the commit overtakes
  everyone else. So the three history variables name exactly who may be wrong, and
  the theorems say that nobody else is: `NoLockout`, `RollbacksReadable` and
  `RuntimeKeyIsStored`. The run `keystore_lockout` shows that `raced` is needed.
  `StoreKeepsCredentials` is the refinement of `CredentialStore`, by one lemma per
  commit: each writes one credential of the abstract store or loses one in a race,
  or, as the commit of a change does, replaces `master` and nothing else; every
  other step stutters. It rests on `CrossInv` and on `HadInv`
  (`OnlyPastValuesRecorded`): what an update holds to be recorded is a value the
  credential has had. Two overlapping updates may both record the value they both
  found, so `Replace` asks for a past value and not for the current one.
  `HistoriesAreTrue` says of `CredentialStore` alone what that means for a
  history. `NobodyWaitsInACircle` is the safety half of `EveryHandlerEnds`:
  whoever cannot go on waits for the thread in its write section, and that one
  can. `MayGoOn` writes out when `Continue(t)` is enabled, since the provers have
  no ENABLED; `OwnedInv` says that a thread in the section has the lock and that
  no lock is left behind.
* **SessionsProofs.** Without overlap the epoch would only grow. With it a bump
  may write back over a newer one, and `low` remembers the lowest epoch this has
  happened to. `EpochLeads`: every cookie is up to the epoch and every revoked one
  behind it, or else not below `low`. `NoneFreshYet`: while a revocation is under
  way no cookie counts as fresh, so `FreshSessionsStayValid` needs no exception
  for overlapping bumps.
* **BalancerProofs.** `BalancerInv` is types, `HoldersHaveKeys`,
  `BreakerFollowsFailures` and `BrokenKeyIsRemembered`. The breaker invariant is
  needed because a mark writes `circuit_breaker` exactly when the count has
  reached the threshold. `SlotsAreBounded` is a second induction on top: each
  step either keeps the count and no holder leaves, or one holder leaves and the
  count falls, or one comes and it rises.
* **ProxyProofs.** What a request holds of the semaphore is a function of where
  it is and whether it has fallen back (`PermitsFollow`), and provider,
  configuration and key move together for `chat` (`KeysFollow`). `MoverDecides`
  reduces a step to the one request that moves; one lemma per shape of a step
  (fail, move, leave, finish, retry, last word) serves the actions of that shape.
  On these stand two countings: `BooksBalance` (permits free plus permits held is
  the size of the semaphore, with the surplus of the fallbacks) gives
  `UpstreamBounded`; `KeyPlaces` and `SlotsCount` (the slots of a key are the
  requests that have it) give `SlotsAreReturned`.
* **AdmissionProofs.** Each bound is "what was counted, plus the requests still
  able to add to it": those `Judging` a password, those `Presented` with a token
  whose row they have read, those `Charging` a key whose budget they have passed.
  A step moves one request from the second term to the first. `BaseLock * 2^n` is
  positive by the assumption `LockAssumption`, which TLC evaluates: the provers
  know no exponentials. The windows come second. `PromiseInv` says that a thread
  between its clock and its lock has not been there for longer than `Lag`
  (`Fresh`), and that what was let in during the last `Window - Lag` seconds is
  still in the window (`StillThere`), although stamps enter out of order and
  `_prune` stops at the first young one (`WindowsKeepWhatCounts`). So the window
  the limiter counts contains the one `Throttle` counts (`KeptIsEnough`), and
  `LimitersKeepPromise` is the refinement: each step is one of `Throttle`'s or a
  stutter. `ThrottleLimits` says of `Throttle` what its steps add up to. Types of
  the token window need that `Min` of a set of numbers is in it (`Least`, from
  the well-foundedness of `<`).
* **BackupProofs.** `StoreOK` says that file and log differ only where `logged`
  says so, and `CopyFollows` that what is in the log while the copy is made is
  `raced`, so that the copy has every other name, then and when the file is
  truncated, whatever is written afterwards; `ImportOK` says that an import
  between its delete and its create has exactly one name in its hands.
* **FeedsProofs.** An entry is in one place on its way from the log to a
  subscriber, in order of the snapshot (`Shapes`, `Logged`), a new subscriber is
  owed nothing from before (`StartsEmpty`), and the entries owed are sent, queued
  or scheduled unless the subscriber was discarded or another process recorded
  them (`NoGap`; `SubscribersMissNothingOfTheirProcess`). That streams and
  queues keep within their limits is `Fits`. `RemindersInv` relates the sending thread to the window of
  deduplication, which outlives the attempts (300 seconds against three calls of
  10, as `Tick` has it), so that the single `hook` of the model stands for every
  sending thread (`OneSenderAtATime`). All are
  theorems of the composition: a step of one feed is a stutter of the other.

Every invariant, action property and refinement that a passing run checks is
also a theorem. Theorems without a run of their own are the inductive invariants,
`LockCountsExactly`, `VaultStaysIntact`, `OnlyPastValuesRecorded`,
`HistoriesAreTrue`, `NobodyWaitsInACircle`, `PermitBooks`,
`WindowsKeepWhatCounts`, `ThrottleLimits` and `OneSenderAtATime`.

Only model-checked: all liveness (`EveryCallEnters`, `EveryHandlerEnds`,
`IdleLocks`, `BrokenKeyHeals`, `EveryRequestEnds`, `EveryoneReminded`), which is
out of the prover's reach. What the three runs with a violation show is not
proved either: a counterexample is its own proof.

## 5. What the checks found

Confirmed by a run (each quotes the document it contradicts in `PROJECT.json`):

1. A create or update that overlaps a password change can store a value under a
   key nobody can derive any more (`keystore_lockout`).
2. A key that is rate limited or fails once is out of service for good, because
   only `active` rows are listed (`balancer_limited`).
3. The proxy decrypts with `LLMKey.id` what was bound to `Credential.id`
   (`proxy_decrypt`).

Shown by the configurations run by hand:

4. Two overlapping revocations can write the same epoch, or an older one over a
   newer; a session issued between them outlives a revocation that has returned
   (`MCSessionsOverlap`; `auth.py:55` against `auth.py:24-27`). `RevokedStayDead`
   says which sessions this can concern, and none where revocations do not
   overlap.
5. The idle checker can lock a vault that was unlocked a moment ago, because it
   looks at the time before it takes the lock (`MCSessionsEarlyLock`;
   `auto_lock.py:56`).
6. The live stream pushes what its own process records, and nothing of the CLI or
   of another worker (`MCFeedsElsewhere`; `audit.py:60`, `api/events.py:40`, each
   process has its own broadcaster). `README.md:56` of the repository says every
   sensitive operation is pushed, and `main.py:60-64` provides for several
   workers.

Met while modelling, without a run of their own. Most are in the models; those
marked * concern detail the models leave out.

Key store and sessions
* A password change leaves the vaults of other processes with the old key, and
  they go on encrypting under it, while `main.py:60-62` says that unlocking every
  worker at its start keeps the vaults consistent; an unlock that read its
  parameters before a change installs the old key after it. These are the
  processes in `behind`, and what they write is in `raced`.
* A row that is updated between a change's SELECT and its transaction is written
  over with the value from before: one more way into `raced`.
* `is_initialized()` caches a negative answer for the life of the process
  (`runtime.py:101-107`), so a server asked before `keyhub init` never notices it.
* `lock()` and `change_master_password()` swallow a failed epoch bump
  (`runtime.py:183-187`, `303-307`): in `Sessions`, `BumpFails` revokes nothing.
* `api/auth.py:129` says old sessions survive a password change; the bump at
  `runtime.py:302-305` ends them.

Balancer and proxy
* Two picks that saw a breaker half open both probe: the answer of
  `_claim_half_open` is not looked at (`balancer.py:225`, against line 9).
* After a restart, a failed heal or a late write, a row says `circuit_breaker`
  with no breaker in memory, and nothing ever resets it: these are the
  `forgotten` keys that `BrokenKeyIsRemembered` sets apart.
* `chat` releases its permit before it falls back and again at the end
  (`proxy.py:269`, `438`), so each fallback adds a permit: the third disjunct of
  `PermitsReturned` and the second term of `ConcurrencyBounded`.
* An unexpected exception ends `chat` with its permit and its key's slot taken;
  the client that has gone when a stream sends its last error event leaves the
  permit taken (`proxy.py:719`).
* `chat_stream` changes `current_provider` before `get_provider` raises
  (`proxy.py:527`), so its next attempt calls the home URL with a key of the
  unknown provider. `ChatKeyGoesHome` is stated for `chat`, where it holds.
* Embeddings excludes the provider of the request rather than the one its alias
  resolved to when it falls back* (`api/v1.py:237`), and passes neither limits
  nor accounting, while `api/v1.py:12` says the three endpoints share the
  proxy's key selection, accounting and retries.

Limits and budgets
* `check()` takes a place in the window for a request that goes nowhere, and
  `release_rpm_slot`, written to give it back, has no caller (`keylimit.py:142`).
* A refusal by that local window marks the key as rate limited in its row
  (`proxy.py:324`, `575`), which by finding 2 is for good.
* A failed request is charged its cost but adds no tokens to the window
  (`proxy.py:112`, `363`).
* The budget is called monthly (`models.py:150`), and nothing resets the cost it
  is compared with (`proxy.py:296`).
* The lock of a login never grows from one lock to the next, because an expired
  lock resets the count (`ratelimit.py:63-66`, against `ratelimit.py:30`). It
  grows only by failures that were already being judged when it began.

Backup
* An overwriting import drops `expires_at` and `last_rotated_at` of what it
  replaces; tags, weight, budget and history are not exported*.
* The API's JSON export has no provider, so an LLM credential cannot be imported
  from it, and it leaves out unreadable credentials without a word*; the CLI's
  export has the provider (`backup.py:96`).
* The encrypted full backup reads the database file without its write-ahead log
  (`backup.py:260`), while its docstring says the whole database
  (`backup.py:246`).
* A restore leaves the unlocked vault with the key of the old database, rewinds
  the session epoch and the revocations of tokens*, and a log that was left
  behind is applied on top of the new file.
* A restore that has died with the file truncated leaves the store in
  `keyhub.db.bak` only, and the next restore writes over that without looking:
  two in a row that die leave nothing (`OldStoreKept` ends where another restore
  begins). Other sessions are not stopped, so what they were writing while the
  copy was made may be in neither.

Events and reminders
* A subscriber discarded because its queue is full keeps its stream, which the
  limit (`api/events.py:21`) no longer counts.
* The deduplication key of a reminder does not name the credential, so the
  reminder of one silences the next one's for the length of the window.
* `notify/test` reports success also when the notification was suppressed*
  (`api/system.py:36-39`); `get_notifier` is not synchronised*.
* `start()` of the rotation checker returns when an old thread that was told to
  stop is still alive* (`rotation.py:106`).

## 6. Plan

Done: every component in section 1 whose state is shared between threads,
processes or restarts has a module, a run and proofs of all it promises but
liveness.
What would come next, in order:

1. `Admission` in the place of `TurnedAway` in `Proxy`: the composition would
   show the slot that `check()` keeps for a request that is refused afterwards.
2. The rotation history of a credential under import and restore (`Backup`
   beside `KeyStore`), as an import under an unlocked vault encrypts anew.
3. `Balancer!Take` and `Query` in the sections of the lock they really are.
4. Pure operators: longest and first prefix in the price table, rotation dates.

## 7. Not modelled

* Cryptography (AES-GCM, HKDF, Argon2) is a constructor and an equality test.
* Model aliases: a table in memory, read at start and written whole on every
  change; resolving is a lookup that nobody waits for.
* Response cache and latency statistics: each method is one atomic step under one
  lock, and nothing but the preference among good keys, which `Balancer` leaves
  open, is decided by them.
* Providers and price table, configuration and service key: static data, and one
  file written at the first start.
* Schema, column migration and the pydantic models are declarations.
  `session_scope`, the connections and the log are modelled where they matter.
* HTTP wiring, CLI, importers, metrics and logging are thin layers over modelled
  functions, parsing, or output that nothing reads back. The import and export
  handlers are in `Backup`, the threads that the lifespan starts in `Sessions`
  and `Reminders`; the CLI is a second process of `KeyStore`.
