-------------------------------- MODULE RWLock --------------------------------
(* keyhub.runtime._RWLock: a counting read/write lock on one threading.        *)
(* Condition.  Everything between acquiring and releasing the condition's      *)
(* mutex is one step; `wait` gives the mutex up, so the loop around it is a    *)
(* step that tests, a sleep that only notify_all ends, and the test again.     *)
EXTENDS Naturals, FiniteSets

CONSTANTS Threads,    \* the threads of one server process
          MaxCalls    \* bound: how often each thread takes the lock

ASSUME ThreadsFinite  == IsFiniteSet(Threads)
ASSUME MaxCallsNat    == MaxCalls \in Nat

VARIABLES readers,    \* _readers
          writers,    \* _writers
          at,         \* where each thread is in read() or write()
          calls       \* sections each thread has asked for so far

lockVars == <<readers, writers, at, calls>>

Places == {"idle", "readTest", "readSleep", "reading",
                   "writeTest", "writeSleep", "writing"}

TypeOK ==
  /\ readers \in Nat
  /\ writers \in Nat
  /\ at \in [Threads -> Places]
  /\ calls \in [Threads -> 0..MaxCalls]

Init ==
  /\ readers = 0
  /\ writers = 0
  /\ at = [t \in Threads |-> "idle"]
  /\ calls = [t \in Threads |-> 0]

Inside(place) == {t \in Threads : at[t] = place}

--------------------------------------------------------------------------------
\* Condition.notify_all: every sleeper goes back to the test of its own loop.
Woken(places) ==
  [t \in Threads |-> CASE places[t] = "readSleep"  -> "readTest"
                       [] places[t] = "writeSleep" -> "writeTest"
                       [] OTHER -> places[t]]

Call(t, place) ==
  /\ at[t] = "idle"
  /\ calls[t] < MaxCalls
  /\ at' = [at EXCEPT ![t] = place]
  /\ calls' = [calls EXCEPT ![t] = @ + 1]
  /\ UNCHANGED <<readers, writers>>

CallRead(t)  == Call(t, "readTest")
CallWrite(t) == Call(t, "writeTest")

\* Fault variants: a reader that does not look at the writers, a writer that
\* looks at one of the two counters, exits that forget to notify.
EnterReadUnchecked(t) ==
  /\ at[t] = "readTest"
  /\ at' = [at EXCEPT ![t] = "reading"]
  /\ readers' = readers + 1
  /\ UNCHANGED <<writers, calls>>

EnterWriteIgnoringReaders(t) ==
  /\ at[t] = "writeTest"
  /\ IF writers > 0
       THEN at' = [at EXCEPT ![t] = "writeSleep"] /\ UNCHANGED writers
       ELSE at' = [at EXCEPT ![t] = "writing"] /\ writers' = writers + 1
  /\ UNCHANGED <<readers, calls>>

LeaveReadSilently(t) ==
  /\ at[t] = "reading"
  /\ readers' = readers - 1
  /\ at' = [at EXCEPT ![t] = "idle"]
  /\ UNCHANGED <<writers, calls>>

LeaveWriteSilently(t) ==
  /\ at[t] = "writing"
  /\ writers' = writers - 1
  /\ at' = [at EXCEPT ![t] = "idle"]
  /\ UNCHANGED <<readers, calls>>

--------------------------------------------------------------------------------
\* `while self._writers > 0: wait()`, then count oneself in.
EnterRead(t) ==
  /\ at[t] = "readTest"
  /\ IF writers > 0
       THEN at' = [at EXCEPT ![t] = "readSleep"] /\ UNCHANGED readers
       ELSE at' = [at EXCEPT ![t] = "reading"] /\ readers' = readers + 1
  /\ UNCHANGED <<writers, calls>>

\* The last reader out wakes everybody; the others wake nobody.
LeaveRead(t) ==
  /\ at[t] = "reading"
  /\ readers' = readers - 1
  /\ LET left == [at EXCEPT ![t] = "idle"]
     IN  at' = IF readers' = 0 THEN Woken(left) ELSE left
  /\ UNCHANGED <<writers, calls>>

\* `while self._writers > 0 or self._readers > 0: wait()`.
EnterWrite(t) ==
  /\ at[t] = "writeTest"
  /\ IF writers > 0 \/ readers > 0
       THEN at' = [at EXCEPT ![t] = "writeSleep"] /\ UNCHANGED writers
       ELSE at' = [at EXCEPT ![t] = "writing"] /\ writers' = writers + 1
  /\ UNCHANGED <<readers, calls>>

LeaveWrite(t) ==
  /\ at[t] = "writing"
  /\ writers' = writers - 1
  /\ at' = Woken([at EXCEPT ![t] = "idle"])
  /\ UNCHANGED <<readers, calls>>

Running(t) == EnterRead(t) \/ LeaveRead(t) \/ EnterWrite(t) \/ LeaveWrite(t)

Next == \E t \in Threads : CallRead(t) \/ CallWrite(t) \/ Running(t)

Spec == Init /\ [][Next]_lockVars

--------------------------------------------------------------------------------
\* A writer is alone, and readers share the lock only with readers
\* (runtime.py:34: writes are exclusive and wait for all reads to finish).
MutualExclusion ==
  /\ \A t, u \in Inside("writing") : t = u
  /\ Inside("writing") # {} => Inside("reading") = {}

\* The two counters are exactly the threads inside: no section is counted
\* twice or left counted, whatever the order of entries and exits.
CountersExact ==
  /\ readers = Cardinality(Inside("reading"))
  /\ writers = Cardinality(Inside("writing"))

\* No lost wake-up: a thread asleep in wait() always has a thread inside whose
\* exit will call notify_all, although only the LAST reader out notifies
\* (runtime.py:56-57).
NoLostWakeup ==
  /\ Inside("readSleep")  # {} => Inside("writing") # {}
  /\ Inside("writeSleep") # {} => Inside("writing") \union Inside("reading") # {}

\* When threads are scheduled and sections end (VaultGuard's fairness), and as
\* the traffic is finite (MaxCalls), everybody who asks gets in: the lock starves
\* a writer only under an endless stream of readers.
EveryCallEnters ==
  \A t \in Threads :
    /\ at[t] = "readTest"  ~> at[t] = "reading"
    /\ at[t] = "writeTest" ~> at[t] = "writing"

\* The lock implements the promise of its docstring.
Promise == INSTANCE ReadWriteAccess WITH inRead  <- Inside("reading"),
                                         inWrite <- Inside("writing")
ImplementsPromise == Promise!Spec
================================================================================
