------------------------------- MODULE Balancer -------------------------------
(* keyhub.llm.balancer.KeyBalancer: which API key a call gets, and what its    *)
(* outcome does to the key.  A key has a row in the database (status,          *)
(* cooldown) and a circuit breaker in the memory of the process; a pick and a  *)
(* mark go through both, one after the other and under no common lock, so each *)
(* lock section and each transaction is a step.  Timers count down to zero.    *)
(* The balancing strategies differ in which of the best keys they take: any.   *)
EXTENDS Naturals, FiniteSets

CONSTANTS Callers,     \* threads that call the balancer
          Keys,
          Providers,
          ProviderOf,  \* LLMKey.provider
          Prio,        \* LLMKey.priority
          Threshold,   \* CIRCUIT_BREAKER_THRESHOLD
          CbTicks,     \* CIRCUIT_BREAKER_COOLDOWN
          NoTimer,
          NoKey

ASSUME KeyAssumption   == /\ ProviderOf \in [Keys -> Providers]
                          /\ Prio \in [Keys -> Nat]
                          /\ NoKey \notin Keys
ASSUME CallersFinite   == IsFiniteSet(Callers)
ASSUME TimerAssumption == /\ Threshold \in Nat \ {0}
                          /\ CbTicks \in Nat \ {0}
                          /\ NoTimer \notin Nat

VARIABLES status,     \* DB: LLMKey.status
          cool,       \* DB: LLMKey.cooldown_until is set
          fails,      \* _fail_counts
          breaker,    \* _cb_open_until
          probe,      \* _half_open
          inflight,   \* _inflight
          pc,         \* where each caller is
          heal,       \* the keys a pick found expired
          lag,        \* ticks since a pick read the clock
          broken, half,   \* what it saw of the breakers
          key,        \* the key a caller has picked, tests or marks
          trial,      \* its row said circuit_breaker
          todo,       \* the status a mark is about to write
          forgotten   \* history: broken keys whose breaker no memory knows

dbVars    == <<status, cool>>
memVars   == <<fails, breaker, probe>>
pickVars  == <<heal, lag, broken, half>>
vars == <<dbVars, memVars, inflight, pc, pickVars, key, trial, todo, forgotten>>

Statuses == {"active", "rate_limited", "error", "circuit_breaker",
             "exhausted", "disabled"}
Timers   == (0..CbTicks) \union {NoTimer}
Holding  == {"take", "held", "write"}

TypeOK ==
  /\ status \in [Keys -> Statuses]
  /\ cool \in [Keys -> BOOLEAN]
  /\ fails \in [Keys -> 0..Threshold]
  /\ breaker \in [Keys -> Timers]
  /\ probe \in [Keys -> BOOLEAN]
  /\ inflight \in [Keys -> Nat]
  /\ pc \in [Callers -> {"idle", "heal", "look", "query"} \union Holding]
  /\ heal \in [Callers -> SUBSET Keys]
  /\ lag \in [Callers -> 0..CbTicks]
  /\ broken \in [Callers -> SUBSET Keys]
  /\ half \in [Callers -> SUBSET Keys]
  /\ key \in [Callers -> Keys \union {NoKey}]
  /\ trial \in [Callers -> BOOLEAN]
  /\ todo \in [Callers -> Statuses]
  /\ forgotten \subseteq Keys

Init ==
  /\ status = [k \in Keys |-> "active"]
  /\ cool = [k \in Keys |-> FALSE]
  /\ fails = [k \in Keys |-> 0]
  /\ breaker = [k \in Keys |-> NoTimer]
  /\ probe = [k \in Keys |-> FALSE]
  /\ inflight = [k \in Keys |-> 0]
  /\ pc = [c \in Callers |-> "idle"]
  /\ heal = [c \in Callers |-> {}]
  /\ lag = [c \in Callers |-> 0]
  /\ broken = [c \in Callers |-> {}]
  /\ half = [c \in Callers |-> {}]
  /\ key = [c \in Callers |-> NoKey]
  /\ trial = [c \in Callers |-> FALSE]
  /\ todo = [c \in Callers |-> "active"]
  /\ forgotten = {}

--------------------------------------------------------------------------------
Goto(c, place) == pc' = [pc EXCEPT ![c] = place]

\* _cb_state: open for the first half of its time, then half open: one caller
\* may probe; when the time is over it is closed, whoever is probing.  A pick
\* reads the clock once: it sees a breaker as it was `lag` ticks ago.  A breaker
\* started since that reading shows up to `lag` ticks more than it has.
Left(c, k)     == breaker[k] + lag[c]
Open(c, k)     == breaker[k] # NoTimer /\ 2 * Left(c, k) > CbTicks
HalfOpen(c, k) == breaker[k] # NoTimer /\ Left(c, k) > 0 /\ ~Open(c, k)
Expired     == {k \in Keys : breaker[k] = 0}

\* Fault variant: a success that resets the counter and not the breaker.
CloseCounterOnly(S) ==
  /\ fails'   = [k \in Keys |-> IF k \in S THEN 0 ELSE fails[k]]
  /\ UNCHANGED <<breaker, probe>>

\* The breakers of a set of keys are closed and forgotten.
CloseBreakers(S) ==
  /\ fails'   = [k \in Keys |-> IF k \in S THEN 0 ELSE fails[k]]
  /\ breaker' = [k \in Keys |-> IF k \in S THEN NoTimer ELSE breaker[k]]
  /\ probe'   = [k \in Keys |-> probe[k] /\ k \notin S]

Trips(k) == fails[k] + 1 >= Threshold

\* Fault variant: a failure count that is not capped by the breaker's threshold.
CountFailureUncapped(k) ==
  /\ fails' = [fails EXCEPT ![k] = @ + 1]
  /\ breaker' = [breaker EXCEPT ![k] = IF Trips(k) THEN CbTicks ELSE @]
  /\ probe' = [probe EXCEPT ![k] = @ /\ ~Trips(k)]

\* _on_failure; counts beyond the threshold make no difference.
CountFailure(k) ==
  /\ fails' = [fails EXCEPT ![k] = IF Trips(k) THEN Threshold ELSE @ + 1]
  /\ breaker' = [breaker EXCEPT ![k] = IF Trips(k) THEN CbTicks ELSE @]
  /\ probe' = [probe EXCEPT ![k] = @ /\ ~Trips(k)]

\* release(): never below zero.
Release(k) == inflight' = [inflight EXCEPT ![k] = IF @ > 0 THEN @ - 1 ELSE 0]

Done(c) == /\ Goto(c, "idle")
           /\ key' = [key EXCEPT ![c] = NoKey]
           /\ trial' = [trial EXCEPT ![c] = FALSE]
           /\ todo' = [todo EXCEPT ![c] = "active"]

\* History: of S and those forgotten before, the keys still marked broken.
Forget(S) == forgotten' = {k \in forgotten \union S : status'[k] = "circuit_breaker"}

\* _query_active_keys, the row's side and the memory's side of the condition.
Listed(c, k, over) ==
  /\ \/ status[k] = "active" /\ (cool[k] => over)
     \/ status[k] = "circuit_breaker" /\ k \in half[c]
  /\ k \notin broken[c]

\* _select_key among one provider's candidates: the highest priority, and of
\* those the half-open ones first.
Favoured(S) ==
  LET top    == {k \in S : \A j \in S : Prio[j] <= Prio[k]}
      trials == {k \in top : status[k] = "circuit_breaker"}
  IN  IF trials # {} THEN trials ELSE top

--------------------------------------------------------------------------------
\* Fault variants: a cleanup of the memory that leaves the rows as they are.
SweepOnly(c) ==
  /\ pc[c] = "idle"
  /\ CloseBreakers(Expired)
  /\ Goto(c, "look")
  /\ UNCHANGED <<dbVars, inflight, pickVars, key, trial, todo, forgotten>>

\* A mark whose failed transaction skips the release.
WriteFailsHolding(c) ==
  /\ pc[c] = "write"
  /\ Done(c)
  /\ UNCHANGED <<dbVars, inflight>>
  /\ Forget(IF breaker[key[c]] = NoTimer THEN {key[c]} ELSE {})
  /\ UNCHANGED <<memVars, pickVars>>

--------------------------------------------------------------------------------
\* _cleanup, in memory: breakers whose time is over are dropped.
Sweep(c) ==
  /\ pc[c] = "idle"
  /\ CloseBreakers(Expired)
  /\ heal' = [heal EXCEPT ![c] = Expired]
  /\ Goto(c, IF Expired = {} THEN "look" ELSE "heal")
  /\ UNCHANGED <<dbVars, inflight, lag, broken, half, key, trial, todo, forgotten>>

\* _cleanup, in the database: their rows become active again.
Heal(c) ==
  LET healed == {k \in heal[c] : status[k] = "circuit_breaker"} IN
  /\ pc[c] = "heal"
  /\ status' = [k \in Keys |-> IF k \in healed THEN "active" ELSE status[k]]
  /\ cool' = [k \in Keys |-> cool[k] /\ k \notin healed]
  /\ heal' = [heal EXCEPT ![c] = {}]
  /\ Goto(c, "look")
  /\ Forget({})
  /\ UNCHANGED <<memVars, inflight, lag, broken, half, key, trial, todo>>

HealFails(c) ==
  /\ pc[c] = "heal"
  /\ heal' = [heal EXCEPT ![c] = {}]
  /\ Goto(c, "look")
  /\ UNCHANGED dbVars
  /\ Forget({k \in heal[c] : breaker[k] = NoTimer})
  /\ UNCHANGED <<memVars, inflight, lag, broken, half, key, trial, todo>>

\* The states of the breakers, under the lock.
Look(c) ==
  /\ pc[c] = "look"
  /\ broken' = [broken EXCEPT ![c] = {k \in Keys : Open(c, k) \/ (HalfOpen(c, k) /\ probe[k])}]
  /\ half' = [half EXCEPT ![c] = {k \in Keys : HalfOpen(c, k) /\ ~probe[k]}]
  /\ lag' = [lag EXCEPT ![c] = 0]
  /\ Goto(c, "query")
  /\ UNCHANGED <<dbVars, memVars, inflight, heal, key, trial, todo, forgotten>>

\* pick (one provider) and pick_cross_provider (all but one): the SELECT and
\* the choice, or NoAvailableKeyError.
Query(c, scope, over) ==
  LET found == {k \in Keys : Listed(c, k, over) /\ ProviderOf[k] \in scope} IN
  /\ pc[c] = "query"
  /\ broken' = [broken EXCEPT ![c] = {}]
  /\ half' = [half EXCEPT ![c] = {}]
  /\ IF found = {}
       THEN Goto(c, "idle") /\ UNCHANGED <<key, trial>>
       ELSE \E p \in scope : \E k \in Favoured({j \in found : ProviderOf[j] = p}) :
              /\ key' = [key EXCEPT ![c] = k]
              /\ trial' = [trial EXCEPT ![c] = status[k] = "circuit_breaker"]
              /\ Goto(c, "take")
  /\ UNCHANGED <<dbVars, memVars, inflight, heal, lag, todo, forgotten>>

\* _claim_half_open, whose answer nobody looks at, and acquire: two sections of
\* the lock in one step, the first for the mark and the second for the count.
Take(c) ==
  /\ pc[c] = "take"
  /\ probe' = [probe EXCEPT ![key[c]] = @ \/ trial[c]]
  /\ inflight' = [inflight EXCEPT ![key[c]] = @ + 1]
  /\ Goto(c, "held")
  /\ UNCHANGED <<dbVars, fails, breaker, pickVars, key, trial, todo, forgotten>>

\* The caller gives up before it has used the key.
GiveBack(c) ==
  /\ pc[c] = "held"
  /\ Release(key[c])
  /\ Done(c)
  /\ UNCHANGED <<dbVars, memVars, pickVars, forgotten>>

\* The key is over its budget: it is taken out of service and given back.
Exhaust(c) ==
  /\ pc[c] = "held"
  /\ status' = [status EXCEPT ![key[c]] = "exhausted"]
  /\ cool' = [cool EXCEPT ![key[c]] = FALSE]
  /\ Release(key[c])
  /\ Done(c)
  /\ Forget({})
  /\ UNCHANGED <<memVars, pickVars>>

\* The first half of mark_ok, mark_rate_limited and mark_error: memory.
Record(c, k, verdict) ==
  /\ IF verdict = "active" THEN CloseBreakers({k}) ELSE CountFailure(k)
  /\ todo' = [todo EXCEPT ![c] = IF verdict # "active" /\ Trips(k)
                                   THEN "circuit_breaker" ELSE verdict]
  /\ key' = [key EXCEPT ![c] = k]
  /\ Goto(c, "write")
  /\ UNCHANGED <<dbVars, inflight, pickVars, trial, forgotten>>

Mark(c, verdict) == pc[c] = "held" /\ Record(c, key[c], verdict)

\* POST /keys/{id}/test marks a key it has never acquired.
Test(c, k, verdict) == pc[c] = "idle" /\ Record(c, k, verdict)

\* The second half: the row, whatever it says by now, and the release.
Write(c) ==
  LET k == key[c] IN
  /\ pc[c] = "write"
  /\ status' = [status EXCEPT ![k] = todo[c]]
  /\ cool' = [cool EXCEPT ![k] = todo[c] # "active"]
  /\ Release(k)
  /\ Done(c)
  /\ Forget(IF breaker[k] = NoTimer THEN {k} ELSE {})
  /\ UNCHANGED <<memVars, pickVars>>

\* `except Exception: pass`, then `finally: release`.
WriteFails(c) ==
  LET k == key[c] IN
  /\ pc[c] = "write"
  /\ Release(k)
  /\ Done(c)
  /\ UNCHANGED dbVars
  /\ Forget(IF breaker[k] = NoTimer THEN {k} ELSE {})
  /\ UNCHANGED <<memVars, pickVars>>

\* PATCH /keys/{id}/status writes any status it is sent.
SetStatus(k, s) ==
  /\ status[k] # s
  /\ status' = [status EXCEPT ![k] = s]
  /\ cool' = [cool EXCEPT ![k] = @ /\ s # "active"]
  /\ Forget(IF breaker[k] = NoTimer THEN {k} ELSE {})
  /\ UNCHANGED <<memVars, inflight, pc, pickVars, key, trial, todo>>

\* Beyond CbTicks a lag makes no difference.
Tick ==
  /\ breaker' = [k \in Keys |-> IF breaker[k] \in {NoTimer, 0} THEN breaker[k]
                                                           ELSE breaker[k] - 1]
  /\ lag' = [c \in Callers |-> IF pc[c] \in {"heal", "look"} /\ lag[c] < CbTicks
                                 THEN lag[c] + 1 ELSE lag[c]]
  /\ UNCHANGED <<dbVars, fails, probe, inflight, pc, heal, broken, half, key, trial, todo, forgotten>>

\* The process starts again: the rows are as they were, the memory is empty.
Restart ==
  /\ fails' = [k \in Keys |-> 0]
  /\ breaker' = [k \in Keys |-> NoTimer]
  /\ probe' = [k \in Keys |-> FALSE]
  /\ inflight' = [k \in Keys |-> 0]
  /\ pc' = [c \in Callers |-> "idle"]
  /\ heal' = [c \in Callers |-> {}]
  /\ lag' = [c \in Callers |-> 0]
  /\ broken' = [c \in Callers |-> {}]
  /\ half' = [c \in Callers |-> {}]
  /\ key' = [c \in Callers |-> NoKey]
  /\ trial' = [c \in Callers |-> FALSE]
  /\ todo' = [c \in Callers |-> "active"]
  /\ UNCHANGED dbVars
  /\ Forget(Keys)

--------------------------------------------------------------------------------
Scopes == {{p} : p \in Providers} \union {Providers \ {p} : p \in Providers}

Picking(c) == \/ Heal(c) \/ HealFails(c) \/ Look(c)
              \/ \E scope \in Scopes, over \in BOOLEAN : Query(c, scope, over)
              \/ Take(c)
Writing(c) == Write(c) \/ WriteFails(c)
Using(c)   == \/ GiveBack(c) \/ Exhaust(c)
              \/ \E v \in {"active", "rate_limited", "error"} : Mark(c, v)
Testing(c) == \E k \in Keys, v \in {"active", "error"} : Test(c, k, v)

Next ==
  \/ \E c \in Callers : Sweep(c) \/ Picking(c) \/ Using(c) \/ Writing(c) \/ Testing(c)
  \/ \E k \in Keys, s \in Statuses : SetStatus(k, s)
  \/ Tick
  \/ Restart

\* A pick or a mark that has begun goes on, and time passes.
Fairness == /\ \A c \in Callers : WF_vars(Picking(c)) /\ WF_vars(Writing(c))
            /\ WF_vars(Tick)

Spec     == Init /\ [][Next]_vars
FairSpec == Spec /\ Fairness

--------------------------------------------------------------------------------
\* No slot outlives its call: a key never counts more requests in flight than
\* hold it, whatever fails (balancer.py:296-297), so least_used is not misled
\* into avoiding it for good.
InflightBounded ==
  \A k \in Keys :
    inflight[k] <= Cardinality({c \in Callers : key[c] = k /\ pc[c] \in {"held", "write"}})

\* A breaker runs exactly while the failures stand at the threshold: neither a
\* count without a breaker nor a breaker a success has left behind.
BreakerFollowsFailures ==
  \A k \in Keys : breaker[k] # NoTimer <=> fails[k] = Threshold

\* Self-heal (balancer.py:143-147): a row says circuit_breaker only while the
\* memory holds the breaker that will reset it, or is just about to write.  A
\* restart, a failed transaction, a write that came after its own breaker was
\* closed and an operator who writes that status himself are the ways to be
\* forgotten, and the only ones.
BrokenKeyIsRemembered ==
  \A k \in Keys : status[k] = "circuit_breaker" /\ k \notin forgotten =>
    \/ breaker[k] # NoTimer
    \/ \E c \in Callers : \/ pc[c] = "heal" /\ k \in heal[c]
                          \/ pc[c] = "write" /\ key[c] = k

\* While calls keep coming, a broken key is active again once its time is over,
\* unless it trips anew or is forgotten.
BrokenKeyHeals ==
  \A k \in Keys :
    []<>(\E c \in Callers : pc[c] = "query") =>
      (status[k] = "circuit_breaker" /\ k \notin forgotten /\ breaker[k] # CbTicks
         ~> status[k] # "circuit_breaker" \/ k \in forgotten \/ breaker[k] = CbTicks)

\* A key that was rate limited is only skipped for a time (.env.example:69).
LimitedKeyReturns ==
  \A k \in Keys :
    []<>(\E c \in Callers : pc[c] = "query") =>
      (status[k] = "rate_limited" ~> status[k] # "rate_limited")
================================================================================
