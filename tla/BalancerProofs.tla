---------------------------- MODULE BalancerProofs ----------------------------
(* What TLAPS proves of Balancer for every finite set of callers and all keys, *)
(* priorities and thresholds: types, the breaker's counter, and that a broken  *)
(* key is remembered or on the list of the forgotten.                          *)
EXTENDS Balancer, FiniteSetTheorems, TLAPS

\* Who is past the choice has a key.
HoldersHaveKeys == \A c \in Callers : pc[c] \in Holding => key[c] \in Keys

\* The inductive invariant: the breaker's counter and the types support the
\* memory of broken keys.
BalancerInv == /\ TypeOK
               /\ HoldersHaveKeys
               /\ BreakerFollowsFailures
               /\ BrokenKeyIsRemembered

\* Who will still see to the row of a broken key.
Remembered(k) ==
  \/ breaker[k] # NoTimer
  \/ \E c \in Callers : \/ pc[c] = "heal" /\ k \in heal[c]
                        \/ pc[c] = "write" /\ key[c] = k

USE KeyAssumption, TimerAssumption

--------------------------------------------------------------------------------
LEMMA BalancerInit == Init => BalancerInv
BY DEF Init, BalancerInv, TypeOK, Statuses, Timers, Holding, HoldersHaveKeys,
       BreakerFollowsFailures, BrokenKeyIsRemembered

\* A step that writes no row and drops no breaker leaves every broken key
\* remembered, if who was about to heal or to write still is.
LEMMA QuietStep ==
  ASSUME BalancerInv, UNCHANGED status, UNCHANGED forgotten,
         \A k \in Keys : breaker[k] # NoTimer => breaker'[k] # NoTimer,
         \A c \in Callers : pc[c] \in {"heal", "write"} =>
           pc'[c] = pc[c] /\ heal'[c] = heal[c] /\ key'[c] = key[c]
  PROVE  BrokenKeyIsRemembered'
<1> SUFFICES ASSUME NEW k \in Keys, status[k] = "circuit_breaker", k \notin forgotten
             PROVE  Remembered(k)'
  BY DEF BrokenKeyIsRemembered, Remembered
<1>1. Remembered(k)
  BY DEF BalancerInv, BrokenKeyIsRemembered, Remembered
<1> QED
  BY <1>1 DEF Remembered

\* A key that is broken after a step and not forgotten then was not among those
\* the step puts on the list.
LEMMA ForgetSays ==
  ASSUME NEW S, Forget(S), forgotten \subseteq Keys, S \subseteq Keys
  PROVE  /\ forgotten' \subseteq Keys
         /\ \A k \in Keys : status'[k] = "circuit_breaker" /\ k \notin forgotten' =>
                              k \notin forgotten /\ k \notin S
BY DEF Forget

--------------------------------------------------------------------------------
LEMMA SweepKeepsInv ==
  ASSUME BalancerInv, NEW c \in Callers, Sweep(c)
  PROVE  BalancerInv'
<1>1. TypeOK'
  BY DEF BalancerInv, TypeOK, Sweep, CloseBreakers, Goto, Expired, Timers, Holding, dbVars
<1>2. HoldersHaveKeys'
  BY DEF BalancerInv, TypeOK, HoldersHaveKeys, Sweep, Goto, Holding
<1>3. BreakerFollowsFailures'
  BY DEF BalancerInv, TypeOK, BreakerFollowsFailures, Sweep, CloseBreakers
<1>4. BrokenKeyIsRemembered'
  <2> SUFFICES ASSUME NEW k \in Keys, status[k] = "circuit_breaker", k \notin forgotten
               PROVE  Remembered(k)'
    BY DEF BrokenKeyIsRemembered, Remembered, Sweep, dbVars
  <2>1. Remembered(k)
    BY DEF BalancerInv, BrokenKeyIsRemembered, Remembered
  <2>2. CASE k \in Expired
    <3>1. pc'[c] = "heal" /\ k \in heal'[c]
      BY <2>2 DEF BalancerInv, TypeOK, Sweep, Goto
    <3> QED
      BY <3>1 DEF Remembered
  <2>3. CASE k \notin Expired
    <3>1. breaker'[k] = breaker[k]
      BY <2>3 DEF Sweep, CloseBreakers
    <3>2. \A d \in Callers : pc[d] \in {"heal", "write"} =>
            pc'[d] = pc[d] /\ heal'[d] = heal[d] /\ key'[d] = key[d]
      BY DEF BalancerInv, TypeOK, Sweep, Goto
    <3> QED
      BY <2>1, <3>1, <3>2 DEF Remembered
  <2> QED
    BY <2>2, <2>3
<1> QED
  BY <1>1, <1>2, <1>3, <1>4 DEF BalancerInv

LEMMA HealKeepsInv ==
  ASSUME BalancerInv, NEW c \in Callers, Heal(c)
  PROVE  BalancerInv'
<1>1. TypeOK'
  BY ForgetSays DEF BalancerInv, TypeOK, Heal, Goto, Statuses, Holding, memVars
<1>2. HoldersHaveKeys'
  BY DEF BalancerInv, TypeOK, HoldersHaveKeys, Heal, Goto, Holding
<1>3. BreakerFollowsFailures'
  BY DEF BalancerInv, BreakerFollowsFailures, Heal, memVars
<1>4. BrokenKeyIsRemembered'
  <2> SUFFICES ASSUME NEW k \in Keys, status'[k] = "circuit_breaker", k \notin forgotten'
               PROVE  Remembered(k)'
    BY DEF BrokenKeyIsRemembered, Remembered
  <2>1. k \notin forgotten
    BY ForgetSays DEF BalancerInv, TypeOK, Heal
  <2>2. status[k] = "circuit_breaker" /\ k \notin heal[c]
    BY DEF BalancerInv, TypeOK, Heal
  <2>3. Remembered(k)
    BY <2>1, <2>2 DEF BalancerInv, BrokenKeyIsRemembered, Remembered
  <2>4. \A d \in Callers \ {c} : pc'[d] = pc[d] /\ heal'[d] = heal[d]
    BY DEF BalancerInv, TypeOK, Heal, Goto
  <2>5. key' = key /\ breaker' = breaker /\ pc[c] = "heal"
    BY DEF Heal, memVars
  <2> QED
    BY <2>2, <2>3, <2>4, <2>5 DEF Remembered
<1> QED
  BY <1>1, <1>2, <1>3, <1>4 DEF BalancerInv

LEMMA HealFailsKeepsInv ==
  ASSUME BalancerInv, NEW c \in Callers, HealFails(c)
  PROVE  BalancerInv'
<1> DEFINE lost == {k \in heal[c] : breaker[k] = NoTimer}
<1>0. lost \subseteq Keys /\ forgotten \subseteq Keys
  BY DEF BalancerInv, TypeOK
<1>1. TypeOK'
  <2>1. forgotten' \subseteq Keys
    BY <1>0, ForgetSays DEF HealFails
  <2> QED
    BY <2>1 DEF BalancerInv, TypeOK, HealFails, Goto, Holding, memVars, dbVars
<1>2. HoldersHaveKeys'
  BY DEF BalancerInv, TypeOK, HoldersHaveKeys, HealFails, Goto, Holding
<1>3. BreakerFollowsFailures'
  BY DEF BalancerInv, BreakerFollowsFailures, HealFails, memVars
<1>4. BrokenKeyIsRemembered'
  <2> SUFFICES ASSUME NEW k \in Keys, status'[k] = "circuit_breaker", k \notin forgotten'
               PROVE  Remembered(k)'
    BY DEF BrokenKeyIsRemembered, Remembered
  <2>1. k \notin forgotten /\ k \notin lost
    BY <1>0, ForgetSays DEF HealFails
  <2>2. Remembered(k)
    BY <2>1 DEF BalancerInv, BrokenKeyIsRemembered, Remembered, HealFails, dbVars
  <2>3. \A d \in Callers \ {c} : pc'[d] = pc[d] /\ heal'[d] = heal[d]
    BY DEF BalancerInv, TypeOK, HealFails, Goto
  <2>4. key' = key /\ breaker' = breaker /\ pc[c] = "heal"
    BY DEF HealFails, memVars
  <2> QED
    BY <2>1, <2>2, <2>3, <2>4 DEF Remembered
<1> QED
  BY <1>1, <1>2, <1>3, <1>4 DEF BalancerInv

\* Look, Query, Take and GiveBack leave the rows and the breakers alone.
LEMMA LookKeepsInv ==
  ASSUME BalancerInv, NEW c \in Callers, Look(c)
  PROVE  BalancerInv'
<1>1. TypeOK'
  BY DEF BalancerInv, TypeOK, Look, Goto, Holding, dbVars, memVars
<1>2. HoldersHaveKeys'
  BY DEF BalancerInv, TypeOK, HoldersHaveKeys, Look, Goto, Holding
<1>3. BreakerFollowsFailures'
  BY DEF BalancerInv, BreakerFollowsFailures, Look, memVars
<1>4. BrokenKeyIsRemembered'
  <2>1. \A d \in Callers : pc[d] \in {"heal", "write"} => pc'[d] = pc[d]
    BY DEF BalancerInv, TypeOK, Look, Goto
  <2> QED
    BY <2>1, QuietStep DEF Look, dbVars, memVars
<1> QED
  BY <1>1, <1>2, <1>3, <1>4 DEF BalancerInv

LEMMA QueryKeepsInv ==
  ASSUME BalancerInv, NEW c \in Callers, NEW scope \in Scopes, NEW over \in BOOLEAN,
         Query(c, scope, over)
  PROVE  BalancerInv'
<1> DEFINE found == {k \in Keys : Listed(c, k, over) /\ ProviderOf[k] \in scope}
<1>1. \/ pc' = [pc EXCEPT ![c] = "idle"] /\ key' = key /\ trial' = trial
      \/ \E k \in Keys : /\ key' = [key EXCEPT ![c] = k]
                        /\ trial' = [trial EXCEPT ![c] = status[k] = "circuit_breaker"]
                        /\ pc' = [pc EXCEPT ![c] = "take"]
  <2>1. CASE found = {}
    BY <2>1 DEF Query, Goto
  <2>2. CASE found # {}
    <3>1. PICK p \in scope : \E k \in Favoured({j \in found : ProviderOf[j] = p}) :
              /\ key' = [key EXCEPT ![c] = k]
              /\ trial' = [trial EXCEPT ![c] = status[k] = "circuit_breaker"]
              /\ pc' = [pc EXCEPT ![c] = "take"]
      BY <2>2 DEF Query, Goto
    <3>2. Favoured({j \in found : ProviderOf[j] = p}) \subseteq Keys
      BY DEF Favoured
    <3> QED
      BY <3>1, <3>2
  <2> QED
    BY <2>1, <2>2
<1>2. TypeOK'
  <2>1. trial' \in [Callers -> BOOLEAN]
    <3>1. trial \in [Callers -> BOOLEAN]
      BY DEF BalancerInv, TypeOK
    <3>2. \A b \in BOOLEAN : [trial EXCEPT ![c] = b] \in [Callers -> BOOLEAN]
      BY <3>1, Zenon
    <3>3. \A k \in Keys : (status[k] = "circuit_breaker") \in BOOLEAN
      BY Zenon
    <3> QED
      BY <1>1, <3>1, <3>2, <3>3, Zenon
  <2>2. key' \in [Callers -> Keys \union {NoKey}]
    BY <1>1 DEF BalancerInv, TypeOK
  <2>3. pc' \in [Callers -> {"idle", "heal", "look", "query"} \union Holding]
    BY <1>1 DEF BalancerInv, TypeOK, Holding
  <2> QED
    BY <2>1, <2>2, <2>3 DEF BalancerInv, TypeOK, Query, dbVars, memVars
<1>3. HoldersHaveKeys'
  BY <1>1 DEF BalancerInv, TypeOK, HoldersHaveKeys, Holding
<1>4. BreakerFollowsFailures'
  BY DEF BalancerInv, BreakerFollowsFailures, Query, memVars
<1>5. BrokenKeyIsRemembered'
  <2>1. \A d \in Callers : pc[d] \in {"heal", "write"} => pc'[d] = pc[d] /\ key'[d] = key[d]
    BY <1>1 DEF BalancerInv, TypeOK, Query
  <2> QED
    BY <2>1, QuietStep DEF Query, dbVars, memVars
<1> QED
  BY <1>2, <1>3, <1>4, <1>5 DEF BalancerInv

LEMMA TakeKeepsInv ==
  ASSUME BalancerInv, NEW c \in Callers, Take(c)
  PROVE  BalancerInv'
<1>0. key[c] \in Keys
  BY DEF BalancerInv, HoldersHaveKeys, Take, Holding
<1>1. TypeOK'
  <2>1. probe' \in [Keys -> BOOLEAN] /\ inflight' \in [Keys -> Nat]
    BY <1>0 DEF BalancerInv, TypeOK, Take
  <2> QED
    BY <2>1 DEF BalancerInv, TypeOK, Take, Goto, Holding, dbVars, pickVars
<1>2. HoldersHaveKeys'
  BY DEF BalancerInv, TypeOK, HoldersHaveKeys, Take, Goto, Holding
<1>3. BreakerFollowsFailures'
  BY DEF BalancerInv, BreakerFollowsFailures, Take
<1>4. BrokenKeyIsRemembered'
  <2>1. \A d \in Callers : pc[d] \in {"heal", "write"} => pc'[d] = pc[d]
    BY DEF BalancerInv, TypeOK, Take, Goto
  <2> QED
    BY <2>1, QuietStep DEF Take, dbVars, pickVars
<1> QED
  BY <1>1, <1>2, <1>3, <1>4 DEF BalancerInv

LEMMA GiveBackKeepsInv ==
  ASSUME BalancerInv, NEW c \in Callers, GiveBack(c)
  PROVE  BalancerInv'
<1>0. key[c] \in Keys
  BY DEF BalancerInv, HoldersHaveKeys, GiveBack, Holding
<1>1. TypeOK'
  <2>1. inflight' \in [Keys -> Nat]
    BY <1>0 DEF BalancerInv, TypeOK, GiveBack, Release
  <2> QED
    BY <2>1 DEF BalancerInv, TypeOK, GiveBack, Done, Goto, Statuses, dbVars, memVars, pickVars
<1>2. HoldersHaveKeys'
  BY DEF BalancerInv, TypeOK, HoldersHaveKeys, GiveBack, Done, Goto, Holding
<1>3. BreakerFollowsFailures'
  BY DEF BalancerInv, BreakerFollowsFailures, GiveBack, memVars
<1>4. BrokenKeyIsRemembered'
  <2>1. \A d \in Callers : pc[d] \in {"heal", "write"} => pc'[d] = pc[d] /\ key'[d] = key[d]
    BY DEF BalancerInv, TypeOK, GiveBack, Done, Goto
  <2> QED
    BY <2>1, QuietStep DEF GiveBack, dbVars, memVars, pickVars
<1> QED
  BY <1>1, <1>2, <1>3, <1>4 DEF BalancerInv

--------------------------------------------------------------------------------
LEMMA ExhaustKeepsInv ==
  ASSUME BalancerInv, NEW c \in Callers, Exhaust(c)
  PROVE  BalancerInv'
<1>0. key[c] \in Keys
  BY DEF BalancerInv, HoldersHaveKeys, Exhaust, Holding
<1>1. TypeOK'
  <2>1. inflight' \in [Keys -> Nat]
    BY <1>0 DEF BalancerInv, TypeOK, Exhaust, Release
  <2>2. status' \in [Keys -> Statuses] /\ cool' \in [Keys -> BOOLEAN]
    BY <1>0 DEF BalancerInv, TypeOK, Exhaust, Statuses
  <2>3. forgotten' \subseteq Keys
    BY ForgetSays DEF BalancerInv, TypeOK, Exhaust
  <2> QED
    BY <2>1, <2>2, <2>3 DEF BalancerInv, TypeOK, Exhaust, Done, Goto, Statuses, memVars, pickVars
<1>2. HoldersHaveKeys'
  BY DEF BalancerInv, TypeOK, HoldersHaveKeys, Exhaust, Done, Goto, Holding
<1>3. BreakerFollowsFailures'
  BY DEF BalancerInv, BreakerFollowsFailures, Exhaust, memVars
<1>4. BrokenKeyIsRemembered'
  <2> SUFFICES ASSUME NEW k \in Keys, status'[k] = "circuit_breaker", k \notin forgotten'
               PROVE  Remembered(k)'
    BY DEF BrokenKeyIsRemembered, Remembered
  <2>1. k \notin forgotten
    BY ForgetSays DEF BalancerInv, TypeOK, Exhaust
  <2>2. status[k] = "circuit_breaker"
    BY <1>0 DEF BalancerInv, TypeOK, Exhaust
  <2>3. Remembered(k)
    BY <2>1, <2>2 DEF BalancerInv, BrokenKeyIsRemembered, Remembered
  <2>4. \A d \in Callers : pc[d] \in {"heal", "write"} => pc'[d] = pc[d] /\ key'[d] = key[d]
    BY DEF BalancerInv, TypeOK, Exhaust, Done, Goto
  <2> QED
    BY <2>3, <2>4 DEF Remembered, Exhaust, memVars, pickVars
<1> QED
  BY <1>1, <1>2, <1>3, <1>4 DEF BalancerInv

LEMMA RecordKeepsInv ==
  ASSUME BalancerInv, NEW c \in Callers, NEW k \in Keys,
         NEW verdict \in {"active", "rate_limited", "error"},
         pc[c] \in {"idle", "held"}, Record(c, k, verdict)
  PROVE  BalancerInv'
<1>1. TypeOK'
  <2>1. /\ fails' \in [Keys -> 0..Threshold]
        /\ breaker' \in [Keys -> Timers]
        /\ probe' \in [Keys -> BOOLEAN]
    <3>1. /\ fails \in [Keys -> 0..Threshold]
          /\ breaker \in [Keys -> Timers]
          /\ probe \in [Keys -> BOOLEAN]
          /\ CbTicks \in Timers /\ NoTimer \in Timers
      BY DEF BalancerInv, TypeOK, Timers
    <3>2. CASE verdict = "active"
      <4>1. CloseBreakers({k})
        BY <3>2 DEF Record
      <4>2. fails' \in [Keys -> 0..Threshold] /\ breaker' \in [Keys -> Timers]
        BY <3>1, <4>1 DEF CloseBreakers
      <4>3. probe' = [j \in Keys |-> probe[j] /\ j \notin {k}]
        BY <4>1 DEF CloseBreakers
      <4>4. probe' \in [Keys -> BOOLEAN]
        BY <3>1, <4>3, Zenon
      <4> QED
        BY <4>2, <4>4
    <3>3. CASE verdict # "active"
      <4>1. CountFailure(k)
        BY <3>3 DEF Record
      <4>2. fails' \in [Keys -> 0..Threshold] /\ breaker' \in [Keys -> Timers]
        BY <3>1, <4>1 DEF CountFailure, Trips
      <4>3. probe' = [probe EXCEPT ![k] = probe[k] /\ ~Trips(k)]
        BY <4>1 DEF CountFailure
      <4>4. probe' \in [Keys -> BOOLEAN]
        BY <3>1, <4>3, Zenon
      <4> QED
        BY <4>2, <4>4
    <3> QED
      BY <3>2, <3>3
  <2>2. todo' \in [Callers -> Statuses]
    BY DEF BalancerInv, TypeOK, Record, Statuses
  <2> QED
    BY <2>1, <2>2 DEF BalancerInv, TypeOK, Record, Goto, Holding, dbVars, pickVars
<1>2. HoldersHaveKeys'
  BY DEF BalancerInv, TypeOK, HoldersHaveKeys, Record, Goto, Holding
<1>3. BreakerFollowsFailures'
  <2>1. CASE verdict = "active"
    BY <2>1 DEF BalancerInv, TypeOK, BreakerFollowsFailures, Record, CloseBreakers
  <2>2. CASE verdict # "active"
    <3> SUFFICES ASSUME NEW j \in Keys
                 PROVE  breaker'[j] # NoTimer <=> fails'[j] = Threshold
      BY DEF BreakerFollowsFailures
    <3>1. breaker[j] # NoTimer <=> fails[j] = Threshold
      BY DEF BalancerInv, BreakerFollowsFailures
    <3> QED
      BY <2>2, <3>1 DEF BalancerInv, TypeOK, Record, CountFailure, Trips
  <2> QED
    BY <2>1, <2>2
<1>4. BrokenKeyIsRemembered'
  <2> SUFFICES ASSUME NEW j \in Keys, status[j] = "circuit_breaker", j \notin forgotten
               PROVE  Remembered(j)'
    BY DEF BrokenKeyIsRemembered, Remembered, Record, dbVars
  <2>1. Remembered(j)
    BY DEF BalancerInv, BrokenKeyIsRemembered, Remembered
  <2>2. CASE j = k
    <3>1. pc'[c] = "write" /\ key'[c] = j
      BY <2>2 DEF BalancerInv, TypeOK, Record, Goto
    <3> QED
      BY <3>1 DEF Remembered
  <2>3. CASE j # k
    <3>1. breaker'[j] = breaker[j]
      BY <2>3 DEF BalancerInv, TypeOK, Record, CloseBreakers, CountFailure
    <3>2. \A d \in Callers : pc[d] \in {"heal", "write"} =>
            pc'[d] = pc[d] /\ heal'[d] = heal[d] /\ key'[d] = key[d]
      BY DEF BalancerInv, TypeOK, Record, Goto, pickVars
    <3> QED
      BY <2>1, <3>1, <3>2 DEF Remembered
  <2> QED
    BY <2>2, <2>3
<1> QED
  BY <1>1, <1>2, <1>3, <1>4 DEF BalancerInv

\* The second half of a mark, whether or not its transaction commits.
LEMMA WritingKeepsInv ==
  ASSUME BalancerInv, NEW c \in Callers, Writing(c)
  PROVE  BalancerInv'
<1> DEFINE lost == IF breaker[key[c]] = NoTimer THEN {key[c]} ELSE {}
<1>0. /\ key[c] \in Keys /\ lost \subseteq Keys /\ pc[c] = "write"
      /\ Release(key[c]) /\ Done(c) /\ Forget(lost)
      /\ UNCHANGED <<memVars, pickVars>>
  BY DEF BalancerInv, HoldersHaveKeys, Writing, Write, WriteFails, Holding
<1>1. TypeOK'
  <2>1. inflight' \in [Keys -> Nat]
    BY <1>0 DEF BalancerInv, TypeOK, Release
  <2>2. status' \in [Keys -> Statuses] /\ cool' \in [Keys -> BOOLEAN]
    BY <1>0 DEF BalancerInv, TypeOK, Writing, Write, WriteFails, dbVars
  <2>3. forgotten' \subseteq Keys
    BY <1>0, ForgetSays DEF BalancerInv, TypeOK
  <2> QED
    BY <1>0, <2>1, <2>2, <2>3 DEF BalancerInv, TypeOK, Done, Goto, Statuses, memVars, pickVars
<1>2. HoldersHaveKeys'
  BY <1>0 DEF BalancerInv, TypeOK, HoldersHaveKeys, Done, Goto, Holding
<1>3. BreakerFollowsFailures'
  BY <1>0 DEF BalancerInv, BreakerFollowsFailures, memVars
<1>4. BrokenKeyIsRemembered'
  <2> SUFFICES ASSUME NEW j \in Keys, status'[j] = "circuit_breaker", j \notin forgotten'
               PROVE  Remembered(j)'
    BY DEF BrokenKeyIsRemembered, Remembered
  <2>1. j \notin forgotten /\ j \notin lost
    BY <1>0, ForgetSays DEF BalancerInv, TypeOK
  <2>2. CASE j = key[c]
    BY <1>0, <2>1, <2>2 DEF Remembered, memVars
  <2>3. CASE j # key[c]
    <3>1. status[j] = "circuit_breaker"
      BY <1>0, <2>3 DEF BalancerInv, TypeOK, Writing, Write, WriteFails, dbVars
    <3>2. Remembered(j)
      BY <2>1, <3>1 DEF BalancerInv, BrokenKeyIsRemembered, Remembered
    <3>3. \A d \in Callers \ {c} : pc'[d] = pc[d] /\ key'[d] = key[d] /\ heal'[d] = heal[d]
      BY <1>0 DEF BalancerInv, TypeOK, Done, Goto, pickVars
    <3> QED
      BY <1>0, <2>3, <3>2, <3>3 DEF Remembered, memVars
  <2> QED
    BY <2>2, <2>3
<1> QED
  BY <1>1, <1>2, <1>3, <1>4 DEF BalancerInv

LEMMA SetStatusKeepsInv ==
  ASSUME BalancerInv, NEW k \in Keys, NEW st \in Statuses, SetStatus(k, st)
  PROVE  BalancerInv'
<1>1. TypeOK'
  <2>1. status' \in [Keys -> Statuses]
    BY DEF BalancerInv, TypeOK, SetStatus, Statuses
  <2>2. cool' \in [Keys -> BOOLEAN]
    <3>1. cool' = [cool EXCEPT ![k] = cool[k] /\ st # "active"]
      BY DEF SetStatus
    <3> QED
      BY <3>1, Zenon DEF BalancerInv, TypeOK
  <2>3. forgotten' \subseteq Keys
    BY ForgetSays DEF BalancerInv, TypeOK, SetStatus
  <2> QED
    BY <2>1, <2>2, <2>3 DEF BalancerInv, TypeOK, SetStatus, memVars, pickVars
<1>2. HoldersHaveKeys'
  BY DEF BalancerInv, HoldersHaveKeys, SetStatus
<1>3. BreakerFollowsFailures'
  BY DEF BalancerInv, BreakerFollowsFailures, SetStatus, memVars
<1>4. BrokenKeyIsRemembered'
  <2> SUFFICES ASSUME NEW j \in Keys, status'[j] = "circuit_breaker", j \notin forgotten'
               PROVE  Remembered(j)'
    BY DEF BrokenKeyIsRemembered, Remembered
  <2>1. j \notin forgotten /\ (breaker[k] = NoTimer => j # k)
    BY ForgetSays DEF BalancerInv, TypeOK, SetStatus
  <2>2. CASE j = k
    BY <2>1, <2>2 DEF Remembered, SetStatus, memVars
  <2>3. CASE j # k
    <3>1. status[j] = "circuit_breaker"
      BY <2>3 DEF BalancerInv, TypeOK, SetStatus
    <3> QED
      BY <2>1, <3>1 DEF BalancerInv, BrokenKeyIsRemembered, Remembered, SetStatus, memVars, pickVars
  <2> QED
    BY <2>2, <2>3
<1> QED
  BY <1>1, <1>2, <1>3, <1>4 DEF BalancerInv

LEMMA TickKeepsInv ==
  ASSUME BalancerInv, Tick
  PROVE  BalancerInv'
<1>1. TypeOK'
  <2>1. breaker' \in [Keys -> Timers]
    BY DEF BalancerInv, TypeOK, Tick, Timers
  <2>2. lag' \in [Callers -> 0..CbTicks]
    BY DEF BalancerInv, TypeOK, Tick
  <2> QED
    BY <2>1, <2>2 DEF BalancerInv, TypeOK, Tick, dbVars
<1>2. \A k \in Keys : breaker'[k] # NoTimer <=> breaker[k] # NoTimer
  BY DEF BalancerInv, TypeOK, Tick, Timers
<1>3. HoldersHaveKeys'
  BY DEF BalancerInv, HoldersHaveKeys, Tick
<1>4. BreakerFollowsFailures'
  BY <1>2 DEF BalancerInv, BreakerFollowsFailures, Tick
<1>5. BrokenKeyIsRemembered'
  BY <1>2, QuietStep DEF Tick, dbVars
<1> QED
  BY <1>1, <1>3, <1>4, <1>5 DEF BalancerInv

LEMMA RestartKeepsInv ==
  ASSUME BalancerInv, Restart
  PROVE  BalancerInv'
<1>1. forgotten' \subseteq Keys
  BY ForgetSays DEF BalancerInv, TypeOK, Restart
<1>2. TypeOK'
  BY <1>1 DEF BalancerInv, TypeOK, Restart, Timers, Statuses, dbVars
<1>3. HoldersHaveKeys' /\ BreakerFollowsFailures'
  BY DEF Restart, HoldersHaveKeys, Holding, BreakerFollowsFailures
<1>4. BrokenKeyIsRemembered'
  BY ForgetSays DEF BalancerInv, TypeOK, BrokenKeyIsRemembered, Restart
<1> QED
  BY <1>2, <1>3, <1>4 DEF BalancerInv

--------------------------------------------------------------------------------
LEMMA BalancerStep == BalancerInv /\ [Next]_vars => BalancerInv'
<1> SUFFICES ASSUME BalancerInv, [Next]_vars PROVE BalancerInv'
  OBVIOUS
<1>1. CASE UNCHANGED vars
  BY <1>1 DEF BalancerInv, TypeOK, HoldersHaveKeys, BreakerFollowsFailures,
              BrokenKeyIsRemembered, vars, dbVars, memVars, pickVars
<1>2. ASSUME NEW c \in Callers, Sweep(c) PROVE BalancerInv'
  BY <1>2, SweepKeepsInv
<1>3. ASSUME NEW c \in Callers, Picking(c) PROVE BalancerInv'
  BY <1>3, HealKeepsInv, HealFailsKeepsInv, LookKeepsInv, QueryKeepsInv, TakeKeepsInv DEF Picking
<1>4. ASSUME NEW c \in Callers, Using(c) PROVE BalancerInv'
  <2>1. pc[c] = "held" => key[c] \in Keys
    BY DEF BalancerInv, HoldersHaveKeys, Holding
  <2> QED
    BY <1>4, <2>1, GiveBackKeepsInv, ExhaustKeepsInv, RecordKeepsInv DEF Using, Mark
<1>5. ASSUME NEW c \in Callers, Writing(c) PROVE BalancerInv'
  BY <1>5, WritingKeepsInv
<1>6. ASSUME NEW c \in Callers, Testing(c) PROVE BalancerInv'
  BY <1>6, RecordKeepsInv DEF Testing, Test
<1> QED
  BY <1>1, <1>2, <1>3, <1>4, <1>5, <1>6, SetStatusKeepsInv, TickKeepsInv, RestartKeepsInv DEF Next

\* The inductive invariant holds of every behaviour of the balancer.
THEOREM BalancerInvariant == Spec => []BalancerInv
BY BalancerInit, BalancerStep, PTL DEF Spec

\* Type correctness: among others, failure counts never pass the threshold.
THEOREM BalancerTypeCorrect == Spec => []TypeOK
<1>1. BalancerInv => TypeOK
  BY DEF BalancerInv
<1> QED
  BY <1>1, BalancerInvariant, PTL

\* A breaker runs exactly while the failures stand at the threshold.
THEOREM BreakersFollowFailures == Spec => []BreakerFollowsFailures
<1>1. BalancerInv => BreakerFollowsFailures
  BY DEF BalancerInv
<1> QED
  BY <1>1, BalancerInvariant, PTL

\* A row says circuit_breaker only while somebody is there to reset it, or the
\* key is among the forgotten: a restart, a failed transaction, a late write
\* and an operator are the only ways to get there, for any number of keys and callers.
THEOREM BrokenKeysAreRemembered == Spec => []BrokenKeyIsRemembered
<1>1. BalancerInv => BrokenKeyIsRemembered
  BY DEF BalancerInv
<1> QED
  BY <1>1, BalancerInvariant, PTL

--------------------------------------------------------------------------------
\* Who holds a key's slot.
Holders(k) == {c \in Callers : key[c] = k /\ pc[c] \in {"held", "write"}}

\* They are finitely many, before a step and after it.
LEMMA HoldersFinite ==
  ASSUME NEW k
  PROVE  /\ IsFiniteSet(Holders(k)) /\ Cardinality(Holders(k)) \in Nat
         /\ IsFiniteSet(Holders(k)') /\ Cardinality(Holders(k)') \in Nat
<1>1. Holders(k) \subseteq Callers /\ Holders(k)' \subseteq Callers
  BY DEF Holders
<1> QED
  BY <1>1, CallersFinite, FS_Subset, FS_CardinalityType

\* A step that counts nothing and takes no holder away.
LEMMA StepWithoutRelease ==
  ASSUME InflightBounded, BalancerInv, UNCHANGED inflight,
         \A c \in Callers : pc[c] \in {"held", "write"} =>
           pc'[c] \in {"held", "write"} /\ key'[c] = key[c]
  PROVE  InflightBounded'
<1> SUFFICES ASSUME NEW k \in Keys
             PROVE  inflight[k] <= Cardinality(Holders(k)')
  BY DEF InflightBounded, Holders
<1>1. Holders(k) \subseteq Holders(k)'
  BY DEF Holders
<1>2. Cardinality(Holders(k)) <= Cardinality(Holders(k)')
  BY <1>1, HoldersFinite, FS_Subset
<1>3. inflight[k] <= Cardinality(Holders(k)) /\ inflight[k] \in Nat
  BY DEF InflightBounded, Holders, BalancerInv, TypeOK
<1> QED
  BY <1>2, <1>3, HoldersFinite

\* A caller gives its key back.
LEMMA ReleasingStep ==
  ASSUME InflightBounded, BalancerInv, NEW c \in Callers,
         pc[c] \in {"held", "write"}, Release(key[c]), Done(c)
  PROVE  InflightBounded'
<1> SUFFICES ASSUME NEW k \in Keys
             PROVE  inflight'[k] <= Cardinality(Holders(k)')
  BY DEF InflightBounded, Holders
<1>1. inflight[k] <= Cardinality(Holders(k)) /\ inflight[k] \in Nat
  BY DEF InflightBounded, Holders, BalancerInv, TypeOK
<1>2. \A d \in Callers \ {c} : pc'[d] = pc[d] /\ key'[d] = key[d]
  BY DEF BalancerInv, TypeOK, Done, Goto
<1>3. pc'[c] = "idle"
  BY DEF BalancerInv, TypeOK, Done, Goto
<1>4. CASE k = key[c]
  <2>1. c \in Holders(k) /\ Holders(k)' = Holders(k) \ {c}
    BY <1>2, <1>3, <1>4 DEF Holders
  <2>2. Cardinality(Holders(k)') = Cardinality(Holders(k)) - 1
    BY <2>1, HoldersFinite, FS_RemoveElement
  <2>3. inflight'[k] = IF inflight[k] > 0 THEN inflight[k] - 1 ELSE 0
    BY <1>4 DEF Release, BalancerInv, TypeOK
  <2> QED
    BY <1>1, <2>2, <2>3, HoldersFinite
<1>5. CASE k # key[c]
  <2>1. Holders(k)' = Holders(k)
    BY <1>2, <1>3, <1>5 DEF Holders
  <2>2. inflight'[k] = inflight[k]
    BY <1>5 DEF Release, BalancerInv, TypeOK
  <2> QED
    BY <1>1, <2>1, <2>2
<1> QED
  BY <1>4, <1>5

LEMMA TakingStep ==
  ASSUME InflightBounded, BalancerInv, NEW c \in Callers, Take(c)
  PROVE  InflightBounded'
<1> SUFFICES ASSUME NEW k \in Keys
             PROVE  inflight'[k] <= Cardinality(Holders(k)')
  BY DEF InflightBounded, Holders
<1>1. inflight[k] <= Cardinality(Holders(k)) /\ inflight[k] \in Nat
  BY DEF InflightBounded, Holders, BalancerInv, TypeOK
<1>2. /\ \A d \in Callers \ {c} : pc'[d] = pc[d]
      /\ pc[c] = "take" /\ pc'[c] = "held" /\ key' = key
  BY DEF BalancerInv, TypeOK, Take, Goto
<1>3. CASE k = key[c]
  <2>1. c \notin Holders(k) /\ Holders(k)' = Holders(k) \union {c}
    BY <1>2, <1>3 DEF Holders
  <2>2. Cardinality(Holders(k)') = Cardinality(Holders(k)) + 1
    BY <2>1, HoldersFinite, FS_AddElement
  <2>3. inflight'[k] = inflight[k] + 1
    BY <1>3 DEF Take, BalancerInv, TypeOK
  <2> QED
    BY <1>1, <2>2, <2>3, HoldersFinite
<1>4. CASE k # key[c]
  <2>1. Holders(k)' = Holders(k)
    BY <1>2, <1>4 DEF Holders
  <2>2. inflight'[k] = inflight[k]
    BY <1>4 DEF Take, BalancerInv, TypeOK
  <2> QED
    BY <1>1, <2>1, <2>2
<1> QED
  BY <1>3, <1>4

LEMMA InflightStep ==
  ASSUME InflightBounded, BalancerInv, [Next]_vars
  PROVE  InflightBounded'
<1>1. CASE UNCHANGED vars
  BY <1>1 DEF InflightBounded, vars
<1>2. ASSUME NEW c \in Callers, Sweep(c) \/ Picking(c) PROVE InflightBounded'
  <2>1. CASE Take(c)
    BY <2>1, TakingStep
  <2>2. CASE ~Take(c)
    <3>1. /\ inflight' = inflight
          /\ pc[c] \notin {"held", "write"}
          /\ \A d \in Callers \ {c} : pc'[d] = pc[d] /\ key'[d] = key[d]
      BY <1>2, <2>2 DEF BalancerInv, TypeOK, Sweep, Picking, Heal, HealFails, Look, Query, Goto
    <3> QED
      BY <3>1, StepWithoutRelease
  <2> QED
    BY <2>1, <2>2
<1>3. ASSUME NEW c \in Callers, GiveBack(c) \/ Exhaust(c) \/ Writing(c) PROVE InflightBounded'
  <2>1. pc[c] \in {"held", "write"} /\ Release(key[c]) /\ Done(c)
    BY <1>3 DEF GiveBack, Exhaust, Writing, Write, WriteFails
  <2> QED
    BY <2>1, ReleasingStep
<1>4. ASSUME NEW c \in Callers, NEW k \in Keys, NEW v, Test(c, k, v)
      PROVE  InflightBounded'
  <2>1. /\ inflight' = inflight
        /\ pc[c] = "idle"
        /\ \A d \in Callers \ {c} : pc'[d] = pc[d] /\ key'[d] = key[d]
    BY <1>4 DEF BalancerInv, TypeOK, Test, Record, Goto
  <2> QED
    BY <2>1, StepWithoutRelease
<1>5. ASSUME NEW c \in Callers, NEW v, Mark(c, v)
      PROVE  InflightBounded'
  <2>1. /\ inflight' = inflight
        /\ key'[c] = key[c] /\ pc'[c] = "write"
        /\ \A d \in Callers \ {c} : pc'[d] = pc[d] /\ key'[d] = key[d]
    BY <1>5 DEF BalancerInv, TypeOK, Mark, Record, Goto
  <2> QED
    BY <2>1, StepWithoutRelease
<1>6. CASE \E k \in Keys, st \in Statuses : SetStatus(k, st)
  BY <1>6, StepWithoutRelease DEF SetStatus
<1>7. CASE Tick
  BY <1>7, StepWithoutRelease DEF Tick
<1>8. CASE Restart
  <2> SUFFICES ASSUME NEW k \in Keys
               PROVE  inflight'[k] <= Cardinality(Holders(k)')
    BY DEF InflightBounded, Holders
  <2> QED
    BY <1>8, HoldersFinite DEF Restart
<1> QED
  BY <1>1, <1>2, <1>3, <1>4, <1>5, <1>6, <1>7, <1>8 DEF Next, Using, Testing

\* No slot outlives its call: a key never counts more requests in flight than
\* there are callers holding it, for any number of keys and callers.
THEOREM SlotsAreBounded == Spec => []InflightBounded
<1>1. Init => InflightBounded
  <2> SUFFICES ASSUME Init, NEW k \in Keys
               PROVE  inflight[k] <= Cardinality(Holders(k))
    BY DEF InflightBounded, Holders
  <2> QED
    BY HoldersFinite DEF Init
<1>2. InflightBounded /\ BalancerInv /\ [Next]_vars => InflightBounded'
  BY InflightStep
<1> QED
  BY <1>1, <1>2, BalancerInvariant, PTL DEF Spec
================================================================================
