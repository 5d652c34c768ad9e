------------------------------ MODULE ProxyProofs ------------------------------
(* What TLAPS proves of Proxy for any requests, keys and providers, and any    *)
(* number of permits and attempts: types, what a request that has ended may    *)
(* have kept of the semaphore, whom chat() and embeddings() send a key to, and *)
(* how many requests are at the upstream at a time.                            *)
EXTENDS Proxy, FiniteSetTheorems, TLAPS

Inside == {"pick", "cross", "gate", "decrypt", "upstream", "relay", "account", "lastWord"}
AtAKey == {"gate", "decrypt", "upstream", "relay", "account"}

\* The places of embeddings(), which takes no permit.
Embeds == {"embed", "embedCross", "embedUse", "embedCall"}
Using  == AtAKey \union {"embedUse", "embedCall"}

\* What a request holds of the semaphore follows from where it is: a fallback of
\* chat() has cost it one permit more than it has taken.
Base(r) == IF r \notin Streaming /\ fellback[r] THEN -1 ELSE 0
PermitsFollow ==
  \A r \in Requests :
    /\ at[r] \in {"new", "wait"} \union Embeds => holds[r] = Base(r)
    /\ at[r] \in Inside => holds[r] = Base(r) + 1
    /\ at[r] = "over" => \/ holds[r] = Base(r)
                         \/ /\ holds[r] = Base(r) + 1
                            /\ end[r] \in {"raised", "vanished"} \/ Base(r) = -1

\* Only a request that has fallen back is at the fallback, and only a stream is
\* relayed; chat() and embeddings() change the provider and its configuration
\* together.
KeysFollow ==
  \A r \in Requests :
    /\ at[r] \in Using => key[r] \in Keys
    /\ at[r] = "cross" => fellback[r]
    /\ at[r] \in {"relay", "lastWord"} => r \in Streaming
    /\ at[r] \in Embeds => r \notin Streaming
    /\ r \notin Streaming =>
         /\ at[r] \notin {"new", "over"} => cfg[r] = prov[r]
         /\ at[r] \in Using => ProviderOf[key[r]] = prov[r]

ProxyInv == TypeOK /\ PermitsFollow /\ KeysFollow

USE RequestAssumption, KeyAssumption, BoundAssumption

--------------------------------------------------------------------------------
LEMMA ProxyInit == Init => ProxyInv
BY DEF Init, ProxyInv, TypeOK, PermitsFollow, KeysFollow, Base, Inside, AtAKey, Embeds, Using,
       Places, Ends

\* What a step does to the other requests: nothing.
OthersStay(r) ==
  \A o \in Requests \ {r} :
    /\ at'[o] = at[o] /\ end'[o] = end[o] /\ holds'[o] = holds[o] /\ key'[o] = key[o]
    /\ fellback'[o] = fellback[o] /\ prov'[o] = prov[o] /\ cfg'[o] = cfg[o]

\* The invariant of the request that moves is all there is to show.
LEMMA MoverDecides ==
  ASSUME ProxyInv, NEW r \in Requests, OthersStay(r), TypeOK',
         at'[r] \in {"new", "wait"} \union Embeds => holds'[r] = Base(r)',
         at'[r] \in Inside => holds'[r] = Base(r)' + 1,
         at'[r] = "over" => \/ holds'[r] = Base(r)'
                            \/ /\ holds'[r] = Base(r)' + 1
                               /\ end'[r] \in {"raised", "vanished"} \/ Base(r)' = -1,
         at'[r] \in Using => key'[r] \in Keys,
         at'[r] = "cross" => fellback'[r],
         at'[r] \in {"relay", "lastWord"} => r \in Streaming,
         at'[r] \in Embeds => r \notin Streaming,
         r \notin Streaming =>
           /\ at'[r] \notin {"new", "over"} => cfg'[r] = prov'[r]
           /\ at'[r] \in Using => ProviderOf[key'[r]] = prov'[r]
  PROVE  ProxyInv'
<1>1. PermitsFollow'
  BY DEF ProxyInv, PermitsFollow, OthersStay, Base
<1>2. KeysFollow'
  BY DEF ProxyInv, KeysFollow, OthersStay
<1> QED
  BY <1>1, <1>2 DEF ProxyInv

--------------------------------------------------------------------------------
LEMMA MarkTypes ==
  ASSUME TypeOK, NEW r \in Requests, Mark(r)
  PROVE  inflight' \in [Keys -> Nat] /\ key' \in [Requests -> Keys \union {None}]
<1>1. CASE key[r] \in Keys
  BY <1>1 DEF TypeOK, Mark
<1>2. CASE key[r] \notin Keys
  BY <1>2 DEF TypeOK, Mark
<1> QED
  BY <1>1, <1>2

\* Inside the loop's body a cleanup always gives a permit back.
LEMMA CleanupGives ==
  ASSUME ProxyInv, NEW r \in Requests, at[r] \in Inside, Cleanup(r)
  PROVE  /\ permits' = permits + 1 /\ permits' \in Nat
         /\ holds' = [holds EXCEPT ![r] = @ - 1]
         /\ holds' \in [Requests -> -1..1] /\ \A o \in Streaming : holds'[o] >= 0
         /\ holds'[r] = Base(r)
<1>1. holds' = [holds EXCEPT ![r] = @ - 1] /\ permits' = permits + 1
  BY DEF ProxyInv, TypeOK, PermitsFollow, Base, Inside, Cleanup
<1> QED
  BY <1>1 DEF ProxyInv, TypeOK, PermitsFollow, Base

\* Mark and Cleanup, and the next attempt.
LEMMA FailKeepsInv ==
  ASSUME ProxyInv, NEW r \in Requests, at[r] \in Inside, Fail(r), UNCHANGED <<unlocked, loopVars>>
  PROVE  ProxyInv'
<1>1. TypeOK'
  BY CleanupGives, MarkTypes DEF ProxyInv, TypeOK, Fail, Goto, Places, loopVars
<1>2. OthersStay(r)
  BY CleanupGives DEF ProxyInv, TypeOK, OthersStay, Fail, Mark, Goto, loopVars
<1>3. at'[r] = "wait" /\ holds'[r] = Base(r)' /\ cfg'[r] = cfg[r] /\ prov'[r] = prov[r]
  BY CleanupGives DEF ProxyInv, TypeOK, Base, Fail, Goto, loopVars
<1>4. r \notin Streaming => cfg[r] = prov[r]
  BY DEF ProxyInv, KeysFollow, Inside
<1> QED
  BY <1>1, <1>2, <1>3, <1>4, MoverDecides DEF Inside, AtAKey, Embeds, Using

\* The request goes on with its permit and its key.
LEMMA MoveKeepsInv ==
  ASSUME ProxyInv, NEW r \in Requests, NEW place \in {"decrypt", "upstream", "relay", "account"},
         at[r] \in AtAKey, place = "relay" => r \in Streaming,
         Goto(r, place), KeepPermit, KeepSlot, UNCHANGED <<unlocked, loopVars>>
  PROVE  ProxyInv'
<1>1. TypeOK'
  BY DEF ProxyInv, TypeOK, Goto, KeepPermit, KeepSlot, Places, loopVars
<1>2. OthersStay(r)
  BY DEF ProxyInv, TypeOK, OthersStay, Goto, KeepPermit, KeepSlot, loopVars
<1>3. /\ at'[r] = place /\ holds'[r] = holds[r] /\ key'[r] = key[r]
      /\ fellback'[r] = fellback[r] /\ cfg'[r] = cfg[r] /\ prov'[r] = prov[r]
  BY DEF ProxyInv, TypeOK, Goto, KeepPermit, KeepSlot, loopVars
<1>4. /\ holds[r] = Base(r) + 1 /\ key[r] \in Keys
      /\ r \notin Streaming => cfg[r] = prov[r] /\ ProviderOf[key[r]] = prov[r]
  BY DEF ProxyInv, PermitsFollow, KeysFollow, Inside, AtAKey, Using
<1>5. Base(r)' = Base(r)
  BY <1>3 DEF Base
<1> QED
  BY <1>1, <1>2, <1>3, <1>4, <1>5, MoverDecides DEF Inside, AtAKey, Embeds, Using

\* The request leaves and keeps its permit: an exception, or a client gone.
LEMMA LeaveKeepsInv ==
  ASSUME ProxyInv, NEW r \in Requests, NEW how \in {"raised", "vanished"},
         at[r] \in Inside, End(r, how), KeepPermit, KeepSlot, UNCHANGED <<unlocked, loopVars>>
  PROVE  ProxyInv'
<1>1. TypeOK'
  BY DEF ProxyInv, TypeOK, End, KeepPermit, KeepSlot, Places, Ends, loopVars
<1>2. OthersStay(r)
  BY DEF ProxyInv, TypeOK, OthersStay, End, KeepPermit, KeepSlot, loopVars
<1>3. at'[r] = "over" /\ end'[r] = how /\ holds'[r] = Base(r)' + 1
  BY DEF ProxyInv, TypeOK, PermitsFollow, Base, End, KeepPermit, loopVars
<1> QED
  BY <1>1, <1>2, <1>3, MoverDecides DEF Inside, AtAKey, Embeds, Using

\* The request leaves after a cleanup.
LEMMA FinishKeepsInv ==
  ASSUME ProxyInv, NEW r \in Requests, NEW how \in {"answered", "failed", "vanished"},
         at[r] \in Inside, End(r, how), Cleanup(r), Mark(r) \/ KeepSlot,
         UNCHANGED <<unlocked, loopVars>>
  PROVE  ProxyInv'
<1>1. TypeOK'
  <2>1. inflight' \in [Keys -> Nat] /\ key' \in [Requests -> Keys \union {None}]
    BY MarkTypes DEF ProxyInv, TypeOK, KeepSlot
  <2> QED
    BY <2>1, CleanupGives DEF ProxyInv, TypeOK, End, Places, Ends, loopVars
<1>2. OthersStay(r)
  BY CleanupGives DEF ProxyInv, TypeOK, OthersStay, End, Mark, KeepSlot, loopVars
<1>3. at'[r] = "over" /\ holds'[r] = Base(r)'
  BY CleanupGives DEF ProxyInv, TypeOK, Base, End, loopVars
<1> QED
  BY <1>1, <1>2, <1>3, MoverDecides DEF Inside, AtAKey, Embeds, Using

\* A stream that has no key gives its permit back and tries again.
LEMMA RetryKeepsInv ==
  ASSUME ProxyInv, NEW r \in Streaming, at[r] \in Inside, Cleanup(r), KeepSlot,
         Goto(r, "wait"), UNCHANGED <<unlocked, loopVars>>
  PROVE  ProxyInv'
<1>1. TypeOK'
  BY CleanupGives DEF ProxyInv, TypeOK, Goto, KeepSlot, Places, loopVars
<1>2. OthersStay(r)
  BY CleanupGives DEF ProxyInv, TypeOK, OthersStay, Goto, KeepSlot, loopVars
<1>3. at'[r] = "wait" /\ holds'[r] = Base(r)'
  BY CleanupGives DEF ProxyInv, TypeOK, Base, Goto, loopVars
<1> QED
  BY <1>1, <1>2, <1>3, MoverDecides DEF Inside, AtAKey, Embeds, Using

\* A stream that has broken marks its key before it sends its last event.
LEMMA LastWordKeepsInv ==
  ASSUME ProxyInv, NEW r \in Streaming, at[r] \in Inside, Mark(r), KeepPermit,
         Goto(r, "lastWord"), UNCHANGED <<unlocked, loopVars>>
  PROVE  ProxyInv'
<1>1. TypeOK'
  BY MarkTypes DEF ProxyInv, TypeOK, Goto, KeepPermit, Places, loopVars
<1>2. OthersStay(r)
  BY DEF ProxyInv, TypeOK, OthersStay, Goto, KeepPermit, Mark, loopVars
<1>3. at'[r] = "lastWord" /\ holds'[r] = Base(r)' + 1
  BY DEF ProxyInv, TypeOK, PermitsFollow, Base, Goto, KeepPermit, loopVars
<1> QED
  BY <1>1, <1>2, <1>3, MoverDecides DEF Inside, AtAKey, Embeds, Using

--------------------------------------------------------------------------------
LEMMA StartKeepsInv ==
  ASSUME ProxyInv, NEW r \in Requests, NEW p \in Known, Start(r, p)
  PROVE  ProxyInv'
<1>1. TypeOK'
  BY DEF ProxyInv, TypeOK, Start, Goto, KeepPermit, KeepSlot, Places
<1>2. OthersStay(r)
  BY DEF ProxyInv, TypeOK, OthersStay, Start, Goto, KeepPermit, KeepSlot
<1>3. /\ at'[r] = "wait" /\ holds'[r] = Base(r)' /\ cfg'[r] = prov'[r]
  BY DEF ProxyInv, TypeOK, PermitsFollow, Base, Start, Goto, KeepPermit
<1> QED
  BY <1>1, <1>2, <1>3, MoverDecides DEF Inside, AtAKey, Embeds, Using

\* The head of the loop.
LEMMA HeadKeepsInv ==
  ASSUME ProxyInv, NEW r \in Requests, TakePermit(r) \/ TimeOut(r) \/ GiveUp(r)
  PROVE  ProxyInv'
<1>1. holds[r] = Base(r) /\ (r \notin Streaming => cfg[r] = prov[r])
  BY DEF ProxyInv, PermitsFollow, KeysFollow, TakePermit, TimeOut, GiveUp
<1>2. CASE TakePermit(r)
  <2>1. TypeOK'
    BY <1>1, <1>2 DEF ProxyInv, TypeOK, TakePermit, Goto, KeepSlot, Places, Base
  <2>2. OthersStay(r)
    BY <1>2 DEF ProxyInv, TypeOK, OthersStay, TakePermit, Goto, KeepSlot
  <2>3. /\ at'[r] = "pick" /\ holds'[r] = Base(r)' + 1
        /\ cfg'[r] = cfg[r] /\ prov'[r] = prov[r]
    BY <1>1, <1>2 DEF ProxyInv, TypeOK, Base, TakePermit, Goto
  <2> QED
    BY <1>1, <2>1, <2>2, <2>3, MoverDecides DEF Inside, AtAKey, Embeds, Using
<1>3. CASE TimeOut(r)
  <2>1. TypeOK'
    BY <1>3 DEF ProxyInv, TypeOK, TimeOut, Goto, KeepPermit, KeepSlot, Places
  <2>2. OthersStay(r)
    BY <1>3 DEF ProxyInv, TypeOK, OthersStay, TimeOut, Goto, KeepPermit, KeepSlot
  <2>3. /\ at'[r] = "wait" /\ holds'[r] = Base(r)'
        /\ cfg'[r] = cfg[r] /\ prov'[r] = prov[r]
    BY <1>1, <1>3 DEF ProxyInv, TypeOK, Base, TimeOut, Goto, KeepPermit
  <2> QED
    BY <1>1, <2>1, <2>2, <2>3, MoverDecides DEF Inside, AtAKey, Embeds, Using
<1>4. CASE GiveUp(r)
  <2>1. TypeOK'
    BY <1>4 DEF ProxyInv, TypeOK, GiveUp, End, KeepPermit, KeepSlot, Places, Ends, loopVars
  <2>2. OthersStay(r)
    BY <1>4 DEF ProxyInv, TypeOK, OthersStay, GiveUp, End, KeepPermit, KeepSlot, loopVars
  <2>3. at'[r] = "over" /\ holds'[r] = Base(r)'
    BY <1>1, <1>4 DEF ProxyInv, TypeOK, Base, GiveUp, End, KeepPermit, loopVars
  <2> QED
    BY <2>1, <2>2, <2>3, MoverDecides DEF Inside, AtAKey, Embeds, Using
<1> QED
  BY <1>2, <1>3, <1>4

LEMMA PickKeepsInv ==
  ASSUME ProxyInv, NEW r \in Requests, NEW k \in Keys, Pick(r, k)
  PROVE  ProxyInv'
<1>1. TypeOK'
  BY DEF ProxyInv, TypeOK, Pick, Acquire, Goto, KeepPermit, Places, loopVars
<1>2. OthersStay(r)
  BY DEF ProxyInv, TypeOK, OthersStay, Pick, Acquire, Goto, KeepPermit, loopVars
<1>3. /\ at'[r] = "gate" /\ holds'[r] = Base(r)' + 1 /\ key'[r] = k
      /\ cfg'[r] = cfg[r] /\ prov'[r] = prov[r] /\ ProviderOf[k] = prov[r]
  BY DEF ProxyInv, TypeOK, PermitsFollow, Base, Inside, Pick, Acquire, Goto, KeepPermit, loopVars
<1>4. r \notin Streaming => cfg[r] = prov[r]
  BY DEF ProxyInv, KeysFollow, Pick
<1> QED
  BY <1>1, <1>2, <1>3, <1>4, MoverDecides DEF Inside, AtAKey, Embeds, Using

\* chat() falls back without a permit: from now on its base is one lower.
LEMMA RefusedKeepsInv ==
  ASSUME ProxyInv, NEW r \in Requests, Refused(r)
  PROVE  ProxyInv'
<1>0. at[r] \in Inside /\ ~fellback[r] /\ holds[r] = 1 /\ fellback'[r] = TRUE
  BY DEF ProxyInv, TypeOK, PermitsFollow, Base, Inside, Refused
<1>1. CASE r \in Streaming
  <2>1. TypeOK'
    BY <1>1 DEF ProxyInv, TypeOK, Refused, Goto, KeepPermit, KeepSlot, Places
  <2>2. OthersStay(r)
    BY <1>1 DEF ProxyInv, TypeOK, OthersStay, Refused, Goto, KeepPermit, KeepSlot
  <2>3. at'[r] = "cross" /\ holds'[r] = Base(r)' + 1
    BY <1>0, <1>1 DEF ProxyInv, TypeOK, Base, Refused, Goto, KeepPermit
  <2> QED
    BY <1>0, <1>1, <2>1, <2>2, <2>3, MoverDecides DEF Inside, AtAKey, Embeds, Using
<1>2. CASE r \notin Streaming
  <2>0. Cleanup(r)
    BY <1>2 DEF Refused
  <2>1. TypeOK'
    BY <1>0, <2>0, CleanupGives DEF ProxyInv, TypeOK, Refused, Goto, KeepSlot, Places
  <2>2. OthersStay(r)
    BY <1>0, <2>0, CleanupGives DEF ProxyInv, TypeOK, OthersStay, Refused, Goto, KeepSlot
  <2>3. /\ at'[r] = "cross" /\ holds'[r] = 0 /\ Base(r)' = -1
        /\ cfg'[r] = cfg[r] /\ prov'[r] = prov[r] /\ cfg[r] = prov[r]
    BY <1>0, <1>2, <2>0, CleanupGives DEF ProxyInv, TypeOK, KeysFollow, Base, Refused, Goto
  <2> QED
    BY <1>0, <1>2, <2>1, <2>2, <2>3, MoverDecides DEF Inside, AtAKey, Embeds, Using
<1> QED
  BY <1>1, <1>2

LEMMA RefusedForGoodKeepsInv ==
  ASSUME ProxyInv, NEW r \in Requests, RefusedForGood(r)
  PROVE  ProxyInv'
<1>0. at[r] \in Inside /\ holds[r] = Base(r) + 1
  BY DEF ProxyInv, PermitsFollow, Inside, RefusedForGood
<1>1. CASE r \in Streaming
  BY <1>0, <1>1, RetryKeepsInv DEF RefusedForGood
<1>2. CASE r \notin Streaming /\ at[r] = "pick"
  <2>1. Cleanup(r) /\ End(r, "failed") /\ KeepSlot /\ UNCHANGED <<unlocked, loopVars>>
    BY <1>2 DEF RefusedForGood
  <2> QED
    BY <1>0, <2>1, FinishKeepsInv
<1>3. CASE r \notin Streaming /\ at[r] = "cross"
  <2>0. KeepPermit /\ End(r, "failed") /\ KeepSlot /\ UNCHANGED <<unlocked, loopVars>>
    BY <1>3 DEF RefusedForGood
  <2>1. TypeOK'
    BY <2>0 DEF ProxyInv, TypeOK, End, KeepPermit, KeepSlot, Places, Ends, loopVars
  <2>2. OthersStay(r)
    BY <2>0 DEF ProxyInv, TypeOK, OthersStay, End, KeepPermit, KeepSlot, loopVars
  <2>3. at'[r] = "over" /\ holds'[r] = Base(r)' + 1 /\ Base(r)' = -1
    BY <1>0, <1>3, <2>0 DEF ProxyInv, TypeOK, KeysFollow, Base, End, KeepPermit, loopVars
  <2> QED
    BY <2>1, <2>2, <2>3, MoverDecides DEF Inside, AtAKey, Embeds, Using
<1> QED
  BY <1>1, <1>2, <1>3 DEF RefusedForGood

LEMMA CrossKeepsInv ==
  ASSUME ProxyInv, NEW r \in Requests, NEW k \in Keys, Cross(r, k)
  PROVE  ProxyInv'
<1>0. /\ at[r] \in Inside /\ holds[r] = Base(r) + 1 /\ fellback[r]
      /\ fellback' = fellback /\ Base(r)' = Base(r)
  BY DEF ProxyInv, PermitsFollow, KeysFollow, Base, Inside, Cross
<1>1. CASE ProviderOf[k] \in Known
  <2>0. /\ cfg' = [cfg EXCEPT ![r] = ProviderOf[k]]
        /\ prov' = [prov EXCEPT ![r] = ProviderOf[k]]
        /\ Acquire(r, k) /\ KeepPermit /\ Goto(r, "gate")
        /\ UNCHANGED <<unlocked, tries, fellback, home>>
    BY <1>1 DEF Cross
  <2>1. TypeOK'
    BY <1>1, <2>0 DEF ProxyInv, TypeOK, Acquire, Goto, KeepPermit, Places
  <2>2. OthersStay(r)
    BY <2>0 DEF ProxyInv, TypeOK, OthersStay, Acquire, Goto, KeepPermit
  <2>3. /\ at'[r] = "gate" /\ holds'[r] = holds[r] /\ key'[r] = k
        /\ cfg'[r] = ProviderOf[k] /\ prov'[r] = ProviderOf[k]
    BY <2>0 DEF ProxyInv, TypeOK, Acquire, Goto, KeepPermit
  <2> QED
    BY <1>0, <2>1, <2>2, <2>3, MoverDecides DEF Inside, AtAKey, Embeds, Using
<1>2. CASE ProviderOf[k] \notin Known
  <2>0. /\ prov' = [prov EXCEPT ![r] = ProviderOf[k]]
        /\ inflight' = [inflight EXCEPT ![k] = @ + 1]
        /\ UNCHANGED <<key, cfg, unlocked, tries, fellback, home>>
        /\ IF r \in Streaming THEN Cleanup(r) /\ Goto(r, "wait")
                               ELSE KeepPermit /\ End(r, "failed")
    BY <1>2 DEF Cross
  <2>1. prov' \in [Requests -> Providers \union {None}] /\ inflight' \in [Keys -> Nat]
    BY <2>0 DEF ProxyInv, TypeOK
  <2>2. CASE r \in Streaming
    <3>1. TypeOK'
      BY <1>0, <2>0, <2>1, <2>2, CleanupGives DEF ProxyInv, TypeOK, Goto, Places
    <3>2. OthersStay(r)
      BY <1>0, <2>0, <2>2, CleanupGives DEF ProxyInv, TypeOK, OthersStay, Goto
    <3>3. at'[r] = "wait" /\ holds'[r] = Base(r)'
      BY <1>0, <2>0, <2>2, CleanupGives DEF ProxyInv, TypeOK, Goto
    <3> QED
      BY <2>2, <3>1, <3>2, <3>3, MoverDecides DEF Inside, AtAKey, Embeds, Using
  <2>3. CASE r \notin Streaming
    <3>1. TypeOK'
      BY <2>0, <2>1, <2>3 DEF ProxyInv, TypeOK, End, KeepPermit, Places, Ends
    <3>2. OthersStay(r)
      BY <2>0, <2>3 DEF ProxyInv, TypeOK, OthersStay, End, KeepPermit
    <3>3. at'[r] = "over" /\ holds'[r] = Base(r)' + 1 /\ Base(r)' = -1
      BY <1>0, <2>0, <2>3 DEF ProxyInv, TypeOK, Base, End, KeepPermit
    <3> QED
      BY <3>1, <3>2, <3>3, MoverDecides DEF Inside, AtAKey, Embeds, Using
  <2> QED
    BY <2>2, <2>3
<1> QED
  BY <1>1, <1>2

--------------------------------------------------------------------------------
LEMMA ProceedKeepsInv ==
  ASSUME ProxyInv, NEW r \in Requests, Proceed(r)
  PROVE  ProxyInv'
<1>1. CASE TakePermit(r) \/ TimeOut(r) \/ GiveUp(r)
  BY <1>1, HeadKeepsInv
<1>2. CASE \E k \in Keys : Pick(r, k) \/ Cross(r, k)
  BY <1>2, PickKeepsInv, CrossKeepsInv
<1>3. CASE Refused(r) \/ RefusedForGood(r)
  BY <1>3, RefusedKeepsInv, RefusedForGoodKeepsInv
<1>4. CASE TurnedAway(r)
  BY <1>4, FailKeepsInv DEF TurnedAway, Inside
<1>5. CASE Admitted(r) \/ UpstreamAnswers(r) \/ RelayEnds(r)
  BY <1>5, MoveKeepsInv DEF Admitted, UpstreamAnswers, RelayEnds, AtAKey
<1>6. ASSUME at[r] \in Inside, Broken(r), UNCHANGED <<unlocked, loopVars>> PROVE ProxyInv'
  BY <1>6, FailKeepsInv, LeaveKeepsInv DEF Broken
<1>7. CASE GateBreaks(r) \/ UpstreamFails(r)
  BY <1>6, <1>7, FailKeepsInv DEF GateBreaks, UpstreamFails, Inside
<1>8. CASE Decrypt(r)
  <2>1. CASE unlocked /\ key[r] \in Legacy
    BY <1>8, <2>1, MoveKeepsInv DEF Decrypt, AtAKey
  <2>2. CASE ~(unlocked /\ key[r] \in Legacy)
    BY <1>6, <1>8, <2>2 DEF Decrypt, Inside
  <2> QED
    BY <2>1, <2>2
<1>9. CASE RelayStops(r) \/ LastWordTaken(r) \/ Account(r)
  BY <1>9, FinishKeepsInv DEF RelayStops, LastWordTaken, Account, Inside
<1>10. CASE LastWordRefused(r)
  BY <1>10, LeaveKeepsInv DEF LastWordRefused, Inside
<1>11. CASE RelayBreaks(r)
  <2>1. r \in Streaming
    BY <1>11 DEF ProxyInv, KeysFollow, RelayBreaks
  <2> QED
    BY <1>11, <2>1, LastWordKeepsInv DEF RelayBreaks, Inside
<1>12. CASE AccountBreaks(r)
  <2>1. CASE r \in Streaming
    BY <1>12, <2>1, LastWordKeepsInv DEF AccountBreaks, Inside
  <2>2. CASE r \notin Streaming
    BY <1>12, <2>2, LeaveKeepsInv DEF AccountBreaks, Inside
  <2> QED
    BY <2>1, <2>2
<1>13. CASE PickBreaks(r)
  <2>1. CASE r \in Streaming
    BY <1>13, <2>1, RetryKeepsInv DEF PickBreaks, Inside
  <2>2. CASE r \notin Streaming
    BY <1>13, <2>2, LeaveKeepsInv DEF PickBreaks, Inside
  <2> QED
    BY <2>1, <2>2
<1> QED
  BY <1>1, <1>2, <1>3, <1>4, <1>5, <1>7, <1>8, <1>9, <1>10, <1>11, <1>12, <1>13 DEF Proceed

\* embeddings() between its key and its end: types, its place and the key.
LEMMA EmbedMoveKeepsInv ==
  ASSUME ProxyInv, NEW r \in Requests, NEW place \in {"embedCross", "embedCall"},
         at[r] \in Embeds, place = "embedCall" => at[r] = "embedUse",
         Goto(r, place), KeepPermit, KeepSlot, UNCHANGED <<unlocked, loopVars>>
  PROVE  ProxyInv'
<1>1. TypeOK'
  BY DEF ProxyInv, TypeOK, Goto, KeepPermit, KeepSlot, Places, loopVars
<1>2. OthersStay(r)
  BY DEF ProxyInv, TypeOK, OthersStay, Goto, KeepPermit, KeepSlot, loopVars
<1>3. /\ at'[r] = place /\ holds'[r] = holds[r] /\ key'[r] = key[r]
      /\ fellback'[r] = fellback[r] /\ cfg'[r] = cfg[r] /\ prov'[r] = prov[r]
  BY DEF ProxyInv, TypeOK, Goto, KeepPermit, KeepSlot, loopVars
<1>4. /\ holds[r] = Base(r) /\ r \notin Streaming /\ cfg[r] = prov[r]
      /\ at[r] = "embedUse" => key[r] \in Keys /\ ProviderOf[key[r]] = prov[r]
  BY DEF ProxyInv, PermitsFollow, KeysFollow, Embeds, Using
<1>5. Base(r)' = Base(r)
  BY <1>3 DEF Base
<1> QED
  BY <1>1, <1>2, <1>3, <1>4, <1>5, MoverDecides DEF Inside, AtAKey, Embeds, Using

\* The end of embeddings(), with a key to mark or without one.
LEMMA EmbedLeaveKeepsInv ==
  ASSUME ProxyInv, NEW r \in Requests, NEW how \in {"answered", "failed"},
         at[r] \in Embeds, End(r, how), KeepPermit, Mark(r) \/ KeepSlot,
         UNCHANGED <<unlocked, loopVars>>
  PROVE  ProxyInv'
<1>1. TypeOK'
  <2>1. inflight' \in [Keys -> Nat] /\ key' \in [Requests -> Keys \union {None}]
    BY MarkTypes DEF ProxyInv, TypeOK, KeepSlot
  <2> QED
    BY <2>1 DEF ProxyInv, TypeOK, End, KeepPermit, Places, Ends, loopVars
<1>2. OthersStay(r)
  BY DEF ProxyInv, TypeOK, OthersStay, End, KeepPermit, Mark, KeepSlot, loopVars
<1>3. at'[r] = "over" /\ holds'[r] = Base(r)'
  BY DEF ProxyInv, TypeOK, PermitsFollow, Base, End, KeepPermit, loopVars
<1> QED
  BY <1>1, <1>2, <1>3, MoverDecides DEF Inside, AtAKey, Embeds, Using

\* The two ways to a key take a slot and agree on the provider.
LEMMA EmbedTakeKeepsInv ==
  ASSUME ProxyInv, NEW r \in Requests, NEW k \in Keys,
         EmbedPick(r, k) \/ EmbedCross(r, k),
         at[r] = "embedCross" => ProviderOf[k] \in Known
  PROVE  ProxyInv'
<1>0. /\ at[r] \in Embeds /\ r \notin Streaming /\ cfg[r] = prov[r] /\ holds[r] = Base(r)
      /\ Acquire(r, k) /\ Goto(r, "embedUse") /\ KeepPermit
      /\ UNCHANGED <<unlocked, tries, fellback, home>>
  BY DEF ProxyInv, PermitsFollow, KeysFollow, Embeds, EmbedPick, EmbedCross, loopVars
<1>1. \/ UNCHANGED <<cfg, prov>> /\ ProviderOf[k] = prov[r]
      \/ /\ cfg' = [cfg EXCEPT ![r] = ProviderOf[k]] /\ prov' = [prov EXCEPT ![r] = ProviderOf[k]]
         /\ ProviderOf[k] \in Known
  BY DEF EmbedPick, EmbedCross, loopVars
<1>2. TypeOK'
  BY <1>0, <1>1 DEF ProxyInv, TypeOK, Acquire, Goto, KeepPermit, Places
<1>3. OthersStay(r)
  BY <1>0, <1>1 DEF ProxyInv, TypeOK, OthersStay, Acquire, Goto, KeepPermit
<1>4. /\ at'[r] = "embedUse" /\ holds'[r] = Base(r)' /\ key'[r] = k
      /\ cfg'[r] = ProviderOf[k] /\ prov'[r] = ProviderOf[k]
  BY <1>0, <1>1 DEF ProxyInv, TypeOK, Base, Acquire, Goto, KeepPermit
<1> QED
  BY <1>0, <1>2, <1>3, <1>4, MoverDecides DEF Inside, AtAKey, Embeds, Using

LEMMA EmbedStartKeepsInv ==
  ASSUME ProxyInv, NEW r \in Requests, NEW p \in Known, NEW q \in Known, EmbedStart(r, p, q)
  PROVE  ProxyInv'
<1>0. r \notin Streaming
  BY DEF EmbedStart
<1>1. TypeOK'
  BY DEF ProxyInv, TypeOK, EmbedStart, Goto, KeepPermit, KeepSlot, Places
<1>2. OthersStay(r)
  BY DEF ProxyInv, TypeOK, OthersStay, EmbedStart, Goto, KeepPermit, KeepSlot
<1>3. at'[r] = "embed" /\ holds'[r] = Base(r)' /\ cfg'[r] = prov'[r]
  BY DEF ProxyInv, TypeOK, PermitsFollow, Base, EmbedStart, Goto, KeepPermit
<1> QED
  BY <1>0, <1>1, <1>2, <1>3, MoverDecides DEF Inside, AtAKey, Embeds, Using

LEMMA EmbedKeepsInv ==
  ASSUME ProxyInv, NEW r \in Requests, Embed(r)
  PROVE  ProxyInv'
<1>1. ASSUME NEW k \in Keys, EmbedCross(r, k) PROVE ProxyInv'
  <2>1. CASE ProviderOf[k] \in Known
    BY <1>1, <2>1, EmbedTakeKeepsInv
  <2>2. CASE ProviderOf[k] \notin Known
    BY <1>1, <2>2, EmbedLeaveKeepsInv DEF EmbedCross, Embeds, loopVars
  <2> QED
    BY <2>1, <2>2
<1>2. ASSUME NEW k \in Keys, EmbedPick(r, k) PROVE ProxyInv'
  BY <1>2, EmbedTakeKeepsInv DEF EmbedPick
<1>3. CASE EmbedRefused(r) \/ EmbedDecrypts(r)
  BY <1>3, EmbedMoveKeepsInv DEF EmbedRefused, EmbedDecrypts, Embeds
<1>4. CASE EmbedGivesUp(r)
  BY <1>4, EmbedLeaveKeepsInv DEF EmbedGivesUp, Embeds
<1>5. CASE \E how \in {"answered", "failed"} : EmbedEnds(r, how)
  BY <1>5, EmbedLeaveKeepsInv DEF EmbedEnds, Embeds
<1> QED
  BY <1>1, <1>2, <1>3, <1>4, <1>5 DEF Embed

LEMMA ProxyStep == ProxyInv /\ [Next]_vars => ProxyInv'
<1> SUFFICES ASSUME ProxyInv, [Next]_vars PROVE ProxyInv'
  OBVIOUS
<1>1. CASE UNCHANGED vars
  BY <1>1 DEF ProxyInv, TypeOK, PermitsFollow, KeysFollow, Base, vars, loopVars
<1>2. CASE LockOrUnlock
  BY <1>2 DEF ProxyInv, TypeOK, PermitsFollow, KeysFollow, Base, LockOrUnlock, loopVars
<1> QED
  BY <1>1, <1>2, ProceedKeepsInv, StartKeepsInv, EmbedStartKeepsInv, EmbedKeepsInv DEF Next

\* The inductive invariant holds of every behaviour of the proxy.
THEOREM ProxyInvariant == Spec => []ProxyInv
BY ProxyInit, ProxyStep, PTL DEF Spec

\* Type correctness: a request never holds more than one permit, and a stream
\* never gives back one it does not hold.
THEOREM ProxyTypeCorrect == Spec => []TypeOK
<1>1. ProxyInv => TypeOK
  BY DEF ProxyInv
<1> QED
  BY <1>1, ProxyInvariant, PTL

\* A request that has ended has given its permit back, but for the three ways
\* PermitsReturned names, for any number of requests, permits and attempts.
THEOREM PermitsAreReturned == Spec => []PermitsReturned
<1>1. ProxyInv => PermitsReturned
  BY DEF ProxyInv, TypeOK, PermitsFollow, PermitsReturned, Base
<1> QED
  BY <1>1, ProxyInvariant, PTL

\* chat() and embeddings() call the URL of the key's own provider, for any provider
\* table and any names in the keys' rows.
THEOREM ChatKeysGoHome == Spec => []ChatKeyGoesHome
<1>1. ProxyInv => ChatKeyGoesHome
  BY DEF ProxyInv, KeysFollow, ChatKeyGoesHome, AtAKey, Using
<1> QED
  BY <1>1, ProxyInvariant, PTL

--------------------------------------------------------------------------------
\* The semaphore's books, for any number of requests, permits and attempts: a
\* permit is either in the counter or with a request, but for the one that the
\* fallback of each chat() adds.
Holders  == {r \in Requests : holds[r] = Base(r) + 1}
Fallen   == {r \in Requests \ Streaming : fellback[r]}
Upstream == {r \in Requests : at[r] \in {"upstream", "relay"}}

BooksBalance == permits + Cardinality(Holders) = MaxPermits + Cardinality(Fallen)

LEMMA BooksFinite ==
  /\ IsFiniteSet(Holders) /\ Cardinality(Holders) \in Nat
  /\ IsFiniteSet(Fallen) /\ Cardinality(Fallen) \in Nat
  /\ IsFiniteSet(Upstream) /\ Cardinality(Upstream) \in Nat
<1>1. Holders \subseteq Requests /\ Fallen \subseteq Requests /\ Upstream \subseteq Requests
  BY DEF Holders, Fallen, Upstream
<1> QED
  BY <1>1, RequestAssumption, FS_Subset, FS_CardinalityType

LEMMA BooksInit == Init => BooksBalance
<1> SUFFICES ASSUME Init PROVE BooksBalance
  OBVIOUS
<1>1. Holders = {} /\ Fallen = {}
  BY DEF Init, Holders, Fallen, Base
<1>2. permits = MaxPermits
  BY DEF Init
<1> QED
  BY <1>1, <1>2, FS_EmptySet DEF BooksBalance

\* Nothing a step does to the books: neither permits nor a fallback.
LEMMA BooksKept ==
  ASSUME BooksBalance, KeepPermit, UNCHANGED fellback
  PROVE  BooksBalance'
<1>1. Holders' = Holders /\ Fallen' = Fallen
  BY DEF Holders, Fallen, Base, KeepPermit
<1> QED
  BY <1>1 DEF BooksBalance, KeepPermit

LEMMA BooksTake ==
  ASSUME ProxyInv, BooksBalance, NEW r \in Requests, TakePermit(r)
  PROVE  BooksBalance'
<1>1. holds[r] = Base(r) /\ Base(r) \in Int
  BY DEF ProxyInv, PermitsFollow, TakePermit, Base
<1>2. r \notin Holders /\ Holders' = Holders \union {r} /\ Fallen' = Fallen
  BY <1>1 DEF ProxyInv, TypeOK, Holders, Fallen, Base, TakePermit
<1>3. Cardinality(Holders') = Cardinality(Holders) + 1
  BY <1>2, BooksFinite, FS_AddElement
<1> QED
  BY <1>2, <1>3, BooksFinite DEF BooksBalance, ProxyInv, TypeOK, TakePermit

LEMMA BooksGive ==
  ASSUME ProxyInv, BooksBalance, NEW r \in Requests, at[r] \in Inside, Cleanup(r),
         UNCHANGED fellback
  PROVE  BooksBalance'
<1>1. holds[r] = Base(r) + 1 /\ Base(r) \in Int /\ Base(r)' = Base(r)
  BY DEF ProxyInv, PermitsFollow, Base
<1>2. /\ holds' = [holds EXCEPT ![r] = @ - 1] /\ holds'[r] = Base(r)
      /\ permits' = permits + 1
  BY CleanupGives
<1>3. r \in Holders /\ Holders' = Holders \ {r} /\ Fallen' = Fallen
  BY <1>1, <1>2 DEF ProxyInv, TypeOK, Holders, Fallen, Base
<1>4. Cardinality(Holders') = Cardinality(Holders) - 1
  BY <1>3, BooksFinite, FS_RemoveElement
<1> QED
  BY <1>2, <1>3, <1>4, BooksFinite DEF BooksBalance, ProxyInv, TypeOK

\* The permit chat() gives back before its fallback is the one it gives back again.
LEMMA BooksFallback ==
  ASSUME ProxyInv, BooksBalance, NEW r \in Requests, Refused(r)
  PROVE  BooksBalance'
<1>0. at[r] \in Inside /\ ~fellback[r] /\ fellback' = [fellback EXCEPT ![r] = TRUE]
  BY DEF Refused, Inside
<1>1. CASE r \in Streaming
  <2>1. Holders' = Holders /\ Fallen' = Fallen /\ permits' = permits
    BY <1>0, <1>1 DEF ProxyInv, TypeOK, Holders, Fallen, Base, Refused, KeepPermit
  <2> QED
    BY <2>1 DEF BooksBalance
<1>2. CASE r \notin Streaming
  <2>0. Cleanup(r)
    BY <1>2 DEF Refused
  <2>1. /\ holds' = [holds EXCEPT ![r] = @ - 1] /\ permits' = permits + 1
        /\ holds[r] = 1
    BY <1>0, <2>0, CleanupGives DEF ProxyInv, PermitsFollow, Base
  <2>2. Holders' = Holders
    BY <1>0, <1>2, <2>1 DEF ProxyInv, TypeOK, Holders, Base
  <2>3. r \notin Fallen /\ Fallen' = Fallen \union {r}
    BY <1>0, <1>2 DEF ProxyInv, TypeOK, Fallen
  <2>4. Cardinality(Fallen') = Cardinality(Fallen) + 1
    BY <2>3, BooksFinite, FS_AddElement
  <2> QED
    BY <2>1, <2>2, <2>4, BooksFinite, BoundAssumption DEF BooksBalance, ProxyInv, TypeOK
<1> QED
  BY <1>1, <1>2

LEMMA BooksProceed ==
  ASSUME ProxyInv, BooksBalance, NEW r \in Requests, Proceed(r)
  PROVE  BooksBalance'
<1>0. UNCHANGED loopVars => UNCHANGED fellback
  BY DEF loopVars
<1>1. CASE TakePermit(r)
  BY <1>1, BooksTake
<1>2. CASE TimeOut(r) \/ GiveUp(r)
  BY <1>0, <1>2, BooksKept DEF TimeOut, GiveUp
<1>3. CASE \E k \in Keys : Pick(r, k)
  BY <1>0, <1>3, BooksKept DEF Pick
<1>4. ASSUME NEW k \in Keys, Cross(r, k) PROVE BooksBalance'
  BY <1>4, BooksKept, BooksGive DEF Cross, Inside
<1>5. CASE Refused(r)
  BY <1>5, BooksFallback
<1>6. CASE RefusedForGood(r) \/ PickBreaks(r)
  BY <1>0, <1>6, BooksKept, BooksGive DEF RefusedForGood, PickBreaks, Inside
<1>7. CASE TurnedAway(r)
  BY <1>0, <1>7, BooksGive DEF TurnedAway, Fail, Inside
<1>8. CASE Admitted(r) \/ UpstreamAnswers(r) \/ RelayEnds(r) \/ RelayBreaks(r)
           \/ LastWordRefused(r)
  BY <1>0, <1>8, BooksKept DEF Admitted, UpstreamAnswers, RelayEnds, RelayBreaks, LastWordRefused
<1>9. CASE GateBreaks(r) \/ Decrypt(r) \/ UpstreamFails(r)
  BY <1>0, <1>9, BooksKept, BooksGive
     DEF GateBreaks, Decrypt, UpstreamFails, Broken, Fail, Inside
<1>10. CASE RelayStops(r) \/ LastWordTaken(r) \/ Account(r)
  BY <1>0, <1>10, BooksGive DEF RelayStops, LastWordTaken, Account, Inside
<1>11. CASE AccountBreaks(r)
  BY <1>0, <1>11, BooksKept DEF AccountBreaks
<1> QED
  BY <1>1, <1>2, <1>3, <1>4, <1>5, <1>6, <1>7, <1>8, <1>9, <1>10, <1>11 DEF Proceed

LEMMA BooksStep == ProxyInv /\ BooksBalance /\ [Next]_vars => BooksBalance'
<1> SUFFICES ASSUME ProxyInv, BooksBalance, [Next]_vars PROVE BooksBalance'
  OBVIOUS
<1>1. CASE UNCHANGED vars
  BY <1>1, BooksKept DEF vars, loopVars, KeepPermit
<1>2. CASE LockOrUnlock
  BY <1>2, BooksKept DEF LockOrUnlock, loopVars, KeepPermit
<1>3. ASSUME NEW r \in Requests, NEW p \in Known, NEW q \in Known,
             Start(r, p) \/ EmbedStart(r, p, q)
      PROVE  BooksBalance'
  BY <1>3, BooksKept DEF Start, EmbedStart
<1>4. ASSUME NEW r \in Requests, Embed(r) PROVE BooksBalance'
  BY <1>4, BooksKept DEF Embed, EmbedPick, EmbedCross, EmbedRefused, EmbedGivesUp,
     EmbedDecrypts, EmbedEnds, loopVars
<1> QED
  BY <1>1, <1>2, <1>3, <1>4, BooksProceed DEF Next

\* Every permit is accounted for: the counter and the holders make up
\* KEYHUB_LLM_MAX_CONCURRENT and one for each chat() that has fallen back.
THEOREM PermitBooks == Spec => []BooksBalance
<1>1. ProxyInv /\ BooksBalance /\ [Next]_vars => BooksBalance'
  BY BooksStep
<1> QED
  BY <1>1, BooksInit, ProxyInvariant, PTL DEF Spec

\* A request at the upstream is one of the holders, so that there are never more
\* of them than the limit and the chats that have fallen back.
THEOREM UpstreamBounded == Spec => []ConcurrencyBounded
<1>1. ProxyInv /\ BooksBalance => ConcurrencyBounded
  <2> SUFFICES ASSUME ProxyInv, BooksBalance PROVE ConcurrencyBounded
    OBVIOUS
  <2>1. Upstream \subseteq Holders
    BY DEF ProxyInv, PermitsFollow, Upstream, Holders, Inside
  <2>2. Cardinality(Upstream) <= Cardinality(Holders)
    BY <2>1, BooksFinite, FS_Subset
  <2> QED
    BY <2>2, BooksFinite DEF BooksBalance, ProxyInv, TypeOK, ConcurrencyBounded, Upstream, Fallen
<1> QED
  BY <1>1, ProxyInvariant, PermitBooks, PTL

--------------------------------------------------------------------------------
\* The slots of the keys.  A request names a key from its pick to its mark; the
\* provider whose keys it picks is in the table until a fallback found one that
\* is not, and such a request never falls back again.
Strayed == {r \in Requests : fellback[r] /\ prov[r] \notin Known}
At(k)   == {r \in Requests : key[r] = k}

KeyPlaces ==
  \A r \in Requests :
    /\ at[r] \notin Using \union {"over"} => key[r] = None
    /\ at[r] = "over" /\ key[r] # None => end[r] = "raised"
    /\ at[r] = "new" => ~fellback[r]
    /\ at[r] # "new" /\ ~fellback[r] => prov[r] \in Known
    /\ at[r] \in {"cross"} \union Embeds => prov[r] \in Known

SlotsCount ==
  \A k \in Keys : inflight[k] <= Cardinality(At(k)) + Cardinality(Strayed)

SlotsFinite(k) == /\ IsFiniteSet(At(k)) /\ Cardinality(At(k)) \in Nat
                  /\ IsFiniteSet(Strayed) /\ Cardinality(Strayed) \in Nat

LEMMA SlotsAreFinite == \A k : SlotsFinite(k)
<1>1. \A k : At(k) \subseteq Requests /\ Strayed \subseteq Requests
  BY DEF At, Strayed
<1> QED
  BY <1>1, RequestAssumption, FS_Subset, FS_CardinalityType DEF SlotsFinite

LEMMA SlotsAreFinitePrimed == \A k : SlotsFinite(k)'
<1>1. \A k : At(k)' \subseteq Requests /\ Strayed' \subseteq Requests
  BY DEF At, Strayed
<1> QED
  BY <1>1, RequestAssumption, FS_Subset, FS_CardinalityType DEF SlotsFinite

LEMMA SlotsInit == Init => KeyPlaces /\ SlotsCount
<1> SUFFICES ASSUME Init PROVE KeyPlaces /\ SlotsCount
  OBVIOUS
<1>1. KeyPlaces
  BY DEF Init, KeyPlaces, Embeds
<1>2. SlotsCount
  BY SlotsAreFinite DEF Init, SlotsCount, SlotsFinite
<1> QED
  BY <1>1, <1>2

\* The key of the request that moves decides, as for the permits.
LEMMA KeyMoverDecides ==
  ASSUME KeyPlaces, NEW r \in Requests, OthersStay(r),
         at'[r] \notin Using \union {"over"} => key'[r] = None,
         at'[r] = "over" /\ key'[r] # None => end'[r] = "raised",
         at'[r] = "new" => ~fellback'[r],
         at'[r] # "new" /\ ~fellback'[r] => prov'[r] \in Known,
         at'[r] \in {"cross"} \union Embeds => prov'[r] \in Known
  PROVE  KeyPlaces'
BY DEF KeyPlaces, OthersStay

\* A step that leaves the slots alone.
LEMMA SlotsKept ==
  ASSUME SlotsCount, KeepSlot, Strayed' = Strayed
  PROVE  SlotsCount'
<1>1. \A k : At(k)' = At(k)
  BY DEF At, KeepSlot
<1> QED
  BY <1>1 DEF SlotsCount, KeepSlot

\* The request's own provider is in the table, and stays so: it has not strayed.
LEMMA SlotsAcquire ==
  ASSUME ProxyInv, SlotsCount, NEW r \in Requests, NEW k \in Keys,
         key[r] = None, Acquire(r, k), Strayed' = Strayed
  PROVE  SlotsCount'
<1> SUFFICES ASSUME NEW l \in Keys
             PROVE  inflight'[l] <= Cardinality(At(l)') + Cardinality(Strayed')
  BY DEF SlotsCount
<1>0. inflight[l] <= Cardinality(At(l)) + Cardinality(Strayed) /\ inflight[l] \in Nat
  BY DEF SlotsCount, ProxyInv, TypeOK
<1>1. CASE l = k
  <2>1. r \notin At(l) /\ At(l)' = At(l) \union {r} /\ inflight'[l] = inflight[l] + 1
    BY <1>1 DEF ProxyInv, TypeOK, At, Acquire
  <2>2. Cardinality(At(l)') = Cardinality(At(l)) + 1
    BY <2>1, SlotsAreFinite, FS_AddElement DEF SlotsFinite
  <2> QED
    BY <1>0, <2>1, <2>2, SlotsAreFinite DEF SlotsFinite
<1>2. CASE l # k
  <2>1. At(l)' = At(l) /\ inflight'[l] = inflight[l]
    BY <1>2 DEF ProxyInv, TypeOK, At, Acquire
  <2> QED
    BY <1>0, <2>1
<1> QED
  BY <1>1, <1>2

LEMMA SlotsMark ==
  ASSUME ProxyInv, SlotsCount, NEW r \in Requests, key[r] \in Keys, Mark(r), Strayed' = Strayed
  PROVE  SlotsCount'
<1> SUFFICES ASSUME NEW l \in Keys
             PROVE  inflight'[l] <= Cardinality(At(l)') + Cardinality(Strayed')
  BY DEF SlotsCount
<1>0. inflight[l] <= Cardinality(At(l)) + Cardinality(Strayed) /\ inflight[l] \in Nat
  BY DEF SlotsCount, ProxyInv, TypeOK
<1>1. CASE l = key[r]
  <2>1. /\ r \in At(l) /\ At(l)' = At(l) \ {r}
        /\ inflight'[l] = IF inflight[l] > 0 THEN inflight[l] - 1 ELSE 0
    BY <1>1 DEF ProxyInv, TypeOK, At, Mark
  <2>2. Cardinality(At(l)') = Cardinality(At(l)) - 1
    BY <2>1, SlotsAreFinite, FS_RemoveElement DEF SlotsFinite
  <2>3. /\ Cardinality(At(l)) \in Nat /\ Cardinality(Strayed) \in Nat
        /\ Cardinality(At(l)') \in Nat
    BY SlotsAreFinite, SlotsAreFinitePrimed DEF SlotsFinite
  <2> QED
    BY <1>0, <2>1, <2>2, <2>3
<1>2. CASE l # key[r]
  <2>1. At(l)' = At(l) /\ inflight'[l] = inflight[l]
    BY <1>2 DEF ProxyInv, TypeOK, At, Mark
  <2> QED
    BY <1>0, <2>1
<1> QED
  BY <1>1, <1>2

\* The fallback to a provider the table does not know: a slot nobody gives back,
\* and a request that has strayed.
LEMMA SlotsStray ==
  ASSUME ProxyInv, KeyPlaces, SlotsCount, NEW r \in Requests, NEW k \in Keys,
         Cross(r, k), ProviderOf[k] \notin Known
  PROVE  SlotsCount'
<1> SUFFICES ASSUME NEW l \in Keys
             PROVE  inflight'[l] <= Cardinality(At(l)') + Cardinality(Strayed')
  BY DEF SlotsCount
<1>0. inflight[l] <= Cardinality(At(l)) + Cardinality(Strayed) /\ inflight[l] \in Nat
  BY DEF SlotsCount, ProxyInv, TypeOK
<1>1. /\ inflight' = [inflight EXCEPT ![k] = @ + 1]
      /\ prov' = [prov EXCEPT ![r] = ProviderOf[k]]
      /\ UNCHANGED <<key, fellback>> /\ at[r] = "cross"
  BY DEF Cross
<1>2. fellback[r] /\ prov[r] \in Known
  BY <1>1 DEF ProxyInv, KeysFollow, KeyPlaces
<1>3. r \notin Strayed /\ Strayed' = Strayed \union {r}
  BY <1>1, <1>2 DEF ProxyInv, TypeOK, Strayed
<1>4. Cardinality(Strayed') = Cardinality(Strayed) + 1
  BY <1>3, SlotsAreFinite, FS_AddElement DEF SlotsFinite
<1>5. At(l)' = At(l) /\ inflight'[l] <= inflight[l] + 1 /\ inflight'[l] \in Nat
  BY <1>1 DEF ProxyInv, TypeOK, At
<1> QED
  BY <1>0, <1>4, <1>5, SlotsAreFinite DEF SlotsFinite

\* A step that leaves fallbacks and providers alone strays nobody.
LEMMA NobodyStrays ==
  ASSUME UNCHANGED <<fellback, prov>>
  PROVE  Strayed' = Strayed
BY DEF Strayed

SlotInv == ProxyInv /\ KeyPlaces /\ SlotsCount

\* The request goes somewhere else in the loop with the same key, or none.
LEMMA SlotMove ==
  ASSUME SlotInv, NEW r \in Requests, NEW place \in Places,
         at[r] \notin {"new", "over"}, place \notin {"new", "over", "cross"} \union Embeds,
         place \notin Using => key[r] = None,
         Goto(r, place), KeepSlot, UNCHANGED <<fellback, prov>>
  PROVE  KeyPlaces' /\ SlotsCount'
<1>1. KeyPlaces'
  BY DEF SlotInv, ProxyInv, TypeOK, KeyPlaces, Goto, KeepSlot
<1>2. SlotsCount'
  BY SlotsKept, NobodyStrays DEF SlotInv
<1> QED
  BY <1>1, <1>2

\* The request leaves with what it has: with a key only by an exception.
LEMMA SlotLeave ==
  ASSUME SlotInv, NEW r \in Requests, NEW how, how = "raised" \/ key[r] = None,
         at[r] \notin {"new", "over"}, End(r, how), KeepSlot, UNCHANGED <<fellback, prov>>
  PROVE  KeyPlaces' /\ SlotsCount'
<1>1. KeyPlaces'
  BY DEF SlotInv, ProxyInv, TypeOK, KeyPlaces, End, KeepSlot, Embeds
<1>2. SlotsCount'
  BY SlotsKept, NobodyStrays DEF SlotInv
<1> QED
  BY <1>1, <1>2

\* The key is marked, and the request ends, tries again or has a last word.
LEMMA SlotMark ==
  ASSUME SlotInv, NEW r \in Requests, at[r] \in Using, Mark(r),
         \/ Goto(r, "wait") \/ Goto(r, "lastWord") \/ \E how : End(r, how),
         UNCHANGED <<fellback, prov>>
  PROVE  KeyPlaces' /\ SlotsCount'
<1>0. key[r] \in Keys
  BY DEF SlotInv, ProxyInv, KeysFollow
<1>1. key' = [key EXCEPT ![r] = None]
  BY DEF Mark
<1>2. /\ at'[r] \in {"wait", "lastWord", "over"}
      /\ \A o \in Requests \ {r} : at'[o] = at[o] /\ end'[o] = end[o]
  BY DEF SlotInv, ProxyInv, TypeOK, Goto, End
<1>3. KeyPlaces'
  BY <1>1, <1>2 DEF SlotInv, ProxyInv, TypeOK, KeyPlaces, Using, AtAKey, Embeds
<1>4. SlotsCount'
  BY <1>0, SlotsMark, NobodyStrays DEF SlotInv
<1> QED
  BY <1>3, <1>4

LEMMA SlotProceed ==
  ASSUME SlotInv, NEW r \in Requests, Proceed(r)
  PROVE  KeyPlaces' /\ SlotsCount'
<1>0. UNCHANGED loopVars => UNCHANGED <<fellback, prov>>
  BY DEF loopVars
<1>01. at[r] \notin Using \union {"over"} => key[r] = None
  BY DEF SlotInv, KeyPlaces
<1>1. CASE TakePermit(r) \/ TimeOut(r)
  BY <1>01, <1>1, SlotMove DEF TakePermit, TimeOut, Places, Using, AtAKey, Embeds
<1>2. CASE GiveUp(r)
  BY <1>0, <1>01, <1>2, SlotLeave DEF GiveUp, Using, AtAKey
<1>3. ASSUME NEW k \in Keys, Pick(r, k) PROVE KeyPlaces' /\ SlotsCount'
  <2>1. /\ at[r] = "pick" /\ Acquire(r, k) /\ Goto(r, "gate") /\ UNCHANGED <<fellback, prov>>
        /\ key[r] = None
    BY <1>01, <1>3 DEF Pick, loopVars, Using, AtAKey
  <2>2. KeyPlaces'
    BY <2>1 DEF SlotInv, ProxyInv, TypeOK, KeyPlaces, Acquire, Goto, Using, AtAKey, Embeds
  <2> QED
    BY <2>1, <2>2, SlotsAcquire, NobodyStrays DEF SlotInv
<1>4. ASSUME NEW k \in Keys, Cross(r, k) PROVE KeyPlaces' /\ SlotsCount'
  <2>0. /\ at[r] = "cross" /\ key[r] = None /\ prov[r] \in Known /\ fellback[r]
        /\ prov' = [prov EXCEPT ![r] = ProviderOf[k]] /\ UNCHANGED fellback
    BY <1>01, <1>4 DEF SlotInv, ProxyInv, KeysFollow, KeyPlaces, Cross, Using, AtAKey
  <2>1. CASE ProviderOf[k] \in Known
    <3>1. Acquire(r, k) /\ Goto(r, "gate")
      BY <1>4, <2>1 DEF Cross
    <3>2. KeyPlaces'
      BY <2>0, <2>1, <3>1 DEF SlotInv, ProxyInv, TypeOK, KeyPlaces, Acquire, Goto,
         Using, AtAKey, Embeds
    <3>3. Strayed' = Strayed
      BY <2>0, <2>1 DEF SlotInv, ProxyInv, TypeOK, Strayed
    <3> QED
      BY <2>0, <3>1, <3>2, <3>3, SlotsAcquire DEF SlotInv
  <2>2. CASE ProviderOf[k] \notin Known
    <3>1. UNCHANGED key /\ (Goto(r, "wait") \/ End(r, "failed"))
      BY <1>4, <2>2 DEF Cross
    <3>2. KeyPlaces'
      BY <2>0, <3>1 DEF SlotInv, ProxyInv, TypeOK, KeyPlaces, Goto, End, Using, AtAKey, Embeds
    <3> QED
      BY <1>4, <2>2, <3>2, SlotsStray DEF SlotInv
  <2> QED
    BY <2>1, <2>2
<1>5. CASE Refused(r)
  <2>0. /\ at[r] = "pick" /\ key[r] = None /\ prov[r] \in Known /\ ~fellback[r]
        /\ fellback' = [fellback EXCEPT ![r] = TRUE] /\ UNCHANGED prov
        /\ Goto(r, "cross") /\ KeepSlot
    BY <1>01, <1>5 DEF SlotInv, KeyPlaces, Refused, Using, AtAKey
  <2>1. KeyPlaces'
    BY <2>0 DEF SlotInv, ProxyInv, TypeOK, KeyPlaces, Goto, KeepSlot, Using, AtAKey, Embeds
  <2>2. Strayed' = Strayed
    BY <2>0 DEF SlotInv, ProxyInv, TypeOK, Strayed
  <2> QED
    BY <2>0, <2>1, <2>2, SlotsKept DEF SlotInv
<1>6. CASE RefusedForGood(r) \/ PickBreaks(r)
  <2>1. /\ at[r] \in {"pick", "cross"} /\ key[r] = None /\ KeepSlot
        /\ UNCHANGED <<fellback, prov>>
        /\ Goto(r, "wait") \/ \E how : End(r, how)
    BY <1>0, <1>01, <1>6 DEF RefusedForGood, PickBreaks, Using, AtAKey
  <2> QED
    BY <2>1, SlotMove, SlotLeave DEF Places, Using, AtAKey, Embeds
<1>7. CASE TurnedAway(r)
  BY <1>0, <1>7, SlotMark DEF TurnedAway, Fail, Using, AtAKey
<1>8. CASE Admitted(r) \/ UpstreamAnswers(r) \/ RelayEnds(r)
  BY <1>0, <1>8, SlotMove DEF Admitted, UpstreamAnswers, RelayEnds, Places, Using, AtAKey, Embeds
<1>9. ASSUME at[r] \in AtAKey, Broken(r), UNCHANGED loopVars PROVE KeyPlaces' /\ SlotsCount'
  BY <1>0, <1>9, SlotMark, SlotLeave DEF Broken, Fail, Using, AtAKey
<1>10. CASE GateBreaks(r) \/ UpstreamFails(r)
  <2>1. ASSUME at[r] = "upstream", Fail(r), UNCHANGED loopVars PROVE KeyPlaces' /\ SlotsCount'
    BY <1>0, <2>1, SlotMark DEF Fail, Using, AtAKey
  <2> QED
    BY <1>9, <1>10, <2>1 DEF GateBreaks, UpstreamFails, AtAKey
<1>11. CASE Decrypt(r)
  <2>1. CASE unlocked /\ key[r] \in Legacy
    BY <1>0, <1>11, <2>1, SlotMove DEF Decrypt, Places, Using, AtAKey, Embeds
  <2>2. CASE ~(unlocked /\ key[r] \in Legacy)
    BY <1>9, <1>11, <2>2 DEF Decrypt, AtAKey
  <2> QED
    BY <2>1, <2>2
<1>12. CASE RelayStops(r) \/ RelayBreaks(r) \/ Account(r)
  BY <1>0, <1>12, SlotMark DEF RelayStops, RelayBreaks, Account, Using, AtAKey
<1>13. CASE LastWordTaken(r) \/ LastWordRefused(r)
  BY <1>0, <1>01, <1>13, SlotLeave DEF LastWordTaken, LastWordRefused, Using, AtAKey
<1>14. CASE AccountBreaks(r)
  BY <1>0, <1>14, SlotMark, SlotLeave DEF AccountBreaks, Using, AtAKey
<1> QED
  BY <1>1, <1>2, <1>3, <1>4, <1>5, <1>6, <1>7, <1>8, <1>10, <1>11, <1>12, <1>13, <1>14
     DEF Proceed

\* A new request knows its provider, from the path or from the model's alias.
LEMMA SlotStart ==
  ASSUME SlotInv, NEW r \in Requests, NEW p \in Known, NEW q \in Known,
         Start(r, p) \/ EmbedStart(r, p, q)
  PROVE  KeyPlaces' /\ SlotsCount'
<1>0. /\ at[r] = "new" /\ KeepSlot /\ UNCHANGED fellback
      /\ Goto(r, "wait") \/ Goto(r, "embed")
      /\ \E x \in Known : prov' = [prov EXCEPT ![r] = x]
      /\ ~fellback[r] /\ key[r] = None
  BY DEF Start, EmbedStart, SlotInv, KeyPlaces, Using, AtAKey
<1>1. KeyPlaces'
  BY <1>0 DEF SlotInv, ProxyInv, TypeOK, KeyPlaces, Goto, KeepSlot, Using, AtAKey, Embeds
<1>2. Strayed' = Strayed
  BY <1>0 DEF SlotInv, ProxyInv, TypeOK, Strayed
<1> QED
  BY <1>0, <1>1, <1>2, SlotsKept DEF SlotInv

LEMMA SlotEmbed ==
  ASSUME SlotInv, NEW r \in Requests, Embed(r)
  PROVE  KeyPlaces' /\ SlotsCount'
<1>0. UNCHANGED loopVars => UNCHANGED <<fellback, prov>>
  BY DEF loopVars
<1>1. /\ at[r] \in Embeds => prov[r] \in Known
      /\ at[r] \notin Using \union {"over"} => key[r] = None
  BY DEF SlotInv, KeyPlaces
<1>2. ASSUME NEW k \in Keys, EmbedPick(r, k) PROVE KeyPlaces' /\ SlotsCount'
  <2>1. /\ at[r] = "embed" /\ key[r] = None /\ prov[r] \in Known
        /\ Acquire(r, k) /\ Goto(r, "embedUse") /\ UNCHANGED <<fellback, prov>>
    BY <1>0, <1>1, <1>2 DEF EmbedPick, Using, AtAKey, Embeds
  <2>2. KeyPlaces'
    BY <2>1 DEF SlotInv, ProxyInv, TypeOK, KeyPlaces, Acquire, Goto, Using, AtAKey, Embeds
  <2> QED
    BY <2>1, <2>2, SlotsAcquire, NobodyStrays DEF SlotInv
<1>3. ASSUME NEW k \in Keys, EmbedCross(r, k) PROVE KeyPlaces' /\ SlotsCount'
  <2>0. at[r] = "embedCross" /\ key[r] = None /\ prov[r] \in Known /\ UNCHANGED fellback
    BY <1>1, <1>3 DEF EmbedCross, Using, AtAKey, Embeds
  <2>1. CASE ProviderOf[k] \in Known
    <3>1. /\ Acquire(r, k) /\ Goto(r, "embedUse")
          /\ prov' = [prov EXCEPT ![r] = ProviderOf[k]]
      BY <1>3, <2>1 DEF EmbedCross
    <3>2. KeyPlaces'
      BY <2>0, <2>1, <3>1 DEF SlotInv, ProxyInv, TypeOK, KeyPlaces, Acquire, Goto,
         Using, AtAKey, Embeds
    <3>3. Strayed' = Strayed
      BY <2>0, <2>1, <3>1 DEF SlotInv, ProxyInv, TypeOK, Strayed
    <3> QED
      BY <2>0, <3>1, <3>2, <3>3, SlotsAcquire DEF SlotInv
  <2>2. CASE ProviderOf[k] \notin Known
    BY <1>3, <2>0, <2>2, SlotLeave DEF EmbedCross
  <2> QED
    BY <2>1, <2>2
<1>4. CASE EmbedRefused(r) \/ EmbedDecrypts(r)
  <2>1. /\ at[r] \in {"embed", "embedUse"} /\ KeepSlot /\ UNCHANGED <<fellback, prov>>
        /\ \/ at[r] = "embed" /\ Goto(r, "embedCross")
           \/ at[r] = "embedUse" /\ Goto(r, "embedCall")
    BY <1>0, <1>4 DEF EmbedRefused, EmbedDecrypts
  <2>2. KeyPlaces'
    BY <1>1, <2>1 DEF SlotInv, ProxyInv, TypeOK, KeyPlaces, Goto, KeepSlot, Using, AtAKey, Embeds
  <2> QED
    BY <2>1, <2>2, SlotsKept, NobodyStrays DEF SlotInv
<1>5. CASE EmbedGivesUp(r)
  BY <1>0, <1>1, <1>5, SlotLeave DEF EmbedGivesUp, Using, AtAKey
<1>6. CASE \E how \in {"answered", "failed"} : EmbedEnds(r, how)
  BY <1>0, <1>6, SlotMark DEF EmbedEnds, Using
<1> QED
  BY <1>2, <1>3, <1>4, <1>5, <1>6 DEF Embed

LEMMA SlotStep == SlotInv /\ [Next]_vars => SlotInv'
<1> SUFFICES ASSUME SlotInv, [Next]_vars PROVE KeyPlaces' /\ SlotsCount'
  BY ProxyStep DEF SlotInv
<1>1. CASE UNCHANGED <<at, end, key, inflight, fellback, prov>>
  <2>1. KeyPlaces'
    BY <1>1 DEF SlotInv, KeyPlaces
  <2> QED
    BY <1>1, <2>1, SlotsKept, NobodyStrays DEF SlotInv, KeepSlot
<1>2. UNCHANGED vars \/ LockOrUnlock => UNCHANGED <<at, end, key, inflight, fellback, prov>>
  BY DEF vars, loopVars, LockOrUnlock
<1> QED
  BY <1>1, <1>2, SlotProceed, SlotEmbed, SlotStart DEF Next

\* A key counts no more requests in flight than are at it, but for the requests
\* that fell back to an unknown provider; and no request ends at a key unless
\* chat() ends in an exception.
THEOREM SlotsAreReturned == Spec => []SlotsReturned
<1>1. Init => SlotInv
  BY ProxyInit, SlotsInit DEF SlotInv
<1>2. SlotInv => SlotsReturned
  BY DEF SlotInv, KeyPlaces, SlotsCount, At, Strayed, SlotsReturned
<1> QED
  BY <1>1, <1>2, SlotStep, PTL DEF Spec
================================================================================
