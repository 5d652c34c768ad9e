--------------------------------- MODULE Proxy ---------------------------------
(* keyhub.llm.proxy: what a chat or a streaming request takes (a permit of the *)
(* concurrency semaphore, an in-flight slot of a key) and gives back on each   *)
(* of the ways it can go: retries, the fallback to another provider, refusals  *)
(* of the key's budget or rate limit, upstream errors, failed transactions, a  *)
(* client that goes away.  POST /v1/embeddings picks keys from the same        *)
(* balancer in a handler of its own (api/v1.py): one attempt, no permit, no    *)
(* gate, no account.  The balancer is any pick of a key in scope or            *)
(* NoAvailableKeyError; which keys those are is module Balancer's subject.     *)
EXTENDS Integers, FiniteSets

CONSTANTS Requests,    \* one call of chat(), chat_stream() or embeddings() each
          Streaming,   \* those that call chat_stream()
          Embedding,   \* those that call embeddings()
          Keys, Providers,
          ProviderOf,  \* LLMKey.provider: any name an operator has typed in
          Known,       \* the names of the table PROVIDERS
          Legacy,      \* keys whose ciphertext is bound to no identity (v0)
          MaxPermits,  \* KEYHUB_LLM_MAX_CONCURRENT
          MaxTries,    \* max_retries
          Fallback,    \* llm_enable_cross_provider_fallback
          None

ASSUME RequestAssumption == /\ IsFiniteSet(Requests)
                            /\ Streaming \subseteq Requests
                            /\ Embedding \subseteq Requests \ Streaming
ASSUME KeyAssumption     == /\ ProviderOf \in [Keys -> Providers]
                            /\ Known \subseteq Providers
                            /\ Legacy \subseteq Keys
                            /\ None \notin Keys \union Providers
ASSUME BoundAssumption   == /\ MaxPermits \in Nat \ {0}
                            /\ MaxTries \in Nat \ {0}
                            /\ Fallback \in BOOLEAN

VARIABLES permits,     \* the semaphore's counter
          inflight,    \* KeyBalancer._inflight
          unlocked,    \* the runtime has a vault
          at,          \* where each request is in the body of its loop
          tries,       \* attempts begun
          fellback,    \* fallback_tried
          home,        \* provider, the one the client asked for
          prov,        \* current_provider, whose keys are picked
          cfg,         \* current_cfg, whose URL is called
          key,         \* the key whose slot the request has to give back
          holds,       \* permits taken minus permits released; > 0: sem_held
          end          \* how it ended

loopVars == <<tries, fellback, home, prov, cfg>>
vars == <<permits, inflight, unlocked, at, loopVars, key, holds, end>>

Places == {"new", "wait", "pick", "cross", "gate", "decrypt", "upstream",
           "relay", "account", "lastWord", "over",
           "embed", "embedCross", "embedUse", "embedCall"}
Ends   == {None, "answered", "failed", "raised", "vanished"}

TypeOK ==
  /\ permits \in Nat
  /\ inflight \in [Keys -> Nat]
  /\ unlocked \in BOOLEAN
  /\ at \in [Requests -> Places]
  /\ tries \in [Requests -> 0..MaxTries]
  /\ fellback \in [Requests -> BOOLEAN]
  /\ home \in [Requests -> Known \union {None}]
  /\ prov \in [Requests -> Providers \union {None}]
  /\ cfg \in [Requests -> Known \union {None}]
  /\ key \in [Requests -> Keys \union {None}]
  /\ holds \in [Requests -> -1..1]
  /\ \A r \in Streaming : holds[r] >= 0
  /\ end \in [Requests -> Ends]

Init ==
  /\ permits = MaxPermits
  /\ inflight = [k \in Keys |-> 0]
  /\ unlocked = TRUE
  /\ at = [r \in Requests |-> "new"]
  /\ tries = [r \in Requests |-> 0]
  /\ fellback = [r \in Requests |-> FALSE]
  /\ home = [r \in Requests |-> None]
  /\ prov = [r \in Requests |-> None]
  /\ cfg = [r \in Requests |-> None]
  /\ key = [r \in Requests |-> None]
  /\ holds = [r \in Requests |-> 0]
  /\ end = [r \in Requests |-> None]

--------------------------------------------------------------------------------
Goto(r, place) == at' = [at EXCEPT ![r] = place] /\ UNCHANGED end
End(r, how)    == at' = [at EXCEPT ![r] = "over"] /\ end' = [end EXCEPT ![r] = how]
KeepPermit     == UNCHANGED <<permits, holds>>
KeepSlot       == UNCHANGED <<inflight, key>>

\* chat() releases the semaphore where it says so; chat_stream() through
\* _cleanup, which looks at sem_held.
Cleanup(r) ==
  IF r \in Streaming /\ holds[r] = 0
    THEN KeepPermit
    ELSE permits' = permits + 1 /\ holds' = [holds EXCEPT ![r] = @ - 1]

\* acquire, and the release every mark of a key ends in.
Acquire(r, k) == /\ inflight' = [inflight EXCEPT ![k] = @ + 1]
                 /\ key' = [key EXCEPT ![r] = k]
Mark(r) == /\ inflight' = [inflight EXCEPT ![key[r]] = IF @ > 0 THEN @ - 1 ELSE 0]
           /\ key' = [key EXCEPT ![r] = None]

\* The attempt is over: the key is marked, the permit given back, try again.
Fail(r) == Mark(r) /\ Cleanup(r) /\ Goto(r, "wait")

\* An exception the loop did not expect: chat() has no handler for it, the last
\* handler of chat_stream() marks the key and tries again.
Broken(r) == IF r \in Streaming
               THEN Fail(r)
               ELSE End(r, "raised") /\ KeepSlot /\ KeepPermit

\* Fault variants: an exhausted key that keeps its slot; a fallback that keeps
\* the old configuration; one that may be tried again; an attempt that goes on
\* without a permit, or is not counted; a handler without its cleanup.
TurnedAwayHolding(r) ==
  /\ at[r] = "gate"
  /\ KeepSlot
  /\ Cleanup(r)
  /\ Goto(r, "wait")
  /\ UNCHANGED <<unlocked, loopVars>>

CrossKeepingConfig(r, k) ==
  /\ at[r] = "cross"
  /\ ProviderOf[k] # home[r]
  /\ Acquire(r, k) /\ KeepPermit /\ Goto(r, "gate")
  /\ prov' = [prov EXCEPT ![r] = ProviderOf[k]]
  /\ UNCHANGED <<unlocked, tries, fellback, home, cfg>>

RefusedForgetful(r) ==
  /\ at[r] = "pick"
  /\ Fallback
  /\ Goto(r, "cross")
  /\ IF r \in Streaming THEN KeepPermit ELSE Cleanup(r)
  /\ KeepSlot
  /\ UNCHANGED <<unlocked, loopVars>>

TimeOutIgnored(r) ==
  /\ at[r] = "wait" /\ tries[r] < MaxTries
  /\ permits = 0
  /\ tries' = [tries EXCEPT ![r] = @ + 1]
  /\ Goto(r, "pick")
  /\ KeepPermit /\ KeepSlot
  /\ UNCHANGED <<unlocked, fellback, home, prov, cfg>>

TimeOutUncounted(r) ==
  /\ at[r] = "wait" /\ tries[r] < MaxTries
  /\ permits = 0
  /\ Goto(r, "wait")
  /\ KeepPermit /\ KeepSlot
  /\ UNCHANGED <<unlocked, loopVars>>

BreakUncleaned(r) ==
  /\ at[r] = "relay"
  /\ Mark(r)
  /\ End(r, "failed")
  /\ KeepPermit
  /\ UNCHANGED <<unlocked, loopVars>>

--------------------------------------------------------------------------------
Start(r, p) ==
  /\ at[r] = "new" /\ r \notin Embedding
  /\ home' = [home EXCEPT ![r] = p]
  /\ prov' = [prov EXCEPT ![r] = p]
  /\ cfg' = [cfg EXCEPT ![r] = p]
  /\ Goto(r, "wait")
  /\ KeepPermit /\ KeepSlot
  /\ UNCHANGED <<unlocked, tries, fellback>>

\* The head of the loop: a permit, or none within llm_connect_timeout.
TakePermit(r) ==
  /\ at[r] = "wait" /\ tries[r] < MaxTries
  /\ permits > 0
  /\ permits' = permits - 1
  /\ holds' = [holds EXCEPT ![r] = @ + 1]
  /\ tries' = [tries EXCEPT ![r] = @ + 1]
  /\ Goto(r, "pick")
  /\ KeepSlot
  /\ UNCHANGED <<unlocked, fellback, home, prov, cfg>>

TimeOut(r) ==
  /\ at[r] = "wait" /\ tries[r] < MaxTries
  /\ permits = 0
  /\ tries' = [tries EXCEPT ![r] = @ + 1]
  /\ Goto(r, "wait")
  /\ KeepPermit /\ KeepSlot
  /\ UNCHANGED <<unlocked, fellback, home, prov, cfg>>

GiveUp(r) ==
  /\ at[r] = "wait" /\ tries[r] = MaxTries
  /\ End(r, "failed")
  /\ KeepPermit /\ KeepSlot
  /\ UNCHANGED <<unlocked, loopVars>>

Pick(r, k) ==
  /\ at[r] = "pick"
  /\ ProviderOf[k] = prov[r]
  /\ Acquire(r, k)
  /\ Goto(r, "gate")
  /\ KeepPermit
  /\ UNCHANGED <<unlocked, loopVars>>

\* NoAvailableKeyError: chat() gives its permit back before it falls back,
\* chat_stream() keeps it.
Refused(r) ==
  /\ at[r] = "pick"
  /\ Fallback /\ ~fellback[r]
  /\ fellback' = [fellback EXCEPT ![r] = TRUE]
  /\ Goto(r, "cross")
  /\ IF r \in Streaming THEN KeepPermit ELSE Cleanup(r)
  /\ KeepSlot
  /\ UNCHANGED <<unlocked, tries, home, prov, cfg>>

\* No fallback (any more): chat() fails at once; the error chat_stream() raises
\* is caught by its own last handler, which tries again.
RefusedForGood(r) ==
  /\ \/ at[r] = "pick" /\ ~(Fallback /\ ~fellback[r]) /\ Cleanup(r)
     \/ at[r] = "cross" /\ IF r \in Streaming THEN Cleanup(r) ELSE KeepPermit
  /\ IF r \in Streaming THEN Goto(r, "wait") ELSE End(r, "failed")
  /\ KeepSlot
  /\ UNCHANGED <<unlocked, loopVars>>

\* The balancer's query fails with an exception nobody there expects.
PickBreaks(r) ==
  /\ at[r] \in {"pick", "cross"}
  /\ IF r \in Streaming
       THEN Cleanup(r) /\ Goto(r, "wait")
       ELSE End(r, "raised") /\ KeepPermit
  /\ KeepSlot
  /\ UNCHANGED <<unlocked, loopVars>>

\* pick_cross_provider takes the slot, then get_provider may not know the name:
\* the slot stays taken and current_provider has changed, current_cfg has not.
Cross(r, k) ==
  /\ at[r] = "cross"
  /\ ProviderOf[k] # home[r]
  /\ prov' = [prov EXCEPT ![r] = ProviderOf[k]]
  /\ IF ProviderOf[k] \in Known
       THEN /\ cfg' = [cfg EXCEPT ![r] = ProviderOf[k]]
            /\ Acquire(r, k) /\ KeepPermit /\ Goto(r, "gate")
       ELSE /\ inflight' = [inflight EXCEPT ![k] = @ + 1]
            /\ UNCHANGED <<key, cfg>>
            /\ IF r \in Streaming
                 THEN Cleanup(r) /\ Goto(r, "wait")
                 ELSE KeepPermit /\ End(r, "failed")
  /\ UNCHANGED <<unlocked, tries, fellback, home>>

\* Over its budget, its row is gone, or over its rate limit.
TurnedAway(r) ==
  /\ at[r] = "gate"
  /\ Fail(r)
  /\ UNCHANGED <<unlocked, loopVars>>

Admitted(r) ==
  /\ at[r] = "gate"
  /\ Goto(r, "decrypt")
  /\ KeepPermit /\ KeepSlot
  /\ UNCHANGED <<unlocked, loopVars>>

\* One of the gate's transactions fails.
GateBreaks(r) ==
  /\ at[r] = "gate"
  /\ Broken(r)
  /\ UNCHANGED <<unlocked, loopVars>>

\* _decrypt_key names the LLMKey where the value was bound to its Credential,
\* so that only unbound ciphertexts open, and those only while unlocked.  A
\* request that cannot be built with what was read ends in the same way.
Decrypt(r) ==
  /\ at[r] = "decrypt"
  /\ IF unlocked /\ key[r] \in Legacy
       THEN Goto(r, "upstream") /\ KeepPermit /\ KeepSlot
       ELSE Broken(r)
  /\ UNCHANGED <<unlocked, loopVars>>

\* 429, another error status, no connection, a body that is no JSON; or JSON of
\* a shape nobody expected.
UpstreamFails(r) ==
  /\ at[r] = "upstream"
  /\ Fail(r) \/ Broken(r)
  /\ UNCHANGED <<unlocked, loopVars>>

\* The answer to chat(), or the first status line of a stream.
UpstreamAnswers(r) ==
  /\ at[r] = "upstream"
  /\ Goto(r, IF r \in Streaming THEN "relay" ELSE "account")
  /\ KeepPermit /\ KeepSlot
  /\ UNCHANGED <<unlocked, loopVars>>

RelayEnds(r) ==
  /\ at[r] = "relay"
  /\ Goto(r, "account")
  /\ KeepPermit /\ KeepSlot
  /\ UNCHANGED <<unlocked, loopVars>>

\* An error event in the stream, or an idle one; a client that goes away at a
\* yield of the loop runs the handler for GeneratorExit.
RelayStops(r) ==
  /\ at[r] = "relay"
  /\ Mark(r) /\ Cleanup(r)
  /\ \E how \in {"failed", "vanished"} : End(r, how)
  /\ UNCHANGED <<unlocked, loopVars>>

\* The connection to the upstream breaks: the key is marked, and the client is
\* sent a last event from inside the handler.
RelayBreaks(r) ==
  /\ at[r] = "relay"
  /\ Mark(r)
  /\ Goto(r, "lastWord")
  /\ KeepPermit
  /\ UNCHANGED <<unlocked, loopVars>>

LastWordTaken(r) ==
  /\ at[r] = "lastWord"
  /\ Cleanup(r)
  /\ End(r, "failed")
  /\ KeepSlot
  /\ UNCHANGED <<unlocked, loopVars>>

\* A handler is not protected by its neighbours: no cleanup.
LastWordRefused(r) ==
  /\ at[r] = "lastWord"
  /\ End(r, "vanished")
  /\ KeepPermit /\ KeepSlot
  /\ UNCHANGED <<unlocked, loopVars>>

\* record_usage and mark_ok; cache and metrics do not raise.
Account(r) ==
  /\ at[r] = "account"
  /\ Mark(r) /\ Cleanup(r)
  /\ End(r, "answered")
  /\ UNCHANGED <<unlocked, loopVars>>

\* record_usage fails: outside chat()'s try, inside chat_stream()'s.
AccountBreaks(r) ==
  /\ at[r] = "account"
  /\ IF r \in Streaming
       THEN Mark(r) /\ KeepPermit /\ Goto(r, "lastWord")
       ELSE End(r, "raised") /\ KeepSlot /\ KeepPermit
  /\ UNCHANGED <<unlocked, loopVars>>

--------------------------------------------------------------------------------
\* embeddings(): the model's alias may stand for another provider than the one
\* the client named, which is the one a fallback stays away from.
EmbedStart(r, p, q) ==
  /\ at[r] = "new" /\ r \in Embedding
  /\ home' = [home EXCEPT ![r] = p]
  /\ prov' = [prov EXCEPT ![r] = q]
  /\ cfg' = [cfg EXCEPT ![r] = q]
  /\ Goto(r, "embed")
  /\ KeepPermit /\ KeepSlot
  /\ UNCHANGED <<unlocked, tries, fellback>>

EmbedPick(r, k) ==
  /\ at[r] = "embed"
  /\ ProviderOf[k] = prov[r]
  /\ Acquire(r, k)
  /\ Goto(r, "embedUse")
  /\ KeepPermit
  /\ UNCHANGED <<unlocked, loopVars>>

EmbedRefused(r) ==
  /\ at[r] = "embed" /\ Fallback
  /\ Goto(r, "embedCross")
  /\ KeepPermit /\ KeepSlot
  /\ UNCHANGED <<unlocked, loopVars>>

\* Refused for good, or an exception of the balancer's: nothing was taken.
EmbedGivesUp(r) ==
  /\ at[r] \in {"embed", "embedCross"}
  /\ End(r, "failed")
  /\ KeepPermit /\ KeepSlot
  /\ UNCHANGED <<unlocked, loopVars>>

\* The slot of a key whose provider is unknown is given back at once.
EmbedCross(r, k) ==
  /\ at[r] = "embedCross"
  /\ ProviderOf[k] # home[r]
  /\ IF ProviderOf[k] \in Known
       THEN /\ prov' = [prov EXCEPT ![r] = ProviderOf[k]]
            /\ cfg' = [cfg EXCEPT ![r] = ProviderOf[k]]
            /\ Acquire(r, k) /\ Goto(r, "embedUse")
       ELSE End(r, "failed") /\ KeepSlot /\ UNCHANGED <<prov, cfg>>
  /\ KeepPermit
  /\ UNCHANGED <<unlocked, tries, fellback, home>>

EmbedDecrypts(r) ==
  /\ at[r] = "embedUse"
  /\ unlocked /\ key[r] \in Legacy
  /\ Goto(r, "embedCall")
  /\ KeepPermit /\ KeepSlot
  /\ UNCHANGED <<unlocked, loopVars>>

\* The row is gone or does not decrypt, a transaction fails, the upstream
\* answers or does not: the key is marked or released, once.
EmbedEnds(r, how) ==
  /\ \/ at[r] = "embedUse" /\ how = "failed"
     \/ at[r] = "embedCall"
  /\ Mark(r)
  /\ End(r, how)
  /\ KeepPermit
  /\ UNCHANGED <<unlocked, loopVars>>

\* The operator or the idle checker locks the vault, somebody unlocks it.
LockOrUnlock ==
  /\ unlocked' = ~unlocked
  /\ UNCHANGED <<permits, inflight, at, loopVars, key, holds, end>>

--------------------------------------------------------------------------------
Proceed(r) ==
  \/ TakePermit(r) \/ TimeOut(r) \/ GiveUp(r)
  \/ \E k \in Keys : Pick(r, k) \/ Cross(r, k)
  \/ Refused(r) \/ RefusedForGood(r) \/ PickBreaks(r)
  \/ TurnedAway(r) \/ Admitted(r) \/ GateBreaks(r)
  \/ Decrypt(r)
  \/ UpstreamFails(r) \/ UpstreamAnswers(r)
  \/ RelayEnds(r) \/ RelayStops(r) \/ RelayBreaks(r)
  \/ LastWordTaken(r) \/ LastWordRefused(r)
  \/ Account(r) \/ AccountBreaks(r)

Embed(r) ==
  \/ \E k \in Keys : EmbedPick(r, k) \/ EmbedCross(r, k)
  \/ EmbedRefused(r) \/ EmbedGivesUp(r) \/ EmbedDecrypts(r)
  \/ \E how \in {"answered", "failed"} : EmbedEnds(r, how)

Next ==
  \/ \E r \in Requests : Proceed(r) \/ Embed(r)
  \/ \E r \in Requests, p, q \in Known : Start(r, p) \/ EmbedStart(r, p, q)
  \/ LockOrUnlock

Spec == Init /\ [][Next]_vars

\* Every wait in the loop has a timeout: the semaphore, the database, httpx.
FairSpec == Spec /\ \A r \in Requests : WF_vars(Proceed(r) \/ Embed(r))

--------------------------------------------------------------------------------
\* A request that has ended has given its permit back, on every one of its
\* paths, except those that end in an exception chat() does not catch, a client
\* that refuses the last event, and the fallback of chat(), which gives back
\* one permit too many.
PermitsReturned ==
  \A r \in Requests : at[r] = "over" =>
    \/ holds[r] = 0
    \/ holds[r] = 1 /\ end[r] \in {"raised", "vanished"}
    \/ holds[r] = -1 /\ r \notin Streaming /\ fellback[r]

\* A key counts no more requests in flight than are at it, and a request that
\* has ended is at none: only the exceptions of chat() and the fallbacks to an
\* unknown provider leave a slot behind.
SlotsReturned ==
  /\ \A k \in Keys :
       inflight[k] <= Cardinality({r \in Requests : key[r] = k})
                        + Cardinality({r \in Requests : fellback[r] /\ prov[r] \notin Known})
  /\ \A r \in Requests : at[r] = "over" /\ key[r] # None => end[r] = "raised"

\* At most KEYHUB_LLM_MAX_CONCURRENT requests are at the upstream, and one more
\* for each chat() that has fallen back.
ConcurrencyBounded ==
  Cardinality({r \in Requests : at[r] \in {"upstream", "relay"}})
    <= MaxPermits + Cardinality({r \in Requests \ Streaming : fellback[r]})

\* chat() and embeddings() send a key to the provider it belongs to and to nobody
\* else, however often they have retried and fallen back (providers.py:122-123).
ChatKeyGoesHome ==
  \A r \in Requests \ Streaming :
    at[r] \in {"gate", "decrypt", "upstream", "embedUse", "embedCall"}
      => cfg[r] = ProviderOf[key[r]]

\* Every request comes to an end, though permits may be gone for good.
EveryRequestEnds ==
  \A r \in Requests : at[r] \in {"wait", "embed"} ~> at[r] = "over"

\* The proxy reads the plain value of the key it has picked whenever the vault
\* is unlocked (store.py:252).
DecryptsOwnKeys ==
  [][\A r \in Requests :
       at[r] = "decrypt" /\ at'[r] # "decrypt" /\ unlocked => at'[r] = "upstream"]_vars
================================================================================
