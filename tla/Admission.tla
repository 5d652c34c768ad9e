------------------------------- MODULE Admission -------------------------------
(* The three gates that count: the login limiter in front of the master        *)
(* password (ratelimit.py:25-93, api/auth.py:77-115), the requests per minute  *)
(* of an API token (ratelimit.py:113-142, auth.py:150-206), and the limits and *)
(* the budget of an upstream key (keylimit.py, tracker.py, proxy.py:296-439).  *)
(* They share no state, and none of them relates two addresses, two tokens or  *)
(* two keys: a behaviour follows one of them, `subject`.  Each looks first and *)
(* counts later, with the other threads in between.                            *)
EXTENDS Integers, FiniteSets, SequencesExt

CONSTANTS Threads,    \* requests in the server's thread pool
          Window,     \* the 60 seconds of both sliding windows
          Lag,        \* bound: seconds between reading the clock and the lock;
                      \* nothing in the code enforces it
          Rpm,        \* token_rpm_limit, llm_key_rpm_limit
          Tpm,        \* llm_key_tpm_limit
          MaxTokens,  \* bound: tokens of one request
          Budget,     \* monthly_budget_usd
          MaxCost,    \* bound: cost of one request
          MaxFails, BaseLock, MaxLock,  \* the login limiter's parameters
          Lifetime,   \* a token's expires_in_hours
          MaxClock    \* bound: seconds that pass

ASSUME ThreadAssumption == IsFiniteSet(Threads)
ASSUME LimitAssumption  == {Rpm, Tpm, Budget, MaxFails, MaxLock} \subseteq Nat \ {0}
ASSUME SizeAssumption   == {Window, Lag, MaxTokens, MaxCost, BaseLock, Lifetime,
                            MaxClock} \subseteq Nat /\ Lag < Window
\* The first lock takes some time, and so does every one that doubles it.
ASSUME LockAssumption   == \A n \in 0..Cardinality(Threads) : BaseLock * 2 ^ n \in Nat \ {0}

VARIABLES clock,
          subject,   \* "address", "token" or "key"
          at,        \* where each request is
          saw,       \* the clock as it read it
          window,    \* _requests[...]: the requests let in, see Grants
          last,      \* the number of the one let in last
          fails, until,      \* _AttemptState; until = 0: never locked
          row, expiry,       \* the APIToken's row
          used,      \* _tokens[...]: time stamps and tokens
          cost,      \* LLMKey.estimated_cost_usd
          price,     \* the same, in the copy of the row a request has picked
          granted,   \* history: see Throttle
          late       \* history: requests let in though the token had ended

loginVars == <<fails, until>>
tokenVars == <<row, expiry, late>>
keyVars   == <<used, cost, price>>
windowVars == <<window, last, granted>>
vars == <<clock, subject, at, saw, windowVars, loginVars, tokenVars, keyVars>>

Places == {"idle", "judging", "stamp", "take", "gate", "upstream", "record", "usage"}
Entry  == [time : Nat, tokens : 0..MaxTokens]

\* Requests let in, in the order of their numbers: the time stamp the limiter
\* has of each, and (history) the time it was let in.
Grants == [no : Nat, seen : Nat, time : Nat]

TypeOK ==
  /\ clock \in Nat
  /\ subject \in {"address", "token", "key"}
  /\ at \in [Threads -> Places]
  /\ saw \in [Threads -> Nat]
  /\ window \subseteq Grants /\ granted \subseteq Grants /\ last \in Nat
  /\ fails \in Nat /\ until \in Nat
  /\ row \in {"none", "valid", "revoked"} /\ expiry \in Nat /\ late \in Nat
  /\ used \in Seq(Entry)
  /\ cost \in Nat /\ price \in [Threads -> Nat]

Init ==
  /\ clock = 0
  /\ subject \in {"address", "token", "key"}
  /\ at = [t \in Threads |-> "idle"]
  /\ saw = [t \in Threads |-> 0]
  /\ window = {} /\ granted = {} /\ last = 0
  /\ fails = 0 /\ until = 0
  /\ row = "none" /\ expiry = 0 /\ late = 0
  /\ used = <<>> /\ cost = 0 /\ price = [t \in Threads |-> 0]

--------------------------------------------------------------------------------
Promise == INSTANCE Throttle WITH Limit <- Rpm, Span <- Window - Lag

\* From one place to the next, as a request for s.
Move(t, s, from, to) == /\ subject = s /\ at[t] = from
                        /\ at' = [at EXCEPT ![t] = to]
                        /\ UNCHANGED <<clock, subject>>

\* What a request has read is of no use any more once it has moved on.
ForgetTime(t) == saw' = [saw EXCEPT ![t] = 0]
ForgetRow(t)  == price' = [price EXCEPT ![t] = 0]

\* A limiter drops all but `kept`, and lets t in behind them; an empty window
\* is numbered from the beginning.
Keep(kept) == /\ window' = kept
              /\ last' = IF kept = {} THEN 0 ELSE last
              /\ UNCHANGED granted

LetIn(t, kept) ==
  LET no == IF kept = {} THEN 1 ELSE last + 1
      g  == [no |-> no, seen |-> saw[t], time |-> clock]
  IN /\ window' = kept \union {g} /\ last' = no
     /\ granted' = Promise!Recent \union {g}

--------------------------------------------------------------------------------
\* Fault variant: the count survives the lock it has caused.
KnockKeepingCount(t) ==
  /\ Move(t, "address", "idle", "judging")
  /\ until <= clock
  /\ UNCHANGED <<loginVars, saw, windowVars, tokenVars, keyVars>>

\* is_locked: nothing happens while the lock lasts; when it is over the count
\* starts again.
Knock(t) ==
  /\ Move(t, "address", "idle", "judging")
  /\ until <= clock
  /\ IF until > 0 /\ fails >= MaxFails
       THEN fails' = 0 /\ until' = 0
       ELSE UNCHANGED loginVars
  /\ UNCHANGED <<saw, windowVars, tokenVars, keyVars>>

\* record_failure: from MaxFails on each failure locks, for longer every time.
WrongPassword(t) ==
  /\ Move(t, "address", "judging", "idle")
  /\ fails' = fails + 1
  /\ until' = IF fails' < MaxFails THEN until
              ELSE LET secs == BaseLock * 2 ^ (fails' - MaxFails)
                   IN  clock + (IF secs < MaxLock THEN secs ELSE MaxLock)
  /\ UNCHANGED <<saw, windowVars, tokenVars, keyVars>>

\* Fault variant: a success takes one failure back.
RightPasswordDiscounting(t) ==
  /\ Move(t, "address", "judging", "idle")
  /\ fails' = fails - 1 /\ until' = 0
  /\ UNCHANGED <<saw, windowVars, tokenVars, keyVars>>

\* record_success forgets the address.
RightPassword(t) ==
  /\ Move(t, "address", "judging", "idle")
  /\ fails' = 0 /\ until' = 0
  /\ UNCHANGED <<saw, windowVars, tokenVars, keyVars>>

--------------------------------------------------------------------------------
Over == row = "revoked" \/ expiry < clock

CreateToken ==
  /\ subject = "token" /\ row = "none"
  /\ row' = "valid" /\ expiry' = clock + Lifetime
  /\ UNCHANGED <<clock, subject, at, saw, windowVars, loginVars, late, keyVars>>

RevokeToken ==
  /\ subject = "token" /\ row = "valid"
  /\ row' = "revoked"
  /\ UNCHANGED <<clock, subject, at, saw, windowVars, loginVars, expiry, late, keyVars>>

\* Fault variant: a lookup that forgets `row.revoked`.
PresentRevoked(t) ==
  /\ Move(t, "token", "idle", "stamp")
  /\ row # "none" /\ ~(expiry < clock)
  /\ UNCHANGED <<saw, windowVars, loginVars, tokenVars, keyVars>>

\* require_auth: the row is looked up (401 and 403 leave everything as it is).
Present(t) ==
  /\ Move(t, "token", "idle", "stamp")
  /\ row = "valid" /\ ~(expiry < clock)
  /\ UNCHANGED <<saw, windowVars, loginVars, tokenVars, keyVars>>

\* Both limiters read the clock before they take their lock.
ReadClock(t) ==
  /\ Move(t, subject, "stamp", "take")
  /\ saw' = [saw EXCEPT ![t] = clock]
  /\ UNCHANGED <<windowVars, loginVars, tokenVars, keyVars>>

\* Fault variant: requests leave the window a second early.
TakeTokenEarly(t) ==
  LET kept == {g \in window : saw[t] - g.seen < Window - 1 - Lag} IN
  /\ Move(t, "token", "take", "idle")
  /\ IF Cardinality(kept) < Rpm
       THEN LetIn(t, kept) /\ late' = IF Over THEN late + 1 ELSE late
       ELSE Keep(kept) /\ UNCHANGED late
  /\ ForgetTime(t)
  /\ UNCHANGED <<loginVars, row, expiry, keyVars>>

\* TokenRateLimiter.check: what is a window old is dropped, wherever it is.
TakeToken(t) ==
  LET kept == {g \in window : saw[t] - g.seen < Window} IN
  /\ Move(t, "token", "take", "idle")
  /\ IF Cardinality(kept) < Rpm
       THEN LetIn(t, kept) /\ late' = IF Over THEN late + 1 ELSE late
       ELSE Keep(kept) /\ UNCHANGED late
  /\ ForgetTime(t)
  /\ UNCHANGED <<loginVars, row, expiry, keyVars>>

--------------------------------------------------------------------------------
\* _prune pops what is too old from the front, and stops at what is not.
PrunedRequests(now) ==
  {g \in window : \E h \in window : h.no <= g.no /\ h.seen >= now - Window}

PrunedTokens(now) ==
  LET first == SelectInSeq(used, LAMBDA e : e.time >= now - Window)
  IN  IF first = 0 THEN <<>> ELSE SubSeq(used, first, Len(used))

Pick(t) ==
  /\ Move(t, "key", "idle", "gate")
  /\ price' = [price EXCEPT ![t] = cost]
  /\ UNCHANGED <<saw, windowVars, loginVars, tokenVars, used, cost>>

\* The budget is compared with the copy; the key is given back (Balancer).
OverBudget(t) ==
  /\ Move(t, "key", "gate", "idle")
  /\ price[t] >= Budget
  /\ ForgetRow(t)
  /\ UNCHANGED <<saw, windowVars, loginVars, tokenVars, used, cost>>

\* Fault variant: a budget nobody looks at.
WithoutBudget(t) ==
  /\ Move(t, "key", "gate", "stamp")
  /\ ForgetRow(t)
  /\ UNCHANGED <<saw, windowVars, loginVars, tokenVars, used, cost>>

WithinBudget(t) ==
  /\ Move(t, "key", "gate", "stamp")
  /\ price[t] < Budget
  /\ ForgetRow(t)
  /\ UNCHANGED <<saw, windowVars, loginVars, tokenVars, used, cost>>

\* KeyRateLimiter.check(tokens=0); a refusal marks the key (Balancer).  check()
\* also lets in what makes it raise, and nothing it computes does.
TakeKey(t) ==
  LET requests == PrunedRequests(saw[t])
      tokens   == PrunedTokens(saw[t])
      allowed  == /\ Cardinality(requests) < Rpm
                  /\ FoldLeft(LAMBDA sum, e : sum + e.tokens, 0, tokens) <= Tpm
  IN /\ Move(t, "key", "take", IF allowed THEN "upstream" ELSE "idle")
     /\ used' = tokens
     /\ IF allowed THEN LetIn(t, requests) ELSE Keep(requests)
     /\ ForgetTime(t)
     /\ UNCHANGED <<loginVars, tokenVars, cost, price>>

\* _record_failed charges what the upstream says was used, and counts no tokens.
UpstreamFails(t, c) ==
  /\ Move(t, "key", "upstream", "idle")
  /\ cost' = cost + c
  /\ UNCHANGED <<saw, windowVars, loginVars, tokenVars, used, price>>

\* The answer; the time of record() is read before its lock.
UpstreamAnswers(t) ==
  /\ Move(t, "key", "upstream", "record")
  /\ saw' = [saw EXCEPT ![t] = clock]
  /\ UNCHANGED <<windowVars, loginVars, tokenVars, keyVars>>

\* KeyRateLimiter.record.
RecordTokens(t, n) ==
  /\ Move(t, "key", "record", "usage")
  /\ IF n = 0
       THEN UNCHANGED <<windowVars, used>>
       ELSE /\ Keep(PrunedRequests(saw[t]))
            /\ used' = Append(PrunedTokens(saw[t]), [time |-> saw[t], tokens |-> n])
  /\ ForgetTime(t)
  /\ UNCHANGED <<loginVars, tokenVars, cost, price>>

\* record_usage: an UPDATE that adds to the row.
RecordUsage(t, c) ==
  /\ Move(t, "key", "usage", "idle")
  /\ cost' = cost + c
  /\ UNCHANGED <<saw, windowVars, loginVars, tokenVars, used, price>>

--------------------------------------------------------------------------------
\* A transaction fails, a scope is missing, a row is gone, a key does not
\* decrypt: the request ends and has counted nothing more.
Breaks(t) ==
  /\ \E place \in {"judging", "stamp", "gate", "upstream", "usage"} : Move(t, subject, place, "idle")
  /\ ForgetRow(t)
  /\ UNCHANGED <<saw, windowVars, loginVars, tokenVars, used, cost>>

--------------------------------------------------------------------------------
\* A request is never more than Lag behind the clock it has read.
Tick ==
  /\ clock < MaxClock
  /\ \A t \in Threads : at[t] \in {"take", "record"} => clock - saw[t] < Lag
  /\ clock' = clock + 1
  /\ UNCHANGED <<subject, at, saw, windowVars, loginVars, tokenVars, keyVars>>

\* The tables are gone with the process, the rows are not.
Restart ==
  /\ at' = [t \in Threads |-> "idle"]
  /\ window' = {} /\ last' = 0 /\ granted' = {} /\ used' = <<>>
  /\ fails' = 0 /\ until' = 0
  /\ saw' = [t \in Threads |-> 0] /\ price' = [t \in Threads |-> 0]
  /\ UNCHANGED <<clock, subject, tokenVars, cost>>

Next ==
  \/ \E t \in Threads :
       \/ Knock(t) \/ WrongPassword(t) \/ RightPassword(t)
       \/ Present(t) \/ ReadClock(t) \/ TakeToken(t)
       \/ Pick(t) \/ OverBudget(t) \/ WithinBudget(t) \/ TakeKey(t) \/ UpstreamAnswers(t)
       \/ Breaks(t)
       \/ \E n \in 0..MaxTokens : RecordTokens(t, n)
       \/ \E c \in 0..MaxCost : UpstreamFails(t, c) \/ RecordUsage(t, c)
  \/ CreateToken \/ RevokeToken
  \/ Tick \/ Restart

Spec == Init /\ [][Next]_vars

--------------------------------------------------------------------------------
\* However the requests race, and with clocks as stale as they may be, no
\* Window - Lag seconds see more than the limit of them: the lookups of both
\* sliding windows count every request that is still in the limiter's window.
KeepsPromise == Promise!Spec

\* The failures of an address stay below the threshold but for the passwords
\* already being judged when it was reached, so that a lock doubles at most
\* once for each of them and never grows from one lock to the next.
FailsBounded == fails < MaxFails + Cardinality(Threads)

\* A token that was revoked or has expired lets in no request but those that
\* had been looked up before.
TokenEnds == late <= Cardinality(Threads)

\* A key costs less than its budget and what the requests in flight cost:
\* neither stale copies of the row nor failed requests add up beyond that.
BudgetHolds == cost < Budget + MaxCost * Cardinality(Threads)
================================================================================
