---------------------------- MODULE AdmissionProofs ----------------------------
(* What TLAPS proves of the three gates for any number of requests and any     *)
(* limits: how far the requests that are past a check when it starts to refuse *)
(* can take the counter it looks at (each invariant counts those requests);    *)
(* and that both windows implement Throttle.                                   *)
EXTENDS Admission, FiniteSetTheorems, SequenceTheorems, WellFoundedInduction, TLAPS

\* The variables the three counters depend on.
CountersOK ==
  /\ clock \in Nat
  /\ at \in [Threads -> Places]
  /\ fails \in Nat /\ until \in Nat
  /\ row \in {"none", "valid", "revoked"} /\ expiry \in Nat /\ late \in Nat
  /\ cost \in Nat /\ price \in [Threads -> Nat]

N == Cardinality(Threads)

\* Passwords being judged.
Judging == {t \in Threads : at[t] = "judging"}
LockInv == fails >= MaxFails => until > 0 /\ fails + Cardinality(Judging) < MaxFails + N

\* Requests whose token has been looked up.
Presented == {t \in Threads : subject = "token" /\ at[t] \in {"stamp", "take"}}
TokenInv ==
  /\ row = "none" => late = 0 /\ Presented = {}
  /\ ~Over => late = 0
  /\ Over => late + Cardinality(Presented) <= N

\* Requests that have passed the budget, or will: their copy of the row is cheap.
Charging == {t \in Threads : /\ subject = "key"
                             /\ at[t] # "idle"
                             /\ at[t] = "gate" => price[t] < Budget}
BudgetInv == cost >= Budget => cost + MaxCost * Cardinality(Charging) < Budget + MaxCost * N

--------------------------------------------------------------------------------
LEMMA Sizes ==
  /\ N \in Nat
  /\ IsFiniteSet(Judging) /\ Cardinality(Judging) \in 0..N
  /\ IsFiniteSet(Presented) /\ Cardinality(Presented) \in 0..N
  /\ IsFiniteSet(Charging) /\ Cardinality(Charging) \in 0..N
<1>1. /\ Judging \in SUBSET Threads /\ Presented \in SUBSET Threads
      /\ Charging \in SUBSET Threads
  BY DEF Judging, Presented, Charging
<1>2. N \in Nat
  BY ThreadAssumption, FS_CardinalityType DEF N
<1>3. ASSUME NEW S \in SUBSET Threads PROVE IsFiniteSet(S) /\ Cardinality(S) \in 0..N
  <2>1. IsFiniteSet(S) /\ Cardinality(S) <= N
    BY ThreadAssumption, FS_Subset DEF N
  <2> QED
    BY <1>2, <2>1, FS_CardinalityType
<1> QED
  BY <1>1, <1>2, <1>3

LEMMA Constants ==
  /\ MaxFails \in Nat \ {0} /\ Budget \in Nat \ {0} /\ MaxLock \in Nat \ {0}
  /\ MaxCost \in Nat /\ Lifetime \in Nat
BY LimitAssumption, SizeAssumption

\* What a step does to a set of requests it takes one away from, or none.
LEMMA Shrinks ==
  ASSUME NEW S, NEW T \in SUBSET S, IsFiniteSet(S)
  PROVE  /\ Cardinality(T) \in Nat /\ Cardinality(S) \in Nat
         /\ Cardinality(T) <= Cardinality(S)
         /\ \A t \in S : T = S \ {t} => Cardinality(T) = Cardinality(S) - 1
BY FS_Subset, FS_RemoveElement, FS_CardinalityType

\* More requests cost more.
LEMMA CostGrows ==
  \A m, n \in Nat : /\ m <= n => MaxCost * m <= MaxCost * n
                    /\ MaxCost * (m + 1) = MaxCost * m + MaxCost
                    /\ MaxCost * m \in Nat
<1> MaxCost \in Nat
  BY Constants
<1>1. ASSUME NEW m \in Nat PROVE MaxCost * (m + 1) = MaxCost * m + MaxCost /\ MaxCost * m \in Nat
  OBVIOUS
<1>2. ASSUME NEW m \in Nat, NEW n \in Nat, m <= n PROVE MaxCost * m <= MaxCost * n
  <2>1. n - m \in Nat /\ MaxCost * (n - m) \in Nat
    BY <1>1, <1>2
  <2>2. MaxCost * n = MaxCost * m + MaxCost * (n - m)
    BY <1>2
  <2> QED
    BY <1>1, <2>1, <2>2
<1> QED
  BY <1>1, <1>2

AdmissionInv == CountersOK /\ LockInv /\ TokenInv /\ BudgetInv

LEMMA AdmissionInit == Init => AdmissionInv
<1> SUFFICES ASSUME Init PROVE AdmissionInv
  OBVIOUS
<1>1. CountersOK /\ LockInv
  BY Constants DEF Init, CountersOK, LockInv, Places
<1>2. Presented = {} /\ Charging = {}
  BY DEF Init, Presented, Charging
<1>3. TokenInv
  BY <1>2, Sizes, FS_EmptySet DEF Init, TokenInv
<1>4. BudgetInv
  BY Constants DEF Init, BudgetInv
<1> QED
  BY <1>1, <1>3, <1>4 DEF AdmissionInv

--------------------------------------------------------------------------------
\* A step that leaves the login limiter alone lets nobody in to be judged.
LEMMA LockKept ==
  ASSUME CountersOK, LockInv, UNCHANGED loginVars, Judging' \in SUBSET Judging
  PROVE  LockInv'
<1>1. Cardinality(Judging') <= Cardinality(Judging) /\ Cardinality(Judging') \in Nat
  BY Sizes, Shrinks
<1> QED
  BY <1>1, Sizes, Constants DEF LockInv, loginVars, CountersOK

LEMMA KnockKeepsLock ==
  ASSUME CountersOK, LockInv, NEW t \in Threads, Knock(t)
  PROVE  LockInv' /\ fails' \in Nat /\ until' \in Nat
<1>1. CASE fails >= MaxFails
  <2>1. fails' = 0 /\ until' = 0
    BY <1>1 DEF LockInv, Knock, CountersOK
  <2> QED
    BY <2>1, Constants DEF LockInv
<1>2. CASE ~(fails >= MaxFails)
  BY <1>2, Constants DEF LockInv, Knock, CountersOK, loginVars
<1> QED
  BY <1>1, <1>2

\* The failure that locks is the last but those being judged with it.
LEMMA WrongPasswordKeepsLock ==
  ASSUME CountersOK, LockInv, NEW t \in Threads, WrongPassword(t)
  PROVE  LockInv' /\ fails' \in Nat /\ until' \in Nat
<1>1. /\ fails' = fails + 1 /\ fails \in Nat /\ until \in Nat /\ clock \in Nat
      /\ t \in Judging /\ Judging' = Judging \ {t}
  BY DEF WrongPassword, Move, CountersOK, Judging
<1>2. Cardinality(Judging') = Cardinality(Judging) - 1 /\ Cardinality(Judging) \in 0..N /\ N \in Nat
  BY <1>1, Sizes, FS_RemoveElement
<1>3. CASE fails' < MaxFails
  <2>1. until' = until
    BY <1>3 DEF WrongPassword
  <2> QED
    BY <1>1, <1>3, <2>1, Constants DEF LockInv
<1>4. CASE ~(fails' < MaxFails)
  <2>1. fails' + Cardinality(Judging') < MaxFails + N
    BY <1>1, <1>2, <1>4, Constants DEF LockInv
  <2>2. fails' - MaxFails \in 0..N /\ Cardinality(Judging') \in Nat
    BY <1>1, <1>2, <1>4, <2>1, Sizes, Shrinks, Constants
  <2>3. BaseLock * 2 ^ (fails' - MaxFails) \in Nat \ {0}
    BY <2>2, LockAssumption DEF N
  <2> DEFINE secs == BaseLock * 2 ^ (fails' - MaxFails)
  <2>4. until' = clock + (IF secs < MaxLock THEN secs ELSE MaxLock)
    BY <1>4 DEF WrongPassword
  <2>5. secs \in Nat \ {0}
    BY <2>3
  <2> HIDE DEF secs
  <2>6. until' \in Nat /\ until' > 0
    BY <1>1, <2>4, <2>5, Constants
  <2> QED
    BY <1>1, <2>1, <2>6 DEF LockInv
<1> QED
  BY <1>3, <1>4

--------------------------------------------------------------------------------
\* A step that leaves the tokens alone presents none.
LEMMA TokenKept ==
  ASSUME TokenInv, UNCHANGED <<clock, tokenVars>>, CountersOK, Presented' \in SUBSET Presented
  PROVE  TokenInv'
<1>1. Cardinality(Presented') <= Cardinality(Presented) /\ Cardinality(Presented') \in Nat
  BY Sizes, Shrinks
<1>2. (Over' <=> Over) /\ row' = row /\ late' = late /\ late \in Nat
  BY DEF Over, tokenVars, CountersOK
<1> QED
  BY <1>1, <1>2, Sizes DEF TokenInv

LEMMA TokenStep ==
  ASSUME CountersOK, TokenInv, NEW t \in Threads, Present(t) \/ TakeToken(t)
  PROVE  TokenInv' /\ late' \in Nat
<1>1. CASE Present(t)
  <2>1. row' = row /\ row = "valid" /\ late' = late /\ ~Over /\ ~Over'
    BY <1>1 DEF Present, Move, Over, tokenVars
  <2> QED
    BY <2>1 DEF TokenInv, CountersOK
<1>2. CASE TakeToken(t)
  <2>1. /\ t \in Presented /\ Presented' = Presented \ {t}
        /\ row' = row /\ (Over' <=> Over)
        /\ late' = late \/ (Over /\ late' = late + 1)
    BY <1>2 DEF TakeToken, Move, Presented, CountersOK, Over
  <2>2. /\ Cardinality(Presented') = Cardinality(Presented) - 1
        /\ Cardinality(Presented) \in 0..N /\ N \in Nat
    BY <2>1, Sizes, FS_RemoveElement
  <2> QED
    BY <2>1, <2>2 DEF TokenInv, CountersOK
<1> QED
  BY <1>1, <1>2

LEMMA RowStep ==
  ASSUME CountersOK, TokenInv, CreateToken \/ RevokeToken \/ Tick
  PROVE  TokenInv'
<1>1. Presented' = Presented /\ late' = late /\ Cardinality(Presented) \in 0..N /\ N \in Nat
  BY Sizes DEF Presented, CreateToken, RevokeToken, Tick, tokenVars
<1>2. CASE CreateToken
  <2>1. row = "none" /\ row' = "valid" /\ late = 0
    BY <1>2 DEF CreateToken, TokenInv
  <2> QED
    BY <1>1, <2>1 DEF TokenInv
<1>3. CASE RevokeToken \/ Tick
  <2>1. /\ row' = "none" => row = "none"
        /\ Over => Over'
    BY <1>3 DEF RevokeToken, Tick, Over, tokenVars, CountersOK
  <2> QED
    BY <1>1, <2>1 DEF TokenInv, CountersOK
<1> QED
  BY <1>2, <1>3

--------------------------------------------------------------------------------
\* A step that charges nothing and brings nobody past the budget.
LEMMA BudgetKept ==
  ASSUME CountersOK, BudgetInv, UNCHANGED cost, Charging' \in SUBSET Charging
  PROVE  BudgetInv'
<1>1. /\ Cardinality(Charging') <= Cardinality(Charging)
      /\ Cardinality(Charging') \in Nat /\ Cardinality(Charging) \in Nat
  BY Sizes, Shrinks
<1>2. MaxCost * Cardinality(Charging') <= MaxCost * Cardinality(Charging)
  BY <1>1, CostGrows
<1>3. /\ MaxCost * Cardinality(Charging') \in Nat /\ MaxCost * Cardinality(Charging) \in Nat
      /\ MaxCost * N \in Nat
  BY <1>1, Sizes, CostGrows
<1> QED
  BY <1>2, <1>3, Constants DEF BudgetInv, CountersOK

\* A copy is as dear as the row: while the budget is spent nobody comes in.
LEMMA PickKeepsBudget ==
  ASSUME CountersOK, BudgetInv, NEW t \in Threads, Pick(t)
  PROVE  BudgetInv'
<1>1. CASE cost >= Budget
  <2>1. price'[t] = cost /\ at'[t] = "gate" /\ \A o \in Threads \ {t} : at'[o] = at[o] /\ price'[o] = price[o]
    BY DEF Pick, Move, CountersOK
  <2>2. Charging' \in SUBSET Charging
    BY <1>1, <2>1, Constants DEF Charging, Pick, Move, CountersOK
  <2> QED
    BY <2>2, BudgetKept DEF Pick
<1>2. CASE ~(cost >= Budget)
  BY <1>2 DEF BudgetInv, Pick
<1> QED
  BY <1>1, <1>2

LEMMA ChargeKeepsBudget ==
  ASSUME CountersOK, BudgetInv, NEW t \in Threads, NEW c \in 0..MaxCost,
         UpstreamFails(t, c) \/ RecordUsage(t, c)
  PROVE  BudgetInv' /\ cost' \in Nat
<1>1. /\ t \in Charging /\ Charging' = Charging \ {t}
      /\ cost' = cost + c /\ cost \in Nat /\ c \in Nat /\ c <= MaxCost
  BY Constants DEF UpstreamFails, RecordUsage, Move, Charging, CountersOK
<1>2. /\ Cardinality(Charging') = Cardinality(Charging) - 1
      /\ Cardinality(Charging) \in 0..N /\ N \in Nat /\ Cardinality(Charging') \in Nat
  BY <1>1, Sizes, Shrinks, FS_RemoveElement
<1>3. /\ MaxCost * Cardinality(Charging) = MaxCost * Cardinality(Charging') + MaxCost
      /\ MaxCost * Cardinality(Charging) <= MaxCost * N
      /\ MaxCost * Cardinality(Charging') \in Nat /\ MaxCost * N \in Nat
  <2>1. Cardinality(Charging) = Cardinality(Charging') + 1
    BY <1>2
  <2> QED
    BY <1>2, <2>1, CostGrows
<1>4. cost' + MaxCost * Cardinality(Charging') <= cost + MaxCost * Cardinality(Charging)
  BY <1>1, <1>3, Constants
<1> QED
  BY <1>1, <1>3, <1>4, Constants DEF BudgetInv

--------------------------------------------------------------------------------
\* A request that moves on within its gate: nobody new is judged, presented or
\* past the budget.
LEMMA MoveOn ==
  ASSUME CountersOK, NEW t \in Threads, NEW s, NEW from \in Places, NEW to \in Places,
         Move(t, s, from, to), price' \in [Threads -> Nat],
         \A o \in Threads \ {t} : price'[o] = price[o],
         to # "judging",
         to \in {"stamp", "take"} => s # "token" \/ from \in {"stamp", "take"},
         s = "key" => from # "idle" /\ to # "gate" /\ (from = "gate" => to = "idle" \/ price[t] < Budget)
  PROVE  /\ at' \in [Threads -> Places]
         /\ Judging' \in SUBSET Judging
         /\ Presented' \in SUBSET Presented
         /\ Charging' \in SUBSET Charging
<1>1. /\ subject = s /\ subject' = s /\ at[t] = from /\ at'[t] = to
      /\ \A o \in Threads \ {t} : at'[o] = at[o]
      /\ at' \in [Threads -> Places]
  BY DEF Move, CountersOK
<1>2. Judging' \in SUBSET Judging
  BY <1>1 DEF Judging
<1>3. Presented' \in SUBSET Presented
  BY <1>1 DEF Presented
<1>4. Charging' \in SUBSET Charging
  BY <1>1 DEF Charging
<1> QED
  BY <1>1, <1>2, <1>3, <1>4

\* Such a step keeps the invariant when it touches no counter.
LEMMA QuietKeepsInv ==
  ASSUME AdmissionInv, at' \in [Threads -> Places], price' \in [Threads -> Nat],
         UNCHANGED <<clock, loginVars, tokenVars, cost>>,
         Judging' \in SUBSET Judging, Presented' \in SUBSET Presented,
         Charging' \in SUBSET Charging
  PROVE  AdmissionInv'
<1>1. CountersOK'
  BY DEF AdmissionInv, CountersOK, loginVars, tokenVars
<1>2. LockInv' /\ TokenInv' /\ BudgetInv'
  BY LockKept, TokenKept, BudgetKept DEF AdmissionInv
<1> QED
  BY <1>1, <1>2 DEF AdmissionInv

LEMMA LoginStep ==
  ASSUME AdmissionInv, NEW t \in Threads, Knock(t) \/ WrongPassword(t) \/ RightPassword(t)
  PROVE  AdmissionInv'
<1>1. /\ at' \in [Threads -> Places] /\ Presented' \in SUBSET Presented
      /\ Charging' \in SUBSET Charging /\ UNCHANGED <<clock, tokenVars, cost, price>>
  BY DEF AdmissionInv, CountersOK, Places, Presented, Charging, Move, Knock, WrongPassword,
         RightPassword, keyVars
<1>2. LockInv' /\ fails' \in Nat /\ until' \in Nat
  BY KnockKeepsLock, WrongPasswordKeepsLock, Constants DEF AdmissionInv, RightPassword, LockInv
<1>3. CountersOK'
  BY <1>1, <1>2 DEF AdmissionInv, CountersOK, tokenVars
<1>4. TokenInv' /\ BudgetInv'
  BY <1>1, TokenKept, BudgetKept DEF AdmissionInv
<1> QED
  BY <1>2, <1>3, <1>4 DEF AdmissionInv

LEMMA LookupStep ==
  ASSUME AdmissionInv, NEW t \in Threads, Present(t) \/ TakeToken(t)
  PROVE  AdmissionInv'
<1>1. /\ at' \in [Threads -> Places] /\ Judging' \in SUBSET Judging
      /\ Charging' \in SUBSET Charging
      /\ UNCHANGED <<clock, loginVars, row, expiry, cost, price>>
  BY DEF AdmissionInv, CountersOK, Places, Judging, Charging, Move, Present, TakeToken, keyVars,
         tokenVars
<1>2. TokenInv' /\ late' \in Nat
  BY TokenStep DEF AdmissionInv
<1>3. CountersOK'
  BY <1>1, <1>2 DEF AdmissionInv, CountersOK, loginVars
<1>4. LockInv' /\ BudgetInv'
  BY <1>1, LockKept, BudgetKept DEF AdmissionInv
<1> QED
  BY <1>2, <1>3, <1>4 DEF AdmissionInv

LEMMA ChargeStep ==
  ASSUME AdmissionInv, NEW t \in Threads,
         Pick(t) \/ \E c \in 0..MaxCost : UpstreamFails(t, c) \/ RecordUsage(t, c)
  PROVE  AdmissionInv'
<1>1. /\ at' \in [Threads -> Places] /\ Judging' \in SUBSET Judging
      /\ Presented' \in SUBSET Presented /\ price' \in [Threads -> Nat]
      /\ UNCHANGED <<clock, loginVars, tokenVars>>
  BY DEF AdmissionInv, CountersOK, Places, Judging, Presented, Move, Pick, UpstreamFails, RecordUsage
<1>2. BudgetInv' /\ cost' \in Nat
  BY PickKeepsBudget, ChargeKeepsBudget DEF AdmissionInv, Pick, CountersOK
<1>3. CountersOK'
  BY <1>1, <1>2 DEF AdmissionInv, CountersOK, loginVars, tokenVars
<1>4. LockInv' /\ TokenInv'
  BY <1>1, LockKept, TokenKept DEF AdmissionInv
<1> QED
  BY <1>2, <1>3, <1>4 DEF AdmissionInv

\* The steps that only move a request on.
LEMMA PassingStep ==
  ASSUME AdmissionInv, NEW t \in Threads,
         \/ ReadClock(t) \/ OverBudget(t) \/ WithinBudget(t) \/ TakeKey(t)
         \/ UpstreamAnswers(t) \/ Breaks(t) \/ \E n \in 0..MaxTokens : RecordTokens(t, n)
  PROVE  AdmissionInv'
<1>1. /\ price' \in [Threads -> Nat] /\ \A o \in Threads \ {t} : price'[o] = price[o]
      /\ UNCHANGED <<clock, loginVars, tokenVars, cost>>
  <2>1. ForgetRow(t) \/ UNCHANGED price
    BY DEF ReadClock, OverBudget, WithinBudget, TakeKey, UpstreamAnswers, Breaks, RecordTokens, keyVars
  <2>2. UNCHANGED <<loginVars, tokenVars, cost>>
    BY DEF ReadClock, OverBudget, WithinBudget, TakeKey, UpstreamAnswers, Breaks, RecordTokens, keyVars
  <2>3. UNCHANGED clock
    BY DEF ReadClock, OverBudget, WithinBudget, TakeKey, UpstreamAnswers, Breaks, RecordTokens, Move
  <2> QED
    BY <2>1, <2>2, <2>3 DEF AdmissionInv, CountersOK, ForgetRow
<1>2. CASE ReadClock(t)
  <2>1. Move(t, subject, "stamp", "take")
    BY <1>2 DEF ReadClock
  <2> QED
    BY <1>1, <2>1, MoveOn, QuietKeepsInv DEF AdmissionInv, Places
<1>3. CASE OverBudget(t)
  BY <1>1, <1>3, MoveOn, QuietKeepsInv DEF AdmissionInv, OverBudget, Places
<1>4. CASE WithinBudget(t)
  BY <1>1, <1>4, MoveOn, QuietKeepsInv DEF AdmissionInv, WithinBudget, Places
<1>5. CASE TakeKey(t)
  <2>1. PICK place \in {"upstream", "idle"} : Move(t, "key", "take", place)
    BY <1>5 DEF TakeKey
  <2> QED
    BY <1>1, <2>1, MoveOn, QuietKeepsInv DEF AdmissionInv, Places
<1>6. CASE UpstreamAnswers(t)
  BY <1>1, <1>6, MoveOn, QuietKeepsInv DEF AdmissionInv, UpstreamAnswers, Places
<1>7. CASE Breaks(t)
  <2>1. PICK place \in {"judging", "stamp", "gate", "upstream", "usage"} : Move(t, subject, place, "idle")
    BY <1>7 DEF Breaks
  <2> QED
    BY <1>1, <2>1, MoveOn, QuietKeepsInv DEF AdmissionInv, Places
<1>8. CASE \E n \in 0..MaxTokens : RecordTokens(t, n)
  <2>1. Move(t, "key", "record", "usage")
    BY <1>8 DEF RecordTokens
  <2> QED
    BY <1>1, <2>1, MoveOn, QuietKeepsInv DEF AdmissionInv, Places
<1> QED
  BY <1>2, <1>3, <1>4, <1>5, <1>6, <1>7, <1>8

LEMMA TableStep ==
  ASSUME AdmissionInv, CreateToken \/ RevokeToken \/ Tick
  PROVE  AdmissionInv'
<1>1. CountersOK'
  BY Constants DEF AdmissionInv, CountersOK, CreateToken, RevokeToken, Tick, loginVars, keyVars, tokenVars
<1>2. /\ Judging' = Judging /\ Charging' = Charging /\ UNCHANGED <<loginVars, cost>>
  BY DEF Judging, Charging, CreateToken, RevokeToken, Tick, keyVars
<1>3. LockInv' /\ TokenInv' /\ BudgetInv'
  BY <1>2, LockKept, RowStep, BudgetKept DEF AdmissionInv
<1> QED
  BY <1>1, <1>3 DEF AdmissionInv

LEMMA RestartKeepsInv ==
  ASSUME AdmissionInv, Restart
  PROVE  AdmissionInv'
<1>1. CountersOK'
  BY DEF AdmissionInv, CountersOK, Restart, Places, tokenVars
<1>2. /\ Presented' \in SUBSET Presented /\ Charging' \in SUBSET Charging
      /\ UNCHANGED <<clock, tokenVars, cost>>
  BY DEF Restart, Presented, Charging
<1>3. LockInv'
  BY Constants DEF Restart, LockInv
<1>4. TokenInv' /\ BudgetInv'
  BY <1>2, TokenKept, BudgetKept DEF AdmissionInv
<1> QED
  BY <1>1, <1>3, <1>4 DEF AdmissionInv

LEMMA AdmissionStep == AdmissionInv /\ [Next]_vars => AdmissionInv'
<1> SUFFICES ASSUME AdmissionInv, [Next]_vars PROVE AdmissionInv'
  OBVIOUS
<1>1. CASE UNCHANGED vars
  BY <1>1, QuietKeepsInv DEF vars, keyVars, AdmissionInv, CountersOK, Judging, Presented, Charging
<1> QED
  <2>1. CASE CreateToken \/ RevokeToken \/ Tick
    BY <2>1, TableStep
  <2>2. CASE Restart
    BY <2>2, RestartKeepsInv
  <2>3. ASSUME NEW t \in Threads, Knock(t) \/ WrongPassword(t) \/ RightPassword(t)
        PROVE  AdmissionInv'
    BY <2>3, LoginStep
  <2>4. ASSUME NEW t \in Threads, Present(t) \/ TakeToken(t) PROVE AdmissionInv'
    BY <2>4, LookupStep
  <2>5. ASSUME NEW t \in Threads,
               Pick(t) \/ \E c \in 0..MaxCost : UpstreamFails(t, c) \/ RecordUsage(t, c)
        PROVE  AdmissionInv'
    BY <2>5, ChargeStep
  <2>6. ASSUME NEW t \in Threads,
               \/ ReadClock(t) \/ OverBudget(t) \/ WithinBudget(t) \/ TakeKey(t)
               \/ UpstreamAnswers(t) \/ Breaks(t) \/ \E n \in 0..MaxTokens : RecordTokens(t, n)
        PROVE  AdmissionInv'
    BY <2>6, PassingStep
  <2> QED
    BY <1>1, <2>1, <2>2, <2>3, <2>4, <2>5, <2>6 DEF Next

\* The inductive invariant holds of every behaviour of the gates.
THEOREM AdmissionInvariant == Spec => []AdmissionInv
BY AdmissionInit, AdmissionStep, PTL DEF Spec

\* The failures of an address go past the threshold by the passwords that were
\* being judged, however many attempts there are at once.
THEOREM LoginsBounded == Spec => []FailsBounded
<1>1. AdmissionInv => FailsBounded
  <2> SUFFICES ASSUME AdmissionInv PROVE fails < MaxFails + N
    BY DEF FailsBounded, N
  <2>1. CASE fails >= MaxFails
    BY <2>1, Sizes, Constants DEF AdmissionInv, LockInv, CountersOK
  <2>2. CASE ~(fails >= MaxFails)
    BY <2>2, Sizes, Constants DEF AdmissionInv, CountersOK
  <2> QED
    BY <2>1, <2>2
<1> QED
  BY <1>1, AdmissionInvariant, PTL

\* A token that has ended lets in the requests that had been looked up.
THEOREM TokensEnd == Spec => []TokenEnds
<1>1. AdmissionInv => TokenEnds
  BY Sizes DEF AdmissionInv, TokenInv, TokenEnds, CountersOK, N
<1> QED
  BY <1>1, AdmissionInvariant, PTL

\* A key's cost stays within its budget and the requests in flight, for any
\* budget, any prices and any number of requests.
THEOREM BudgetsHold == Spec => []BudgetHolds
<1>1. AdmissionInv => BudgetHolds
  <2> SUFFICES ASSUME AdmissionInv PROVE cost < Budget + MaxCost * N
    BY DEF BudgetHolds, N
  <2>1. MaxCost * N \in Nat /\ MaxCost * Cardinality(Charging) \in Nat
    BY Sizes, CostGrows
  <2> QED
    BY <2>1, Constants DEF AdmissionInv, BudgetInv, CountersOK
<1> QED
  BY <1>1, AdmissionInvariant, PTL

--------------------------------------------------------------------------------
(* The sliding windows: why the limiters keep what Throttle promises.          *)

LEMMA Widths == Window \in Nat /\ Lag \in Nat /\ Lag < Window /\ Rpm \in Nat \ {0} /\ MaxTokens \in Nat
BY LimitAssumption, SizeAssumption

\* A set of naturals has a least element.
LEMMA Least ==
  ASSUME NEW T \in SUBSET Nat, T # {}
  PROVE  \E x \in T : \A y \in T : x <= y
<1> DEFINE R == OpToRel(<, Nat)
<1>1. IsWellFoundedOn(R, Nat)
  BY NatLessThanWellFounded
<1>2. \A m, n \in Nat : m < n => <<m, n>> \in R
  BY DEF OpToRel
<1> HIDE DEF R
<1>3. PICK x \in T : \A y \in T : <<y, x>> \notin R
  BY <1>1, WFMin
<1>4. ASSUME NEW y \in T PROVE x <= y
  <2>1. x \in Nat /\ y \in Nat /\ ~(y < x)
    BY <1>2, <1>3
  <2> QED
    BY <2>1
<1> QED
  BY <1>4

\* What _prune leaves of the tokens is a sequence of entries.
LEMMA PrunedTokensType ==
  ASSUME used \in Seq(Entry), NEW now \in Nat
  PROVE  PrunedTokens(now) \in Seq(Entry)
<1> DEFINE Young == {i \in 1..Len(used) : used[i].time >= now - Window}
           first == SelectInSeq(used, LAMBDA e : e.time >= now - Window)
<1>1. first = IF Young # {} THEN Min(Young) ELSE 0
  BY DEF SelectInSeq
<1>2. Young # {} => Min(Young) \in Young
  <2> SUFFICES ASSUME Young # {} PROVE Min(Young) \in Young
    OBVIOUS
  <2>1. Young \in SUBSET Nat
    OBVIOUS
  <2>2. \E x \in Young : \A y \in Young : x <= y
    BY <2>1, Least
  <2> QED
    BY <2>2 DEF Min
<1>3. first \in Nat /\ first <= Len(used) /\ Len(used) \in Nat
  BY <1>1, <1>2
<1>4. PrunedTokens(now) = IF first = 0 THEN <<>> ELSE SubSeq(used, first, Len(used))
  BY DEF PrunedTokens
<1> HIDE DEF first
<1>5. CASE first # 0
  <2>1. \A i \in first..Len(used) : used[i] \in Entry
    BY <1>3, <1>5
  <2> QED
    BY <1>3, <1>4, <1>5, <2>1, SubSeqProperties
<1> QED
  BY <1>4, <1>5

\* Who is between the clock and the lock has not been there for long; every
\* request let in within the span that Throttle looks at is in the window.
WindowsOK ==
  /\ saw \in [Threads -> Nat] /\ last \in Nat /\ used \in Seq(Entry)
  /\ window \subseteq Grants /\ granted \subseteq Grants
  /\ IsFiniteSet(window) /\ IsFiniteSet(granted)
  /\ \A g \in window : g.no <= last

Fresh == \A t \in Threads :
  at[t] \in {"take", "record"} => saw[t] <= clock /\ clock <= saw[t] + Lag

StillThere == \A g \in granted :
  /\ g.time <= clock /\ g.time <= g.seen + Lag
  /\ g.time > clock - (Window - Lag) => g \in window

PromiseInv == WindowsOK /\ Fresh /\ StillThere

LEMMA PromiseInit == Init => PromiseInv
BY FS_EmptySet DEF Init, PromiseInv, WindowsOK, Fresh, StillThere, Grants

\* What a limiter may drop: nothing that was let in of late.
LEMMA KeptIsEnough ==
  ASSUME CountersOK, PromiseInv, NEW kept, kept \in SUBSET window, NEW t \in Threads,
         saw[t] <= clock,
         \A g \in window : saw[t] - g.seen < Window => g \in kept
  PROVE  /\ IsFiniteSet(kept) /\ kept \subseteq Grants
         /\ \A g \in kept : g.no <= last
         /\ Promise!Recent \subseteq kept
         /\ Cardinality(Promise!Recent) <= Cardinality(kept)
<1>1. IsFiniteSet(kept) /\ kept \subseteq Grants /\ \A g \in kept : g.no <= last
  BY FS_Subset DEF PromiseInv, WindowsOK
<1>2. ASSUME NEW g \in Promise!Recent PROVE g \in kept
  <2>1. g \in granted /\ g.time > clock - (Window - Lag)
    BY <1>2 DEF Promise!Recent
  <2>2. g \in window /\ g.time <= g.seen + Lag /\ g \in Grants
    BY <2>1 DEF PromiseInv, StillThere, WindowsOK
  <2>3. g.time \in Nat /\ g.seen \in Nat /\ clock \in Nat /\ saw[t] \in Nat
    BY <2>2 DEF Grants, CountersOK, PromiseInv, WindowsOK
  <2>4. saw[t] - g.seen < Window
    BY <2>1, <2>2, <2>3, Widths
  <2> QED
    BY <2>2, <2>4
<1>3. Cardinality(Promise!Recent) <= Cardinality(kept)
  BY <1>1, <1>2, FS_Subset
<1> QED
  BY <1>1, <1>2, <1>3

\* Both limiters' ways of dropping leave enough.
LEMMA TokenWindowKept ==
  ASSUME CountersOK, PromiseInv, NEW t \in Threads
  PROVE  LET kept == {g \in window : saw[t] - g.seen < Window} IN
         kept \in SUBSET window /\ \A g \in window : saw[t] - g.seen < Window => g \in kept
OBVIOUS

LEMMA KeyWindowKept ==
  ASSUME CountersOK, PromiseInv, NEW t \in Threads
  PROVE  /\ PrunedRequests(saw[t]) \in SUBSET window
         /\ \A g \in window : saw[t] - g.seen < Window => g \in PrunedRequests(saw[t])
<1>1. ASSUME NEW g \in window, saw[t] - g.seen < Window PROVE g \in PrunedRequests(saw[t])
  <2>1. g \in Grants /\ saw[t] \in Nat
    BY DEF PromiseInv, WindowsOK
  <2>2. g.no <= g.no /\ g.seen >= saw[t] - Window
    BY <1>1, <2>1, Widths DEF Grants
  <2> QED
    BY <2>2 DEF PrunedRequests
<1> QED
  BY <1>1 DEF PrunedRequests

--------------------------------------------------------------------------------
\* A step of one request that lets nobody in and drops nothing.
LEMMA QuietKeepsPromise ==
  ASSUME CountersOK, PromiseInv, UNCHANGED <<clock, windowVars, used>>,
         saw' \in [Threads -> Nat],
         \A t \in Threads : at'[t] \in {"take", "record"} =>
           \/ at[t] \in {"take", "record"} /\ saw'[t] = saw[t]
           \/ saw'[t] = clock
  PROVE  PromiseInv'
<1>1. WindowsOK' /\ StillThere'
  BY DEF PromiseInv, WindowsOK, StillThere, windowVars
<1>2. ASSUME NEW t \in Threads, at'[t] \in {"take", "record"}
      PROVE  saw'[t] <= clock' /\ clock' <= saw'[t] + Lag
  BY <1>2, Widths DEF PromiseInv, Fresh, CountersOK
<1> QED
  BY <1>1, <1>2 DEF PromiseInv, Fresh

\* A window that keeps enough, behind which nobody is let in.
LEMMA KeepKeepsPromise ==
  ASSUME CountersOK, PromiseInv, NEW t \in Threads, NEW kept, kept \in SUBSET window,
         saw[t] <= clock, \A g \in window : saw[t] - g.seen < Window => g \in kept,
         Keep(kept), UNCHANGED clock
  PROVE  /\ window' \subseteq Grants /\ granted' \subseteq Grants /\ last' \in Nat
         /\ IsFiniteSet(window') /\ IsFiniteSet(granted')
         /\ \A g \in window' : g.no <= last'
         /\ StillThere'
         /\ UNCHANGED granted
<1>1. /\ IsFiniteSet(kept) /\ kept \subseteq Grants /\ \A g \in kept : g.no <= last
      /\ Promise!Recent \subseteq kept
  BY KeptIsEnough
<1>2. /\ window' = kept /\ granted' = granted /\ last' = IF kept = {} THEN 0 ELSE last
  BY DEF Keep
<1>3. StillThere'
  BY <1>1, <1>2 DEF StillThere, PromiseInv, Promise!Recent
<1> QED
  BY <1>1, <1>2, <1>3 DEF PromiseInv, WindowsOK

\* Throttle counts as everything else does.
LEMMA SameSize == ASSUME NEW S PROVE Promise!Cardinality(S) = Cardinality(S)
BY DEF Promise!Cardinality, Cardinality

\* One let in behind it, which Throttle allows.
LEMMA LetInKeepsPromise ==
  ASSUME CountersOK, PromiseInv, NEW t \in Threads, NEW kept, kept \in SUBSET window,
         at[t] = "take", \A g \in window : saw[t] - g.seen < Window => g \in kept,
         Cardinality(kept) < Rpm, LetIn(t, kept), UNCHANGED clock
  PROVE  /\ window' \subseteq Grants /\ granted' \subseteq Grants /\ last' \in Nat
         /\ IsFiniteSet(window') /\ IsFiniteSet(granted')
         /\ \A g \in window' : g.no <= last'
         /\ StillThere'
         /\ Promise!Grant
<1> DEFINE no == IF kept = {} THEN 1 ELSE last + 1
           g  == [no |-> no, seen |-> saw[t], time |-> clock]
<1>1. saw[t] <= clock /\ clock <= saw[t] + Lag /\ saw[t] \in Nat /\ clock \in Nat /\ last \in Nat
  BY DEF PromiseInv, Fresh, WindowsOK, CountersOK
<1>2. /\ IsFiniteSet(kept) /\ kept \subseteq Grants /\ \A h \in kept : h.no <= last
      /\ Promise!Recent \subseteq kept
      /\ Cardinality(Promise!Recent) <= Cardinality(kept)
  BY <1>1, KeptIsEnough
<1>3. /\ window' = kept \union {g} /\ last' = no /\ granted' = Promise!Recent \union {g}
  BY DEF LetIn
<1>4. g \in Grants /\ no \in Nat /\ g.no = no /\ g.time = clock /\ g.seen = saw[t]
  BY <1>1 DEF Grants
<1>5. g \notin kept
  BY <1>1, <1>2, <1>4 DEF Grants
<1> HIDE DEF g
<1>6. \A h \in window' : h.no <= last'
  BY <1>1, <1>2, <1>3, <1>4 DEF Grants
<1>7. IsFiniteSet(Promise!Recent) /\ Promise!Recent \in SUBSET granted
  BY FS_Subset DEF PromiseInv, WindowsOK, Promise!Recent
<1>8. IsFiniteSet(window') /\ IsFiniteSet(granted')
  BY <1>2, <1>3, <1>7, FS_AddElement
<1>9. StillThere'
  <2> SUFFICES ASSUME NEW h \in granted'
               PROVE  h.time <= clock /\ h.time <= h.seen + Lag /\ h \in window'
    BY DEF StillThere
  <2>1. CASE h = g
    BY <1>1, <1>3, <1>4, <2>1
  <2>2. CASE h \in Promise!Recent
    BY <1>2, <1>3, <1>7, <2>2 DEF PromiseInv, StillThere
  <2> QED
    BY <1>3, <2>1, <2>2
<1>10. Promise!Grant
  <2>1. Promise!Cardinality(Promise!Recent) < Rpm
    BY <1>2, <1>7, FS_CardinalityType, Widths, SameSize
  <2>2. g \in granted' \ Promise!Recent
    BY <1>2, <1>3, <1>5
  <2> QED
    BY <1>3, <1>4, <2>1, <2>2 DEF Promise!Grant
<1> QED
  BY <1>2, <1>3, <1>4, <1>6, <1>7, <1>8, <1>9, <1>10 DEF PromiseInv, WindowsOK

\* The request has left the lock, and what it read is forgotten.
LEMMA LeavesLock ==
  ASSUME PromiseInv, NEW t \in Threads, ForgetTime(t), UNCHANGED clock,
         NEW to, to \notin {"take", "record"}, at \in [Threads -> Places],
         at' = [at EXCEPT ![t] = to]
  PROVE  Fresh' /\ saw' \in [Threads -> Nat]
BY DEF PromiseInv, WindowsOK, Fresh, ForgetTime

LEMMA TakeTokenKeepsPromise ==
  ASSUME CountersOK, PromiseInv, NEW t \in Threads, TakeToken(t)
  PROVE  PromiseInv' /\ (Promise!Grant \/ UNCHANGED <<clock, granted>>)
<1> DEFINE kept == {g \in window : saw[t] - g.seen < Window}
<1>1. /\ at[t] = "take" /\ at' = [at EXCEPT ![t] = "idle"] /\ UNCHANGED <<clock, used>>
      /\ ForgetTime(t)
  BY DEF TakeToken, Move, keyVars
<1>2. kept \in SUBSET window /\ \A g \in window : saw[t] - g.seen < Window => g \in kept
  BY TokenWindowKept
<1>3. IF Cardinality(kept) < Rpm THEN LetIn(t, kept) ELSE Keep(kept)
  BY DEF TakeToken
<1>4. Fresh' /\ saw' \in [Threads -> Nat] /\ used' \in Seq(Entry) /\ saw[t] <= clock
  BY <1>1, LeavesLock DEF CountersOK, PromiseInv, WindowsOK, Fresh
<1> HIDE DEF kept
<1>5. CASE Cardinality(kept) < Rpm
  BY <1>1, <1>2, <1>3, <1>4, <1>5, LetInKeepsPromise DEF PromiseInv, WindowsOK
<1>6. CASE ~(Cardinality(kept) < Rpm)
  BY <1>1, <1>2, <1>3, <1>4, <1>6, KeepKeepsPromise DEF PromiseInv, WindowsOK
<1> QED
  BY <1>5, <1>6

LEMMA TakeKeyKeepsPromise ==
  ASSUME CountersOK, PromiseInv, NEW t \in Threads, TakeKey(t)
  PROVE  PromiseInv' /\ (Promise!Grant \/ UNCHANGED <<clock, granted>>)
<1> DEFINE kept == PrunedRequests(saw[t])
           allowed == /\ Cardinality(kept) < Rpm
                      /\ FoldLeft(LAMBDA sum, e : sum + e.tokens, 0, PrunedTokens(saw[t])) <= Tpm
<1>1. PICK to \in {"upstream", "idle"} : Move(t, "key", "take", to)
  BY DEF TakeKey
<1>2. /\ at[t] = "take" /\ at' = [at EXCEPT ![t] = to] /\ UNCHANGED clock
      /\ ForgetTime(t) /\ used' = PrunedTokens(saw[t])
  BY <1>1 DEF TakeKey, Move
<1>3. kept \in SUBSET window /\ \A g \in window : saw[t] - g.seen < Window => g \in kept
  BY KeyWindowKept
<1>4. IF allowed THEN LetIn(t, kept) ELSE Keep(kept)
  BY DEF TakeKey
<1>5. Fresh' /\ saw' \in [Threads -> Nat] /\ used' \in Seq(Entry) /\ saw[t] <= clock
  BY <1>2, LeavesLock, PrunedTokensType DEF CountersOK, PromiseInv, WindowsOK, Fresh
<1>6. allowed => Cardinality(kept) < Rpm
  OBVIOUS
<1> HIDE DEF kept, allowed
<1>7. CASE allowed
  BY <1>2, <1>3, <1>4, <1>5, <1>6, <1>7, LetInKeepsPromise DEF PromiseInv, WindowsOK
<1>8. CASE ~allowed
  BY <1>2, <1>3, <1>4, <1>5, <1>8, KeepKeepsPromise DEF PromiseInv, WindowsOK
<1> QED
  BY <1>7, <1>8

LEMMA RecordKeepsPromise ==
  ASSUME CountersOK, PromiseInv, NEW t \in Threads, NEW n \in 0..MaxTokens, RecordTokens(t, n)
  PROVE  PromiseInv' /\ UNCHANGED <<clock, granted>>
<1>1. /\ at[t] = "record" /\ at' = [at EXCEPT ![t] = "usage"] /\ UNCHANGED clock
      /\ ForgetTime(t)
  BY DEF RecordTokens, Move
<1>2. Fresh' /\ saw' \in [Threads -> Nat] /\ saw[t] <= clock /\ saw[t] \in Nat
  BY <1>1, LeavesLock DEF CountersOK, PromiseInv, WindowsOK, Fresh
<1>3. CASE n = 0
  BY <1>1, <1>2, <1>3 DEF RecordTokens, windowVars, PromiseInv, WindowsOK, StillThere
<1>4. CASE n # 0
  <2> DEFINE e == [time |-> saw[t], tokens |-> n]
  <2>1. Keep(PrunedRequests(saw[t])) /\ used' = Append(PrunedTokens(saw[t]), e)
    BY <1>4 DEF RecordTokens
  <2>2. e \in Entry /\ PrunedTokens(saw[t]) \in Seq(Entry)
    BY <1>2, PrunedTokensType DEF Entry, PromiseInv, WindowsOK
  <2> HIDE DEF e
  <2>3. used' \in Seq(Entry)
    BY <2>1, <2>2
  <2> QED
    BY <1>1, <1>2, <2>1, <2>3, KeyWindowKept, KeepKeepsPromise DEF PromiseInv, WindowsOK
<1> QED
  BY <1>3, <1>4

LEMMA TickKeepsPromise ==
  ASSUME CountersOK, PromiseInv, Tick
  PROVE  PromiseInv' /\ Promise!Tick
<1>1. clock' = clock + 1 /\ UNCHANGED <<at, saw, windowVars, used>>
  BY DEF Tick, keyVars
<1>2. WindowsOK' /\ Promise!Tick
  BY <1>1 DEF PromiseInv, WindowsOK, windowVars, Promise!Tick
<1>3. Fresh'
  BY <1>1, Widths DEF Tick, PromiseInv, Fresh, WindowsOK, CountersOK
<1>4. StillThere'
  BY <1>1, Widths DEF PromiseInv, StillThere, WindowsOK, CountersOK, Grants, windowVars
<1> QED
  BY <1>2, <1>3, <1>4 DEF PromiseInv

LEMMA RestartKeepsPromise ==
  ASSUME CountersOK, PromiseInv, Restart
  PROVE  PromiseInv' /\ Promise!Restart
<1>1. Promise!Restart
  BY DEF Restart, Promise!Restart
<1>2. WindowsOK' /\ StillThere'
  BY FS_EmptySet DEF Restart, WindowsOK, StillThere
<1>3. Fresh'
  BY DEF Restart, Fresh
<1> QED
  BY <1>1, <1>2, <1>3 DEF PromiseInv

\* The steps that touch no window.
LEMMA OthersKeepPromise ==
  ASSUME CountersOK, PromiseInv, NEW t \in Threads,
         \/ Knock(t) \/ WrongPassword(t) \/ RightPassword(t)
         \/ Present(t) \/ ReadClock(t)
         \/ Pick(t) \/ OverBudget(t) \/ WithinBudget(t) \/ UpstreamAnswers(t) \/ Breaks(t)
         \/ \E c \in 0..MaxCost : UpstreamFails(t, c) \/ RecordUsage(t, c)
  PROVE  PromiseInv' /\ UNCHANGED <<clock, granted>>
<1>1. UNCHANGED <<clock, windowVars, used>>
  BY DEF Knock, WrongPassword, RightPassword, Present, ReadClock, Pick, OverBudget, WithinBudget,
         UpstreamAnswers, Breaks, UpstreamFails, RecordUsage, Move, keyVars
<1>2. at \in [Threads -> Places] /\ saw \in [Threads -> Nat] /\ clock \in Nat
  BY DEF CountersOK, PromiseInv, WindowsOK
<1>3. CASE ReadClock(t) \/ UpstreamAnswers(t)
  <2>1. PICK to : at' = [at EXCEPT ![t] = to]
    BY <1>3 DEF ReadClock, UpstreamAnswers, Move
  <2>2. saw' = [saw EXCEPT ![t] = clock]
    BY <1>3 DEF ReadClock, UpstreamAnswers
  <2> QED
    BY <1>1, <1>2, <2>1, <2>2, QuietKeepsPromise DEF windowVars
<1>4. CASE ~(ReadClock(t) \/ UpstreamAnswers(t))
  <2>1. UNCHANGED saw
    BY <1>4 DEF Knock, WrongPassword, RightPassword, Present, Pick, OverBudget, WithinBudget,
                Breaks, UpstreamFails, RecordUsage
  <2>2. PICK to \in {"judging", "idle", "stamp", "gate"} : at' = [at EXCEPT ![t] = to]
    BY <1>4 DEF Knock, WrongPassword, RightPassword, Present, Pick, OverBudget, WithinBudget,
                Breaks, UpstreamFails, RecordUsage, Move
  <2> QED
    BY <1>1, <1>2, <2>1, <2>2, QuietKeepsPromise DEF windowVars
<1> QED
  BY <1>3, <1>4

LEMMA PromiseStep ==
  ASSUME CountersOK, PromiseInv, [Next]_vars
  PROVE  PromiseInv' /\ [Promise!Next]_<<clock, granted>>
<1>1. CASE UNCHANGED vars
  <2>1. UNCHANGED <<clock, windowVars, used, at, saw>>
    BY <1>1 DEF vars, keyVars
  <2> QED
    BY <2>1, QuietKeepsPromise DEF PromiseInv, WindowsOK, windowVars
<1>2. CASE CreateToken \/ RevokeToken
  <2>1. UNCHANGED <<clock, windowVars, used, at, saw>>
    BY <1>2 DEF CreateToken, RevokeToken, keyVars
  <2> QED
    BY <2>1, QuietKeepsPromise DEF PromiseInv, WindowsOK, windowVars
<1>3. CASE Tick
  BY <1>3, TickKeepsPromise DEF Promise!Next
<1>4. CASE Restart
  BY <1>4, RestartKeepsPromise DEF Promise!Next
<1>5. ASSUME NEW t \in Threads, TakeToken(t) \/ TakeKey(t)
      PROVE  PromiseInv' /\ [Promise!Next]_<<clock, granted>>
  BY <1>5, TakeTokenKeepsPromise, TakeKeyKeepsPromise DEF Promise!Next
<1>6. ASSUME NEW t \in Threads, NEW n \in 0..MaxTokens, RecordTokens(t, n)
      PROVE  PromiseInv' /\ [Promise!Next]_<<clock, granted>>
  BY <1>6, RecordKeepsPromise
<1>7. ASSUME NEW t \in Threads,
             \/ Knock(t) \/ WrongPassword(t) \/ RightPassword(t)
             \/ Present(t) \/ ReadClock(t)
             \/ Pick(t) \/ OverBudget(t) \/ WithinBudget(t) \/ UpstreamAnswers(t) \/ Breaks(t)
             \/ \E c \in 0..MaxCost : UpstreamFails(t, c) \/ RecordUsage(t, c)
      PROVE  PromiseInv' /\ [Promise!Next]_<<clock, granted>>
  BY <1>7, OthersKeepPromise
<1> QED
  BY <1>1, <1>2, <1>3, <1>4, <1>5, <1>6, <1>7 DEF Next

\* However old the time stamps and in whatever order they enter, what was let
\* in during the last Window - Lag seconds is still in its window.
THEOREM WindowsKeepWhatCounts == Spec => []PromiseInv
<1>1. CountersOK /\ PromiseInv /\ [Next]_vars => PromiseInv'
  BY PromiseStep
<1>2. AdmissionInv => CountersOK
  BY DEF AdmissionInv
<1> QED
  BY <1>1, <1>2, PromiseInit, AdmissionInvariant, PTL DEF Spec

\* Types of everything the three gates keep.
THEOREM AdmissionTypeCorrect == Spec => []TypeOK
<1> DEFINE SubjectOK == subject \in {"address", "token", "key"}
<1>1. Init => SubjectOK
  BY DEF Init
<1>2. SubjectOK /\ [Next]_vars => SubjectOK'
  BY DEF Next, vars, Move, Knock, WrongPassword, RightPassword, Present, ReadClock, TakeToken, Pick,
         OverBudget, WithinBudget, TakeKey, UpstreamAnswers, Breaks, RecordTokens, UpstreamFails,
         RecordUsage, CreateToken, RevokeToken, Tick, Restart
<1>3. CountersOK /\ PromiseInv /\ SubjectOK => TypeOK
  BY DEF CountersOK, PromiseInv, WindowsOK, TypeOK
<1>4. AdmissionInv => CountersOK
  BY DEF AdmissionInv
<1> HIDE DEF SubjectOK
<1> QED
  BY <1>1, <1>2, <1>3, <1>4, AdmissionInvariant, WindowsKeepWhatCounts, PTL DEF Spec

\* Both sliding windows implement Throttle, for any number of requests, any
\* limit and any lag shorter than the window.
THEOREM LimitersKeepPromise == Spec => KeepsPromise
<1>1. Init => Promise!Init
  BY DEF Init, Promise!Init
<1>2. CountersOK /\ PromiseInv /\ [Next]_vars => [Promise!Next]_<<clock, granted>>
  BY PromiseStep
<1>3. AdmissionInv => CountersOK
  BY DEF AdmissionInv
<1> QED
  BY <1>1, <1>2, <1>3, AdmissionInvariant, WindowsKeepWhatCounts, PTL DEF Spec, KeepsPromise, Promise!Spec

\* What Throttle's steps mean: of any Span seconds, those that end with the last
\* request let in are the fullest, and they saw no more than the limit.
THEOREM ThrottleLimits ==
  Promise!Spec => [](IsFiniteSet(granted) /\ Cardinality(granted) <= Rpm)
<1> DEFINE Limited == IsFiniteSet(granted) /\ Cardinality(granted) <= Rpm
<1>1. Promise!Init => Limited
  BY FS_EmptySet, Widths DEF Promise!Init
<1>2. Limited /\ [Promise!Next]_<<clock, granted>> => Limited'
  <2> SUFFICES ASSUME Limited, [Promise!Next]_<<clock, granted>> PROVE Limited'
    OBVIOUS
  <2>1. CASE Promise!Tick \/ UNCHANGED <<clock, granted>>
    BY <2>1 DEF Promise!Tick
  <2>2. CASE Promise!Grant
    <3>1. IsFiniteSet(Promise!Recent) /\ Cardinality(Promise!Recent) \in Nat
      BY FS_Subset, FS_CardinalityType DEF Promise!Recent
    <3>2. PICK g : g \notin Promise!Recent /\ granted' = Promise!Recent \union {g}
      BY <2>2 DEF Promise!Grant
    <3>3. Cardinality(Promise!Recent) < Rpm
      BY <2>2, SameSize DEF Promise!Grant
    <3>4. IsFiniteSet(granted')
      BY <3>1, <3>2, FS_AddElement
    <3>5. Cardinality(granted') = Cardinality(Promise!Recent) + 1
      <4>1. Cardinality(Promise!Recent \union {g}) = Cardinality(Promise!Recent) + 1
        BY <3>1, <3>2, FS_AddElement
      <4> QED
        BY <3>2, <4>1
    <3>6. Cardinality(granted') <= Rpm
      BY <3>1, <3>3, <3>5, Widths
    <3> QED
      BY <3>4, <3>6
  <2>3. CASE Promise!Restart
    BY <2>3, FS_EmptySet, Widths DEF Promise!Restart
  <2> QED
    BY <2>1, <2>2, <2>3 DEF Promise!Next
<1> QED
  BY <1>1, <1>2, PTL DEF Promise!Spec
================================================================================
