----------------------------- MODULE SessionsProofs -----------------------------
(* What TLAPS proves of Sessions for any users, any cookies and any number of  *)
(* revocations, however they overlap: what a revocation has revoked stays      *)
(* revoked but for what a bump writes back, and what was issued after it keeps *)
(* working.                                                                    *)
EXTENDS Sessions, TLAPS

\* The epoch is where the bumps have brought it, or one has written it back.
Behind(s) == cookie[s] \in Nat => cookie[s] < epoch \/ (low # NoEpoch /\ low <= cookie[s])
UpTo(s)   == cookie[s] \in Nat => cookie[s] <= epoch \/ (low # NoEpoch /\ low <= cookie[s])

\* No cookie is ahead of the epoch, and those a revocation has revoked, or is
\* about to revoke, have been issued; the revoked ones are behind it.
EpochLeads ==
  /\ \A t \in Threads : before[t] \subseteq Issued
  /\ dead \subseteq Issued
  /\ \A s \in Issued : UpTo(s)
  /\ \A s \in dead : Behind(s)

\* Until a bump has written, the sessions issued meanwhile are not counted as
\* fresh.
NoneFreshYet == \A t \in Threads : pc[t] \in {"bumpRead", "bumpWrite"} => fresh = {}

SessionsInv == TypeOK /\ EpochLeads /\ NoneFreshYet /\ FreshSessionsWork

USE CheckerIsNoUser, LimitsNat, NoneAssumption

--------------------------------------------------------------------------------
LEMMA SessionsInit == Init => SessionsInv
<1> SUFFICES ASSUME Init PROVE SessionsInv
  OBVIOUS
<1>1. TypeOK
  <2>1. 0 \in Ticks
    BY DEF Ticks
  <2> QED
    BY <2>1 DEF Init, TypeOK
<1>2. Revoking = {} /\ Issued = {} /\ dead = {} /\ fresh = {} /\ \A t \in Threads : before[t] = {}
  BY DEF Init, Revoking, RevokeSteps, Issued
<1>3. NoneFreshYet
  BY <1>2 DEF Init, NoneFreshYet
<1> QED
  BY <1>1, <1>2, <1>3 DEF SessionsInv, EpochLeads, FreshSessionsWork, UpTo, Behind

--------------------------------------------------------------------------------
\* A step that neither revokes nor issues only has to keep its types.
LEMMA QuietStep ==
  ASSUME SessionsInv, TypeOK', UNCHANGED <<epoch, cookie, before, dead, fresh, low>>,
         \A t \in Threads : pc'[t] \in RevokeSteps => pc'[t] = pc[t]
  PROVE  SessionsInv'
<1>2. EpochLeads' /\ FreshSessionsWork'
  BY DEF SessionsInv, EpochLeads, FreshSessionsWork, Issued, Valid, UpTo, Behind
<1>3. NoneFreshYet'
  BY DEF SessionsInv, NoneFreshYet, RevokeSteps
<1> QED
  BY <1>2, <1>3 DEF SessionsInv

\* A revocation begins where there is none.
LEMMA BeginStep ==
  ASSUME SessionsInv, NEW t \in Threads, TypeOK', MayRevoke, Goto(t, "drop"),
         UNCHANGED <<epoch, cookie, before, dead, fresh, low>>
  PROVE  SessionsInv'
<1>2. EpochLeads' /\ FreshSessionsWork'
  BY DEF SessionsInv, EpochLeads, FreshSessionsWork, Issued, Valid, UpTo, Behind
<1>3. NoneFreshYet'
  BY DEF SessionsInv, NoneFreshYet, RevokeSteps, Goto, TypeOK
<1> QED
  BY <1>2, <1>3 DEF SessionsInv

LEMMA IssueKeepsInv ==
  ASSUME SessionsInv, NEW u \in Users, IssueSession(u)
  PROVE  SessionsInv'
<1>1. CASE UNCHANGED <<cookie, fresh>>
  BY <1>1, QuietStep DEF SessionsInv, IssueSession, Goto, TypeOK, Threads, RevokeSteps
<1>2. ASSUME NEW s \in Cookies \ Issued, cookie' = [cookie EXCEPT ![s] = epoch],
             fresh' = IF Revoking = {} THEN fresh \union {s} ELSE fresh
      PROVE  SessionsInv'
  <2>1. TypeOK'
    BY <1>2 DEF SessionsInv, IssueSession, Goto, TypeOK, Threads, RevokeSteps
  <2>2. /\ Issued' = Issued \union {s} /\ cookie'[s] = epoch
        /\ \A o \in Issued : cookie'[o] = cookie[o]
        /\ UNCHANGED <<epoch, before, dead, low>>
    BY <1>2 DEF SessionsInv, IssueSession, TypeOK, Issued
  <2>3. Revoking' = Revoking /\ \A t \in Threads : pc'[t] \in RevokeSteps => pc'[t] = pc[t]
    BY DEF SessionsInv, IssueSession, Goto, TypeOK, Revoking, RevokeSteps, Threads
  <2>4. EpochLeads'
    BY <1>2, <2>2 DEF SessionsInv, TypeOK, EpochLeads, UpTo, Behind
  <2>5. NoneFreshYet'
    BY <1>2, <2>2, <2>3 DEF SessionsInv, NoneFreshYet, Revoking, RevokeSteps
  <2>6. FreshSessionsWork'
    BY <1>2, <2>2 DEF SessionsInv, TypeOK, FreshSessionsWork, Valid, Issued
  <2> QED
    BY <2>1, <2>4, <2>5, <2>6 DEF SessionsInv
<1> QED
  BY <1>1, <1>2 DEF IssueSession

LEMMA DropKeepsInv ==
  ASSUME SessionsInv, NEW t \in Threads, Drop(t)
  PROVE  SessionsInv'
<1>1. TypeOK'
  BY DEF SessionsInv, Drop, Goto, TypeOK, Issued, RevokeSteps
<1>2. Revoking' = Revoking /\ fresh' = {} /\ UNCHANGED <<epoch, cookie, dead, low>>
  BY DEF SessionsInv, Drop, Goto, TypeOK, Revoking, RevokeSteps
<1>3. FreshSessionsWork'
  BY <1>2 DEF FreshSessionsWork
<1>4. EpochLeads'
  BY <1>2 DEF SessionsInv, EpochLeads, UpTo, Behind, Issued, Drop, TypeOK
<1>5. NoneFreshYet'
  BY <1>2 DEF NoneFreshYet
<1> QED
  BY <1>1, <1>3, <1>4, <1>5 DEF SessionsInv

LEMMA BumpReadKeepsInv ==
  ASSUME SessionsInv, NEW t \in Threads, BumpRead(t)
  PROVE  SessionsInv'
<1>1. TypeOK'
  BY DEF SessionsInv, BumpRead, Goto, TypeOK, RevokeSteps, history
<1>2. Revoking' = Revoking /\ UNCHANGED <<epoch, cookie, before, dead, fresh, low>>
  BY DEF SessionsInv, BumpRead, Goto, TypeOK, Revoking, RevokeSteps, history
<1>3. EpochLeads' /\ FreshSessionsWork'
  BY <1>2 DEF SessionsInv, EpochLeads, FreshSessionsWork, Issued, Valid, UpTo, Behind
<1>4. NoneFreshYet'
  BY <1>2 DEF SessionsInv, NoneFreshYet, BumpRead, Goto, TypeOK
<1> QED
  BY <1>1, <1>3, <1>4 DEF SessionsInv

\* The bump commits: every cookie of before is now behind the epoch, or of an
\* epoch that has just been written over.
LEMMA BumpWriteKeepsInv ==
  ASSUME SessionsInv, NEW t \in Threads, BumpWrite(t)
  PROVE  SessionsInv'
<1>1. TypeOK'
  BY DEF SessionsInv, BumpWrite, NoteBump, RevokeReturns, Goto, TypeOK
<1>2. /\ epoch' = got[t] + 1 /\ dead' = dead \union before[t] /\ pc[t] = "bumpWrite"
      /\ UNCHANGED <<cookie, fresh>> /\ got[t] \in Nat /\ epoch \in Nat
      /\ \A o \in Threads : before'[o] \subseteq before[o]
      /\ \A o \in Threads : pc'[o] \in RevokeSteps => o # t /\ pc'[o] = pc[o]
  BY DEF SessionsInv, BumpWrite, RevokeReturns, Goto, TypeOK, RevokeSteps
<1>3. fresh = {}
  BY <1>2 DEF SessionsInv, NoneFreshYet
<1>4. Issued' = Issued
  BY <1>2 DEF Issued
<1>5. ASSUME NEW s \in Issued PROVE Behind(s)'
  <2>1. CASE got[t] = epoch
    BY <1>2, <1>5, <2>1 DEF SessionsInv, TypeOK, EpochLeads, UpTo, Behind, BumpWrite, NoteBump
  <2>2. CASE got[t] # epoch
    <3>1. /\ low' \in Nat /\ low' <= got[t] + 1 /\ low' # NoEpoch
      BY <1>2, <2>2 DEF SessionsInv, TypeOK, BumpWrite, NoteBump
    <3> QED
      BY <1>2, <3>1 DEF Behind
  <2> QED
    BY <2>1, <2>2
<1>6. EpochLeads'
  <2>1. \A s \in Issued : UpTo(s)'
    BY <1>1, <1>5 DEF UpTo, Behind, TypeOK
  <2> QED
    BY <1>2, <1>4, <1>5, <2>1 DEF SessionsInv, EpochLeads
<1>7. NoneFreshYet' /\ FreshSessionsWork'
  BY <1>2, <1>3 DEF NoneFreshYet, FreshSessionsWork
<1> QED
  BY <1>1, <1>6, <1>7 DEF SessionsInv

LEMMA BumpFailsKeepsInv ==
  ASSUME SessionsInv, NEW t \in Threads, BumpFails(t)
  PROVE  SessionsInv'
<1>1. TypeOK'
  BY DEF SessionsInv, BumpFails, RevokeReturns, Goto, TypeOK
<1>2. /\ UNCHANGED <<epoch, cookie, dead, fresh, low>>
      /\ \A o \in Threads : before'[o] \subseteq before[o]
      /\ \A o \in Threads : pc'[o] \in RevokeSteps => pc'[o] = pc[o]
  BY DEF SessionsInv, BumpFails, RevokeReturns, Goto, TypeOK, RevokeSteps
<1>3. EpochLeads' /\ NoneFreshYet' /\ FreshSessionsWork'
  BY <1>2 DEF SessionsInv, EpochLeads, UpTo, Behind, Issued, NoneFreshYet,
              FreshSessionsWork, Valid, RevokeSteps
<1> QED
  BY <1>1, <1>3 DEF SessionsInv

\* An expired cookie is valid at no epoch.
LEMMA ExpireKeepsInv ==
  ASSUME SessionsInv, NEW c \in Cookies, Expire(c)
  PROVE  SessionsInv'
<1>1. TypeOK'
  BY DEF SessionsInv, Expire, TypeOK
<1>2. /\ UNCHANGED <<epoch, pc, before, dead, low>> /\ fresh' = fresh \ {c} /\ Issued' = Issued
      /\ cookie'[c] \notin Nat /\ \A s \in Cookies \ {c} : cookie'[s] = cookie[s]
  BY DEF SessionsInv, TypeOK, Expire, Issued
<1>3. EpochLeads'
  BY <1>2 DEF SessionsInv, TypeOK, EpochLeads, UpTo, Behind, Issued
<1>4. NoneFreshYet' /\ FreshSessionsWork'
  BY <1>2 DEF SessionsInv, TypeOK, NoneFreshYet, FreshSessionsWork, Valid
<1> QED
  BY <1>1, <1>3, <1>4 DEF SessionsInv

LEMMA RestartKeepsInv ==
  ASSUME SessionsInv, Restart
  PROVE  SessionsInv'
<1>1. TypeOK'
  <2>1. 0 \in Ticks
    BY DEF Ticks
  <2> QED
    BY <2>1 DEF SessionsInv, Restart, TypeOK
<1>2. /\ UNCHANGED <<epoch, cookie, dead, fresh, low>>
      /\ \A o \in Threads : before'[o] = {} /\ pc'[o] = "idle"
  BY DEF Restart
<1>3. EpochLeads' /\ NoneFreshYet' /\ FreshSessionsWork'
  BY <1>2 DEF SessionsInv, EpochLeads, UpTo, Behind, Issued, NoneFreshYet,
              FreshSessionsWork, Valid, RevokeSteps
<1> QED
  BY <1>1, <1>3 DEF SessionsInv

--------------------------------------------------------------------------------
LEMMA RevokeKeepsInv ==
  ASSUME SessionsInv, NEW t \in Threads, Revoke(t)
  PROVE  SessionsInv'
<1>1. CASE ChangeRaises(t)
  <2>1. TypeOK'
    BY <1>1 DEF SessionsInv, ChangeRaises, Goto, TypeOK, history
  <2> QED
    BY <1>1, <2>1, QuietStep DEF SessionsInv, ChangeRaises, Goto, TypeOK, RevokeSteps, history
<1> QED
  BY <1>1, DropKeepsInv, BumpReadKeepsInv, BumpWriteKeepsInv, BumpFailsKeepsInv DEF Revoke

LEMMA RequestKeepsInv ==
  ASSUME SessionsInv, NEW u \in Users,
         Unlock(u) \/ (\E s \in Cookies : Request(u, s)) \/ Reject(u)
  PROVE  SessionsInv'
<1>0. u \in Threads /\ 0 \in Ticks
  BY DEF Threads, Ticks
<1>1. TypeOK'
  BY <1>0 DEF SessionsInv, TypeOK, Unlock, Request, Reject, Goto, Issued, history
<1> QED
  BY <1>0, <1>1, QuietStep
     DEF SessionsInv, TypeOK, Unlock, Request, Reject, Goto, RevokeSteps, history

LEMMA AcceptKeepsInv ==
  ASSUME SessionsInv, NEW u \in Users, Accept(u)
  PROVE  SessionsInv'
<1>0. u \in Threads /\ 0 \in Ticks
  BY DEF Threads, Ticks
<1>1. TypeOK'
  BY <1>0 DEF SessionsInv, TypeOK, Accept, Goto, RevokeSteps, history
<1>2. UNCHANGED <<epoch, cookie, before, dead, fresh, low>>
  BY DEF Accept, history
<1>3. CASE Goto(u, "idle")
  BY <1>0, <1>1, <1>2, <1>3, QuietStep DEF SessionsInv, TypeOK, Goto, RevokeSteps
<1>4. CASE MayRevoke /\ Goto(u, "drop")
  BY <1>0, <1>1, <1>2, <1>4, BeginStep
<1> QED
  BY <1>3, <1>4 DEF Accept

LEMMA CheckIdleKeepsInv ==
  ASSUME SessionsInv, CheckIdle
  PROVE  SessionsInv'
<1>0. Checker \in Threads
  BY DEF Threads
<1>1. TypeOK'
  BY <1>0 DEF SessionsInv, TypeOK, CheckIdle, Goto, RevokeSteps, history
<1> QED
  BY <1>0, <1>1, BeginStep DEF CheckIdle, history

LEMMA SessionsStep == SessionsInv /\ [Next]_vars => SessionsInv'
<1> SUFFICES ASSUME SessionsInv, [Next]_vars PROVE SessionsInv'
  OBVIOUS
<1>1. CASE UNCHANGED vars
  <2>1. TypeOK'
    BY <1>1 DEF SessionsInv, TypeOK, vars
  <2> QED
    BY <1>1, <2>1, QuietStep DEF vars
<1>2. CASE Tick
  <2>1. TypeOK'
    BY <1>2 DEF SessionsInv, TypeOK, Tick, Ticks, history
  <2> QED
    BY <1>2, <2>1, QuietStep DEF Tick, history
<1>3. ASSUME NEW u \in Users, UserStep(u) PROVE SessionsInv'
  <2>1. u \in Threads
    BY DEF Threads
  <2> QED
    BY <1>3, <2>1, RequestKeepsInv, AcceptKeepsInv, IssueKeepsInv, RevokeKeepsInv DEF UserStep
<1>4. CASE CheckerStep
  <2>1. Checker \in Threads
    BY DEF Threads
  <2> QED
    BY <1>4, <2>1, CheckIdleKeepsInv, RevokeKeepsInv DEF CheckerStep
<1>5. CASE Restart
  BY <1>5, RestartKeepsInv
<1>6. ASSUME NEW c \in Cookies, Expire(c) PROVE SessionsInv'
  BY <1>6, ExpireKeepsInv
<1> QED
  BY <1>1, <1>2, <1>3, <1>4, <1>5, <1>6 DEF Next

\* The inductive invariant holds of every behaviour, overlapping or not.
THEOREM SessionsInvariant == Spec => []SessionsInv
BY SessionsInit, SessionsStep, PTL DEF Spec

\* Type correctness, whether or not revocations overlap.
THEOREM SessionsTypeCorrect == Spec => []TypeOK
<1>1. SessionsInv => TypeOK
  BY DEF SessionsInv
<1> QED
  BY <1>1, SessionsInvariant, PTL

\* No session a committed revocation has revoked is ever valid again, unless a
\* bump has written an epoch over a newer one, and then none from before it.
THEOREM RevokedSessionsStayDead == Spec => []RevokedStayDead
<1>1. SessionsInv => RevokedStayDead
  BY DEF SessionsInv, TypeOK, EpochLeads, Behind, RevokedStayDead
<1> QED
  BY <1>1, SessionsInvariant, PTL

\* A session issued when nothing was being revoked works until something is, or
\* until it is seven days old.
THEOREM FreshSessionsStayValid == Spec => []FreshSessionsWork
<1>1. SessionsInv => FreshSessionsWork
  BY DEF SessionsInv
<1> QED
  BY <1>1, SessionsInvariant, PTL
================================================================================
