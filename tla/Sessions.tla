------------------------------- MODULE Sessions -------------------------------
(* Browser sessions and their revocation: auth.py (the session epoch in        *)
(* KVStore, the cookie that carries it, require_auth), api/auth.py (unlock,    *)
(* lock, change-password), auto_lock.py (the idle checker) and the two         *)
(* runtime calls that bump the epoch AFTER they have left their write section. *)
(* The vault is only locked or unlocked here; its key is KeyStore's subject.   *)
EXTENDS Naturals

CONSTANTS Users,        \* request threads
          Checker,      \* the auto-lock daemon thread
          Cookies,      \* bound: the sessions that can be issued
          NoCookie,
          NoEpoch,
          Expired,      \* what a cookie past its max_age is worth
          Limit,        \* auto_lock_idle_seconds, in ticks
          MaxEpoch      \* bound: no revocation starts beyond it

ASSUME CheckerIsNoUser == Checker \notin Users
ASSUME LimitsNat       == Limit \in Nat /\ MaxEpoch \in Nat
ASSUME NoneAssumption  == NoCookie \notin Cookies /\ {NoEpoch, Expired} \intersect Nat = {}
                                                 /\ NoEpoch # Expired

Threads == Users \union {Checker}

VARIABLES unlocked,   \* Runtime._vault is not None
          epoch,      \* KVStore session_epoch
          cookie,     \* the epoch each issued cookie carries
          idleFor,    \* ticks since AutoLockChecker._last_activity, capped
          pc,         \* where each thread is
          kind,       \* which call is revoking: lock or change
          got,        \* the epoch a bump has read
          with,       \* the cookie a request came with
          before,     \* history: cookies issued when a revocation took effect
          dead,       \* history: cookies a committed revocation has revoked
          fresh,      \* history: cookies issued since the last revocation began
          low,        \* history: the lowest epoch written over a newer one
          quietFor    \* history: ticks since the last successful API request

vars == <<unlocked, epoch, cookie, idleFor, pc, kind, got, with,
          before, dead, fresh, low, quietFor>>
history == <<before, dead, fresh, low>>

RevokeSteps == {"drop", "bumpRead", "bumpWrite"}
Ticks       == 0..(Limit + 1)

TypeOK ==
  /\ unlocked \in BOOLEAN
  /\ epoch \in Nat
  /\ cookie \in [Cookies -> Nat \union {NoEpoch, Expired}]
  /\ idleFor \in Ticks
  /\ pc \in [Threads -> {"idle", "issue", "verify"} \union RevokeSteps]
  /\ kind \in [Threads -> {"none", "lock", "change"}]
  /\ got \in [Threads -> Nat]
  /\ with \in [Threads -> Cookies \union {NoCookie}]
  /\ before \in [Threads -> SUBSET Cookies]
  /\ dead \subseteq Cookies
  /\ fresh \subseteq Cookies
  /\ low \in Nat \union {NoEpoch}
  /\ quietFor \in Ticks

Init ==
  /\ unlocked = FALSE
  /\ epoch = 0
  /\ cookie = [s \in Cookies |-> NoEpoch]
  /\ idleFor = 0
  /\ pc = [t \in Threads |-> "idle"]
  /\ kind = [t \in Threads |-> "none"]
  /\ got = [t \in Threads |-> 0]
  /\ with = [t \in Threads |-> NoCookie]
  /\ before = [t \in Threads |-> {}]
  /\ dead = {}
  /\ fresh = {}
  /\ low = NoEpoch
  /\ quietFor = 0

Issued == {s \in Cookies : cookie[s] # NoEpoch}
Valid  == {s \in Cookies : cookie[s] = epoch}
Revoking == {t \in Threads : pc[t] \in RevokeSteps}

Goto(t, place) == pc' = [pc EXCEPT ![t] = place]
MayRevoke == epoch < MaxEpoch

\* The history of bumps that write over what they have not read.
NoteBump(t) ==
  low' = IF got[t] # epoch /\ (low = NoEpoch \/ got[t] + 1 < low) THEN got[t] + 1 ELSE low

--------------------------------------------------------------------------------
\* Fault variants.

\* A cookie that carries the epoch a missing row stands for.
IssueFirstEpoch(u) ==
  /\ pc[u] = "issue"
  /\ \E s \in Cookies \ Issued :
       /\ cookie' = [cookie EXCEPT ![s] = 0]
       /\ fresh' = IF Revoking = {} THEN fresh \union {s} ELSE fresh
  /\ Goto(u, "idle")
  /\ UNCHANGED <<unlocked, epoch, idleFor, kind, got, with, before, dead, low, quietFor>>

\* A bump that writes back what it read.
BumpWriteSame(t) ==
  /\ pc[t] = "bumpWrite"
  /\ epoch' = got[t]
  /\ dead' = dead \union before[t]
  /\ NoteBump(t)
  /\ Goto(t, "idle")
  /\ kind' = [kind EXCEPT ![t] = "none"]
  /\ got' = [got EXCEPT ![t] = 0]
  /\ before' = [before EXCEPT ![t] = {}]
  /\ UNCHANGED <<unlocked, cookie, idleFor, with, fresh, quietFor>>

\* A clock of the wrong kind: the idle time counts on from boot.
TickUncapped ==
  /\ idleFor' = idleFor + 1
  /\ quietFor' = quietFor
  /\ UNCHANGED <<unlocked, epoch, cookie, pc, kind, got, with, history>>

\* A checker that only ever locks a vault it has seen idle twice as long.
CheckTooLate ==
  /\ pc[Checker] = "idle" /\ MayRevoke
  /\ idleFor > Limit + 1
  /\ Goto(Checker, "drop")
  /\ kind' = [kind EXCEPT ![Checker] = "lock"]
  /\ UNCHANGED <<unlocked, epoch, cookie, idleFor, got, with, history, quietFor>>

--------------------------------------------------------------------------------
\* Time passes; beyond Limit + 1 the idle time makes no difference.
Tick ==
  /\ idleFor' = IF idleFor > Limit THEN idleFor ELSE idleFor + 1
  /\ quietFor' = IF quietFor > Limit THEN quietFor ELSE quietFor + 1
  /\ UNCHANGED <<unlocked, epoch, cookie, pc, kind, got, with, history>>

\* POST /unlock with the right password: Runtime.unlock, which does not touch()
\* the idle clock, and then ...
Unlock(u) ==
  /\ pc[u] = "idle"
  /\ Issued # Cookies
  /\ unlocked' = TRUE
  /\ quietFor' = 0
  /\ Goto(u, "issue")
  /\ UNCHANGED <<epoch, cookie, idleFor, kind, got, with, history>>

\* ... create_session, which reads the epoch of that later moment.
IssueSession(u) ==
  /\ pc[u] = "issue"
  /\ \/ \E s \in Cookies \ Issued :
          /\ cookie' = [cookie EXCEPT ![s] = epoch]
          /\ fresh' = IF Revoking = {} THEN fresh \union {s} ELSE fresh
     \/ Issued = Cookies /\ UNCHANGED <<cookie, fresh>>
  /\ Goto(u, "idle")
  /\ UNCHANGED <<unlocked, epoch, idleFor, kind, got, with, before, dead, low, quietFor>>

\* require_auth: 401 while locked, then ...
Request(u, s) ==
  /\ pc[u] = "idle"
  /\ unlocked
  /\ s \in Issued
  /\ with' = [with EXCEPT ![u] = s]
  /\ Goto(u, "verify")
  /\ UNCHANGED <<unlocked, epoch, cookie, idleFor, kind, got, history, quietFor>>

\* ... verify_session against the epoch in the database.  A valid cookie
\* touches the idle clock and enters its handler: one that revokes, or another.
Accept(u) ==
  /\ pc[u] = "verify"
  /\ with[u] \in Valid
  /\ idleFor' = 0 /\ quietFor' = 0
  /\ with' = [with EXCEPT ![u] = NoCookie]
  /\ \/ Goto(u, "idle") /\ UNCHANGED kind
     \/ /\ MayRevoke
        /\ Goto(u, "drop")
        /\ \E k \in {"lock", "change"} : kind' = [kind EXCEPT ![u] = k]
  /\ UNCHANGED <<unlocked, epoch, cookie, got, history>>

Reject(u) ==
  /\ pc[u] = "verify"
  /\ with[u] \notin Valid
  /\ with' = [with EXCEPT ![u] = NoCookie]
  /\ Goto(u, "idle")
  /\ UNCHANGED <<unlocked, epoch, cookie, idleFor, kind, got, history, quietFor>>

\* A cookie's signature is seven days old.
Expire(s) ==
  /\ s \in Issued
  /\ cookie' = [cookie EXCEPT ![s] = Expired]
  /\ fresh' = fresh \ {s}
  /\ UNCHANGED <<unlocked, epoch, idleFor, pc, kind, got, with, before, dead, low, quietFor>>

\* One round of the checker's loop: the idle time is read and compared, and
\* lock() is called, whatever happens in between and whether or not the vault
\* is locked already.
CheckIdle ==
  /\ pc[Checker] = "idle" /\ MayRevoke
  /\ idleFor > Limit
  /\ Goto(Checker, "drop")
  /\ kind' = [kind EXCEPT ![Checker] = "lock"]
  /\ UNCHANGED <<unlocked, epoch, cookie, idleFor, got, with, history, quietFor>>

\* The write section of lock() drops the vault; that of a change replaces it,
\* or raises when it finds it gone.
Drop(t) ==
  /\ pc[t] = "drop"
  /\ \/ kind[t] = "lock" /\ unlocked' = FALSE
     \/ kind[t] = "change" /\ unlocked /\ UNCHANGED unlocked
  /\ Goto(t, "bumpRead")
  /\ before' = [before EXCEPT ![t] = Issued]
  /\ fresh' = {}
  /\ UNCHANGED <<epoch, cookie, idleFor, kind, got, with, dead, low, quietFor>>

ChangeRaises(t) ==
  /\ pc[t] = "drop"
  /\ kind[t] = "change"      \* locked meanwhile, or a wrong old password
  /\ Goto(t, "idle")
  /\ kind' = [kind EXCEPT ![t] = "none"]
  /\ UNCHANGED <<unlocked, epoch, cookie, idleFor, got, with, history, quietFor>>

\* bump_session_epoch, outside the write section: a SELECT, then an UPDATE, or
\* for the first one ever an INSERT, which fails where another has been first.
BumpRead(t) ==
  /\ pc[t] = "bumpRead"
  /\ got' = [got EXCEPT ![t] = epoch]
  /\ Goto(t, "bumpWrite")
  /\ UNCHANGED <<unlocked, epoch, cookie, idleFor, kind, with, history, quietFor>>

\* lock() and change_master_password() return.
RevokeReturns(t) ==
  /\ before' = [before EXCEPT ![t] = {}]
  /\ Goto(t, "idle")
  /\ kind' = [kind EXCEPT ![t] = "none"]
  /\ got' = [got EXCEPT ![t] = 0]
  /\ UNCHANGED <<unlocked, cookie, idleFor, with, fresh, quietFor>>

BumpWrite(t) ==
  /\ pc[t] = "bumpWrite"
  /\ got[t] = 0 => epoch = 0
  /\ epoch' = got[t] + 1
  /\ dead' = dead \union before[t]
  /\ NoteBump(t)
  /\ RevokeReturns(t)

\* The transaction fails (busy, disk full): `except Exception: pass`, and the
\* caller is not told that nothing was revoked.
BumpFails(t) ==
  /\ pc[t] \in {"bumpRead", "bumpWrite"}
  /\ RevokeReturns(t)
  /\ UNCHANGED <<epoch, dead, low>>

\* The process restarts, unlocking itself if it is given the password; the
\* epoch and the cookies survive, calls in progress do not.
Restart ==
  /\ unlocked' \in BOOLEAN
  /\ idleFor' = 0 /\ quietFor' = 0
  /\ pc' = [t \in Threads |-> "idle"]
  /\ kind' = [t \in Threads |-> "none"]
  /\ got' = [t \in Threads |-> 0]
  /\ with' = [t \in Threads |-> NoCookie]
  /\ before' = [t \in Threads |-> {}]
  /\ UNCHANGED <<epoch, cookie, dead, fresh, low>>

--------------------------------------------------------------------------------
Revoke(t) == Drop(t) \/ ChangeRaises(t) \/ BumpRead(t) \/ BumpWrite(t) \/ BumpFails(t)

UserStep(u) ==
  \/ Unlock(u) \/ IssueSession(u)
  \/ (\E s \in Cookies : Request(u, s)) \/ Accept(u) \/ Reject(u)
  \/ Revoke(u)

CheckerStep == CheckIdle \/ Revoke(Checker)

Next == \/ Tick \/ (\E u \in Users : UserStep(u)) \/ CheckerStep
        \/ (\E s \in Cookies : Expire(s)) \/ Restart

\* The daemon wakes every ten seconds, and a handler that has begun goes on.
Fairness == /\ WF_vars(CheckerStep)
            /\ \A u \in Users : WF_vars(IssueSession(u) \/ Accept(u) \/ Reject(u) \/ Revoke(u))

Spec     == Init /\ [][Next]_vars
FairSpec == Spec /\ Fairness

--------------------------------------------------------------------------------
\* A lock or a password change whose bump has committed leaves every session
\* issued before it took effect invalid, for good (auth.py:24-27) - unless a bump
\* writes back over a newer one (auth.py:55, 67), and then only the sessions of
\* the epochs from the one it writes on may come back.
RevokedStayDead ==
  \A s \in dead : cookie[s] = epoch => low # NoEpoch /\ low <= cookie[s]

\* A session issued while nothing was being revoked works until a revocation
\* begins or seven days are over, whichever calls have overlapped before:
\* nobody is thrown out by one that had already returned (auth.py:72-88).
FreshSessionsWork == fresh \subseteq Valid

\* An unlocked vault nobody uses is locked in the end, or somebody uses it
\* (auto_lock.py:1-4).  MaxEpoch is the model's end of time.
IdleLocks ==
  unlocked /\ idleFor > Limit ~> ~unlocked \/ idleFor = 0 \/ epoch >= MaxEpoch

\* The checker drops a vault only after Limit without a single API request
\* (.env.example:40), so never one just unlocked (auto_lock.py:59-60).
LocksOnlyIdle ==
  [][pc[Checker] = "drop" /\ unlocked /\ ~unlocked' /\ pc'[Checker] = "bumpRead"
       => quietFor > Limit]_vars

\* What auth.py:24-27 says without exception; two bumps at a time refute it.
RevokedNeverValid == dead \intersect Valid = {}
================================================================================
