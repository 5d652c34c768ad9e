------------------------------- MODULE Reminders -------------------------------
(* rotation.RotationChecker, its background thread, the reminder callback of   *)
(* main.lifespan and notify.Notifier: a credential that is due is put on the   *)
(* list the API shows and sent to a channel, at most once in the deduplication *)
(* window: the webhook's thread tries three times, the e-mail's once.          *)
EXTENDS Integers, FiniteSets

CONSTANTS Creds,
          Interval,   \* rotation_check_interval
          Dedup,      \* _DEDUP_WINDOW_SECONDS
          Attempts,   \* _MAX_RETRIES + 1 for the webhook, 1 for e-mail
          MaxRestarts \* bound: restarts of the process

ASSUME ReminderAssumption == /\ IsFiniteSet(Creds)
                             /\ {Interval, Dedup, Attempts} \subseteq Nat \ {0}
                             /\ MaxRestarts \in Nat

VARIABLES due,        \* the credentials check_once would report
          reminders,  \* RotationChecker._reminders
          loop,       \* where the background thread is
          found,      \* what its query has found
          api,        \* what a check_once of the API has found; {<<>>}: none runs
          rest,       \* ticks until it wakes up
          muted,      \* ticks until the dedup entry expires
          hook,       \* the sending thread: its items, the attempts it has left
          told,       \* history: told about since it became due
          restarts

reminderVars == <<due, reminders, loop, found, api, rest, muted, hook, told, restarts>>

NoCheck == {<<>>}
NoHook  == [items |-> {}, left |-> 0]

RemindersTypeOK ==
  /\ due \subseteq Creds /\ reminders \subseteq Creds /\ found \subseteq Creds
  /\ loop \in {"query", "install", "remind", "wait"}
  /\ api \in (SUBSET Creds) \union {NoCheck}
  /\ rest \in 0..Interval /\ muted \in 0..Dedup + 1
  /\ hook \in [items : SUBSET Creds, left : 0..Attempts]
  /\ told \subseteq due /\ restarts \in 0..MaxRestarts

RemindersInit ==
  /\ due = {} /\ reminders = {} /\ found = {} /\ told = {}
  /\ loop = "query" /\ api = NoCheck /\ rest = 0 /\ muted = 0
  /\ hook = NoHook /\ restarts = 0

--------------------------------------------------------------------------------
\* Time passes, the credential is rotated, given another date or deleted.
BecomeDue(c) ==
  /\ c \notin due /\ due' = due \union {c}
  /\ UNCHANGED <<reminders, loop, found, api, rest, muted, hook, told, restarts>>

Settle(c) ==
  /\ c \in due /\ due' = due \ {c} /\ told' = told \ {c}
  /\ UNCHANGED <<reminders, loop, found, api, rest, muted, hook, restarts>>

\* check_once: one query, then the list is replaced under the lock; the thread,
\* and POST /rotation/check or the first GET /rotation/reminders.
Query ==
  /\ loop = "query"
  /\ found' = due /\ loop' = "install"
  /\ UNCHANGED <<due, reminders, api, rest, muted, hook, told, restarts>>

Sleep == loop' = "wait" /\ rest' = Interval

\* The query fails; the thread logs it and waits.
QueryFails ==
  /\ loop = "query" /\ Sleep
  /\ UNCHANGED <<due, reminders, found, api, muted, hook, told, restarts>>

Install ==
  /\ loop = "install"
  /\ reminders' = found
  /\ IF found = {} THEN Sleep ELSE loop' = "remind" /\ UNCHANGED rest
  /\ UNCHANGED <<due, found, api, muted, hook, told, restarts>>

ApiQuery ==
  /\ api = NoCheck /\ api' = due
  /\ UNCHANGED <<due, reminders, loop, found, rest, muted, hook, told, restarts>>

ApiInstall ==
  /\ api # NoCheck
  /\ reminders' = api /\ api' = NoCheck
  /\ UNCHANGED <<due, loop, found, rest, muted, hook, told, restarts>>

\* Fault variant: a suppressed notification starts the window again.
RemindProlonging ==
  /\ loop = "remind" /\ Sleep
  /\ muted' = Dedup + 1
  /\ hook' = IF muted > 0 THEN hook ELSE [items |-> found, left |-> Attempts]
  /\ found' = {}
  /\ UNCHANGED <<due, reminders, api, told, restarts>>

\* _on_remind, notify: the key has no credential in it, all reminders share one
\* window; it begins before anything has been sent.
Remind ==
  /\ loop = "remind" /\ Sleep
  /\ IF muted > 0 THEN UNCHANGED <<muted, hook>>
                  ELSE muted' = Dedup + 1 /\ hook' = [items |-> found, left |-> Attempts]
  /\ found' = {}
  /\ UNCHANGED <<due, reminders, api, told, restarts>>

WakeUp ==
  /\ loop = "wait" /\ rest = 0
  /\ loop' = "query"
  /\ UNCHANGED <<due, reminders, found, api, rest, muted, hook, told, restarts>>

HookFails ==
  /\ hook.left > 0
  /\ hook' = IF hook.left = 1 THEN NoHook ELSE [hook EXCEPT !.left = @ - 1]
  /\ UNCHANGED <<due, reminders, loop, found, api, rest, muted, told, restarts>>

HookDelivers ==
  /\ hook.left > 0
  /\ told' = told \union (hook.items \intersect due)
  /\ hook' = NoHook
  /\ UNCHANGED <<due, reminders, loop, found, api, rest, muted, restarts>>

\* The attempts of a webhook are over before the thread's next round.
Tick ==
  /\ hook.left = 0
  /\ rest > 0 \/ muted > 0
  /\ rest' = IF rest > 0 THEN rest - 1 ELSE 0
  /\ muted' = IF muted > 0 THEN muted - 1 ELSE 0
  /\ UNCHANGED <<due, reminders, loop, found, api, hook, told, restarts>>

\* lifespan ends and begins in a new process: list and window are empty.
RestartChecker ==
  /\ restarts < MaxRestarts /\ restarts' = restarts + 1
  /\ reminders' = {} /\ found' = {} /\ api' = NoCheck /\ hook' = NoHook
  /\ loop' = "query" /\ rest' = 0 /\ muted' = 0
  /\ UNCHANGED <<due, told>>

Round == Query \/ QueryFails \/ Install \/ Remind \/ WakeUp

RemindersNext ==
  \/ \E c \in Creds : BecomeDue(c) \/ Settle(c)
  \/ Round \/ ApiQuery \/ ApiInstall
  \/ HookFails \/ HookDelivers
  \/ Tick \/ RestartChecker

--------------------------------------------------------------------------------
\* What stays due is listed and told about in the end, though a round may come
\* too early for its window, a query may fail, an older check may overwrite the
\* list and a webhook may give up.
EveryoneReminded ==
  \A c \in Creds : /\ (c \in due) ~> (c \in reminders \/ c \notin due)
                   /\ (c \in due) ~> (c \in told \/ c \notin due)
================================================================================
