---------------------------------- MODULE Feeds ----------------------------------
(* What the server tells by itself: the live stream of the audit log, and the  *)
(* reminders.  The two share no state and none of the threads of one touches   *)
(* the other: a behaviour follows one of them, `feed`.                         *)
EXTENDS LiveEvents, Reminders

VARIABLE feed

feedVars == <<feed, eventVars, reminderVars>>

FeedsInit == EventsInit /\ RemindersInit /\ feed \in {"events", "reminders"}

Of(f) == feed = f /\ UNCHANGED feed

FeedsNext ==
  \/ Of("events") /\ EventsNext /\ UNCHANGED reminderVars
  \/ Of("reminders") /\ RemindersNext /\ UNCHANGED eventVars

\* The thread and time go on; the database and the receiver of the webhook
\* answer in the end if they are asked again and again.
FeedsSpec ==
  /\ FeedsInit /\ [][FeedsNext]_feedVars
  /\ WF_feedVars(feed = "reminders" /\ Round /\ UNCHANGED <<feed, eventVars>>)
  /\ WF_feedVars(feed = "reminders" /\ Tick /\ UNCHANGED <<feed, eventVars>>)
  /\ SF_feedVars(feed = "reminders" /\ Query /\ UNCHANGED <<feed, eventVars>>)
  /\ SF_feedVars(feed = "reminders" /\ HookDelivers /\ UNCHANGED <<feed, eventVars>>)

FeedsTypeOK == EventsTypeOK /\ RemindersTypeOK
================================================================================
