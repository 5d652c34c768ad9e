------------------------------- MODULE LiveEvents -------------------------------
(* The audit log and its live stream: audit.record commits an entry and then   *)
(* hands it to the EventBroadcaster (api/events.py), from whatever thread the  *)
(* request runs in; the broadcaster schedules one callback for each subscriber *)
(* in the event loop, where a bounded queue waits for the client to read.  One  *)
(* process has the subscribers and a broadcaster of its own; the CLI and other *)
(* workers commit to the same log and broadcast to nobody here.                *)
EXTENDS Integers, FiniteSets, SequencesExt

CONSTANTS Recorders,  \* threads that record
          Clients,    \* those that open GET /api/events/audit
          MaxSubs,    \* MAX_SSE_SUBSCRIBERS
          QueueSize,  \* asyncio.Queue(maxsize=100)
          MaxEvents   \* bound: entries ever committed

ASSUME EventAssumption == /\ IsFiniteSet(Recorders) /\ IsFiniteSet(Clients)
                          /\ {MaxSubs, QueueSize, MaxEvents} \subseteq Nat \ {0}

VARIABLES logged,   \* the AuditLog rows; entries are numbered as they commit
          count,    \* entries committed so far
          ours,     \* history: those committed by this process
          has,      \* the entry a recorder is broadcasting; 0: none
          targets,  \* the subscribers it has still to schedule
          subs,     \* EventBroadcaster._subscribers
          open,     \* the clients whose stream is open
          pending,  \* callbacks the event loop has not run yet, first in first out
          queue,    \* each subscriber's queue
          sent,     \* history: what each open stream has sent
          owed,     \* history: committed, by whomever, since it subscribed
          closed    \* the event loop has been closed

eventVars == <<logged, count, ours, has, targets, subs, open, pending, queue, sent, owed, closed>>

Entries == 1..MaxEvents

EventsTypeOK ==
  /\ logged \subseteq 1..count /\ count \in 0..MaxEvents /\ ours \subseteq 1..count
  /\ has \in [Recorders -> 0..count] /\ targets \in [Recorders -> SUBSET Clients]
  /\ subs \subseteq open /\ open \subseteq Clients /\ Cardinality(subs) <= MaxSubs
  /\ pending \in Seq(Clients \X Entries)
  /\ \A c \in Clients : queue[c] \in Seq(Entries) /\ Len(queue[c]) <= QueueSize
  /\ sent \in [Clients -> SUBSET Entries] /\ owed \in [Clients -> SUBSET Entries]
  /\ closed \in BOOLEAN

EventsInit ==
  /\ logged = {} /\ count = 0 /\ ours = {}
  /\ has = [r \in Recorders |-> 0] /\ targets = [r \in Recorders |-> {}]
  /\ subs = {} /\ open = {}
  /\ pending = <<>> /\ queue = [c \in Clients |-> <<>>]
  /\ sent = [c \in Clients |-> {}] /\ owed = [c \in Clients |-> {}]
  /\ closed = FALSE

--------------------------------------------------------------------------------
\* A client is forgotten with everything that was waiting for it.
Forget(c) == /\ queue' = [queue EXCEPT ![c] = <<>>]
             /\ sent' = [sent EXCEPT ![c] = {}]
             /\ owed' = [owed EXCEPT ![c] = {}]

Waiting(c) == {queue[c][i] : i \in DOMAIN queue[c]}
                \union {pending[i][2] : i \in {j \in DOMAIN pending : pending[j][1] = c}}

\* An entry of the log, owed to everybody who is a subscriber now.
Commit ==
  /\ count < MaxEvents
  /\ count' = count + 1 /\ logged' = logged \union {count'}
  /\ owed' = [c \in Clients |-> IF c \in subs THEN owed[c] \union {count'} ELSE owed[c]]

\* Fault variant: a failed transaction that is broadcast all the same.
RecordRegardless(r) ==
  /\ has[r] = 0 /\ count < MaxEvents
  /\ count' = count + 1 /\ logged' \in {logged, logged \union {count'}}
  /\ ours' = ours \union {count'}
  /\ has' = [has EXCEPT ![r] = count']
  /\ UNCHANGED <<targets, subs, open, pending, queue, sent, owed, closed>>

\* record(), the transaction; when it fails nothing is broadcast.
Record(r) ==
  /\ has[r] = 0 /\ Commit
  /\ ours' = ours \union {count'}
  /\ has' = [has EXCEPT ![r] = count']
  /\ targets' = [targets EXCEPT ![r] = {}]
  /\ UNCHANGED <<subs, open, pending, queue, sent, closed>>

\* The same in another process, whose broadcaster is not this one.
RecordElsewhere ==
  /\ Commit
  /\ UNCHANGED <<ours, has, targets, subs, open, pending, queue, sent, closed>>

\* Another process starts and removes the rows older than audit_retention_days:
\* none that anybody here still has in hand.
CleanElsewhere ==
  /\ \E kept \in 1..count :
       /\ \A r \in Recorders : has[r] \notin 1..kept
       /\ \A c \in Clients : Waiting(c) \intersect (1..kept) = {}
       /\ logged' = logged \ (1..kept)
  /\ UNCHANGED <<count, ours, has, targets, subs, open, pending, queue, sent, owed, closed>>

\* broadcast(): the subscribers are copied under the lock.
Snapshot(r) ==
  /\ has[r] # 0 /\ targets[r] = {} /\ subs # {}
  /\ targets' = [targets EXCEPT ![r] = subs]
  /\ UNCHANGED <<logged, count, ours, has, subs, open, pending, queue, sent, owed, closed>>

\* The last target done, or none there; the entry is out.
LeaveIf(r, done) == has' = [has EXCEPT ![r] = IF done THEN 0 ELSE @]

NobodyThere(r) ==
  /\ has[r] # 0 /\ targets[r] = {} /\ subs = {}
  /\ LeaveIf(r, TRUE)
  /\ UNCHANGED <<logged, count, ours, targets, subs, open, pending, queue, sent, owed, closed>>

\* call_soon_threadsafe, one subscriber after the other; of a closed loop it
\* raises, and the subscriber is discarded.
Schedule(r, c) ==
  /\ has[r] # 0 /\ c \in targets[r]
  /\ targets' = [targets EXCEPT ![r] = @ \ {c}]
  /\ LeaveIf(r, targets[r] = {c})
  /\ IF closed THEN subs' = subs \ {c} /\ UNCHANGED pending
               ELSE pending' = Append(pending, <<c, has[r]>>) /\ UNCHANGED subs
  /\ UNCHANGED <<logged, count, ours, open, queue, sent, owed, closed>>

\* Fault variant: a full queue drops the entry and keeps the subscriber.
EnqueueDropping ==
  /\ pending # <<>>
  /\ LET c == Head(pending)[1] IN
       queue' = IF Len(queue[c]) < QueueSize
                  THEN [queue EXCEPT ![c] = Append(@, Head(pending)[2])] ELSE queue
  /\ pending' = Tail(pending)
  /\ UNCHANGED <<logged, count, ours, has, targets, subs, open, sent, owed, closed>>

\* _enqueue, in the loop: who does not keep up is no subscriber any more, though
\* its stream stays open.  A queue whose stream has ended is garbage.
Enqueue ==
  /\ pending # <<>>
  /\ LET c == Head(pending)[1] IN
       CASE c \notin open -> UNCHANGED <<queue, subs>>
         [] c \in open /\ Len(queue[c]) < QueueSize ->
              queue' = [queue EXCEPT ![c] = Append(@, Head(pending)[2])] /\ UNCHANGED subs
         [] OTHER -> subs' = subs \ {c} /\ UNCHANGED queue
  /\ pending' = Tail(pending)
  /\ UNCHANGED <<logged, count, ours, has, targets, open, sent, owed, closed>>

\* Fault variant: the limit is not looked at.
SubscribeUnlimited(c) ==
  /\ c \notin open /\ ~closed /\ \A i \in DOMAIN pending : pending[i][1] # c
  /\ \A r \in Recorders : c \notin targets[r]
  /\ open' = open \union {c} /\ subs' = subs \union {c}
  /\ UNCHANGED <<logged, count, ours, has, targets, pending, queue, sent, owed, closed>>

\* subscribe(); one too many is told so and its stream ends.  A client opens a
\* stream again as another subscriber: nothing of the old one is left.
Subscribe(c) ==
  /\ c \notin open /\ ~closed /\ \A i \in DOMAIN pending : pending[i][1] # c
  /\ \A r \in Recorders : c \notin targets[r]
  /\ Cardinality(subs) < MaxSubs
  /\ open' = open \union {c} /\ subs' = subs \union {c}
  /\ UNCHANGED <<logged, count, ours, has, targets, pending, queue, sent, owed, closed>>

\* The generator takes from its queue and sends; between entries, keepalives.
Send(c) ==
  /\ c \in open /\ queue[c] # <<>> /\ ~closed
  /\ sent' = [sent EXCEPT ![c] = @ \union {Head(queue[c])}]
  /\ queue' = [queue EXCEPT ![c] = Tail(@)]
  /\ UNCHANGED <<logged, count, ours, has, targets, subs, open, pending, owed, closed>>

\* The client goes away: `finally: unsubscribe`.
Disconnect(c) ==
  /\ c \in open /\ ~closed
  /\ open' = open \ {c} /\ subs' = subs \ {c}
  /\ Forget(c)
  /\ UNCHANGED <<logged, count, ours, has, targets, pending, closed>>

\* The server shuts down; threads may still be recording.
CloseLoop ==
  /\ ~closed
  /\ closed' = TRUE /\ pending' = <<>>
  /\ UNCHANGED <<logged, count, ours, has, targets, subs, open, queue, sent, owed>>

\* A new process: the rows are there, those older than audit_retention_days are
\* removed (cleanup_old_logs).
RestartServer ==
  /\ closed' = FALSE
  /\ \E kept \in 0..count : logged' = {e \in logged : e > kept}
  /\ has' = [r \in Recorders |-> 0] /\ targets' = [r \in Recorders |-> {}]
  /\ subs' = {} /\ open' = {} /\ pending' = <<>>
  /\ queue' = [c \in Clients |-> <<>>]
  /\ sent' = [c \in Clients |-> {}] /\ owed' = [c \in Clients |-> {}]
  /\ UNCHANGED <<count, ours>>

EventsNext ==
  \/ \E r \in Recorders : Record(r) \/ Snapshot(r) \/ NobodyThere(r)
  \/ \E r \in Recorders, c \in Clients : Schedule(r, c)
  \/ \E c \in Clients : Subscribe(c) \/ Send(c) \/ Disconnect(c)
  \/ Enqueue \/ CloseLoop \/ RestartServer
  \/ RecordElsewhere \/ CleanElsewhere

--------------------------------------------------------------------------------
\* A recorder is still to hand the entry on to the client.
Underway(c, e) == \E r \in Recorders : has[r] = e /\ (targets[r] = {} \/ c \in targets[r])

\* Whoever is still a subscriber misses nothing of what its own process records
\* (api/events.py:74-107): it has been sent, is on its way, or a recorder is still
\* to hand it on.  Of what the CLI or another worker records it is told nothing.
NoSilentGap ==
  ~closed => \A c \in subs : \A e \in owed[c] \intersect ours :
    e \in sent[c] \union Waiting(c) \/ Underway(c, e)

\* What README.md:56 says of the stream, every sensitive operation: false where a
\* second process records.
SeesEveryOperation ==
  ~closed => \A c \in subs : \A e \in owed[c] :
    e \in sent[c] \union Waiting(c) \/ Underway(c, e)

\* No stream is handed an entry the log does not have (audit.py:34-60): a rolled
\* back entry is never seen, nor one of before a restart.
LoggedFirst == \A c \in Clients : Waiting(c) \subseteq logged
================================================================================
