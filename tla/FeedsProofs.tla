------------------------------ MODULE FeedsProofs ------------------------------
(* What TLAPS proves of Feeds for any recorders, clients, limits and numbers   *)
(* of entries: no stream is ahead of the log, none has a gap in what its own    *)
(* process records, no queue grows beyond its size; and a reminder is sent by   *)
(* one thread at a time.                                                        *)
EXTENDS Feeds, FiniteSetTheorems, TLAPS

USE EventAssumption

LEMMA Bounds == MaxSubs \in Nat \ {0} /\ QueueSize \in Nat \ {0} /\ MaxEvents \in Nat \ {0}
  OBVIOUS

\* What is in a sequence, and what Append and Tail make of it.
Has(s) == {s[i] : i \in DOMAIN s}

LEMMA AppendHas ==
  ASSUME NEW S, NEW s \in Seq(S), NEW x \in S
  PROVE  Append(s, x) \in Seq(S) /\ Has(Append(s, x)) = Has(s) \union {x}
<1>1. /\ DOMAIN Append(s, x) = 1..Len(s) + 1 /\ DOMAIN s = 1..Len(s) /\ Len(s) \in Nat
      /\ \A i \in 1..Len(s) : Append(s, x)[i] = s[i]
      /\ Append(s, x)[Len(s) + 1] = x
  OBVIOUS
<1> QED
  BY <1>1 DEF Has

LEMMA TailHas ==
  ASSUME NEW S, NEW s \in Seq(S), s # <<>>
  PROVE  Tail(s) \in Seq(S) /\ Head(s) \in S /\ Has(s) = Has(Tail(s)) \union {Head(s)}
<1>1. /\ Len(s) \in Nat \ {0} /\ DOMAIN s = 1..Len(s) /\ Head(s) = s[1]
      /\ DOMAIN Tail(s) = 1..Len(s) - 1 /\ \A i \in 1..Len(s) - 1 : Tail(s)[i] = s[i + 1]
      /\ Tail(s) \in Seq(S)
  OBVIOUS
<1>2. ASSUME NEW i \in DOMAIN s PROVE s[i] \in Has(Tail(s)) \union {Head(s)}
  <2>1. CASE i = 1
    BY <1>1, <2>1
  <2>2. CASE i # 1
    <3>1. i - 1 \in 1..Len(s) - 1 /\ Tail(s)[i - 1] = s[i]
      BY <1>1, <2>2
    <3> QED
      BY <1>1, <3>1 DEF Has
  <2> QED
    BY <2>1, <2>2
<1>3. ASSUME NEW i \in DOMAIN Tail(s) PROVE Tail(s)[i] \in Has(s)
  <2>1. i + 1 \in DOMAIN s /\ Tail(s)[i] = s[i + 1]
    BY <1>1
  <2> QED
    BY <2>1 DEF Has
<1>4. Head(s) \in Has(s)
  BY <1>1 DEF Has
<1> QED
  BY <1>1, <1>2, <1>3, <1>4 DEF Has

--------------------------------------------------------------------------------
\* What waits for a client, as the two sequences say it.
OnItsWay(c, e) == e \in Has(queue[c]) \/ <<c, e>> \in Has(pending)

Shapes ==
  /\ count \in 0..MaxEvents /\ logged \subseteq 1..count /\ ours \subseteq 1..count
  /\ has \in [Recorders -> 0..count] /\ targets \in [Recorders -> SUBSET Clients]
  /\ subs \subseteq open /\ open \subseteq Clients
  /\ pending \in Seq(Clients \X Entries)
  /\ queue \in [Clients -> Seq(Entries)]
  /\ sent \in [Clients -> SUBSET Entries] /\ owed \in [Clients -> SUBSET Entries]
  /\ closed \in BOOLEAN

LEMMA WaitingIs ==
  ASSUME Shapes, NEW c \in Clients, NEW e
  PROVE  e \in Waiting(c) <=> OnItsWay(c, e)
<1>1. \A i \in DOMAIN pending : pending[i] = <<pending[i][1], pending[i][2]>>
  BY DEF Shapes
<1> QED
  BY <1>1 DEF Waiting, OnItsWay, Has

\* Nobody holds or broadcasts an entry that is not in the log.
Logged ==
  /\ \A r \in Recorders : has[r] # 0 => has[r] \in logged
  /\ \A c \in Clients : Has(queue[c]) \subseteq logged
  /\ \A c \in Clients, e \in Entries : <<c, e>> \in Has(pending) => e \in logged

\* A stream that opens has nothing of an earlier one.
StartsEmpty == \A c \in Clients \ open : owed[c] = {}

Handed(c, e) ==
  \/ e \in sent[c] \/ OnItsWay(c, e)
  \/ \E r \in Recorders : has[r] = e /\ (targets[r] = {} \/ c \in targets[r])

NoGap == ~closed => \A c \in subs : \A e \in owed[c] \intersect ours : Handed(c, e)

EventsInv == Shapes /\ Logged /\ StartsEmpty /\ NoGap

LEMMA EventsStart == EventsInit => EventsInv
<1> SUFFICES ASSUME EventsInit PROVE EventsInv
  OBVIOUS
<1>1. Shapes
  <2>1. \A S : <<>> \in Seq(S)
    OBVIOUS
  <2>2. pending \in Seq(Clients \X Entries) /\ queue \in [Clients -> Seq(Entries)]
    BY <2>1 DEF EventsInit
  <2>3. count \in 0..MaxEvents
    BY Bounds DEF EventsInit
  <2>4. has \in [Recorders -> 0..count] /\ targets \in [Recorders -> SUBSET Clients]
    BY DEF EventsInit
  <2>5. sent \in [Clients -> SUBSET Entries] /\ owed \in [Clients -> SUBSET Entries]
    BY DEF EventsInit
  <2> QED
    BY <2>2, <2>3, <2>4, <2>5 DEF EventsInit, Shapes
<1>2. Has(pending) = {} /\ \A c \in Clients : Has(queue[c]) = {}
  BY DEF EventsInit, Has
<1> QED
  BY <1>1, <1>2 DEF EventsInit, EventsInv, Logged, StartsEmpty, NoGap

--------------------------------------------------------------------------------
\* A commit, of whichever process, owes what nobody has been handed yet.
LEMMA CommitTypes ==
  ASSUME EventsInv, Commit
  PROVE  /\ count' = count + 1 /\ count \in Nat /\ count' \in Entries /\ count' \in 0..MaxEvents
         /\ logged' = logged \union {count'} /\ logged' \subseteq 1..count'
         /\ 0..count \subseteq 0..count' /\ 1..count \subseteq 1..count' /\ count' \notin ours
         /\ owed' \in [Clients -> SUBSET Entries]
         /\ \A c \in Clients : owed'[c] \subseteq owed[c] \union {count'}
         /\ \A c \in Clients \ open : owed'[c] = owed[c]
<1>1. /\ count' = count + 1 /\ count < MaxEvents /\ count \in Nat
      /\ logged' = logged \union {count'}
  BY Bounds DEF EventsInv, Shapes, Commit
<1>2. /\ count' \in Entries /\ count' \in 0..MaxEvents /\ logged' \subseteq 1..count'
      /\ 0..count \subseteq 0..count' /\ 1..count \subseteq 1..count' /\ count' \notin ours
  BY <1>1, Bounds DEF EventsInv, Shapes, Entries
<1>3. owed' = [c \in Clients |-> IF c \in subs THEN owed[c] \union {count'} ELSE owed[c]]
  BY DEF Commit
<1>4. owed' \in [Clients -> SUBSET Entries]
  BY <1>2, <1>3 DEF EventsInv, Shapes
<1> QED
  BY <1>1, <1>2, <1>3, <1>4 DEF EventsInv, Shapes

LEMMA RecordKeeps ==
  ASSUME EventsInv, NEW r \in Recorders, Record(r)
  PROVE  EventsInv'
<1>0. /\ count' = count + 1 /\ count \in Nat /\ count' \in Entries /\ count' \in 0..MaxEvents
      /\ logged' = logged \union {count'} /\ logged' \subseteq 1..count'
      /\ 0..count \subseteq 0..count' /\ 1..count \subseteq 1..count'
      /\ owed' \in [Clients -> SUBSET Entries]
      /\ \A c \in Clients : owed'[c] \subseteq owed[c] \union {count'}
      /\ \A c \in Clients \ open : owed'[c] = owed[c]
  BY CommitTypes DEF Record
<1>00. /\ ours' = ours \union {count'} /\ has[r] = 0
       /\ has' = [has EXCEPT ![r] = count'] /\ targets' = [targets EXCEPT ![r] = {}]
       /\ UNCHANGED <<subs, open, pending, queue, sent, closed>>
  BY DEF Record
<1>1. Shapes'
  <2>1. has' \in [Recorders -> 0..count']
    BY <1>0, <1>00 DEF EventsInv, Shapes
  <2>2. targets' \in [Recorders -> SUBSET Clients]
    BY <1>00 DEF EventsInv, Shapes
  <2>3. ours' \subseteq 1..count'
    BY <1>0, <1>00 DEF EventsInv, Shapes
  <2> QED
    BY <1>0, <1>00, <2>1, <2>2, <2>3 DEF EventsInv, Shapes
<1>2. Logged' /\ StartsEmpty'
  BY <1>0, <1>00 DEF EventsInv, Shapes, Logged, StartsEmpty, Has
<1>3. ASSUME ~closed', NEW c \in subs', NEW e \in owed'[c] \intersect ours' PROVE Handed(c, e)'
  <2>1. c \in Clients /\ c \in subs /\ ~closed
    BY <1>00, <1>3 DEF EventsInv, Shapes
  <2>2. CASE e = count'
    BY <1>00, <2>2 DEF EventsInv, Shapes, Handed
  <2>3. CASE e \in owed[c] \intersect ours
    <3>1. Handed(c, e)
      BY <2>1, <2>3 DEF EventsInv, NoGap
    <3>2. \A o \in Recorders : has[o] # 0 => has'[o] = has[o] /\ targets'[o] = targets[o]
      BY <1>00 DEF EventsInv, Shapes
    <3>3. e # 0
      BY <2>1, <2>3 DEF EventsInv, Shapes, Entries
    <3>4. OnItsWay(c, e)' <=> OnItsWay(c, e)
      BY <1>00 DEF OnItsWay, Has
    <3> QED
      BY <1>00, <3>1, <3>2, <3>3, <3>4 DEF Handed
  <2> QED
    BY <1>0, <1>00, <1>3, <2>1, <2>2, <2>3
<1> QED
  BY <1>1, <1>2, <1>3 DEF EventsInv, NoGap

\* What another process does touches nothing a subscriber here waits for.
LEMMA ElsewhereKeeps ==
  ASSUME EventsInv, RecordElsewhere \/ CleanElsewhere
  PROVE  EventsInv'
<1>0. UNCHANGED <<ours, has, targets, subs, open, pending, queue, sent, closed>>
  BY DEF RecordElsewhere, CleanElsewhere
<1>1. Has(pending') = Has(pending) /\ queue' = queue
  BY <1>0
<1>2. ASSUME \A c \in Clients : owed'[c] \intersect ours \subseteq owed[c] PROVE NoGap'
  <2> SUFFICES ASSUME ~closed, NEW c \in subs, NEW e \in owed'[c] \intersect ours PROVE Handed(c, e)'
    BY <1>0 DEF NoGap
  <2>1. Handed(c, e)
    BY <1>2 DEF EventsInv, Shapes, NoGap
  <2> QED
    BY <1>0, <1>1, <2>1 DEF Handed, OnItsWay
<1>3. CASE RecordElsewhere
  <2>0. /\ count \in Nat /\ count' \in 0..MaxEvents
        /\ logged' = logged \union {count'} /\ logged' \subseteq 1..count'
        /\ 0..count \subseteq 0..count' /\ 1..count \subseteq 1..count' /\ count' \notin ours
        /\ owed' \in [Clients -> SUBSET Entries]
        /\ \A c \in Clients : owed'[c] \subseteq owed[c] \union {count'}
        /\ \A c \in Clients \ open : owed'[c] = owed[c]
    BY <1>3, CommitTypes DEF RecordElsewhere
  <2>1. Shapes'
    <3>1. has' \in [Recorders -> 0..count'] /\ ours' \subseteq 1..count'
      BY <1>0, <2>0 DEF EventsInv, Shapes
    <3> QED
      BY <1>0, <2>0, <3>1 DEF EventsInv, Shapes
  <2>2. Logged' /\ StartsEmpty'
    BY <1>0, <1>1, <2>0 DEF EventsInv, Logged, StartsEmpty
  <2>3. NoGap'
    BY <1>2, <2>0
  <2> QED
    BY <2>1, <2>2, <2>3 DEF EventsInv
<1>4. CASE CleanElsewhere
  <2>1. UNCHANGED <<count, owed>>
    BY <1>4 DEF CleanElsewhere
  <2>2. PICK kept \in 1..count :
          /\ \A r \in Recorders : has[r] \notin 1..kept
          /\ \A c \in Clients : Waiting(c) \intersect (1..kept) = {}
          /\ logged' = logged \ (1..kept)
    BY <1>4 DEF CleanElsewhere
  <2>3. \A c \in Clients : \A e : OnItsWay(c, e) => e \notin 1..kept
    BY <2>2, WaitingIs DEF EventsInv
  <2>4. Shapes' /\ StartsEmpty'
    BY <1>0, <2>1, <2>2 DEF EventsInv, Shapes, StartsEmpty
  <2>5. Logged'
    <3>1. \A r \in Recorders : has'[r] # 0 => has'[r] \in logged'
      BY <1>0, <2>2 DEF EventsInv, Logged
    <3>2. \A c \in Clients : Has(queue'[c]) \subseteq logged'
      BY <1>1, <2>2, <2>3 DEF EventsInv, Logged, OnItsWay
    <3>3. \A c \in Clients, e \in Entries : <<c, e>> \in Has(pending') => e \in logged'
      BY <1>1, <2>2, <2>3 DEF EventsInv, Logged, OnItsWay
    <3> QED
      BY <3>1, <3>2, <3>3 DEF Logged
  <2>6. NoGap'
    BY <1>2, <2>1
  <2> QED
    BY <2>4, <2>5, <2>6 DEF EventsInv
<1> QED
  BY <1>3, <1>4

LEMMA SnapshotKeeps ==
  ASSUME EventsInv, NEW r \in Recorders, Snapshot(r) \/ NobodyThere(r)
  PROVE  EventsInv'
<1>0. \/ targets' = [targets EXCEPT ![r] = subs] /\ UNCHANGED has
      \/ has' = [has EXCEPT ![r] = 0] /\ UNCHANGED targets
  BY DEF Snapshot, NobodyThere, LeaveIf
<1>00. UNCHANGED <<logged, count, ours, subs, open, pending, queue, sent, owed, closed>>
  BY DEF Snapshot, NobodyThere
<1>1. Shapes'
  <2>1. targets' \in [Recorders -> SUBSET Clients]
    BY <1>0 DEF EventsInv, Shapes
  <2>2. has' \in [Recorders -> 0..count]
    <3>1. 0 \in 0..count /\ has \in [Recorders -> 0..count]
      BY Bounds DEF EventsInv, Shapes
    <3> QED
      BY <1>0, <3>1
  <2> QED
    BY <1>00, <2>1, <2>2 DEF EventsInv, Shapes
<1>2. Logged' /\ StartsEmpty'
  BY <1>0, <1>00 DEF EventsInv, Shapes, Logged, StartsEmpty, Has
<1>3. ASSUME ~closed', NEW c \in subs', NEW e \in owed'[c] \intersect ours' PROVE Handed(c, e)'
  <2>1. /\ Snapshot(r) /\ c \in subs /\ ~closed /\ e \in owed[c] \intersect ours
    BY <1>00, <1>3 DEF NobodyThere
  <2>2. Handed(c, e)
    BY <2>1 DEF EventsInv, NoGap
  <2>3. OnItsWay(c, e)' <=> OnItsWay(c, e)
    BY <2>1 DEF Snapshot, OnItsWay, Has
  <2>4. \A o \in Recorders : targets[o] = {} \/ c \in targets[o]
                               => targets'[o] = {} \/ c \in targets'[o]
    BY <2>1 DEF EventsInv, Shapes, Snapshot
  <2> QED
    BY <2>1, <2>2, <2>3, <2>4 DEF Handed, Snapshot
<1> QED
  BY <1>1, <1>2, <1>3 DEF EventsInv, NoGap

\* One subscriber is handed its callback, or discarded with the closed loop.
LEMMA ScheduleKeeps ==
  ASSUME EventsInv, NEW r \in Recorders, NEW d \in Clients, Schedule(r, d)
  PROVE  EventsInv'
<1>0. /\ UNCHANGED <<logged, count, ours, open, queue, sent, owed, closed>>
      /\ targets' = [targets EXCEPT ![r] = @ \ {d}]
      /\ has' = [has EXCEPT ![r] = IF targets[r] = {d} THEN 0 ELSE @]
      /\ has[r] \in Entries /\ has[r] \in logged /\ d \in targets[r]
  BY Bounds DEF EventsInv, Shapes, Logged, Schedule, LeaveIf, Entries
<1>1. CASE closed
  <2>0. subs' = subs \ {d} /\ pending' = pending
    BY <1>1 DEF Schedule
  <2>1. Shapes'
    <3>1. targets' \in [Recorders -> SUBSET Clients] /\ has' \in [Recorders -> 0..count]
      BY <1>0 DEF EventsInv, Shapes
    <3> QED
      BY <1>0, <2>0, <3>1 DEF EventsInv, Shapes
  <2>2. Logged' /\ StartsEmpty' /\ NoGap'
    BY <1>0, <1>1, <2>0 DEF EventsInv, Shapes, Logged, StartsEmpty, NoGap, Has
  <2> QED
    BY <2>1, <2>2 DEF EventsInv
<1>2. CASE ~closed
  <2>0. subs' = subs /\ pending' = Append(pending, <<d, has[r]>>)
    BY <1>2 DEF Schedule
  <2>1. /\ pending' \in Seq(Clients \X Entries)
        /\ Has(pending') = Has(pending) \union {<<d, has[r]>>}
    <3>1. pending \in Seq(Clients \X Entries) /\ <<d, has[r]>> \in Clients \X Entries
      BY <1>0 DEF EventsInv, Shapes
    <3> QED
      BY <2>0, <3>1, AppendHas
  <2>2. Shapes'
    <3>1. targets' \in [Recorders -> SUBSET Clients] /\ has' \in [Recorders -> 0..count]
      BY <1>0 DEF EventsInv, Shapes
    <3> QED
      BY <1>0, <2>0, <2>1, <3>1 DEF EventsInv, Shapes
  <2>3. StartsEmpty'
    BY <1>0 DEF EventsInv, StartsEmpty
  <2>4. Logged'
    <3>1. \A o \in Recorders : has'[o] # 0 => has'[o] \in logged
      BY <1>0 DEF EventsInv, Shapes, Logged
    <3>2. \A c \in Clients, e \in Entries : <<c, e>> \in Has(pending') => e \in logged
      BY <1>0, <2>1 DEF EventsInv, Logged
    <3> QED
      BY <1>0, <3>1, <3>2 DEF EventsInv, Logged, Has
  <2>5. ASSUME NEW c \in subs, NEW e \in owed[c] \intersect ours PROVE Handed(c, e)'
    <3>0. c \in Clients /\ Handed(c, e) /\ e # 0
      BY <1>2, <2>5 DEF EventsInv, Shapes, NoGap, Entries
    <3>1. OnItsWay(c, e) => OnItsWay(c, e)'
      BY <1>0, <2>1 DEF OnItsWay, Has
    <3>2. ASSUME NEW o \in Recorders, has[o] = e, targets[o] = {} \/ c \in targets[o]
          PROVE  Handed(c, e)'
      <4>1. CASE o = r /\ c = d
        BY <2>1, <3>2, <4>1 DEF Handed, OnItsWay
      <4>2. CASE o # r
        BY <1>0, <3>2, <4>2 DEF EventsInv, Shapes, Handed
      <4>3. CASE o = r /\ c # d
        <5>1. c \in targets[r] /\ targets[r] # {d}
          BY <1>0, <3>2, <4>3
        <5>2. has'[r] = e /\ c \in targets'[r]
          BY <1>0, <3>2, <4>3, <5>1 DEF EventsInv, Shapes
        <5> QED
          BY <5>2 DEF Handed
      <4> QED
        BY <4>1, <4>2, <4>3
    <3> QED
      BY <1>0, <3>0, <3>1, <3>2 DEF Handed
  <2> QED
    BY <1>0, <2>0, <2>2, <2>3, <2>4, <2>5 DEF EventsInv, NoGap
<1> QED
  BY <1>1, <1>2

\* The loop runs a callback: into the queue, or the subscriber is dropped.
LEMMA EnqueueKeeps ==
  ASSUME EventsInv, Enqueue
  PROVE  EventsInv'
<1> DEFINE d == Head(pending)[1]
           n == Head(pending)[2]
<1>0. /\ UNCHANGED <<logged, count, ours, has, targets, open, sent, owed, closed>>
      /\ pending # <<>> /\ pending' = Tail(pending)
  BY DEF Enqueue
<1>1. /\ pending' \in Seq(Clients \X Entries) /\ d \in Clients /\ n \in Entries
      /\ Head(pending) = <<d, n>>
      /\ Has(pending) = Has(pending') \union {<<d, n>>}
  <2>1. Head(pending) \in Clients \X Entries /\ Tail(pending) \in Seq(Clients \X Entries)
        /\ Has(pending) = Has(Tail(pending)) \union {Head(pending)}
    BY <1>0, TailHas DEF EventsInv, Shapes
  <2> QED
    BY <1>0, <2>1
<1>2. n \in logged
  BY <1>1 DEF EventsInv, Logged
<1>3. \/ queue' = [queue EXCEPT ![d] = Append(@, n)] /\ UNCHANGED subs
      \/ UNCHANGED queue /\ subs' = subs \ {d}
  BY DEF Enqueue, EventsInv, Shapes
<1>4. CASE queue' = [queue EXCEPT ![d] = Append(@, n)] /\ UNCHANGED subs
  <2>1. /\ queue' \in [Clients -> Seq(Entries)]
        /\ queue'[d] = Append(queue[d], n)
        /\ \A c \in Clients \ {d} : queue'[c] = queue[c]
    BY <1>1, <1>4, AppendHas DEF EventsInv, Shapes
  <2>2. Has(queue'[d]) = Has(queue[d]) \union {n}
    BY <1>1, <2>1, AppendHas DEF EventsInv, Shapes
  <2>3. Shapes' /\ StartsEmpty'
    BY <1>0, <1>1, <1>4, <2>1 DEF EventsInv, Shapes, StartsEmpty
  <2>4. Logged'
    BY <1>0, <1>1, <1>2, <2>1, <2>2 DEF EventsInv, Logged
  <2>5. \A e : \A c \in Clients : OnItsWay(c, e) => OnItsWay(c, e)'
    BY <1>1, <2>1, <2>2 DEF OnItsWay
  <2>6. NoGap'
    <3>1. ASSUME ~closed, NEW c \in subs', NEW e \in owed[c] \intersect ours PROVE Handed(c, e)'
      <4>1. c \in subs /\ c \in Clients
        BY <1>4, <3>1 DEF EventsInv, Shapes
      <4>2. Handed(c, e)
        BY <3>1, <4>1 DEF EventsInv, NoGap
      <4> QED
        BY <1>0, <2>5, <4>1, <4>2 DEF Handed
    <3> QED
      BY <1>0, <3>1 DEF NoGap
  <2> QED
    BY <2>3, <2>4, <2>6 DEF EventsInv
<1>5. CASE UNCHANGED queue /\ subs' = subs \ {d}
  <2>1. Shapes' /\ StartsEmpty'
    BY <1>0, <1>1, <1>5 DEF EventsInv, Shapes, StartsEmpty
  <2>2. Logged'
    BY <1>0, <1>1, <1>5 DEF EventsInv, Logged, Has
  <2>3. \A e : \A c \in Clients \ {d} : OnItsWay(c, e) => OnItsWay(c, e)'
    BY <1>1, <1>5 DEF OnItsWay, Has
  <2>4. NoGap'
    <3>1. ASSUME ~closed, NEW c \in subs', NEW e \in owed[c] \intersect ours PROVE Handed(c, e)'
      <4>1. c \in subs /\ c \in Clients \ {d}
        BY <1>5, <3>1 DEF EventsInv, Shapes
      <4>2. Handed(c, e)
        BY <3>1, <4>1 DEF EventsInv, NoGap
      <4> QED
        BY <1>0, <2>3, <4>1, <4>2 DEF Handed
    <3> QED
      BY <1>0, <3>1 DEF NoGap
  <2> QED
    BY <2>1, <2>2, <2>4 DEF EventsInv
<1> QED
  BY <1>3, <1>4, <1>5

--------------------------------------------------------------------------------
LEMMA SubscribeKeeps ==
  ASSUME EventsInv, NEW d \in Clients, Subscribe(d)
  PROVE  EventsInv'
<1>0. /\ UNCHANGED <<logged, count, ours, has, targets, pending, queue, sent, owed, closed>>
      /\ d \notin open /\ open' = open \union {d} /\ subs' = subs \union {d}
  BY DEF Subscribe
<1>1. Shapes' /\ Logged' /\ StartsEmpty'
  BY <1>0 DEF EventsInv, Shapes, Logged, StartsEmpty, Has
<1>2. ASSUME ~closed, NEW c \in subs', NEW e \in owed[c] \intersect ours PROVE Handed(c, e)'
  <2>1. owed[d] = {}
    BY <1>0 DEF EventsInv, StartsEmpty
  <2>2. c \in subs
    BY <1>0, <1>2, <2>1
  <2>3. Handed(c, e)
    BY <1>2, <2>2 DEF EventsInv, NoGap
  <2> QED
    BY <1>0, <2>3 DEF Handed, OnItsWay, Has
<1> QED
  BY <1>0, <1>1, <1>2 DEF EventsInv, NoGap

LEMMA SendKeeps ==
  ASSUME EventsInv, NEW d \in Clients, Send(d)
  PROVE  EventsInv'
<1>0. /\ UNCHANGED <<logged, count, ours, has, targets, subs, open, pending, owed, closed>>
      /\ queue[d] # <<>> /\ queue' = [queue EXCEPT ![d] = Tail(@)]
      /\ sent' = [sent EXCEPT ![d] = @ \union {Head(queue[d])}]
  BY DEF Send
<1>1. /\ Tail(queue[d]) \in Seq(Entries) /\ Head(queue[d]) \in Entries
      /\ Has(queue[d]) = Has(Tail(queue[d])) \union {Head(queue[d])}
  BY <1>0, TailHas DEF EventsInv, Shapes
<1>2. /\ queue'[d] = Tail(queue[d]) /\ sent'[d] = sent[d] \union {Head(queue[d])}
      /\ \A c \in Clients \ {d} : queue'[c] = queue[c] /\ sent'[c] = sent[c]
  BY <1>0 DEF EventsInv, Shapes
<1>3. Shapes' /\ StartsEmpty'
  <2>1. queue' \in [Clients -> Seq(Entries)] /\ sent' \in [Clients -> SUBSET Entries]
    BY <1>0, <1>1 DEF EventsInv, Shapes
  <2> QED
    BY <1>0, <2>1 DEF EventsInv, Shapes, StartsEmpty
<1>4. Logged'
  <2>1. \A c \in Clients : Has(queue'[c]) \subseteq logged
    BY <1>1, <1>2 DEF EventsInv, Logged
  <2> QED
    BY <1>0, <2>1 DEF EventsInv, Logged, Has
<1>5. ASSUME ~closed, NEW c \in subs, NEW e \in owed[c] \intersect ours PROVE Handed(c, e)'
  <2>1. Handed(c, e) /\ c \in Clients
    BY <1>5 DEF EventsInv, Shapes, NoGap
  <2>2. e \in sent[c] \/ e \in Has(queue[c]) => e \in sent'[c] \/ e \in Has(queue'[c])
    BY <1>1, <1>2, <2>1
  <2>3. Has(pending') = Has(pending)
    BY <1>0
  <2> QED
    BY <1>0, <2>1, <2>2, <2>3 DEF Handed, OnItsWay
<1> QED
  BY <1>0, <1>3, <1>4, <1>5 DEF EventsInv, NoGap

LEMMA DisconnectKeeps ==
  ASSUME EventsInv, NEW d \in Clients, Disconnect(d)
  PROVE  EventsInv'
<1>0. /\ UNCHANGED <<logged, count, ours, has, targets, pending, closed>>
      /\ open' = open \ {d} /\ subs' = subs \ {d}
      /\ queue' = [queue EXCEPT ![d] = <<>>]
      /\ sent' = [sent EXCEPT ![d] = {}] /\ owed' = [owed EXCEPT ![d] = {}]
  BY DEF Disconnect, Forget
<1>1. <<>> \in Seq(Entries) /\ Has(<<>>) = {}
  BY DEF Has
<1>2. Shapes'
  <2>1. queue' \in [Clients -> Seq(Entries)]
    BY <1>0, <1>1 DEF EventsInv, Shapes
  <2>2. sent' \in [Clients -> SUBSET Entries] /\ owed' \in [Clients -> SUBSET Entries]
    BY <1>0 DEF EventsInv, Shapes
  <2> QED
    BY <1>0, <2>1, <2>2 DEF EventsInv, Shapes
<1>3. /\ queue'[d] = <<>> /\ sent'[d] = {} /\ owed'[d] = {}
      /\ \A c \in Clients \ {d} : queue'[c] = queue[c] /\ sent'[c] = sent[c] /\ owed'[c] = owed[c]
  BY <1>0 DEF EventsInv, Shapes
<1>4. Logged' /\ StartsEmpty'
  <2>1. \A c \in Clients : Has(queue'[c]) \subseteq logged
    BY <1>1, <1>3 DEF EventsInv, Logged
  <2>2. Has(pending') = Has(pending)
    BY <1>0
  <2>3. StartsEmpty'
    BY <1>0, <1>3 DEF EventsInv, StartsEmpty
  <2> QED
    BY <1>0, <2>1, <2>2, <2>3 DEF EventsInv, Logged
<1>5. ASSUME ~closed, NEW c \in subs', NEW e \in owed'[c] \intersect ours' PROVE Handed(c, e)'
  <2>1. c \in Clients \ {d} /\ c \in subs /\ e \in owed[c] \intersect ours
    BY <1>0, <1>3, <1>5 DEF EventsInv, Shapes
  <2>2. Handed(c, e)
    BY <1>5, <2>1 DEF EventsInv, NoGap
  <2>3. Has(pending') = Has(pending)
    BY <1>0
  <2> QED
    BY <1>0, <1>3, <2>1, <2>2, <2>3 DEF Handed, OnItsWay
<1> QED
  BY <1>0, <1>2, <1>4, <1>5 DEF EventsInv, NoGap

\* The loop closes, and the server starts again.
LEMMA ServerKeeps ==
  ASSUME EventsInv, CloseLoop \/ RestartServer
  PROVE  EventsInv'
<1>0. \A S : <<>> \in Seq(S)
  OBVIOUS
<1>00. Has(<<>>) = {}
  BY DEF Has
<1>1. CASE CloseLoop
  <2>1. Shapes' /\ StartsEmpty' /\ NoGap'
    BY <1>0, <1>1 DEF EventsInv, Shapes, StartsEmpty, NoGap, CloseLoop
  <2>2. Logged'
    BY <1>00, <1>1 DEF EventsInv, Logged, CloseLoop
  <2> QED
    BY <2>1, <2>2 DEF EventsInv
<1>2. CASE RestartServer
  <2>0. /\ logged' \subseteq logged /\ UNCHANGED <<count, ours>> /\ closed' = FALSE
        /\ has' = [r \in Recorders |-> 0] /\ targets' = [r \in Recorders |-> {}]
        /\ subs' = {} /\ open' = {} /\ pending' = <<>>
        /\ queue' = [c \in Clients |-> <<>>]
        /\ sent' = [c \in Clients |-> {}] /\ owed' = [c \in Clients |-> {}]
    BY <1>2 DEF RestartServer
  <2>1. Shapes'
    <3>1. pending' \in Seq(Clients \X Entries) /\ queue' \in [Clients -> Seq(Entries)]
      BY <1>0, <2>0
    <3>2. has' \in [Recorders -> 0..count'] /\ targets' \in [Recorders -> SUBSET Clients]
      BY <2>0 DEF EventsInv, Shapes
    <3>3. sent' \in [Clients -> SUBSET Entries] /\ owed' \in [Clients -> SUBSET Entries]
      BY <2>0
    <3> QED
      BY <2>0, <3>1, <3>2, <3>3 DEF EventsInv, Shapes
  <2>2. Logged' /\ StartsEmpty' /\ NoGap'
    BY <1>00, <2>0 DEF Logged, StartsEmpty, NoGap
  <2> QED
    BY <2>1, <2>2 DEF EventsInv
<1> QED
  BY <1>1, <1>2

LEMMA EventsStep ==
  ASSUME EventsInv, [EventsNext]_eventVars
  PROVE  EventsInv'
<1>1. CASE UNCHANGED eventVars
  <2>1. Has(pending') = Has(pending) /\ queue' = queue
    BY <1>1 DEF eventVars
  <2>2. Shapes' /\ Logged' /\ StartsEmpty'
    BY <1>1, <2>1 DEF EventsInv, Shapes, Logged, StartsEmpty, eventVars
  <2>3. ASSUME ~closed, NEW c \in subs, NEW e \in owed[c] \intersect ours PROVE Handed(c, e)'
    <3>1. Handed(c, e)
      BY <2>3 DEF EventsInv, NoGap
    <3> QED
      BY <1>1, <2>1, <3>1 DEF Handed, OnItsWay, eventVars
  <2>4. NoGap'
    BY <1>1, <2>3 DEF NoGap, eventVars
  <2> QED
    BY <2>2, <2>4 DEF EventsInv
<1> QED
  BY <1>1, RecordKeeps, SnapshotKeeps, ScheduleKeeps, EnqueueKeeps, SubscribeKeeps,
     SendKeeps, DisconnectKeeps, ServerKeeps, ElsewhereKeeps DEF EventsNext

--------------------------------------------------------------------------------
\* The two limits: streams, and what waits in the queue of each.
Fits == Cardinality(subs) <= MaxSubs /\ \A c \in Clients : Len(queue[c]) <= QueueSize

LEMMA Fewer ==
  ASSUME EventsInv, NEW S \in SUBSET subs, Fits
  PROVE  Cardinality(S) <= MaxSubs
<1>1. IsFiniteSet(subs)
  BY FS_Subset DEF EventsInv, Shapes
<1>2. Cardinality(S) <= Cardinality(subs) /\ Cardinality(S) \in Nat /\ Cardinality(subs) \in Nat
  BY <1>1, FS_Subset, FS_CardinalityType
<1> QED
  BY <1>2, Bounds DEF Fits

LEMMA FitsStart == EventsInit => Fits
BY FS_EmptySet, Bounds DEF EventsInit, Fits

LEMMA FitsStep ==
  ASSUME EventsInv, Fits, [EventsNext]_eventVars
  PROVE  Fits'
<1>0. \A c \in Clients : queue[c] \in Seq(Entries)
  BY DEF EventsInv, Shapes
<1>1. CASE UNCHANGED <<subs, queue>>
  BY <1>1 DEF Fits
<1>2. ASSUME NEW c \in Clients, subs' = subs \ {c} \/ subs' = subs, UNCHANGED queue
      PROVE  Fits'
  BY <1>2, Fewer DEF Fits
<1>3. ASSUME NEW r \in Recorders, NEW c \in Clients, Schedule(r, c) PROVE Fits'
  BY <1>2, <1>3 DEF Schedule
<1>4. CASE Enqueue
  <2> DEFINE d == Head(pending)[1]
             n == Head(pending)[2]
  <2>1. d \in Clients
    <3>1. Head(pending) \in Clients \X Entries
      BY <1>4, TailHas DEF EventsInv, Shapes, Enqueue
    <3> QED
      BY <3>1
  <2>2. \/ UNCHANGED queue /\ (subs' = subs \ {d} \/ subs' = subs)
        \/ Len(queue[d]) < QueueSize /\ queue' = [queue EXCEPT ![d] = Append(@, n)] /\ UNCHANGED subs
    BY <1>4 DEF Enqueue
  <2>3. CASE Len(queue[d]) < QueueSize /\ queue' = [queue EXCEPT ![d] = Append(@, n)] /\ UNCHANGED subs
    <3>1. Len(queue'[d]) = Len(queue[d]) + 1 /\ Len(queue[d]) \in Nat
      BY <1>0, <2>1, <2>3 DEF EventsInv, Shapes
    <3>2. \A c \in Clients \ {d} : queue'[c] = queue[c]
      BY <2>3 DEF EventsInv, Shapes
    <3> QED
      BY <2>3, <3>1, <3>2, Bounds DEF Fits
  <2> QED
    BY <1>2, <2>1, <2>2, <2>3
<1>5. ASSUME NEW c \in Clients, Subscribe(c) PROVE Fits'
  <2>1. UNCHANGED queue /\ subs' = subs \union {c} /\ Cardinality(subs) < MaxSubs
    BY <1>5 DEF Subscribe
  <2>2. IsFiniteSet(subs) /\ Cardinality(subs) \in Nat
    BY FS_Subset, FS_CardinalityType DEF EventsInv, Shapes
  <2>3. Cardinality(subs') <= MaxSubs
    <3>1. Cardinality(subs \union {c}) \in {Cardinality(subs), Cardinality(subs) + 1}
      BY <2>2, FS_AddElement
    <3> QED
      BY <2>1, <2>2, <3>1, Bounds
  <2> QED
    BY <2>1, <2>3 DEF Fits
<1>6. ASSUME NEW c \in Clients, Send(c) PROVE Fits'
  <2>1. /\ UNCHANGED subs /\ queue[c] # <<>>
        /\ queue' = [queue EXCEPT ![c] = Tail(@)]
    BY <1>6 DEF Send
  <2>2. Len(queue'[c]) = Len(queue[c]) - 1 /\ Len(queue[c]) \in Nat
    BY <1>0, <2>1 DEF EventsInv, Shapes
  <2>3. \A d \in Clients \ {c} : queue'[d] = queue[d]
    BY <2>1 DEF EventsInv, Shapes
  <2> QED
    BY <2>1, <2>2, <2>3, Bounds DEF Fits
<1>7. ASSUME NEW c \in Clients, Disconnect(c) PROVE Fits'
  <2>1. subs' = subs \ {c} /\ queue' = [queue EXCEPT ![c] = <<>>]
    BY <1>7 DEF Disconnect, Forget
  <2>2. Cardinality(subs') <= MaxSubs
    BY <2>1, Fewer
  <2>3. \A d \in Clients : Len(queue'[d]) <= QueueSize
    BY <2>1, Bounds DEF EventsInv, Shapes, Fits
  <2> QED
    BY <2>2, <2>3 DEF Fits
<1>8. CASE RestartServer
  BY <1>8, FS_EmptySet, Bounds DEF RestartServer, Fits
<1> QED
  BY <1>1, <1>3, <1>4, <1>5, <1>6, <1>7, <1>8
     DEF EventsNext, eventVars, Record, Snapshot, NobodyThere, CloseLoop, RecordElsewhere,
         CleanElsewhere

--------------------------------------------------------------------------------
USE ReminderAssumption

LEMMA Periods == /\ Interval \in Nat \ {0} /\ Dedup \in Nat \ {0} /\ Attempts \in Nat \ {0}
                 /\ MaxRestarts \in Nat
  OBVIOUS

LEMMA NoHookIs == NoHook \in [items : SUBSET Creds, left : 0..Attempts] /\ NoHook.left = 0
  BY Periods DEF NoHook

\* A sending thread is over before the window it has opened.
OneSender == hook.left > 0 => muted > 0

RemindersInv == RemindersTypeOK /\ OneSender

LEMMA RemindersStart == RemindersInit => RemindersInv
<1> SUFFICES ASSUME RemindersInit PROVE RemindersInv
  OBVIOUS
<1>1. api \in (SUBSET Creds) \union {NoCheck}
  BY DEF RemindersInit
<1>2. hook \in [items : SUBSET Creds, left : 0..Attempts] /\ hook.left = 0
  BY NoHookIs DEF RemindersInit
<1> QED
  BY <1>1, <1>2, Periods DEF RemindersInit, RemindersInv, RemindersTypeOK, OneSender

LEMMA RemindersStep ==
  ASSUME RemindersInv, [RemindersNext]_reminderVars
  PROVE  RemindersInv'
<1> USE DEF RemindersInv, RemindersTypeOK, OneSender
<1>0. /\ hook = [items |-> hook.items, left |-> hook.left]
      /\ hook.items \subseteq Creds /\ hook.left \in 0..Attempts
  OBVIOUS
<1>1. ASSUME NEW c \in Creds, BecomeDue(c) \/ Settle(c) PROVE RemindersInv'
  BY <1>1 DEF BecomeDue, Settle
<1>2. CASE Query \/ QueryFails \/ Install \/ WakeUp
  BY <1>2, Periods DEF Query, QueryFails, Install, WakeUp, Sleep
<1>3. CASE ApiQuery \/ ApiInstall
  <2>1. api' \in (SUBSET Creds) \union {NoCheck}
    BY <1>3 DEF ApiQuery, ApiInstall
  <2>2. ApiInstall => api \in SUBSET Creds
    BY DEF ApiInstall
  <2> QED
    BY <1>3, <2>1, <2>2 DEF ApiQuery, ApiInstall
<1>4. CASE Remind
  <2>1. CASE muted > 0
    BY <1>4, <2>1, Periods DEF Remind, Sleep
  <2>2. CASE ~(muted > 0)
    <3>1. /\ hook' = [items |-> found, left |-> Attempts] /\ muted' = Dedup + 1
          /\ loop' = "wait" /\ rest' = Interval /\ found' = {}
          /\ UNCHANGED <<due, reminders, api, told, restarts>>
      BY <1>4, <2>2 DEF Remind, Sleep
    <3>2. hook' \in [items : SUBSET Creds, left : 0..Attempts]
      BY <3>1, Periods
    <3>3. muted' \in 0..Dedup + 1 /\ muted' > 0 /\ rest' \in 0..Interval
      BY <3>1, Periods
    <3> QED
      BY <3>1, <3>2, <3>3
  <2> QED
    BY <2>1, <2>2
<1>5. CASE HookFails
  <2>1. CASE hook.left = 1
    BY <1>5, <2>1, NoHookIs DEF HookFails
  <2>2. CASE hook.left # 1
    <3>1. hook' = [items |-> hook.items, left |-> hook.left - 1] /\ hook.left > 0
      BY <1>0, <1>5, <2>2 DEF HookFails
    <3>2. hook' \in [items : SUBSET Creds, left : 0..Attempts]
      BY <1>0, <3>1
    <3> QED
      BY <1>0, <1>5, <3>1, <3>2 DEF HookFails
  <2> QED
    BY <2>1, <2>2
<1>6. CASE HookDelivers
  BY <1>6, NoHookIs DEF HookDelivers
<1>7. CASE Tick
  BY <1>7, Periods DEF Tick
<1>8. CASE RestartChecker
  <2>1. restarts' \in 0..MaxRestarts
    BY <1>8, Periods DEF RestartChecker
  <2>2. api' \in (SUBSET Creds) \union {NoCheck}
    BY <1>8 DEF RestartChecker
  <2>3. hook' \in [items : SUBSET Creds, left : 0..Attempts] /\ hook'.left = 0
    BY <1>8, NoHookIs DEF RestartChecker
  <2> QED
    BY <1>8, <2>1, <2>2, <2>3, Periods DEF RestartChecker
<1>9. CASE UNCHANGED reminderVars
  BY <1>9 DEF reminderVars
<1> QED
  BY <1>1, <1>2, <1>3, <1>4, <1>5, <1>6, <1>7, <1>8, <1>9 DEF RemindersNext, Round

--------------------------------------------------------------------------------
FeedsInv == EventsInv /\ Fits /\ RemindersInv

\* Everything below follows from this one: each feed keeps its own part, and
\* leaves the other's alone.
THEOREM FeedsInvariant == FeedsSpec => []FeedsInv
<1>1. FeedsInit => FeedsInv
  BY EventsStart, FitsStart, RemindersStart DEF FeedsInit, FeedsInv
<1>2. FeedsInv /\ [FeedsNext]_feedVars => FeedsInv'
  <2>1. [FeedsNext]_feedVars => [EventsNext]_eventVars /\ [RemindersNext]_reminderVars
    BY DEF FeedsNext, feedVars
  <2> QED
    BY <2>1, EventsStep, FitsStep, RemindersStep DEF FeedsInv
<1> QED
  BY <1>1, <1>2, PTL DEF FeedsSpec

\* Types of both feeds, the limits of streams and queues included: MAX_SSE_SUBSCRIBERS
\* and the size of a queue hold however the threads, the loop and the clients race.
THEOREM FeedsTypeCorrect == FeedsSpec => []FeedsTypeOK
<1>1. FeedsInv => FeedsTypeOK
  BY DEF FeedsInv, EventsInv, Shapes, Fits, RemindersInv, FeedsTypeOK, EventsTypeOK
<1> QED
  BY <1>1, FeedsInvariant, PTL

\* As the attempts are over in a tenth of the window (Tick waits for them), no
\* reminder starts while the thread of an earlier one still tries: that one goes
\* on with what it was given, or is done, but is never replaced.
SenderGoesOn == hook.left > 0 => \/ hook' = NoHook
                                 \/ hook'.items = hook.items /\ hook'.left <= hook.left

THEOREM OneSenderAtATime == FeedsSpec => [][SenderGoesOn]_feedVars
<1>1. FeedsInv /\ [FeedsNext]_feedVars => [SenderGoesOn]_feedVars
  <2> SUFFICES ASSUME FeedsInv, [FeedsNext]_feedVars, hook.left > 0
               PROVE  \/ hook' = NoHook
                      \/ hook'.items = hook.items /\ hook'.left <= hook.left
    BY DEF SenderGoesOn
  <2>1. muted > 0 /\ hook.left \in Nat /\ hook = [items |-> hook.items, left |-> hook.left]
    BY DEF FeedsInv, RemindersInv, RemindersTypeOK, OneSender
  <2>2. CASE UNCHANGED hook
    BY <2>1, <2>2
  <2>3. CASE hook' = [hook EXCEPT !.left = @ - 1]
    <3>1. hook' = [items |-> hook.items, left |-> hook.left - 1]
      BY <2>1, <2>3
    <3> QED
      BY <2>1, <3>1
  <2>4. UNCHANGED hook \/ hook' = NoHook \/ hook' = [hook EXCEPT !.left = @ - 1]
    <3>1. \/ \E c \in Creds : BecomeDue(c) \/ Settle(c)
          \/ Query \/ QueryFails \/ Install \/ Remind \/ WakeUp \/ ApiQuery \/ ApiInstall
          \/ HookFails \/ HookDelivers \/ Tick \/ RestartChecker
          \/ UNCHANGED hook
      BY DEF FeedsNext, RemindersNext, Round, feedVars, reminderVars
    <3>2. CASE Remind
      BY <2>1, <3>2 DEF Remind
    <3> QED
      BY <3>1, <3>2
         DEF BecomeDue, Settle, Query, QueryFails, Install, WakeUp, ApiQuery, ApiInstall,
             HookFails, HookDelivers, Tick, RestartChecker
  <2>5. CASE hook' = NoHook
    BY <2>5
  <2> QED
    BY <2>2, <2>3, <2>4, <2>5
<1> QED
  BY <1>1, FeedsInvariant, PTL DEF FeedsSpec

\* Nothing on its way to a stream is an entry the audit log does not have: a
\* transaction that rolled back is never seen.
THEOREM StreamsFollowTheLog == FeedsSpec => []LoggedFirst
<1>1. EventsInv => LoggedFirst
  <2> SUFFICES ASSUME EventsInv, NEW c \in Clients, NEW e \in Waiting(c)
               PROVE  e \in logged
    BY DEF LoggedFirst
  <2>1. OnItsWay(c, e)
    BY WaitingIs DEF EventsInv
  <2>2. <<c, e>> \in Has(pending) => e \in Entries
    BY DEF EventsInv, Shapes, Has
  <2> QED
    BY <2>1, <2>2 DEF EventsInv, Logged, OnItsWay
<1> QED
  BY <1>1, FeedsInvariant, PTL DEF FeedsInv

\* Of the entries its own process has committed since it subscribed, a client that
\* is still a subscriber has been sent every one, or it is on its way, or a
\* recorder has still to hand it on.  (Other processes' entries it never sees.)
THEOREM SubscribersMissNothingOfTheirProcess == FeedsSpec => []NoSilentGap
<1>1. EventsInv => NoSilentGap
  <2> SUFFICES ASSUME EventsInv, ~closed, NEW c \in subs, NEW e \in owed[c] \intersect ours
               PROVE  e \in sent[c] \union Waiting(c) \/ Underway(c, e)
    BY DEF NoSilentGap
  <2>1. c \in Clients /\ Handed(c, e)
    BY DEF EventsInv, Shapes, NoGap
  <2>2. e \in Waiting(c) <=> OnItsWay(c, e)
    BY <2>1, WaitingIs DEF EventsInv
  <2> QED
    BY <2>1, <2>2 DEF Handed, Underway
<1> QED
  BY <1>1, FeedsInvariant, PTL DEF FeedsInv
================================================================================
