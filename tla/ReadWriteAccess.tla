---------------------------- MODULE ReadWriteAccess ----------------------------
(* What keyhub.runtime._RWLock promises (runtime.py:34-38): any number of      *)
(* readers at a time, or one writer alone.  Threads waiting for their turn are *)
(* not visible here; only who is inside a section is.                          *)
CONSTANT Threads

VARIABLES inRead,   \* the threads inside a `with lock.read()` section
          inWrite   \* the threads inside a `with lock.write()` section

vars == <<inRead, inWrite>>

Init == inRead = {} /\ inWrite = {}

EnterRead(t) ==
  /\ t \notin inRead
  /\ inWrite = {}
  /\ inRead' = inRead \union {t}
  /\ UNCHANGED inWrite

EnterWrite(t) ==
  /\ inRead = {}
  /\ inWrite = {}
  /\ inWrite' = {t}
  /\ UNCHANGED inRead

LeaveRead(t) ==
  /\ t \in inRead
  /\ inRead' = inRead \ {t}
  /\ UNCHANGED inWrite

LeaveWrite(t) ==
  /\ t \in inWrite
  /\ inWrite' = inWrite \ {t}
  /\ UNCHANGED inRead

Next == \E t \in Threads :
          EnterRead(t) \/ EnterWrite(t) \/ LeaveRead(t) \/ LeaveWrite(t)

Spec == Init /\ [][Next]_vars
================================================================================
