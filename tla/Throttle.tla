-------------------------------- MODULE Throttle --------------------------------
(* What a limit of so many requests per window promises to whoever is behind   *)
(* it: however the requests race for the limiter, no stretch of Span seconds   *)
(* of one process's life sees more than Limit of them.                         *)
EXTENDS Integers, FiniteSets

CONSTANTS Limit, Span

VARIABLES clock,   \* seconds
          granted  \* the requests let in of late: of each at least its time

Recent == {g \in granted : g.time > clock - Span}

Init == clock = 0 /\ granted = {}

Tick == clock' = clock + 1 /\ UNCHANGED granted

Grant == /\ Cardinality(Recent) < Limit
         /\ \E g \in granted' \ Recent : /\ g.time = clock
                                        /\ granted' = Recent \union {g}
         /\ UNCHANGED clock

\* The limiter lives in memory: a new process starts counting again.
Restart == granted' = {} /\ UNCHANGED clock

Next == Tick \/ Grant \/ Restart

Spec == Init /\ [][Next]_<<clock, granted>>
================================================================================
