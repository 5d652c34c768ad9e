------------------------------ MODULE MCAdmission ------------------------------
(* Three requests at once, so that two can be behind a third; a window longer  *)
(* than the lag, and time enough for it to slide past its first requests.      *)
EXTENDS Admission

CONSTANTS t1, t2, t3

Symmetric == Permutations(Threads)
================================================================================
