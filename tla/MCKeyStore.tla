------------------------------ MODULE MCKeyStore ------------------------------
(* Small instances of KeyStore: two threads of a server, with them a thread of  *)
(* a second process, or one thread in each of two.                             *)
EXTENDS KeyStore, TLC

CONSTANTS t1, t2, t3, server, cli, p1, p2, v1, v2, a

ServerThreads == {t1, t2}
AllThreads    == {t1, t2, t3}
OneProcess    == [t \in ServerThreads |-> server]
TwoProcesses  == t1 :> server @@ t2 :> server @@ t3 :> cli
OneEach       == t1 :> server @@ t3 :> cli
Symmetry == Permutations(ServerThreads) \union Permutations({p1, p2})
            \union Permutations({v1, v2})
================================================================================
