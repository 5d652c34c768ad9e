------------------------------ MODULE MCBalancer ------------------------------
(* All keys are the first provider's, so that picks in the other's scope are   *)
(* refused; when there are two, the first is preferred.                        *)
EXTENDS Balancer

CONSTANTS c1, c2, k1, k2, p1, p2

MCProviderOf == [k \in Keys |-> p1]
MCPrio       == [k \in Keys |-> IF k = k1 THEN 1 ELSE 0]
================================================================================
