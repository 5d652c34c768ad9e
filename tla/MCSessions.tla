------------------------------ MODULE MCSessions ------------------------------
(* Two request threads beside the idle checker: three parties can revoke.      *)
EXTENDS Sessions

CONSTANTS u1, u2, daemon, s1, s2
================================================================================
