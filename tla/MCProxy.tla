-------------------------------- MODULE MCProxy --------------------------------
(* One permit for a chat and a stream with two attempts each: enough to take,  *)
(* lose and mint a permit and to meet it again; an embeddings call contends    *)
(* for the keys alone.  One provider of the table has a legacy key, the other  *)
(* a bound one, and one key is of a provider the table does not know.          *)
EXTENDS Proxy

CONSTANTS chat, stream, embed, kOld, kNew, kOdd, p, q, odd

MCProviderOf == [k \in Keys |-> CASE k = kOld -> p [] k = kNew -> q [] k = kOdd -> odd]
================================================================================
