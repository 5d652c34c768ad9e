-------------------------------- MODULE MCFeeds --------------------------------
(* Two threads record, the third client finds the streams taken; the           *)
(* deduplication window is longer than the interval of the checks, as the      *)
(* settings allow.                                                             *)
EXTENDS Feeds

CONSTANTS r1, r2, s1, s2, s3, d1, d2
================================================================================
