----------------------------- MODULE MCVaultGuard -----------------------------
(* Three threads: one reader leaves while another is inside and a lock() or a  *)
(* change sleeps; two sections each, so that a thread that was woken meets the *)
(* lock again; three vaults, so that a change follows an unlock and is itself  *)
(* followed.                                                                   *)
EXTENDS VaultGuard

CONSTANTS t1, t2, t3

MCThreads == {t1, t2, t3}
===============================================================================
