-------------------------------- MODULE MCBackup --------------------------------
(* Two names, so that an import that stops has dealt with one and not with the *)
(* other.  One value: a copy that is out of date has a name more or less.      *)
EXTENDS Backup, TLC

CONSTANTS n1, n2, v1

Symmetric == Permutations(Names) \union Permutations(Values)
================================================================================
