------------------------------- MODULE MCSync -------------------------------
(* Sync with values for TLC.                                               *)
EXTENDS Sync, TLC

CONSTANTS t1, t2

MCTask == {t1, t2}
Symmetry == Permutations(MCTask)
=============================================================================
