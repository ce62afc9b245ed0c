------------------------------ MODULE MCSyncTree ------------------------------
(* SyncTree on small instances: two web UI requests and one tablet.         *)
EXTENDS SyncTree, TLC

CONSTANTS u1, u2, t1, d1, d2

MCUI == {u1, u2}
MCTablet == {t1}
MCDoc == {d1, d2}
Symmetry == Permutations(MCUI) \cup Permutations(MCDoc)
=============================================================================
