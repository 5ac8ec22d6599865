----------------------------- MODULE MCSyncLock -----------------------------
(* The lock under TLC: three runs, interchangeable. *)
EXTENDS SyncLock, TLC

CONSTANTS r1, r2, r3

Symmetry == Permutations(Run)

=============================================================================
