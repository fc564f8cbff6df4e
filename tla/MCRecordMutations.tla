-------------------------- MODULE MCRecordMutations --------------------------
(* Instances of RecordMutations for TLC. *)
EXTENDS RecordMutations, TLC

CONSTANTS p1, p2, k1, x, y

Perms == Permutations(Procs)
=============================================================================
