---------------------------- MODULE MCSnapshotStore ----------------------------
(* SnapshotStore on two runs that share a directory.                       *)
EXTENDS SnapshotStore, TLC

RunSymmetry == Permutations(Runs)
=============================================================================
