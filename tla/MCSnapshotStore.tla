-------------------------- MODULE MCSnapshotStore --------------------------
(***************************************************************************)
(* Instances of SnapshotStore for TLC.                                     *)
(***************************************************************************)
EXTENDS SnapshotStore, TLC

\* Recoveries are interchangeable, and so are executions.
Symmetry == Permutations(Exec) \cup Permutations(Recoverer)
============================================================================
