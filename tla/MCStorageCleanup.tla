-------------------------- MODULE MCStorageCleanup --------------------------
(* Model values for the runs of StorageCleanup. *)
EXTENDS StorageCleanup, TLC

\* Files and plans are interchangeable; used in the runs without liveness.
Symmetry == Permutations(File) \cup Permutations(Plan)
=============================================================================
