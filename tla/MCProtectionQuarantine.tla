------------------------ MODULE MCProtectionQuarantine ------------------------
(* Model values for the run of ProtectionQuarantine. *)
EXTENDS ProtectionQuarantine, TLC

Symmetry == Permutations(File) \cup Permutations(Entry) \cup Permutations(Thread)
===============================================================================
