----------------------------- MODULE MCRulePacks -----------------------------
(* Model values for the run of RulePacks. *)
EXTENDS RulePacks, TLC

Symmetry == Permutations(Thread)
==============================================================================
