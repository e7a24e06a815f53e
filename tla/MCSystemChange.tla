--------------------------- MODULE MCSystemChange ---------------------------
(* Model values for the runs of SystemChange. *)
EXTENDS SystemChange, TLC

Symmetry == Permutations(Plan) \cup Permutations(Value)
=============================================================================
