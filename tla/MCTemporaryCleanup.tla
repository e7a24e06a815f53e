------------------------- MODULE MCTemporaryCleanup -------------------------
(* Model values for the runs of TemporaryCleanup. *)
EXTENDS TemporaryCleanup
=============================================================================
