----------------------------- MODULE MCSelfUpdate -----------------------------
(* Model values for the run of SelfUpdate. *)
EXTENDS SelfUpdate
===============================================================================
