----------------------------- MODULE MCVendorJobs -----------------------------
(* Model values for the run of VendorJobs. *)
EXTENDS VendorJobs
=============================================================================
