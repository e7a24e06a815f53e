-------------------------- MODULE MCBuildArtifacts --------------------------
(* Model values for the runs of BuildArtifacts. *)
EXTENDS BuildArtifacts
=============================================================================
