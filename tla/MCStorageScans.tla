--------------------------- MODULE MCStorageScans ---------------------------
(***************************************************************************)
(* StorageScans on a small instance: every root is authorized for one and  *)
(* the same feature; scans of the others must not start from it.           *)
(***************************************************************************)
EXTENDS StorageScans

CONSTANT Rooted  \* that feature

MCFeature == [r \in Root |-> Rooted]
=============================================================================
