------------------------------ MODULE MCMbMaster ------------------------------
(* Instances of MbMaster for TLC. *)
EXTENDS MbMaster

\* The last node runs a newer version.
LastIsNewer == [n \in 1 .. N |-> IF n = N THEN 2 ELSE 1]
=============================================================================
