---------------------------- MODULE MCAutoFailover ----------------------------
(* Instances of AutoFailover for TLC; every constant has its value in the cfg. *)
EXTENDS AutoFailover
=============================================================================
