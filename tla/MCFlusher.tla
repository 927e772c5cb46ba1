----------------------------- MODULE MCFlusher -----------------------------
(* Instances of Flusher for TLC; every constant has its value in the cfg. *)
EXTENDS Flusher
=============================================================================
