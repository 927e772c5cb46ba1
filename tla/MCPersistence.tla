---------------------------- MODULE MCPersistence ----------------------------
(* Instances of Persistence for TLC. *)
EXTENDS Persistence, TLC

KeySymmetry == Permutations(Keys)

\* The second mutation's value expires.
SecondExpires == {2}
=============================================================================
