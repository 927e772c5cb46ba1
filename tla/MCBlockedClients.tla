--------------------------- MODULE MCBlockedClients ---------------------------
(* Instances of BlockedClients for TLC. *)
EXTENDS BlockedClients, TLC

CONSTANTS c1, c2, w1, w2

\* Two connections of different workers; one of them deletes, the other sends SYNC.
Apart   == c1 :> w1 @@ c2 :> w2
Writers == c1 :> {"set", "sync_mutation", "sync_rep"} @@ c2 :> {"set", "delete"}

\* Two connections of one worker, which only send sets.
Together == c1 :> w1 @@ c2 :> w1
Setters  == c1 :> {"set"} @@ c2 :> {"set"}
=============================================================================
