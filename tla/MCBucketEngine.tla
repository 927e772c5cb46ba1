---------------------------- MODULE MCBucketEngine ----------------------------
(* Instances of BucketEngine for TLC. *)
EXTENDS BucketEngine

CONSTANTS c1, c2, w1, w2

MCConns == {c1, c2}
\* One connection administers buckets, the other is a TAP stream or deletes a bucket.
MCSends == [c \in MCConns |-> IF c = c1 THEN {"attach", "create", "delete"}
                             ELSE {"delete", "tap"}]

MCWorkers == {w1, w2}

\* Both connections share a worker, or each has its own.
MCDispatched == {[c \in MCConns |-> w1], [c \in MCConns |-> IF c = c1 THEN w1 ELSE w2]}
=============================================================================
