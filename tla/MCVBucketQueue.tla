--------------------------- MODULE MCVBucketQueue ---------------------------
(* Small instances of VBucketQueue for TLC. *)
EXTENDS VBucketQueue, TLC

CONSTANTS k1, k2

MCKeys == {k1, k2}

OneKey == {k1}

KeySymmetry == Permutations(MCKeys)
=============================================================================
