--------------------------- MODULE MCCollections ---------------------------
(* Collections on a small instance: three keys, so that a STORE command    *)
(* can have two sources besides its destination; two values; skip lists of *)
(* three nodes and three levels; three scores, for 0, the greatest finite  *)
(* float64 and +Inf, which form a set that sums do not leave.              *)
EXTENDS Collections, TLC

CONSTANTS k1, k2, k3, z1, v1, v2

MCScore == {0, 1, 2}
MCSum == [s \in MCScore \X MCScore |->
             IF s[1] = 0 THEN s[2] ELSE IF s[2] = 0 THEN s[1] ELSE 2]

Symmetry == Permutations(Key) \cup Permutations(Value)

(* A list that an LSET has set apart from its log is not followed further, *)
(* nor is a sorted set with a NaN.                                         *)
NotMisled == ~misled
=============================================================================
