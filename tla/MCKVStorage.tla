---------------------------- MODULE MCKVStorage -----------------------------
(* KVStorage on a small instance: one-bit integers wrap at once, and seconds *)
(* of two ticks lose half of the expiry times.                             *)
EXTENDS KVStorage

CONSTANTS k1, k2, r1

Symmetry == Permutations(Key)
=============================================================================
