------------------------------ MODULE MCTxExec ------------------------------
(* TxExec on a small instance: two keys of the key-value engine and of one *)
(* engine of collections, since the closures of the three are the same.    *)
EXTENDS TxExec

CONSTANTS k1, k2, v1, v2

Symmetry == Permutations(Key) \cup Permutations(Value)
=============================================================================
