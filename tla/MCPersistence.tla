--------------------------- MODULE MCPersistence ----------------------------
(* Persistence on a small instance: one client that interleaves with one   *)
(* EXEC at a time, and two instances, so that a snapshot can be between    *)
(* them.                                                                   *)
EXTENDS Persistence

CONSTANTS c1, i1, i2, v1

Symmetry == Permutations(Instance)

(* The properties say nothing of what comes after a cause has occurred:    *)
(* such states are checked, but not extended.                              *)
NoCauseYet == causes = {}
=============================================================================
