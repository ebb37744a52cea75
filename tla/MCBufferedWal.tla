--------------------------- MODULE MCBufferedWal ----------------------------
(* BufferedWal on a small instance: two different lines are enough to see  *)
(* one lost, repeated or out of order.                                     *)
EXTENDS BufferedWal

CONSTANTS l1, l2

MCLine == {l1, l2}
=============================================================================
