----------------------------- MODULE DurableLog -----------------------------
(***************************************************************************)
(* What gomembase's storage engines rely on when they log an operation: a  *)
(* list of the accepted lines, of which a prefix is durable.  Lines are    *)
(* kept in the order they were accepted, none is dropped from the middle,  *)
(* repeated or altered, and a durable line goes only when the log is       *)
(* truncated.  BufferedWal implements this module; Persistence is written  *)
(* on top of it.                                                           *)
(***************************************************************************)
EXTENDS Naturals, Sequences

CONSTANT Line       \* the lines a client may log

VARIABLES log,      \* the accepted lines, oldest first
          durable   \* how many of them would survive a power failure

logVars == <<log, durable>>

LogTypeOK == /\ log \in Seq(Line)
             /\ durable \in 0 .. Len(log)

LogInit == log = << >> /\ durable = 0

(* A line is accepted: the caller may tell its client that it succeeded. *)
Accept(l) == log' = Append(log, l) /\ UNCHANGED durable

(* A longer prefix becomes durable. *)
Persist == durable' \in durable .. Len(log) /\ UNCHANGED log

(* Everything is dropped on request, after a snapshot. *)
Truncate == log' = << >> /\ durable' = 0

(* Lines that were not durable yet are lost from the end, and what the     *)
(* disk holds afterwards may be known to be durable only in part.          *)
LoseTail == /\ \E n \in durable .. Len(log) :
                  /\ log' = SubSeq(log, 1, n)
                  /\ durable' \in durable .. n

LogNext == \/ \E l \in Line : Accept(l)
           \/ Persist
           \/ Truncate
           \/ LoseTail

LogSpec == LogInit /\ [][LogNext]_logVars
=============================================================================
