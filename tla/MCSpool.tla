------------------------------- MODULE MCSpool -------------------------------
(***************************************************************************)
(* Instances of Spool for TLC.  Frames 3 and 5 are larger than half the    *)
(* cap, so one Enqueue evicts several frames.                                *)
(***************************************************************************)
EXTENDS Spool

MCSize == [f \in 1..MaxFrame |-> IF f \in {3, 5} THEN 7 ELSE 1]
=============================================================================
