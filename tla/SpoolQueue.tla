----------------------------- MODULE SpoolQueue -----------------------------
(***************************************************************************)
(* What the spool promises to the rest of the agent, without its files: a  *)
(* queue that loses nothing silently.  A frame that was put stays live     *)
(* until it is released by the drain or dropped by the size cap, both from *)
(* the old end only; a restart may bring released, dropped or refused      *)
(* frames back (at-least-once delivery), and never takes a live one away.  *)
(*                                                                         *)
(* Frames are numbered in production order.                                *)
(***************************************************************************)
EXTENDS Integers

CONSTANT MaxFrame    \* bound: how many frames are produced

ASSUME SpoolQueueAssumption == MaxFrame \in Nat

VARIABLES
  produced,   \* how many frames the producers made so far
  live,       \* the undelivered backlog
  released,   \* frames the drain was entitled to discard
  dropped     \* frames destroyed by the cap

qvars == <<produced, live, released, dropped>>

\* S is made of the oldest frames of q.
OldestOf(S, q) == S \subseteq q /\ \A f \in S, g \in q \ S : f < g

QInit == produced = 0 /\ live = {} /\ released = {} /\ dropped = {}

\* A frame is produced and buffered, which may push the oldest ones out ...
Put ==
  \E S \in SUBSET live :
    /\ OldestOf(S, live)
    /\ produced < MaxFrame
    /\ produced' = produced + 1
    /\ live' = (live \ S) \cup {produced + 1}
    /\ dropped' = dropped \cup S
    /\ UNCHANGED released

\* ... or it is produced and refused.
Refuse ==
  /\ produced < MaxFrame
  /\ produced' = produced + 1
  /\ UNCHANGED <<live, released, dropped>>

\* The cap destroys the oldest frames, never the newest one.
Drop ==
  \E S \in SUBSET live :
    /\ OldestOf(S, live)
    /\ S # live
    /\ live' = live \ S
    /\ dropped' = dropped \cup S
    /\ UNCHANGED <<produced, released>>

\* The drain names frames it was handed, and the live ones among them go.
Release ==
  \E S \in SUBSET (1..produced) :
    /\ OldestOf(S \cap live, live)
    /\ live' = live \ S
    /\ released' = released \cup S
    /\ UNCHANGED <<produced, dropped>>

\* The process dies, possibly while it accepts one more frame.
Reopen ==
  /\ produced' \in {produced, produced + 1}
  /\ produced' <= MaxFrame
  /\ \E back \in SUBSET (1..produced') : live' = live \cup back
  /\ UNCHANGED <<released, dropped>>

QNext == Put \/ Refuse \/ Drop \/ Release \/ Reopen

QSpec == QInit /\ [][QNext]_qvars

\* Every step of the queue keeps each live frame live, released or dropped.
NoSilentLoss == [][live \subseteq live' \cup released' \cup dropped']_qvars
=============================================================================
