---------------------------- MODULE MCLifecycle ----------------------------
(* Instances of Lifecycle for TLC.  The shells are interchangeable. *)
EXTENDS Lifecycle, TLC

Symmetry == Permutations(Shell)

MCKinds == <<{"install", "legacy"}, {"install"}>>

\* The host went down while an installation was being recovered, for the last
\* time it may be.
MCPast ==
  {[journal |-> [Journal("install") EXCEPT !.generation = 5, !.sequence = 5,
                   !.state = "recovering", !.attempts = MaxAttempts],
    counter |-> 5]}

\* What the scripts ask for (applying, checking, recovering, recovery_required and
\* the closing records), and what only a transaction's contract has: the phases
\* before its changes, and a refusal.  Later steps of one phase, which no script
\* asks for either, are left out.  The theorems hold for every Ask.
MCAsk ==
  {Plain(s) : s \in {"staged", "verified", "applying", "checking", "recovering",
                     "recovery_required"}}
  \cup {Closing("planned", "refused"), Closing("committed", "committed"),
        Closing("recovered", "recovered"), Closing("recovery_required", "manual")}
=============================================================================
