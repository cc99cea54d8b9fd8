----------------------------- MODULE MCCommands -----------------------------
(***************************************************************************)
(* Small instances of Commands.                                            *)
(***************************************************************************)
EXTENDS Commands

\* The inventory scenario: a delivery reserves 2 of 10.
ReservedUnits == -2

\* The failures the rules tell apart: one that sends a candidate to the sweep
\* to be described, and one that may keep the observation of a judged world
\* (without it, it stands for every other failure).
WorldFailures == {"CHECKPOINT_NOT_REACHED", "CLEANUP_ERROR"}

CheckOf(live, fork, corrected) ==
    [command |-> "check", live |-> live, fork |-> fork, corrected |-> corrected]

Plain == CheckOf(FALSE, FALSE, FALSE)

SomeChecks ==
    {Plain, CheckOf(TRUE, FALSE, FALSE), CheckOf(FALSE, TRUE, FALSE), CheckOf(FALSE, FALSE, TRUE)}

Exported == [exported |-> "match", audited |-> FALSE, configured |-> "none"]

\* A role at each boundary, a blocked run of each kind, and the ways a
\* contract is found or not.
SomeReplays ==
    {r \in ReplayRequests : ~r.live /\ ~r.fork /\ r.contracts = Exported}
    \union {r \in ReplayRequests : /\ r.live \/ r.fork
                                   /\ r.role # "corrected" /\ r.boundary = "effect-commit"
                                   /\ r.contracts = Exported}
    \union {r \in ReplayRequests : /\ ~r.live /\ ~r.fork
                                   /\ r.role = "base" /\ r.boundary = "marker-commit"}

EveryCommand == SomeChecks \union SomeReplays \union MapRequests

OneCheck == {Plain}
=============================================================================
