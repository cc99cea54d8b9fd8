--------------------------- MODULE MCCrashWorld ---------------------------
(***************************************************************************)
(* Small instances of CrashWorld.                                          *)
(***************************************************************************)
EXTENDS CrashWorld

\* The inventory scenario: a delivery reserves 2 of 10.
ReservedUnits == -2

\* The worlds of a wave, and a later kill point of a sweep, which the commits
\* before it may have passed the boundary at or not.
AttemptPlans ==
    {[kind |-> "attempt", boundary |-> "effect-commit", kill |-> n] : n \in {0, 2}}

NoFaultPlans == {[kind |-> "nofault", boundary |-> "effect-commit", kill |-> 0]}

WorldPlans == AttemptPlans \union NoFaultPlans

\* The worlds of a hunt, both boundaries, and of a sweep, both kill points.
AllPlans ==
    {[kind |-> "attempt", boundary |-> b, kill |-> 0] : b \in FaultBoundary}
    \union {[kind |-> "attempt", boundary |-> "effect-commit", kill |-> n] : n \in 1..2}
    \union NoFaultPlans
=============================================================================
