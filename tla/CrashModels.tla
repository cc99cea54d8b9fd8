---------------------------- MODULE CrashModels ----------------------------
(***************************************************************************)
(* The durable facts CrashCheck judges and the rules that judge them: the  *)
(* four-number snapshot of crash_models.py, what each trusted store commit *)
(* does to it (scenarios/*.py, `apply`), and the shared classification     *)
(* rules.  Both packaged scenarios are instances: the credit scenario has  *)
(* Delta = +2500 and InitialTotal = 0, the inventory scenario Delta = -2   *)
(* and InitialTotal = 10.                                                  *)
(***************************************************************************)
EXTENDS Integers, Sequences, FiniteSets

CONSTANTS
    Delta,          \* effect_delta(event): the signed change of one delivery
    InitialTotal    \* initial_total(event): the seeded subject total

\* A receipt must expect a nonzero effect (three validators refuse zero).
ASSUME ScenarioAssumption ==
    /\ Delta \in Int \ {0}
    /\ InitialTotal \in Int

----------------------------------------------------------------------------
(* Enumerations of crash_models.py.                                        *)

EffectOps  == {"effect", "effect_and_mark"}
MarkOps    == {"mark", "effect_and_mark"}
Operations == EffectOps \union MarkOps

FaultBoundary == {"effect-commit", "marker-commit"}

CrashObservation ==
    {"DUPLICATE_EFFECT", "EXACTLY_ONCE", "INVARIANT_FAILED", "NOT_OBSERVED"}

IntegrityStatus == {"VALID", "INVALID", "INCOMPLETE"}

ExecutionStatus ==
    {"COMPLETED", "SETUP_ERROR", "LAUNCH_ERROR", "IPC_ERROR", "PROTOCOL_ERROR",
     "CHECKPOINT_NOT_REACHED", "PROBE_ERROR", "KILL_ERROR", "WAIT_ERROR",
     "RESTART_ERROR", "REPLAY_ERROR", "TIMEOUT", "INTEGRITY_ERROR",
     "CLEANUP_ERROR", "UNSUPPORTED"}

----------------------------------------------------------------------------
(* The snapshot and the store commits.                                     *)

StateSnapshot == [subject : Int, effects : Nat, total : Int, marker : {0, 1}]

Seed == [subject |-> InitialTotal, effects |-> 0, total |-> 0, marker |-> 0]

\* Fault: a store that marks an event twice.
CommitsAgain(s, op) == op \in Operations

\* A second marker violates the marker table's primary key, and the atomic
\* operation rolls back and returns when the marker is there: neither commits.
StoreCommits(s, op) == op \in MarkOps => s.marker = 0

Apply(s, op) ==
    LET moved == IF op \in EffectOps THEN Delta ELSE 0
    IN  [subject |-> s.subject + moved,
         effects |-> s.effects + (IF op \in EffectOps THEN 1 ELSE 0),
         total   |-> s.total + moved,
         marker  |-> s.marker + (IF op \in MarkOps THEN 1 ELSE 0)]

\* The capsule's kill point: one durable effect, plus its marker at the
\* marker boundary.
CheckpointReached(s, boundary) ==
    /\ s.subject = InitialTotal + Delta
    /\ s.effects = 1
    /\ s.total = Delta
    /\ boundary = "effect-commit" \/ s.marker = 1

----------------------------------------------------------------------------
(* The classification rules.                                               *)

Duplicated(s, initial) ==
    s.subject - initial = 2 * Delta /\ s.effects = 2 /\ s.total = 2 * Delta

OnceAndMarked(s, initial) ==
    /\ s.subject - initial = Delta
    /\ s.effects = 1
    /\ s.total = Delta
    /\ s.marker = 1

ClassifyFinal(s, initial) ==
    IF Duplicated(s, initial) THEN "DUPLICATE_EFFECT"
    ELSE IF OnceAndMarked(s, initial) THEN "EXACTLY_ONCE"
    ELSE "INVARIANT_FAILED"

\* Without a kill, one delivery must already be exactly once and the
\* redelivery must keep it.
ClassifyDelivery(first, final, initial) ==
    IF /\ ClassifyFinal(final, initial) = "EXACTLY_ONCE"
       /\ ClassifyFinal(first, initial) # "EXACTLY_ONCE"
    THEN "INVARIANT_FAILED"
    ELSE ClassifyFinal(final, initial)

----------------------------------------------------------------------------
(* The state a store holds after e effect commits and m marker commits.    *)

StateAfter(e, m) ==
    [subject |-> InitialTotal + e * Delta, effects |-> e,
     total |-> e * Delta, marker |-> m]

\* How many commits of a kind a delivery's reported schedule holds.
Count(schedule, kind) ==
    Cardinality({i \in 1..Len(schedule) : schedule[i] \in kind})

EffectsIn(schedule) == Count(schedule, EffectOps)
MarksIn(schedule)   == Count(schedule, MarkOps)

\* The state a schedule of committed store operations makes of the seed.
After(schedule) == StateAfter(EffectsIn(schedule), MarksIn(schedule))

\* Where a delivery is killed: after its N-th commit, or at the first commit
\* (and at no later one) that reaches the boundary.
KilledAt(schedule, boundary, kill) ==
    IF kill > 0 THEN Len(schedule) = kill
    ELSE /\ CheckpointReached(After(schedule), boundary)
         /\ \A n \in 1..(Len(schedule) - 1) :
               ~CheckpointReached(After(SubSeq(schedule, 1, n)), boundary)
=============================================================================
