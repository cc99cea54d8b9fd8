------------------------------ MODULE Evidence ------------------------------
(***************************************************************************)
(* The receipts CrashCheck judges and the rules that judge them: the       *)
(* observation of a confirmation wave and of a commit sweep, the verdict,  *)
(* and the validators of CrashCheckResult, which recompute what the        *)
(* orchestrator claims before anything is published.                       *)
(*                                                                         *)
(* A receipt keeps what those rules read.  Identities (database ids,       *)
(* nonces, digests of fresh random values) are distinct by construction.   *)
(***************************************************************************)
EXTENDS CrashModels

CONSTANTS
    Confirmations,  \* REQUIRED_CONFIRMATIONS: boundary worlds of a role (5)
    MaxCommits,     \* bound: store commits of one delivery
    Failures        \* the ways a world may end without evidence

ASSUME EvidenceAssumption ==
    /\ Confirmations \in Nat \ {0}
    /\ MaxCommits \in Nat
    /\ Failures \subseteq ExecutionStatus \ {"COMPLETED"}

Role == {"base", "candidate", "corrected"}

\* What one world's receipt tells; ops is the first worker's schedule.
Receipt == [status : ExecutionStatus, integrity : IntegrityStatus,
            observation : CrashObservation, ops : Seq(Operations)]

Sweep == [census : Receipt, kills : Seq(Receipt)]

\* The code's enum has UNSUPPORTED_TARGET too; no result is ever given it.
CrashVerdict ==
    {"BUG_REPRODUCED", "PATCH_FAILED_STILL_REPRODUCES", "PATCH_FAILED_INVARIANT_BROKEN",
     "FIX_PROVEN_FOR_THIS_CAPSULE", "EVIDENCE_INCOMPLETE"}

Conclusive == CrashVerdict \ {"EVIDENCE_INCOMPLETE"}

\* Fault: a world judged before its cleanup failed counts as one that completed.
CompletedIfObserved(receipt) == receipt.observation # "NOT_OBSERVED"

Completed(receipt) == receipt.status = "COMPLETED" /\ receipt.integrity = "VALID"

AllCompleted(receipts) == \A i \in DOMAIN receipts : Completed(receipts[i])

Saw(receipts) == {receipts[i].observation : i \in DOMAIN receipts}

----------------------------------------------------------------------------
(* What a world may return: the promise of CrashWorld, by schedules.       *)

\* Legal schedules of one delivery, or of two: a second marker never commits.
Schedules(n) ==
    {s \in UNION {[1..k -> Operations] : k \in 0..n} : MarksIn(s) <= 1}

Deliveries ==
    {d \in Schedules(MaxCommits) \X Schedules(MaxCommits) : MarksIn(d[1] \o d[2]) <= 1}

ReceiptOf(observation, ops) ==
    [status |-> "COMPLETED", integrity |-> "VALID", observation |-> observation, ops |-> ops]

\* Only a world judged before its cleanup failed still tells an observation.
FailedReceipts ==
    {r \in [status : Failures, integrity : {"INVALID", "INCOMPLETE"},
            observation : CrashObservation, ops : {<<>>}] :
        /\ r.integrity = "INVALID" <=> r.status = "INTEGRITY_ERROR"
        /\ r.observation # "NOT_OBSERVED" => r.status = "CLEANUP_ERROR"}

\* _failed_attempt and _failed_census: the orchestration itself failed.
SetupFailure ==
    [status |-> "SETUP_ERROR", integrity |-> "INCOMPLETE", observation |-> "NOT_OBSERVED",
     ops |-> <<>>]

CompletedAttempts(boundary) ==
    {ReceiptOf(ClassifyFinal(After(d[1] \o d[2]), InitialTotal), d[1]) :
        d \in {e \in Deliveries : KilledAt(e[1], boundary, 0)}}

EffectAttempts == FailedReceipts \union CompletedAttempts("effect-commit")
MarkerAttempts == FailedReceipts \union CompletedAttempts("marker-commit")

\* An attempt killed at the capsule's boundary.
Attempts(boundary) == IF boundary = "effect-commit" THEN EffectAttempts ELSE MarkerAttempts

\* An attempt killed after a commit, whichever.
SweepAttempts ==
    FailedReceipts \union
    {ReceiptOf(ClassifyFinal(After(d[1] \o d[2]), InitialTotal), d[1]) : d \in Deliveries}

IsKilledAfter(attempt, kill) == Completed(attempt) => Len(attempt.ops) = kill

\* A no-fault world; without a commit its receipt is refused and replaced.
NoFaultReplays ==
    FailedReceipts \union
    {ReceiptOf(ClassifyDelivery(After(d[1]), After(d[1] \o d[2]), InitialTotal), d[1]) :
        d \in {e \in Deliveries : e[1] # <<>>}}

\* No rule reads the schedule of a base world.
Bare(receipts) == {[r EXCEPT !.ops = <<>>] : r \in receipts}

----------------------------------------------------------------------------
(* The observation of a wave and of a sweep.                               *)

\* _confirmed_observation: every world of the wave completed with one and
\* the same observation.
ConfirmedObservation(attempts) ==
    IF Len(attempts) = Confirmations /\ Cardinality(Saw(attempts)) = 1 /\ AllCompleted(attempts)
    THEN attempts[1].observation
    ELSE "NOT_OBSERVED"

\* Fault: the census speaks for the kill worlds.
CensusSpeaksForTheSweep(census, kills) ==
    IF Completed(census) /\ kills # <<>> THEN census.observation ELSE "NOT_OBSERVED"

\* A completed census that is wrong without a crash decides alone; otherwise
\* every kill world must have completed, and the worst of them decides.
SweepObservation(census, kills) ==
    IF Completed(census) /\ census.observation \in {"DUPLICATE_EFFECT", "INVARIANT_FAILED"}
    THEN census.observation
    ELSE IF ~Completed(census) \/ kills = <<>> \/ ~AllCompleted(kills) THEN "NOT_OBSERVED"
    ELSE IF "DUPLICATE_EFFECT" \in Saw(kills) THEN "DUPLICATE_EFFECT"
    ELSE IF "INVARIANT_FAILED" \in Saw(kills) THEN "INVARIANT_FAILED"
    ELSE IF Saw(kills) = {"EXACTLY_ONCE"} /\ census.observation = "EXACTLY_ONCE"
    THEN "EXACTLY_ONCE"
    ELSE "NOT_OBSERVED"

\* The worlds a sweep kills: one after each commit the census observed.
KillPoints(census) == IF Completed(census) THEN 1..Len(census.ops) ELSE {}

IsPrefix(own, whole) == Len(own) <= Len(whole) /\ own = SubSeq(whole, 1, Len(own))

Splits(receipt, census) == receipt.status = "COMPLETED" /\ ~IsPrefix(receipt.ops, census.ops)

\* Fault: no kill world is compared with the census.
NeverSplit(attempts, census) == FALSE /\ attempts = <<census>>

\* _schedule_split: a boundary world committed what the census did not.
ScheduleSplit(attempts, census) ==
    /\ census.status = "COMPLETED"
    /\ \E i \in DOMAIN attempts : Splits(attempts[i], census)

\* Fault: the verdict is the observation's name.
VerdictIsTheObservation(observation, attempts, swept, census) ==
    IF swept /\ ScheduleSplit(attempts, census) THEN "EVIDENCE_INCOMPLETE" ELSE observation

\* _claimed_fix_verdict: the verdict on a candidate or corrected role, from
\* its boundary worlds, its sweep (if any) and the observation they make.
ClaimedFixVerdict(observation, attempts, swept, census) ==
    IF swept /\ ScheduleSplit(attempts, census) THEN "EVIDENCE_INCOMPLETE"
    ELSE IF observation = "DUPLICATE_EFFECT" THEN "PATCH_FAILED_STILL_REPRODUCES"
    ELSE IF observation = "INVARIANT_FAILED" THEN "PATCH_FAILED_INVARIANT_BROKEN"
    ELSE IF observation = "EXACTLY_ONCE" /\ swept THEN "FIX_PROVEN_FOR_THIS_CAPSULE"
    ELSE "EVIDENCE_INCOMPLETE"

----------------------------------------------------------------------------
(* The evidence of one command and the validators of its result.           *)

Extend(f, key, value) ==
    [k \in DOMAIN f \union {key} |-> IF k = key THEN value ELSE f[k]]

\* hunt and control are empty or hold two receipts; attempts and sweeps are
\* indexed by the roles that have any; unresolved is the role whose target
\* could not be bound, or "none".
IsEvidence(evidence) ==
    /\ DOMAIN evidence = {"hunt", "control", "attempts", "sweeps", "unresolved"}
    /\ evidence.hunt \in Seq(Receipt) /\ evidence.control \in Seq(Receipt)
    /\ DOMAIN evidence.attempts \union DOMAIN evidence.sweeps \subseteq Role
    /\ \A role \in DOMAIN evidence.attempts : evidence.attempts[role] \in Seq(Receipt)
    /\ \A role \in DOMAIN evidence.sweeps : evidence.sweeps[role] \in Sweep
    /\ evidence.unresolved \in Role \union {"none"}

NoEvidence ==
    [hunt |-> <<>>, control |-> <<>>, attempts |-> <<>>, sweeps |-> <<>>, unresolved |-> "none"]

Reproduced(receipt) == Completed(receipt) /\ receipt.observation = "DUPLICATE_EFFECT"

\* _hunt_is_conclusive: both hypotheses ran, and one of them is selected.
HuntIsConclusive(hunt) ==
    Len(hunt) = 2 /\ AllCompleted(hunt) /\ \E i \in 1..2 : Reproduced(hunt[i])

\* The first reproducing hypothesis names the capsule's boundary.
SelectedBoundary(hunt) ==
    IF Reproduced(hunt[2]) /\ ~Reproduced(hunt[1]) THEN "marker-commit" ELSE "effect-commit"

\* Fault: a control that ran at all is taken for the absence of the bug.
ControlRan(control) == Len(control) = 2 /\ AllCompleted(control)

\* Without the kill, both worlds must be exactly once.
FaultIsNecessary(control) ==
    Len(control) = 2 /\ AllCompleted(control) /\ Saw(control) = {"EXACTLY_ONCE"}

\* Fault: the worlds of a sweep are not counted.
BoundaryWorldsCompleted(evidence) ==
    \A role \in DOMAIN evidence.attempts : AllCompleted(evidence.attempts[role])

\* all_worlds: the boundary worlds, the censuses and the kill worlds.
WorldsCompleted(evidence) ==
    /\ \A role \in DOMAIN evidence.attempts : AllCompleted(evidence.attempts[role])
    /\ \A role \in DOMAIN evidence.sweeps :
          Completed(evidence.sweeps[role].census) /\ AllCompleted(evidence.sweeps[role].kills)

\* effective_observation: the boundary worlds decide unless they are exactly
\* once; then the sweep must agree.
EffectiveObservation(evidence, role) ==
    LET seen == Saw(evidence.attempts[role])
    IN  IF Cardinality(seen) # 1 THEN "NOT_OBSERVED"
        ELSE IF role = "base" \/ seen # {"EXACTLY_ONCE"}
        THEN evidence.attempts[role][1].observation
        ELSE IF role \notin DOMAIN evidence.sweeps THEN "NOT_OBSERVED"
        ELSE SweepObservation(evidence.sweeps[role].census, evidence.sweeps[role].kills)

\* What a conclusive verdict says of the role it judges.
Claim(verdict) ==
    CASE verdict = "PATCH_FAILED_STILL_REPRODUCES" -> "DUPLICATE_EFFECT"
      [] verdict = "PATCH_FAILED_INVARIANT_BROKEN" -> "INVARIANT_FAILED"
      [] OTHER -> "EXACTLY_ONCE"

\* _validate_conclusive_verdict.
ObservationsSupport(verdict, evidence) ==
    LET roles == DOMAIN evidence.attempts
        Seen(role) == EffectiveObservation(evidence, role)
    IN  /\ \A role \in roles : Len(evidence.attempts[role]) = Confirmations
        /\ IF verdict = "BUG_REPRODUCED"
           THEN roles = {"base"} /\ Seen("base") = "DUPLICATE_EFFECT"
           ELSE \/ /\ roles \in {{"candidate"}, {"corrected"}}
                   /\ \A role \in roles : Seen(role) = Claim(verdict)
                \/ /\ {"base", "candidate"} \subseteq roles
                   /\ Seen("base") = "DUPLICATE_EFFECT"
                   /\ Seen("candidate") = Claim(verdict)
                   /\ "corrected" \in roles => Seen("corrected") = "EXACTLY_ONCE"

\* The conclusive branch of CrashCheckResult's validator.
VerdictIsCoherent(verdict, evidence) ==
    /\ WorldsCompleted(evidence)
    /\ IF evidence.hunt # <<>>
       THEN HuntIsConclusive(evidence.hunt) /\ FaultIsNecessary(evidence.control)
       ELSE Cardinality(DOMAIN evidence.attempts) = 1
    /\ ObservationsSupport(verdict, evidence)

\* _validate_anchor_resolution_context.
ResolutionIsCoherent(verdict, evidence) ==
    LET prior == CASE evidence.unresolved = "candidate" -> {"base"}
                   [] evidence.unresolved = "corrected" -> {"base", "candidate"}
                   [] OTHER -> {}
        roles == DOMAIN evidence.attempts
    IN  IF roles = {}
        THEN /\ evidence.unresolved # "none"
             /\ evidence.hunt = <<>> /\ evidence.control = <<>> /\ evidence.sweeps = <<>>
             /\ verdict = "EVIDENCE_INCOMPLETE"
        ELSE evidence.unresolved # "none" =>
                 /\ verdict = "EVIDENCE_INCOMPLETE"
                 /\ roles = prior
                 /\ Len(evidence.hunt) = 2 /\ Len(evidence.control) = 2
                 /\ \A role \in prior : /\ Len(evidence.attempts[role]) = Confirmations
                                         /\ AllCompleted(evidence.attempts[role])

\* A hunt is about the base's worlds; a control is about the hunt's witness.
LinksAreCoherent(evidence) ==
    /\ evidence.hunt # <<>> /\ DOMAIN evidence.attempts # {} =>
          "base" \in DOMAIN evidence.attempts
    /\ evidence.control # <<>> =>
          Len(evidence.hunt) = 2 /\ \E i \in 1..2 : Reproduced(evidence.hunt[i])

\* A sweep is of a claimed fix with boundary worlds, and kills after each
\* commit its census observed.
SweepsAreCoherent(evidence) ==
    \A role \in DOMAIN evidence.sweeps :
        /\ role \in DOMAIN evidence.attempts \ {"base"}
        /\ DOMAIN evidence.sweeps[role].kills = KillPoints(evidence.sweeps[role].census)

\* CrashCheckResult accepts the result _publish builds.
Publishable(verdict, evidence) ==
    /\ ResolutionIsCoherent(verdict, evidence)
    /\ LinksAreCoherent(evidence)
    /\ SweepsAreCoherent(evidence)
    /\ verdict \in Conclusive => VerdictIsCoherent(verdict, evidence)
=============================================================================
