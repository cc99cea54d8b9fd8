------------------------------ MODULE Command ------------------------------
(***************************************************************************)
(* What `nemisis check`, `nemisis replay` and `nemisis map` share: the     *)
(* state of one command, the waves of worlds it runs, the verdict on a     *)
(* role, and the result that is built and published.  Check, Replay and    *)
(* CrashMap add the stages of each; Commands puts them side by side.       *)
(*                                                                         *)
(* A wave of worlds (they run in threads that share nothing) is one        *)
(* action: the run waits for all of them and reads the receipts in order.  *)
(* A world returns whatever CrashWorld lets it return.                     *)
(***************************************************************************)
EXTENDS Evidence

CONSTANTS
    Requests,       \* the commands
    ControlCommits  \* bound: commits of a delivery where a corrected control is asked for

\* What may hold a replay's contract: the file beside the capsule and the
\* project's config ("match" is an accepted contract of the capsule's digest),
\* and the packaged catalog.
Contracts == [exported : {"none", "match", "other"}, audited : BOOLEAN,
              configured : {"none", "match", "other"}]

\* live mode, an untrusted fork; a check may have a corrected tree, a replay
\* has a role and its capsule's boundary; a map has one candidate.
CheckRequests ==
    [command : {"check"}, live : BOOLEAN, fork : BOOLEAN, corrected : BOOLEAN]

ReplayRequests ==
    [command : {"replay"}, live : BOOLEAN, fork : BOOLEAN, role : Role,
     boundary : FaultBoundary, contracts : Contracts]

MapRequests == [command : {"map"}]

ASSUME RequestsAssumption ==
    /\ Requests \subseteq CheckRequests \union ReplayRequests \union MapRequests
    /\ ControlCommits \in Nat

VARIABLES
    request,    \* the command
    stage,      \* what the run does next
    role,       \* the role it does it to
    boundary,   \* the capsule's fault boundary
    evidence,   \* every receipt so far
    verdict,
    outcome     \* "none", "published", "refused" by the validators, or "aborted";
                \* a map's is its refusal or "mapped"

vars == <<request, stage, role, boundary, evidence, verdict, outcome>>

Stage == {"load", "bind", "hunt", "minimize", "confirm", "sweep", "judge", "publish", "done"}

MapOutcome == {"unmappable", "escaped", "unattributed", "mapped"}

TypeOK ==
    /\ request \in Requests
    /\ stage \in Stage
    /\ role \in Role
    /\ boundary \in FaultBoundary
    /\ IsEvidence(evidence)
    /\ verdict \in CrashVerdict
    /\ outcome \in {"none", "published", "refused", "aborted"} \union MapOutcome

Init ==
    /\ request \in Requests
    /\ CASE request.command = "check" -> stage = "bind" /\ role = "base"
         [] request.command = "replay" -> stage = "load" /\ role = request.role
         [] request.command = "map" -> stage = "bind" /\ role = "candidate"
    /\ boundary = IF request.command = "replay" THEN request.boundary ELSE "effect-commit"
    /\ evidence = NoEvidence
    /\ verdict = "EVIDENCE_INCOMPLETE"
    /\ outcome = "none"

At(command, here) == request.command = command /\ stage = here

\* The run goes on with the same role.
GoTo(next) == stage' = next /\ UNCHANGED <<role, verdict>>

\* The run has its verdict, or ends with nothing proven: it publishes what it has.
Conclude(claim) == stage' = "publish" /\ verdict' = claim /\ UNCHANGED role

GiveUp == GoTo("publish")

Receive(attempts) ==
    evidence' = [evidence EXCEPT !.attempts = Extend(@, role, attempts)]

\* The worlds of the bound.
Within(receipts) ==
    IF request.command = "check" /\ request.corrected
    THEN {r \in receipts : Len(r.ops) <= ControlCommits}
    ELSE receipts

Waves == [1..Confirmations -> Within(Attempts(boundary))]

BareWaves == [1..Confirmations -> Bare(Attempts(boundary))]

\* _execute_sweep: the census, then one kill world for each of its commits.
SweepEveryCommit ==
    \E census \in Within(NoFaultReplays) :
    \E kills \in [KillPoints(census) -> Within(SweepAttempts)] :
        /\ \A n \in KillPoints(census) : IsKilledAfter(kills[n], n)
        /\ evidence' = [evidence EXCEPT !.sweeps =
                           Extend(@, role, [census |-> census, kills |-> kills])]

\* The observation a role's worlds and sweep make, in some evidence.
ObservedIn(some, who) ==
    IF who \in DOMAIN some.sweeps
    THEN SweepObservation(some.sweeps[who].census, some.sweeps[who].kills)
    ELSE ConfirmedObservation(some.attempts[who])

\* The verdict on a role: its boundary worlds alone are compared with the census.
VerdictIn(some, who) ==
    LET swept == who \in DOMAIN some.sweeps
    IN  ClaimedFixVerdict(ObservedIn(some, who), some.attempts[who], swept,
                          IF swept THEN some.sweeps[who].census ELSE SetupFailure)

ObservedOf(who) == ObservedIn(evidence, who)
VerdictOn(who)  == VerdictIn(evidence, who)

\* _publish builds the result; its validators raise or let it be written.
Publish ==
    /\ stage = "publish"
    /\ stage' = "done"
    /\ outcome' = IF Publishable(verdict, evidence) THEN "published" ELSE "refused"
    /\ UNCHANGED <<request, role, boundary, evidence, verdict>>

\* A CrashCheckError ends the run and leaves no evidence: the same tree in two
\* roles, an unsupported target, a capsule that does not validate, a contract
\* that is not there, a write into the scratch tree (which a map tells instead).
Abort ==
    /\ stage # "done"
    /\ ~At("map", "sweep")
    /\ stage' = "done"
    /\ outcome' = "aborted"
    /\ evidence' = NoEvidence
    /\ verdict' = "EVIDENCE_INCOMPLETE"
    /\ UNCHANGED <<request, role, boundary>>

----------------------------------------------------------------------------
(* What a published result is read for.                                    *)

Published(command, claim) ==
    request.command = command /\ outcome = "published" /\ verdict = claim

PatchFailed == {"PATCH_FAILED_STILL_REPRODUCES", "PATCH_FAILED_INVARIANT_BROKEN"}

AttemptsOf(who) == {evidence.attempts[who][i] : i \in DOMAIN evidence.attempts[who]}

SweepOf(who) ==
    IF who \in DOMAIN evidence.sweeps
    THEN LET sweep == evidence.sweeps[who]
         IN  {sweep.census} \union {sweep.kills[i] : i \in DOMAIN sweep.kills}
    ELSE {}

Shows(receipt, observation) == Completed(receipt) /\ receipt.observation = observation

\* The worlds of a role whose fix is claimed: the wave at the boundary, the
\* census, and a kill after every commit of the census, all exactly once.
ExactlyOnceEverywhere(who) ==
    /\ who \in DOMAIN evidence.attempts \intersect DOMAIN evidence.sweeps
    /\ Len(evidence.attempts[who]) = Confirmations
    /\ Len(evidence.sweeps[who].kills) = Len(evidence.sweeps[who].census.ops)
    /\ \A receipt \in AttemptsOf(who) \union SweepOf(who) : Shows(receipt, "EXACTLY_ONCE")

\* The boundary worlds of a role ran the schedule its census counted.
OnOneSchedule(who) ==
    \A receipt \in AttemptsOf(who) : IsPrefix(receipt.ops, evidence.sweeps[who].census.ops)

\* A census that was wrong without a crash, and a kill world that did not complete.
CensusDecidesOverAnIncompleteSweep(who) ==
    /\ who \in DOMAIN evidence.sweeps
    /\ Completed(evidence.sweeps[who].census)
    /\ evidence.sweeps[who].census.observation # "EXACTLY_ONCE"
    /\ ~AllCompleted(evidence.sweeps[who].kills)
=============================================================================
