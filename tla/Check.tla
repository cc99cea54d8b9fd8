------------------------------- MODULE Check -------------------------------
(***************************************************************************)
(* One run of `nemisis check` (crashcheck.check): hunt the crash on the    *)
(* base at both boundaries, require that the bug needs the kill, confirm   *)
(* the witness, and only then bind the candidate, confirm it at the frozen *)
(* boundary, sweep a kill over its every commit, do the same for the       *)
(* corrected control, and judge.                                           *)
(***************************************************************************)
EXTENDS Command

Turn(next) == stage' = "bind" /\ role' = next /\ UNCHANGED verdict

AfterCandidate ==
    IF request.corrected THEN Turn("corrected") ELSE GoTo("judge")

\* The role's target is bound to its one function.
Bind ==
    /\ At("check", "bind")
    /\ role = "base" => ~request.live
    /\ role = "candidate" => ~request.fork
    /\ GoTo(IF role = "base" THEN "hunt" ELSE "confirm")
    /\ UNCHANGED <<request, boundary, evidence, outcome>>

\* The target is missing or ambiguous: published without a sweep.
LeaveUnresolved ==
    /\ At("check", "bind")
    /\ role = "candidate" => ~request.fork
    /\ evidence' = [evidence EXCEPT !.unresolved = role, !.sweeps = <<>>]
    /\ GiveUp
    /\ UNCHANGED <<request, boundary, outcome>>

\* Live execution is not substituted by local worlds.
BlockLive ==
    /\ At("check", "bind") /\ role = "base" /\ request.live
    /\ Receive(<<[SetupFailure EXCEPT !.status = "UNSUPPORTED"]>>)
    /\ GiveUp
    /\ UNCHANGED <<request, boundary, outcome>>

\* Candidate code of an untrusted fork is never materialized.
BlockFork ==
    /\ At("check", "bind") /\ role = "candidate" /\ request.fork
    /\ evidence' = [evidence EXCEPT !.attempts["base"] = Append(@, SetupFailure)]
    /\ GiveUp
    /\ UNCHANGED <<request, boundary, outcome>>

Hunt ==
    /\ At("check", "hunt")
    /\ \E atEffect \in Bare(Attempts("effect-commit")),
          atMarker \in Bare(Attempts("marker-commit")) :
          LET hunt == <<atEffect, atMarker>>
          IN  /\ boundary' = SelectedBoundary(hunt)
              /\ IF HuntIsConclusive(hunt)
                 THEN evidence' = [evidence EXCEPT !.hunt = hunt] /\ GoTo("minimize")
                 ELSE /\ evidence' = [evidence EXCEPT !.hunt = hunt,
                                      !.attempts = Extend(@, role, <<SetupFailure>>)]
                      /\ GiveUp
    /\ UNCHANGED <<request, outcome>>

\* The sole fault is deleted, twice.
Minimize ==
    /\ At("check", "minimize")
    /\ \E control \in [1..2 -> Bare(NoFaultReplays)] :
          IF FaultIsNecessary(control)
          THEN evidence' = [evidence EXCEPT !.control = control] /\ GoTo("confirm")
          ELSE /\ evidence' = [evidence EXCEPT !.control = control,
                               !.attempts = Extend(@, role, <<SetupFailure>>)]
               /\ GiveUp
    /\ UNCHANGED <<request, boundary, outcome>>

ConfirmBase ==
    /\ At("check", "confirm") /\ role = "base"
    /\ \E attempts \in BareWaves :
          /\ Receive(attempts)
          /\ IF ConfirmedObservation(attempts) = "DUPLICATE_EFFECT"
             THEN Turn("candidate") ELSE GiveUp
    /\ UNCHANGED <<request, boundary, outcome>>

NeverReached(attempts) == \A i \in DOMAIN attempts : attempts[i].status = "CHECKPOINT_NOT_REACHED"

\* A candidate that never reached the effect is still swept, to be described.
ConfirmCandidate ==
    /\ At("check", "confirm") /\ role = "candidate"
    /\ \E attempts \in Waves :
          /\ Receive(attempts)
          /\ CASE ConfirmedObservation(attempts) = "EXACTLY_ONCE" -> GoTo("sweep")
               [] ConfirmedObservation(attempts) = "NOT_OBSERVED" ->
                      IF NeverReached(attempts) THEN GoTo("sweep") ELSE GiveUp
               [] OTHER -> AfterCandidate
    /\ UNCHANGED <<request, boundary, outcome>>

ConfirmCorrected ==
    /\ At("check", "confirm") /\ role = "corrected"
    /\ \E attempts \in Waves :
          /\ Receive(attempts)
          /\ GoTo(IF ConfirmedObservation(attempts) = "EXACTLY_ONCE" THEN "sweep" ELSE "judge")
    /\ UNCHANGED <<request, boundary, outcome>>

RunSweep ==
    /\ At("check", "sweep")
    /\ SweepEveryCommit
    /\ IF role = "corrected" THEN GoTo("judge")
       ELSE IF NeverReached(evidence.attempts["candidate"]) THEN GiveUp
       ELSE AfterCandidate
    /\ UNCHANGED <<request, boundary, outcome>>

\* Fault: the corrected control is run but not asked.
JudgeCandidateAlone ==
    /\ At("check", "judge")
    /\ Conclude(VerdictOn("candidate"))
    /\ UNCHANGED <<request, boundary, evidence, outcome>>

\* A corrected control that is not exactly once takes the verdict away.
Judge ==
    /\ At("check", "judge")
    /\ Conclude(IF request.corrected /\ ObservedOf("corrected") # "EXACTLY_ONCE"
                THEN "EVIDENCE_INCOMPLETE"
                ELSE VerdictOn("candidate"))
    /\ UNCHANGED <<request, boundary, evidence, outcome>>

CheckNext ==
    \/ Bind \/ LeaveUnresolved \/ BlockLive \/ BlockFork \/ Hunt \/ Minimize
    \/ ConfirmBase \/ ConfirmCandidate \/ ConfirmCorrected \/ RunSweep \/ Judge
----------------------------------------------------------------------------
(* What a published verdict promises.                                      *)

\* The base duplicated at the capsule's boundary in every confirmation, and
\* never without the kill.
WitnessIsConfirmed ==
    /\ Len(evidence.attempts["base"]) = Confirmations
    /\ \A receipt \in AttemptsOf("base") : Reproduced(receipt)
    /\ Len(evidence.control) = 2
    /\ \A i \in 1..2 : Shows(evidence.control[i], "EXACTLY_ONCE")

\* FIX_PROVEN rests on a confirmed witness, on a candidate that is exactly
\* once wherever it is killed, on boundary worlds that ran the schedule the
\* census counted, and on a corrected control that is exactly once too.
FixProvenIsEarned ==
    Published("check", "FIX_PROVEN_FOR_THIS_CAPSULE") =>
        /\ WitnessIsConfirmed
        /\ ExactlyOnceEverywhere("candidate") /\ OnOneSchedule("candidate")
        /\ request.corrected => ExactlyOnceEverywhere("corrected")

\* A failed patch is told on the evidence of a completed world of that very
\* candidate, against a confirmed witness, and the corrected control passed.
FailedPatchIsWitnessed ==
    \A claim \in PatchFailed :
        Published("check", claim) =>
            /\ WitnessIsConfirmed
            /\ \E receipt \in AttemptsOf("candidate") \union SweepOf("candidate") :
                  Shows(receipt, Claim(claim))
            /\ request.corrected => ExactlyOnceEverywhere("corrected")

\* No conclusive verdict is published over a world that did not complete.
NothingIsConcludedFromIncompleteEvidence ==
    outcome = "published" /\ verdict \in Conclusive =>
        /\ AllCompleted(evidence.hunt) /\ AllCompleted(evidence.control)
        /\ \A who \in DOMAIN evidence.attempts : AllCompleted(evidence.attempts[who])
        /\ \A who \in DOMAIN evidence.sweeps : \A receipt \in SweepOf(who) : Completed(receipt)

\* docs/SECURITY.md says that a handler whose commit schedule differs between
\* the kill worlds and the census ends in no verdict; only the candidate's boundary worlds are
\* compared, not the kill worlds of a sweep and not the corrected control's.
SchedulesNeverSplit ==
    outcome = "published" /\ verdict \in Conclusive =>
        \A who \in DOMAIN evidence.sweeps :
            LET sweep == evidence.sweeps[who]
            IN  /\ ~ScheduleSplit(evidence.attempts[who], sweep.census)
                /\ ~ScheduleSplit(sweep.kills, sweep.census)
=============================================================================
