------------------------------- MODULE Replay -------------------------------
(***************************************************************************)
(* One run of `nemisis replay` (crashcheck.replay): load a capsule, find   *)
(* the accepted contract it names, bind one source tree in one role,       *)
(* confirm it at the frozen boundary, sweep a claimed fix, and judge.  No  *)
(* hunt and no control: the capsule stands for them.                       *)
(***************************************************************************)
EXTENDS Command

\* _contract_for_capsule: a file beside the capsule is taken or refused; only
\* without one do the catalog and then the config speak.
ContractIsFound(contracts) ==
    IF contracts.exported # "none" THEN contracts.exported = "match"
    ELSE contracts.audited \/ contracts.configured = "match"

LoadCapsule ==
    /\ At("replay", "load")
    /\ ContractIsFound(request.contracts)
    /\ GoTo("bind")
    /\ UNCHANGED <<request, boundary, evidence, outcome>>

\* The target is missing or ambiguous.
LeaveReplayUnresolved ==
    /\ At("replay", "bind")
    /\ evidence' = [evidence EXCEPT !.unresolved = role]
    /\ GiveUp
    /\ UNCHANGED <<request, boundary, outcome>>

\* A live request or an untrusted fork runs no world.
BlockReplay ==
    /\ At("replay", "bind")
    /\ request.live \/ request.fork
    /\ Receive(<<IF request.live THEN [SetupFailure EXCEPT !.status = "UNSUPPORTED"]
                 ELSE SetupFailure>>)
    /\ GiveUp
    /\ UNCHANGED <<request, boundary, outcome>>

BindSource ==
    /\ At("replay", "bind")
    /\ ~request.live /\ ~request.fork
    /\ GoTo("confirm")
    /\ UNCHANGED <<request, boundary, evidence, outcome>>

\* A base is not judged but reproduced, or not.
ReplayBase ==
    /\ At("replay", "confirm") /\ role = "base"
    /\ \E attempts \in BareWaves :
          /\ Receive(attempts)
          /\ Conclude(IF ConfirmedObservation(attempts) = "DUPLICATE_EFFECT"
                      THEN "BUG_REPRODUCED" ELSE "EVIDENCE_INCOMPLETE")
    /\ UNCHANGED <<request, boundary, outcome>>

ReplayFix ==
    /\ At("replay", "confirm") /\ role # "base"
    /\ \E attempts \in Waves :
          /\ Receive(attempts)
          /\ GoTo(IF ConfirmedObservation(attempts) = "EXACTLY_ONCE" THEN "sweep" ELSE "judge")
    /\ UNCHANGED <<request, boundary, outcome>>

ReplaySweep ==
    /\ At("replay", "sweep")
    /\ SweepEveryCommit
    /\ GoTo("judge")
    /\ UNCHANGED <<request, boundary, outcome>>

JudgeReplay ==
    /\ At("replay", "judge")
    /\ Conclude(VerdictOn(role))
    /\ UNCHANGED <<request, boundary, evidence, outcome>>

ReplayNext ==
    \/ LoadCapsule \/ LeaveReplayUnresolved \/ BlockReplay \/ BindSource
    \/ ReplayBase \/ ReplayFix \/ ReplaySweep \/ JudgeReplay
----------------------------------------------------------------------------
(* What a published verdict promises.                                      *)

\* A replay proves a fix on a full wave at the capsule's boundary and a kill
\* after every commit of the census, all exactly once, on schedules that agree,
\* and never proves a base fixed.  It reproduces the bug only of a base whose
\* every world duplicated, and fails a patch only on a completed world that
\* shows what it says.
ReplayVerdictIsEarned ==
    /\ Published("replay", "FIX_PROVEN_FOR_THIS_CAPSULE") =>
           role # "base" /\ ExactlyOnceEverywhere(role) /\ OnOneSchedule(role)
    /\ Published("replay", "BUG_REPRODUCED") =>
           /\ role = "base" /\ Len(evidence.attempts[role]) = Confirmations
           /\ \A receipt \in AttemptsOf(role) :
                 receipt.status = "COMPLETED" /\ receipt.observation = "DUPLICATE_EFFECT"
    /\ \A claim \in PatchFailed :
           Published("replay", claim) =>
               /\ role # "base"
               /\ \E receipt \in AttemptsOf(role) \union SweepOf(role) :
                     receipt.status = "COMPLETED" /\ receipt.observation = Claim(claim)

\* The evidence of a check of the same tree as candidate, its witness granted.
Granted ==
    LET witness == ReceiptOf("DUPLICATE_EFFECT", <<>>)
        control == ReceiptOf("EXACTLY_ONCE", <<>>)
    IN  [evidence EXCEPT
            !.hunt = <<witness, witness>>,
            !.control = <<control, control>>,
            !.attempts = Extend(@, "base", [i \in 1..Confirmations |-> witness])]

\* A replay of a candidate tells what check would tell of it, given the witness:
\* what the validators of a full check let pass they let a replay pass, and
\* what they refuse they refuse.
ReplayAgreesWithCheck ==
    /\ request.command = "replay" /\ role = "candidate"
    /\ "candidate" \in DOMAIN evidence.attempts
    /\ outcome \in {"published", "refused"}
    => (outcome = "published" <=> Publishable(verdict, Granted))
=============================================================================
