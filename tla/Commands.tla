------------------------------ MODULE Commands ------------------------------
(***************************************************************************)
(* A command is a check, a replay or a map.                                *)
(***************************************************************************)
EXTENDS Check, Replay, CrashMap

Next == CheckNext \/ ReplayNext \/ MapNext \/ Publish \/ Abort

Spec == Init /\ [][Next]_vars
----------------------------------------------------------------------------
\* The role a command judges.
Judged == IF request.command = "check" THEN "candidate" ELSE role

\* The orchestrator and the validators, written apart, disagree in one case
\* alone, in check as in replay; in every other run what was judged is published,
\* and a replay is refused just where check would be.
OnlyACensusIsRefused ==
    /\ outcome = "refused" => CensusDecidesOverAnIncompleteSweep(Judged)
    /\ ReplayAgreesWithCheck

\* The evidence of a check that takes a map's tree for its candidate, its witness
\* granted: the worlds at the boundary return wave, and if all of them are exactly
\* once the sweep returns what the map's did.  (The sweep of a candidate whose
\* worlds never reached the boundary decides nothing.)
AsCandidate(wave) ==
    [Granted EXCEPT
        !.attempts = Extend(@, "candidate", wave),
        !.sweeps = IF ConfirmedObservation(wave) = "EXACTLY_ONCE" THEN @ ELSE <<>>]

\* The verdict such a check publishes, or "none".
CheckGives(wave) ==
    LET claim == VerdictIn(AsCandidate(wave), "candidate")
    IN  IF Publishable(claim, AsCandidate(wave)) THEN claim ELSE "none"

\* mapping.py says that exactly the trees check refuses are refused here.  That is
\* not so, and this says where it is not, whatever the boundary worlds return,
\* which the map does not run.  The map refuses what check judges only if those
\* worlds already fail the patch (check does not sweep it then), or if a kill
\* world ran another schedule than the census (check never compares these).  The
\* map shows what check does not judge only if the boundary worlds observe
\* nothing or ran another schedule, or if a kill world did not complete.  Of a
\* tree that check proves fixed, no window shows anything but exactly once; and
\* each window that completed is named as the census names that commit.
MapDepartsFromCheckOnlyHere ==
    request.command = "map" /\ role \in DOMAIN evidence.sweeps =>
        LET sweep == evidence.sweeps[role]
        IN  /\ \A at \in FaultBoundary : \A wave \in [1..Confirmations -> Attempts(at)] :
                  LET seen  == ConfirmedObservation(wave)
                      given == CheckGives(wave)
                  IN  /\ outcome = "unattributed" /\ given \in Conclusive =>
                             \/ seen # "EXACTLY_ONCE"
                             \/ /\ Completed(sweep.census)
                                /\ ScheduleSplit(sweep.kills, sweep.census)
                      /\ outcome = "mapped" /\ given \notin Conclusive =>
                             \/ seen = "NOT_OBSERVED"
                             \/ /\ seen = "EXACTLY_ONCE"
                                /\ \/ ScheduleSplit(wave, sweep.census)
                                   \/ ~AllCompleted(sweep.kills)
                      /\ given = "FIX_PROVEN_FOR_THIS_CAPSULE" =>
                             /\ Len(sweep.kills) = Len(sweep.census.ops)
                             /\ \A kill \in DOMAIN sweep.kills :
                                   Shows(sweep.kills[kill], "EXACTLY_ONCE")
            /\ outcome = "mapped" =>
                   \A kill \in DOMAIN sweep.kills :
                       Completed(sweep.kills[kill]) =>
                           Window(sweep, kill) = sweep.census.ops[kill]

\* crash_models.py says that such a census decides on its own; its verdict
\* does not pass the validators, and nothing is published.
EveryJudgementIsPublished == outcome # "refused"
=============================================================================
