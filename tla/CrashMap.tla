------------------------------ MODULE CrashMap ------------------------------
(***************************************************************************)
(* One run of `nemisis map` (mapping.map_windows): bind the candidate, run *)
(* the sweep check would run, and show for each kill what the retry left,  *)
(* or one of the refusals check would give.  No verdict, nothing kept.     *)
(***************************************************************************)
EXTENDS Command

End(result) ==
    stage' = "done" /\ outcome' = result /\ UNCHANGED <<request, role, boundary, verdict>>

LeaveUnmappable ==
    /\ At("map", "bind")
    /\ evidence' = [evidence EXCEPT !.unresolved = role]
    /\ End("unmappable")

BindMap ==
    /\ At("map", "bind")
    /\ GoTo("sweep")
    /\ UNCHANGED <<request, boundary, evidence, outcome>>

\* An entry beside the sweep's worlds: there is no sweep to show.
SweepRaises ==
    /\ At("map", "sweep")
    /\ End("escaped") /\ UNCHANGED evidence

\* Fault: a census that did not complete is shown, with no window.
TellWithoutTheCensus(sweep, escaped) ==
    IF escaped THEN "escaped"
    ELSE IF ScheduleSplit(sweep.kills, sweep.census) THEN "unattributed" ELSE "mapped"

\* The refusals, in their order.
Tell(sweep, escaped) ==
    IF ~Completed(sweep.census) THEN "unattributed"
    ELSE IF escaped THEN "escaped"
    ELSE IF ScheduleSplit(sweep.kills, sweep.census) THEN "unattributed"
    ELSE "mapped"

\* settle may find a write outside the sweep's own tree.
MapWindows ==
    /\ At("map", "sweep")
    /\ SweepEveryCommit
    /\ \E escaped \in BOOLEAN : End(Tell(evidence'.sweeps[role], escaped))

MapNext == LeaveUnmappable \/ BindMap \/ SweepRaises \/ MapWindows
----------------------------------------------------------------------------
\* The operation a window is named by: the killed world's own last one.
Window(sweep, kill) ==
    IF kill <= Len(sweep.kills[kill].ops) THEN sweep.kills[kill].ops[kill] ELSE "unknown"
=============================================================================
