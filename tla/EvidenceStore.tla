--------------------------- MODULE EvidenceStore ---------------------------
(***************************************************************************)
(* Publication of results (crashcheck._publish): each run writes its files *)
(* one after the other into the artifact root, some into a directory of    *)
(* its own and some into the directory the capsule's digest names, which   *)
(* every run with that capsule shares.  A file is created exclusively,     *)
(* then filled, then made durable; one that is already there is read and   *)
(* compared.  No lock orders the publishers, and each may die, or fail to  *)
(* write, between any two steps.                                           *)
(*                                                                         *)
(* A capsule stands for its digest.  What a file holds is told by whose it *)
(* is and by what can differ: hunt.json alone is not a function of the     *)
(* digest that addresses it.                                               *)
(***************************************************************************)
EXTENDS Integers, Sequences, FiniteSets

CONSTANTS
    Publishers,  \* processes; each publishes one run, under a fresh run id
    Jobs,        \* what they may publish
    Faults       \* what may go wrong: "crash", "write", "unlink"

\* The capsule's minimization trace: the outcome of the no-crash control.
Traces == {"none", "necessary", "duplicated", "undecided"}

Capsules == [boundary : {"effect-commit", "marker-commit"}, trace : Traces]

\* The hypotheses of a hunt that reproduced; "none" is no hunt at all.
Hunts == {"none", "neither", "effect", "marker", "both"}

Job == [capsule : Capsules, hunt : Hunts, minimized : BOOLEAN, unresolved : BOOLEAN,
        attempted : BOOLEAN, exercised : BOOLEAN]

\* The boundary a hunt selects: the first hypothesis that reproduced.
Selected(hunt) == IF hunt = "marker" THEN "marker-commit" ELSE "effect-commit"

Preflight == [boundary |-> "effect-commit", trace |-> "none"]

\* What check publishes: an unbound base or a live request; a hunt without a
\* witness; a control that left the fault in doubt; a confirmed or unconfirmed
\* witness with or without what came after it.  Only a run whose every world
\* completed exports the regression test.
CheckJobs ==
    {j \in Job :
        \/ /\ j.hunt = "none" /\ j.capsule = Preflight
           /\ ~j.minimized /\ ~j.exercised /\ j.attempted = ~j.unresolved
        \/ /\ j.hunt # "none" /\ j.capsule = [boundary |-> Selected(j.hunt), trace |-> "none"]
           /\ ~j.minimized /\ ~j.exercised /\ j.attempted /\ ~j.unresolved
        \/ /\ j.hunt \notin {"none", "neither"} /\ j.minimized /\ j.attempted
           /\ j.capsule.boundary = Selected(j.hunt) /\ j.capsule.trace # "none"
           /\ j.capsule.trace # "necessary" => ~j.exercised /\ ~j.unresolved
           /\ ~(j.exercised /\ j.unresolved)}

\* What replay publishes: any capsule, without a hunt and a control.
ReplayJobs ==
    {j \in Job : /\ j.hunt = "none" /\ ~j.minimized /\ j.attempted = ~j.unresolved
                 /\ j.exercised => j.attempted}

ASSUME JobsAssumption == Jobs \subseteq CheckJobs \union ReplayJobs

ASSUME FaultsAssumption == Faults \subseteq {"crash", "write", "unlink"}

VARIABLES
    phase,      \* where in the write of a file each publisher is
    job,        \* what it publishes
    at,         \* the position of that file in its plan
    files,      \* the artifact root: what each place holds
    maker,      \* history: who last created the file at a place, if any
    withdrawn   \* history: places a failed write was unlinked from

vars == <<phase, job, at, files, maker, withdrawn>>

----------------------------------------------------------------------------
(* What a run writes, where and in which order.                            *)

ReproFiles == {"capsule", "contract", "event", "metadata", "test_repro", "hunt"}
RunFiles == {"anchor-resolution", "minimization", "manifest", "report"}

Places == ({j.capsule : j \in Jobs} \X ReproFiles) \union (Publishers \X RunFiles)

Optional(wanted, name) == IF wanted THEN <<name>> ELSE <<>>

\* Fault: the manifest is written before the evidence it lists.
ManifestFirst(j) ==
    <<"manifest", "capsule", "contract", "event", "metadata">>
      \o Optional(j.exercised, "test_repro")
      \o Optional(j.unresolved, "anchor-resolution")
      \o Optional(j.hunt # "none", "hunt")
      \o Optional(j.minimized, "minimization")
      \o Optional(j.attempted, "report")

\* The files of a run in the order _publish writes them.
Plan(j) ==
    <<"capsule", "contract", "event", "metadata">>
      \o Optional(j.exercised, "test_repro")
      \o Optional(j.unresolved, "anchor-resolution")
      \o Optional(j.hunt # "none", "hunt")
      \o Optional(j.minimized, "minimization")
      \o <<"manifest">>
      \o Optional(j.attempted, "report")

\* Fault: the metadata tells the run that wrote it.
MetadataTellsTheRun(p, j, name) ==
    IF name = "hunt" THEN j.hunt ELSE IF name = "metadata" THEN p ELSE "whole"

\* What a file holds when it is whole.
Asset(p, j, name) == IF name = "hunt" THEN j.hunt ELSE "whole"

Place(p, name) == IF name \in ReproFiles THEN <<job[p].capsule, name>> ELSE <<p, name>>

Name(p) == Plan(job[p])[at[p]]
Here(p) == Place(p, Name(p))

Whole(place) == files[place] \notin {"absent", "short"}

Holds(p, i) == files[Place(p, Plan(job[p])[i])] = Asset(p, job[p], Plan(job[p])[i])

----------------------------------------------------------------------------
Phase == {"idle", "open", "compare", "fill", "sync", "unlink",
          "published", "refused", "failed", "crashed"}

Working == {"open", "compare", "fill", "sync", "unlink"}

TypeOK ==
    /\ phase \in [Publishers -> Phase]
    /\ job \in [Publishers -> Jobs]
    /\ at \in [Publishers -> Nat \ {0}]
    /\ \A p \in Publishers : at[p] <= Len(Plan(job[p]))
    /\ files \in [Places -> {"absent", "short", "whole"} \union Hunts]
    /\ maker \in [Places -> SUBSET Publishers]
    /\ withdrawn \subseteq Places

Init ==
    /\ phase = [p \in Publishers |-> "idle"]
    /\ job \in [Publishers -> Jobs]
    /\ at = [p \in Publishers |-> 1]
    /\ files = [place \in Places |-> "absent"]
    /\ maker = [place \in Places |-> {}]
    /\ withdrawn = {}

Move(p, to) == phase' = [phase EXCEPT ![p] = to]

\* Fault: the last file is not told from the others.
AdvancePastTheEnd(p) == Move(p, "open") /\ at' = [at EXCEPT ![p] = @ + 1]

\* The file is there: the next one, or the result is returned.
Advance(p) ==
    IF at[p] = Len(Plan(job[p]))
    THEN Move(p, "published") /\ UNCHANGED at
    ELSE Move(p, "open") /\ at' = [at EXCEPT ![p] = @ + 1]

\* The run's directory is new, the capsule's may exist.
Begin(p) ==
    /\ phase[p] = "idle"
    /\ Move(p, "open")
    /\ UNCHANGED <<job, at, files, maker, withdrawn>>

\* open(O_CREAT | O_EXCL) made an empty file.
Create(p) ==
    /\ phase[p] = "open"
    /\ files[Here(p)] = "absent"
    /\ Move(p, "fill")
    /\ files' = [files EXCEPT ![Here(p)] = "short"]
    /\ maker' = [maker EXCEPT ![Here(p)] = {p}]
    /\ UNCHANGED <<job, at, withdrawn>>

\* open(O_CREAT | O_EXCL) met a file, by whomever and in whatever state.
Meet(p) ==
    /\ phase[p] = "open"
    /\ files[Here(p)] # "absent"
    /\ Move(p, "compare")
    /\ UNCHANGED <<job, at, files, maker, withdrawn>>

Fill(p) ==
    /\ phase[p] = "fill"
    /\ Move(p, "sync")
    /\ files' = [files EXCEPT ![Here(p)] = Asset(p, job[p], Name(p))]
    /\ UNCHANGED <<job, at, maker, withdrawn>>

\* fsync returned and the descriptor is closed.
Seal(p) ==
    /\ phase[p] = "sync"
    /\ Advance(p)
    /\ UNCHANGED <<job, files, maker, withdrawn>>

\* The file read back is the one this run would write.
Agree(p) ==
    /\ phase[p] = "compare"
    /\ files[Here(p)] = Asset(p, job[p], Name(p))
    /\ Advance(p)
    /\ UNCHANGED <<job, files, maker, withdrawn>>

\* Fault: the file that differs is removed like a failed write.
DifferAndUnlink(p) ==
    /\ phase[p] = "compare"
    /\ files[Here(p)] # Asset(p, job[p], Name(p))
    /\ Move(p, "refused")
    /\ files' = [files EXCEPT ![Here(p)] = "absent"]
    /\ UNCHANGED <<job, at, maker, withdrawn>>

\* It is another, a part of it, or gone: CrashCheckError ends the publication.
Differ(p) ==
    /\ phase[p] = "compare"
    /\ files[Here(p)] # Asset(p, job[p], Name(p))
    /\ Move(p, "refused")
    /\ UNCHANGED <<job, at, files, maker, withdrawn>>

\* The file cannot be created.
OpenFails(p) ==
    /\ "write" \in Faults
    /\ phase[p] = "open"
    /\ Move(p, "failed")
    /\ UNCHANGED <<job, at, files, maker, withdrawn>>

\* Fault: the error of a write is swallowed.
WriteFailsUnseen(p) ==
    /\ "write" \in Faults
    /\ phase[p] \in {"fill", "sync"}
    /\ Advance(p)
    /\ UNCHANGED <<job, files, maker, withdrawn>>

\* An error or an interrupt before fsync returned, whatever was written.
WriteFails(p) ==
    /\ "write" \in Faults
    /\ phase[p] \in {"fill", "sync"}
    /\ Move(p, "unlink")
    /\ UNCHANGED <<job, at, files, maker, withdrawn>>

Unlink(p) ==
    /\ phase[p] = "unlink"
    /\ Move(p, "failed")
    /\ files' = [files EXCEPT ![Here(p)] = "absent"]
    /\ withdrawn' = withdrawn \union {Here(p)}
    /\ UNCHANGED <<job, at, maker>>

\* The error of the unlink is suppressed.
UnlinkFails(p) ==
    /\ "unlink" \in Faults
    /\ phase[p] = "unlink"
    /\ Move(p, "failed")
    /\ UNCHANGED <<job, at, files, maker, withdrawn>>

Crash(p) ==
    /\ "crash" \in Faults
    /\ phase[p] \in Working
    /\ Move(p, "crashed")
    /\ UNCHANGED <<job, at, files, maker, withdrawn>>

Step(p) ==
    \/ Begin(p) \/ Create(p) \/ Meet(p) \/ Fill(p) \/ Seal(p) \/ Agree(p) \/ Differ(p)
    \/ OpenFails(p) \/ WriteFails(p) \/ Unlink(p) \/ UnlinkFails(p) \/ Crash(p)

Next == \E p \in Publishers : Step(p)

Spec == Init /\ [][Next]_vars
----------------------------------------------------------------------------
(* What the store promises.                                                *)

\* A file that is whole is never given other contents, and only the
\* publisher that made it, and has not finished it, may take it back.
NothingIsOverwritten ==
    [][\A place \in Places :
          Whole(place) =>
              \/ files'[place] = files[place]
              \/ /\ files'[place] = "absent"
                 /\ \E p \in maker[place] : phase[p] = "unlink" /\ Here(p) = place]_vars

\* The files that are written before a run's manifest and that it stands on; it
\* names the report too, which is rendered after it.
Listed(p) == {i \in 1..Len(Plan(job[p])) : Plan(job[p])[i] # "report"}

\* A manifest is the last word: once it is whole every file it describes is
\* there as this run wrote or found it, but for one that its maker, having
\* failed to make it durable, took back.
ManifestStandsOnItsFiles ==
    \A p \in Publishers :
        Whole(Place(p, "manifest")) =>
            \A i \in Listed(p) : Holds(p, i) \/ Place(p, Plan(job[p])[i]) \in withdrawn

\* A publication is refused over a hunt that came out otherwise under the same
\* digest, or over a file its maker has not finished or took back; never over
\* another run's finished file of the same capsule.
RefusalIsAConflict ==
    [][\A p \in Publishers :
          phase[p] # "refused" /\ phase'[p] = "refused" =>
              \/ files[Here(p)] \in {"short", "absent"}
              \/ /\ Name(p) = "hunt"
                 /\ \E q \in maker[Here(p)] : /\ job[q].capsule = job[p].capsule
                                              /\ job[q].hunt # job[p].hunt]_vars

\* A file stays short only by a publisher that is writing it, or that died or
\* failed at it: one that was published or refused leaves none behind.
ShortFilesHaveADebtor ==
    \A place \in Places :
        files[place] = "short" =>
            \E p \in maker[place] :
                Here(p) = place /\ phase[p] \in {"fill", "unlink", "failed", "crashed"}
=============================================================================
