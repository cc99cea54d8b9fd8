------------------------------ MODULE LocalRun ------------------------------
(***************************************************************************)
(* local.verify_local: two copies of the packaged tree, the patch on one   *)
(* of them, and the bundle run in each, in a process group of its own that *)
(* is killed after RUN_TIMEOUT_SECONDS.  communicate() waits until every   *)
(* pipe is closed, without a limit once the group was killed.              *)
(***************************************************************************)
EXTENDS Verification

\* The trees are made and the patch is put on one of them, or one of the looks
\* at a digest, at the patch or at the platform raises.
Prepare ==
    /\ mode = "local" /\ stage = "bind"
    /\ stage' = "base" /\ UNCHANGED outcome
    /\ UNCHANGED <<mode, bundle, local, live>>

PrepareRaises ==
    /\ mode = "local" /\ stage = "bind"
    /\ Raises
    /\ UNCHANGED <<mode, bundle, local, live>>

StartSuite ==
    /\ stage \in World /\ process = "none"
    /\ process' = "running"
    /\ UNCHANGED <<mode, stage, bundle, outcome, trees, suites, left, holder, live>>

\* External: the suite writes into its world's tree.
WriteIntoTheTree ==
    /\ process = "running"
    /\ trees' = [trees EXCEPT ![stage] = "strange"]
    /\ UNCHANGED <<mode, stage, bundle, outcome, suites, process, left, holder, live>>

\* External: the suite starts a session that keeps the pipes; it ends when it likes.
LeaveHolder ==
    /\ process = "running" /\ ~holder
    /\ holder' = TRUE
    /\ UNCHANGED <<mode, stage, bundle, outcome, trees, suites, process, left, live>>

HolderExits ==
    /\ holder
    /\ holder' = FALSE
    /\ UNCHANGED <<mode, stage, bundle, outcome, trees, suites, process, left, live>>

\* External: pytest exits.
SuiteExits ==
    /\ process = "running"
    /\ process' = "exited"
    /\ left' \in {suite \in Suite(TestIds) : suite.ended # "timeout"}
    /\ UNCHANGED <<mode, stage, bundle, outcome, trees, suites, holder, live>>

\* Fault: only a suite that exited is given up.
TimesOutOnceExited ==
    /\ process = "exited" /\ holder
    /\ process' = "killed"
    /\ UNCHANGED <<mode, stage, bundle, outcome, trees, suites, left, holder, live>>

\* The limit passes while pytest runs, or while a pipe of it is held.
SuiteTimesOut ==
    /\ \/ process = "running"
       \/ process = "exited" /\ holder
    /\ process' = "killed"
    /\ UNCHANGED <<mode, stage, bundle, outcome, trees, suites, left, holder, live>>

\* Any other exception, Ctrl-C too, kills the group; it is raised once the pipes close.
SuiteIsInterrupted ==
    /\ process \in {"running", "exited"}
    /\ process' = "interrupted"
    /\ UNCHANGED <<mode, stage, bundle, outcome, trees, suites, left, holder, live>>

RaiseTheInterrupt ==
    /\ process = "interrupted" /\ ~holder
    /\ process' = "none"
    /\ Raises
    /\ UNCHANGED <<mode, bundle, trees, suites, left, holder, live>>

\* The candidate's tree must still be the patched one when its suite is back.
After(world) ==
    IF world = "base" THEN stage' = "candidate" /\ UNCHANGED outcome
    ELSE IF trees["candidate"] # "candidate" THEN Raises
    ELSE stage' = "judge" /\ UNCHANGED outcome

Kept(suite) ==
    suites' = [world \in DOMAIN suites \union {stage} |->
                  IF world = stage THEN suite ELSE suites[world]]

\* Fault: the process is forgotten, not waited for.
CollectWithoutReaping ==
    /\ process \in {"exited", "killed"} /\ ~holder
    /\ Kept(IF process = "killed" THEN NoSuite ELSE left)
    /\ After(stage)
    /\ UNCHANGED <<mode, bundle, trees, process, left, holder, live>>

\* The pipes are closed: a killed suite is a timeout, whatever it left.
Collect ==
    /\ process \in {"exited", "killed"} /\ ~holder
    /\ process' = "none" /\ left' = NoSuite
    /\ Kept(IF process = "killed" THEN NoSuite ELSE left)
    /\ After(stage)
    /\ UNCHANGED <<mode, bundle, trees, holder, live>>

\* The report or the tree cannot be read.
CollectRaises ==
    /\ process \in {"exited", "killed"} /\ ~holder
    /\ process' = "none" /\ left' = NoSuite
    /\ Raises
    /\ UNCHANGED <<mode, bundle, trees, suites, holder, live>>

Judge ==
    /\ mode = "local" /\ stage = "judge"
    /\ Conclude(suites, trees)
    /\ UNCHANGED <<mode, bundle, local, live>>

LocalClient ==
    \/ Prepare \/ PrepareRaises \/ StartSuite \/ SuiteTimesOut \/ RaiseTheInterrupt
    \/ Collect \/ CollectRaises \/ Judge

LocalNext ==
    \/ LocalClient \/ SuiteIsInterrupted
    \/ WriteIntoTheTree \/ LeaveHolder \/ HolderExits \/ SuiteExits
=============================================================================
