----------------------------- MODULE CrashWorld -----------------------------
(***************************************************************************)
(* One world of CrashCheck: the controller of sqlite_runner.py drives two  *)
(* worker processes over one fresh SQLite database and seals a receipt.    *)
(* An "attempt" (execute_attempt) kills the first worker at a durable      *)
(* store commit and redelivers the event; a "nofault" world                *)
(* (execute_no_fault_replay) delivers it twice and lets both workers exit. *)
(*                                                                         *)
(* The handler is candidate code: it may call the store in any order,      *)
(* swallow what the store raises, run SQL around the store through any     *)
(* connection, write files in its world or in its source tree, leave       *)
(* children behind, hang, raise or die.  The controller may time out or    *)
(* fail at every step it waits or does I/O in.                             *)
(***************************************************************************)
EXTENDS CrashModels

CONSTANTS
    Plans,          \* the worlds to run: kind, fault boundary, kill point (0: at the boundary)
    MaxCommits,     \* bound: store commits of one delivery
    MaxMischief,    \* bound: acts of the handler outside the store's methods
    NoSnapshot      \* a snapshot not taken yet

ASSUME WorldAssumption ==
    /\ Plans \subseteq [kind : {"attempt", "nofault"}, boundary : FaultBoundary, kill : Nat]
    /\ MaxCommits \in Nat
    /\ MaxMischief \in Nat
    /\ NoSnapshot \notin StateSnapshot

VARIABLES
    plan,           \* what this world is asked to do
    pc,             \* where the controller is
    delivery,       \* workers spawned so far
    worker,         \* the state of the last worker's process
    inbox,          \* what the worker sent and the controller has not read
    outbox,         \* what the controller sent and the worker has not read
    exit,           \* each worker's exit, as its spawn receipt tells it
    helpers,        \* processes the handler left running
    db,             \* the database file and its write-ahead log
    audit,          \* what the open store's audits would notice
    litter,         \* where the handler left durable entries outside the store
    mischief,       \* acts outside the store so far (bounded by MaxMischief)
    ledger,         \* what the controller says the database must hold
    ops,            \* the store operations each worker reported
    refusal,        \* the failure held back until a finished worker has exited
    checkpoint,     \* the snapshot at the kill
    first,          \* the snapshot after the kill, or after the first delivery
    final,          \* the snapshot after the redelivery
    status, integrity, observation,
    sealed,         \* the receipt built from all this, or the validator's exception
    strays,         \* history: a child the controller does not kill outlived a worker
    carried,        \* history: entries the redelivery found, no stray having added them
    around          \* history: the deliveries with SQL committed around their open store

evidence == <<ledger, ops, refusal, checkpoint, first, final>>
verdict  == <<status, integrity, observation>>
channel  == <<inbox, outbox>>
process  == <<worker, exit, delivery>>
world    == <<db, audit, helpers, litter, mischief>>
history  == <<strays, carried, around>>
vars == <<plan, pc, sealed, evidence, verdict, channel, process, world, history>>

Helper == [piped : BOOLEAN,      \* it holds the worker's stdout or stderr
           grouped : BOOLEAN]    \* it stayed in the worker's process group

WorkerState == {"none", "starting", "importing", "handling", "paused", "returned",
                "closing", "failing", "gone"}

Exit == {"unborn", "running", "zero", "nonzero", "killed"}

Message == {"hello", "done", "exception", "refusal"} \union Operations

Stage == {"prepare", "spawn", "hello", "drive", "kill", "postkill", "exit", "reread",
          "between", "judge", "cleanup", "seal", "finished"}

\* What a whole-file read of the database tells apart: the four numbers the
\* store's commits explain, any content they do not explain, commits that
\* left no trace in any row (only the log and the free pages keep them), and
\* whether the log holds frames.
Database == [state : StateSnapshot, other : BOOLEAN, hidden : Nat, log : BOOLEAN]

SeededDatabase == [state |-> Seed, other |-> FALSE, hidden |-> 0, log |-> FALSE]

TypeOK ==
    /\ plan \in Plans
    /\ pc \in Stage
    /\ delivery \in 0..2
    /\ worker \in WorkerState
    /\ inbox \in Seq(Message)
    /\ outbox \in {"none", "continue", "release"}
    /\ exit \in [1..2 -> Exit]
    /\ helpers \subseteq Helper
    /\ db \in Database
    /\ audit \in [own : BOOLEAN, other : BOOLEAN]
    /\ litter \subseteq {"world", "tree"}
    /\ mischief \in Nat
    /\ ledger \in Database
    /\ ops \in [1..2 -> Seq(Operations)]
    /\ refusal \in {"none", "PROBE_ERROR", "INTEGRITY_ERROR"}
    /\ {checkpoint, first, final} \subseteq StateSnapshot \union {NoSnapshot}
    /\ status \in ExecutionStatus
    /\ integrity \in IntegrityStatus
    /\ observation \in CrashObservation
    /\ sealed \in {"none", "receipt", "raised"}
    /\ strays \in BOOLEAN
    /\ carried \subseteq {"world", "tree"}
    /\ around \subseteq 1..2

Init ==
    /\ plan \in Plans
    /\ pc = "prepare"
    /\ delivery = 0 /\ worker = "none" /\ exit = [d \in 1..2 |-> "unborn"]
    /\ inbox = <<>> /\ outbox = "none"
    /\ helpers = {} /\ litter = {} /\ mischief = 0
    /\ db = SeededDatabase /\ ledger = SeededDatabase
    /\ audit = [own |-> FALSE, other |-> FALSE]
    /\ ops = [d \in 1..2 |-> <<>>]
    /\ refusal = "none"
    /\ checkpoint = NoSnapshot /\ first = NoSnapshot /\ final = NoSnapshot
    /\ status = "COMPLETED" /\ integrity = "VALID" /\ observation = "NOT_OBSERVED"
    /\ sealed = "none"
    /\ strays = FALSE /\ carried = {} /\ around = {}

Attempt == plan.kind = "attempt"

\* The last worker runs _finish_replay; the first worker of an attempt runs
\* _wait_for_checkpoint instead.
Finishing == delivery = 2 \/ ~Attempt

----------------------------------------------------------------------------
(* The worker process: sqlite_runner._worker, the trusted store of         *)
(* scenario.py and scenarios/*.py, and the handler it runs.                *)

WorkerSends(message) == inbox' = Append(inbox, message) /\ UNCHANGED outbox

StoreOpen == worker \in {"handling", "paused", "returned"}

Hello ==
    /\ worker = "starting"
    /\ worker' = "importing"
    /\ WorkerSends("hello")
    /\ UNCHANGED <<plan, pc, sealed, evidence, verdict, exit, delivery, world, history>>

\* The store records data_version and total_changes when it is built: SQL
\* committed while the module was imported is already in its baseline.
OpenStore ==
    /\ worker = "importing"
    /\ worker' = "handling"
    /\ audit' = [own |-> FALSE, other |-> FALSE]
    /\ UNCHANGED <<plan, pc, sealed, evidence, verdict, channel, exit, delivery,
                   db, helpers, litter, mischief, history>>

\* A committing method of the store: _require, the transaction, then _pause.
StoreCommit(op) ==
    /\ worker = "handling"
    /\ ~audit.own
    /\ StoreCommits(db.state, op)
    /\ Len(ops[delivery]) < MaxCommits
    /\ db' = [db EXCEPT !.state = Apply(db.state, op), !.log = TRUE]
    /\ worker' = "paused"
    /\ WorkerSends(op)
    /\ UNCHANGED <<plan, pc, sealed, evidence, verdict, exit, delivery,
                   audit, helpers, litter, mischief, history>>

\* The method returns, or raises WroteAroundTheStore if another connection
\* committed; the handler may swallow that and go on.
Resume ==
    /\ worker = "paused"
    /\ outbox = "continue"
    /\ worker' = "handling"
    /\ outbox' = "none"
    /\ UNCHANGED <<plan, pc, sealed, evidence, verdict, inbox, exit, delivery, world, history>>

\* Fault: the worker reports done without its last audit.
ReturnsUnaudited ==
    /\ worker = "handling"
    /\ worker' = "returned" /\ WorkerSends("done")
    /\ UNCHANGED <<plan, pc, sealed, evidence, verdict, exit, delivery, world, history>>

\* The last audit, of both connections, before the worker reports done.
HandlerReturns ==
    /\ worker = "handling"
    /\ IF audit.own \/ audit.other
       THEN worker' = "failing" /\ WorkerSends("refusal")
       ELSE worker' = "returned" /\ WorkerSends("done")
    /\ UNCHANGED <<plan, pc, sealed, evidence, verdict, exit, delivery, world, history>>

\* Anything the module or the handler raises is reported by its type's name.
HandlerRaises ==
    /\ worker \in {"importing", "handling"}
    /\ worker' = "failing"
    /\ \E kind \in {"exception", "refusal"} : WorkerSends(kind)
    /\ UNCHANGED <<plan, pc, sealed, evidence, verdict, exit, delivery, world, history>>

\* StoreBase.close checkpoints the log; a connection the handler left open
\* can keep the checkpoint from completing.
WorkerCloses ==
    /\ worker = "returned"
    /\ outbox = "release"
    /\ \E held \in BOOLEAN : db' = [db EXCEPT !.log = held /\ db.log]
    /\ worker' = "closing"
    /\ outbox' = "none"
    /\ UNCHANGED <<plan, pc, sealed, evidence, verdict, inbox, exit, delivery,
                   audit, helpers, litter, mischief, history>>

\* Exit hooks may change the code of a clean return; a reported error is 3.
WorkerExits ==
    /\ worker \in {"closing", "failing"}
    /\ worker' = "gone"
    /\ \E code \in {"zero", "nonzero"} :
          /\ worker = "failing" => code = "nonzero"
          /\ exit' = [exit EXCEPT ![delivery] = code]
    /\ UNCHANGED <<plan, pc, sealed, evidence, verdict, channel, delivery, world, history>>

\* os._exit, a signal, a crash of the interpreter: no message, no close.
WorkerDies ==
    /\ worker \notin {"none", "gone"}
    /\ worker' = "gone"
    /\ \E code \in {"zero", "nonzero", "killed"} : exit' = [exit EXCEPT ![delivery] = code]
    /\ UNCHANGED <<plan, pc, sealed, evidence, verdict, channel, delivery, world, history>>

----------------------------------------------------------------------------
(* What candidate code may do outside the store's methods: in the worker   *)
(* (its main thread, its other threads, its exit hooks) from the import on *)
(* and in the processes it left behind.                                    *)

CandidateRuns ==
    worker \in {"importing", "handling", "paused", "returned", "closing", "failing"}

\* Bounded, and over when the receipt is sealed: nobody reads on.
Misbehaves ==
    /\ mischief < MaxMischief
    /\ pc \notin {"seal", "finished"}
    /\ mischief' = mischief + 1
    /\ UNCHANGED <<plan, pc, sealed, evidence, verdict, channel, process, strays, carried>>

\* Another connection commits: content the next probe can see, or a change
\* and its undoing, which no row shows.  data_version moves.
ForeignSql ==
    /\ CandidateRuns \/ helpers # {}
    /\ \E seen \in BOOLEAN :
          db' = [db EXCEPT !.other = seen, !.hidden = db.hidden + 1, !.log = TRUE]
    /\ audit' = [audit EXCEPT !.other = TRUE]
    /\ around' = IF StoreOpen THEN around \union {delivery} ELSE around
    /\ Misbehaves
    /\ UNCHANGED <<helpers, litter>>

\* The handler runs statements on the store's own connection: total_changes
\* moves.
OwnSql ==
    /\ worker = "handling"
    /\ \E seen \in BOOLEAN :
          db' = [db EXCEPT !.other = seen, !.hidden = db.hidden + 1, !.log = TRUE]
    /\ audit' = [audit EXCEPT !.own = TRUE]
    /\ around' = around \union {delivery}
    /\ Misbehaves
    /\ UNCHANGED <<helpers, litter>>

WriteEntry(place) ==
    /\ CandidateRuns \/ helpers # {}
    /\ place \notin litter
    /\ litter' = litter \union {place}
    /\ Misbehaves
    /\ UNCHANGED <<db, audit, helpers, around>>

\* An entry is removed without leaving a mark (the cwd's mtime is not pinned).
TidyEntry(place) ==
    /\ CandidateRuns \/ helpers # {}
    /\ place \in litter
    /\ litter' = litter \ {place}
    /\ Misbehaves
    /\ UNCHANGED <<db, audit, helpers, around>>

LeaveHelper(helper) ==
    /\ CandidateRuns
    /\ helpers' = helpers \union {helper}
    /\ Misbehaves
    /\ UNCHANGED <<db, audit, litter, around>>

HelperExits ==
    /\ \E helper \in helpers : helpers' = helpers \ {helper}
    /\ UNCHANGED <<plan, pc, sealed, evidence, verdict, channel, process, db, audit,
                   litter, mischief, history>>
----------------------------------------------------------------------------
(* The controller's reads of the database and of the world.               *)

\* The whole database is what the ledger says, byte for byte.
Unchanged == db = ledger

\* Fault: the probe looks at the event's four numbers only.
ExplainedInItsNumbers(op) == db.state = Apply(ledger.state, op)

\* The attributed probe: the rows are those the named operation makes, and
\* nothing else; the log and the logical image are taken as observed.
Explained(op) ==
    /\ db.state = Apply(ledger.state, op)
    /\ db.other = ledger.other

\* Fault: after the exit only the log is looked at.
LogIsEmpty == ~db.log

\* After a clean exit the log is empty and the file is the image last read.
ImageIsTheLedgers ==
    /\ ~db.log
    /\ [db EXCEPT !.log = ledger.log] = ledger

OnlyTheStoreWrote == "world" \notin litter
TreeIsBound       == "tree" \notin litter

\* Fault: the kill point is counted from zero.
KillDueFromZero(schedule, s) ==
    IF plan.kill > 0 THEN Len(schedule) + 1 = plan.kill
                     ELSE CheckpointReached(s, plan.boundary)

\* Kill after commit N, or at the first commit that reaches the boundary.
KillDue(schedule, s) ==
    IF plan.kill > 0 THEN Len(schedule) = plan.kill
                     ELSE CheckpointReached(s, plan.boundary)

\* Fault: only the leader is killed.
SurviveLeaderKill(processes) == processes

\* killpg reaches everything that stayed in the worker's process group.
SurviveKill(processes) == {helper \in processes : ~helper.grouped}

\* _collect waits for the end of both streams: a holder that is left is an error.
StreamsHeld(processes) == \E helper \in processes : helper.piped

\* An _AttemptFailure ends the try block; only an integrity failure is INVALID.
Fail(failure) ==
    /\ pc' = "cleanup"
    /\ status' = failure
    /\ integrity' = IF failure = "INTEGRITY_ERROR" THEN "INVALID" ELSE "INCOMPLETE"
    /\ UNCHANGED observation

GoTo(stage) == pc' = stage /\ UNCHANGED verdict

----------------------------------------------------------------------------
(* The controller's steps, in the order of execute_attempt and             *)
(* execute_no_fault_replay.                                                *)

\* _preflight, _make_sandbox, _seed_database and the first read.
Prepare ==
    /\ pc = "prepare"
    /\ GoTo("spawn")
    /\ UNCHANGED <<plan, sealed, evidence, channel, process, world, history>>

Spawn ==
    /\ pc = "spawn"
    /\ GoTo("hello")
    /\ delivery' = delivery + 1
    /\ worker' = "starting"
    /\ exit' = [exit EXCEPT ![delivery + 1] = "running"]
    /\ inbox' = <<>> /\ outbox' = "none"
    /\ carried' = IF delivery = 1 /\ ~strays THEN litter ELSE carried
    /\ UNCHANGED <<plan, sealed, evidence, world, strays, around>>

Receive(kinds) ==
    /\ inbox # <<>>
    /\ Head(inbox) \in kinds
    /\ inbox' = Tail(inbox)

ExpectHello ==
    /\ pc = "hello"
    /\ Receive({"hello"})
    /\ GoTo("drive")
    /\ UNCHANGED <<plan, sealed, evidence, outbox, process, world, history>>

\* A commit the ledger explains is taken; the controller then kills, or
\* answers, or finds that nobody is there to be answered.
AcceptCommit ==
    /\ pc = "drive"
    /\ Receive(Operations)
    /\ LET op == Head(inbox)
           schedule == Append(ops[delivery], op)
       IN  /\ Explained(op)
           /\ ledger' = db
           /\ ops' = [ops EXCEPT ![delivery] = schedule]
           /\ \/ /\ ~Finishing /\ KillDue(schedule, db.state)
                 /\ checkpoint' = db.state
                 /\ GoTo("kill")
                 /\ UNCHANGED outbox
              \/ /\ Finishing \/ ~KillDue(schedule, db.state)
                 /\ worker # "gone"
                 /\ outbox' = "continue"
                 /\ GoTo("drive")
                 /\ UNCHANGED checkpoint
              \/ /\ Finishing \/ ~KillDue(schedule, db.state)
                 /\ worker = "gone"
                 /\ Fail("IPC_ERROR")
                 /\ UNCHANGED <<outbox, checkpoint>>
    /\ UNCHANGED <<plan, sealed, refusal, first, final, process, world, history>>

RefuseCommit ==
    /\ pc = "drive"
    /\ Receive(Operations)
    /\ ~Explained(Head(inbox))
    /\ Fail("INTEGRITY_ERROR")
    /\ UNCHANGED <<plan, sealed, evidence, outbox, process, world, history>>

\* _store_refusal: a first delivery that made no store commit and changed
\* rows is told that no kill point exists inside its write.
StoreRefusal ==
    IF /\ ~Finishing
       /\ ops[delivery] = <<>>
       /\ <<db.state, db.other>> # <<ledger.state, ledger.other>>
    THEN "CHECKPOINT_NOT_REACHED"
    ELSE "INTEGRITY_ERROR"

\* The delivery ended without its kill, or ended in an error.
DeliveryFails ==
    /\ pc = "drive"
    /\ \/ /\ Receive({"refusal"})
          /\ Fail(StoreRefusal)
       \/ /\ Receive({"done", "exception"})
          /\ ~Finishing
          /\ Fail("CHECKPOINT_NOT_REACHED")
       \/ /\ Receive({"exception"})
          /\ Finishing
          /\ Fail("REPLAY_ERROR")
    /\ UNCHANGED <<plan, sealed, evidence, outbox, process, world, history>>

ChannelCloses ==
    /\ pc \in {"hello", "drive"}
    /\ worker = "gone" /\ inbox = <<>>
    /\ Fail("IPC_ERROR")
    /\ UNCHANGED <<plan, sealed, evidence, channel, process, world, history>>

\* Between the report and the kill the worker waits in _pause; its own death
\* passes for the kill only if it died of SIGKILL.
KillWorker ==
    /\ pc = "kill"
    /\ worker' = "gone"
    /\ exit' = [exit EXCEPT ![delivery] = IF @ = "running" THEN "killed" ELSE @]
    /\ helpers' = SurviveKill(helpers)
    /\ strays' = \E helper \in helpers : ~helper.grouped
    /\ IF exit'[delivery] # "killed" THEN Fail("WAIT_ERROR")
       ELSE IF StreamsHeld(helpers') THEN Fail("CLEANUP_ERROR")
       ELSE GoTo("postkill")
    /\ UNCHANGED <<plan, sealed, evidence, channel, delivery, db, audit, litter, mischief,
                   carried, around>>

\* Fault: the world is left for the end, when the redelivery may have tidied it.
ProbeTheCrashedDatabase ==
    /\ pc = "postkill"
    /\ IF ~Unchanged THEN Fail("INTEGRITY_ERROR") /\ UNCHANGED first
       ELSE first' = db.state /\ GoTo("spawn")
    /\ UNCHANGED <<plan, sealed, ledger, ops, refusal, checkpoint, final, channel, process,
                   world, history>>

\* The crashed database is the checkpoint, and the crashed world and tree
\* are clean, before the redelivery can tidy anything away.
ProbeTheCrash ==
    /\ pc = "postkill"
    /\ IF ~Unchanged THEN Fail("INTEGRITY_ERROR") /\ UNCHANGED first
       ELSE /\ first' = db.state
            /\ IF ~OnlyTheStoreWrote THEN Fail("UNSUPPORTED")
               ELSE IF ~TreeIsBound THEN Fail("INTEGRITY_ERROR")
               ELSE GoTo("spawn")
    /\ UNCHANGED <<plan, sealed, ledger, ops, refusal, checkpoint, final, channel, process,
                   world, history>>

\* _finish_replay reads while the worker holds its connection, keeps what it
\* found, and releases the worker either way.
ReceiveDone ==
    /\ pc = "drive"
    /\ Receive({"done"})
    /\ Finishing
    /\ \E probed \in BOOLEAN :
          refusal' = IF ~probed THEN "PROBE_ERROR"
                     ELSE IF ~Unchanged THEN "INTEGRITY_ERROR" ELSE "none"
    /\ IF worker = "gone"
       THEN Fail("IPC_ERROR") /\ UNCHANGED outbox
       ELSE GoTo("exit") /\ outbox' = "release"
    /\ UNCHANGED <<plan, sealed, ledger, ops, checkpoint, first, final, process, world, history>>

AwaitExit ==
    /\ pc = "exit"
    /\ worker = "gone"
    /\ strays' = (helpers # {})
    /\ IF StreamsHeld(helpers)
       THEN helpers' = SurviveKill(helpers) /\ Fail("CLEANUP_ERROR")
       ELSE /\ UNCHANGED helpers
            /\ IF refusal # "none" THEN Fail(refusal)
               ELSE IF exit[delivery] # "zero" THEN Fail("REPLAY_ERROR")
               ELSE GoTo("reread")
    /\ UNCHANGED <<plan, sealed, evidence, channel, process, db, audit, litter, mischief,
                   carried, around>>

ReadAfterExit ==
    /\ pc = "reread"
    /\ IF ~ImageIsTheLedgers
       THEN Fail("INTEGRITY_ERROR") /\ UNCHANGED <<ledger, first, final>>
       ELSE /\ ledger' = db
            /\ IF delivery = 1
               THEN first' = db.state /\ GoTo("between") /\ UNCHANGED final
               ELSE final' = db.state /\ GoTo("judge") /\ UNCHANGED first
    /\ UNCHANGED <<plan, sealed, ops, refusal, checkpoint, channel, process, world, history>>

\* Fault: nothing is looked at between the deliveries.
RedeliverAtOnce ==
    /\ pc = "between"
    /\ GoTo("spawn")
    /\ UNCHANGED <<plan, sealed, evidence, channel, process, world, history>>

\* Between the deliveries of a census only the world is looked at.
BetweenDeliveries ==
    /\ pc = "between"
    /\ IF OnlyTheStoreWrote THEN GoTo("spawn") ELSE Fail("UNSUPPORTED")
    /\ UNCHANGED <<plan, sealed, evidence, channel, process, world, history>>

\* Fault: a census is judged by its last state alone.
ClassificationOfFinal == ClassifyFinal(final, InitialTotal)

Classification ==
    IF Attempt THEN ClassifyFinal(final, InitialTotal)
               ELSE ClassifyDelivery(first, final, InitialTotal)

Judge ==
    /\ pc = "judge"
    /\ IF ~TreeIsBound THEN Fail("INTEGRITY_ERROR")
       ELSE IF ~OnlyTheStoreWrote THEN Fail("UNSUPPORTED")
       ELSE /\ pc' = "cleanup"
            /\ observation' = Classification
            /\ UNCHANGED <<status, integrity>>
    /\ UNCHANGED <<plan, sealed, evidence, channel, process, world, history>>

\* Fault: the wait for a released worker has no deadline.
StepFailuresButExit ==
    CASE pc = "prepare" -> {"SETUP_ERROR"}
      [] pc = "spawn"   -> {"LAUNCH_ERROR"}
      [] pc \in {"hello", "drive"} -> {"TIMEOUT"}
      [] OTHER          -> {}

\* What a step can meet that is not the handler's doing: a missed deadline, a
\* malformed message, a refused system call, an unreadable file.
StepFailures ==
    CASE pc = "prepare"  -> {"SETUP_ERROR", "UNSUPPORTED", "INTEGRITY_ERROR", "PROBE_ERROR"}
      [] pc = "spawn"    -> {IF delivery = 0 THEN "LAUNCH_ERROR" ELSE "RESTART_ERROR"}
      [] pc = "hello"    -> {"TIMEOUT", "PROTOCOL_ERROR"}
      [] pc = "drive"    -> {"TIMEOUT", "PROTOCOL_ERROR", "PROBE_ERROR"}
      [] pc = "kill"     -> {"KILL_ERROR", "WAIT_ERROR"}
      [] pc = "postkill" -> {"PROBE_ERROR", "SETUP_ERROR"}
      [] pc = "exit"     -> IF worker = "gone" THEN {} ELSE {"TIMEOUT"}
      [] pc = "reread"   -> {"PROBE_ERROR"}
      [] pc \in {"between", "judge"} -> {"UNSUPPORTED", "SETUP_ERROR"}
      [] OTHER           -> {}

StepFails ==
    /\ \E failure \in StepFailures : Fail(failure)
    /\ UNCHANGED <<plan, sealed, evidence, channel, process, world, history>>

\* Fault: a cleanup problem replaces what the run had found.
CleanupDecides(failed) ==
    /\ status' = IF failed THEN "CLEANUP_ERROR" ELSE status
    /\ integrity' = IF failed THEN "INCOMPLETE" ELSE integrity
    /\ UNCHANGED observation

\* A cleanup problem fails a completed run; it never hides an earlier failure.
AfterCleanup(failed) ==
    /\ status' = IF failed /\ status = "COMPLETED" THEN "CLEANUP_ERROR" ELSE status
    /\ integrity' = IF failed /\ status = "COMPLETED" THEN "INCOMPLETE" ELSE integrity
    /\ UNCHANGED observation

\* Fault: the group of a worker that was reaped is not killed again.
CleanupSparesTheReaped ==
    /\ pc = "cleanup"
    /\ pc' = "seal"
    /\ worker' = IF worker = "none" THEN "none" ELSE "gone"
    /\ exit' = [d \in 1..2 |-> IF exit[d] = "running" THEN "killed" ELSE exit[d]]
    /\ helpers' = IF worker = "gone" THEN helpers ELSE SurviveKill(helpers)
    /\ \E failed \in BOOLEAN : (failed => delivery > 0) /\ AfterCleanup(failed)
    /\ UNCHANGED <<plan, sealed, evidence, channel, delivery, db, audit, litter, mischief,
                   history>>

\* Every group is killed again, unconditionally.
Cleanup ==
    /\ pc = "cleanup"
    /\ pc' = "seal"
    /\ worker' = IF worker = "none" THEN "none" ELSE "gone"
    /\ exit' = [d \in 1..2 |-> IF exit[d] = "running" THEN "killed" ELSE exit[d]]
    /\ helpers' = SurviveKill(helpers)
    /\ \E failed \in BOOLEAN : (failed => delivery > 0) /\ AfterCleanup(failed)
    /\ UNCHANGED <<plan, sealed, evidence, channel, delivery, db, audit, litter, mischief,
                   history>>

\* The validators of AttemptReceipt and NoFaultReplayReceipt.
AttemptIsCoherent ==
    /\ integrity = "VALID"
    /\ exit = <<"killed", "zero">>
    /\ NoSnapshot \notin {checkpoint, first, final}
    /\ first = checkpoint
    /\ observation = ClassifyFinal(final, InitialTotal)

NoFaultIsCoherent ==
    /\ integrity = "VALID"
    /\ exit = <<"zero", "zero">>
    /\ NoSnapshot \notin {first, final}
    /\ observation = ClassifyDelivery(first, final, InitialTotal)
    /\ ops[1] # <<>>

Seal ==
    /\ pc = "seal"
    /\ GoTo("finished")
    /\ sealed' = IF status = "COMPLETED" =>
                        IF Attempt THEN AttemptIsCoherent ELSE NoFaultIsCoherent
                 THEN "receipt" ELSE "raised"
    /\ UNCHANGED <<plan, evidence, channel, process, world, history>>

----------------------------------------------------------------------------
Candidate ==
    \/ Hello \/ OpenStore \/ (\E op \in Operations : StoreCommit(op)) \/ Resume
    \/ HandlerReturns \/ HandlerRaises \/ WorkerCloses \/ WorkerExits \/ WorkerDies
    \/ ForeignSql \/ OwnSql
    \/ (\E place \in {"world", "tree"} : WriteEntry(place) \/ TidyEntry(place))
    \/ (\E helper \in Helper : LeaveHelper(helper))
    \/ HelperExits

Controller ==
    \/ Prepare \/ Spawn \/ ExpectHello \/ AcceptCommit \/ RefuseCommit \/ DeliveryFails
    \/ ChannelCloses \/ KillWorker \/ ProbeTheCrash \/ ReceiveDone \/ AwaitExit
    \/ ReadAfterExit \/ BetweenDeliveries \/ Judge \/ StepFails \/ Cleanup \/ Seal

Next == Candidate \/ Controller

\* The controller waits for nothing without a deadline; candidate code may
\* stop at any point.
Spec == Init /\ [][Next]_vars /\ WF_vars(Controller)
----------------------------------------------------------------------------
(* What a world promises.                                                  *)

Completed == sealed = "receipt" /\ status = "COMPLETED"

Effects(d) == EffectsIn(ops[d])
Marks(d)   == MarksIn(ops[d])

\* A completed receipt judges nothing but the store's work: the state after
\* the first delivery (killed or not) and the state after the second are
\* exactly what the commits the two workers reported make of the seed.
\* (_attributed_probe, _require_unchanged, _require_image together.)
JudgedStateIsTheStoresOwn ==
    Completed =>
        /\ first = StateAfter(Effects(1), Marks(1))
        /\ final = StateAfter(Effects(1) + Effects(2), Marks(1) + Marks(2))
        /\ ~ledger.other

\* A completed attempt was killed where it was asked to, after its N-th
\* commit, or at the first commit that reached the capsule's boundary and at
\* no later one, and the checkpoint is the state of that very prefix.
KillPointIsExact ==
    Completed /\ Attempt =>
        checkpoint = After(ops[1]) /\ KilledAt(ops[1], plan.boundary, plan.kill)

\* An entry written outside the store and there for the redelivery to read
\* forfeits the verdict, even when the redelivery removes it: in the world of
\* either kind, and in the source tree of an attempt.
HiddenEntriesForfeitTheVerdict ==
    Completed => carried \intersect (IF Attempt THEN {"world", "tree"} ELSE {"world"}) = {}

\* docs/SECURITY.md says the bound tree is compared before and after every
\* delivery; a census does not compare it between its two.
HiddenTreeEntriesForfeitTheCensus ==
    Completed /\ ~Attempt => "tree" \notin carried

\* SQL committed around the open store of a delivery that ran to its end is
\* refused, whatever it left in the rows and whatever the handler swallowed:
\* by the audit, by the read before the release, or by the read after the exit.
SqlAroundAFinishedDeliveryIsRefused ==
    Completed => around \subseteq (IF Attempt THEN {1} ELSE {})

\* The controller never builds a receipt its own validator rejects, except for
\* the census of a handler that never called the store.
ReceiptIsCoherent == sealed = "raised" => ~Attempt /\ ops[1] = <<>>

\* When the receipt is built, the workers and everything that stayed in
\* their process groups are dead.
NothingOutlivesTheWorld ==
    pc \in {"seal", "finished"} =>
        /\ worker \in {"none", "gone"}
        /\ \A helper \in helpers : ~helper.grouped

\* The redelivery starts from the very database the kill left and the probe
\* read, unless a child had escaped the process group.
ReplayStartsFromTheCrash ==
    Attempt /\ delivery = 2 /\ worker = "starting" /\ ~strays =>
        db = ledger /\ first = checkpoint

\* The first failure of a world is the one its receipt tells.
FailureIsNeverHidden ==
    [][status # "COMPLETED" => UNCHANGED <<status, integrity>>]_vars

\* Whatever the handler does or fails to do, the controller finishes.
EveryWorldEnds == <>(pc = "finished")

----------------------------------------------------------------------------
\* What of a world its promise speaks of.
Promise == INSTANCE WorldPromise WITH
    census  <- ~Attempt,
    durable <- db.state,
    tainted <- db.other,
    outcome <- IF status # "COMPLETED" \/ sealed = "raised" THEN "refused"
               ELSE IF observation = "NOT_OBSERVED" THEN "open"
               ELSE observation

\* A world keeps the promise of WorldPromise at every step.
KeepsThePromise == Promise!Spec
=============================================================================
