# A formal model of Nemisis CrashCheck

Nemisis CrashCheck finds and judges one kind of bug: a retried event handler
that, killed at the wrong moment and delivered the event again, applies its
effect twice. It runs candidate code in worker processes over a real SQLite
file, kills a worker at a durable commit, redelivers the event, and publishes a
verdict that must rest on nothing but what the trusted store committed. This
directory holds TLA+ models of that program, the TLC configurations that check
them, and TLAPS proofs of every safety property they check.

Line numbers below are of files under `src/nemisis/` unless a path is given.

## 1. The system

### Components

| component | state | operations | talks to |
|---|---|---|---|
| trusted store (`scenario.py`, `scenarios/*.py`) | a SQLite file and its write-ahead log: subject, effects, their total, the event's marker | `effect`, `mark`, `effect_and_mark`; audits by `data_version` and `total_changes`; a pause after each commit | the handler calls it; it reports each commit to the controller and waits for the answer |
| worker (`sqlite_runner._worker`) | one process, its candidate module, its store | hello, import, handle, last audit, done, close, exit | controller: newline-delimited JSON over a pipe |
| controller (`sqlite_runner.execute_attempt`, `execute_no_fault_replay`) | a ledger of what the database must hold, reported operations, snapshots, a status | prepare, spawn, explain each commit, kill or answer, probe the crash, redeliver, read, judge, clean up, seal a receipt | workers: messages, `killpg`, `wait`; the database file; the world and source trees |
| receipts and validators (`crash_models.py`) | immutable records | the observation of a wave and of a sweep; the verdict's coherence | recompute what the orchestrator claims |
| `check`, `replay` and `map` (`crashcheck.py`, `mapping.py`) | the evidence so far, the frozen capsule | bind, hunt, minimize, confirm, sweep, judge or tell, publish | run worlds in threads; read their receipts in order |
| evidence store (`crashcheck._publish`, `_write_exact`) | files under `.nemisis` | create exclusively, compare, replace | several runs and crashes over one directory |
| contract lifecycle (`initialize`, `accept_contract`) | `.nemisis/config.json`: DRAFT or ACCEPTED | draft, accept | `check` refuses a draft |
| an agent's patch (`agent_patch.py`, `crashcheck._load_author`) | candidate trees; receipts of authorship by tree digest | look, ask the model, copy, patch, digest, record, or clean up | `check` credits a candidate to the model |
| scratch guard (`crashcheck._Scratch`) | what was recorded of the source copies and the finished phases | source, phase, settle | ends a run that wrote into the scratch tree |
| red team (`redteam.py`) | generated handlers | an oracle of each handler's verdict, compared with `check` | `check` |
| differential verifier (`local.py`, `live.py`, `matrix.py`, `junit.py`, `bundle.py`, `evidence.py`) | two worlds, the tests and claims of a bundle, a report of each world | prepare, run, parse, judge by a matrix, validate a manifest | suites in process groups, or images at a remote provider |
| provider client (`contree.py`) | the operations it was told of | spawn, wait, hold a record against its request; a batch submits all and then awaits all | the provider, over HTTP |
| model drafting, front ends, reports, hashing | none that is judged | | |

### What is hard about it

The handler is candidate code. It can call the store in any order, swallow what
the store raises, use SQL through any connection before, between and after the
store's commits, leave a file for its next delivery and tidy it away, leave a
thread or a child behind, hang, or die. Against that the controller has only
messages, reads of the database file at chosen moments, directory listings at
chosen moments, and `SIGKILL`. What is checked *when* decides everything: a
commit explained before or after a foreign write, a tree compared before or
after the redelivery, an audit run before or after the kill. The controller's
own steps may time out or fail anywhere, and a failure must neither be lost nor
turn into evidence.

Above it, `check` runs tens of worlds and turns their receipts into one of five
verdicts, through a dozen early returns; `CrashCheckResult` recomputes the same
judgement from the same receipts by rules written separately, and refuses to
build a result they do not support.

Beside a world lie the other worlds of its phase, the copies of the source trees
and the phases before, all in one temporary directory that a handler can climb
into. The guard compares them at the end of a phase, while a stray process may
write at any moment.

The differential verifier trusts a suite it did not write and, live, a provider
it cannot see: a suite may hang, contradict its own exit code or write into its
tree, an answer may be lost after the operation started, and a record may be of
another operation than the one that was asked for.

Correctness, component by component:

* a world: its receipt judges exactly the store's own commits; it was killed
  where it was asked to be; anything else the handler did forfeits the
  evidence; nothing survives it; it always ends; its first failure is the one
  that is told;
* the rules: an observation is claimed only on completed worlds, and by all;
* `check`: "fix proven" needs a confirmed bug, exactly-once worlds at every
  kill point, one schedule, and a passing control; the validators refuse nothing
  that was judged;
* the evidence store: what is published is never changed; a crash leaves either
  a whole file or a state later runs can live with;
* the contract: what was accepted is what was drafted;
* an agent's patch: what is reported is the base with the model's module, and a
  model is credited with its own work only;
* the map: where what it refuses and shows is not what `check` would make of the
  same tree is known, case by case;
* the scratch guard: what it lets pass stays where a world looks, and it stops no
  run over what CrashCheck or a world did to its own;
* the differential verifier: an accepted candidate was seen to pass every test, in
  the tree that was bound, against a base that failed exactly the tests that tell
  them apart; a batch waits for whatever it was told of; a run ends.

`PROJECT.json` ("hazards") lists each of these at its line.

## 2. The modules

| module | models | kind |
|---|---|---|
| `CrashModels` | the snapshot, the store's commits, kill points, the two classification rules | pure operators |
| `CrashWorld` | one world: controller, worker, store, candidate code | state machine |
| `WorldPromise` | what a world promises, without processes | abstract state machine |
| `CrashWorldProofs` | theorems about a world's ledger, its crash and its end | proofs |
| `WorldOutcomeProofs` | theorems about what a world may claim, the refinement of `WorldPromise`, and the receipts the commands are modelled over | proofs |
| `Evidence` | receipts, waves, sweeps, verdicts, the validators of a result | pure operators |
| `Command` | what the three commands share: their state, waves, sweeps, publication | state and actions |
| `Check` | one run of `check`, end to end | actions |
| `Replay` | one run of `replay`, end to end | actions |
| `CrashMap` | one run of `map`, end to end | actions |
| `Commands` | a command is one of the three | state machine |
| `CommandsProofs` | theorems about `Commands` | proofs |
| `Scratch` | the temporary directory of a command and its guard | state machine |
| `ScratchProofs` | theorems about `Scratch` | proofs |
| `Oracle` | the red team's oracle: the verdict a handler deserves | pure operators |
| `RedTeam` | the engine running a generated handler statement by statement, against `Oracle` | state machine |
| `RedTeamProofs` | theorems about `Oracle` and `RedTeam` | proofs |
| `EvidenceStore` | publication: several runs writing into one artifact root | state machine |
| `EvidenceStoreProofs` | theorems about `EvidenceStore` | proofs |
| `ContractLifecycle` | `.nemisis/config.json` under several commands | state machine |
| `AgentPatch` | candidates and receipts of models' patches under several proposals | state machine |
| `Workspace` | a workspace whose contract or whose patches are worked on | state machine |
| `WorkspaceProofs` | theorems about `AgentPatch`, `ContractLifecycle` and `Workspace` | proofs |
| `Differential` | bundles, drafts, reports, the matrix, the validators of a manifest | pure operators |
| `Verification` | what the verifier's runs share: their state and their verdict | state and actions |
| `LocalRun` | `verify_local`: two suites in process groups | actions |
| `LiveRun` | `verify_live` and `execute_many` over a provider that may fail in many ways | actions |
| `Verifications` | a run is local, live or a batch | state machine |
| `VerificationsProofs` | theorems about `Verifications` | proofs |
| `MCCrashWorld`, `MCCommands`, `MCScratch`, `MCRedTeam`, `MCEvidenceStore`, `MCContractLifecycle`, `MCWorkspace`, `MCVerifications` | instances and constants for TLC | model checking |

### CrashModels

`StateSnapshot` is the four numbers of `StateSnapshot` in `crash_models.py`.
`Apply(s, op)` is what each of the three committing methods of a scenario's
store does to them, and `StoreCommits` when it commits at all: a second marker
violates the table's primary key, and the atomic method returns if the marker
is there. Both packaged scenarios are instances of the constants: the credit
scenario is `Delta = 2500`, `InitialTotal = 0`, the inventory scenario
`Delta = -2`, `InitialTotal = 10`. `ClassifyFinal` and `ClassifyDelivery` are
the code's rules in the code's order.

### CrashWorld

The state is split the way the processes split it.

* The controller: `pc` (its place in `execute_attempt` or
  `execute_no_fault_replay`), `ledger` (what it says the database must hold),
  `ops` (reported commits by delivery), `checkpoint`, `first`, `final`,
  `refusal` (a failed read held back until the worker has left), and the
  verdict's three parts.
* The worker: `worker` (its state), `inbox`, `outbox`, `exit`.
* What candidate code can touch: `db`, `audit`, `litter`, `helpers`.

`db` is what a whole-file read tells apart: the rows the store's commits
explain (`state`), any content they do not (`other`), commits that left no row
changed (`hidden`: only the log and the free pages keep them) and whether the
log holds frames (`log`). A commit of another connection before the store is
opened is in its baseline; one after it is noticed by `audit.other` at the next
pause that is answered, or before done. Helpers are processes the handler left
running; they differ by whether they hold the worker's pipes and whether they
stayed in its process group, which is all that `_collect` and `killpg` see.

Each action is one handler or one uninterrupted stretch of the controller
between two waits; each early return is a disjunct of it or an `IF`. `StepFails`
is what a step may meet that is not the handler's doing. Candidate actions
interleave freely with the controller's, so every read happens at a moment the
handler may have chosen. `strays`, `carried` and `around` are history variables;
no action reads them except to record history.

### WorldPromise

A world without processes: the durable state moves by store operations or is
tainted; it is read once after each delivery, never while tainted; the outcome
is the classification of exactly those readings, or a refusal. `CrashWorld`
ends with the mapping (`Promise`, `KeepsThePromise`): the durable state is `db.state`,
the rows that the store's commits explain; a database that holds anything else is
tainted; and a receipt whose status is not `COMPLETED`, or that its validator
rejects, is a refusal. TLC checks the refinement, and
`WorldOutcomeProofs` proves it.

### Evidence

`Evidence` holds what the rules read of a receipt (status, integrity,
observation, and the first worker's schedule), the sets of receipts a world may
return (`CompletedAttempts`, `NoFaultReplays`, `FailedReceipts`: what
`CrashWorld` promises, by schedules; that it keeps this is the theorem
`WorldsReturnWhatTheRulesExpect`), the rules of `crash_models.py`
(`SweepObservation`, `EffectiveObservation`, `ObservationsSupport`) and those of
`crashcheck.py` (`ConfirmedObservation`, `ClaimedFixVerdict`, `ScheduleSplit`).
The two families are kept apart on purpose, as they are in the code.

### Command, Check, Replay, CrashMap, Commands

One command from its first stage to its end. `Command` holds the state the
three share: `stage` and `role` are the place in the code, `boundary` is the
capsule's, `evidence` every receipt so far. A wave of worlds is one action: the
threads share nothing and the run waits for all of them. Each stage of `check`
is an action of `Check` (`Hunt`, `Minimize`, `ConfirmBase`, ...), each early
return ends in `GiveUp`; `Publish` asks the validators, and `Abort` is any
exception that ends the command without evidence.

In `Replay` a capsule stands for hunt, control and base; `LoadCapsule` is the
search for the contract it names, whose order matters (a file beside the capsule
is taken or refused, and only without one do the catalog and the config speak).
`ReplayAgreesWithCheck`, a part of `OnlyACensusIsRefused`, grants a replay of a
candidate the witness a check would have had and asks the validators both ways.

`CrashMap` runs `check`'s sweep and gives its refusals in its own order (`Tell`).
`MapResult`'s documentation says that exactly the trees `check` refuses are refused
there (`mapping.py:65`). They are not: the map runs no boundary worlds, compares the
kill worlds with the census, which `check` never does (`crashcheck.py:543`, and
`MCScheduleSplit` below), and shows the windows of a sweep with a world that did not
complete. `MapDepartsFromCheckOnlyHere` says how far the two may part. It takes a
map's sweep and, for every wave that boundary worlds may return at either boundary,
builds the evidence of a check of that tree, its witness granted (`AsCandidate`), and
asks `check`'s rules and validators for the verdict they publish (`CheckGives`):

| the map | `check` | only if |
|---|---|---|
| refuses | gives a verdict | the boundary worlds already fail the patch, which is then not swept; or a kill world split from the census |
| shows windows | gives none | the boundary worlds observe nothing, or split from the census; or a kill world did not complete |

Each of the five cases occurs: without it TLC finds the property violated. What is
left of the promise is that a map over a proven fix shows exactly once in every
window, one for each commit, and that a window that completed has the census's
name for it.

### Scratch

The temporary directory of one command, phase by phase (`plan`): what is in each
copy (`tree`), what lies in each phase's directory that its worlds did not leave
(`litter`), what is at the root (`extra`). An entry is told by the moment it was
put, so that a comparison of what was recorded with what is there is a comparison
of moments. The three kinds of looks are where the code has them: a world
compares its tree with the digest it is bound to when it starts (`StartWorld`,
which does not see bytecode caches and empty directories), with its own start
before the redelivery if it kills (`Redeliver`) and at the end (`Judge`);
`_execute_confirmations` and `_execute_sweep` look beside their worlds
(`EndPhase`), hunt and minimization do not; `settle` compares every copy but the
bound one and every finished phase, and records the bound copy as it then is.
Anyone who lives may write (`Write`): a world's workers until its cleanup, and a
process that left its group from then on. `trespassed` is history.

### Oracle and RedTeam

`Oracle` is `redteam.oracle` as it is written: two deliveries over the handler's
statements, in the boundary worlds, the census and the sweep. `Course` is the loop
of `_deliver`: the world after each statement.
`RedTeam` is the other side: the worlds of a `check` run one after the other,
one statement a step, with the store's commits, the controller's ledger, its
explanation of each commit, its kills, its scans, and at last the rules and
validators of `Evidence`. The two share no definition but the names of the
statements. Statements that neither side tells apart share one:
`home_file` stands for `parent_file`, `tmp_file`, `home_chmod` and
`home_rmdir` (a second `rmdir` of the census raises in the code and is a failed scan
here, with the same verdict); `table` for `pragma`, `header_flag` and `tail_bytes`;
`retry_effect` is `effect`, and `detect` does nothing. A handler is
deterministic, so the worlds of a wave are one world told several times.
`ProvenSurvivesEveryCrash` asks more than the engine does: that a proven
handler survives several kills in a row, at any commits.

### EvidenceStore

Each publisher is a process that publishes one run: `job` tells which files
(`Plan`, in the order `_publish` writes them) and whose directories they are
in. `_write_exact` is taken apart at its system calls: the exclusive open, the
write, the `fsync`, and on the other side the read and the comparison; a crash
or a failed write may come between any two. `CheckJobs` and `ReplayJobs` are the
shapes of results that `check` and `replay` publish. What a file holds is
`"whole"` where it is a function of the capsule's digest or belongs to one run;
`hunt.json` alone is neither, and holds what its run's hunt saw. `maker` and
`withdrawn` are history.

### ContractLifecycle

Each command is a process: `init`, `accept`, `init --accept-contract` or
`check`, from the command line or from the MCP tools. A contract has an
identity (what `initialize` compares: scenario, target, issue, base tree) and
spellings of the base and of the issue's path, which are in the file and not in
the identity; `BaseOf` is the part of it that `check` compares when it loads a
contract, the base tree alone. `told` is what was printed, and a command accepts only a digest
that was. `seen` is the draft a command loaded, which may be stale when its
replacement is renamed over the file; `lost` is the history that tells. A short
file knows its maker, so that a file deleted while it was being written is
filled out of sight. The receipt that `init --nemotron` writes beside the config
is left out.

### AgentPatch and Workspace

A proposal (`nemisis propose-patch`, or the tool of the MCP server, whose output
is one directory per scenario) looks for its output once (`Propose`), asks the
model, and only then makes the directory (`MakeDirectory`), copies the base into
it file by file, writes the model's module over the handler, takes the digest of
what is there and files the receipt under it. Whatever fails from there on
removes the directory by name (`RemoveFile`, `RemoveDirectory`). A tree is two
files, the handler and all others, so that a tree may be half copied, half
removed, or of two authors. `Credits` is what `check` asks of a receipt
(`_load_author`); `AuthorshipIsTrue` asks it of every tree a check could be given.
`maker`, `late`, `excused` and `generated` are history.

`Workspace` puts it beside the contract lifecycle, the other user of `.nemisis`
that has several processes and no lock. The two share no file, so a behaviour is
one or the other.

### Differential, Verification, LocalRun, LiveRun, Verifications

`Differential` is the pure part. A report is a function from tests to cases; a
case is how often the report has the test, the element in it and the marker the
harness wrote, which is all that `parse_junit` reads. A tree is the bound one or
`"strange"`.

A local run is two suites, one after the other. `process` is the suite's process
group as `_run_process` sees it; `holder` is a descendant that left the group
and keeps a pipe, for which `communicate()` waits, after the kill without a
limit. What a suite writes into its tree and how it ends is free.

A live run makes five calls (`LiveRequest`), each of an image an earlier call
returned; a batch is any sequence of invocations with nonces of their own.
`operations` is the provider's truth; `calls` is what the client holds: what it
asked, the id it was told, and what it accepted. The provider runs operations in
any order, fails them, or lets them run on; a spawn may start an operation and
its answer get lost, or be answered with another operation's id; a wait may be
answered with another operation's record, or fail. `Accepted` is every look
`_execution` takes at a record. What the runner's shell script ensures inside an
image (`_RUNNER_SHELL`: the tree is the same before and after) is in `Effects`,
which is external.

## 3. The runs

| run | question | bounds |
|---|---|---|
| `MCWorld` | Does a world, killed and redelivered or delivered twice, judge only the store's work, from the crash it left? Which receipt does its validator reject? | a kill at the effect, a kill after commit 2, and a census; 2 commits a delivery; 2 acts around the store |
| `MCPromise` | Killed at the right point, refinement of `WorldPromise`, first failure kept, every world ends | both kinds, both boundaries, kills after commit 1 and 2; 2 commits; 1 act |
| `MCTreeBetween` | Is a tree entry left between the deliveries of a census seen? (no) | a census, as in `MCWorld` |
| `MCCommands` | Does a published verdict of a check or a replay rest on its evidence? Would a check agree with the replay? Where would it not agree with the map? What do the validators refuse? | every request (check: plain, corrected, live, fork; replay: each role, boundary and place of the contract); 2 confirmations; 2 commits, 1 with a corrected control |
| `MCUnpublished` | Is everything that is judged published? (no) | a plain check, as in `MCCommands` |
| `MCScheduleSplit` | Does a split schedule in the sweep end in no verdict? (no) | a plain check, as in `MCCommands` |
| `MCScratch` | What may a handler or a stray leave in the temporary directory unseen? Over what is a run stopped? | the plans of check, check with a corrected control, replay and map; 2 worlds a phase; 2 writes |
| `MCVerifications` | What is an accepted candidate accepted on? Which manifests are refused? What becomes of a provider's operations? Does a run end? | 2 packaged claims and tests, of both relations, and 6 drafts of a model's; 4 kinds of cases; a batch of 3 |
| `MCRedTeam` | Do engine and oracle agree on every handler? Does a proven one survive repeated crashes? | every handler of at most 4 statements (11 kinds), and `guard, atomic` with any 3 after it; up to 3 kills in a row |
| `MCPublish` | What holds of shared evidence under any interleaving, crash and failed write? | 2 runs of one capsule, every kind of job |
| `MCWorkspace` | What becomes of a contract between commands? Is a candidate that was reported left alone? Whom does a check credit? | 3 commands, 3 identities (one packaged), 2 spellings; or 2 proposals, 2 bases, 1 module and the bases' own, 1 output; all faults |
| `MCDraftTool` | Is the drafted contract accepted by the digest it was returned with? (no) | 2 tool calls, no faults |

Why the bounds are enough. Two commits a delivery let a delivery duplicate by
itself, mark before or after its effect, and pass a boundary at a commit that
is not its first; four over two deliveries let every branch of both
classification rules fire. Two acts around the store are enough to do something
and undo it, to leave an entry and tidy it away, and to combine SQL with a
process left behind. Exactly one confirmation would make "all agree" vacuous;
two let one world disagree with, or fail beside, another (the code uses five,
and its rules are symmetric in them). `WorldFailures` holds the two failures
the rules tell apart: `CHECKPOINT_NOT_REACHED`, which sends a candidate to the
sweep to be described, and `CLEANUP_ERROR`, which may keep an observation.
Scenario constants are the inventory scenario's, whose delta is negative; the
proofs hold for any.

In `MCScratch` two worlds let one write while the other is judged, and two writes
let an entry be put in one phase and removed in another, or two places be
written. The clock gives each phase two moments, before its worlds are back and
after, which is what the looks tell apart. In `MCVerifications` the four kinds of
cases are one of each outcome that a case can be parsed to but `TIMEOUT`, and one
where marker and element contradict each other; two of the three invocations of
the batch differ in nothing but their nonce. Four of the six drafts must be
refused, each by another rule.

Runs of different capsules share no file, so `MCPublish` gives its two runs one
capsule; two runs already give every pairing of one that makes a file with one
that meets it, in whatever state, and the proofs are for any number.
`MCWorkspace` needs three
commands: a draft that is printed, an acceptance that loads it and is overtaken,
and the one that overtakes it. Two proposals into one output give the overtaken
look, the cleanup of the other's tree and, with the operator's deletion, the
module written into the other's tree; two bases tell a tree of two authors. A
handler of five statements
(`guard, atomic, raw_file, effect, delete_file`) is the shortest that the
validators refuse, and the reason for the longer handlers of `MCRedTeam`.

Deadlock is not checked: a finished world and a finished command stop, and a
handler may hang.

Fairness. `CrashWorld` assumes weak fairness of the controller alone: it never
waits without a deadline (hello, each message, the exit after a release, and
the streams have one), so a step of it that stays possible is taken, a timeout
if nothing else. Nothing is assumed of candidate code. `Verifications` assumes weak
fairness of the client alone, local and live: a suite is given 30 seconds
(`RUN_TIMEOUT_SECONDS`) and a wait 300 (`DEFAULT_TIMEOUT_SECONDS`), so a step of
it stays possible until it is taken; neither a suite nor the provider need ever
end. What no limit covers is the second `communicate()`, which waits for every
holder of a pipe: `EveryVerificationEnds` excludes a holder that stays, by name.
The other machines state no liveness and assume no fairness: their commands are
sequential, and no promise of theirs is that one ends.

### What the violations show

Each disagrees with a sentence of the repository, quoted in `PROJECT.json`.

1. `MCScheduleSplit`: the candidate's boundary worlds alone are compared with
   the census; a kill world of the sweep that ran another schedule is not.
2. `MCUnpublished`: a census that is wrong without a crash is meant to decide
   even if a kill world did not complete. `check` judges so, the result's
   validator demands every world, and the command ends in an exception.
3. `MCTreeBetween`: a census does not compare its source tree between its two
   deliveries.
4. `MCDraftTool`: `draft_contract` returns the proposal's digest, and
   `accept_contract` compares the contract's.

The red team's generator can draw a handler of the kind of 2
(`VerdictIsTheOracles` says which they are): its oracle expects a failed patch
and the checker raises.

### What the properties had to leave out

Stating what holds showed what does not. None of these contradicts the
repository's words plainly enough to be listed above.

* An attempt is killed while its worker waits in `_pause`, before the audit that
  would see a foreign commit; SQL that was undone before the kill leaves a
  completed receipt. `SqlAroundAFinishedDeliveryIsRefused` says what holds.
* A census does not look for entries in its tree between its deliveries (3);
  `HiddenEntriesForfeitTheVerdict` says what is looked for.
* A file that is found is compared at once, though its maker may not have filled
  it: of two runs of one capsule at once, one may raise, and its run directory
  has no manifest. A short file that a crash leaves refuses every later run.
  `hunt.json` is under the capsule's digest and not a function of it: a hunt
  that came out otherwise is refused for good. `RefusalIsAConflict` says that
  there is no other refusal.
* A file that could not be made durable is unlinked by name, also when another
  run has built its manifest on it: the exception in `ManifestStandsOnItsFiles`.
* An acceptance that loaded its draft before the file was deleted replaces what
  another command put there since, an accepted contract included: the exception
  in `ContractIsOnlyAccepted`.
* `_require_scratch_untouched` says that nothing but CrashCheck's own may appear in
  a phase's root; hunt and minimization never ask it of theirs. What their worlds
  left beside them is recorded as part of the finished phase. An entry that the
  tree's digest does not count, left in a copy by one phase on it, is what the next
  phase on it starts from. Neither is told: `OnlyTheseChannelsStayOpen` says
  exactly what can stay unseen, and where.
* A local suite that is killed, or whose exit code contradicts its report, makes
  outcomes that the matrix would call incomplete; the manifest's validators raise
  over it, and nothing is written. `OnlyABrokenSuiteIsRefused` says when.
* A live manifest repeats the digests that were bound. That the worlds had them is
  looked at once, between the calls.
* An operation whose spawn was not answered is not among the ids a failed batch
  tells, and runs on at the provider. There is at most one.
* `execute_many` keeps only `ContreeBackendError`; any other exception leaves the
  batch without awaiting the rest (`WaitIsInterrupted`), so
  `OperationsAreAccountedFor` speaks of batches that end by their results or by
  their error.
* Of two proposals into one output the one that comes second to `_copy_tree`
  fails there, and its cleanup removes the candidate of the first, finished or
  not; the first goes on copying, reports what is left and files a receipt for
  it. `ReportedCandidateStands` excuses a proposal whose directory was taken by
  one that had looked before it was made, by the operator, or by one so robbed.
* A second `draft_contract` of the same issue is refused over the first's draft,
  since the path of the temporary issue file is in it.

## 4. The proofs

`CrashWorldProofs` proves, for every scenario (`Delta` nonzero), every set of
plans and any number of commits and acts around the store:

| theorem | says |
|---|---|
| `InvariantHolds` | `Spec => []IInv` |
| `TypeCorrect` | `TypeOK` |
| `VerdictJudgesTheStore` | a completed receipt's snapshots are exactly what the reported commits make of the seed |
| `ReplayIsFaithful` | the redelivery starts from the database the kill left and the probe read |
| `WorldIsContained` | when the receipt is built, workers and their groups are dead |
| `FirstFailureStands` | no step replaces a world's first failure |

None of the four properties is inductive. `IInv` adds what the controller knows
at each of its places:

* `Progress`: which delivery, which exit codes and which worker states go with
  each value of `pc`;
* `LedgerIsExplained`: the ledger is `StateAfter` the effects and markers
  reported so far, and holds nothing else. `AcceptCommit` keeps it because one
  `Apply` adds one effect or one marker (`ApplyCounts`, `CountAppend`);
* `SnapshotsAreTaken`: the snapshots that must exist at each place do, and
  equal the ledger as it was then, although the schedule of the second delivery
  has grown since;
* `CrashIsFrozen`: between the probe of a killed world and its redelivery
  nothing but a stray can write, because everything in the group is dead;
* `EndIsQuiet`: after cleanup nothing of the world's groups runs.

The proof of a step has one lemma per action that changes what a conjunct
reads (`CandidateFrame` does candidate code at once), and the temporal theorems
combine `InvariantInit` and `InvariantStep` by PTL. The constants' assumptions
used are `ScenarioAssumption` and `WorldAssumption`.

`WorldOutcomeProofs` goes on from there, under the same assumptions:

| theorem | says |
|---|---|
| `OutcomeInvHolds` | `Spec => []OutcomeInv` |
| `KillIsExact` | `KillPointIsExact` |
| `EntriesForfeit` | `HiddenEntriesForfeitTheVerdict` |
| `SqlIsRefused` | `SqlAroundAFinishedDeliveryIsRefused` |
| `CoherentReceipts` | `ReceiptIsCoherent` |
| `PromiseIsKept` | `Spec => KeepsThePromise`: the world implements `WorldPromise` |
| `WorldsReturnWhatTheRulesExpect` | what a finished world returns is among the receipts over which `Evidence` lets the commands choose |

`OutcomeInv` is `IInv` and one part for each promise:

* `ReceiptIsReady`: the exits and the observation that the validator will ask for,
  at each place from which a receipt can still be completed;
* `KillIsDue`: as long as the first delivery runs, no commit of it was one to kill
  at (`NotDueBefore`), and once it is killed the last one was;
* `RedeliveryIsClean`: when the redelivery is spawned the looks have found nothing
  and, if no process left the worker's group, nobody is left to put anything there;
* `MessagesFit`: what a worker can have sent that nobody read, by its state;
* `SqlIsSeen`: foreign SQL around a delivery that will finish leaves the database
  with a hidden commit more than the ledger has, and either the worker's own audit
  or a read of the controller is still to come and will fail (`AuditWillFail`,
  `ReadWillFail`). It rests on `MessagesFit`: a read is the last one only if the
  worker has no commit left to report.

The refinement is a step simulation. What candidate code does is a commit of the
store, a write around it, or a stutter (`CandidatePromises`); of the controller's
steps, the probe of the crash and the reads after a delivery are the promised
readings, judging is the promised rule, whatever fails a world is a refusal, and all
else stutters (`ControllerPromises`). That a reading is of an untainted state, and
that the ledger the controller classifies is the durable state, come from `IInv`.

`WorldsReturnWhatTheRulesExpect` joins the world to the commands. The commands are
modelled and proved over sets of receipts (`NoFaultReplays`, `Attempts`,
`SweepAttempts`), not over running worlds; the theorem says that those sets leave
out nothing a world can return, for any handler, plan and number of commits, when
`Failures` is every status but `COMPLETED`. So the theorems of `CommandsProofs`
hold of verdicts on the worlds of `CrashWorld`. It needs three facts more
(`ReturnInv`): a failure tells the integrity it forfeits, and an observation only if
the cleanup failed after the judgement; a reported schedule is within the bound, an
unread commit included; a completed census made a commit. The rest is the
invariant's: the snapshots are what the schedules make of the seed
(`CompletedSchedules`, by `CountConcat`: the commits of two schedules one after the
other are counted together), and the kill was due. It needs `ReceiptIsCoherent` for
the census without a commit, which the orchestrator replaces by a failed setup
(`SetupFailure`). The formula belongs to the proof module, which joins the two
models, so no run lists it.

`EvidenceStoreProofs` proves, for any set of publishers, any jobs that `check`
and `replay` have, and any faults:

| theorem | says |
|---|---|
| `InvariantHolds` | `Spec => []IInv` |
| `TypeCorrect` | `TypeOK` |
| `ManifestStands` | a whole manifest stands on the files it describes, but for one its maker took back |
| `ShortFilesAreOwed` | a short file has a publisher that is at it, or died or failed at it |
| `EvidenceIsWrittenOnce` | a whole file is never given other contents |
| `RefusalsAreConflicts` | a refusal is over another hunt or an unfinished file |

Its `IInv` says in `Left` and `Owned` what a publisher has behind it and what it
is at, in `Made` that a whole file is what its maker writes there, and in
`ManifestIsReached` that a manifest is whole only when its run has passed every
file before it. `RefusalsAreConflicts` follows from `Made`: a file that differs
and is whole was written by a maker with another asset, and only hunts have
one. The assumption used is `JobsAssumption`.

`ScratchProofs` proves, for any plans, copies, worlds and number of writes:

| theorem | says |
|---|---|
| `InvariantHolds` | `Spec => []IInv` |
| `TypeCorrect` | `TypeOK` |
| `TheGuardAccusesJustly` | a run is stopped only over a write that trespassed |
| `OpenInvHolds` | `Spec => []OpenInv` |
| `OnlyTheseStayOpen` | `OnlyTheseChannelsStayOpen` |

Its `IInv` says in `ClockFollows` which moment and which phase go with each
stage, and in `Unspoiled` that until the first trespass the disk is as it was
recorded, but for the tree of the coming phase. Without the exception for the
bound copy it would not be inductive: a handler may write into its own tree,
and `settle` records that tree again before another phase compares it.

`OpenInv` says the same of the records (`RecordsAreKept`) and of the disk
(`KeptOrFresh`): an entry was put since the last phase was settled, or it is where
the phase that put it is let to leave it. The records come first: `settle`
compares the disk with them, and so what another copy holds is what was kept when
it was recorded. `PhaseHasLooked` says what the looks inside a phase add: a world
that completed found nothing in its tree that the digest counts, and a confirmation
or sweep that goes on found nothing beside its worlds. The assumption used is
`ScratchAssumption`.

`CommandsProofs` proves, for any requests, confirmations, commits and failures:

| theorem | says |
|---|---|
| `CommandInvHolds` | `Spec => []CommandInv` |
| `CommandTypeHolds` | `TypeOK` |
| `CompleteEvidenceHolds` | `NothingIsConcludedFromIncompleteEvidence` |
| `FixProvenHolds` | `FixProvenIsEarned` |
| `FailedPatchHolds` | `FailedPatchIsWitnessed` |
| `ReplayVerdictHolds` | `ReplayVerdictIsEarned` |
| `OnlyACensusHolds` | `OnlyACensusIsRefused` |
| `MapDepartsHolds` | `MapDepartsFromCheckOnlyHere` |

`Knowledge` says what a command holds at each stage of each role: `check` at
`judge` has a conclusive hunt, a control, and a candidate that is either swept or
was seen to be wrong. `ValidatorsAgree` is the heart: whatever reaches `publish` is
accepted by the validators, or a census overrules an incomplete sweep. From there
the four promises about published verdicts need no history, since
the validators that passed say what the evidence is; only that the verdict is about
the role that was judged (`ConclusionIsJudged`) and that a sweep killed after each
commit its census counted (`KillsFollowTheCensus`) is carried along. `MapTold` says
of a map that swept that it told what `Tell` makes of its sweep, and ran no other
world; the check it is compared with is built from that sweep, and what its rules
and validators conclude follows from their definitions (`ComparedVerdict`,
`ComparedIsPublishable`). The assumptions used are `EvidenceAssumption` and
`RequestsAssumption`.

`WorkspaceProofs` proves, for any number of proposals and commands, any jobs, bases, modules, outputs and faults:

| theorem | says |
|---|---|
| `PatchInvHolds` | `PatchSpec => []PatchInv` |
| `PatchTypeHolds` | `PatchTypeOK` |
| `AuthorshipHolds` | `AuthorshipIsTrue` |
| `ReportedCandidateHolds` | `ReportedCandidateStands` |
| `LifecycleInvHolds` | `Spec => []LifecycleInv` |
| `OnlyNamedHolds` | `OnlyTheNamedDraftIsAccepted` |
| `OnlyAcceptedHolds` | `ContractIsOnlyAccepted`, an action property |
| `PrintedHolds` | `PrintedContractIsTheOneAskedFor`, an action property |
| `WorkspaceTypeHolds` | `WorkspaceTypeOK` |
| `WorkspaceKeepsItsPromises` | the five promises, of the workspace |

`PatchInv` follows a proposal: what is recorded was generated
(`ReceiptsAreEarned`); whoever works in a directory that another made had looked
before it was made (`OthersAreLate`); and a proposal that nothing excuses is the
maker of its directory and has put there exactly what its place in the code says
(`HoldersAreUndisturbed`, `Progress`). That last part needs the second: the only
ones who could remove such a directory are late, and they excuse it when they do.
`LifecycleInv` rests on `LoadedIsThere`: what a command loaded is still the
contract's draft unless it was removed behind its back, which `lost` records. The
assumptions used are `PatchAssumption` and `LifecycleAssumption`.

`VerificationsProofs` proves, for any packaged bundle, drafts, cases and batch:

| theorem | says |
|---|---|
| `VerifyInvHolds` | `Spec => []VerifyInv` |
| `VerificationTypeHolds` | `TypeOK` |
| `AcceptedHolds` | `AcceptedIsObserved` |
| `OnlyBrokenIsRefusedHolds` | `OnlyABrokenSuiteIsRefused` |
| `AccountedForHolds` | `OperationsAreAccountedFor` |

`AnswersAreTrue` says that an answer that was accepted is the record of an operation
that succeeded at what the call asked for, whatever the provider answered to others;
`ImagesAreTrue` follows the images from operation to operation, so that `LiveKnows`
can tell what tree each suite ran in. `AtMostOneIsUnknown` says that a spawn that
fails is the last. The assumptions used are `CasesAssumption`; `BatchAssumption`: the
nonces of a batch differ, and each invocation starts from an image that is there
before the batch is submitted, since `execute_many` submits all of them before it
awaits any (`contree.py:324`); and `BundlesAssumption`: the packaged bundle passes
`build_bundle`, and claims and tests are kept in order, as the code's tuples are. A
draft of the model's is assumed nothing of: `DraftIsUsable` judges it.

`RedTeamProofs` proves, for any set of handlers, each as long as it likes, any
scenario and any number of confirmations:

| theorem | says |
|---|---|
| `RedTeamInvHolds` | `Spec => []RedTeamInv` |
| `RedTeamTypeHolds` | `TypeOK` |
| `VerdictHolds` | `VerdictIsTheOracles` |
| `ProvenSurvivesAnyCrashes` | `SurvivesAnyCrashes`: a handler `check` calls a proven fix makes its event exactly once after any finite number of crashes |
| `ProvenSurvivesHolds` | `ProvenSurvivesEveryCrash`, the part of it that the run enumerates |

What holds of a delivery after each statement needs induction over its statements.
The library's induction theorems take a predicate, which the installed provers
cannot be given. `InductionUpTo` is the same for a *set* of numbers: every set of
numbers has a least element (`LeastNatural`, from the well-foundedness of `<` on
the naturals), so the least number an induction leaves out has no predecessor to
follow. That `Course` is the function its definition says is proved in the same
way, statement by statement (`CourseSteps`).

The first half is about the oracle alone: what a delivery knows and has seen it
keeps (`CourseExtends`); a killed delivery is the free one up to the commit it is
killed at (`KilledCourse`); what it does to the effects and the marker does not
depend on the writes around the store (`CourseIsBlind`), and so neither does what
it leaves of them (`DeliverIsBlind`); whatever commits leaves more than there was
(`CommitPlaces`). `ProvenSurvives` follows: a crash leaves nothing, a world the
oracle has seen delivered again, or what a delivery of one of those leaves, and by
the sweep all of them end exactly once.

The second half relates the engine to it. `VerdictIsTheOracles` speaks of the end
only; `RedTeamInv` says of every step that the oracle's delivery has come as far and
still runs, and that both worlds hold the same (`Holds`): the rows, the marker and
the files are the oracle's, the ledger counts no effect that is not there, and it
explains the database exactly until the oracle's `raw_db`. `Kept` says that what the
store has reported is one operation for each commit of the oracle's trace (`Made`).
From there:

* a commit is one for both, the controller explains it unless the oracle's probe
  sees a write around the store (`CommitHolds`), and the engine's kill is due at the
  oracle's boundary (`CommitIs`: the first commit after which one effect is durable);
* the engine ends a delivery where the oracle does, and compares the directory and
  the database where the oracle scans (`EndKeeps`); what was seen spoils the world
  for good (`SeenFails`);
* so each receipt tells what the oracle's world would, or that it is none
  (`BoundaryFits`, `CensusFits`, `SweepFits`), each world of a sweep is killed at one
  of the oracle's points (`CensusPoints`), and no boundary world splits from the
  census (`NeverSplits`);
* `JudgedIs` then compares the rules: the engine's over receipts, the oracle's over
  worlds, and the validators' (`PublishableIs`).

`RedTeamInv` was first checked by TLC over every handler of at most three statements.
The assumptions used are `HandlersAssumption`, `EvidenceAssumption` and
`ScenarioAssumption`.

Only model-checked:

* `EveryWorldEnds` and `EveryVerificationEnds`: liveness under fairness and the
  ENABLED it rests on are out of the prover's reach.
* The four violations: a counterexample needs no proof.

No model has a RECURSIVE operator: a schedule is summed up by counting, and a
delivery is a recursive function of the number of its statements.

## 5. What is abstracted, and what is left out

* Digests, nonces, ids and timestamps: equality of what they digest. Nothing in
  a model collides.
* JSON framing and its size limits: a malformed message is one of
  `StepFailures`.
* SQL text: an act of the handler either leaves unexplained content, or commits
  and undoes itself.
* A child outside the worker's process group that holds no pipe is outside
  local mode's boundary by `docs/SECURITY.md`; the model keeps it, and the
  properties about what lies between two deliveries exclude it by name.
* A local suite can leave a process that holds no pipe of it and writes into a
  tree or into the shared bundle later; the verifier looks at the bundle only in
  live mode (`docs/SECURITY.md` says so). The model has the suite's own writes.
* The bytes of a candidate's file: a copy or a removal of one file is one step,
  and so is the digest of a tree and the operator's deletion of one.
* The rules on the syntax of a model's module (`_validate_module`): it is
  accepted, or nothing is written.
* Not modelled, with the reason of each in `PROJECT.json`: the HTTP client of the
  model, argument parsing
  and rendering, the benchmark's tabulation, hashing, and development tools.

## 6. The plan

1. The crash world, its promise, its proofs; the rules; `check`. *Done.*
2. `replay` and `map`, with the proofs about `Commands`. *Done.*
3. The evidence store and the contract lifecycle, with their proofs. *Done.*
4. The red team's oracle and its comparison with the engine, with its proofs for
   handlers of any length. *Done.*
5. The scratch guard, with the proofs of `RaisedOnlyForATrespass` and
   `OnlyTheseChannelsStayOpen`. *Done.*
6. The differential verifier, local and live, and the provider's batch client, with
   their proofs. *Done.*
7. Further proofs about the world: where it is killed, what forfeits its evidence,
   the step simulation of `WorldPromise`. *Done.*
8. The staging of an agent's patch, two proposals at once, with its proofs. *Done.*
