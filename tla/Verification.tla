---------------------------- MODULE Verification ----------------------------
(***************************************************************************)
(* What the runs of the differential verifier share: the state of one run, *)
(* local, live, or a batch of live invocations alone, and the judgement of *)
(* two suites.  LocalRun and LiveRun add how the suites come about.        *)
(***************************************************************************)
EXTENDS Differential

CONSTANTS
    Drafts,     \* what the model may propose
    Batch       \* the invocations of a batch, in order

VARIABLES
    mode,
    stage,      \* what the run does next
    bundle,     \* the claims and tests
    outcome,
    \* a local run
    trees,      \* the tree of each world, as its files are
    suites,     \* the suites that ran: how they ended, and their report
    process,    \* the suite's process group
    left,       \* the suite whose process exited
    holder,     \* a descendant outside the group holds a pipe of the suite
    \* a live run
    operations, \* the provider's, by its id, which is its result image's too
    calls,      \* the spawns that were answered: what was asked, the id that
                \* was told, and the operation accepted as its execution
    cut         \* a spawn of the batch failed

local == <<trees, suites, process, left, holder>>
live == <<operations, calls, cut>>
vars == <<mode, stage, bundle, outcome, local, live>>

World == {"base", "candidate"}

Tree == {"base", "candidate", "strange"}

TestIds == Ids(bundle.tests)

Reports(tests) == [tests -> Cases] \union {Unusable}

Suite(tests) == [ended : Ending, report : Reports(tests)]

NoSuite == [ended |-> "timeout", report |-> Unusable]

RootImage == 0

Request ==
    [source : Nat, job : {"prepare", "base", "candidate", "suite"}, nonce : Nat]

\* A batch is submitted before any of it is awaited: no image it is given is
\* one of its own results, and the root stands for all of them.
ASSUME BatchAssumption ==
    /\ Batch \in Seq(Request) \ {<<>>}
    /\ \A i \in DOMAIN Batch : Batch[i].source = RootImage
    /\ IsInjective([i \in DOMAIN Batch |-> Batch[i].nonce])

\* The packaged bundle passes build_bundle; claims and tests are kept in order.
ASSUME BundlesAssumption ==
    /\ BundleIsLinked(Fixture)
    /\ \A some \in {Fixture} \union Drafts :
          /\ some.claims \in Seq(ToSet(some.claims))
          /\ some.tests \in Seq(ToSet(some.tests))

\* A call's answer: none yet, one that was refused, or the operation's id.
Waiting == 0
Failed == -1

TypeOK ==
    /\ mode \in {"local", "live", "batch"}
    /\ stage \in {"bind", "base", "candidate", "calls", "submit", "await", "judge", "done"}
    /\ bundle \in {Fixture} \union {WithDraft(draft) : draft \in Drafts}
    /\ outcome \in {"none", "accepted", "rejected", "refused", "raised", "returned", "batch failed"}
    /\ trees \in [World -> Tree]
    /\ DOMAIN suites \subseteq World
    /\ \A world \in DOMAIN suites : suites[world] \in Suite(TestIds)
    /\ process \in {"none", "running", "exited", "killed", "interrupted"}
    /\ process # "none" => stage \in World
    /\ left \in Suite(TestIds)
    /\ holder \in BOOLEAN
    /\ \A k \in DOMAIN operations :
          /\ operations[k].request \in Request
          /\ operations[k].request.source < k
          /\ operations[k].status \in {"running", "success", "failed"}
          /\ operations[k].tree \in Tree
          /\ operations[k].suite \in Suite(TestIds)
    /\ \A i \in DOMAIN calls :
          /\ calls[i].request \in Request
          /\ calls[i].id \in DOMAIN operations
          /\ calls[i].answer \in {Waiting, Failed, calls[i].id}
    /\ cut \in BOOLEAN

Init ==
    /\ mode \in {"local", "live", "batch"}
    /\ stage = IF mode = "batch" THEN "submit" ELSE "bind"
    /\ bundle = Fixture
    /\ outcome = "none"
    /\ trees = [world \in World |-> world]
    /\ suites = <<>>
    /\ process = "none" /\ left = NoSuite
    /\ holder = FALSE
    /\ operations = <<>> /\ calls = <<>> /\ cut = FALSE

End(result) == stage' = "done" /\ outcome' = result

\* Nothing is published: an exception that is none of the verdicts.
Raises == End("raised")

Verdict(outcomes) == IF CandidateIsAccepted(bundle, outcomes) THEN "accepted" ELSE "rejected"

\* The manifest is built, validated, and published with what it says.
Conclude(observed, ranOn) ==
    LET outcomes == [world \in World |-> ParseJunit(observed[world], TestIds)]
    IN  End(IF ManifestIsCoherent(ranOn, observed, outcomes) THEN Verdict(outcomes) ELSE "refused")
=============================================================================
