---------------------------- MODULE Differential ----------------------------
(***************************************************************************)
(* The rules of the differential verifier (nemisis verify): what a bundle  *)
(* of claims and tests must be, what a JUnit report says of its tests,     *)
(* what two outcomes say of a claim, and what a manifest must be to be     *)
(* published.                                                              *)
(*                                                                         *)
(* A claim is [id, relation, links]; a test is [id, claim, relation]; a    *)
(* bundle, and a model's draft of one, is [claims, tests], two sequences.  *)
(***************************************************************************)
EXTENDS Naturals, Sequences, SequencesExt, Functions

CONSTANTS
    Fixture,    \* the packaged bundle
    Reserved,   \* the ids with the prefix reserved for the model
    Cases       \* the test cases a report may hold

Relation == {"change", "preserve"}

Outcome == {"PASS", "ASSERTION_FAIL", "ERROR", "TIMEOUT", "NOT_RUN"}

Ids(specs) == {spec.id : spec \in ToSet(specs)}

Unique(specs) == IsInjective([i \in DOMAIN specs |-> specs[i].id])

OwnedBy(claim, tests) == {test.id : test \in {t \in ToSet(tests) : t.claim = claim.id}}

\* A test is linked by the claim it names, and promises what the claim does.
IsLinked(test, claims) ==
    \E claim \in ToSet(claims) :
        /\ claim.id = test.claim
        /\ test.id \in claim.links
        /\ test.relation = claim.relation

\* nemotron._validate_payload: what is asked of a model's draft alone.
DraftIsUsable(draft) ==
    /\ Unique(draft.claims) /\ Unique(draft.tests)
    /\ Ids(draft.claims) \subseteq Reserved /\ Ids(draft.tests) \subseteq Reserved
    /\ \A test \in ToSet(draft.tests) : IsLinked(test, draft.claims)
    /\ UNION {claim.links : claim \in ToSet(draft.claims)} = Ids(draft.tests)
    /\ Ids(draft.claims) = {test.claim : test \in ToSet(draft.tests)}

\* build_bundle: what is asked of every bundle.
BundleIsLinked(bundle) ==
    /\ bundle.claims # <<>> /\ bundle.tests # <<>>
    /\ Unique(bundle.claims) /\ Unique(bundle.tests)
    /\ \A test \in ToSet(bundle.tests) : IsLinked(test, bundle.claims)
    /\ \A claim \in ToSet(bundle.claims) : claim.links = OwnedBy(claim, bundle.tests)

\* The draft is put after the packaged claims and tests.
WithDraft(draft) ==
    [claims |-> Fixture.claims \o draft.claims, tests |-> Fixture.tests \o draft.tests]

----------------------------------------------------------------------------
(* One suite: how its process ended, and the report it left.  A case is    *)
(* how often the report has the test, the element in it, and the marker    *)
(* the harness wrote.                                                      *)

Ending == {"passed", "failed", "broken", "timeout"}     \* exit 0, 1, another; killed

Unusable == <<>>    \* no report, no XML, too large, or a test it should not have

Case ==
    [times : 0..2, child : {"none", "failure", "error", "skipped"}, marker : Outcome]

ASSUME CasesAssumption == Cases \subseteq Case

\* junit._outcome
OutcomeOf(case) ==
    CASE case.times = 0 -> "NOT_RUN"
      [] case.times > 1 \/ case.child = "error" -> "ERROR"
      [] case.times = 1 /\ case.child = "skipped" -> "NOT_RUN"
      [] case.times = 1 /\ case.child = "failure" ->
             IF case.marker = "ASSERTION_FAIL" THEN "ASSERTION_FAIL" ELSE "ERROR"
      [] OTHER -> IF case.marker = "PASS" THEN "PASS" ELSE "ERROR"

AnyFailed(outcomes) == \E test \in DOMAIN outcomes : outcomes[test] \in {"ASSERTION_FAIL", "ERROR"}

\* Fault: the exit code is not held against the report.
ParseWithoutTheExitCode(suite, tests) ==
    CASE suite.ended = "timeout" -> [test \in tests |-> "TIMEOUT"]
      [] suite.ended = "broken" \/ suite.report = Unusable -> [test \in tests |-> "ERROR"]
      [] OTHER -> [test \in tests |-> OutcomeOf(suite.report[test])]

ParseJunit(suite, tests) ==
    LET everyTest(outcome) == [test \in tests |-> outcome]
        reported == [test \in tests |-> OutcomeOf(suite.report[test])]
    IN  CASE suite.ended = "timeout" -> everyTest("TIMEOUT")
          [] suite.ended = "broken" \/ suite.report = Unusable -> everyTest("ERROR")
          [] OTHER -> IF (suite.ended = "failed") = AnyFailed(reported)
                      THEN reported ELSE everyTest("ERROR")

Complete(outcomes) == \A test \in DOMAIN outcomes : outcomes[test] \in {"PASS", "ASSERTION_FAIL"}

----------------------------------------------------------------------------
(* The matrix.                                                             *)

Classify(relation, base, candidate) ==
    CASE {base, candidate} \intersect {"ERROR", "TIMEOUT", "NOT_RUN"} # {} -> "INCOMPLETE"
      [] <<base, candidate>> = <<"PASS", "ASSERTION_FAIL">> -> "REGRESSION"
      [] <<base, candidate>> = <<"PASS", "PASS">> ->
             IF relation = "change" THEN "NON_DISCRIMINATING" ELSE "SUPPORTED"
      [] <<base, candidate>> = <<"ASSERTION_FAIL", "PASS">> /\ relation = "change" -> "SUPPORTED"
      [] OTHER -> "UNRESOLVED"

\* outcomes: what each world's suite said of each test.
Classes(claim, tests, outcomes) ==
    {Classify(test.relation, outcomes["base"][test.id], outcomes["candidate"][test.id]) :
        test \in {t \in ToSet(tests) : t.claim = claim.id}}

\* summarize_claim
Supported(claim, tests, outcomes) == Classes(claim, tests, outcomes) = {"SUPPORTED"}

CandidateIsAccepted(bundle, outcomes) ==
    \A claim \in ToSet(bundle.claims) : Supported(claim, bundle.tests, outcomes)

\* validate_manifest, where it reads evidence and not what was computed from
\* it: the base tree is the bound one, and each suite ended with an exit code
\* that its outcomes bear out.
ManifestIsCoherent(trees, suites, outcomes) ==
    /\ trees["base"] = "base"
    /\ \A world \in DOMAIN suites :
          /\ suites[world].ended \in {"passed", "failed"}
          /\ (suites[world].ended = "failed") = AnyFailed(outcomes[world])
=============================================================================
