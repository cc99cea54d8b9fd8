------------------------ MODULE VerificationsProofs ------------------------
(***************************************************************************)
(* What a run of the differential verifier promises, for any bundle, any   *)
(* drafts of the model and any batch.                                      *)
(*                                                                         *)
(* The invariant follows a run from the images and suites it was given to  *)
(* the verdict: an answer that was accepted is the record of what was      *)
(* asked, no record changes once it succeeded, and each world's suite ran  *)
(* on the image that was made for it.                                      *)
(***************************************************************************)
EXTENDS Verifications, FiniteSetTheorems, SequenceTheorems, TLAPS

Operation ==
    [request : Request, status : {"running", "success", "failed"}, exit : {0, 1},
     tree : Tree, suite : Suite(TestIds)]

Call == [request : Request, id : Nat, answer : Int]

RecordsAreInOrder == operations \in Seq(Operation) /\ calls \in Seq(Call)

\* The bundle is one that build_bundle passed.
BundleStands == BundleIsLinked(bundle) /\ bundle.tests \in Seq(ToSet(bundle.tests))

\* Each kind of run has stages and outcomes of its own.
EachRunIsOfItsKind ==
    /\ CASE stage \in World \union {"judge"} -> mode = "local"
         [] stage = "bind" -> mode \in {"local", "live"}
         [] stage = "calls" -> mode = "live"
         [] stage \in {"submit", "await"} -> mode = "batch"
         [] OTHER -> outcome \in CASE mode = "local" -> {"accepted", "rejected", "refused", "raised"}
                                   [] mode = "live" -> {"accepted", "rejected", "raised"}
                                   [] mode = "batch" -> {"returned", "batch failed", "raised"}
    /\ stage # "done" => outcome = "none"
    /\ mode = "local" \/ stage = "bind" => operations = <<>> /\ calls = <<>>
    /\ mode # "local" => DOMAIN suites = {} /\ left = NoSuite
    /\ cut => mode = "batch"

LocalKnows ==
    mode = "local" =>
        /\ stage = "candidate" => "base" \in DOMAIN suites
        /\ stage = "judge" => DOMAIN suites = World /\ trees["candidate"] = "candidate"

\* A record that an answer was taken from succeeded, and is of what was asked.
AnswersAreTrue ==
    \A i \in DOMAIN calls :
        calls[i].answer = calls[i].id =>
            /\ operations[calls[i].id].status = "success"
            /\ operations[calls[i].id].request = calls[i].request

\* An image was finished before it was given to an operation, and a suite
\* leaves the tree that it ran in.
ImagesAreTrue ==
    \A k \in DOMAIN operations :
        LET source == operations[k].request.source
        IN  /\ source # RootImage => operations[source].status = "success"
            /\ operations[k].status = "success" /\ operations[k].request.job = "suite" =>
                   operations[k].tree = TreeOf(source)

\* The calls of a live run, in their order, each made once the one before it
\* was answered; the worlds have their trees when the suites are asked for.
LiveKnows ==
    mode = "live" =>
        /\ Len(calls) <= 5
        /\ \A i \in DOMAIN calls :
              /\ calls[i].request = LiveRequest(i)
              /\ i < Len(calls) => calls[i].answer = calls[i].id
        /\ stage # "done" => ~AnyFailedCall
        /\ Len(calls) >= 4 => \A i \in {2, 3} :
              operations[calls[i].answer].tree = LiveRequest(i).job
        /\ outcome \in {"accepted", "rejected"} => Len(calls) = 5 /\ Idle /\ ~AnyFailedCall

\* A batch is asked for in its order, and in full unless a spawn failed.
BatchKnows ==
    mode = "batch" =>
        /\ Len(calls) <= Len(Batch)
        /\ \A i \in DOMAIN calls : calls[i].request = Batch[i]
        /\ stage = "await" /\ ~cut => Len(calls) = Len(Batch)
        /\ cut => stage \in {"await", "done"}
        /\ outcome \in {"returned", "batch failed"} => Idle
        /\ outcome = "returned" => ~cut /\ ~AnyFailedCall /\ Len(calls) = Len(Batch)

\* Only a failed spawn leaves an operation that no call knows, and it is the last.
AtMostOneIsUnknown ==
    /\ stage \in {"bind", "submit", "calls"} => Unknown = {}
    /\ Unknown = {} \/ \E k \in DOMAIN operations : Unknown = {k}
    /\ Unknown # {} => cut \/ outcome = "raised"

VerifyInv ==
    /\ TypeOK /\ RecordsAreInOrder /\ BundleStands
    /\ EachRunIsOfItsKind /\ LocalKnows
    /\ AnswersAreTrue /\ ImagesAreTrue /\ LiveKnows /\ BatchKnows /\ AtMostOneIsUnknown
    /\ AcceptedIsObserved /\ OnlyABrokenSuiteIsRefused
----------------------------------------------------------------------------
(* What a report says.                                                     *)

LEMMA ParseTypes ==
    ASSUME NEW tests, NEW suite
    PROVE  DOMAIN ParseJunit(suite, tests) = tests
BY DEF ParseJunit

LEMMA OutcomesTell ==
    ASSUME NEW case \in Case
    PROVE  /\ OutcomeOf(case) = "PASS" =>
                  case.times = 1 /\ case.child = "none" /\ case.marker = "PASS"
           /\ OutcomeOf(case) = "ASSERTION_FAIL" =>
                  case.times = 1 /\ case.child = "failure" /\ case.marker = "ASSERTION_FAIL"
BY DEF OutcomeOf, Case, Outcome

\* A test that passed or failed by assertion is so in a report that agrees with
\* the exit code.
LEMMA ParseTells ==
    ASSUME NEW tests, NEW suite \in Suite(tests), NEW test \in tests,
           ParseJunit(suite, tests)[test] \in {"PASS", "ASSERTION_FAIL"}
    PROVE  /\ suite.ended \in {"passed", "failed"} /\ suite.report \in [tests -> Cases]
           /\ (suite.ended = "failed") = AnyFailed(ParseJunit(suite, tests))
           /\ ParseJunit(suite, tests)[test] = OutcomeOf(suite.report[test])
<1> DEFINE reported == [t \in tests |-> OutcomeOf(suite.report[t])]
<1>1. suite.ended \in Ending /\ suite.report \in [tests -> Cases] \union {Unusable}
  BY DEF Suite, Reports
<1>2. suite.ended # "timeout" /\ suite.ended # "broken" /\ suite.report # Unusable
  BY DEF ParseJunit
<1>3. ParseJunit(suite, tests) =
          IF (suite.ended = "failed") = AnyFailed(reported) THEN reported
          ELSE [t \in tests |-> "ERROR"]
  BY <1>2 DEF ParseJunit
<1>4. ParseJunit(suite, tests) = reported /\ (suite.ended = "failed") = AnyFailed(reported)
  BY <1>3
<1> QED
  BY <1>1, <1>2, <1>4 DEF Ending

\* validate_manifest's look at a suite, by its evidence alone.
Broken(suite, tests) ==
    \/ suite.ended \in {"timeout", "broken"}
    \/ /\ suite.ended = "passed"
       /\ suite.report = Unusable \/ AnyFailed(ParseJunit(suite, tests))

LEMMA CoherenceTells ==
    ASSUME NEW tests, tests # {}, NEW suite \in Suite(tests)
    PROVE  Broken(suite, tests) <=>
               ~ (/\ suite.ended \in {"passed", "failed"}
                  /\ (suite.ended = "failed") = AnyFailed(ParseJunit(suite, tests)))
<1> DEFINE reported == [t \in tests |-> OutcomeOf(suite.report[t])]
           failing == [t \in tests |-> "ERROR"]
<1>1. suite.ended \in Ending
  BY DEF Suite
<1>2. AnyFailed(failing)
  BY DEF AnyFailed
<1>3. CASE suite.ended \notin {"passed", "failed"}
  BY <1>1, <1>3 DEF Ending, Broken
<1>4. CASE suite.ended \in {"passed", "failed"} /\ suite.report = Unusable
  <2>1. ParseJunit(suite, tests) = failing
    BY <1>4 DEF ParseJunit
  <2> QED
    BY <1>2, <1>4, <2>1 DEF Broken
<1>5. CASE suite.ended \in {"passed", "failed"} /\ suite.report # Unusable
  <2>1. ParseJunit(suite, tests) =
            IF (suite.ended = "failed") = AnyFailed(reported) THEN reported ELSE failing
    BY <1>5 DEF ParseJunit
  <2>2. suite.ended = "failed" => AnyFailed(ParseJunit(suite, tests))
    BY <1>2, <2>1
  <2>3. AnyFailed(ParseJunit(suite, tests)) \in BOOLEAN
    BY DEF AnyFailed
  <2> QED
    BY <1>5, <2>2, <2>3 DEF Broken
<1> QED
  BY <1>3, <1>4, <1>5

LEMMA CompleteIsCoherent ==
    ASSUME NEW tests, tests # {}, NEW suite \in Suite(tests),
           Complete(ParseJunit(suite, tests))
    PROVE  /\ suite.ended \in {"passed", "failed"}
           /\ (suite.ended = "failed") = AnyFailed(ParseJunit(suite, tests))
<1>1. PICK test \in tests : TRUE
  OBVIOUS
<1>2. ParseJunit(suite, tests)[test] \in {"PASS", "ASSERTION_FAIL"}
  BY ParseTypes DEF Complete
<1> QED
  BY <1>2, ParseTells

----------------------------------------------------------------------------
(* What the matrix says.                                                   *)

LEMMA SupportTells ==
    ASSUME NEW b, BundleIsLinked(b), NEW outcomes, CandidateIsAccepted(b, outcomes),
           NEW test \in ToSet(b.tests)
    PROVE  /\ outcomes["candidate"][test.id] = "PASS"
           /\ outcomes["base"][test.id] =
                  IF test.relation = "change" THEN "ASSERTION_FAIL" ELSE "PASS"
<1>1. PICK claim \in ToSet(b.claims) : claim.id = test.claim
  BY DEF BundleIsLinked, IsLinked
<1>2. Classes(claim, b.tests, outcomes) = {"SUPPORTED"}
  BY DEF CandidateIsAccepted, Supported
<1>3. Classify(test.relation, outcomes["base"][test.id], outcomes["candidate"][test.id])
          \in Classes(claim, b.tests, outcomes)
  BY <1>1 DEF Classes
<1>4. Classify(test.relation, outcomes["base"][test.id], outcomes["candidate"][test.id])
          = "SUPPORTED"
  BY <1>2, <1>3
<1> HIDE <1>1, <1>2, <1>3
<1> QED
  BY <1>4 DEF Classify

LEMMA BundleHasTests ==
    ASSUME NEW b, BundleIsLinked(b), b.tests \in Seq(ToSet(b.tests))
    PROVE  Ids(b.tests) # {} /\ \A id \in Ids(b.tests) : \E t \in ToSet(b.tests) : t.id = id
<1>1. b.tests # <<>>
  BY DEF BundleIsLinked
<1>2. 1 \in DOMAIN b.tests
  BY <1>1
<1>3. b.tests[1] \in ToSet(b.tests)
  BY <1>2 DEF ToSet
<1> QED
  BY <1>3 DEF Ids

LEMMA OwnRange ==
    ASSUME NEW T, NEW s \in Seq(T)
    PROVE  s \in Seq(ToSet(s))
<1>1. s \in [1..Len(s) -> T] /\ Len(s) \in Nat
  OBVIOUS
<1>2. s \in [1..Len(s) -> ToSet(s)]
  BY <1>1 DEF ToSet
<1> QED
  BY <1>1, <1>2, SeqDef

\* A draft is put after the packaged tests, which stay.
LEMMA DraftsAreAppended ==
    ASSUME NEW draft \in Drafts
    PROVE  /\ WithDraft(draft).tests \in Seq(ToSet(WithDraft(draft).tests))
           /\ ToSet(Fixture.tests) \subseteq ToSet(WithDraft(draft).tests)
<1> DEFINE packaged == Fixture.tests
           more == draft.tests
           tests == packaged \o more
<1>1. WithDraft(draft).tests = tests
  BY DEF WithDraft
<1>2. packaged \in Seq(ToSet(packaged)) /\ more \in Seq(ToSet(more))
  BY BundlesAssumption
<1> HIDE DEF packaged, more
<1>3. /\ Len(tests) = Len(packaged) + Len(more)
      /\ DOMAIN tests = 1..Len(tests) /\ Len(tests) \in Nat
      /\ DOMAIN packaged = 1..Len(packaged) /\ Len(packaged) \in Nat
      /\ \A i \in DOMAIN packaged : tests[i] = packaged[i]
  BY <1>2
<1>4. tests \in Seq(ToSet(packaged) \union ToSet(more))
  BY <1>2
<1>5. \A i \in DOMAIN tests : tests[i] \in ToSet(tests)
  BY DEF ToSet
<1>6. tests \in Seq(ToSet(tests))
  BY <1>4, OwnRange
<1>7. ToSet(packaged) \subseteq ToSet(tests)
  <2>1. DOMAIN packaged \subseteq DOMAIN tests
    BY <1>2, <1>3
  <2> QED
    BY <1>3, <2>1 DEF ToSet
<1> QED
  BY <1>1, <1>6, <1>7 DEF packaged

LEMMA FixtureIsKept ==
    ASSUME TypeOK
    PROVE  ToSet(Fixture.tests) \subseteq ToSet(bundle.tests)
BY DraftsAreAppended DEF TypeOK

\* What two suites say of the base and of the candidate when it is accepted.
Shows(observed) ==
    /\ \A test \in ToSet(bundle.tests) :
          LET cell(world) == observed[world].report[test.id]
          IN  /\ cell("candidate").times = 1
              /\ cell("candidate").child = "none" /\ cell("candidate").marker = "PASS"
              /\ cell("base").times = 1
              /\ test.relation = "change" =>
                     cell("base").child = "failure" /\ cell("base").marker = "ASSERTION_FAIL"
              /\ test.relation # "change" =>
                     cell("base").child = "none" /\ cell("base").marker = "PASS"
    /\ observed["candidate"].ended = "passed"
    /\ observed["base"].ended =
           IF \E test \in ToSet(bundle.tests) : test.relation = "change"
           THEN "failed" ELSE "passed"

LEMMA AcceptanceShows ==
    ASSUME BundleStands,
           NEW observed, \A world \in World : observed[world] \in Suite(TestIds),
           CandidateIsAccepted(bundle,
               [world \in World |-> ParseJunit(observed[world], TestIds)])
    PROVE  Shows(observed)
<1> DEFINE outcomes == [world \in World |-> ParseJunit(observed[world], TestIds)]
           said(world) == ParseJunit(observed[world], TestIds)
<1>1. \A world \in World : outcomes[world] = said(world)
  OBVIOUS
<1>2. "base" \in World /\ "candidate" \in World
  BY DEF World
<1>3. /\ \A test \in ToSet(bundle.tests) : test.id \in TestIds
      /\ \A id \in TestIds : \E test \in ToSet(bundle.tests) : test.id = id
      /\ TestIds # {}
  BY BundleHasTests DEF TestIds, BundleStands, Ids
<1>4. \A test \in ToSet(bundle.tests) :
          /\ said("candidate")[test.id] = "PASS"
          /\ said("base")[test.id] = IF test.relation = "change" THEN "ASSERTION_FAIL" ELSE "PASS"
  <2>1. \A test \in ToSet(bundle.tests) :
          /\ outcomes["candidate"][test.id] = "PASS"
          /\ outcomes["base"][test.id] =
                 IF test.relation = "change" THEN "ASSERTION_FAIL" ELSE "PASS"
    BY SupportTells DEF BundleStands
  <2> QED
    BY <1>1, <1>2, <2>1
<1>5. \A test \in ToSet(bundle.tests) : \A world \in World :
          /\ observed[world].ended \in {"passed", "failed"}
          /\ observed[world].report[test.id] \in Case
          /\ (observed[world].ended = "failed") = AnyFailed(said(world))
          /\ said(world)[test.id] = OutcomeOf(observed[world].report[test.id])
  <2> SUFFICES ASSUME NEW test \in ToSet(bundle.tests), NEW world \in World
               PROVE  /\ observed[world].ended \in {"passed", "failed"}
                      /\ observed[world].report[test.id] \in Case
                      /\ (observed[world].ended = "failed") = AnyFailed(said(world))
                      /\ said(world)[test.id] = OutcomeOf(observed[world].report[test.id])
    OBVIOUS
  <2>1. said(world)[test.id] \in {"PASS", "ASSERTION_FAIL"}
    BY <1>4 DEF World
  <2> HIDE DEF said
  <2>2. /\ observed[world].ended \in {"passed", "failed"}
        /\ observed[world].report \in [TestIds -> Cases]
        /\ (observed[world].ended = "failed") = AnyFailed(said(world))
        /\ said(world)[test.id] = OutcomeOf(observed[world].report[test.id])
    BY <1>3, <2>1, ParseTells DEF said
  <2> QED
    BY <1>3, <2>2, CasesAssumption
<1>6. \A world \in World : DOMAIN said(world) = TestIds
  BY ParseTypes
<1> HIDE DEF said, outcomes
<1>7. ~AnyFailed(said("candidate"))
  BY <1>2, <1>3, <1>4, <1>6 DEF AnyFailed
<1>8. AnyFailed(said("base")) <=> \E test \in ToSet(bundle.tests) : test.relation = "change"
  BY <1>2, <1>3, <1>4, <1>6 DEF AnyFailed
<1>9. PICK some \in ToSet(bundle.tests) : TRUE
  BY <1>3
<1>10. observed["candidate"].ended = "passed"
  BY <1>2, <1>5, <1>7, <1>9
<1>11. observed["base"].ended =
           IF \E test \in ToSet(bundle.tests) : test.relation = "change"
           THEN "failed" ELSE "passed"
  BY <1>2, <1>5, <1>8, <1>9
<1>12. ASSUME NEW test \in ToSet(bundle.tests)
       PROVE  LET cell(world) == observed[world].report[test.id]
              IN  /\ cell("candidate").times = 1
                  /\ cell("candidate").child = "none" /\ cell("candidate").marker = "PASS"
                  /\ cell("base").times = 1
                  /\ test.relation = "change" =>
                         cell("base").child = "failure" /\ cell("base").marker = "ASSERTION_FAIL"
                  /\ test.relation # "change" =>
                         cell("base").child = "none" /\ cell("base").marker = "PASS"
  BY <1>2, <1>4, <1>5, <1>12, OutcomesTell
<1> QED
  BY <1>10, <1>11, <1>12 DEF Shows

\* What a manifest that was built leads to.
LEMMA VerdictTells ==
    ASSUME BundleStands,
           NEW observed, DOMAIN observed = World,
           \A world \in World : observed[world] \in Suite(TestIds),
           NEW ranOn, Conclude(observed, ranOn)
    PROVE  /\ stage' = "done" /\ outcome' \in {"accepted", "rejected", "refused"}
           /\ outcome' = "refused" <=>
                  ranOn["base"] # "base" \/ \E world \in World : Broken(observed[world], TestIds)
           /\ outcome' = "accepted" => Shows(observed)
<1> DEFINE outcomes == [world \in World |-> ParseJunit(observed[world], TestIds)]
<1>1. /\ stage' = "done"
      /\ outcome' = IF ManifestIsCoherent(ranOn, observed, outcomes)
                    THEN Verdict(outcomes) ELSE "refused"
  BY DEF Conclude, End
<1>2. TestIds # {}
  BY BundleHasTests DEF TestIds, BundleStands
<1>3. \A world \in World :
          Broken(observed[world], TestIds) <=>
              ~ (/\ observed[world].ended \in {"passed", "failed"}
                 /\ (observed[world].ended = "failed") = AnyFailed(outcomes[world]))
  BY <1>2, CoherenceTells
<1>4. ManifestIsCoherent(ranOn, observed, outcomes) <=>
          ranOn["base"] = "base" /\ \A world \in World : ~Broken(observed[world], TestIds)
  BY <1>3 DEF ManifestIsCoherent
<1>5. outcome' = "accepted" => CandidateIsAccepted(bundle, outcomes)
  BY <1>1 DEF Verdict
<1>6. outcome' = "accepted" => Shows(observed)
  BY <1>5, AcceptanceShows
<1> HIDE DEF outcomes
<1> QED
  BY <1>1, <1>4, <1>6 DEF Verdict

----------------------------------------------------------------------------
(* The invariant holds at first.                                           *)

LEMMA NoSuiteType == \A tests : NoSuite \in Suite(tests)
BY DEF NoSuite, Suite, Reports, Ending, Unusable

LEMMA InitVerifies ==
    ASSUME Init
    PROVE  VerifyInv
<1>1. TypeOK
  <2>1. trees \in [World -> Tree]
    BY DEF Init, World, Tree
  <2>2. DOMAIN suites = {} /\ DOMAIN operations = {} /\ DOMAIN calls = {}
    BY DEF Init
  <2>3. left \in Suite(TestIds)
    BY NoSuiteType DEF Init
  <2> QED
    BY <2>1, <2>2, <2>3 DEF Init, TypeOK
<1>2. RecordsAreInOrder
  BY DEF Init, RecordsAreInOrder
<1>3. BundleStands
  BY BundlesAssumption DEF Init, BundleStands
<1>4. EachRunIsOfItsKind
  BY DEF Init, EachRunIsOfItsKind, World
<1>5. LocalKnows
  BY DEF Init, LocalKnows
<1>6. AnswersAreTrue /\ ImagesAreTrue
  BY DEF Init, AnswersAreTrue, ImagesAreTrue
<1>7. LiveKnows
  BY DEF Init, LiveKnows, AnyFailedCall
<1>8. BatchKnows
  BY BatchAssumption DEF Init, BatchKnows
<1>9. AtMostOneIsUnknown
  BY DEF Init, AtMostOneIsUnknown, Unknown
<1>10. AcceptedIsObserved /\ OnlyABrokenSuiteIsRefused
  BY DEF Init, AcceptedIsObserved, OnlyABrokenSuiteIsRefused
<1> QED
  BY <1>1, <1>2, <1>3, <1>4, <1>5, <1>6, <1>7, <1>8, <1>9, <1>10 DEF VerifyInv

----------------------------------------------------------------------------
(* What a step that leaves a part alone keeps.                             *)

LEMMA RecordsStand ==
    ASSUME VerifyInv, UNCHANGED <<bundle, operations, calls>>
    PROVE  RecordsAreInOrder' /\ BundleStands' /\ AnswersAreTrue' /\ ImagesAreTrue'
<1>1. TestIds' = TestIds
  BY DEF TestIds
<1>2. RecordsAreInOrder'
  BY <1>1 DEF VerifyInv, RecordsAreInOrder, Operation
<1>3. BundleStands'
  BY DEF VerifyInv, BundleStands
<1>4. AnswersAreTrue'
  BY DEF VerifyInv, AnswersAreTrue
<1>5. ImagesAreTrue'
  BY DEF VerifyInv, ImagesAreTrue, TreeOf
<1> QED
  BY <1>2, <1>3, <1>4, <1>5

LEMMA CallsStand ==
    ASSUME VerifyInv, UNCHANGED <<mode, stage, outcome, operations, calls, cut>>
    PROVE  LiveKnows' /\ BatchKnows' /\ AtMostOneIsUnknown'
<1>1. LiveKnows'
  <2>1. \A i : LiveRequest(i)' = LiveRequest(i)
    BY DEF LiveRequest
  <2> QED
    BY <2>1 DEF VerifyInv, LiveKnows, AnyFailedCall, Idle
<1>2. BatchKnows'
  BY DEF VerifyInv, BatchKnows, AnyFailedCall, Idle
<1>3. AtMostOneIsUnknown'
  BY DEF VerifyInv, AtMostOneIsUnknown, Unknown
<1> QED
  BY <1>1, <1>2, <1>3

\* A verdict that was given stays what the suites showed.
LEMMA VerdictStands ==
    ASSUME VerifyInv, UNCHANGED <<mode, bundle, outcome, stage, suites, operations, calls>>,
           stage = "done" => UNCHANGED trees
    PROVE  AcceptedIsObserved' /\ OnlyABrokenSuiteIsRefused'
<1>1. outcome = "accepted" => stage = "done"
  BY DEF VerifyInv, EachRunIsOfItsKind
<1>2. SuitesOfRun' = SuitesOfRun
  BY DEF SuitesOfRun, LiveSuites
<1>3. AcceptedIsObserved'
  <2>1. \A world, test, child, marker :
            Says(world, test, child, marker)' = Says(world, test, child, marker)
    BY <1>2 DEF Says, Cell
  <2>2. \A world, test : SaysPassed(world, test)' = SaysPassed(world, test)
    BY <2>1 DEF SaysPassed
  <2>3. WorldsAreTheirOwn' = WorldsAreTheirOwn
    BY DEF WorldsAreTheirOwn
  <2> QED
    BY <1>1, <1>2, <2>1, <2>2, <2>3 DEF VerifyInv, AcceptedIsObserved
<1>4. OnlyABrokenSuiteIsRefused'
  <2>1. TestIds' = TestIds
    BY DEF TestIds
  <2> QED
    BY <2>1 DEF VerifyInv, OnlyABrokenSuiteIsRefused
<1> QED
  BY <1>3, <1>4

----------------------------------------------------------------------------
(* The steps of a local run.                                               *)

\* A step of a suite, its session or its limit, which leaves the verdict alone.
LEMMA QuietKeeps ==
    ASSUME VerifyInv, UNCHANGED <<mode, stage, bundle, outcome, suites, live>>,
           process' \in {"none", "running", "exited", "killed", "interrupted"},
           process' # "none" => process # "none" \/ stage \in World,
           trees' \in [World -> Tree], trees' = trees \/ process # "none",
           left' \in Suite(TestIds), left' = left \/ process # "none",
           holder' \in BOOLEAN
    PROVE  VerifyInv'
<1>1. process # "none" => stage \in World
  BY DEF VerifyInv, TypeOK
<1>2. stage \in World => mode = "local" /\ stage \notin {"judge", "done"}
  BY DEF VerifyInv, EachRunIsOfItsKind, World
<1>3. UNCHANGED <<operations, calls, cut>>
  BY DEF live
<1>4. TypeOK'
  <2>1. TestIds' = TestIds
    BY DEF TestIds
  <2>2. process' # "none" => stage' \in World
    BY <1>1
  <2>3. left' \in Suite(TestIds')
    BY <2>1
  <2>4. /\ \A world \in DOMAIN suites' : suites'[world] \in Suite(TestIds')
        /\ DOMAIN suites' \subseteq World
    BY <2>1 DEF VerifyInv, TypeOK
  <2> QED
    BY <1>3, <2>1, <2>2, <2>3, <2>4 DEF VerifyInv, TypeOK
<1>5. EachRunIsOfItsKind'
  BY <1>1, <1>2, <1>3 DEF VerifyInv, EachRunIsOfItsKind
<1>6. LocalKnows'
  BY <1>1, <1>2 DEF VerifyInv, LocalKnows
<1>7. stage = "done" => UNCHANGED trees
  BY <1>1, <1>2
<1> QED
  BY <1>3, <1>4, <1>5, <1>6, <1>7, RecordsStand, CallsStand, VerdictStands DEF VerifyInv

LEMMA SuiteStepsKeep ==
    ASSUME VerifyInv,
           StartSuite \/ SuiteTimesOut \/ SuiteIsInterrupted \/ WriteIntoTheTree
               \/ LeaveHolder \/ HolderExits \/ SuiteExits
    PROVE  VerifyInv'
<1>1. /\ trees \in [World -> Tree] /\ left \in Suite(TestIds) /\ holder \in BOOLEAN
      /\ process \in {"none", "running", "exited", "killed", "interrupted"}
      /\ process # "none" => stage \in World
  BY DEF VerifyInv, TypeOK
<1>2. CASE StartSuite
  BY <1>1, <1>2, QuietKeeps DEF StartSuite
<1>3. CASE SuiteTimesOut
  BY <1>1, <1>3, QuietKeeps DEF SuiteTimesOut
<1>4. CASE SuiteIsInterrupted
  BY <1>1, <1>4, QuietKeeps DEF SuiteIsInterrupted
<1>5. CASE WriteIntoTheTree
  <2>1. trees' \in [World -> Tree]
    BY <1>1, <1>5 DEF WriteIntoTheTree, Tree
  <2> QED
    BY <1>1, <1>5, <2>1, QuietKeeps DEF WriteIntoTheTree
<1>6. CASE LeaveHolder
  BY <1>1, <1>6, QuietKeeps DEF LeaveHolder
<1>7. CASE HolderExits
  BY <1>1, <1>7, QuietKeeps DEF HolderExits
<1>8. CASE SuiteExits
  BY <1>1, <1>8, QuietKeeps DEF SuiteExits
<1> QED
  BY <1>2, <1>3, <1>4, <1>5, <1>6, <1>7, <1>8

\* A run that raises publishes nothing; what it leaves at the provider it left before.
LEMMA RaisingKeeps ==
    ASSUME VerifyInv, stage # "done", Raises,
           UNCHANGED <<mode, bundle, trees, suites, holder, live>>,
           process' = "none", left' = left \/ left' = NoSuite
    PROVE  VerifyInv'
<1>1. /\ stage' = "done" /\ outcome' = "raised"
      /\ UNCHANGED <<operations, calls, cut>>
  BY DEF Raises, End, live
<1>2. TypeOK'
  <2>1. TestIds' = TestIds
    BY DEF TestIds
  <2> QED
    BY <1>1, <2>1, NoSuiteType DEF VerifyInv, TypeOK
<1>3. EachRunIsOfItsKind'
  <2>1. mode \in {"local", "live", "batch"}
    BY DEF VerifyInv, TypeOK
  <2>2. mode' = "local" \/ stage' = "bind" => operations' = <<>> /\ calls' = <<>>
    BY <1>1 DEF VerifyInv, EachRunIsOfItsKind
  <2>3. mode' # "local" => DOMAIN suites' = {} /\ left' = NoSuite
    BY <1>1 DEF VerifyInv, EachRunIsOfItsKind
  <2>4. cut' => mode' = "batch"
    BY <1>1 DEF VerifyInv, EachRunIsOfItsKind
  <2> QED
    BY <1>1, <2>1, <2>2, <2>3, <2>4 DEF EachRunIsOfItsKind, World
<1>4. LocalKnows'
  BY <1>1 DEF LocalKnows
<1>5. LiveKnows'
  <2>1. \A i : LiveRequest(i)' = LiveRequest(i)
    BY <1>1 DEF LiveRequest
  <2> QED
    BY <1>1, <2>1 DEF VerifyInv, LiveKnows
<1>6. BatchKnows'
  BY <1>1 DEF VerifyInv, BatchKnows
<1>7. AtMostOneIsUnknown'
  BY <1>1 DEF VerifyInv, AtMostOneIsUnknown, Unknown
<1>8. AcceptedIsObserved' /\ OnlyABrokenSuiteIsRefused'
  BY <1>1 DEF AcceptedIsObserved, OnlyABrokenSuiteIsRefused
<1> QED
  BY <1>1, <1>2, <1>3, <1>4, <1>5, <1>6, <1>7, <1>8, RecordsStand DEF VerifyInv

LEMMA RaisesKeep ==
    ASSUME VerifyInv,
           PrepareRaises \/ RaiseTheInterrupt \/ CollectRaises \/ BindRaises
               \/ LiveIsStopped \/ WaitIsInterrupted \/ JudgeLiveRaises
    PROVE  VerifyInv'
<1>1. process # "none" => stage \in {"base", "candidate"}
  BY DEF VerifyInv, TypeOK, World
<1>2. stage \notin {"base", "candidate", "done"} => process = "none"
  BY <1>1
<1>3. CASE PrepareRaises
  BY <1>2, <1>3, RaisingKeeps DEF PrepareRaises, local
<1>4. CASE RaiseTheInterrupt
  BY <1>1, <1>4, RaisingKeeps DEF RaiseTheInterrupt
<1>5. CASE CollectRaises
  BY <1>1, <1>5, RaisingKeeps DEF CollectRaises
<1>6. CASE BindRaises
  BY <1>2, <1>6, RaisingKeeps DEF BindRaises, local
<1>7. CASE LiveIsStopped
  BY <1>2, <1>7, RaisingKeeps DEF LiveIsStopped, local
<1>8. CASE WaitIsInterrupted
  <2>1. stage \in {"await", "calls"}
    BY <1>8 DEF WaitIsInterrupted, MayAwait
  <2> QED
    BY <1>2, <1>8, <2>1, RaisingKeeps DEF WaitIsInterrupted, local
<1>9. CASE JudgeLiveRaises
  BY <1>2, <1>9, RaisingKeeps DEF JudgeLiveRaises, CallsAreMade, local
<1> QED
  BY <1>3, <1>4, <1>5, <1>6, <1>7, <1>8, <1>9

LEMMA NothingIsSpawned ==
    ASSUME VerifyInv, mode = "local", UNCHANGED <<mode, bundle, live>>
    PROVE  /\ RecordsAreInOrder' /\ BundleStands' /\ AnswersAreTrue' /\ ImagesAreTrue'
           /\ LiveKnows' /\ BatchKnows' /\ AtMostOneIsUnknown'
           /\ operations' = <<>> /\ calls' = <<>> /\ ~cut'
<1>1. UNCHANGED <<operations, calls, cut>>
  BY DEF live
<1>2. operations' = <<>> /\ calls' = <<>> /\ ~cut'
  BY <1>1 DEF VerifyInv, EachRunIsOfItsKind, TypeOK
<1>3. AtMostOneIsUnknown'
  BY <1>2 DEF AtMostOneIsUnknown, Unknown
<1>4. LiveKnows' /\ BatchKnows'
  BY DEF LiveKnows, BatchKnows
<1> QED
  BY <1>1, <1>2, <1>3, <1>4, RecordsStand

LEMMA PrepareKeeps ==
    ASSUME VerifyInv, Prepare
    PROVE  VerifyInv'
<1>1. /\ mode = "local" /\ stage = "bind" /\ stage' = "base"
      /\ UNCHANGED <<mode, bundle, outcome, trees, suites, process, left, holder, live>>
  BY DEF Prepare, local
<1>2. /\ RecordsAreInOrder' /\ BundleStands' /\ AnswersAreTrue' /\ ImagesAreTrue'
      /\ LiveKnows' /\ BatchKnows' /\ AtMostOneIsUnknown'
      /\ operations' = <<>> /\ calls' = <<>> /\ ~cut'
  BY <1>1, NothingIsSpawned
<1>3. TypeOK'
  <2>1. TestIds' = TestIds
    BY <1>1 DEF TestIds
  <2>2. cut' = cut /\ operations' = operations /\ calls' = calls
    BY <1>1 DEF live
  <2> QED
    BY <1>1, <2>1, <2>2 DEF VerifyInv, TypeOK, World
<1>4. EachRunIsOfItsKind'
  BY <1>1, <1>2 DEF VerifyInv, EachRunIsOfItsKind, World
<1>5. LocalKnows'
  BY <1>1 DEF LocalKnows
<1>6. AcceptedIsObserved' /\ OnlyABrokenSuiteIsRefused'
  BY <1>1 DEF VerifyInv, EachRunIsOfItsKind, AcceptedIsObserved, OnlyABrokenSuiteIsRefused
<1> QED
  BY <1>2, <1>3, <1>4, <1>5, <1>6 DEF VerifyInv

LEMMA CollectKeeps ==
    ASSUME VerifyInv, Collect
    PROVE  VerifyInv'
<1> DEFINE suite == IF process = "killed" THEN NoSuite ELSE left
<1>1. /\ process' = "none" /\ left' = NoSuite
      /\ suites' = [world \in DOMAIN suites \union {stage} |->
                       IF world = stage THEN suite ELSE suites[world]]
      /\ After(stage) /\ process # "none"
      /\ UNCHANGED <<mode, bundle, trees, holder, live>>
  BY DEF Collect, Kept
<1>2. stage \in World /\ mode = "local"
  <2>1. stage \in World
    BY <1>1 DEF VerifyInv, TypeOK
  <2> QED
    BY <2>1 DEF VerifyInv, EachRunIsOfItsKind, World
<1>3. outcome = "none" /\ suite \in Suite(TestIds) /\ TestIds' = TestIds
  <2>1. outcome = "none"
    BY <1>2 DEF VerifyInv, EachRunIsOfItsKind, World
  <2>2. suite \in Suite(TestIds)
    BY NoSuiteType DEF VerifyInv, TypeOK
  <2>3. TestIds' = TestIds
    BY <1>1 DEF TestIds
  <2> QED
    BY <2>1, <2>2, <2>3
<1> HIDE DEF suite
<1>4. /\ DOMAIN suites' = DOMAIN suites \union {stage}
      /\ DOMAIN suites' \subseteq World
      /\ \A world \in DOMAIN suites' : suites'[world] \in Suite(TestIds)
  BY <1>1, <1>2, <1>3 DEF VerifyInv, TypeOK
<1>5. \/ stage = "base" /\ stage' = "candidate" /\ outcome' = "none"
      \/ stage = "candidate" /\ stage' = "done" /\ outcome' = "raised"
      \/ /\ stage = "candidate" /\ trees["candidate"] = "candidate"
         /\ stage' = "judge" /\ outcome' = "none"
  BY <1>1, <1>2, <1>3 DEF After, Raises, End, World
<1>6. /\ RecordsAreInOrder' /\ BundleStands' /\ AnswersAreTrue' /\ ImagesAreTrue'
      /\ LiveKnows' /\ BatchKnows' /\ AtMostOneIsUnknown'
      /\ operations' = <<>> /\ calls' = <<>> /\ ~cut'
  BY <1>1, <1>2, NothingIsSpawned
<1>7. TypeOK'
  <2>1. cut' = cut /\ operations' = operations /\ calls' = calls
    BY <1>1 DEF live
  <2>2. left' \in Suite(TestIds')
    BY <1>1, NoSuiteType
  <2>3. stage' \in {"candidate", "done", "judge"} /\ outcome' \in {"none", "raised"}
    BY <1>5
  <2> QED
    BY <1>1, <1>3, <1>4, <2>1, <2>2, <2>3 DEF VerifyInv, TypeOK
<1>8. EachRunIsOfItsKind'
  BY <1>1, <1>2, <1>5, <1>6 DEF EachRunIsOfItsKind, World
<1>9. LocalKnows'
  <2>1. stage' = "candidate" => "base" \in DOMAIN suites'
    BY <1>4, <1>5
  <2>2. stage' = "judge" => DOMAIN suites' = World
    BY <1>2, <1>4, <1>5 DEF VerifyInv, LocalKnows, World
  <2> QED
    BY <1>1, <1>5, <2>1, <2>2 DEF LocalKnows
<1>10. AcceptedIsObserved' /\ OnlyABrokenSuiteIsRefused'
  BY <1>5 DEF AcceptedIsObserved, OnlyABrokenSuiteIsRefused
<1> QED
  BY <1>6, <1>7, <1>8, <1>9, <1>10 DEF VerifyInv

LEMMA JudgeKeeps ==
    ASSUME VerifyInv, Judge
    PROVE  VerifyInv'
<1>1. /\ mode = "local" /\ stage = "judge"
      /\ UNCHANGED <<mode, bundle, trees, suites, process, left, holder, live>>
  BY DEF Judge, local
<1>2. /\ DOMAIN suites = World /\ trees["candidate"] = "candidate"
      /\ trees \in [World -> Tree]
      /\ \A world \in World : suites[world] \in Suite(TestIds)
      /\ process = "none"
  BY <1>1 DEF VerifyInv, TypeOK, LocalKnows, World
<1>3. /\ stage' = "done" /\ outcome' \in {"accepted", "rejected", "refused"}
      /\ outcome' = "refused" <=>
             trees["base"] # "base" \/ \E world \in World : Broken(suites[world], TestIds)
      /\ outcome' = "accepted" => Shows(suites)
  BY <1>2, VerdictTells DEF Judge, VerifyInv
<1>4. TestIds' = TestIds
  BY <1>1 DEF TestIds
<1>5. /\ RecordsAreInOrder' /\ BundleStands' /\ AnswersAreTrue' /\ ImagesAreTrue'
      /\ LiveKnows' /\ BatchKnows' /\ AtMostOneIsUnknown'
      /\ operations' = <<>> /\ calls' = <<>> /\ ~cut'
  BY <1>1, NothingIsSpawned
<1>6. TypeOK'
  <2>1. cut' = cut /\ operations' = operations /\ calls' = calls
    BY <1>1 DEF live
  <2> QED
    BY <1>1, <1>2, <1>3, <1>4, <2>1 DEF VerifyInv, TypeOK
<1>7. EachRunIsOfItsKind'
  BY <1>1, <1>3, <1>5 DEF EachRunIsOfItsKind, World
<1>8. LocalKnows'
  BY <1>3 DEF LocalKnows
<1>9. OnlyABrokenSuiteIsRefused'
  <2>1. outcome' = "refused" <=>
            \/ trees["base"] # "base"
            \/ \E world \in World :
                  \/ suites[world].ended \in {"timeout", "broken"}
                  \/ /\ suites[world].ended = "passed"
                     /\ \/ suites[world].report = Unusable
                        \/ AnyFailed(ParseJunit(suites[world], TestIds))
    BY <1>3 DEF Broken
  <2>2. outcome' # "raised"
    BY <1>3
  <2>3. OnlyABrokenSuiteIsRefused' <=>
            ((outcome' = "refused") <=>
                \/ trees["base"] # "base"
                \/ \E world \in World :
                      \/ suites[world].ended \in {"timeout", "broken"}
                      \/ /\ suites[world].ended = "passed"
                         /\ \/ suites[world].report = Unusable
                            \/ AnyFailed(ParseJunit(suites[world], TestIds)))
    BY <1>1, <1>3, <1>4, <2>2 DEF OnlyABrokenSuiteIsRefused
  <2> QED
    BY <2>1, <2>3
<1>10. AcceptedIsObserved'
  <2> SUFFICES ASSUME outcome' = "accepted"
               PROVE  AcceptedIsObserved'
    BY DEF AcceptedIsObserved
  <2>1. SuitesOfRun' = suites
    BY <1>1 DEF SuitesOfRun
  <2>2. ToSet(Fixture.tests) \subseteq ToSet(bundle.tests)
    BY FixtureIsKept DEF VerifyInv
  <2>3. trees = [world \in World |-> world]
    BY <1>2, <1>3 DEF World
  <2>4. Shows(suites)
    BY <1>3
  <2> QED
    BY <1>1, <2>1, <2>2, <2>3, <2>4 DEF AcceptedIsObserved, Shows, Says, SaysPassed, Cell
<1> QED
  BY <1>3, <1>5, <1>6, <1>7, <1>8, <1>9, <1>10 DEF VerifyInv

----------------------------------------------------------------------------
(* The draft.                                                              *)

LEMMA BindDraftKeeps ==
    ASSUME VerifyInv, BindDraft
    PROVE  VerifyInv'
<1>1. /\ mode = "live" /\ stage = "bind" /\ stage' = "calls"
      /\ UNCHANGED <<mode, outcome, trees, suites, process, left, holder, operations, calls, cut>>
  BY DEF BindDraft, local, live
<1>2. PICK draft \in Drafts : BundleIsLinked(WithDraft(draft)) /\ bundle' = WithDraft(draft)
  BY DEF BindDraft
<1>3. /\ operations = <<>> /\ calls = <<>> /\ DOMAIN suites = {} /\ left = NoSuite
      /\ outcome = "none" /\ ~cut
  BY <1>1 DEF VerifyInv, TypeOK, EachRunIsOfItsKind
<1>4. TypeOK'
  <2>1. process = "none"
    BY <1>1 DEF VerifyInv, TypeOK, World
  <2>2. left' \in Suite(TestIds')
    BY <1>1, <1>3, NoSuiteType
  <2>3. DOMAIN operations' = {} /\ DOMAIN calls' = {}
    BY <1>1, <1>3
  <2> QED
    BY <1>1, <1>2, <1>3, <2>1, <2>2, <2>3 DEF VerifyInv, TypeOK
<1>5. RecordsAreInOrder' /\ BundleStands'
  BY <1>1, <1>2, <1>3, DraftsAreAppended DEF RecordsAreInOrder, BundleStands
<1>6. EachRunIsOfItsKind'
  BY <1>1, <1>3 DEF EachRunIsOfItsKind, World
<1>7. LocalKnows' /\ BatchKnows'
  BY <1>1 DEF LocalKnows, BatchKnows
<1>8. AnswersAreTrue' /\ ImagesAreTrue' /\ AtMostOneIsUnknown'
  BY <1>1, <1>3 DEF AnswersAreTrue, ImagesAreTrue, AtMostOneIsUnknown, Unknown
<1>9. LiveKnows'
  BY <1>1, <1>3 DEF LiveKnows, AnyFailedCall
<1>10. AcceptedIsObserved' /\ OnlyABrokenSuiteIsRefused'
  BY <1>1, <1>3 DEF AcceptedIsObserved, OnlyABrokenSuiteIsRefused
<1> QED
  BY <1>4, <1>5, <1>6, <1>7, <1>8, <1>9, <1>10 DEF VerifyInv

----------------------------------------------------------------------------
(* Spawning.                                                               *)

\* What the client knows when it may spawn.
LEMMA SpawnFinds ==
    ASSUME VerifyInv, MaySpawn
    PROVE  /\ \/ mode = "batch" /\ stage = "submit"
              \/ mode = "live" /\ stage = "calls"
           /\ outcome = "none" /\ ~cut /\ Unknown = {} /\ process = "none"
           /\ DOMAIN suites = {} /\ left = NoSuite
           /\ operations \in Seq(Operation) /\ calls \in Seq(Call)
           /\ mode = "live" => \A i \in DOMAIN calls :
                  calls[i].answer = calls[i].id /\ calls[i].answer \in DOMAIN operations
<1>1. \/ mode = "batch" /\ stage = "submit"
      \/ mode = "live" /\ stage = "calls" /\ Idle
  BY DEF MaySpawn
<1>2. outcome = "none" /\ DOMAIN suites = {} /\ left = NoSuite
  BY <1>1 DEF VerifyInv, EachRunIsOfItsKind
<1>3. ~cut
  BY <1>1 DEF VerifyInv, EachRunIsOfItsKind, BatchKnows
<1>4. Unknown = {}
  BY <1>1 DEF VerifyInv, AtMostOneIsUnknown
<1>5. process = "none"
  BY <1>1 DEF VerifyInv, TypeOK, World
<1>6. mode = "live" => \A i \in DOMAIN calls :
          calls[i].answer = calls[i].id /\ calls[i].answer \in DOMAIN operations
  <2>1. mode = "live" => Idle /\ ~AnyFailedCall
    BY <1>1 DEF VerifyInv, LiveKnows
  <2>2. \A i \in DOMAIN calls :
            calls[i].id \in DOMAIN operations /\ calls[i].answer \in {Waiting, Failed, calls[i].id}
    BY DEF VerifyInv, TypeOK
  <2> QED
    BY <2>1, <2>2 DEF Idle, AnyFailedCall
<1> QED
  BY <1>1, <1>2, <1>3, <1>4, <1>5, <1>6 DEF VerifyInv, RecordsAreInOrder

\* What is asked next is started from the root, or from an image that was finished.
LEMMA NextIsTyped ==
    ASSUME VerifyInv, MaySpawn
    PROVE  /\ NextRequest \in Request
           /\ NextRequest.source # RootImage =>
                  /\ NextRequest.source \in DOMAIN operations
                  /\ operations[NextRequest.source].status = "success"
<1>1. calls \in Seq(Call) /\ operations \in Seq(Operation)
  BY SpawnFinds
<1>2. CASE mode = "batch"
  <2>1. Len(calls) + 1 \in DOMAIN Batch
    BY <1>1, <1>2, BatchAssumption DEF MaySpawn
  <2> QED
    BY <1>2, <2>1, BatchAssumption DEF NextRequest
<1>3. CASE mode = "live"
  <2>1. /\ Len(calls) \in Nat /\ Len(calls) < 5
        /\ NextRequest = LiveRequest(Len(calls) + 1)
    <3>1. Len(calls) \in Nat
      BY <1>1
    <3>2. Len(calls) < 5
      BY <1>3 DEF MaySpawn
    <3>3. NextRequest = LiveRequest(Len(calls) + 1)
      BY <1>3 DEF NextRequest
    <3> QED
      BY <3>1, <3>2, <3>3
  <2>2. \A i \in DOMAIN calls :
            /\ calls[i].answer \in DOMAIN operations
            /\ operations[calls[i].answer].status = "success"
    BY <1>3, SpawnFinds DEF VerifyInv, AnswersAreTrue
  <2>3. \A image \in DOMAIN operations :
            /\ Asked(image, "base") \in Request /\ Asked(image, "candidate") \in Request
            /\ Asked(image, "suite") \in Request
            /\ \A job : Asked(image, job).source = image
    BY <1>1 DEF Asked, Request
  <2>4. Asked(RootImage, "prepare") \in Request /\ Asked(RootImage, "prepare").source = RootImage
    BY DEF Asked, Request, RootImage
  <2>5. DOMAIN calls = 1..Len(calls)
    BY <1>1
  <2>6. CASE Len(calls) = 0
    BY <2>1, <2>4, <2>6 DEF LiveRequest
  <2>7. CASE Len(calls) = 1
    <3>1. NextRequest = Asked(calls[1].answer, "base")
      BY <2>1, <2>7 DEF LiveRequest
    <3> QED
      BY <2>2, <2>3, <2>5, <2>7, <3>1
  <2>8. CASE Len(calls) = 2
    <3>1. NextRequest = Asked(calls[1].answer, "candidate")
      BY <2>1, <2>8 DEF LiveRequest
    <3> QED
      BY <2>2, <2>3, <2>5, <2>8, <3>1
  <2>9. CASE Len(calls) = 3
    <3>1. NextRequest = Asked(calls[2].answer, "suite")
      BY <2>1, <2>9 DEF LiveRequest
    <3> QED
      BY <2>2, <2>3, <2>5, <2>9, <3>1
  <2>10. CASE Len(calls) = 4
    <3>1. NextRequest = Asked(calls[3].answer, "suite")
      BY <2>1, <2>10 DEF LiveRequest
    <3> QED
      BY <2>2, <2>3, <2>5, <2>10, <3>1
  <2>11. \A n \in Nat : n < 5 => n \in {0, 1, 2, 3, 4}
    OBVIOUS
  <2>12. Len(calls) \in {0, 1, 2, 3, 4}
    BY <2>1, <2>11
  <2> QED
    BY <2>6, <2>7, <2>8, <2>9, <2>10, <2>12
<1> QED
  BY <1>2, <1>3, SpawnFinds

\* The records after a spawn that may have started an operation.
LEMMA OperationsGrow ==
    ASSUME VerifyInv, MaySpawn, UNCHANGED bundle,
           operations' \in {operations, Append(operations, Started(NextRequest))}
    PROVE  /\ operations' \in Seq(Operation')
           /\ DOMAIN operations \subseteq DOMAIN operations'
           /\ \A k \in DOMAIN operations : operations'[k] = operations[k]
           /\ \A k \in DOMAIN operations' : operations'[k].request.source < k
           /\ ImagesAreTrue'
<1> DEFINE new == Started(NextRequest)
<1>1. operations \in Seq(Operation) /\ Operation' = Operation
  <2>1. TestIds' = TestIds
    BY DEF TestIds
  <2> QED
    BY <2>1, SpawnFinds DEF Operation
<1>2. new \in Operation /\ new.request = NextRequest /\ new.status = "running"
  BY NextIsTyped, NoSuiteType DEF Started, Operation, Tree
<1>3. /\ NextRequest \in Request
      /\ NextRequest.source # RootImage =>
             /\ NextRequest.source \in DOMAIN operations
             /\ operations[NextRequest.source].status = "success"
  BY NextIsTyped
<1> HIDE DEF new
<1>4. operations' \in Seq(Operation)
  BY <1>1, <1>2 DEF new
<1>5. /\ DOMAIN operations \subseteq DOMAIN operations'
      /\ \A k \in DOMAIN operations : operations'[k] = operations[k]
      /\ \A k \in DOMAIN operations' :
            \/ k \in DOMAIN operations
            \/ k = Len(operations) + 1 /\ operations'[k] = new
  BY <1>1, <1>2 DEF new
<1>6. \A k \in DOMAIN operations' : operations'[k].request.source < k
  <2>1. \A k \in DOMAIN operations : operations[k].request.source < k
    BY DEF VerifyInv, TypeOK
  <2>2. NextRequest.source < Len(operations) + 1
    BY <1>1, <1>3 DEF RootImage
  <2> QED
    BY <1>2, <1>5, <2>1, <2>2
<1>7. ImagesAreTrue'
  <2> DEFINE source(k) == operations'[k].request.source
  <2> SUFFICES ASSUME NEW k \in DOMAIN operations'
               PROVE  /\ source(k) # RootImage => operations'[source(k)].status = "success"
                      /\ operations'[k].status = "success" /\ operations'[k].request.job = "suite" =>
                             operations'[k].tree = IF source(k) = RootImage THEN "strange"
                                                   ELSE operations'[source(k)].tree
    BY DEF ImagesAreTrue, TreeOf
  <2>1. CASE k \in DOMAIN operations
    <3>1. operations[k].request.source # RootImage =>
              operations[k].request.source \in DOMAIN operations
      <4>1. operations[k].request \in Request /\ operations[k].request.source < k
        BY <2>1 DEF VerifyInv, TypeOK
      <4>2. operations[k].request.source \in Nat /\ DOMAIN operations = 1..Len(operations)
        BY <1>1, <4>1 DEF Request
      <4> QED
        BY <1>1, <2>1, <4>1, <4>2 DEF RootImage
    <3> QED
      BY <1>5, <2>1, <3>1 DEF VerifyInv, ImagesAreTrue, TreeOf
  <2>2. CASE k = Len(operations) + 1 /\ operations'[k] = new
    BY <1>2, <1>3, <1>5, <2>2
  <2> QED
    BY <1>5, <2>1, <2>2
<1> QED
  BY <1>1, <1>4, <1>5, <1>6, <1>7

\* A request of a live run is fixed by the answers to the calls before it.
LEMMA RequestsStand ==
    ASSUME calls \in Seq(Call), calls' \in Seq(Call),
           NEW n \in 1..5, n <= Len(calls) + 1,
           \A i \in DOMAIN calls : i < n => calls'[i].answer = calls[i].answer
    PROVE  LiveRequest(n)' = LiveRequest(n)
<1>1. DOMAIN calls = 1..Len(calls) /\ Len(calls) \in Nat
  OBVIOUS
<1>2. n = 1 \/ n = 2 \/ n = 3 \/ n = 4 \/ n = 5
  OBVIOUS
<1>3. CASE n = 1
  BY <1>3 DEF LiveRequest
<1>4. CASE n \in {2, 3}
  <2>1. 1 \in DOMAIN calls
    BY <1>1, <1>4
  <2>2. calls'[1].answer = calls[1].answer
    BY <1>4, <2>1
  <2> QED
    BY <1>4, <2>2 DEF LiveRequest
<1>5. CASE n = 4
  <2>1. 2 \in DOMAIN calls
    BY <1>1, <1>5
  <2>2. LiveRequest(n) = Asked(calls[2].answer, "suite")
    BY <1>5 DEF LiveRequest
  <2>3. LiveRequest(n)' = Asked(calls'[2].answer, "suite")
    BY <1>5 DEF LiveRequest, Asked
  <2> QED
    BY <1>5, <2>1, <2>2, <2>3
<1>6. CASE n = 5
  <2>1. 3 \in DOMAIN calls
    BY <1>1, <1>6
  <2>2. LiveRequest(n) = Asked(calls[3].answer, "suite")
    BY <1>6 DEF LiveRequest
  <2>3. LiveRequest(n)' = Asked(calls'[3].answer, "suite")
    BY <1>6 DEF LiveRequest, Asked
  <2> QED
    BY <1>6, <2>1, <2>2, <2>3
<1> QED
  BY <1>2, <1>3, <1>4, <1>5, <1>6

LEMMA TellingKeeps ==
    ASSUME VerifyInv, MaySpawn, UNCHANGED <<mode, stage, bundle, outcome, cut, local>>,
           operations' \in {operations, Append(operations, Started(NextRequest))},
           NEW id \in DOMAIN operations',
           \A k \in DOMAIN operations' : k \in DOMAIN operations \/ k = id,
           calls' = Append(calls, [request |-> NextRequest, id |-> id, answer |-> Waiting])
    PROVE  VerifyInv'
<1> DEFINE new == [request |-> NextRequest, id |-> id, answer |-> Waiting]
           n == Len(calls)
<1>1. /\ \/ mode = "batch" /\ stage = "submit"
         \/ mode = "live" /\ stage = "calls"
      /\ outcome = "none" /\ ~cut /\ Unknown = {} /\ process = "none"
      /\ DOMAIN suites = {} /\ left = NoSuite
      /\ operations \in Seq(Operation) /\ calls \in Seq(Call)
      /\ mode = "live" => \A i \in DOMAIN calls :
             calls[i].answer = calls[i].id /\ calls[i].answer \in DOMAIN operations
  BY SpawnFinds
<1>2. UNCHANGED <<trees, suites, process, left, holder>> /\ TestIds' = TestIds
  BY DEF local, TestIds
<1>3. /\ operations' \in Seq(Operation')
      /\ DOMAIN operations \subseteq DOMAIN operations'
      /\ \A k \in DOMAIN operations : operations'[k] = operations[k]
      /\ \A k \in DOMAIN operations' : operations'[k].request.source < k
      /\ ImagesAreTrue'
  BY OperationsGrow
<1>4. new \in Call /\ new.id = id /\ new.answer = Waiting /\ new.request = NextRequest
  BY <1>3, NextIsTyped DEF Call, Waiting
<1>5. /\ calls' \in Seq(Call) /\ n \in Nat /\ Len(calls') = n + 1
      /\ DOMAIN calls = 1..n /\ DOMAIN calls' = 1..n + 1
      /\ \A i \in DOMAIN calls : calls'[i] = calls[i]
      /\ calls'[n + 1] = new
  <2> HIDE DEF new
  <2> QED
    BY <1>1, <1>4 DEF new
<1>6. \A i \in DOMAIN calls' : i \in DOMAIN calls \/ i = n + 1
  BY <1>5
<1> HIDE DEF new, n
<1>7. \A i \in DOMAIN calls :
          /\ calls[i].request \in Request /\ calls[i].id \in DOMAIN operations
          /\ calls[i].answer \in {Waiting, Failed, calls[i].id}
  BY DEF VerifyInv, TypeOK
<1>8. TypeOK'
  <2>1. \A k \in DOMAIN operations' : operations'[k] \in Operation'
    BY <1>3
  <2>2. \A k \in DOMAIN operations' :
            /\ operations'[k].request \in Request
            /\ operations'[k].status \in {"running", "success", "failed"}
            /\ operations'[k].tree \in Tree
            /\ operations'[k].suite \in Suite(TestIds')
    BY <2>1 DEF Operation
  <2>3. \A i \in DOMAIN calls' :
            /\ calls'[i].request \in Request /\ calls'[i].id \in DOMAIN operations'
            /\ calls'[i].answer \in {Waiting, Failed, calls'[i].id}
    BY <1>3, <1>4, <1>5, <1>6, <1>7, NextIsTyped
  <2>4. left' \in Suite(TestIds')
    BY <1>1, <1>2, NoSuiteType
  <2> QED
    BY <1>1, <1>2, <1>3, <2>2, <2>3, <2>4 DEF VerifyInv, TypeOK
<1>9. RecordsAreInOrder'
  BY <1>3, <1>5 DEF RecordsAreInOrder, Call
<1>10. BundleStands'
  BY DEF VerifyInv, BundleStands
<1>11. EachRunIsOfItsKind'
  BY <1>1, <1>2 DEF EachRunIsOfItsKind, World
<1>12. LocalKnows'
  BY <1>1 DEF LocalKnows
<1>13. AnswersAreTrue'
  <2>1. \A i \in DOMAIN calls :
            calls[i].answer = calls[i].id =>
                /\ operations'[calls[i].id].status = "success"
                /\ operations'[calls[i].id].request = calls[i].request
    BY <1>3, <1>7 DEF VerifyInv, AnswersAreTrue
  <2>2. id # Waiting
    BY <1>3 DEF Waiting
  <2> QED
    BY <1>4, <1>5, <1>6, <2>1, <2>2 DEF AnswersAreTrue
<1>14. LiveKnows'
  <2> SUFFICES ASSUME mode = "live"
               PROVE  LiveKnows'
    BY DEF LiveKnows
  <2>1. n < 5 /\ MayGoOn /\ stage = "calls"
    BY <1>1 DEF MaySpawn, n
  <2>2. \A i \in DOMAIN calls' : LiveRequest(i)' = LiveRequest(i)
    <3> SUFFICES ASSUME NEW i \in DOMAIN calls'
                 PROVE  LiveRequest(i)' = LiveRequest(i)
      OBVIOUS
    <3>1. i \in 1..5 /\ i <= Len(calls) + 1
      BY <1>5, <2>1 DEF n
    <3>2. \A j \in DOMAIN calls : calls'[j].answer = calls[j].answer
      BY <1>5
    <3> QED
      BY <1>1, <1>5, <3>1, <3>2, RequestsStand
  <2>3. NextRequest = LiveRequest(n + 1)
    BY <1>1, <2>1 DEF NextRequest, n
  <2>4. \A i \in DOMAIN calls' : calls'[i].request = LiveRequest(i)'
    <3>1. \A i \in DOMAIN calls : calls'[i].request = LiveRequest(i)
      BY <1>5 DEF VerifyInv, LiveKnows
    <3>2. calls'[n + 1].request = LiveRequest(n + 1)
      BY <1>4, <1>5, <2>3
    <3> QED
      BY <1>6, <2>2, <3>1, <3>2
  <2>5. \A i \in DOMAIN calls' : i < Len(calls') => calls'[i].answer = calls'[i].id
    BY <1>1, <1>5
  <2>6. ~AnyFailedCall'
    <3>1. \A i \in DOMAIN calls : calls'[i].answer # Failed
      BY <1>5, <2>1 DEF VerifyInv, LiveKnows, AnyFailedCall
    <3>2. calls'[n + 1].answer # Failed
      BY <1>4, <1>5 DEF Waiting, Failed
    <3> QED
      BY <1>6, <3>1, <3>2 DEF AnyFailedCall
  <2>7. Len(calls') >= 4 => \A i \in {2, 3} :
            operations'[calls'[i].answer].tree = LiveRequest(i)'.job
    <3> SUFFICES ASSUME n >= 3, NEW i \in {2, 3}
                 PROVE  operations'[calls'[i].answer].tree = LiveRequest(i)'.job
      BY <1>5
    <3>1. i \in DOMAIN calls /\ i \in DOMAIN calls'
      BY <1>5
    <3>2. operations'[calls'[i].answer] = operations[calls[i].answer]
      BY <1>1, <1>3, <1>5, <3>1
    <3>3. operations[calls[i].answer].tree = LiveRequest(i).job
      <4>1. n = 3 \/ n >= 4
        BY <1>5
      <4> QED
        BY <2>1, <4>1 DEF VerifyInv, LiveKnows, MayGoOn, n
    <3> QED
      BY <2>2, <3>1, <3>2, <3>3
  <2>8. Len(calls') <= 5
    BY <1>5, <2>1
  <2> QED
    BY <1>1, <2>4, <2>5, <2>6, <2>7, <2>8 DEF LiveKnows
<1>15. BatchKnows'
  <2> SUFFICES ASSUME mode = "batch"
               PROVE  BatchKnows'
    BY DEF BatchKnows
  <2>1. n < Len(Batch) /\ stage = "submit" /\ NextRequest = Batch[n + 1]
    BY <1>1 DEF MaySpawn, NextRequest, n
  <2>2. \A i \in DOMAIN calls' : calls'[i].request = Batch[i]
    BY <1>4, <1>5, <1>6, <2>1 DEF VerifyInv, BatchKnows
  <2>3. Len(calls') <= Len(Batch)
    BY <1>5, <2>1, BatchAssumption
  <2> QED
    BY <1>1, <2>1, <2>2, <2>3 DEF BatchKnows
<1>16. AtMostOneIsUnknown'
  <2>1. \A k \in DOMAIN operations : \E i \in DOMAIN calls : calls[i].id = k
    BY <1>1 DEF Unknown
  <2>2. \A k \in DOMAIN operations' : \E i \in DOMAIN calls' : calls'[i].id = k
    <3>1. n + 1 \in DOMAIN calls' /\ DOMAIN calls \subseteq DOMAIN calls'
      BY <1>5
    <3> QED
      BY <1>4, <1>5, <2>1, <3>1
  <2>3. Unknown' = {}
    BY <2>2 DEF Unknown
  <2> QED
    BY <2>3 DEF AtMostOneIsUnknown
<1>17. AcceptedIsObserved' /\ OnlyABrokenSuiteIsRefused'
  BY <1>1 DEF AcceptedIsObserved, OnlyABrokenSuiteIsRefused
<1> QED
  BY <1>3, <1>8, <1>9, <1>10, <1>11, <1>12, <1>13, <1>14, <1>15, <1>16, <1>17 DEF VerifyInv

LEMMA SpawnIsAnsweredKeeps ==
    ASSUME VerifyInv, SpawnIsAnswered
    PROVE  VerifyInv'
<1> DEFINE new == Started(NextRequest)
<1>1. /\ MaySpawn /\ UNCHANGED <<mode, stage, bundle, outcome, cut, local>>
      /\ operations' = Append(operations, new)
      /\ calls' = Append(calls, [request |-> NextRequest, id |-> Len(operations'),
                                 answer |-> Waiting])
  BY DEF SpawnIsAnswered, Told
<1>2. operations \in Seq(Operation)
  BY DEF VerifyInv, RecordsAreInOrder
<1>3. operations' \in Seq(Operation')
  BY <1>1, OperationsGrow
<1> HIDE DEF new
<1>4. Len(operations') = Len(operations) + 1 /\ Len(operations) \in Nat
  BY <1>1, <1>2
<1>5. DOMAIN operations' = 1..Len(operations) + 1 /\ DOMAIN operations = 1..Len(operations)
  BY <1>2, <1>3, <1>4
<1>6. /\ Len(operations') \in DOMAIN operations'
      /\ \A k \in DOMAIN operations' : k \in DOMAIN operations \/ k = Len(operations')
  BY <1>4, <1>5
<1> QED
  BY <1>1, <1>6, TellingKeeps DEF new

LEMMA SpawnIsAnsweredWithAnotherKeeps ==
    ASSUME VerifyInv, SpawnIsAnsweredWithAnother
    PROVE  VerifyInv'
<1>1. MaySpawn /\ UNCHANGED <<mode, stage, bundle, outcome, operations, cut, local>>
  BY DEF SpawnIsAnsweredWithAnother
<1>2. PICK id \in DOMAIN operations :
          calls' = Append(calls, [request |-> NextRequest, id |-> id, answer |-> Waiting])
  BY DEF SpawnIsAnsweredWithAnother, Told
<1> QED
  BY <1>1, <1>2, TellingKeeps

LEMMA SpawnFailsKeeps ==
    ASSUME VerifyInv, SpawnFails
    PROVE  VerifyInv'
<1>1. /\ MaySpawn /\ UNCHANGED <<mode, bundle, calls, local>>
      /\ operations' \in {operations, Append(operations, Started(NextRequest))}
      /\ \/ /\ mode = "live" /\ stage' = "done" /\ outcome' = "raised" /\ cut' = cut
         \/ /\ mode # "live" /\ cut' = TRUE /\ stage' = "await" /\ outcome' = outcome
  BY DEF SpawnFails, Raises, End
<1>2. /\ \/ mode = "batch" /\ stage = "submit"
         \/ mode = "live" /\ stage = "calls"
      /\ outcome = "none" /\ ~cut /\ Unknown = {} /\ process = "none"
      /\ DOMAIN suites = {} /\ left = NoSuite
      /\ operations \in Seq(Operation) /\ calls \in Seq(Call)
  BY <1>1, SpawnFinds
<1>3. UNCHANGED <<trees, suites, process, left, holder>> /\ TestIds' = TestIds
  BY <1>1 DEF local, TestIds
<1>4. /\ operations' \in Seq(Operation')
      /\ DOMAIN operations \subseteq DOMAIN operations'
      /\ \A k \in DOMAIN operations : operations'[k] = operations[k]
      /\ \A k \in DOMAIN operations' : operations'[k].request.source < k
      /\ ImagesAreTrue'
  BY <1>1, OperationsGrow
<1>5. \/ mode = "batch" /\ cut' /\ stage' = "await" /\ outcome' = "none"
      \/ mode = "live" /\ ~cut' /\ stage' = "done" /\ outcome' = "raised"
  BY <1>1, <1>2
<1>6. \A i \in DOMAIN calls :
          /\ calls[i].request \in Request /\ calls[i].id \in DOMAIN operations
          /\ calls[i].answer \in {Waiting, Failed, calls[i].id}
  BY DEF VerifyInv, TypeOK
<1>7. TypeOK'
  <2>1. \A k \in DOMAIN operations' : operations'[k] \in Operation'
    BY <1>4
  <2>2. \A k \in DOMAIN operations' :
            /\ operations'[k].request \in Request
            /\ operations'[k].status \in {"running", "success", "failed"}
            /\ operations'[k].tree \in Tree
            /\ operations'[k].suite \in Suite(TestIds')
    BY <2>1 DEF Operation
  <2>3. \A i \in DOMAIN calls' :
            /\ calls'[i].request \in Request /\ calls'[i].id \in DOMAIN operations'
            /\ calls'[i].answer \in {Waiting, Failed, calls'[i].id}
    BY <1>1, <1>4, <1>6
  <2>4. left' \in Suite(TestIds')
    BY <1>2, <1>3, NoSuiteType
  <2>5. stage' \in {"await", "done"} /\ outcome' \in {"none", "raised"} /\ cut' \in BOOLEAN
    BY <1>1, <1>5 DEF VerifyInv, TypeOK
  <2> QED
    BY <1>1, <1>2, <1>3, <1>4, <2>2, <2>3, <2>4, <2>5 DEF VerifyInv, TypeOK
<1>8. RecordsAreInOrder'
  BY <1>1, <1>2, <1>4 DEF RecordsAreInOrder, Call
<1>9. BundleStands'
  BY <1>1 DEF VerifyInv, BundleStands
<1>10. EachRunIsOfItsKind'
  BY <1>1, <1>2, <1>3, <1>5 DEF EachRunIsOfItsKind, World
<1>11. LocalKnows'
  BY <1>1, <1>2 DEF LocalKnows
<1>12. AnswersAreTrue'
  BY <1>1, <1>4, <1>6 DEF VerifyInv, AnswersAreTrue
<1>13. LiveKnows'
  <2> SUFFICES ASSUME mode = "live"
               PROVE  LiveKnows'
    BY <1>1 DEF LiveKnows
  <2>1. \A i : LiveRequest(i)' = LiveRequest(i)
    BY <1>1 DEF LiveRequest
  <2>2. \A i \in DOMAIN calls : calls[i].answer \in DOMAIN operations
    BY <1>1, <1>2, SpawnFinds
  <2>3. Len(calls) >= 4 => 2 \in DOMAIN calls /\ 3 \in DOMAIN calls
    BY <1>2
  <2>4. Len(calls') >= 4 => \A i \in {2, 3} :
            operations'[calls'[i].answer].tree = LiveRequest(i)'.job
    BY <1>1, <1>4, <2>1, <2>2, <2>3 DEF VerifyInv, LiveKnows
  <2> QED
    BY <1>1, <1>5, <2>1, <2>4 DEF VerifyInv, LiveKnows
<1>14. BatchKnows'
  BY <1>1, <1>5 DEF VerifyInv, BatchKnows
<1>15. AtMostOneIsUnknown'
  <2>1. \A k \in DOMAIN operations : \E i \in DOMAIN calls : calls[i].id = k
    BY <1>2 DEF Unknown
  <2>2. \A k \in DOMAIN operations' : k \in DOMAIN operations \/ k = Len(operations) + 1
    BY <1>1, <1>2, <1>4
  <2>3. Unknown' \subseteq {Len(operations) + 1} /\ Unknown' \subseteq DOMAIN operations'
    BY <1>1, <2>1, <2>2 DEF Unknown
  <2> QED
    BY <1>5, <2>3 DEF AtMostOneIsUnknown
<1>16. AcceptedIsObserved' /\ OnlyABrokenSuiteIsRefused'
  BY <1>1, <1>5 DEF AcceptedIsObserved, OnlyABrokenSuiteIsRefused
<1> QED
  BY <1>4, <1>7, <1>8, <1>9, <1>10, <1>11, <1>12, <1>13, <1>14, <1>15, <1>16 DEF VerifyInv

----------------------------------------------------------------------------
(* A batch, once it is submitted.                                          *)

\* A batch goes on, or ends, with what it was told.
LEMMA BatchStepKeeps ==
    ASSUME VerifyInv, mode = "batch", stage # "done",
           UNCHANGED <<mode, bundle, local, live>>,
           \/ /\ stage' = "await" /\ outcome' = outcome
              /\ cut \/ Len(calls) = Len(Batch)
           \/ /\ stage' = "done" /\ outcome' \in {"returned", "batch failed"} /\ Idle
              /\ outcome' = "returned" => ~cut /\ ~AnyFailedCall /\ Len(calls) = Len(Batch)
    PROVE  VerifyInv'
<1>1. UNCHANGED <<trees, suites, process, left, holder, operations, calls, cut>>
  BY DEF local, live
<1>2. TestIds' = TestIds
  BY DEF TestIds
<1>3. outcome = "none" /\ process = "none" /\ DOMAIN suites = {} /\ left = NoSuite
  BY DEF VerifyInv, EachRunIsOfItsKind, TypeOK, World
<1>4. TypeOK'
  <2>1. stage' \in {"await", "done"} /\ outcome' \in {"none", "returned", "batch failed"}
    BY <1>3
  <2> QED
    BY <1>1, <1>2, <1>3, <2>1 DEF VerifyInv, TypeOK
<1>5. EachRunIsOfItsKind'
  BY <1>1, <1>3 DEF VerifyInv, EachRunIsOfItsKind, World
<1>6. LocalKnows' /\ LiveKnows'
  BY DEF LocalKnows, LiveKnows
<1>7. BatchKnows'
  BY <1>1, <1>3 DEF VerifyInv, BatchKnows, Idle, AnyFailedCall
<1>8. AtMostOneIsUnknown'
  BY <1>1, <1>3 DEF VerifyInv, AtMostOneIsUnknown, Unknown
<1>9. AcceptedIsObserved' /\ OnlyABrokenSuiteIsRefused'
  BY <1>3 DEF AcceptedIsObserved, OnlyABrokenSuiteIsRefused
<1> QED
  BY <1>1, <1>4, <1>5, <1>6, <1>7, <1>8, <1>9, RecordsStand DEF VerifyInv

LEMMA BatchStepsKeep ==
    ASSUME VerifyInv, BatchIsSubmitted \/ BatchIsAwaited
    PROVE  VerifyInv'
<1>1. CASE BatchIsSubmitted
  BY <1>1, BatchStepKeeps DEF BatchIsSubmitted
<1>2. CASE BatchIsAwaited
  <2>1. /\ mode = "batch" /\ stage = "await" /\ Idle
        /\ stage' = "done"
        /\ outcome' = IF cut \/ AnyFailedCall THEN "batch failed" ELSE "returned"
        /\ UNCHANGED <<mode, bundle, local, live>>
    BY <1>2 DEF BatchIsAwaited, End
  <2>2. ~cut => Len(calls) = Len(Batch)
    BY <2>1 DEF VerifyInv, BatchKnows
  <2>3. /\ outcome' \in {"returned", "batch failed"}
        /\ outcome' = "returned" => ~cut /\ ~AnyFailedCall
    BY <2>1
  <2> QED
    BY <2>1, <2>2, <2>3, BatchStepKeeps
<1> QED
  BY <1>1, <1>2

----------------------------------------------------------------------------
(* The provider.                                                           *)

\* A record that an answer was taken from, or that an image came from, is final.
LEMMA OperationEndKeeps ==
    ASSUME VerifyInv, UNCHANGED <<mode, stage, bundle, outcome, calls, cut, local>>,
           NEW k \in DOMAIN operations, Running(k),
           NEW new \in Operation, operations' = [operations EXCEPT ![k] = new],
           new.request = operations[k].request,
           new.status = "success" /\ new.request.job = "suite" =>
               new.tree = TreeOf(new.request.source)
    PROVE  VerifyInv'
<1>1. /\ UNCHANGED <<trees, suites, process, left, holder>>
      /\ TestIds' = TestIds /\ Operation' = Operation
  BY DEF local, TestIds, Operation
<1>2. /\ operations \in Seq(Operation) /\ operations' \in Seq(Operation) /\ calls \in Seq(Call)
      /\ DOMAIN operations' = DOMAIN operations /\ DOMAIN operations = 1..Len(operations)
      /\ operations'[k] = new
      /\ \A j \in DOMAIN operations : j # k => operations'[j] = operations[j]
  BY DEF VerifyInv, RecordsAreInOrder
<1>3. \A j \in DOMAIN operations : operations[j].status = "success" => j # k
  BY DEF Running
<1>4. \A j \in DOMAIN operations :
          /\ operations'[j].request = operations[j].request
          /\ operations'[j].request \in Request /\ operations'[j].request.source < j
  BY <1>2 DEF VerifyInv, TypeOK
<1>5. \A i \in DOMAIN calls :
          /\ calls[i].request \in Request /\ calls[i].id \in DOMAIN operations
          /\ calls[i].answer \in {Waiting, Failed, calls[i].id}
  BY DEF VerifyInv, TypeOK
<1>6. TypeOK'
  <2>1. \A j \in DOMAIN operations' : operations'[j] \in Operation
    BY <1>2
  <2>2. \A j \in DOMAIN operations' :
            /\ operations'[j].status \in {"running", "success", "failed"}
            /\ operations'[j].tree \in Tree
            /\ operations'[j].suite \in Suite(TestIds')
    BY <1>1, <2>1 DEF Operation
  <2>3. \A i \in DOMAIN calls' :
            /\ calls'[i].request \in Request /\ calls'[i].id \in DOMAIN operations'
            /\ calls'[i].answer \in {Waiting, Failed, calls'[i].id}
    BY <1>2, <1>5
  <2>4. /\ left' \in Suite(TestIds') /\ DOMAIN suites' \subseteq World
        /\ \A world \in DOMAIN suites' : suites'[world] \in Suite(TestIds')
    BY <1>1 DEF VerifyInv, TypeOK
  <2>5. \A j \in DOMAIN operations' :
            operations'[j].request \in Request /\ operations'[j].request.source < j
    BY <1>2, <1>4
  <2>6. /\ mode' \in {"local", "live", "batch"}
        /\ stage' \in {"bind", "base", "candidate", "calls", "submit", "await", "judge", "done"}
        /\ bundle' \in {Fixture} \union {WithDraft(draft) : draft \in Drafts}
        /\ outcome' \in {"none", "accepted", "rejected", "refused", "raised", "returned",
                         "batch failed"}
        /\ trees' \in [World -> Tree] /\ holder' \in BOOLEAN /\ cut' \in BOOLEAN
        /\ process' \in {"none", "running", "exited", "killed", "interrupted"}
        /\ process' # "none" => stage' \in World
    <3>1. /\ mode' = mode /\ stage' = stage /\ bundle' = bundle /\ outcome' = outcome
          /\ cut' = cut /\ trees' = trees /\ holder' = holder /\ process' = process
      BY <1>1
    <3>2. /\ mode \in {"local", "live", "batch"}
          /\ stage \in {"bind", "base", "candidate", "calls", "submit", "await", "judge", "done"}
          /\ bundle \in {Fixture} \union {WithDraft(draft) : draft \in Drafts}
          /\ outcome \in {"none", "accepted", "rejected", "refused", "raised", "returned",
                          "batch failed"}
          /\ trees \in [World -> Tree] /\ holder \in BOOLEAN /\ cut \in BOOLEAN
          /\ process \in {"none", "running", "exited", "killed", "interrupted"}
          /\ process # "none" => stage \in World
      BY DEF VerifyInv, TypeOK
    <3> QED
      BY <3>1, <3>2, Zenon
  <2> QED
    BY <2>2, <2>3, <2>4, <2>5, <2>6 DEF TypeOK
<1>7. RecordsAreInOrder' /\ BundleStands'
  BY <1>1, <1>2 DEF VerifyInv, RecordsAreInOrder, BundleStands
<1>8. EachRunIsOfItsKind'
  <2>1. operations # <<>>
    BY <1>2
  <2> QED
    BY <1>1, <2>1 DEF VerifyInv, EachRunIsOfItsKind
<1>9. LocalKnows'
  BY <1>1 DEF VerifyInv, LocalKnows
<1>10. AnswersAreTrue'
  <2> SUFFICES ASSUME NEW i \in DOMAIN calls, calls[i].answer = calls[i].id
               PROVE  /\ operations'[calls[i].id].status = "success"
                      /\ operations'[calls[i].id].request = calls[i].request
    BY DEF AnswersAreTrue
  <2>1. /\ operations[calls[i].id].status = "success"
        /\ operations[calls[i].id].request = calls[i].request
    BY DEF VerifyInv, AnswersAreTrue
  <2> QED
    BY <1>2, <1>3, <1>5, <2>1
<1>11. ImagesAreTrue'
  <2> DEFINE source(j) == operations[j].request.source
  <2> SUFFICES ASSUME NEW j \in DOMAIN operations
               PROVE  /\ source(j) # RootImage => operations'[source(j)].status = "success"
                      /\ operations'[j].status = "success" /\ operations'[j].request.job = "suite" =>
                             operations'[j].tree = IF source(j) = RootImage THEN "strange"
                                                   ELSE operations'[source(j)].tree
    BY <1>2, <1>4 DEF ImagesAreTrue, TreeOf
  <2>1. source(j) # RootImage =>
            /\ source(j) \in DOMAIN operations /\ source(j) # k
            /\ operations'[source(j)] = operations[source(j)]
            /\ operations[source(j)].status = "success"
    <3>1. source(j) # RootImage => operations[source(j)].status = "success"
      BY DEF VerifyInv, ImagesAreTrue
    <3>2. source(j) # RootImage => source(j) \in DOMAIN operations
      <4>1. operations[j].request \in Request /\ source(j) < j
        BY <1>4
      <4>2. source(j) \in Nat
        BY <4>1 DEF Request
      <4> HIDE DEF source
      <4> QED
        BY <1>2, <4>1, <4>2 DEF RootImage
    <3> QED
      BY <1>2, <1>3, <3>1, <3>2
  <2>2. CASE j = k
    BY <1>2, <2>1, <2>2 DEF TreeOf
  <2>3. CASE j # k
    BY <1>2, <2>1, <2>3 DEF VerifyInv, ImagesAreTrue, TreeOf
  <2> QED
    BY <2>2, <2>3
<1>12. mode = "live" => \A i \in DOMAIN calls :
           calls[i].answer = calls[i].id =>
               operations'[calls[i].answer] = operations[calls[i].answer]
  BY <1>2, <1>3, <1>5 DEF VerifyInv, AnswersAreTrue
<1>13. LiveKnows'
  <2> SUFFICES ASSUME mode = "live"
               PROVE  LiveKnows'
    BY DEF LiveKnows
  <2>1. \A i : LiveRequest(i)' = LiveRequest(i)
    BY DEF LiveRequest
  <2>2. Len(calls') >= 4 => \A i \in {2, 3} :
            operations'[calls'[i].answer].tree = LiveRequest(i)'.job
    <3> SUFFICES ASSUME Len(calls) >= 4, NEW i \in {2, 3}
                 PROVE  operations'[calls[i].answer].tree = LiveRequest(i).job
      BY <2>1
    <3>1. i \in DOMAIN calls /\ i < Len(calls)
      BY <1>2
    <3>2. calls[i].answer = calls[i].id /\ operations[calls[i].answer].tree = LiveRequest(i).job
      BY <3>1 DEF VerifyInv, LiveKnows
    <3> QED
      BY <1>12, <3>1, <3>2
  <2> QED
    BY <2>1, <2>2 DEF VerifyInv, LiveKnows, AnyFailedCall, Idle
<1>14. BatchKnows'
  BY DEF VerifyInv, BatchKnows, AnyFailedCall, Idle
<1>15. AtMostOneIsUnknown'
  BY <1>2 DEF VerifyInv, AtMostOneIsUnknown, Unknown
<1>16. OnlyABrokenSuiteIsRefused'
  BY <1>1 DEF VerifyInv, OnlyABrokenSuiteIsRefused
<1>17. AcceptedIsObserved'
  <2> SUFFICES ASSUME outcome = "accepted"
               PROVE  AcceptedIsObserved'
    BY DEF AcceptedIsObserved
  <2>1. mode = "live"
    <3>1. operations # <<>>
      BY <1>2
    <3>2. mode \in {"local", "live", "batch"} /\ stage = "done"
      BY DEF VerifyInv, TypeOK, EachRunIsOfItsKind
    <3> QED
      BY <3>1, <3>2 DEF VerifyInv, EachRunIsOfItsKind, World
  <2>2. Len(calls) = 5 /\ Idle /\ ~AnyFailedCall
    BY <2>1 DEF VerifyInv, LiveKnows
  <2>3. \A i \in DOMAIN calls : calls[i].answer = calls[i].id
    BY <1>5, <2>2 DEF Idle, AnyFailedCall
  <2>4. \A i \in {1, 2, 3, 4, 5} : operations'[calls[i].answer] = operations[calls[i].answer]
    BY <1>2, <1>12, <2>1, <2>2, <2>3
  <2>5. SuitesOfRun' = SuitesOfRun
    <3>1. LiveSuites' = LiveSuites
      BY <2>4 DEF LiveSuites
    <3> QED
      BY <2>1, <3>1 DEF SuitesOfRun
  <2>6. WorldsAreTheirOwn' = WorldsAreTheirOwn
    BY <2>4 DEF WorldsAreTheirOwn, Asked
  <2>7. \A world, test, child, marker :
            Says(world, test, child, marker)' = Says(world, test, child, marker)
    BY <2>5 DEF Says, Cell
  <2>8. \A world, test : SaysPassed(world, test)' = SaysPassed(world, test)
    BY <2>7 DEF SaysPassed
  <2> QED
    BY <2>1, <2>5, <2>6, <2>7, <2>8 DEF VerifyInv, AcceptedIsObserved
<1> QED
  BY <1>6, <1>7, <1>8, <1>9, <1>10, <1>11, <1>13, <1>14, <1>15, <1>16, <1>17 DEF VerifyInv

\* What an operation may do.
LEMMA EffectTypes ==
    ASSUME VerifyInv, NEW k \in DOMAIN operations,
           NEW effect \in Effects(operations[k].request)
    PROVE  /\ effect.exit \in {0, 1} /\ effect.tree \in Tree /\ effect.suite \in Suite(TestIds)
           /\ operations[k].request.job = "suite" =>
                  effect.tree = TreeOf(operations[k].request.source)
<1> DEFINE request == operations[k].request
<1>1. operations \in Seq(Operation) /\ request \in Request /\ request.source < k
  BY DEF VerifyInv, RecordsAreInOrder, TypeOK
<1>2. TreeOf(request.source) \in Tree
  <2>1. request.source \in Nat /\ k \in 1..Len(operations)
    BY <1>1 DEF Request
  <2>2. request.source # RootImage => request.source \in DOMAIN operations
    BY <1>1, <2>1 DEF RootImage
  <2> QED
    BY <2>2 DEF VerifyInv, TypeOK, TreeOf, Tree
<1>3. NoSuite \in Suite(TestIds)
  BY NoSuiteType
<1>4. request.job \in {"prepare", "base", "candidate", "suite"}
  BY <1>1 DEF Request
<1> HIDE DEF request
<1>5. CASE request.job = "prepare"
  BY <1>3, <1>5 DEF Effects, Tree, request
<1>6. CASE request.job = "base"
  BY <1>2, <1>3, <1>6 DEF Effects, request
<1>7. CASE request.job = "candidate"
  BY <1>2, <1>3, <1>7 DEF Effects, Tree, request
<1>8. CASE request.job = "suite"
  BY <1>2, <1>3, <1>8 DEF Effects, request
<1> QED
  BY <1>4, <1>5, <1>6, <1>7, <1>8

LEMMA OperationSucceedsKeeps ==
    ASSUME VerifyInv, OperationSucceeds
    PROVE  VerifyInv'
<1>1. PICK k \in DOMAIN operations :
          /\ Running(k)
          /\ \E effect \in Effects(operations[k].request) :
                operations' = [operations EXCEPT ![k] =
                    [request |-> @.request, status |-> "success",
                     exit |-> effect.exit, tree |-> effect.tree, suite |-> effect.suite]]
          /\ UNCHANGED <<mode, stage, bundle, outcome, calls, cut, local>>
  BY DEF OperationSucceeds
<1>2. PICK effect \in Effects(operations[k].request) :
          operations' = [operations EXCEPT ![k] =
              [request |-> operations[k].request, status |-> "success",
               exit |-> effect.exit, tree |-> effect.tree, suite |-> effect.suite]]
  BY <1>1
<1> DEFINE new == [request |-> operations[k].request, status |-> "success",
                   exit |-> effect.exit, tree |-> effect.tree, suite |-> effect.suite]
<1>3. operations[k].request \in Request
  BY DEF VerifyInv, TypeOK
<1>4. new \in Operation
  BY <1>3, EffectTypes DEF Operation
<1>5. /\ new.request = operations[k].request
      /\ new.request.job = "suite" => new.tree = TreeOf(new.request.source)
  BY EffectTypes
<1> HIDE DEF new
<1>6. operations' = [operations EXCEPT ![k] = new]
  BY <1>2 DEF new
<1> QED
  BY <1>1, <1>4, <1>5, <1>6, OperationEndKeeps

LEMMA OperationFailsKeeps ==
    ASSUME VerifyInv, OperationFails
    PROVE  VerifyInv'
<1>1. PICK k \in DOMAIN operations :
          /\ Running(k) /\ operations' = [operations EXCEPT ![k].status = "failed"]
          /\ UNCHANGED <<mode, stage, bundle, outcome, calls, cut, local>>
  BY DEF OperationFails
<1> DEFINE new == [operations[k] EXCEPT !.status = "failed"]
<1>2. operations[k] \in Operation
  BY DEF VerifyInv, RecordsAreInOrder
<1>3. new \in Operation /\ new.request = operations[k].request /\ new.status = "failed"
  BY <1>2 DEF Operation
<1>4. operations' = [operations EXCEPT ![k] = new]
  BY <1>1
<1> HIDE DEF new
<1> QED
  BY <1>1, <1>3, <1>4, OperationEndKeeps

----------------------------------------------------------------------------
(* Waiting.                                                                *)

LEMMA AnswerKeeps ==
    ASSUME VerifyInv, NEW i \in DOMAIN calls, MayAwait(i),
           NEW id, Answer(i, id),
           id = Failed \/ (id \in DOMAIN operations /\ Accepted(calls[i], id))
    PROVE  VerifyInv'
<1>1. /\ \/ mode = "batch" /\ stage = "await"
         \/ mode = "live" /\ stage = "calls"
      /\ outcome = "none" /\ calls[i].answer = Waiting
  BY DEF VerifyInv, TypeOK, EachRunIsOfItsKind, MayAwait
<1>2. /\ calls' = [calls EXCEPT ![i].answer = id]
      /\ UNCHANGED <<mode, bundle, operations, cut, local>>
      /\ \/ mode = "live" /\ id = Failed /\ stage' = "done" /\ outcome' = "raised"
         \/ id # Failed /\ stage' = stage /\ outcome' = "none"
         \/ mode = "batch" /\ stage' = stage /\ outcome' = "none"
  BY <1>1 DEF Answer, Raises, End
<1>3. /\ UNCHANGED <<trees, suites, process, left, holder>>
      /\ TestIds' = TestIds /\ Operation' = Operation
  BY <1>2 DEF local, TestIds, Operation
<1>4. /\ calls \in Seq(Call) /\ operations \in Seq(Operation)
      /\ DOMAIN calls = 1..Len(calls) /\ DOMAIN operations = 1..Len(operations)
  BY DEF VerifyInv, RecordsAreInOrder
<1>5. \A j \in DOMAIN calls :
          /\ calls[j].request \in Request /\ calls[j].id \in DOMAIN operations
          /\ calls[j].answer \in {Waiting, Failed, calls[j].id}
  BY DEF VerifyInv, TypeOK
<1>6. id \in Int /\ (id = Failed \/ id = calls[i].id)
  BY <1>4 DEF Accepted, Failed
<1>7. /\ calls' \in Seq(Call) /\ DOMAIN calls' = DOMAIN calls /\ Len(calls') = Len(calls)
      /\ \A j \in DOMAIN calls : j # i => calls'[j] = calls[j]
      /\ calls'[i].request = calls[i].request /\ calls'[i].id = calls[i].id
      /\ calls'[i].answer = id
  <2> DEFINE new == [calls[i] EXCEPT !.answer = id]
  <2>1. calls[i] \in Call
    BY <1>4
  <2>2. new \in Call /\ new.request = calls[i].request /\ new.id = calls[i].id /\ new.answer = id
    BY <1>6, <2>1 DEF Call
  <2>3. calls' = [calls EXCEPT ![i] = new]
    BY <1>2
  <2> HIDE DEF new
  <2>4. /\ calls' \in Seq(Call) /\ DOMAIN calls' = DOMAIN calls /\ Len(calls') = Len(calls)
        /\ calls'[i] = new /\ \A j \in DOMAIN calls : j # i => calls'[j] = calls[j]
    BY <1>4, <2>2, <2>3
  <2> QED
    BY <2>2, <2>4
<1>8. \A j \in DOMAIN calls :
          calls'[j].request = calls[j].request /\ calls'[j].id = calls[j].id
  BY <1>7
<1>9. \A j \in DOMAIN operations : j # Waiting /\ j # Failed
  BY <1>4 DEF Waiting, Failed
<1>10. TypeOK'
  <2>1. \A j \in DOMAIN calls' :
            /\ calls'[j].request \in Request /\ calls'[j].id \in DOMAIN operations'
            /\ calls'[j].answer \in {Waiting, Failed, calls'[j].id}
    BY <1>2, <1>5, <1>6, <1>7
  <2>2. process = "none" /\ DOMAIN suites = {} /\ left = NoSuite
    BY <1>1 DEF VerifyInv, TypeOK, EachRunIsOfItsKind, World
  <2>3. left' \in Suite(TestIds')
    BY <1>3, <2>2, NoSuiteType
  <2>4. stage' \in {"await", "calls", "done"} /\ outcome' \in {"none", "raised"}
    BY <1>1, <1>2
  <2>5. \A j \in DOMAIN operations' :
            /\ operations'[j].request \in Request
            /\ operations'[j].request.source < j
            /\ operations'[j].status \in {"running", "success", "failed"}
            /\ operations'[j].tree \in Tree
            /\ operations'[j].suite \in Suite(TestIds')
    BY <1>2, <1>3 DEF VerifyInv, TypeOK
  <2>6. /\ mode' \in {"local", "live", "batch"}
        /\ bundle' \in {Fixture} \union {WithDraft(draft) : draft \in Drafts}
        /\ trees' \in [World -> Tree] /\ holder' \in BOOLEAN /\ cut' \in BOOLEAN
    BY <1>2, <1>3 DEF VerifyInv, TypeOK
  <2>7. process' = "none" /\ DOMAIN suites' = {}
    BY <1>3, <2>2
  <2> QED
    BY <2>1, <2>3, <2>4, <2>5, <2>6, <2>7 DEF TypeOK
<1>11. RecordsAreInOrder'
  BY <1>2, <1>3, <1>4, <1>7 DEF RecordsAreInOrder, Call
<1>12. BundleStands' /\ ImagesAreTrue'
  BY <1>2 DEF VerifyInv, BundleStands, ImagesAreTrue, TreeOf
<1>13. EachRunIsOfItsKind'
  <2>1. DOMAIN suites' = {} /\ left' = NoSuite
    BY <1>1, <1>3 DEF VerifyInv, EachRunIsOfItsKind
  <2>2. cut' => mode' = "batch"
    BY <1>2 DEF VerifyInv, EachRunIsOfItsKind
  <2> QED
    BY <1>1, <1>2, <2>1, <2>2 DEF EachRunIsOfItsKind, World
<1>14. LocalKnows'
  BY <1>1, <1>2 DEF LocalKnows
<1>15. AnswersAreTrue'
  <2> SUFFICES ASSUME NEW j \in DOMAIN calls, calls'[j].answer = calls[j].id
               PROVE  /\ operations[calls[j].id].status = "success"
                      /\ operations[calls[j].id].request = calls[j].request
    BY <1>2, <1>7, <1>8 DEF AnswersAreTrue
  <2>1. CASE j = i
    BY <1>5, <1>7, <1>9, <2>1 DEF Accepted
  <2>2. CASE j # i
    BY <1>7, <2>2 DEF VerifyInv, AnswersAreTrue
  <2> QED
    BY <2>1, <2>2
<1>16. LiveKnows'
  <2> SUFFICES ASSUME mode = "live"
               PROVE  LiveKnows'
    BY <1>2 DEF LiveKnows
  <2>1. i = Len(calls)
    <3>1. \A j \in DOMAIN calls : j < Len(calls) => calls[j].answer # Waiting
      BY <1>5, <1>9 DEF VerifyInv, LiveKnows
    <3> QED
      BY <1>1, <1>4, <3>1
  <2>2. Len(calls) <= 5 /\ Len(calls) \in Nat
    BY <1>4 DEF VerifyInv, LiveKnows
  <2>3. \A j \in DOMAIN calls : LiveRequest(j)' = LiveRequest(j)
    <3> SUFFICES ASSUME NEW j \in DOMAIN calls
                 PROVE  LiveRequest(j)' = LiveRequest(j)
      OBVIOUS
    <3>1. j \in 1..5 /\ j <= Len(calls) + 1
      BY <1>4, <2>2
    <3>2. \A k \in DOMAIN calls : k < j => calls'[k].answer = calls[k].answer
      BY <1>4, <1>7, <2>1
    <3> QED
      BY <1>4, <1>7, <3>1, <3>2, RequestsStand
  <2>4. \A j \in DOMAIN calls' : calls'[j].request = LiveRequest(j)'
    BY <1>7, <1>8, <2>3 DEF VerifyInv, LiveKnows
  <2>5. \A j \in DOMAIN calls' : j < Len(calls') => calls'[j].answer = calls'[j].id
    BY <1>7, <2>1 DEF VerifyInv, LiveKnows
  <2>6. stage' # "done" => ~AnyFailedCall'
    <3>1. \A j \in DOMAIN calls : calls[j].answer # Failed
      BY <1>1 DEF VerifyInv, LiveKnows, AnyFailedCall
    <3>2. stage' # "done" => id # Failed
      BY <1>1, <1>2
    <3> QED
      BY <1>7, <3>1, <3>2 DEF AnyFailedCall
  <2>7. Len(calls') >= 4 => \A j \in {2, 3} :
            operations'[calls'[j].answer].tree = LiveRequest(j)'.job
    <3> SUFFICES ASSUME Len(calls) >= 4, NEW j \in {2, 3}
                 PROVE  operations[calls'[j].answer].tree = LiveRequest(j)'.job
      BY <1>2, <1>7
    <3>1. j \in DOMAIN calls /\ j # i
      <4> DEFINE n == Len(calls)
      <4>1. n \in Nat /\ n >= 4 /\ DOMAIN calls = 1..n /\ i = n
        BY <1>4, <2>1, <2>2
      <4> HIDE DEF n
      <4> QED
        BY <4>1
    <3>2. calls'[j].answer = calls[j].answer /\ LiveRequest(j)' = LiveRequest(j)
      BY <1>7, <2>3, <3>1
    <3> QED
      BY <3>2 DEF VerifyInv, LiveKnows
  <2>8. outcome' \notin {"accepted", "rejected"}
    BY <1>2
  <2> QED
    BY <1>7, <2>2, <2>4, <2>5, <2>6, <2>7, <2>8 DEF LiveKnows
<1>17. BatchKnows'
  <2> SUFFICES ASSUME mode = "batch"
               PROVE  BatchKnows'
    BY <1>2 DEF BatchKnows
  <2>1. stage' = "await" /\ outcome' = "none" /\ cut' = cut /\ stage = "await"
    BY <1>1, <1>2
  <2>2. \A j \in DOMAIN calls' : calls'[j].request = Batch[j]
    BY <1>7, <1>8 DEF VerifyInv, BatchKnows
  <2> QED
    BY <1>7, <2>1, <2>2 DEF VerifyInv, BatchKnows
<1>18. AtMostOneIsUnknown'
  <2>1. {calls'[j].id : j \in DOMAIN calls'} = {calls[j].id : j \in DOMAIN calls}
    BY <1>7, <1>8
  <2>2. Unknown' = Unknown
    BY <1>2, <2>1 DEF Unknown
  <2> QED
    BY <1>1, <1>2, <2>2 DEF VerifyInv, AtMostOneIsUnknown
<1>19. AcceptedIsObserved' /\ OnlyABrokenSuiteIsRefused'
  BY <1>1, <1>2 DEF AcceptedIsObserved, OnlyABrokenSuiteIsRefused
<1> QED
  BY <1>10, <1>11, <1>12, <1>13, <1>14, <1>15, <1>16, <1>17, <1>18, <1>19 DEF VerifyInv

LEMMA WaitsKeep ==
    ASSUME VerifyInv, WaitIsAnswered \/ WaitFails
    PROVE  VerifyInv'
<1>1. CASE WaitIsAnswered
  <2>1. PICK i \in DOMAIN calls, id \in DOMAIN operations :
            MayAwait(i) /\ Answer(i, IF Accepted(calls[i], id) THEN id ELSE Failed)
    BY <1>1 DEF WaitIsAnswered
  <2>2. CASE Accepted(calls[i], id)
    BY <2>1, <2>2, AnswerKeeps
  <2>3. CASE ~Accepted(calls[i], id)
    BY <2>1, <2>3, AnswerKeeps
  <2> QED
    BY <2>2, <2>3
<1>2. CASE WaitFails
  BY <1>2, AnswerKeeps DEF WaitFails
<1> QED
  BY <1>1, <1>2

----------------------------------------------------------------------------
(* The verdict of a live run.                                              *)

\* All five calls were answered by the record of what was asked.
LEMMA CallsTell ==
    ASSUME VerifyInv, mode = "live", Len(calls) = 5, Idle, ~AnyFailedCall
    PROVE  /\ \A i \in {1, 2, 3, 4, 5} :
                  /\ calls[i].answer \in DOMAIN operations
                  /\ calls[i].answer # RootImage
                  /\ operations[calls[i].answer].status = "success"
                  /\ operations[calls[i].answer].request = LiveRequest(i)
           /\ WorldsAreTheirOwn
<1>1. /\ calls \in Seq(Call) /\ operations \in Seq(Operation)
      /\ DOMAIN calls = 1..5 /\ DOMAIN operations = 1..Len(operations)
  BY DEF VerifyInv, RecordsAreInOrder
<1>2. \A i \in {1, 2, 3, 4, 5} : i \in DOMAIN calls
  BY <1>1
<1>3. \A i \in DOMAIN calls : calls[i].answer = calls[i].id /\ calls[i].id \in DOMAIN operations
  BY DEF VerifyInv, TypeOK, Idle, AnyFailedCall
<1>4. \A i \in DOMAIN operations : i # RootImage
  BY <1>1 DEF RootImage
<1>5. \A i \in DOMAIN calls :
          /\ operations[calls[i].answer].status = "success"
          /\ operations[calls[i].answer].request = LiveRequest(i)
  BY <1>3 DEF VerifyInv, AnswersAreTrue, LiveKnows
<1> DEFINE did(i) == operations[calls[i].answer]
<1>6. \A i \in {1, 2, 3, 4, 5} :
          /\ calls[i].answer \in DOMAIN operations /\ calls[i].answer # RootImage
          /\ did(i).status = "success" /\ did(i).request = LiveRequest(i)
  BY <1>2, <1>3, <1>4, <1>5
<1>7. /\ LiveRequest(1) = Asked(RootImage, "prepare")
      /\ LiveRequest(2) = Asked(calls[1].answer, "base")
      /\ LiveRequest(3) = Asked(calls[1].answer, "candidate")
      /\ LiveRequest(4) = Asked(calls[2].answer, "suite")
      /\ LiveRequest(5) = Asked(calls[3].answer, "suite")
  BY DEF LiveRequest
<1>8. did(2).tree = "base" /\ did(3).tree = "candidate"
  <2>1. \A i \in {2, 3} : did(i).tree = LiveRequest(i).job
    BY DEF VerifyInv, LiveKnows
  <2> QED
    BY <1>7, <2>1 DEF Asked
<1>9. did(4).tree = "base" /\ did(5).tree = "candidate"
  <2>1. \A i \in {4, 5} : /\ did(i).request.job = "suite"
                          /\ did(i).request.source = calls[i - 2].answer
    BY <1>6, <1>7 DEF Asked
  <2>2. \A i \in {4, 5} : did(i).tree = TreeOf(did(i).request.source)
    BY <1>6, <2>1 DEF VerifyInv, ImagesAreTrue
  <2>3. did(4).tree = TreeOf(calls[2].answer) /\ did(5).tree = TreeOf(calls[3].answer)
    BY <2>1, <2>2
  <2> QED
    BY <1>6, <1>8, <2>3 DEF TreeOf
<1>10. \A i \in {2, 3} : did(i).request.source = calls[1].answer
  BY <1>6, <1>7 DEF Asked
<1>11. \A i \in {4, 5} : did(i).request = Asked(calls[i - 2].answer, "suite")
  BY <1>6, <1>7
<1>12. did(1).request = Asked(RootImage, "prepare")
  BY <1>6, <1>7
<1>13. WorldsAreTheirOwn
  BY <1>9, <1>10, <1>11, <1>12 DEF WorldsAreTheirOwn
<1> QED
  BY <1>6, <1>13

LEMMA JudgeLiveKeeps ==
    ASSUME VerifyInv, JudgeLive
    PROVE  VerifyInv'
<1>1. /\ mode = "live" /\ stage = "calls" /\ Idle /\ Len(calls) = 5 /\ ~AnyFailedCall
      /\ UNCHANGED <<mode, bundle, trees, suites, process, left, holder, operations, calls, cut>>
  BY DEF JudgeLive, CallsAreMade, local, live, VerifyInv, LiveKnows
<1>2. /\ \A i \in {1, 2, 3, 4, 5} :
             /\ calls[i].answer \in DOMAIN operations
             /\ calls[i].answer # RootImage
             /\ operations[calls[i].answer].status = "success"
             /\ operations[calls[i].answer].request = LiveRequest(i)
      /\ WorldsAreTheirOwn
  BY <1>1, CallsTell
<1>3. /\ DOMAIN LiveSuites = World
      /\ \A world \in World : LiveSuites[world] \in Suite(TestIds)
  BY <1>2 DEF LiveSuites, VerifyInv, TypeOK
<1>4. TestIds # {} /\ TestIds' = TestIds
  BY <1>1, BundleHasTests DEF TestIds, VerifyInv, BundleStands
<1>5. \A world \in World : ~Broken(LiveSuites[world], TestIds)
  <2> SUFFICES ASSUME NEW world \in World
               PROVE  ~Broken(LiveSuites[world], TestIds)
    OBVIOUS
  <2>1. LiveSuites[world] \in Suite(TestIds)
    BY <1>3
  <2>2. Complete(ParseJunit(LiveSuites[world], TestIds))
    BY DEF JudgeLive, SuitesAreComplete
  <2> QED
    BY <1>4, <2>1, <2>2, CompleteIsCoherent, CoherenceTells
<1>6. LiveTrees["base"] = "base"
  BY DEF LiveTrees, World
<1>7. /\ stage' = "done" /\ outcome' \in {"accepted", "rejected", "refused"}
      /\ outcome' = "refused" <=>
             LiveTrees["base"] # "base" \/ \E world \in World : Broken(LiveSuites[world], TestIds)
      /\ outcome' = "accepted" => Shows(LiveSuites)
  <2>1. Conclude(LiveSuites, LiveTrees) /\ BundleStands
    BY DEF JudgeLive, VerifyInv
  <2> QED
    BY <1>3, <2>1, VerdictTells
<1>8. outcome' \in {"accepted", "rejected"}
  BY <1>5, <1>6, <1>7
<1>9. TypeOK'
  <2>1. process = "none"
    BY <1>1 DEF VerifyInv, TypeOK, World
  <2> QED
    BY <1>1, <1>4, <1>7, <1>8, <2>1 DEF VerifyInv, TypeOK
<1>10. EachRunIsOfItsKind'
  <2>1. DOMAIN suites = {} /\ left = NoSuite /\ ~cut
    BY <1>1 DEF VerifyInv, EachRunIsOfItsKind
  <2> QED
    BY <1>1, <1>7, <1>8, <2>1 DEF EachRunIsOfItsKind, World
<1>11. LocalKnows' /\ BatchKnows'
  BY <1>1 DEF LocalKnows, BatchKnows
<1>12. LiveKnows'
  <2>1. \A i : LiveRequest(i)' = LiveRequest(i)
    BY <1>1 DEF LiveRequest
  <2> QED
    BY <1>1, <1>7, <2>1 DEF VerifyInv, LiveKnows, Idle, AnyFailedCall
<1>13. AtMostOneIsUnknown'
  BY <1>1, <1>7 DEF VerifyInv, AtMostOneIsUnknown, Unknown
<1>14. OnlyABrokenSuiteIsRefused'
  BY <1>1, <1>8 DEF OnlyABrokenSuiteIsRefused
<1>15. AcceptedIsObserved'
  <2> SUFFICES ASSUME outcome' = "accepted"
               PROVE  AcceptedIsObserved'
    BY DEF AcceptedIsObserved
  <2>1. SuitesOfRun' = LiveSuites
    BY <1>1 DEF SuitesOfRun, LiveSuites
  <2>2. ToSet(Fixture.tests) \subseteq ToSet(bundle.tests)
    BY FixtureIsKept DEF VerifyInv
  <2>3. WorldsAreTheirOwn'
    BY <1>1, <1>2 DEF WorldsAreTheirOwn
  <2>4. Shows(LiveSuites)
    BY <1>7
  <2> HIDE DEF LiveSuites
  <2> QED
    BY <1>1, <2>1, <2>2, <2>3, <2>4 DEF AcceptedIsObserved, Shows, Says, SaysPassed, Cell
<1> QED
  BY <1>1, <1>9, <1>10, <1>11, <1>12, <1>13, <1>14, <1>15, RecordsStand DEF VerifyInv

----------------------------------------------------------------------------
(* Every step keeps the invariant.                                         *)

LEMMA NextKeeps ==
    ASSUME VerifyInv, Next
    PROVE  VerifyInv'
<1>1. \/ LocalNext
      \/ LiveNext
  BY DEF Next
<1>2. CASE LocalNext
  <2>1. CASE Prepare
    BY <2>1, PrepareKeeps
  <2>2. CASE StartSuite \/ SuiteTimesOut \/ SuiteIsInterrupted \/ WriteIntoTheTree
                 \/ LeaveHolder \/ HolderExits \/ SuiteExits
    BY <2>2, SuiteStepsKeep
  <2>3. CASE PrepareRaises \/ RaiseTheInterrupt \/ CollectRaises
    BY <2>3, RaisesKeep
  <2>4. CASE Collect
    BY <2>4, CollectKeeps
  <2>5. CASE Judge
    BY <2>5, JudgeKeeps
  <2> QED
    BY <1>2, <2>1, <2>2, <2>3, <2>4, <2>5 DEF LocalNext, LocalClient
<1>3. CASE LiveNext
  <2>1. CASE BindDraft
    BY <2>1, BindDraftKeeps
  <2>2. CASE BindRaises \/ LiveIsStopped \/ WaitIsInterrupted \/ JudgeLiveRaises
    BY <2>2, RaisesKeep
  <2>3. CASE SpawnIsAnswered
    BY <2>3, SpawnIsAnsweredKeeps
  <2>4. CASE SpawnIsAnsweredWithAnother
    BY <2>4, SpawnIsAnsweredWithAnotherKeeps
  <2>5. CASE SpawnFails
    BY <2>5, SpawnFailsKeeps
  <2>6. CASE BatchIsSubmitted \/ BatchIsAwaited
    BY <2>6, BatchStepsKeep
  <2>7. CASE WaitIsAnswered \/ WaitFails
    BY <2>7, WaitsKeep
  <2>8. CASE JudgeLive
    BY <2>8, JudgeLiveKeeps
  <2>9. CASE OperationSucceeds
    BY <2>9, OperationSucceedsKeeps
  <2>10. CASE OperationFails
    BY <2>10, OperationFailsKeeps
  <2> QED
    BY <1>3, <2>1, <2>2, <2>3, <2>4, <2>5, <2>6, <2>7, <2>8, <2>9, <2>10
       DEF LiveNext, LiveClient
<1> QED
  BY <1>1, <1>2, <1>3

LEMMA StutterKeeps ==
    ASSUME VerifyInv, UNCHANGED vars
    PROVE  VerifyInv'
<1>1. /\ UNCHANGED <<mode, stage, bundle, outcome, suites, live>>
      /\ UNCHANGED <<trees, process, left, holder>>
  BY DEF vars, local
<1>2. /\ process \in {"none", "running", "exited", "killed", "interrupted"}
      /\ trees \in [World -> Tree] /\ left \in Suite(TestIds) /\ holder \in BOOLEAN
  BY DEF VerifyInv, TypeOK
<1> QED
  BY <1>1, <1>2, QuietKeeps

\* By its nonce a record answers one call of a batch alone.
LEMMA EachCallHasItsOperation ==
    ASSUME VerifyInv, outcome = "returned"
    PROVE  /\ mode = "batch" /\ Len(calls) = Len(Batch)
           /\ \A i \in DOMAIN calls :
                 operations[calls[i].answer].request = Batch[i]
           /\ IsInjective([i \in DOMAIN calls |-> calls[i].answer])
           /\ Unknown = {}
<1>1. stage = "done" /\ mode = "batch"
  BY DEF VerifyInv, TypeOK, EachRunIsOfItsKind, World
<1>2. Idle /\ ~cut /\ ~AnyFailedCall /\ Len(calls) = Len(Batch)
  BY <1>1 DEF VerifyInv, BatchKnows
<1>3. \A i \in DOMAIN calls : calls[i].answer = calls[i].id
  BY <1>2 DEF VerifyInv, TypeOK, Idle, AnyFailedCall
<1>4. \A i \in DOMAIN calls : operations[calls[i].answer].request = Batch[i]
  BY <1>1, <1>3 DEF VerifyInv, AnswersAreTrue, BatchKnows
<1>5. DOMAIN calls = DOMAIN Batch
  BY <1>2, BatchAssumption DEF VerifyInv, RecordsAreInOrder
<1>6. \A i, j \in DOMAIN Batch : Batch[i].nonce = Batch[j].nonce => i = j
  BY BatchAssumption DEF IsInjective
<1>7. \A i, j \in DOMAIN calls : calls[i].answer = calls[j].answer => i = j
  BY <1>4, <1>5, <1>6
<1>8. IsInjective([i \in DOMAIN calls |-> calls[i].answer])
  BY <1>7 DEF IsInjective
<1>9. Unknown = {}
  BY <1>2 DEF VerifyInv, AtMostOneIsUnknown
<1> QED
  BY <1>1, <1>2, <1>4, <1>8, <1>9

LEMMA OperationsAreKnown ==
    ASSUME VerifyInv
    PROVE  OperationsAreAccountedFor
<1>1. outcome \in {"returned", "batch failed"} => Idle
  <2>1. outcome \in {"returned", "batch failed"} => stage = "done" /\ mode = "batch"
    BY DEF VerifyInv, TypeOK, EachRunIsOfItsKind, World
  <2> QED
    BY <2>1 DEF VerifyInv, BatchKnows
<1>2. Cardinality(Unknown) <= 1
  <2>1. Unknown = {} \/ \E k : Unknown = {k}
    BY DEF VerifyInv, AtMostOneIsUnknown
  <2>2. Cardinality({}) = 0
    BY FS_EmptySet
  <2>3. \A k : Cardinality({k}) = 1
    BY FS_Singleton
  <2> QED
    BY <2>1, <2>2, <2>3
<1>3. Unknown # {} => outcome \notin {"returned", "accepted", "rejected"}
  <2> SUFFICES ASSUME Unknown # {}, outcome \in {"returned", "accepted", "rejected"}
               PROVE  FALSE
    OBVIOUS
  <2>1. cut
    BY DEF VerifyInv, AtMostOneIsUnknown
  <2>2. mode = "batch" /\ stage = "done"
    BY <2>1 DEF VerifyInv, EachRunIsOfItsKind
  <2>3. outcome = "returned"
    BY <2>2 DEF VerifyInv, EachRunIsOfItsKind, World
  <2> QED
    BY <2>1, <2>2, <2>3 DEF VerifyInv, BatchKnows
<1> QED
  BY <1>1, <1>2, <1>3, EachCallHasItsOperation DEF OperationsAreAccountedFor

----------------------------------------------------------------------------
(* The theorems.                                                           *)

\* What a run of the verifier knows at each of its stages.
THEOREM VerifyInvHolds == Spec => []VerifyInv
<1>1. Init => VerifyInv
  BY InitVerifies
<1>2. VerifyInv /\ [Next]_vars => VerifyInv'
  BY NextKeeps, StutterKeeps
<1> QED
  BY <1>1, <1>2, PTL DEF Spec

\* A run of the verifier stays within its types: an operation is started from an
\* image that was there before it, and a suite's process is one of a world.
THEOREM VerificationTypeHolds == Spec => []TypeOK
<1>1. VerifyInv => TypeOK
  BY DEF VerifyInv
<1> QED
  BY <1>1, VerifyInvHolds, PTL

\* matrix.candidate_is_accepted, in verify_local and in verify_live: a candidate
\* is accepted on what both suites said of every packaged test and every test of
\* the model, each suite run in the tree of its own world.
THEOREM AcceptedHolds == Spec => []AcceptedIsObserved
<1>1. VerifyInv => AcceptedIsObserved
  BY DEF VerifyInv
<1> QED
  BY <1>1, VerifyInvHolds, PTL

\* evidence.validate_manifest refuses a run of verify_local that left a broken
\* suite or another base tree, no other one, and never a live run.
THEOREM OnlyBrokenIsRefusedHolds == Spec => []OnlyABrokenSuiteIsRefused
<1>1. VerifyInv => OnlyABrokenSuiteIsRefused
  BY DEF VerifyInv
<1> QED
  BY <1>1, VerifyInvHolds, PTL

\* ContreeBackend.execute_many waits for every operation it was told of; it
\* returns what was asked, in its order; and of the operations at the provider
\* one at the most, that of a failed spawn, is not among the ids it tells.
THEOREM AccountedForHolds == Spec => []OperationsAreAccountedFor
<1>1. VerifyInv => OperationsAreAccountedFor
  BY OperationsAreKnown
<1> QED
  BY <1>1, VerifyInvHolds, PTL
=============================================================================
