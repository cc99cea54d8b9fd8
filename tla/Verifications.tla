--------------------------- MODULE Verifications ---------------------------
(***************************************************************************)
(* A run of the differential verifier: local, live, or a batch.            *)
(***************************************************************************)
EXTENDS LocalRun, LiveRun

Next == LocalNext \/ LiveNext

\* The client goes on: the limits it gives its suites and its waits are what
\* lets it.  Neither a suite nor the provider need ever end.
Spec == Init /\ [][Next]_vars /\ WF_vars(LocalClient \/ LiveClient)
----------------------------------------------------------------------------
\* What each world's suite really was.
SuitesOfRun == IF mode = "local" THEN suites ELSE LiveSuites

Cell(world, test) == SuitesOfRun[world].report[test]

Says(world, test, child, marker) ==
    /\ Cell(world, test).times = 1
    /\ Cell(world, test).child = child
    /\ Cell(world, test).marker = marker

SaysPassed(world, test) == Says(world, test, "none", "PASS")

\* The images of a live run: both worlds made of one image of the root, each
\* suite run on its own world's image, which has the tree it should have.
WorldsAreTheirOwn ==
    LET did(i) == operations[calls[i].answer]
    IN  /\ did(1).request = Asked(RootImage, "prepare")
        /\ \A i \in {2, 3} : did(i).request.source = calls[1].answer
        /\ \A i \in {4, 5} : did(i).request = Asked(calls[i - 2].answer, "suite")
        /\ did(4).tree = "base" /\ did(5).tree = "candidate"

\* An accepted candidate passed every packaged test and every test of the model,
\* in its own tree, by its report and by its suite's exit code; the base, in the
\* tree that was bound, failed just those tests that must tell the two apart.
AcceptedIsObserved ==
    outcome = "accepted" =>
        /\ ToSet(Fixture.tests) \subseteq ToSet(bundle.tests)
        /\ \A test \in ToSet(bundle.tests) :
              /\ SaysPassed("candidate", test.id)
              /\ IF test.relation = "change"
                 THEN Says("base", test.id, "failure", "ASSERTION_FAIL")
                 ELSE SaysPassed("base", test.id)
        /\ SuitesOfRun["candidate"].ended = "passed"
        /\ SuitesOfRun["base"].ended =
               IF \E test \in ToSet(bundle.tests) : test.relation = "change"
               THEN "failed" ELSE "passed"
        /\ IF mode = "live" THEN WorldsAreTheirOwn
           ELSE trees = [world \in World |-> world]

\* The validators of a manifest refuse a local run whose suite was killed, ended
\* with another exit code than 0 or 1, or exited 0 over a report that fails or
\* is no report, and one whose base tree was written into.  No other run is
\* refused; a live one never is, its own looks come first.
OnlyABrokenSuiteIsRefused ==
    mode \in {"local", "live"} /\ stage = "done" =>
        ((outcome = "refused")
         <=> /\ mode = "local" /\ outcome # "raised"
             /\ \/ trees["base"] # "base"
                \/ \E world \in World :
                      \/ suites[world].ended \in {"timeout", "broken"}
                      \/ /\ suites[world].ended = "passed"
                         /\ \/ suites[world].report = Unusable
                            \/ AnyFailed(ParseJunit(suites[world], TestIds)))

Unknown == DOMAIN operations \ {calls[i].id : i \in DOMAIN calls}

\* A batch that ends, by its results or by its error, has waited for every
\* operation it was told of; it returns only what was asked, in that order and
\* each by an operation of its own; and at most one operation at the provider
\* is not among the ids it tells, and only after a spawn that failed.
OperationsAreAccountedFor ==
    /\ outcome \in {"returned", "batch failed"} => Idle
    /\ outcome = "returned" =>
           /\ Len(calls) = Len(Batch)
           /\ \A i \in DOMAIN calls : operations[calls[i].answer].request = Batch[i]
           /\ IsInjective([i \in DOMAIN calls |-> calls[i].answer])
           /\ Unknown = {}
    /\ Cardinality(Unknown) <= 1
    /\ Unknown # {} => outcome \notin {"returned", "accepted", "rejected"}

\* A run ends, unless a descendant of a suite that left its group holds a pipe for
\* good: nothing limits the wait for that one.
EveryVerificationEnds == <>(stage = "done") \/ <>[]holder
=============================================================================
