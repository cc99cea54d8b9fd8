-------------------------- MODULE MCVerifications --------------------------
(* The instance of Verifications that TLC checks. *)
EXTENDS Verifications

ClaimOf(id, relation, links) == [id |-> id, relation |-> relation, links |-> links]

TestOf(id, claim, relation) == [id |-> id, claim |-> claim, relation |-> relation]

\* One claim of each relation.
Packaged ==
    [claims |-> <<ClaimOf("retry", "change", {"duplicate"}),
                  ClaimOf("stock", "preserve", {"reservation"})>>,
     tests |-> <<TestOf("duplicate", "retry", "change"),
                 TestOf("reservation", "stock", "preserve")>>]

ModelIds == {"nemotron.a", "nemotron.b"}

Draft(claims, tests) == [claims |-> claims, tests |-> tests]

\* Two that can be used, of either relation; one that speaks for a packaged
\* claim, and three whose links or relation are wrong, the last one's only for
\* the bundle.
SomeDrafts ==
    {Draft(<<ClaimOf("nemotron.a", relation, {"nemotron.a"})>>,
           <<TestOf("nemotron.a", "nemotron.a", relation)>>) : relation \in Relation}
    \union
    {Draft(<<ClaimOf("stock", "change", {"nemotron.a"})>>,
           <<TestOf("nemotron.a", "stock", "change")>>),
     Draft(<<ClaimOf("nemotron.a", "change", {"nemotron.a", "reservation"})>>,
           <<TestOf("nemotron.a", "nemotron.a", "change")>>),
     Draft(<<ClaimOf("nemotron.a", "change", {"nemotron.a"})>>,
           <<TestOf("nemotron.a", "nemotron.a", "preserve")>>),
     Draft(<<ClaimOf("nemotron.a", "change", {"nemotron.a"}),
             ClaimOf("nemotron.b", "change", {"nemotron.a", "nemotron.b"})>>,
           <<TestOf("nemotron.a", "nemotron.a", "change"),
             TestOf("nemotron.b", "nemotron.b", "change")>>)}

CaseOf(times, child, marker) == [times |-> times, child |-> child, marker |-> marker]

\* Passed, failed by assertion, failed but marked passed, and skipped.
SomeCases ==
    {CaseOf(1, "none", "PASS"), CaseOf(1, "failure", "ASSERTION_FAIL"),
     CaseOf(1, "failure", "PASS"), CaseOf(1, "skipped", "NOT_RUN")}

\* Two of the same invocation, but for the nonce, and another.
ThreeInvocations ==
    <<[source |-> 0, job |-> "suite", nonce |-> 1],
      [source |-> 0, job |-> "suite", nonce |-> 2],
      [source |-> 0, job |-> "base", nonce |-> 3]>>
=============================================================================
