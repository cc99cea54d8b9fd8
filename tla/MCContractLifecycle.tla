------------------------- MODULE MCContractLifecycle -------------------------
(* The instances of ContractLifecycle that TLC checks. *)
EXTENDS ContractLifecycle, TLC

CONSTANTS p1, p2, p3

Two == {p1, p2}
Three == {p1, p2, p3}

AnyOrder == Permutations(Commands)

Draft(identity, ref, issue) ==
    [identity |-> identity, ref |-> ref, issue |-> issue, audited |-> FALSE]

\* Two spellings of one request, and a request for another issue.
Request == Draft("first", "a", "here")
Respelled == Draft("first", "b", "there")
Other == Draft("second", "a", "here")
Audited == [Draft("packaged", "a", "here") EXCEPT !.audited = TRUE]

Job(does, draft, via) == [does |-> does, draft |-> draft, via |-> via]

ToolCalls == {Job("init", Request, "mcp"), Job("accept", Request, "mcp")}

Everyone ==
    {Job("init", d, "cli") : d \in {Request, Respelled, Other, Audited}}
    \union {Job("init+accept", d, "cli") : d \in {Request, Other}}
    \union {Job("check", Request, "cli")}
    \union ToolCalls

\* The other issue is of the same base.
AllIdentities == {"first", "second", "packaged"}
TreeOf == [first |-> "tree", second |-> "tree", packaged |-> "packaged"]
AllRefs == {"a", "b"}
AllPaths == {"here", "there"}

AllFaults == {"crash", "write", "delete"}
NoFaults == {}
=============================================================================
