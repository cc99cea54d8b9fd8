SPECIFICATION WorkspaceSpec
CONSTANTS
    p1 = p1
    p2 = p2
    p3 = p3
    Commands <- Three
    Jobs <- Everyone
    Faults <- AllFaults
    Identities <- AllIdentities
    Refs <- AllRefs
    Paths <- AllPaths
    BaseOf <- TreeOf
    a1 = a1
    a2 = a2
    b1 = b1
    b2 = b2
    m1 = m1
    Agents <- TwoAgents
    Bases <- TwoBases
    Modules <- OneModule
    Outputs <- OneOutput
    Missing = Missing
    Nobody = Nobody
    PatchFaults <- AllPatchFaults
SYMMETRY AnyNames
CHECK_DEADLOCK FALSE
INVARIANTS
    WorkspaceTypeOK
    OnlyTheNamedDraftIsAccepted
    AuthorshipIsTrue
    ReportedCandidateStands
PROPERTIES
    ContractIsOnlyAccepted
    PrintedContractIsTheOneAskedFor
