SPECIFICATION Spec
CONSTANTS
    p1 = p1
    p2 = p2
    p3 = p3
    Commands <- Two
    Jobs <- ToolCalls
    Faults <- NoFaults
    Identities <- AllIdentities
    Refs <- AllRefs
    Paths <- AllPaths
    BaseOf <- TreeOf
CHECK_DEADLOCK FALSE
PROPERTY OnlyAnotherDraftIsRefused
