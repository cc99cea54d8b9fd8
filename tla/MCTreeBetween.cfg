SPECIFICATION Spec
CONSTANTS
    Delta <- ReservedUnits
    InitialTotal = 10
    Plans <- NoFaultPlans
    MaxCommits = 2
    MaxMischief = 2
    NoSnapshot = NoSnapshot
INVARIANTS
    HiddenTreeEntriesForfeitTheCensus
CHECK_DEADLOCK FALSE
