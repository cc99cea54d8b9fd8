SPECIFICATION Spec
CONSTANTS
    Delta <- ReservedUnits
    InitialTotal = 10
    Plans <- AllPlans
    MaxCommits = 2
    MaxMischief = 1
    NoSnapshot = NoSnapshot
INVARIANT KillPointIsExact
PROPERTIES
    KeepsThePromise
    FailureIsNeverHidden
    EveryWorldEnds
CHECK_DEADLOCK FALSE
