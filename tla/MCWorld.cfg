SPECIFICATION Spec
CONSTANTS
    Delta <- ReservedUnits
    InitialTotal = 10
    Plans <- WorldPlans
    MaxCommits = 2
    MaxMischief = 2
    NoSnapshot = NoSnapshot
INVARIANTS
    TypeOK
    JudgedStateIsTheStoresOwn
    HiddenEntriesForfeitTheVerdict
    SqlAroundAFinishedDeliveryIsRefused
    NothingOutlivesTheWorld
    ReplayStartsFromTheCrash
    ReceiptIsCoherent
CHECK_DEADLOCK FALSE
