SPECIFICATION Spec
CONSTANTS
    w1 = w1
    w2 = w2
    Copies <- EveryCopy
    Plans <- EveryPlan
    Worlds <- Two
    Census = w1
    Strays = TRUE
    MaxWrites = 2
CHECK_DEADLOCK FALSE
INVARIANTS
    TypeOK
    OnlyTheseChannelsStayOpen
    RaisedOnlyForATrespass
