SPECIFICATION Spec
CONSTANTS
    Fixture <- Packaged
    Reserved <- ModelIds
    Cases <- SomeCases
    Drafts <- SomeDrafts
    Batch <- ThreeInvocations
CHECK_DEADLOCK FALSE
INVARIANTS
    TypeOK
    AcceptedIsObserved
    OnlyABrokenSuiteIsRefused
    OperationsAreAccountedFor
PROPERTY
    EveryVerificationEnds
