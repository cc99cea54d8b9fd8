SPECIFICATION Spec
CONSTANTS
    p1 = p1
    p2 = p2
    Publishers <- Two
    Jobs <- EveryJob
    Faults <- AllFaults
SYMMETRY AnyOrder
CHECK_DEADLOCK FALSE
INVARIANTS
    TypeOK
    ManifestStandsOnItsFiles
    ShortFilesHaveADebtor
PROPERTIES
    NothingIsOverwritten
    RefusalIsAConflict
