CONSTANTS
    Delta <- Cents
    InitialTotal = 0
    Confirmations = 5
    MaxCommits = 0
    Failures <- NoFailures
    MaxStatements = 4
    Handlers <- EveryHandler
SPECIFICATION Spec
CHECK_DEADLOCK FALSE
INVARIANTS
    TypeOK
    VerdictIsTheOracles
    ProvenSurvivesEveryCrash
