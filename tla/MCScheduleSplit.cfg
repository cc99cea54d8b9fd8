CONSTANTS
    Delta <- ReservedUnits
    InitialTotal = 10
    Confirmations = 2
    MaxCommits = 2
    ControlCommits = 1
    Failures <- WorldFailures
    Requests <- OneCheck
SPECIFICATION Spec
CHECK_DEADLOCK FALSE
INVARIANTS
    SchedulesNeverSplit
