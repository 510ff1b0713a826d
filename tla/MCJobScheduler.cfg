SPECIFICATION Spec
CONSTANTS
    backup = backup
    report = report
    Job = {backup}
    Run = {r1, r2}
    MaxTime = 2
    DueAt <- MCDueAt
    WithTimeout = {backup}
    MaxRegisters = 1
    MaxFaults = 1
    None = None
SYMMETRY RunSymmetry
INVARIANTS
    TypeOK
    RunningMeansOneRun
    EachInstantOnce
    SuccessIsReal
    JobRowMatchesHistory
    ContainerRemoved
PROPERTY
    ImplementsLedger
CHECK_DEADLOCK FALSE
