SPECIFICATION FairSpec
CONSTANTS
    backup = backup
    report = report
    Job = {backup, report}
    Run = {r1, r2}
    MaxTime = 2
    DueAt <- MCDueAt
    WithTimeout = {backup}
    MaxRegisters = 0
    MaxFaults = 0
    None = None
PROPERTIES
    TimeoutFreesSchedule
    DueIsDispatched
CHECK_DEADLOCK FALSE
