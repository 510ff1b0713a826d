SPECIFICATION Spec
CONSTANTS
    backup = backup
    report = report
    Job = {backup}
    Run = {r1}
    MaxTime = 1
    DueAt <- MCDueAt
    WithTimeout = {backup}
    MaxRegisters = 0
    MaxFaults = 0
    None = None
INVARIANT
    EveryRunRecorded
CHECK_DEADLOCK FALSE
