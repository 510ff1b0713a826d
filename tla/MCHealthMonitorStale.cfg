SPECIFICATION Spec
CONSTANTS
    Policies = {"on-failure"}
    Base = 5
    Ceiling = 60
    MaxAttempts = 2
    MaxChanges = 2
    MaxFaults = 0
PROPERTY
    RestartOnlyOnFailure
CHECK_DEADLOCK FALSE
