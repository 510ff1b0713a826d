SPECIFICATION FairSpec
CONSTANTS
    Policies = {"no", "always", "on-failure", "unless-stopped"}
    Base = 5
    Ceiling = 60
    MaxAttempts = 6
    MaxChanges = 3
    MaxFaults = 2
INVARIANTS
    TypeOK
    BackoffDoubles
    ReasonIsRecorded
PROPERTIES
    RowConverges
    RestartedWhenDown
CHECK_DEADLOCK FALSE
