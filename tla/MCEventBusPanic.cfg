SPECIFICATION Spec
CONSTANTS
    Publisher = {p1}
    SubId = {s1}
    Type = {job}
    Buffer = 1
    MaxPublished = 1
    Idle = Idle
INVARIANT
    PublishNeverPanics
CHECK_DEADLOCK FALSE
