SPECIFICATION FairSpec
CONSTANTS
    Publisher = {p1, p2}
    SubId = {s1, s2}
    Type = {job}
    Buffer = 1
    MaxPublished = 2
    Idle = Idle
INVARIANTS
    TypeOK
    PublisherOrder
    NothingLostUnlessFull
PROPERTIES
    ImplementsQueues
    PublishReturns
CHECK_DEADLOCK FALSE
