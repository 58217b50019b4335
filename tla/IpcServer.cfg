CONSTANTS
    Ids = {i1, i2}
    MaxOutstanding = 2
    QueueCapacity = 2
    EventCapacity = 1
    MaxFrames = 4
    MaxEvents = 2
SPECIFICATION FairSpec
INVARIANTS
    TypeOK
    NoEventSkipped
    AnswersKept
PROPERTIES
    ServerLetsGo
CHECK_DEADLOCK FALSE
