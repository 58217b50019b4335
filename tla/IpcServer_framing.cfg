CONSTANTS
    Ids = {i1, i2}
    MaxOutstanding = 2
    QueueCapacity = 2
    EventCapacity = 1
    MaxFrames = 4
    MaxEvents = 2
SPECIFICATION Spec
INVARIANTS
    FramesReadWhole
CHECK_DEADLOCK FALSE
