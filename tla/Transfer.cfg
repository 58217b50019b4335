CONSTANTS
    MaxAttempt = 9
    Original <- TwoChunks
    Contents <- Rewritten
    MaxChanges = 2
    MaxLosses = 1
SPECIFICATION FairSpec
CHECK_DEADLOCK FALSE
INVARIANTS
    TypeOK
    CompletedIsWhole
    StoreScans
    PayloadNeedsAcceptance
PROPERTIES
    ImplementsContract
    TransferSettles
