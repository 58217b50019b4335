SPECIFICATION Spec
CONSTANTS
    Peers = {p1}
    Attempts = {a1}
    MaxRecords = 4
    MaxGeneration = 2
    MaxCrashes = 2
    PowerLoss = TRUE
    NoOp = NoOp
    NoAttempt = NoAttempt
CHECK_DEADLOCK FALSE
PROPERTY RevocationIsSticky
