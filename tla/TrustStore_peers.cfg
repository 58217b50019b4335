SPECIFICATION Spec
CONSTANTS
    Peers = {p1, p2}
    Attempts = {a1}
    MaxRecords = 3
    MaxGeneration = 1
    MaxCrashes = 2
    PowerLoss = TRUE
    NoOp = NoOp
    NoAttempt = NoAttempt
CHECK_DEADLOCK FALSE
SYMMETRY Symmetry
INVARIANTS
    TypeOK
    AcknowledgedSurvives
    MemoryMatchesJournal
    FailedCommitInvisible
    JournalStaysReplayable
    ForgottenAttemptNeverCommits
PROPERTIES
    ImplementsPolicy
