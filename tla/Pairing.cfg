CONSTANTS
    MaxAttempts = 2
    MaxGeneration = 1
SPECIFICATION FairSpec
INVARIANTS
    TypeOK
    TrustNeedsBothDecisions
    CompletionIsMutual
    RevealsAreCommitted
    ScriptsAgree
PROPERTIES
    AttemptSettles
