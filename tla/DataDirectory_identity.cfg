CONSTANTS
    Daemons = {d1, d2}
    Keys = {k1, k2}
    None = None
    MaxCrashes = 2
    MaxPowerLosses = 1
SPECIFICATION Spec
INVARIANTS
    TypeOK
    IdentityIsForever
    CrashNeverOrphansJournal
