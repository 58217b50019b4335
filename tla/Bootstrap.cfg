CONSTANTS
    Hellos = {"valid", "other version", "other identity", "oversized", "unruly"}
    MaxPings = 2
SPECIFICATION FairSpec
CHECK_DEADLOCK FALSE
INVARIANTS
    TypeOK
    AdmissionAgrees
    RejectionIsHeard
    ConformingPeersAgree
PROPERTIES
    SilentPeerIsLeft
