CONSTANTS
    Peers = {p1}
    OutboundPreferred = {p1}
    Conns = {c1,c2,c3}
    NoPeer = NoPeer
    NoConn = NoConn
    MaxManagedPeers = 1
    MaxSessions = 1
    MaxOutbound = 1
    MaxPending = 1
    MaxWaiters = 1
    MaxGeneration = 1
    MaxRestarts = 0
SPECIFICATION Spec
SYMMETRY Symmetry
INVARIANTS
    RegistriesAuthorized
    InvalidatedPeerIsQuiet
    SuspendedStaysQuiet
    CanonicalSession
    BoundsHold
PROPERTIES
    HealthySessionKept
CHECK_DEADLOCK FALSE
