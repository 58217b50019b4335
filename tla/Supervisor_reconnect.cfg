CONSTANTS
    Peers = {p1}
    OutboundPreferred = {p1}
    Conns = {c1, c2}
    NoPeer = NoPeer
    NoConn = NoConn
    MaxManagedPeers = 1
    MaxSessions = 1
    MaxOutbound = 2
    MaxPending = 1
    MaxWaiters = 1
    MaxGeneration = 0
    MaxRestarts = 0
SPECIFICATION FairSpec
PROPERTIES
    LostPeerRetried
CHECK_DEADLOCK FALSE
