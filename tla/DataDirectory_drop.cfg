CONSTANTS
    Daemons = {d1, d2}
    Keys = {k1, k2}
    None = None
    MaxCrashes = 0
    MaxPowerLosses = 0
SPECIFICATION Spec
INVARIANT ReadyDaemonIsDiscoverable
