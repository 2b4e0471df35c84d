CONSTANTS
    CMaxPoll = 2
    Pids = {1, 2, 3, 4, 5}
    Root = 1
    MaxDrops = 1
    MaxDeaths = 1
SPECIFICATION Spec
INVARIANTS
    TunnelBound
PROPERTY
    TunnelsRestored
