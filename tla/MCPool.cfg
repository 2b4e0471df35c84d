CONSTANTS
    SMaxPoll = 2
    Pids = {1, 2, 3}
    MaxDeaths = 2
    MaxStarts = 1
    MaxForeign = 1
SPECIFICATION Spec
INVARIANTS
    PoolBound
    ClearReachesRecorded
PROPERTIES
    PoolRefills
CHECK_DEADLOCK FALSE
