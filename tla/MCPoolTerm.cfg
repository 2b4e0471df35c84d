CONSTANTS
    SMaxPoll = 2
    Pids = {1, 2, 3}
    MaxDeaths = 0
    MaxStarts = 0
    MaxForeign = 0
SPECIFICATION Spec
PROPERTY
    TermEmptiesPool
CHECK_DEADLOCK FALSE
