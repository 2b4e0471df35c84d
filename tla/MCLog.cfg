CONSTANTS
    Writers = {p1, p2}
    Inodes = {i1, i2, i3}
    MaxDays = 1
    MaxMoves = 1
SPECIFICATION FairLogSpec
INVARIANTS OnTodaysFile
PROPERTIES AllSettle
CHECK_DEADLOCK FALSE
