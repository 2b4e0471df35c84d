CONSTANTS
    t1 = t1
    t2 = t2
    t3 = t3
    n1 = n1
    NoConn = NoConn
    Tunnels <- MCTunnels
    Strangers = {n1}
    SubDomain <- MCSubDomain
    CMaxPoll <- MCCMaxPoll
    Says <- MCSays
    Chars = {"x", "y", "d", ".", "-", "1", "2", "Referer", "//", "eol"}
    Value <- MCValue
    Domain = {".", "d"}
    Requests <- MCRequests
    MAXSUBDOMAIN = 2
    S1MaxListen = 1
    MaxSlots = 1
    MaxCursor = 2
    MaxWipes = 1
SPECIFICATION Spec
INVARIANTS NoneOverlooked TurnInRange DealsLive
CHECK_DEADLOCK FALSE
PROPERTIES CrashesHalfway CAComesBack
