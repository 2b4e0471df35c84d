CONSTANTS
    Conns = {c1, c2}
    Workers = {w1, w2}
    MaxFd = 2
    Outcomes = {"answer", "refused", "fault"}
    Endings = {"shut", "reset"}
    MaxRequests = 1
    MaxKills = 1
SPECIFICATION FairSpec
INVARIANTS OneDescriptor NoneStranded NoEdgeLost
PROPERTIES NeverCutOff RequestsRead
CHECK_DEADLOCK FALSE
