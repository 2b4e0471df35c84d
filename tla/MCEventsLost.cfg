CONSTANTS
    Conns = {c1, c2}
    Workers = {w1, w2}
    MaxFd = 2
    Outcomes = {"answer", "refused"}
    Endings = {"shut"}
    MaxRequests = 1
    MaxKills = 0
SPECIFICATION Spec
INVARIANTS EdgeOnItsWay
CHECK_DEADLOCK FALSE
