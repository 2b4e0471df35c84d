CONSTANTS
    ca = ca
    w1 = w1
    w2 = w2
    c1 = c1
    c2 = c2
    c3 = c3
    c4 = c4
    c5 = c5
    a = a
    b = b
    h = h
    e = e
    k = k
    EMPTY = EMPTY
    NULL = NULL
    WILD = WILD
    CA = ca
    Workers <- MCWorkers
    Procs <- MCProcs
    Killable = {}
    Subdomains <- FairSubdomains
    Fits <- FairSubdomains
    Stored <- FairStored
    Home <- FairHome
    Conns = {c1, c2, c3, c4}
    Sub <- FairSub
    Total <- FairTotal
    MAXROUTE = 7
    MAXSUBDOMAIN = 2
    MAXCLIENTCONN = 3
    S1MaxListen = 1
    TailSlots = 1
    HEADER = 1
    MaxCursor = 4
SPECIFICATION Spec
PROPERTIES
    CallsReturn
    RoundRobin
    ImplementsRegistry
