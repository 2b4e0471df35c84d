CONSTANTS
    ca = ca
    w1 = w1
    w2 = w2
    c1 = c1
    c2 = c2
    c3 = c3
    c4 = c4
    c5 = c5
    a = a
    b = b
    h = h
    e = e
    k = k
    EMPTY = EMPTY
    NULL = NULL
    WILD = WILD
    CA = ca
    Workers = {w1}
    Procs = {ca, w1}
    Killable = {ca, w1}
    Subdomains <- LongSubdomains
    Fits <- LongFits
    Stored <- LongStored
    Home <- LongHome
    Conns = {c1, c2, c3, c4, c5}
    Sub <- LongSub
    Total <- LongTotal
    MAXROUTE = 7
    MAXSUBDOMAIN = 3
    MAXCLIENTCONN = 2
    S1MaxListen = 1
    TailSlots = 1
    HEADER = 1
    MaxCursor = 4
SPECIFICATION Spec
INVARIANTS
    TypeOK
    MutualExclusion
    RoutedToOwner
    RegisteredOnce
    CursorInRange
    ProbeRegions
