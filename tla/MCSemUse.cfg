CONSTANTS
    Procs = {p1, p2, p3}
    MaxResets = 2
SPECIFICATION Spec
INVARIANTS
    ExclusiveUntilReset
    PermitsBounded
PROPERTY
    WaitEnds
