SPECIFICATION FairSpec
CONSTANTS
    Keys = {k1}
    PrivateKeys = {p1}
    Resources = {r1, r2}
    PrivateResources = {q1}
    NoEntry = NoEntry
    NoFile = NoFile
    Callers = {c1, c2}
    Free = Free
    Torn = Torn
    Never = Never
    Threshold = 1
INVARIANTS
    TypeOK
    ReadyMeansPublished
PROPERTIES
    OutputIsSnapshot
    ImplementsStateStore
    LockIsReleased
    IdleTurnsUnready
