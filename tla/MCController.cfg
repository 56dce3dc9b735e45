SPECIFICATION FairSpec
CONSTANTS
    a = a
    b = b
    route = route
    service = service
    k1 = k1
    k2 = k2
    plain = plain
    moved = moved
    Keys = {k1, k2}
    PrivateKeys = {}
    PrivateResources = {}
    Resources <- MCResources
    NoEntry = NoEntry
    NoFile = NoFile
    Controllers = {route}
    Objects = {a}
    ControllerOf <- MCControllerOf
    Specs = {"secured", moved, "off", "empty"}
    NoObject = NoObject
    SecretData = {d1}
    NoSecret = NoSecret
    Converts <- MCConverts
    ShouldProcess <- MCShouldProcess
    UsesSecret <- MCUsesSecret
    BuildEntries <- MCBuildEntries
    MaxChanges = 2
    MaxFaults = 1
    MaxRestarts = 1
CHECK_DEADLOCK FALSE
INVARIANTS
    TypeOK
    CaughtUp
    QuietMeansExact
PROPERTIES
    MemoryConverges
