SPECIFICATION Spec
CONSTANTS
    a = a
    b = b
    route = route
    service = service
    k1 = k1
    k2 = k2
    plain = plain
    moved = moved
    Keys = {k1, k2}
    PrivateKeys = {}
    PrivateResources = {}
    Resources <- MCResources
    NoEntry = NoEntry
    NoFile = NoFile
    Controllers = {route, service}
    Objects = {a, b}
    ControllerOf <- MCControllerOf
    Specs = {plain, moved, "broken"}
    NoObject = NoObject
    SecretData = {}
    NoSecret = NoSecret
    Converts <- MCConverts
    ShouldProcess <- MCShouldProcess
    UsesSecret <- MCUsesSecret
    BuildEntries <- MCBuildEntries
    MaxChanges = 2
    MaxFaults = 1
    MaxRestarts = 0
CHECK_DEADLOCK FALSE
INVARIANTS
    CaughtUp
    NoOrphans
    OnlyStraddlingIsLost
SYMMETRY Mirror
