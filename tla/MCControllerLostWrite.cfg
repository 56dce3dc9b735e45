SPECIFICATION Spec
CONSTANTS
    a = a
    b = b
    route = route
    service = service
    k1 = k1
    k2 = k2
    plain = plain
    moved = moved
    Keys = {k1}
    PrivateKeys = {}
    PrivateResources = {}
    Resources <- MCResources
    NoEntry = NoEntry
    NoFile = NoFile
    Controllers = {route}
    Objects = {a}
    ControllerOf <- MCControllerOf
    Specs = {"secured"}
    NoObject = NoObject
    SecretData = {d1}
    NoSecret = NoSecret
    Converts <- MCConverts
    ShouldProcess <- MCShouldProcess
    UsesSecret <- MCUsesSecret
    BuildEntries <- MCBuildEntries
    MaxChanges = 1
    MaxFaults = 0
    MaxRestarts = 0
CHECK_DEADLOCK FALSE
INVARIANTS
    QuietMeansPublished
