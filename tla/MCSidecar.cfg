SPECIFICATION SidecarSpec
CONSTANTS
    a = a
    p = p
    route = route
    k1 = k1
    Keys = {k1}
    PrivateKeys = {}
    PrivateResources = {}
    Resources <- MCResources
    NoEntry = NoEntry
    NoFile = NoFile
    Controllers = {route}
    Objects = {a}
    ControllerOf <- MCControllerOf
    Specs = {"secured"}
    NoObject = NoObject
    SecretData = {}
    NoSecret = NoSecret
    Converts <- Always
    ShouldProcess <- Always2
    UsesSecret <- Secured2
    BuildEntries <- MCBuildEntries
    PublicCRs = {p}
    PrivateCRs = {}
    KeyOf <- MCKeyOf
    CRSpecs = {"plain"}
    Valid <- Always
    CRUsesSecret <- Secured
    buildResource <- MCbuildResource
    SecretsWatchable = TRUE
    MaxChanges = 2
    MaxFaults = 0
    MaxRestarts = 1
CHECK_DEADLOCK FALSE
INVARIANTS
    NoOrphansAnywhere
    OnlyStraddlingIsLost
PROPERTIES
    PublishedConverges
    ShutdownCompletes
