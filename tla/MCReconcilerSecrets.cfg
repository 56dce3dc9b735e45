SPECIFICATION FairSpec
CONSTANTS
    a = a
    b = b
    p = p
    k1 = k1
    k2 = k2
    q1 = q1
    Keys = {k1, k2}
    PrivateKeys = {}
    Resources <- MCResources
    PrivateResources <- MCPrivateResources
    NoEntry = NoEntry
    NoFile = NoFile
    PublicCRs = {a, b}
    PrivateCRs = {}
    KeyOf <- UniqueNames
    Specs = {"secured", "plain"}
    NoObject = NoObject
    SecretData = {d1}
    NoSecret = NoSecret
    Valid <- MCValid
    UsesSecret <- MCUsesSecret
    buildResource <- MCbuildResource
    SecretsWatchable = FALSE
    MaxChanges = 0
    MaxFaults = 0
    MaxRestarts = 0
CHECK_DEADLOCK FALSE
PROPERTIES
    SecretsBlockNoOthers
