SPECIFICATION Spec
CONSTANTS
    a = a
    b = b
    p = p
    k1 = k1
    k2 = k2
    q1 = q1
    Keys = {k1}
    PrivateKeys = {}
    Resources <- MCResources
    PrivateResources <- MCPrivateResources
    NoEntry = NoEntry
    NoFile = NoFile
    PublicCRs = {a, b}
    PrivateCRs = {}
    KeyOf <- SharedName
    Specs = {"plain"}
    NoObject = NoObject
    SecretData = {}
    NoSecret = NoSecret
    Valid <- MCValid
    UsesSecret <- MCUsesSecret
    buildResource <- MCbuildResource
    SecretsWatchable = TRUE
    MaxChanges = 1
    MaxFaults = 0
    MaxRestarts = 0
CHECK_DEADLOCK FALSE
INVARIANTS
    ExistingCRsArePublished
