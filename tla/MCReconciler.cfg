SPECIFICATION FairSpec
CONSTANTS
    a = a
    b = b
    p = p
    k1 = k1
    k2 = k2
    q1 = q1
    Keys = {k1}
    PrivateKeys = {q1}
    Resources <- MCResources
    PrivateResources <- MCPrivateResources
    NoEntry = NoEntry
    NoFile = NoFile
    PublicCRs = {a}
    PrivateCRs = {p}
    KeyOf <- UniqueNames
    Specs = {"secured", "invalid"}
    NoObject = NoObject
    SecretData = {d1}
    NoSecret = NoSecret
    Valid <- MCValid
    UsesSecret <- MCUsesSecret
    buildResource <- MCbuildResource
    SecretsWatchable = TRUE
    MaxChanges = 2
    MaxFaults = 1
    MaxRestarts = 1
CHECK_DEADLOCK FALSE
INVARIANTS
    TypeOK
    EachCRHasItsEntry
    EntriesArePublished
PROPERTIES
    EntriesConverge
