SPECIFICATION Spec
CONSTANTS
    Inputs <- MCInputs
    CIDRs = {"10.0.0.0/16"}
    SiteID = "site"
    NoEntry = NoEntry
    NoSecret = NoSecret
    NoConfig = NoConfig
    NoAuth = NoAuth
    Absent = Absent
    Malformed = Malformed
    NotANumber = NotANumber
    Minus = Minus
    Letter = Letter
CHECK_DEADLOCK FALSE
INVARIANTS
    OnlyWellFormedIsPublished
    CredentialsAreKept
    BothPathsAgree
