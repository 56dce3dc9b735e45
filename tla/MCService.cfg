SPECIFICATION Spec
CONSTANTS
    Services <- MCServices
    Inputs <- MCInputs
    NoSecret = NoSecret
    NoConfig = NoConfig
    NoAuth = NoAuth
    Absent = Absent
    Minus = Minus
    NotANumber = NotANumber
    Malformed = Malformed
    NoPort = NoPort
CHECK_DEADLOCK FALSE
INVARIANTS
    EveryPortHasItsEntry
    ExposesOnlyWhatIsAsked
    KeysCollideOnlyAtTheDash
    ServedLikeARoute
