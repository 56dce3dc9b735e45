SPECIFICATION Spec
CONSTANTS
    Inputs <- MCInputs
    NoSecret = NoSecret
    NoConfig = NoConfig
    NoAuth = NoAuth
    Absent = Absent
    Malformed = Malformed
    NotANumber = NotANumber
    Minus = Minus
    Letter = Letter
CHECK_DEADLOCK FALSE
INVARIANTS
    LiveOnlyThroughTheGateway
    EveryHostHasItsEntry
    DenialsSurvive
    UnusableIsAbsent
    SSOOnlyPerResource
    FlagsWin
