CONSTANTS
    Names = {"a", "b"}
    MacName = "mac"
    NULL = NULL
    MaxFaults = 3
    MaxRetries = 3
    EventQueue = 2
SPECIFICATION SetupSpec
INVARIANTS SetupTypeOK DevNameKnown CopiesDifferOnlyAfterError
PROPERTIES ImplementsStore WorkingCredentialsStay BadCredentialsDropped ComesUp
