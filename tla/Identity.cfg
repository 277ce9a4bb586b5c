SPECIFICATION Spec
CONSTANTS
    Githubs = {1}
    Emails = {1}
    SendInterval = 1
    CodeAge = 2
    MaxAttempts = 1
    MaxRequests = 3
    MaxClock = 2
    MaxWrites = 1
CHECK_DEADLOCK FALSE
INVARIANTS Consistent GrantStillWorks SentAndUsedOnce
PROPERTIES NothingLost RevokedStaysOut ImplementsRegistry
