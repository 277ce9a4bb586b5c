SPECIFICATION FairSpec
CONSTANTS
    Versions = {6, 11}
    ReadCeiling = 2
    Bound = 1
    MaxCalls = 2
    MaxRequests = 3
    MaxRows = 1
    MaxCrashes = 1
    None = None
CHECK_DEADLOCK FALSE
INVARIANTS JournalIsTrue
PROPERTIES NothingAfterUnknown ImplementsReservedUse LockIsReleased
