SPECIFICATION MCSpec
CONSTANTS
    Workers = {w1, w2}
    Reviewer = w2
    Allowance <- MCAllowance
    MinutesPerMonth = 1
    JevCost = 2
    Ends = {0, 2}
    MaxMinute = 1
    MaxRows = 1
    Null = Null
    Host = host
    Guest = mia
    Tokens = {t1}
    Wishes <- MCWishes
    Covers <- MCCovers
    GuestRoles = {"viewer", "editor"}
    MaxId = 3
    MaxEvent = 4
    PageSize = 1
    Window = 1
    Life = 1
    MaxHour = 1
    MaxEdits = 1
    MaxChanges = 1
    MaxAsked = 1
    None = None
    Sources = {net}
    Addresses = {ann, bob}
    Limit <- MCLimit
    Minute = 2
    Hour = 4
    RateRows = 4
    MailRows = 6
    Sweep = 1
    MaxTick = 5
    MaxCalls = 4
    CatIds = {c1, c2}
    Names = {food, rent}
    Editors = {e1, e2}
    Untitled = Untitled
    MaxCatRev = 3
    MaxCatAsked = 5
CONSTRAINT OneEvent
CHECK_DEADLOCK FALSE
INVARIANTS WalksComplete
PROPERTIES ReviewsHold ServedWithAuthority RatesHold CategoriesHold
