SPECIFICATION NoticeFairSpec
CONSTANTS
    ana = ana  p1 = p1  c1 = c1  w1 = w1
    Workers = {w1}
    Ticker = Ticker
    Rules = {1, 2}
    Grants = {ana}
    Projects = {p1}
    Shared = Shared
    Categories = {c1}
    Drafts <- ProjectDrafts
    Horizon = 4
    MaxRules = 2
    MaxTickRules = 1
    MaxTickOccurrences = 2
    MaxPerRule = 2
    MaxPending = 1
    MaxDay = 2
    MaxRev = 1
    GrantRev = 2
    ProjectRev = 1
    MaxNotifications = 2
    Foreign <- ForeignRows
    Schedules <- Plans
    Window <- Dates
    Zones <- Clocks
    Midnights <- Hours
    Accounts <- AccountRecords
    Instants <- HalfDays
    None = None
    Null = Null
CHECK_DEADLOCK FALSE
INVARIANTS DatesNeverDrift
PROPERTIES DueIsHandled ChargedWithConsent NoticesReach
