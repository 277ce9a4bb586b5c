SPECIFICATION Spec
CONSTANTS
    ana = ana  bob = bob  p1 = p1  c1 = c1  w1 = w1  w2 = w2
    Workers = {w1, w2}
    Ticker = Ticker
    Rules = {1, 2}
    Grants = {ana}
    Projects = {}
    Shared = Shared
    Categories = {c1}
    Drafts <- OneDraft
    Horizon = 4
    MaxRules = 1
    MaxTickRules = 1
    MaxTickOccurrences = 2
    MaxPerRule = 2
    MaxPending = 1
    MaxDay = 3
    MaxRev = 2
    GrantRev = 2
    ProjectRev = 2
    Null = Null
CHECK_DEADLOCK FALSE
INVARIANTS RuleLimit
