SPECIFICATION Spec
CONSTANTS
    ana = ana  bob = bob  p1 = p1  c1 = c1  w1 = w1  w2 = w2
    Workers = {w1, w2}
    Ticker = Ticker
    Rules = {1}
    Grants = {ana}
    Projects = {p1}
    Shared = Shared
    Categories = {c1}
    Drafts <- ProjectDrafts
    Horizon = 4
    MaxRules = 1
    MaxTickRules = 1
    MaxTickOccurrences = 2
    MaxPerRule = 2
    MaxPending = 1
    MaxDay = 4
    MaxRev = 2
    GrantRev = 2
    ProjectRev = 2
    Null = Null
SYMMETRY SlotSymmetry
CONSTRAINT OneChange
CHECK_DEADLOCK FALSE
INVARIANTS Consistent
PROPERTIES NothingSkipped CancelIsFinal RetainedUntilPosted
