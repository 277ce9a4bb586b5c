SPECIFICATION LifeSpec
CONSTANTS
    p1 = p1  p2 = p2  r1 = r1  r2 = r2  w1 = w1  w2 = w2
    Workers = {w1, w2}
    Allowance <- MCAllowance
    MinutesPerMonth = 2
    JevCost = 2
    Ends = {0, 2}
    MaxMinute = 2
    MaxRows = 2
    Ids = {p1, p2}
    Repos = {r1, r2}
    Keep = Keep
    Shared = Shared
    MaxRev = 3
    MaxHeld = 1
    MaxAsked = 3
    Null = Null
SYMMETRY Symmetry
CHECK_DEADLOCK FALSE
INVARIANTS LifeConsistent CountersExact
PROPERTIES WithinAllowance ImplementsHomes
