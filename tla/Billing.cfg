SPECIFICATION Spec
CONSTANTS
    Handlers = {h1, h2}
    Subscriptions = {s1, s2}
    Requests = {r1}
    Outcomes = {"past_due"}
    Marks = {FALSE}
    MaxEvents = 2
    MaxParked = 1
    MaxAsks = 2
    MaxCrashes = 1
    MaxTrouble = 2
    Null = Null
CHECK_DEADLOCK FALSE
INVARIANTS Consistent CleanProjection
PROPERTIES ClaimKept EventuallySettled
