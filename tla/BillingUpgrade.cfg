SPECIFICATION Spec
CONSTANTS
    Handlers = {h1}
    Subscriptions = {s1}
    Requests = {r1}
    Outcomes = {"active", "past_due"}
    Marks = {TRUE}
    MaxEvents = 4
    MaxParked = 1
    MaxAsks = 2
    MaxCrashes = 0
    MaxTrouble = 2
    Null = Null
PROPERTY UpgradedOnce
CHECK_DEADLOCK FALSE
