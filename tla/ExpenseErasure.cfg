SPECIFICATION Spec
CONSTANTS
    owner = owner  mia = mia  cookie = cookie  apikey = apikey
    free = free  max = max  p1 = p1  c1 = c1  c2 = c2  k1 = k1  k2 = k2  k3 = k3  w1 = w1  w2 = w2
    Members = {}
    Owner = owner
    Credentials = {cookie, apikey}
    Holder <- KeyedHolder
    Allowed <- KeyedAllowed
    KeyRevision <- KeyedRevision
    Plans = {max}
    Paid = {max}
    Free = max
    Cap <- PlanCap
    Projects = {p1}
    Shared = Shared
    Categories = {c1}
    Inferred = Inferred
    Days = {1, 2}
    Ids = {1, 2}
    Keys = {k1}
    Bodies <- ProjectBodies
    MaxRev = 2
    AdminRev = 2
    MaxPeriod = 1
    Workers = {w1, w2}
    Null = Null
SYMMETRY SlotSymmetry
CHECK_DEADLOCK FALSE
INVARIANTS NoDoubleCharge ErasureComplete SnapshotsCoherent
PROPERTIES ImplementsAtomicLedger
