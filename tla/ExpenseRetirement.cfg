SPECIFICATION FullSpec
CONSTANTS
    owner = owner  mia = mia  cookie = cookie  apikey = apikey
    free = free  max = max  p1 = p1  c1 = c1  c2 = c2  k1 = k1  k2 = k2  k3 = k3  w1 = w1  w2 = w2
    Members = {mia}
    Owner = owner
    Credentials = {apikey}
    Holder <- MemberHolder
    Allowed <- MemberAllowed
    KeyRevision <- MemberRevision
    Plans = {free, max}
    Paid = {max}
    Free = free
    Cap <- PlanCap
    Projects = {}
    Shared = Shared
    Categories = {c1}
    Inferred = Inferred
    Days = {1, 2}
    Ids = {1, 2, 3}
    Keys = {k1, k2}
    Bodies <- OneBody
    MaxRev = 2
    AdminRev = 2
    MaxPeriod = 1
    Workers = {w1, w2}
    Null = Null
SYMMETRY SlotAndKeySymmetry
CHECK_DEADLOCK FALSE
INVARIANTS AuditChain
PROPERTIES NeverGrowsPastLimit StepsAreAtomic
