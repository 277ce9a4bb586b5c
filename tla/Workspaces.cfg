SPECIFICATION Spec
CONSTANTS
    Owner = owner
    People = {ann, bob}
    Invites = {i1, i2}
    Roles = {"admin", "editor"}
    MaxMembers = 1
    MaxInvites = 1
    MaxRequests = 2
    Workers = {w1, w2}
    InvitationAge = 0
    MaxClock = 1
    MaxRev = 2
    MaxElsewhere = 1
    Null = Null
SYMMETRY Symmetry
CONSTRAINT Bound
CHECK_DEADLOCK FALSE
INVARIANTS Consistent
PROPERTIES ImplementsAtomicGovernance
