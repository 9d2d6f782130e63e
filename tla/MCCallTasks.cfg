SPECIFICATION Spec
CHECK_DEADLOCK FALSE
CONSTANTS
    t1 = t1
    t2 = t2
    d1 = d1
    d2 = d2
    Joined <- MCJoined
    Assignments <- MCAssignments
    Endpoints <- MCEndpoints
    Headers <- MCHeaders
    MaxOps = 2
    Times = {1, 3}
    AcceptedAt = 2
    None = None
    Either = Either
    MaxInputs = 3
    MaxReports = 1
INVARIANTS
    WithdrawnIsNotUsed
    EventCoversStatus
    ShownIsLastDialled
PROPERTIES
    ShownNeverGoesBack
    DialEnds
