\* Two handlers on two instances, three requests and two other events.
SPECIFICATION Spec
CONSTANTS
    Requests = {r1, r2}
    Instances = {s1, s2}
    Users = {u1}
    None = None
    RequestLimit = 1
    CleanupAt = 1
    MaxReceived = 3
    MaxFaults = 2
SYMMETRY Symmetry
INVARIANTS
    TypeOK
    RateBound
    OnlyEntitledAct
    StatusTellsTruth
    SummaryAddsUp
CHECK_DEADLOCK FALSE
