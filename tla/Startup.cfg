\* Two instances start on a new database, with three faults anywhere.
SPECIFICATION Spec
CONSTANTS
    Instances = {i1, i2}
    Environments <- MCEnvironments
    MaxAttempts = 2
    MaxFaults = 3
INVARIANTS
    TypeOK
    AccountsOfOneStart
    SeededEvidence
PROPERTIES
    EventuallyServes
CHECK_DEADLOCK FALSE
