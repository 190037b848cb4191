\* Two requests of any kind over one chain of four rows and two facilities,
\* from clients that send the version of the row their request meets.
SPECIFICATION Spec
CONSTANTS
    Reservoirs = {v1}
    Gates = {g1}
    Directives = {d1}
    Receipts = {c1}
    Facilities = {f1, f2}
    Requests = {r1, r2}
    None = None
    Lead = 0
    MaxVersion = 2
SYMMETRY Symmetry
INVARIANTS
    TypeOK
    AuthorityHeldIt
    ReceiptKeepsFacility
    
PROPERTIES
    DeletedForGood
CHECK_DEADLOCK FALSE
