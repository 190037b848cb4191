\* Transactions of every kind contend for a receipt, a directive and a gate.
SPECIFICATION Spec
CONSTANTS
    Confirmations = {c1}
    Directives = {d1}
    Gates = {g1}
    Txns = {t1, t2}
    MaxVersion = 1
INVARIANTS
    TypeOK
    NoCircularWait
PROPERTIES
    EveryTransactionEnds
    ActsAtomically
CHECK_DEADLOCK FALSE
