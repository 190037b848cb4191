\* Two requests race over two receipt codes for one directive.
SPECIFICATION Spec
CONSTANTS
    operator = operator
    operatorToo = operatorToo
    reviewer = reviewer
    r1 = r1
    r2 = r2
    g1 = g1
    g2 = g2
    d1 = d1
    d2 = d2
    c1 = c1
    c2 = c2
    Gates = {g1}
    Directives = {d1}
    Confirmations = {c1, c2}
    Users = {operator, operatorToo, reviewer}
    RoleOf <- MCRoleOf
    Fold <- MCFold
    Requests = {r1, r2}
    None = None
    Endpoints <- ReceiptRoutes
    Lead = 0
    MaxVersion = 2
SYMMETRY Symmetry
INVARIANTS
    TwoPersonRule
    OutcomeAgreement
PROPERTIES
    SettleTogether
CHECK_DEADLOCK FALSE
