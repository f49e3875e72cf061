CONSTANTS
    p1 = p1
    Projects = {p1}
    Served = p1
    Requests = {r1, r2, r3}
    Operators = {u1, u2, u3}
    None = None
    Reqs = {q1, q2, q3}
    Conns = {k1, k2}
    MaxTables = 1
    Nobody = Nobody
SYMMETRY Symmetric
CONSTRAINT OnePart
SPECIFICATION DataSpec
INVARIANTS
    ActiveIsWhole
    DeletedLeavesNothing
    OperatorRemains
    ConnectionsComeBack
    ClaimsAreTheCallers
    AllOrNothing
    TablesWithinQuota
CHECK_DEADLOCK FALSE
