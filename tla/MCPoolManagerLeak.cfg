CONSTANTS
    Projects = {p1, p2}
    Requests = {r1, r2}
    PoolIds = {h1, h2, h3}
    QuotaLimits = {0}
    PROJECT_BUDGET = 10
    MIN_PER_PROJECT = 2
    MAX_PER_PROJECT = 8
    AggressiveIdle = 0
    IdleWindow = 1
    None = None
SPECIFICATION Spec
INVARIANT OpenPoolsWithinBudget
