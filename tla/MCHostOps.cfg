CONSTANTS
    Requests = {r1, r2}
    Ops <- MCOps
    Names = {n1, n2, n3}
    Unset = Unset
    None = None
SYMMETRY Symmetric
CONSTRAINT OnePart
SPECIFICATION Spec
INVARIANTS
    FirewallAsIntended
    GoodArchiveKept
    OneLayerRuns
    SucceededIsTrue
    CompletedStepWasReady
CHECK_DEADLOCK FALSE
