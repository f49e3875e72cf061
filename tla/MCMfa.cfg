CONSTANTS
    Secrets = {k1, k2}
    Codes = {c1, c2}
    Handlers = {h1, h2}
    WINDOW = 1
    MaxStep = 1
    None = None
SPECIFICATION Spec
SYMMETRY Symmetry
INVARIANTS
    AcceptedOnceUnlessCrossed
    OneBatchUnlessCrossed
    ProvedUnlessCrossed
PROPERTY OnUntilDisabled
CHECK_DEADLOCK FALSE
