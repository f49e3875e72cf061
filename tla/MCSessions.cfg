CONSTANTS
    Users = {ann}
    MfaUsers = {ann}
    Registered = {}
    Sids = {s1, s2, s3}
    Claims = {c1}
    Links = {l1}
    Handlers = {h1, h2}
    None = None
SPECIFICATION Spec
SYMMETRY Symmetry
INVARIANTS
    OneTokenPerSignIn
    OnlyRacersSurvive
CHECK_DEADLOCK FALSE
