CONSTANTS
    Nonces = {n1, n2, n3}
    Skew = 1
    Drift = 1
    Capacity = 2
    SetBacks = {2}
    MaxClock = 5
    Never = Never
SPECIFICATION AuthSpec
SYMMETRY Symmetry
INVARIANT AcceptedOncePerRun
PROPERTY ImplementsAtMostOnce
