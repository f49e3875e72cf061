CONSTANTS
    Sockets = {s1, s2}
    Tickets = {t1}
    IdleTimeout = 0
    MaxLifetime = 1
    None = None
SPECIFICATION Spec
INVARIANTS
    PtyHadGrant
    RedeemedOnceUnlessCrossed
PROPERTY PtyEnds
