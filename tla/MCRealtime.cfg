CONSTANTS
    s1 = s1
    s2 = s2
    s3 = s3
    c1 = c1
    c2 = c2
    k1 = k1
    Sockets = {s1, s2, s3}
    Claims = {c1, c2}
    Service = Service
    ClaimsOf <- MCClaimsOf
    Keys = {k1}
    KeyOf <- MCKeyOf
    Clients = {l1, l2}
    Tasks = {t1, t2}
    MaxVersion = 2
    Absent = Absent
CONSTRAINT OnePart
SYMMETRY Symmetric
SPECIFICATION FeedSpec
INVARIANTS
    OncePerChange
    ToldWhatHeMaySee
    ListenerFollowsSubscribers
CHECK_DEADLOCK FALSE
