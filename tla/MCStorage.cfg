CONSTANTS
    Requests = {r1, r2}
    Paths = {p1, p2}
    QuotaRows <- MCQuotaRows
    BucketLimit = 2
    MaxFile = 2
    Points = 1
    MaxBuckets = 2
    None = None
SYMMETRY Symmetric
CONSTRAINT OnePart
SPECIFICATION Spec
INVARIANTS
    RowsMatchFiles
    CacheFreshUnlessRaced
    FigureCoversUnlessPartial
CHECK_DEADLOCK FALSE
