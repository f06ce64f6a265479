SPECIFICATION Spec
CONSTANTS
    t1 = t1
    t2 = t2
    a = a
    b = b
    x = x
    y = y
    s1 = s1
    s2 = s2
    s3 = s3
    Threads = {t1, t2}
    Words = {a, b}
    Values = {x, y}
    InitValue = x
    Segments = {s1, s2, s3}
    NULL = NULL
    MaxUpdates = 2
    MaxReads = 2
    MaxWrites = 2
INVARIANTS TypeOK ListIntact
PROPERTY KeepsPromise
SYMMETRY Symmetry
CHECK_DEADLOCK FALSE
