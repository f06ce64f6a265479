CONSTANTS
    t1 = t1
    t2 = t2
    t3 = t3
    a = a
    b = b
    x = x
    y = y
    Threads = {t1, t2}
    Readers = {t1}
    Writers = {t2}
    Words = {a, b}
    Values = {x, y}
    InitValue = x
    Nil = Nil
    RO_RETRIES = 2
    MaxClock = 2
    MaxReads = 2
    MaxUpdateReads = 2
    MaxWrites = 1
    MaxCalls = 3
    MaxHistory = 1
SPECIFICATION Spec
SYMMETRY Symmetry
INVARIANT ReadOnlySnapshot
