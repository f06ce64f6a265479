CONSTANTS
    t1 = t1
    t2 = t2
    t3 = t3
    a = a
    b = b
    x = x
    y = y
    Threads = {t1, t2, t3}
    Readers = {t1}
    Writers = {t2, t3}
    Words = {a, b}
    Values = {x, y}
    InitValue = x
    Nil = Nil
    RO_RETRIES = 2
    MaxClock = 2
    MaxReads = 1
    MaxUpdateReads = 1
    MaxWrites = 1
    MaxCalls = 2
    MaxHistory = 1
SPECIFICATION Spec
SYMMETRY Symmetry
PROPERTY KeepsPromise
