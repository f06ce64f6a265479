CONSTANTS
    t1 = t1
    t2 = t2
    t3 = t3
    a = a
    b = b
    x = x
    y = y
    Threads = {t1, t2}
    Readers = {t1}
    Writers = {t1, t2}
    Words = {a, b}
    Values = {x}
    InitValue = x
    Nil = Nil
    RO_RETRIES = 2
    MaxClock = 2
    MaxReads = 2
    MaxUpdateReads = 1
    MaxWrites = 2
    MaxCalls = 2
    MaxHistory = 0
SPECIFICATION FairSpec
INVARIANT LockOwnership
PROPERTIES CallsReturn LocksReleased
