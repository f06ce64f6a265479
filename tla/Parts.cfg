CONSTANTS
    Nobody = Nobody
    c1 = c1
    c2 = c2
    THREADS = 3
    RUNS = 3
    n_attempts = 1
    BUFFER_SIZE = 2
    MaxSpurious = 2
    Quarter = 4
    MaxVersion = 3
    Callers = {c1, c2}
    InitialSegments = 2
    IndexRange = 16
    MaxAllocations = 3
    MaxOperations = 3
    LIBRARIES = 2
SPECIFICATION FairSpec
INVARIANTS TypeOK MutualExclusion NoLostUpdate LooksCorrect RaceFree EndedOnce NotificationNotLost LibraryStaysLoaded TableHoldsSegment IndexingSafe CapacityMatches
PROPERTIES ImplementsAtomicLock ImplementsQueue ProgramsEnd
CHECK_DEADLOCK FALSE
