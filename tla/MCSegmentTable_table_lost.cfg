CONSTANTS
    t1 = t1
    t2 = t2
    t3 = t3
    Threads = {t1, t2}
    Nobody = Nobody
    InitialSegments = 2
    IndexRange = 16
    MaxAllocations = 3
SPECIFICATION Spec
SYMMETRY Symmetry
INVARIANT AllocationThreadSafe
