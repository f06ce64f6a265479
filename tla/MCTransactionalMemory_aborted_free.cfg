CONSTANTS
    t1 = t1
    t2 = t2
    t3 = t3
    Threads = {t1, t2}
    Nobody = Nobody
    CLEANING_PERIOD = 1
    MAX_SEGMENTS = 2
SPECIFICATION Spec
SYMMETRY Symmetry
INVARIANT LinkedSegmentsLive
CHECK_DEADLOCK FALSE
