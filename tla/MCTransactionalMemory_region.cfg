CONSTANTS
    t1 = t1
    t2 = t2
    t3 = t3
    Threads = {t1, t2, t3}
    Nobody = Nobody
    CLEANING_PERIOD = 2
    MAX_SEGMENTS = 3
SPECIFICATION FairSpec
INVARIANTS TypeOK GracePeriod NothingFreedTwice SweepComplete
PROPERTY SweepComes
CHECK_DEADLOCK FALSE
