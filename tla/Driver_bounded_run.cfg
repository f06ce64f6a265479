CONSTANT LIBRARIES = 2
SPECIFICATION DriverFairSpec
PROPERTY BoundedRunEnds
CHECK_DEADLOCK FALSE
