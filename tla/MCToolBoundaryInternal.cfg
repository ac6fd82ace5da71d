SPECIFICATION BoundarySpec
CONSTANT
    CallerNames = {"secret"}
INVARIANT
    InternalMeansServer
CHECK_DEADLOCK FALSE
