SPECIFICATION BoundarySpec
CONSTANT
    CallerNames = {"secret"}
INVARIANT
    MalformedIsEnveloped
CHECK_DEADLOCK FALSE
