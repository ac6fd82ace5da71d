\* Every call of every tool, with every class of arguments.
SPECIFICATION BoundarySpec
CONSTANT
    CallerNames = {"secret", "token"}
INVARIANTS
    PathsArePublic
PROPERTY
    SuggestionsWork
CHECK_DEADLOCK FALSE
