\* A walk of one client and validations of two, over a store that others change.
SPECIFICATION FairSpec
CONSTANTS
    None = None
    Ids = {1, 2, 3}
    Walkers = {c}
    Validators = {c, d}
    Limits = {1, 2}
    Filters = {None, "materialized"}
    MaxChanges = 2
    MaxWalks = 1
INVARIANTS
    WalksShowEachOnce
PROPERTIES
    OkMeansVerified
    WalkEnds
CHECK_DEADLOCK FALSE
