\* Two restores, the second of which looks between the renames of the first.
SPECIFICATION Spec
CONSTANTS
    None = None
    Restorers = {r, s}
    Paths = {a, c}
    Planned = {a}
    MaxRestores = 2
    MaxWrites = 1
    Existing = TRUE
    Faults = {}
INVARIANT
    OriginalNotLost
CHECK_DEADLOCK FALSE
SYMMETRY Interchangeable
