\* Two restores, the second of which takes the directory that the runtime made while
\* the first had the original away for the original.
SPECIFICATION Spec
CONSTANTS
    None = None
    Restorers = {r, s}
    Paths = {a, c}
    Planned = {a}
    MaxRestores = 2
    MaxWrites = 2
    Existing = TRUE
    Faults = {"error", "write", "start"}
INVARIANT
    ContentKept
SYMMETRY Interchangeable
CHECK_DEADLOCK FALSE
