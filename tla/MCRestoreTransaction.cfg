\* Everything that may go wrong with two restores, at the same time or one after the other.
SPECIFICATION Spec
CONSTANTS
    None = None
    Restorers = {r, s}
    Paths = {a, b, c}
    Planned = {a, b}
    MaxRestores = 2
    MaxWrites = 2
    Existing = TRUE
    Faults = {"error", "crash", "write"}
INVARIANTS
    ContentKept
    AllOrNothing
SYMMETRY Interchangeable
CHECK_DEADLOCK FALSE
