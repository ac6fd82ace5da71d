\* No directory at first; the runtime comes up meanwhile.
SPECIFICATION Spec
CONSTANTS
    None = None
    Restorers = {r}
    Paths = {a, b, c}
    Planned = {a, b}
    MaxRestores = 2
    MaxWrites = 1
    Existing = FALSE
    Faults = {"start"}
PROPERTY
    RuntimeNotRemoved
CHECK_DEADLOCK FALSE
SYMMETRY Interchangeable
