\* The runtime removes or changes an artifact while it is copied, and puts it back.
SPECIFICATION Spec
CONSTANTS
    None = None
    Restorers = {r}
    Paths = {a, c}
    Planned = {a}
    MaxRestores = 1
    MaxWrites = 2
    Existing = TRUE
    Faults = {"write"}
INVARIANT
    RecheckedStage
SYMMETRY Interchangeable
CHECK_DEADLOCK FALSE
