\* Two tabs, one request after the other.
SPECIFICATION Spec
CONSTANTS
    None = None
    Tabs = {t, u}
    Threads = {h}
    Surfaces = {"gui"}
    Paths = {a, b}
    MaxChanges <- NoChanges
INVARIANT
    ShownPlansAreApplied
CHECK_DEADLOCK FALSE
