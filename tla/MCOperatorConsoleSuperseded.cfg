\* One tab that does not wait for every page it asks for.
SPECIFICATION Spec
CONSTANTS
    None = None
    Tabs = {t}
    Threads = {g, h}
    Surfaces = {"gui"}
    Paths = {a, b}
    MaxChanges <- NoChanges
INVARIANT
    ShownPlansAreApplied
CHECK_DEADLOCK FALSE
