\* A command with --yes.
SPECIFICATION Spec
CONSTANTS
    None = None
    Tabs = {}
    Threads = {}
    Surfaces = {"cli"}
    Paths = {a, b}
    MaxChanges <- NoChanges
INVARIANT
    AppliedPlansWereDisplayed
CHECK_DEADLOCK FALSE
