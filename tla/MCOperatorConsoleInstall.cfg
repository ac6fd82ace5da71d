\* An archive is checked and another one typed in.
SPECIFICATION Spec
CONSTANTS
    None = None
    Tabs = {}
    Threads = {}
    Surfaces = {"tui"}
    Paths = {a, b}
    MaxChanges <- NoChanges
INVARIANT
    InstallsWhatWasChecked
CHECK_DEADLOCK FALSE
