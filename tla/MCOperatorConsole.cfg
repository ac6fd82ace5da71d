\* The TUI, or commands, or two tabs of one browser with two requests in flight.
SPECIFICATION Spec
CONSTANTS
    None = None
    Tabs = {t, u}
    Threads = {g, h}
    Surfaces = {"tui", "gui", "cli"}
    Paths = {a, b}
    MaxChanges <- FewChanges
SYMMETRY Symmetry
INVARIANTS
    ConfirmsWhatItShows
CHECK_DEADLOCK FALSE
