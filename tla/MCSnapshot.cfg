\* Three calls of two packers and two pullers, and what may come between their steps.
SPECIFICATION Spec
CONSTANTS
    None = None
    Torn = Torn
    Empty = Empty
    Early = Early
    Late = Late
    Packers = {p1, p2}
    Pullers = {u1, u2}
    Requests <- Mixed
    Edited = {"persona", "knowledge"}
    MaxCalls = 3
    MaxEdits = 1
    MaxForeign = 1
    MaxCrashes = 1
SYMMETRY Interchangeable
INVARIANTS
    DropIsWhole
    QuietDropIsWhole
PROPERTIES
    PulledIsChecked
    ForeignFilesSurvive
    InstalledIsExact
CHECK_DEADLOCK FALSE
