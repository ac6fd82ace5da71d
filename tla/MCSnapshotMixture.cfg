\* Two archives with different parts; an install that succeeds is to validate.
SPECIFICATION Spec
CONSTANTS
    None = None
    Torn = Torn
    Empty = Empty
    Early = Early
    Late = Late
    Packers = {p1}
    Pullers = {u1, u2}
    Requests <- WithAndWithoutMemory
    Edited = {"persona", "knowledge"}
    MaxCalls = 4
    MaxEdits = 0
    MaxForeign = 0
    MaxCrashes = 0
SYMMETRY Interchangeable
PROPERTY
    InstalledValidates
CHECK_DEADLOCK FALSE
