\* One packer, who publishes twice.
SPECIFICATION Spec
CONSTANTS
    None = None
    Torn = Torn
    Empty = Empty
    Early = Early
    Late = Late
    Packers = {p1}
    Pullers = {}
    Requests <- PublishSpecialist
    Edited = {"persona", "knowledge"}
    MaxCalls = 2
    MaxEdits = 1
    MaxForeign = 0
    MaxCrashes = 0
PROPERTY
    GoodDropStays
CHECK_DEADLOCK FALSE
