\* Two callers, nobody else: the record is read and written without the lock.
SPECIFICATION Spec
CONSTANTS
    None = None
    Proposals = {p1}
    Callers = {c1, c2}
    Disturbances = {}
    MaxEdits = 1
PROPERTY
    RejectedStaysOut
