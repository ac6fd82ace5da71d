\* One proposal, two concurrent callers, every interference.
SPECIFICATION Spec
CONSTANTS
    None = None
    Proposals = {p1}
    Callers = {c1, c2}
    Disturbances = {"abort", "timeout", "tamper", "commit", "edit", "switch"}
    MaxEdits = 1
SYMMETRY Interchangeable
INVARIANTS
    TypeOK
    ApprovalBindsDeclaredTree
    OnlyApprovedLands
    AppliedIsInHistory
PROPERTIES
    ImplementsStandings
    EarlyEditsSurvive
