\* Two submitters, two requests, every fault.
SPECIFICATION Spec
CONSTANTS
    None = None
    Submitters = {i1, i2}
    Requests = {r1, r2}
    Digests = {d1, d2}
    Proposals = {p1, p2}
    Faults = {"timeout", "error", "review", "move"}
    MaxTip = 1
    MaxCrashes = 1
SYMMETRY Interchangeable
INVARIANTS
    TypeOK
    OneProposalPerRequest
    CompletedHasProposal
    DraftKeepsContent
PROPERTY
    ReceiptIsFrozen
