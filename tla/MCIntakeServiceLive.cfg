\* One request: the two abstract specifications, and with fairness its end.
SPECIFICATION FairSpec
CONSTANTS
    None = None
    Submitters = {i1, i2}
    Requests = {r1}
    Digests = {d1, d2}
    Proposals = {p1}
    Faults = {"timeout", "review", "move"}
    MaxTip = 1
    MaxCrashes = 2
PROPERTIES
    ImplementsRequestLedger
    ImplementsStandings
    PendingSettles
