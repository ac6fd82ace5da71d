\* One caller at a time, who may be interrupted anywhere, and two proposals.
SPECIFICATION FairSpec
CONSTANTS
    None = None
    Proposals = {p1, p2}
    Callers = {c1}
    Disturbances = {"abort", "timeout", "commit"}
    MaxEdits = 1
INVARIANT
    LiveProposalKeepsWorktree
PROPERTIES
    RejectedStaysOut
    TerminalIsFinal
    ImplementsTargetBranch
    EveryCallReturns
