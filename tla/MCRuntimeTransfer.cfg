\* Every adapter family, plans that are kept while both sides change.
SPECIFICATION Spec
CONSTANTS
    None = None
    Adapters = {"claude-code", "copilot", "hermes", "openclaw"}
    Canonical <- Layout
    FirstHomes <- Homes
    FirstRepos <- Repos
    Edits <- Changes
    MaxEdits = 1
    MaxPreviews = 2
    MaxProposals = 1
INVARIANTS
    RestoreOmitsNothing
    ImportThenRestoreLosesNothing
PROPERTIES
    RestoreOverwritesWhatWasShown
    RestoredIsCanonical
    RestoreComesBack
CHECK_DEADLOCK FALSE
