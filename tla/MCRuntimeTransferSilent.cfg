\* Daily notes are imported, a file that is no note appears beside them, and
\* the next import passes them over.
SPECIFICATION Spec
CONSTANTS
    None = None
    Adapters = {"agents-md"}
    Canonical <- Layout
    FirstHomes <- NotesOnly
    FirstRepos <- Fresh
    Edits <- DumpAppears
    MaxEdits = 1
    MaxPreviews = 2
    MaxProposals = 1
INVARIANT
    ImportOmitsNothing
CHECK_DEADLOCK FALSE
