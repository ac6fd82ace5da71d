\* One submitter, one request; nothing but crashes.
SPECIFICATION Spec
CONSTANTS
    None = None
    Submitters = {i1}
    Requests = {r1}
    Digests = {d1}
    Proposals = {p1}
    Faults = {}
    MaxTip = 0
    MaxCrashes = 2
INVARIANT
    CrashesResume
