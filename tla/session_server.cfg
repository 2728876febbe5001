SPECIFICATION Spec
CONSTANTS
    c1 = c1 c2 = c2 s1 = s1 s2 = s2 None = None
    Clients = {c1, c2}
    Sessions = {s1, s2}
    MaxAttachments = 2
    MaxHandles = 2
    MaxCalls = 1
    MaxFaults = 1
    MaxRequests = 3
    MaxParallel = 2
SYMMETRY Symmetry
CHECK_DEADLOCK FALSE
INVARIANTS
    LeaseAccounted
    OwnReleaseAfterCalls
    DeletedSessionUnused
    ShutdownReleasesAll
    NothingStuck
