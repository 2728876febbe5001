SPECIFICATION SpecStartup
CONSTANTS
    b1 = b1 b2 = b2 b3 = b3 b4 = b4 x = x y = y
    None = None
    OldFiles <- MCOldFiles
    OldBatches = {b1, b2, b3, b4}
    MaxKills = 2
    Ids <- MCIds
    Limit = 2
    MaxTime = 3
INVARIANTS
    FirstRecordKept
    HeadIsCurrent
    FailureIsCutDdl
    RevisionsWhole
    NothingTwice
    NothingSkipped
    OldContentsOnce
