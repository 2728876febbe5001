SPECIFICATION FairSpec
CONSTANTS
    MaxSubscriptions = 3
    MaxChanges = 2
    MaxLosses = 1
    MaxOpens = 2
CHECK_DEADLOCK FALSE
INVARIANTS
    NoGap
    NoneLeftBehind
PROPERTY CatchesUp
