\* A run that returns early because a selected test is missing.
CONSTANTS
    a = a
    b = b
    c = c
    d = d
    e = e
    Jobs = {a, b}
    NoJob = NoJob
    Missing = Missing
    NumWorkers = 2
    MinBuffer = 1
    MaxBuffer = 1
    AlreadyRun = {}
    Selections <- ShortSelections
    MayCancel = FALSE
SPECIFICATION FairSpec
PROPERTIES
    EarlyReturnCleansUp
CHECK_DEADLOCK FALSE
