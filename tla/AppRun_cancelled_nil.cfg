\* A run whose caller may cancel: is a nil verdict still worth anything?
CONSTANTS
    a = a
    b = b
    c = c
    d = d
    e = e
    Jobs = {a, b}
    NoJob = NoJob
    Missing = Missing
    NumWorkers = 2
    MinBuffer = 1
    MaxBuffer = 1
    AlreadyRun = {}
    Selections <- ShortSelections
    MayCancel = TRUE
SPECIFICATION FairSpec
INVARIANTS
    NilMeansAllPassedAlways
CHECK_DEADLOCK FALSE
