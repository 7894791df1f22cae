\* A run whose caller may cancel, on a configuration that was run before:
\* job c is complete already when the run begins.
CONSTANTS
    a = a
    b = b
    c = c
    d = d
    e = e
    Jobs = {a, b, c}
    NoJob = NoJob
    Missing = Missing
    NumWorkers = 2
    MinBuffer = 1
    MaxBuffer = 1
    AlreadyRun = {c}
    Selections <- CancelSelections
    MayCancel = TRUE
SPECIFICATION FairSpec
INVARIANTS
    NoJobLost
    WaitIsComplete
    ErrorHasReason
PROPERTIES
    CancelEndsWait
\* A caller that cancels while Put waits for room in the channel is stuck.
CHECK_DEADLOCK FALSE
