\* An uncancelled run: one-slot channel, two workers, five jobs.
CONSTANTS
    a = a
    b = b
    c = c
    d = d
    e = e
    Jobs = {a, b, c, d, e}
    NoJob = NoJob
    Missing = Missing
    NumWorkers = 2
    MinBuffer = 1
    MaxBuffer = 1
    AlreadyRun = {}
    Selections <- MixedSelections
    MayCancel = FALSE
SPECIFICATION FairSpec
INVARIANTS
    TypeOK
    NoJobLost
    NeverOvercounts
    WaitIsComplete
    NilMeansAllPassed
    OneHolder
PROPERTIES
    NeverRerun
    ResultsAreFinal
    RunReturns
    PoolStops
    KeepsPromise
