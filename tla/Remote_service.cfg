\* Two clients, three checks, one worker, a queue of one to three jobs.
CONSTANTS
    c1 = c1
    c2 = c2
    x = x
    y = y
    z = z
    Clients = {c1, c2}
    Jobs = {x, y, z}
    NoJob = NoJob
    Missing = Missing
    NumWorkers = 1
    Capacities = {1, 2, 3}
    Selections <- TwoClients
    Expiring = {c2}
SPECIFICATION FairSpec
INVARIANTS
    TypeOK
    WaitOkIsSound
    VerdictIsSound
    PanicMeansForgotten
PROPERTIES
    RunEnds
    KeepsRetention
\* The service waits for requests for ever once its clients have ended.
CHECK_DEADLOCK FALSE
