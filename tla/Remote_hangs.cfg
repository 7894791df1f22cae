\* One client whose context may expire, and a queue that forgets nothing.
CONSTANTS
    c1 = c1
    c2 = c2
    x = x
    y = y
    z = z
    Clients = {c1}
    Jobs = {x, y}
    NoJob = NoJob
    Missing = Missing
    NumWorkers = 1
    Capacities = {3}
    Selections <- OneClient
    Expiring = {c1}
SPECIFICATION FairSpec
PROPERTY ContextEndsRun
CHECK_DEADLOCK FALSE
