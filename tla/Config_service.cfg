\* Two streams against up to two reloads of a file that is edited meanwhile.
CONSTANTS
    a = a
    b = b
    c = c
    s = s
    t = t
    u = u
    d1 = d1
    d2 = d2
    r1 = r1
    r2 = r2
    Names = {a, b, c}
    Suites = {s, t, u}
    Defs = {d1, d2}
    Broken = Broken
    NoDef = NoDef
    Documents <- SomeDocuments
    Unreadable = Unreadable
    Streams = {r1, r2}
    AllSuite = u
    Requests <- SomeRequests
    MaxReloads = 2
SPECIFICATION Spec
INVARIANTS
    TypeOK
    OncePerStream
    SuiteIsItsMembers
    NeverVacuous
    OneConfigPerGenerator
PROPERTIES
    JobsAreStable
    StreamsEnd
    ReloadEnds
