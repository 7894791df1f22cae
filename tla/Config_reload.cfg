\* One reload of an edited file, one stream: are the tests those of the file?
CONSTANTS
    a = a
    b = b
    c = c
    s = s
    t = t
    u = u
    d1 = d1
    d2 = d2
    r1 = r1
    r2 = r2
    Names = {a, b, c}
    Suites = {s, t, u}
    Defs = {d1, d2}
    Broken = Broken
    NoDef = NoDef
    Documents <- SomeDocuments
    Unreadable = Unreadable
    Streams = {r1, r2}
    AllSuite = u
    Requests <- SomeRequests
    MaxReloads = 1
SPECIFICATION Spec
INVARIANT
    ReloadTakesEffect
