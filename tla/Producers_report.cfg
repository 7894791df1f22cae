\* The report of one batch.
CONSTANTS
    a = a
    b = b
    c = c
    Names = {a, b, c}
    NoName = NoName
    NotChecker = NotChecker
    ByReference = ByReference
    Formats = {"report"}
    Batches <- SomeBatches
    MaxPopulates = 1
SPECIFICATION Spec
INVARIANT
    ReportKeepsEachResult
