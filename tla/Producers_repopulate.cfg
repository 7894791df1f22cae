\* A producer that is populated twice.
CONSTANTS
    a = a
    b = b
    c = c
    Names = {a, b, c}
    NoName = NoName
    NotChecker = NotChecker
    ByReference = ByReference
    Formats = {"gotest", "log", "json", "result", "report"}
    Batches <- SomeBatches
    MaxPopulates = 2
SPECIFICATION Spec
INVARIANT
    PrintErrsOnFailures
