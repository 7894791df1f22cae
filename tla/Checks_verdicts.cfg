\* Every small configuration of a check, against every answer of the system.
CONSTANTS
    x = x
    y = y
    Checks = {"check"}
    Things = {x, y}
    Null = Null
    Versions = {1, 2, 3}
    NoVersion = NoVersion
    NoRange = NoRange
    Configs <- AllConfigs
SPECIFICATION Spec
INVARIANTS
    TypeOK
    PassedIffMet
    FailureHasItsError
PROPERTIES
    CompletedIsFinal
    StartedCompletes
\* A check that is done does nothing more.
CHECK_DEADLOCK FALSE
