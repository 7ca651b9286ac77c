SPECIFICATION Spec
CONSTANTS
    Names <- MCNames
    Statements <- MCStatements
    Programs <- MCPrograms
    MaxLoop = 2
    MaxAsked = 4
    MaxCalls = 2
INVARIANT ReturnsLiving
CHECK_DEADLOCK FALSE
