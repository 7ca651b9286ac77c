SPECIFICATION Spec
CONSTANTS
    A = A
    B = B
    C = C
    D = D
    T = T
    U = U
    Int32 = Int32
    px = px
    f = f
    g = g
    Names = {A, B, C, D, T, U, Int32}
    Classes = {A, B, C}
    BuiltinInt = Int32
    Programs <- MCPrograms
    None = None
INVARIANTS
    RecursionGuarded
    ResolvedIsComplete
    RoundsReachAll
    FailureReported
PROPERTIES
    ResolvedIsFinal
    Terminates
CHECK_DEADLOCK FALSE
