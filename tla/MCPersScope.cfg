SPECIFICATION Spec
CONSTANTS
    Names = {n1, n2, n3}
    Defs = {d1, d2, d3, d4}
    NoDef = NoDef
    NoVersion = NoVersion
    Views = {v1}
    Iters = {i1}
INVARIANTS
    PrefixVisible
    ViewsInRange
    IterationInOrder
PROPERTIES
    VersionsRestorable
    ImplementsDefLog
CHECK_DEADLOCK FALSE
