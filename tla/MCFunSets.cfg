SPECIFICATION Spec
CONSTANTS
    Classes = {1, 2, 3, 4, 5}
    Hierarchies <- MCHierarchies
INVARIANTS
    OverridesAgree
    OverriderIsVirtual
    CallsDispatch
PROPERTIES
    AllMerged
CHECK_DEADLOCK FALSE
