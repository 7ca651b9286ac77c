SPECIFICATION Spec
CONSTANTS
    Classes = {1, 2, 3, 4, 5}
    Shapes <- MCShapes
    ParentLists <- MCParentLists
    ObjectClasses = {5}
    UrSelf = 1
    AtomDataOff = 1
    AtomDataMaxSize = 6
    BitsizeMod = 64
INVARIANTS
    AncestryAddsUp
    LayoutDisjoint
PROPERTIES
    ImplementsValues
CHECK_DEADLOCK FALSE
