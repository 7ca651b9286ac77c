SPECIFICATION Spec
CONSTANTS
    Texts <- MCTexts
    MaxDepth = 3
INVARIANTS
    LiteralsEnd
    PlaceIsRight
    StaysInside
PROPERTY ReadToTheEnd
CHECK_DEADLOCK FALSE
