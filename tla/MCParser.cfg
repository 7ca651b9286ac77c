SPECIFICATION Spec
CONSTANTS
    Texts <- MCTexts
    ErrorLimit = 2
INVARIANTS
    NothingLost
    FailureReported
    AcceptedIsBalanced
    AbortsWhere
PROPERTY Ends
CHECK_DEADLOCK FALSE
