SPECIFICATION Spec
CONSTANTS
    Texts <- CondTexts
    ErrorLimit = 3
INVARIANT AsCondStandsAlone
CHECK_DEADLOCK FALSE
