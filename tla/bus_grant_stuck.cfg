SPECIFICATION FieldSpec
CONSTANTS
    Levels = {4, 8}
    Machines <- EmulatedAlone
    PswLevels = {0, 7}
    StaleGrant = TRUE
    LatePsw = FALSE
    MaxLate = 1
    MaxFaults = 0
PROPERTY DmaServed
CHECK_DEADLOCK FALSE
