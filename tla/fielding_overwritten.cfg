SPECIFICATION FieldSpec
CONSTANTS
    Levels = {4, 5, 8}
    Machines <- EmulatedAlone
    PswLevels = {0, 7}
    StaleGrant = FALSE
    LatePsw = TRUE
    MaxLate = 1
    MaxFaults = 0
PROPERTY VectorNotOverwritten
CHECK_DEADLOCK FALSE
