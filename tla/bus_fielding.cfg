SPECIFICATION FieldSpec
CONSTANTS
    Levels = {4, 8}
    Machines <- Supported
    PswLevels = {0, 7}
    StaleGrant = FALSE
    LatePsw = FALSE
    MaxLate = 1
    MaxFaults = 1
INVARIANTS TypeOK FieldTypeOK InterruptAwaited
PROPERTIES ImplementsBusOwner SackFalls BusReturned DmaServed VectorNotOverwritten ArbitrationReopens
CHECK_DEADLOCK FALSE
