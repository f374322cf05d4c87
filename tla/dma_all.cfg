SPECIFICATION Spec
CONSTANTS
    DevSlots = {1, 2}
    CpuSlots = {31}
    TimedSlots = {2}
    Words <- SecondIsLong
    MaxChunk = 1
    EventMod = 2
    CpuOwnsMemory = TRUE
    PruMayStick = TRUE
    OtherEvents = FALSE
    IntrOnBus = TRUE
    OrphanExpires = TRUE
    MaxCalls <- OneCall
    MaxInit = 1
    MaxPower = 0
INVARIANTS TypeOK TablesConsistent ChunkFits
CHECK_DEADLOCK FALSE
