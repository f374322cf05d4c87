SPECIFICATION FairSpec
CONSTANTS
    DevSlots = {1}
    CpuSlots = {31}
    TimedSlots = {}
    Words <- SingleWords
    MaxChunk = 1
    EventMod = 4
    CpuOwnsMemory = FALSE
    PruMayStick = FALSE
    OtherEvents = TRUE
    IntrOnBus = FALSE
    OrphanExpires = FALSE
    MaxCalls <- OneCall
    MaxInit = 0
    MaxPower = 0
PROPERTY WorkerCompletesFinished
CHECK_DEADLOCK FALSE
