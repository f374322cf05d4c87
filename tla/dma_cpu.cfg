SPECIFICATION FairSpec
CONSTANTS
    DevSlots = {}
    CpuSlots = {31}
    TimedSlots = {}
    Words <- SingleWords
    MaxChunk = 1
    EventMod = 4
    CpuOwnsMemory = FALSE
    PruMayStick = FALSE
    OtherEvents = TRUE
    IntrOnBus = FALSE
    OrphanExpires = FALSE
    MaxCalls <- ThreeCalls
    MaxInit = 3
    MaxPower = 1
INVARIANTS MailboxNotShared SuccessMeansMoved
PROPERTIES CompletionIsFinished EveryCallReturns
CHECK_DEADLOCK FALSE
