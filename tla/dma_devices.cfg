SPECIFICATION FairSpec
CONSTANTS
    DevSlots = {1, 2}
    CpuSlots = {}
    TimedSlots = {2}
    Words <- ChunkedAndTimed
    MaxChunk = 1
    EventMod = 4
    CpuOwnsMemory = FALSE
    PruMayStick = FALSE
    OtherEvents = FALSE
    IntrOnBus = FALSE
    OrphanExpires = FALSE
    MaxCalls <- SecondCallsTwice
    MaxInit = 2
    MaxPower = 0
INVARIANTS MailboxNotShared NoForgottenTransfer SuccessMeansMoved InitClearsRequests
PROPERTIES CompletionIsFinished EveryCallReturns
CHECK_DEADLOCK FALSE
