SPECIFICATION FairSpec
CONSTANTS
    EventMod = 3
    MaxInit = 2
    MaxPower = 0
    IntrSlots = {1, 2, 3}
    Levels = {0, 1}
    LevelOf <- TwoOnLevel0
    ThreadCancels = {3}
    ShortInit = FALSE
    MaxRaise <- OneRaise
    MaxCancel = 1
    MaxAccess = 1
INVARIANTS TypeOK LevelTablesConsistent PruMirrorsTables NoLostInterrupt VectorIsWanted
PROPERTY EveryInterruptServed
CHECK_DEADLOCK FALSE
