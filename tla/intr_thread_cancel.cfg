SPECIFICATION FairSpec
CONSTANTS
    EventMod = 2
    MaxInit = 0
    MaxPower = 0
    IntrSlots = {1, 2, 3}
    Levels = {0}
    LevelOf <- AllOnLevel0
    ThreadCancels = {1}
    ShortInit = FALSE
    MaxRaise <- OneRaise
    MaxCancel = 1
    MaxAccess = 0
INVARIANT StillOnItsWay
CHECK_DEADLOCK FALSE
