SPECIFICATION Spec
CONSTANTS
    EventMod = 8
    MaxInit = 6
    MaxPower = 2
INVARIANTS InitNotLost LevelsAgree
PROPERTY InitCarriedOut
CHECK_DEADLOCK FALSE
