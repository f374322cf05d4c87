SPECIFICATION Spec
CONSTANTS
    CmdLen = 2
    RspLen = 1
    InitCredits = 1
    Onlines <- OddCmds
    StaleStep1 = TRUE
    BellsMislead = FALSE
    LingerRounds = 1
    MaxCmds = 3
    MaxResets = 2
    MaxErrors = 1
INVARIANT NotToldStaleStep
CHECK_DEADLOCK FALSE
