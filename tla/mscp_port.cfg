SPECIFICATION Spec
CONSTANTS
    CmdLen = 2
    RspLen = 2
    InitCredits = 2
    Onlines <- OddCmds
    StaleStep1 = FALSE
    BellsMislead = FALSE
    LingerRounds = 1
    MaxCmds = 4
    MaxResets = 3
    MaxErrors = 1
INVARIANTS TypeOK NotToldStaleStep ParkedDuringInit ResponsesWanted RingsInStep CreditsConserved OnlineByThisHost
PROPERTIES InitCompletes CommandAnswered
CHECK_DEADLOCK FALSE
