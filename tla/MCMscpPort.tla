----------------------------- MODULE MCMscpPort -----------------------------
(* Values of the constants of MscpPort for TLC.                            *)
EXTENDS MscpPort

OddCmds == {id \in Cmds : id % 2 = 1}
=============================================================================
