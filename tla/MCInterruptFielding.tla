------------------------- MODULE MCInterruptFielding -------------------------
(* Values of the constants of InterruptFielding for TLC.                   *)
EXTENDS InterruptFielding

(* A card among others under a physical processor, and the emulated        *)
(* processor on a card that is alone.                                      *)
Supported == {[processor |-> "physical", neighbour |-> TRUE],
              [processor |-> "emulated", neighbour |-> FALSE]}

EmulatedAlone == {[processor |-> "emulated", neighbour |-> FALSE]}
=============================================================================
