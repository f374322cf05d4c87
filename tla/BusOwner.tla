------------------------------ MODULE BusOwner ------------------------------
(***************************************************************************)
(* What UNIBUS arbitration promises, without saying how: the bus (BBSY)    *)
(* has at most one master, and the next master is elected (SACK) while the *)
(* present one still holds the bus. A card is elected first and then waits *)
(* for the bus; the processor takes the bus only when nobody is elected.   *)
(***************************************************************************)
CONSTANT Cards       \* the cards that can be elected

VARIABLES owners,    \* who drives BBSY
          elected    \* who drives SACK

vars == <<owners, elected>>

Init == owners = {} /\ elected = {}

Elect(c) ==
    /\ elected = {}
    /\ elected' = {c}
    /\ UNCHANGED owners

TakeBus(c) ==
    /\ owners = {}
    /\ elected = {c}
    /\ owners' = {c}
    /\ UNCHANGED elected

(* The elected card opens the next election: it needs no more cycles, or   *)
(* it gives up its claim.                                                  *)
Resign(c) ==
    /\ elected = {c}
    /\ elected' = {}
    /\ UNCHANGED owners

(* A card leaves the bus after it resigned or in the same moment.          *)
LeaveBus(c) ==
    /\ owners = {c}
    /\ owners' = {}
    /\ elected' = elected \ {c}

ProcessorTakesBus ==
    /\ owners = {} /\ elected = {}
    /\ owners' = {"processor"}
    /\ UNCHANGED elected

ProcessorLeavesBus ==
    /\ owners = {"processor"}
    /\ owners' = {}
    /\ UNCHANGED elected

Next ==
    \/ \E c \in Cards : Elect(c) \/ TakeBus(c) \/ Resign(c) \/ LeaveBus(c)
    \/ ProcessorTakesBus \/ ProcessorLeavesBus

Spec == Init /\ [][Next]_vars
=============================================================================
