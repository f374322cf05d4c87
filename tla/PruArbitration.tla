--------------------------- MODULE PruArbitration ---------------------------
(***************************************************************************)
(* What the arbitration workers of the PRU firmware compute from the bus   *)
(* lines (pru1_statemachine_arbitration.c, pru1_main_unibus.c). A bit mask *)
(* of request or grant lines is a set of levels: 4 .. 7 for BR4 .. BR7 and *)
(* NP for NPR.                                                             *)
(***************************************************************************)
EXTENDS Naturals

CONSTANT Levels      \* the request lines in use

NP == 8
FETCHING == 255      \* CPU_PRIORITY_LEVEL_FETCHING

ASSUME LevelsAssumption == NP \in Levels /\ Levels \subseteq 4 .. 8

(* Mutant: a passed grant is held back when a request of ours comes up.    *)
Forwarded_NotKept(in, signalled, forwarded) == in \cap (Levels \ signalled)

(* GRANT IN lines passed to GRANT OUT: those this card did not ask for,    *)
(* and those already passed.                                               *)
Forwarded(in, signalled, forwarded) ==
    in \cap ((Levels \ signalled) \cup forwarded)

(* Grants this card takes: asked for, and not passed on.                   *)
Accepted(in, requests, forwarded) == (in \cap requests) \ forwarded

(* Mutant: the last master's BBSY is not waited for.                       *)
MayDrive_NoBbsy(in, waiting, bbsy, ssyn) == in \cap waiting = {} /\ ~ssyn

(* A taken grant makes this card bus master when the grant has dropped and *)
(* the last master and slave are off the bus.                              *)
MayDrive(in, waiting, bbsy, ssyn) == in \cap waiting = {} /\ ~bbsy /\ ~ssyn

(* The emulated processor's own bus cycle needs no grant, only an idle bus.*)
CpuAccessGranted(lines, sack, bbsy, pending) ==
    /\ NP \notin lines /\ ~sack /\ ~bbsy
    /\ ~(lines # {} /\ pending)

Highest(lines) == {l \in lines : \A m \in lines : m <= l}

(* Mutants: the level is decoded one too high; SACK does not remove GRANT. *)
ArbitratorGrant_OneHigh(lines, sack, grant, pending, level, timedOut) ==
    IF sack THEN {}
    ELSE IF NP \in lines
         THEN IF grant = {} THEN {NP} ELSE grant
    ELSE IF pending /\ lines # {}
         THEN IF grant = {} THEN {l + 1 : l \in {h \in Highest(lines) : h > level}} ELSE grant
    ELSE IF timedOut THEN {} ELSE grant

ArbitratorGrant_SackIgnored(lines, sack, grant, pending, level, timedOut) ==
    IF sack THEN grant
    ELSE IF NP \in lines
         THEN IF grant = {} THEN {NP} ELSE grant
    ELSE IF pending /\ lines # {}
         THEN IF grant = {} THEN {l \in Highest(lines) : l > level} ELSE grant
    ELSE IF timedOut THEN {} ELSE grant

(* The grant the emulated arbitrator puts out: none once a card has        *)
(* answered with SACK, NPR first, then the highest BR above the processor's*)
(* level when the processor allowed interrupts. A grant stands until it is *)
(* answered, or timed out with nothing else asked for.                     *)
ArbitratorGrant(lines, sack, grant, pending, level, timedOut) ==
    IF sack THEN {}
    ELSE IF NP \in lines
         THEN IF grant = {} THEN {NP} ELSE grant
    ELSE IF pending /\ lines # {}
         THEN IF grant = {} THEN {l \in Highest(lines) : l > level} ELSE grant
    ELSE IF timedOut THEN {} ELSE grant
=============================================================================
