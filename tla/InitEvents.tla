----------------------------- MODULE InitEvents -----------------------------
(***************************************************************************)
(* How the INIT and DCLO lines of a UNIBUS backplane reach the devices:    *)
(* the PRU samples the lines and counts events in the mailbox, the         *)
(* adapter's worker() thread turns counts and levels back into edges and   *)
(* calls worker_init_event() and worker_power_event().                     *)
(*                                                                         *)
(* The request schedulers extend this module: they add the rest of the     *)
(* worker's pass between its "power" and "raise" places and say what the   *)
(* cancelling steps do to their tables.                                    *)
(***************************************************************************)
EXTENDS Integers

CONSTANTS
    EventMod,   \* the event counters count modulo this (256)
    MaxInit,    \* bound: changes of the INIT line
    MaxPower    \* bound: changes of the DCLO line

ASSUME SignalAssumption ==
    /\ EventMod \in Nat \ {0, 1}
    /\ MaxInit \in Nat /\ MaxPower \in Nat

VARIABLES
    wpc,         \* where worker() is in its pass over the events
    wAny,        \* any_event
    wRaise,      \* init_raising_edge
    wSeen,       \* init_signaled, read before the level
    lineInit, initReplay, lineDclo,  \* line_INIT, init_replay, line_DCLO
    initEvt, powEvt,                 \* mailbox->events.init and .power
    initCur, dcloCur,                \* init_signal_cur, DCLO of power_signals_cur
    irq,         \* a PRU2ARM_INTERRUPT the worker has not consumed
    busInit, busDclo,                \* the lines on the backplane
    inits, powers                    \* changes of these lines so far

workerVars == <<wpc, wAny, wRaise, wSeen, lineInit, initReplay, lineDclo>>
busVars    == <<busInit, busDclo, inits, powers>>
signalVars == <<initEvt, powEvt, initCur, dcloCur>>
initVars   == <<workerVars, busVars, signalVars, irq>>

(* Event counters of mailbox.h: signaled by one side, acked by the other.  *)
Signal(e) == [e EXCEPT !.sig = (@ + 1) % EventMod]
Ack_NoRollover(e) == [e EXCEPT !.ack = @ + 1]                    \* mutant
Ack(e)    == [e EXCEPT !.ack = (@ + 1) % EventMod]
IsAcked(e) == e.sig = e.ack

Counter == 0 .. EventMod - 1
Event == [sig : Counter, ack : Counter]
NoEvents == [sig |-> 0, ack |-> 0]

bus_init_active_Ignored == FALSE                                 \* mutant
bus_init_active == lineInit \/ initReplay

InitSignals ==
    /\ wpc = "wait" /\ wAny = FALSE /\ wRaise = FALSE /\ wSeen = 0
    /\ lineInit = FALSE /\ initReplay = FALSE /\ lineDclo = FALSE
    /\ initEvt = NoEvents /\ powEvt = NoEvents
    /\ initCur = FALSE /\ dcloCur = FALSE /\ irq = FALSE
    /\ busInit = FALSE /\ busDclo = FALSE /\ inits = 0 /\ powers = 0

-----------------------------------------------------------------------------
(* The backplane (external): someone drives INIT or DCLO.                  *)
InitChanges ==
    /\ inits < MaxInit
    /\ inits' = inits + 1 /\ busInit' = ~busInit
    /\ UNCHANGED <<workerVars, signalVars, irq, busDclo, powers>>

DcloChanges ==
    /\ powers < MaxPower
    /\ powers' = powers + 1 /\ busDclo' = ~busDclo
    /\ UNCHANGED <<workerVars, signalVars, irq, busInit, inits>>

(* The PRU, at the head of each pass in which it is not bus master:        *)
(* do_event_initializationsignals.                                         *)
Sampled == initCur = busInit /\ dcloCur = busDclo

PruSignalsChange ==
    /\ initCur' = busInit /\ dcloCur' = busDclo
    /\ initEvt' = IF initCur # busInit THEN Signal(initEvt) ELSE initEvt
    /\ powEvt' = IF dcloCur # busDclo THEN Signal(powEvt) ELSE powEvt
    /\ irq' = (irq \/ ~Sampled)
    /\ UNCHANGED <<workerVars, busVars>>

-----------------------------------------------------------------------------
(* worker(): the wakeup, and the INIT part of a pass.                      *)

WorkerWakes ==
    /\ wpc = "wait" /\ irq
    /\ irq' = FALSE
    /\ wpc' = "init"
    /\ UNCHANGED <<wAny, wRaise, wSeen, lineInit, initReplay, lineDclo, signalVars, busVars>>

(* the count is read before the level *)
WorkerReadsInitCount ==
    /\ wpc = "init"
    /\ wSeen' = initEvt.sig
    /\ wAny' = ~IsAcked(initEvt)
    /\ wRaise' = FALSE
    /\ wpc' = IF IsAcked(initEvt) THEN "power" ELSE "level"
    /\ UNCHANGED <<lineInit, initReplay, lineDclo, irq, signalVars, busVars>>

(* A rising edge is remembered for the end of the pass; a falling edge is  *)
(* taken and acked here, and cancels nothing; a change that left no edge   *)
(* is a pulse: init_replay is set and line_INIT shows its far side.        *)
IsPulse_Never == FALSE                                           \* mutant
IsPulse == initCur = lineInit

WorkerReadsInitLevel ==
    /\ wpc = "level"
    /\ lineInit' = IF IsPulse THEN ~initCur ELSE initCur
    /\ initReplay' = IsPulse
    /\ wRaise' = (initCur /\ ~IsPulse)
    /\ initEvt' = IF initCur \/ IsPulse THEN initEvt ELSE Ack(initEvt)
    /\ wpc' = IF IsPulse THEN "replay1" ELSE "power"
    /\ UNCHANGED <<wAny, wSeen, lineDclo, powEvt, initCur, dcloCur, irq, busVars>>

(* worker_init_event() for the far and for the near side of the pulse      *)
WorkerReplaysFarSide ==
    /\ wpc = "replay1"
    /\ lineInit' = ~lineInit
    /\ wpc' = "replay2"
    /\ UNCHANGED <<wAny, wRaise, wSeen, initReplay, lineDclo, signalVars, irq, busVars>>

(* the counts read before the level describe the pulse: all are acked      *)
PulseAck_ReadsAgain == [initEvt EXCEPT !.ack = initEvt.sig]      \* mutant
PulseAck == [initEvt EXCEPT !.ack = wSeen]

WorkerReplaysNearSide ==
    /\ wpc = "replay2"
    /\ initReplay' = FALSE
    /\ initEvt' = PulseAck
    /\ wpc' = "power"
    /\ UNCHANGED <<wAny, wRaise, wSeen, lineInit, lineDclo, powEvt, initCur, dcloCur,
                   irq, busVars>>

(* the power part: an edge of DCLO is what the cached and the new level    *)
(* differ in                                                               *)
WorkerPower(next) ==
    /\ wpc = "power"
    /\ IF IsAcked(powEvt)
       THEN UNCHANGED <<wAny, lineDclo, powEvt>>
       ELSE lineDclo' = dcloCur /\ wAny' = TRUE /\ powEvt' = Ack(powEvt)
    /\ wpc' = next
    /\ UNCHANGED <<wRaise, wSeen, lineInit, initReplay, initEvt, initCur, dcloCur,
                   irq, busVars>>

(* the rising INIT of this pass, then another pass if this one had events  *)
WorkerEndsPass ==
    /\ wpc = "raise"
    /\ initEvt' = IF wRaise THEN Ack(initEvt) ELSE initEvt
    /\ wpc' = IF wAny THEN "init" ELSE "wait"
    /\ UNCHANGED <<wAny, wRaise, wSeen, lineInit, initReplay, lineDclo, powEvt, initCur,
                   dcloCur, irq, busVars>>

(* Steps that call requests_cancel_all(): worker_init_event() with INIT    *)
(* asserted, worker_power_event() with DCLO rising.                        *)
InitCancels == /\ lineInit
               /\ wpc \in {"replay1", "replay2"} \/ (wpc = "raise" /\ wRaise)
PowerCancels == wpc = "power" /\ ~IsAcked(powEvt) /\ dcloCur /\ ~lineDclo
Cancels == InitCancels \/ PowerCancels

SignalsTypeOK ==
    /\ wpc \in {"wait", "init", "level", "replay1", "replay2", "power", "dma",
                "dmaLock", "dmaAck", "register", "access", "intr", "intrAck", "raise"}
    /\ wAny \in BOOLEAN /\ wRaise \in BOOLEAN /\ wSeen \in Counter
    /\ lineInit \in BOOLEAN /\ initReplay \in BOOLEAN /\ lineDclo \in BOOLEAN
    /\ initEvt \in Event /\ powEvt \in Event
    /\ initCur \in BOOLEAN /\ dcloCur \in BOOLEAN /\ irq \in BOOLEAN
    /\ busInit \in BOOLEAN /\ busDclo \in BOOLEAN
    /\ inits \in 0 .. MaxInit /\ powers \in 0 .. MaxPower
=============================================================================
