---------------------------- MODULE InitDelivery ----------------------------
(***************************************************************************)
(* The INIT protocol of InitEvents on its own: whatever the PRU sees of    *)
(* INIT, every device is told and every bus request is cleared.            *)
(***************************************************************************)
EXTENDS InitEvents

VARIABLES
    devInit,   \* device->init_asserted, as on_init_changed() last saw it
    owed       \* ghost: the PRU saw INIT asserted and no cancel came since

vars == <<initVars, devInit, owed>>

Init ==
    /\ InitSignals
    /\ devInit = FALSE /\ owed = FALSE

Backplane ==
    /\ InitChanges \/ DcloChanges
    /\ UNCHANGED <<devInit, owed>>

PruSamples ==
    /\ ~Sampled
    /\ PruSignalsChange
    /\ owed' = (owed \/ (busInit /\ ~initCur))
    /\ UNCHANGED devInit

WorkerSamples ==
    /\ WorkerWakes \/ WorkerReadsInitCount \/ WorkerReadsInitLevel
    /\ devInit' = IF wpc = "level" /\ ~initCur /\ ~IsPulse THEN FALSE ELSE devInit
    /\ UNCHANGED owed

(* worker_init_event() tells the devices, then cancels if INIT is asserted *)
WorkerNotifies ==
    /\ \/ WorkerReplaysFarSide \/ WorkerReplaysNearSide
       \/ WorkerPower("raise") \/ WorkerEndsPass
    /\ devInit' = IF wpc = "power" \/ (wpc = "raise" /\ ~wRaise) THEN devInit ELSE lineInit
    /\ owed' = (owed /\ ~Cancels)

Next == Backplane \/ PruSamples \/ WorkerSamples \/ WorkerNotifies

Spec == Init /\ [][Next]_vars /\ WF_vars(PruSamples) /\ WF_vars(WorkerSamples \/ WorkerNotifies)

(* No INIT is lost, however short: while a cancel is owed for an assertion *)
(* the PRU saw, its event is not yet acknowledged.                         *)
InitNotLost == owed => ~IsAcked(initEvt)

(* Between passes, with every event acknowledged, the level the adapter    *)
(* and its devices go by is the level the PRU reported last.               *)
LevelsAgree == wpc = "wait" /\ IsAcked(initEvt) => lineInit = initCur /\ devInit = lineInit

(* Every INIT the PRU sees is carried out.                                 *)
InitCarriedOut == owed ~> ~owed
=============================================================================
