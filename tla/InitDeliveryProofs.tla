------------------------- MODULE InitDeliveryProofs -------------------------
(***************************************************************************)
(* No INIT is lost and the levels agree, for any number of INIT and DCLO   *)
(* changes at any moment: as long as the PRU never signals so many changes *)
(* before the worker answers that the 8 bit counter comes full circle.     *)
(***************************************************************************)
EXTENDS InitDelivery, InitEventsProofs

(* The inductive invariant: the INIT protocol, an INIT that is owed a      *)
(* cancel is pending, and the devices know the worker's level outside      *)
(* replay and raising edge.                                                *)
OwedIsPending == owed => CancelPending
DevicesFollow == wpc \notin Replays /\ ~RaiseAhead => devInit = lineInit
DeliveryInv ==
    /\ Delivering /\ owed \in BOOLEAN /\ devInit \in BOOLEAN
    /\ OwedIsPending /\ DevicesFollow

(* Nothing happens to INIT: it changes on the backplane, or DCLO does.     *)
LEMMA BackplaneFollows ==
    ASSUME DeliveryInv, Backplane \/ UNCHANGED vars
    PROVE  DeliveryInv'
<1>1. SignalsTypeOK'
    BY BackplaneType, SignalsUnchanged DEF Backplane, vars, DeliveryInv, Delivering
<1>2. UNCHANGED <<wpc, handVars, devInit, owed>>
    BY DEF Backplane, InitChanges, DcloChanges, vars, initVars, workerVars, signalVars, handVars
<1>3. Delivering' /\ (CancelPending => CancelPending')
    BY <1>1, <1>2, HandUnchanged DEF DeliveryInv
<1> QED
    BY <1>2, <1>3 DEF DeliveryInv, OwedIsPending, DevicesFollow, RaiseAhead, MidPass, handVars

(* The PRU signals a change; INIT that it sees come on is owed a cancel.   *)
LEMMA PruFollows ==
    ASSUME DeliveryInv, PruSamples, NotLapped
    PROVE  DeliveryInv'
<1>1. /\ Delivering' /\ (CancelPending => CancelPending')
      /\ busInit /\ ~initCur => CancelPending'
    BY PruDelivers DEF DeliveryInv, PruSamples
<1>2. /\ UNCHANGED <<wpc, wRaise, lineInit, devInit>>
      /\ owed' = (owed \/ (busInit /\ ~initCur))
    BY DEF PruSamples, PruSignalsChange, workerVars
<1> QED
    BY <1>1, <1>2 DEF DeliveryInv, OwedIsPending, DevicesFollow, RaiseAhead, MidPass

(* The worker wakes and reads count and level.                             *)
LEMMA SamplesFollow ==
    ASSUME DeliveryInv, WorkerSamples
    PROVE  DeliveryInv'
<1> USE DEF RaiseAhead, MidPass, Replays
<1>1. Delivering' /\ (CancelPending => CancelPending') /\ UNCHANGED owed
    BY SamplesDeliver DEF DeliveryInv, WorkerSamples
<1>2. devInit' \in {FALSE, devInit}
    BY DEF WorkerSamples
<1>2a. devInit' \in BOOLEAN /\ OwedIsPending'
    BY <1>1, <1>2 DEF DeliveryInv, OwedIsPending
<1>3. DevicesFollow'
    <2>1. CASE WorkerWakes
        BY <2>1 DEF WorkerWakes, WorkerSamples, DeliveryInv, DevicesFollow
    <2>2. CASE WorkerReadsInitCount
        BY <2>2 DEF WorkerReadsInitCount, WorkerSamples, DeliveryInv, DevicesFollow
    <2>3. CASE WorkerReadsInitLevel
        <3>1. initCur \in BOOLEAN /\ lineInit \in BOOLEAN /\ devInit = lineInit
            BY <2>3 DEF WorkerReadsInitLevel, DeliveryInv, DevicesFollow, Delivering, SignalsTypeOK
        <3> QED
            BY <2>3, <3>1 DEF WorkerReadsInitLevel, WorkerSamples, IsPulse, DevicesFollow
    <2> QED BY <2>1, <2>2, <2>3 DEF WorkerSamples
<1> QED BY <1>1, <1>2a, <1>3 DEF DeliveryInv

(* The worker tells the devices and cancels.                               *)
LEMMA NotifiesFollow ==
    ASSUME DeliveryInv, WorkerNotifies
    PROVE  DeliveryInv'
<1> USE DEF RaiseAhead, MidPass, Replays
<1>1. Delivering' /\ (CancelPending /\ ~Cancels => CancelPending')
    BY NotifiesDeliver DEF DeliveryInv, WorkerNotifies
<1>2. owed' = (owed /\ ~Cancels) /\ devInit' \in {devInit, lineInit}
    BY DEF WorkerNotifies
<1>3. owed' \in BOOLEAN /\ OwedIsPending'
    BY <1>1, <1>2 DEF DeliveryInv, OwedIsPending
<1>4. devInit' \in BOOLEAN
    BY <1>2 DEF DeliveryInv, Delivering, SignalsTypeOK
<1>5. DevicesFollow'
    <2>1. CASE WorkerReplaysFarSide
        BY <2>1 DEF WorkerReplaysFarSide, DevicesFollow
    <2>2. CASE WorkerReplaysNearSide
        BY <2>2 DEF WorkerReplaysNearSide, WorkerNotifies, DevicesFollow
    <2>3. CASE WorkerPower("raise")
        BY <2>3 DEF WorkerPower, WorkerNotifies, DeliveryInv, DevicesFollow
    <2>4. CASE WorkerEndsPass
        BY <2>4 DEF WorkerEndsPass, WorkerNotifies, DeliveryInv, DevicesFollow
    <2> QED BY <2>1, <2>2, <2>3, <2>4 DEF WorkerNotifies
<1> QED BY <1>1, <1>3, <1>4, <1>5 DEF DeliveryInv

-----------------------------------------------------------------------------
(* Nothing is owed and all levels are off after power up.                  *)
LEMMA StartsRight == Init => DeliveryInv
BY StartsDelivering DEF Init, InitSignals, DeliveryInv, OwedIsPending, DevicesFollow

(* DeliveryInv is inductive over any number of INIT changes, if the event  *)
(* counter does not come full circle before the worker answers.            *)
THEOREM Inductive == Spec /\ [][NotLapped]_vars => []DeliveryInv
<1>1. Init => DeliveryInv
    BY StartsRight
<1>2. DeliveryInv /\ [Next]_vars /\ [NotLapped]_vars => DeliveryInv'
    <2> SUFFICES ASSUME DeliveryInv, [Next]_vars, [NotLapped]_vars PROVE DeliveryInv'
        OBVIOUS
    <2>1. CASE PruSamples
        <3>1. CASE NotLapped
            BY <2>1, <3>1, PruFollows
        <3>2. CASE UNCHANGED vars
            BY <3>2, BackplaneFollows
        <3> QED BY <3>1, <3>2
    <2> QED
        BY <2>1, BackplaneFollows, SamplesFollow, NotifiesFollow DEF Next
<1> QED BY <1>1, <1>2, PTL DEF Spec

(* "a device that never hears of it keeps exactly the state the reset was  *)
(* there to clear" (qunibusadapter.cpp:1822): no INIT that the PRU has     *)
(* seen is lost, however short it is and whenever it comes.                *)
THEOREM NoInitLost == Spec /\ [][NotLapped]_vars => []InitNotLost
<1>1. DeliveryInv => InitNotLost
    BY CountsInRange DEF DeliveryInv, Delivering, OwedIsPending, CancelPending, InitNotLost
<1> QED BY <1>1, Inductive, PTL

(* With every event answered, adapter and devices go by the PRU's level.   *)
THEOREM LevelsEndEqual == Spec /\ [][NotLapped]_vars => []LevelsAgree
<1>1. DeliveryInv => LevelsAgree
    BY CountsInRange DEF DeliveryInv, Delivering, LevelFollows, DevicesFollow, LevelsAgree,
        RaiseAhead, MidPass, Replays
<1> QED BY <1>1, Inductive, PTL

(* The two properties from the bound on INIT changes alone, as in the runs.*)
THEOREM FewInits ==
    ASSUME MaxInit < EventMod
    PROVE  Spec => [](InitNotLost /\ LevelsAgree)
<1>1. Init => DeliveryInv /\ Counted
    BY StartsRight, CountStarts DEF Init
<1>2. DeliveryInv /\ Counted /\ [Next]_vars => Counted' /\ NotLapped
    <2> SUFFICES ASSUME DeliveryInv, Counted, [Next]_vars PROVE Counted' /\ NotLapped
        OBVIOUS
    <2>1. CASE Backplane
        BY <2>1, CountOfLines DEF Backplane, DeliveryInv, Delivering
    <2>2. CASE PruSamples
        BY <2>2, CountOfPru DEF PruSamples, DeliveryInv, Delivering
    <2>3. CASE WorkerSamples
        BY <2>3, CountOfWorker DEF WorkerSamples, DeliveryInv
    <2>4. CASE WorkerNotifies
        BY <2>4, CountOfWorker DEF WorkerNotifies, DeliveryInv
    <2>5. CASE UNCHANGED vars
        BY <2>5 DEF vars, initVars, signalVars, busVars, Counted, NotLapped
    <2> QED BY <2>1, <2>2, <2>3, <2>4, <2>5 DEF Next
<1>3. DeliveryInv /\ Counted /\ [Next]_vars => DeliveryInv' /\ Counted'
    BY <1>2, BackplaneFollows, PruFollows, SamplesFollow, NotifiesFollow DEF Next
<1>4. DeliveryInv => InitNotLost /\ LevelsAgree
    BY CountsInRange DEF DeliveryInv, Delivering, OwedIsPending, CancelPending, InitNotLost,
        LevelFollows, DevicesFollow, LevelsAgree, RaiseAhead, MidPass, Replays
<1> QED BY <1>1, <1>3, <1>4, PTL DEF Spec
=============================================================================
