---------------------------- MODULE IntrScheduler ---------------------------
(***************************************************************************)
(* The BR4..BR7 (interrupt) levels of the request scheduler in             *)
(* qunibusadapter.cpp against a physical processor: INTR(), cancel_INTR(), *)
(* the completion of transmitted interrupts by worker(), and the PRU that  *)
(* raises BR, takes a grant and puts the vector on the bus.                *)
(*                                                                         *)
(* A request is named by its priority slot. A vector is abstracted to the  *)
(* slot it was pushed for; nobody waits for an interrupt to complete, so   *)
(* intr_request.complete is left out.                                      *)
(***************************************************************************)
EXTENDS InitEvents

CONSTANTS
    IntrSlots,      \* priority slots of interrupt requests
    Levels,         \* level_index values in use, within 0 .. 3 (BR4 .. BR7)
    LevelOf,        \* LevelOf[r]: level_index of request r
    ThreadCancels,  \* requests whose device thread calls cancel_INTR() itself
    ShortInit,      \* an INIT may end before the worker has answered it
    MaxRaise,       \* bound: MaxRaise[r] INTR() calls for r by device threads
    MaxCancel,      \* bound: cancel_INTR() calls by device threads
    MaxAccess       \* bound: register accesses of the processor

ASSUME IntrAssumption ==
    /\ IntrSlots \subseteq Nat
    /\ Levels \subseteq 0 .. 3 /\ Levels # {}
    /\ LevelOf \in [IntrSlots -> Levels]
    /\ ThreadCancels \subseteq IntrSlots /\ ShortInit \in BOOLEAN
    /\ MaxRaise \in [IntrSlots -> Nat] /\ MaxCancel \in Nat /\ MaxAccess \in Nat

None == -1

VARIABLES
    sched,       \* slots with slot_request[] # NULL, of all levels
    act,         \* act[l]: request_levels[l].active
    vec,         \* mailbox->intr.vector[l], as the slot it belongs to
    brReq,       \* levels in sm_arb.device_request_mask
    granted,     \* level in sm_arb.grant_bbsy_ssyn_wait_grant_mask
    master,      \* sm_intr_master: level and vector of the cycle on the bus
    ssyn,        \* the processor has taken that vector
    intrEvt,     \* mailbox->events.intr_master[l]
    regEvt,      \* mailbox->events.deviceregister is not acked
    wLevel, wAhead,                  \* loop level; loop runs ahead of an access
    raises, cancels, accesses,       \* calls so far, for the bounds
    want         \* ghost: raised, and neither delivered nor withdrawn

intrTables == <<sched, act>>
intrPru    == <<vec, brReq, granted, master, ssyn>>
intrWorker == <<wLevel, wAhead>>
counts     == <<raises, cancels, accesses>>
vars == <<initVars, intrTables, intrPru, intrEvt, regEvt, intrWorker, counts, want>>

-----------------------------------------------------------------------------
Lowest(S) == IF S = {} THEN None ELSE CHOOSE x \in S : \A y \in S : x <= y

OfLevel(S, l) == {r \in S : LevelOf[r] = l}

Idle == [level |-> None, slot |-> None]

FirstLevel == Lowest(Levels)
LevelAfter(l) == Lowest({m \in Levels : m > l})

Init ==
    /\ InitSignals
    /\ sched = {} /\ act = [l \in Levels |-> None]
    /\ vec = [l \in Levels |-> None] /\ brReq = {}
    /\ granted = None /\ master = Idle /\ ssyn = FALSE
    /\ intrEvt = [l \in Levels |-> NoEvents] /\ regEvt = FALSE
    /\ wLevel = None /\ wAhead = FALSE
    /\ raises = [r \in IntrSlots |-> 0] /\ cancels = 0 /\ accesses = 0
    /\ want = {}

-----------------------------------------------------------------------------
(* The scheduler, under requests_mutex. rest is what stays in the tables;  *)
(* br is device_request_mask as the caller leaves it.                      *)

(* request_activate_lowest_slot and request_execute_active_on_PRU          *)
ActivateNext(l, rest, br) ==
    LET next == Lowest(OfLevel(rest, l)) IN
    /\ sched' = rest
    /\ act' = [act EXCEPT ![l] = next]
    /\ vec' = IF next = None THEN vec ELSE [vec EXCEPT ![l] = next]
    /\ brReq' = IF next = None THEN br ELSE br \cup {l}

(* the active request keeps its place on the PRU                           *)
NoActivation(rest) == sched' = rest /\ UNCHANGED <<act, vec, brReq>>

(* INTR(): refused while INIT is active; a raise of a request that is      *)
(* already in the tables is not scheduled a second time.                   *)
Refused(r) == bus_init_active \/ r \in sched

RaiseIntr(r) ==
    LET l == LevelOf[r] IN
    IF Refused(r) THEN NoActivation(sched) /\ UNCHANGED want
    ELSE /\ want' = want \cup {r}
         /\ IF act[l] = None THEN ActivateNext(l, sched \cup {r}, brReq)
                             ELSE NoActivation(sched \cup {r})

(* device_request_mask after ARM2PRU_INTR_CANCEL for one level             *)
BrWithout_Kept(l) == brReq                                       \* mutant
BrWithout(l) == brReq \ {l}

CancelIntr_NoRestart(r) ==                                       \* mutant
    want' = want \ {r} /\ NoActivation(sched \ {r})

(* cancel_INTR(); a request that is in no table is left alone              *)
CancelIntr(r) ==
    LET l == LevelOf[r] IN
    /\ want' = want \ {r}
    /\ IF r = act[l] THEN ActivateNext(l, sched \ {r}, BrWithout(l))
                     ELSE NoActivation(sched \ {r})

(* worker_intr_complete_event                                              *)
CompleteIntr(l) == ActivateNext(l, sched \ {act[l]}, brReq)

(* requests_cancel_all: every table and every BR request, not a grant      *)
CancelAll ==
    /\ sched' = {} /\ act' = [l \in Levels |-> None]
    /\ brReq' = {} /\ want' = {}
    /\ UNCHANGED vec

SchedulerUnchanged == UNCHANGED <<intrTables, vec, brReq, want>>

-----------------------------------------------------------------------------
(* Device threads.                                                         *)

OthersOfDevice == UNCHANGED <<initVars, granted, master, ssyn, intrEvt, regEvt,
                              intrWorker, accesses>>

DeviceRaises(r) ==
    /\ raises[r] < MaxRaise[r]
    /\ raises' = [raises EXCEPT ![r] = @ + 1]
    /\ RaiseIntr(r)
    /\ UNCHANGED cancels
    /\ OthersOfDevice

DeviceCancels(r) ==
    /\ r \in ThreadCancels /\ cancels < MaxCancel
    /\ r \in sched
    /\ cancels' = cancels + 1
    /\ CancelIntr(r)
    /\ UNCHANGED raises
    /\ OthersOfDevice

-----------------------------------------------------------------------------
(* worker(): the parts of a pass that InitEvents does not have.            *)

OthersOfWorker == UNCHANGED <<granted, master, ssyn, counts>>

WorkerSamplesInit ==
    /\ WorkerWakes \/ WorkerReadsInitCount \/ WorkerReadsInitLevel
    /\ SchedulerUnchanged
    /\ UNCHANGED <<intrEvt, regEvt, intrWorker>>
    /\ OthersOfWorker

WorkerNotifies ==
    /\ \/ WorkerReplaysFarSide \/ WorkerReplaysNearSide
       \/ WorkerPower("register") \/ WorkerEndsPass
    /\ IF Cancels THEN CancelAll ELSE SchedulerUnchanged
    /\ UNCHANGED <<intrEvt, regEvt, intrWorker>>
    /\ OthersOfWorker

InPass == UNCHANGED <<wRaise, wSeen, lineInit, initReplay, lineDclo, signalVars,
                      irq, busVars>>

(* finished interrupts are older than the access and are taken first       *)
TakesIntrFirst_Never == FALSE                                    \* mutant
TakesIntrFirst == TRUE

(* an access waits for a pending INIT                                      *)
WorkerChecksRegister ==
    /\ wpc = "register"
    /\ LET serves == regEvt /\ IsAcked(initEvt) IN
       /\ wAny' = (wAny \/ serves)
       /\ wAhead' = serves
       /\ wpc' = IF serves /\ ~TakesIntrFirst THEN "access" ELSE "intr"
    /\ wLevel' = FirstLevel
    /\ SchedulerUnchanged
    /\ UNCHANGED <<intrEvt, regEvt>>
    /\ InPass /\ OthersOfWorker

(* on_after_register_access(): the device raises or withdraws one of its   *)
(* requests, or does neither; the cycle goes on with EVENT_ACK.            *)
WorkerServesAccess ==
    /\ wpc = "access"
    /\ \/ SchedulerUnchanged
       \/ \E r \in IntrSlots : RaiseIntr(r)
       \/ \E r \in sched : CancelIntr(r)
    /\ regEvt' = FALSE
    /\ wAhead' = FALSE /\ wLevel' = FirstLevel
    /\ wpc' = "intr"
    /\ UNCHANGED <<wAny, intrEvt>>
    /\ InPass /\ OthersOfWorker

(* worker_intr_complete_events: level by level, EVENT_ACK after the unlock *)
GoesOn == /\ wLevel' = LevelAfter(wLevel)
          /\ wpc' = IF LevelAfter(wLevel) # None THEN "intr"
                    ELSE IF wAhead THEN "access" ELSE "raise"

WorkerSkipsLevel ==
    /\ wpc = "intr" /\ IsAcked(intrEvt[wLevel])
    /\ GoesOn
    /\ SchedulerUnchanged
    /\ UNCHANGED <<wAny, wAhead, intrEvt, regEvt>>
    /\ InPass /\ OthersOfWorker

WorkerTakesIntr ==
    /\ wpc = "intr" /\ ~IsAcked(intrEvt[wLevel])
    /\ CompleteIntr(wLevel)
    /\ wAny' = TRUE /\ wpc' = "intrAck"
    /\ UNCHANGED <<want, intrWorker, intrEvt, regEvt>>
    /\ InPass /\ OthersOfWorker

WorkerAcksIntr ==
    /\ wpc = "intrAck"
    /\ intrEvt' = [intrEvt EXCEPT ![wLevel] = Ack(@)]
    /\ GoesOn
    /\ SchedulerUnchanged
    /\ UNCHANGED <<wAny, wAhead, regEvt>>
    /\ InPass /\ OthersOfWorker

-----------------------------------------------------------------------------
(* The PRU. It arbitrates only while no register access is stretched, and  *)
(* looks at INIT and at the slave side only while it is not bus master.    *)

OthersOfPru == UNCHANGED <<intrTables, vec, intrWorker, counts>>

(* do_event_initializationsignals: INIT voids requests and a taken grant   *)
GrantAfterInit_Held == granted                                   \* mutant
GrantAfterInit == IF busInit THEN None ELSE granted

PruSamples ==
    /\ master = Idle
    /\ ~Sampled \/ (busInit /\ brReq # {})
    /\ PruSignalsChange
    /\ brReq' = IF busInit THEN {} ELSE brReq
    /\ granted' = GrantAfterInit
    /\ UNCHANGED <<master, ssyn, intrEvt, regEvt, want>>
    /\ OthersOfPru

(* the arbitrator grants level l and the PRU asserts SACK                  *)
PruTakesGrant(l) ==
    /\ master = Idle /\ ~regEvt /\ ~initCur /\ ~busInit
    /\ l \in brReq /\ granted = None
    /\ granted' = l /\ brReq' = brReq \ {l}
    /\ UNCHANGED <<initVars, master, ssyn, intrEvt, regEvt, want>>
    /\ OthersOfPru

(* the bus is free: the vector is read out of the mailbox                  *)
PruStartsIntr ==
    /\ master = Idle /\ ~regEvt /\ ~initCur
    /\ granted # None
    /\ master' = [level |-> granted, slot |-> vec[granted]]
    /\ granted' = None /\ ssyn' = FALSE
    /\ UNCHANGED <<initVars, brReq, intrEvt, regEvt, want>>
    /\ OthersOfPru

(* the signal raises an interrupt on the ARM                               *)
IrqAfterSignal_Forgotten == irq                                  \* mutant
IrqAfterSignal == TRUE

(* sm_intr_master_state_2: no signal before the last one was answered      *)
PruSignalsIntr ==
    /\ master # Idle /\ ssyn
    /\ IsAcked(intrEvt[master.level])
    /\ intrEvt' = [intrEvt EXCEPT ![master.level] = Signal(@)]
    /\ irq' = IrqAfterSignal
    /\ master' = Idle /\ ssyn' = FALSE
    /\ UNCHANGED <<workerVars, busVars, signalVars, brReq, granted, regEvt, want>>
    /\ OthersOfPru

(* INIT with no SSYN: the bus is released and nothing is signalled         *)
PruGivesUpIntr ==
    /\ master # Idle /\ ~ssyn /\ busInit
    /\ master' = Idle
    /\ UNCHANGED <<initVars, brReq, granted, ssyn, intrEvt, regEvt, want>>
    /\ OthersOfPru

-----------------------------------------------------------------------------
(* The processor and the backplane (external).                             *)

OthersOfBus == UNCHANGED <<intrTables, vec, brReq, granted, master, intrEvt,
                           intrWorker, raises, cancels>>

ProcessorTakesVector ==
    /\ master # Idle /\ ~ssyn /\ ~busInit
    /\ ssyn' = TRUE
    /\ want' = want \ {master.slot}
    /\ UNCHANGED <<initVars, regEvt, accesses>>
    /\ OthersOfBus

(* an access to an active register; a processor that has granted the bus   *)
(* makes none before the interrupt is through                              *)
ProcessorAccesses ==
    /\ accesses < MaxAccess /\ accesses' = accesses + 1
    /\ ~regEvt /\ granted = None /\ master = Idle /\ ~busInit
    /\ regEvt' = TRUE /\ irq' = TRUE
    /\ UNCHANGED <<workerVars, busVars, signalVars, ssyn, want>>
    /\ OthersOfBus

(* "A processor-driven INIT lasts >= 10 ms": unless ShortInit, it ends     *)
(* only once the worker has answered it. SSYN falls with INIT.             *)
InitLineChanges ==
    /\ ShortInit \/ ~busInit \/ (Sampled /\ IsAcked(initEvt))
    /\ InitChanges
    /\ ssyn' = FALSE
    /\ UNCHANGED <<regEvt, accesses, want>>
    /\ OthersOfBus

-----------------------------------------------------------------------------
DeviceStep == \E r \in IntrSlots : DeviceRaises(r) \/ DeviceCancels(r)

WorkerStep == \/ WorkerSamplesInit \/ WorkerNotifies
              \/ WorkerChecksRegister \/ WorkerServesAccess
              \/ WorkerSkipsLevel \/ WorkerTakesIntr \/ WorkerAcksIntr

Next ==
    \/ DeviceStep
    \/ WorkerStep
    \/ PruSamples \/ (\E l \in Levels : PruTakesGrant(l)) \/ PruStartsIntr
    \/ PruSignalsIntr \/ PruGivesUpIntr
    \/ ProcessorTakesVector \/ ProcessorAccesses \/ InitLineChanges

Spec == Init /\ [][Next]_vars

(* The worker and the PRU keep running; the processor sooner or later      *)
(* lowers its priority, grants each level and fields what it granted.      *)
Fairness ==
    /\ WF_vars(WorkerStep)
    /\ WF_vars(PruSamples) /\ WF_vars(PruStartsIntr)
    /\ WF_vars(PruSignalsIntr) /\ WF_vars(PruGivesUpIntr)
    /\ WF_vars(ProcessorTakesVector)
    /\ \A l \in Levels : SF_vars(PruTakesGrant(l))

FairSpec == Spec /\ Fairness

-----------------------------------------------------------------------------
(* Type invariant of the interrupt tables, the PRU and the worker.         *)
TypeOK ==
    /\ SignalsTypeOK
    /\ sched \subseteq IntrSlots /\ act \in [Levels -> IntrSlots \cup {None}]
    /\ vec \in [Levels -> IntrSlots \cup {None}] /\ brReq \subseteq Levels
    /\ granted \in Levels \cup {None} /\ ssyn \in BOOLEAN
    /\ master \in [level : Levels \cup {None}, slot : IntrSlots \cup {None}]
    /\ intrEvt \in [Levels -> Event] /\ regEvt \in BOOLEAN
    /\ wLevel \in Levels \cup {None} /\ wAhead \in BOOLEAN
    /\ raises \in [IntrSlots -> Nat] /\ cancels \in Nat /\ accesses \in Nat
    /\ want \subseteq IntrSlots

(* The asserts of cancel_INTR() and request_activate_lowest_slot(), per    *)
(* level: "both empty, or both filled", and the active request is in its   *)
(* slot and of its level.                                                  *)
LevelTablesConsistent ==
    \A l \in Levels :
        /\ (act[l] = None) <=> (OfLevel(sched, l) = {})
        /\ act[l] # None => act[l] \in OfLevel(sched, l)

(* What makes the two inductive: the worker's loop names a level.          *)
LoopInRange == wpc \in {"intr", "intrAck"} => wLevel \in Levels
IntrInv == TypeOK /\ LevelTablesConsistent /\ LoopInRange

Bit(b) == IF b THEN 1 ELSE 0

(* what the PRU holds of level l: BR raised, a grant taken, a cycle on the *)
(* bus, a completion the worker has not used yet                           *)
Held(l) == Bit(l \in brReq) + Bit(granted = l) + Bit(master.level = l)
           + ((intrEvt[l].sig - intrEvt[l].ack) % EventMod)
           - Bit(wpc = "intrAck" /\ wLevel = l)

(* No device thread has called cancel_INTR(): requests are withdrawn only  *)
(* by the worker, inside a register access, or by INIT.                    *)
OnlyWorkerCancels == cancels = 0

(* requests_cancel_all(): "the two agree". Unless an INIT is on its way to *)
(* the worker, the PRU holds exactly one interrupt of a level with an      *)
(* active request, with that request's vector, and none of another level.  *)
PruMirrorsTables ==
    OnlyWorkerCancels /\ Sampled /\ IsAcked(initEvt) =>
        \A l \in Levels :
            /\ Held(l) = Bit(act[l] # None)
            /\ l \in brReq \/ granted = l => vec[l] = act[l]
            /\ master.level = l => master.slot = act[l]

(* An interrupt that was accepted and neither delivered nor withdrawn is   *)
(* still in the tables: no completion ever retires another device's.       *)
NoLostInterrupt == OnlyWorkerCancels => want \subseteq sched

(* "After cancelation, ARM receives NO completion event from PRU": so an   *)
(* accepted interrupt is in the tables, or at least still on the PRU.      *)
OnThePru(r) == \/ \E l \in Levels : vec[l] = r /\ (l \in brReq \/ granted = l)
               \/ master.slot = r
StillOnItsWay == \A r \in want : r \in sched \/ OnThePru(r)

(* The processor is never given a vector nobody asks for any more, but for *)
(* an INIT the worker has still to carry out.                              *)
VectorIsWanted ==
    OnlyWorkerCancels /\ master # Idle /\ ~ssyn /\ Sampled /\ IsAcked(initEvt)
        => master.slot \in want

(* Every accepted interrupt is delivered, or withdrawn by its device or by *)
(* INIT, however many requests share its level.                            *)
EveryInterruptServed ==
    \A r \in IntrSlots : r \in want /\ OnlyWorkerCancels
                           ~> r \notin want \/ ~OnlyWorkerCancels
=============================================================================
