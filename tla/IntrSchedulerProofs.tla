------------------------ MODULE IntrSchedulerProofs -------------------------
(***************************************************************************)
(* For every set of requests on any levels and every number of raises,     *)
(* cancels and accesses. Whatever the length of INIT, IntrScheduler keeps  *)
(* its types, and on each level the active request and the slot table      *)
(* agree, as the asserts of cancel_INTR() and                              *)
(* request_activate_lowest_slot() in qunibusadapter.cpp demand. When INIT  *)
(* lasts until the worker has answered it, the PRU holds exactly what the  *)
(* tables say, no accepted interrupt is lost, and no vector is stale.      *)
(***************************************************************************)
EXTENDS IntrScheduler, InitEventsProofs, WellFoundedInduction

(* None is neither a request nor a level.                                  *)
LEMMA NoneIsNone ==
    /\ IntrSlots \subseteq Nat /\ None \notin IntrSlots
    /\ Levels \subseteq Nat /\ None \notin Levels
BY IntrAssumption DEF None

(* __builtin_ffs finds a member of a mask whenever there is one.           *)
LEMMA LowestOf ==
    ASSUME NEW S \in SUBSET Nat
    PROVE  /\ S = {} => Lowest(S) = None
           /\ S # {} => Lowest(S) \in S
<1>1. CASE S = {}
    BY <1>1 DEF Lowest
<1>2. CASE S # {}
    <2>1. \E x \in S : \A y \in S : ~(<<y, x>> \in OpToRel(<, Nat))
        BY <1>2, NatLessThanWellFounded, WFMin
    <2>2. \E x \in S : \A y \in S : ~(y < x)
        BY <2>1 DEF OpToRel
    <2>3. \E x \in S : \A y \in S : x <= y
        BY <2>2
    <2> QED BY <1>2, <2>3 DEF Lowest
<1> QED BY <1>1, <1>2

(* The loop over the levels starts at a level and ends after the last one. *)
LEMMA LoopLevels ==
    /\ FirstLevel \in Levels
    /\ \A l : LevelAfter(l) \in Levels \cup {None}
<1>1. FirstLevel \in Levels
    BY LowestOf, NoneIsNone, IntrAssumption DEF FirstLevel
<1>2. ASSUME NEW l PROVE LevelAfter(l) \in Levels \cup {None}
    <2>1. {m \in Levels : m > l} \in SUBSET Nat
        BY NoneIsNone
    <2> QED BY <2>1, LowestOf DEF LevelAfter
<1> QED BY <1>1, <1>2

-----------------------------------------------------------------------------
(* The part of the invariant that requests_mutex protects, and the rest.   *)
Tables ==
    /\ sched \subseteq IntrSlots /\ act \in [Levels -> IntrSlots \cup {None}]
    /\ vec \in [Levels -> IntrSlots \cup {None}] /\ brReq \subseteq Levels
    /\ want \subseteq IntrSlots
    /\ LevelTablesConsistent

Outside ==
    /\ granted \in Levels \cup {None} /\ ssyn \in BOOLEAN
    /\ master \in [level : Levels \cup {None}, slot : IntrSlots \cup {None}]
    /\ intrEvt \in [Levels -> Event] /\ regEvt \in BOOLEAN
    /\ wLevel \in Levels \cup {None} /\ wAhead \in BOOLEAN
    /\ raises \in [IntrSlots -> Nat] /\ cancels \in Nat /\ accesses \in Nat
    /\ LoopInRange

(* IntrInv is what the lock protects, what it does not, and the signals.   *)
LEMMA InvParts == IntrInv <=> SignalsTypeOK /\ Tables /\ Outside
BY DEF IntrInv, TypeOK, Tables, Outside

(* Nothing is raised and no level is active after power up.                *)
LEMMA InitParts == Init => SignalsTypeOK /\ Tables /\ Outside
<1> SUFFICES ASSUME Init PROVE SignalsTypeOK /\ Tables /\ Outside
    OBVIOUS
<1>1. SignalsTypeOK
    BY InitSignalsType DEF Init
<1>2. Tables
    BY DEF Init, Tables, LevelTablesConsistent, OfLevel
<1>3. wpc = "wait"
    BY DEF Init, InitSignals
<1>4. Outside
    BY <1>3, NoEventsType DEF Init, Outside, Idle, LoopInRange
<1> QED BY <1>1, <1>2, <1>4

(* A step that leaves the scheduler alone keeps the tables.                *)
LEMMA TablesIdle == Tables /\ SchedulerUnchanged => Tables'
BY DEF Tables, SchedulerUnchanged, intrTables, LevelTablesConsistent, OfLevel

(* Activating the lowest slot makes the table and the active request of    *)
(* level l agree, if rest keeps the other levels as they were.             *)
LEMMA ActivationKeepsTables ==
    ASSUME Tables, NEW l \in Levels, NEW rest \in SUBSET IntrSlots,
           NEW br \in SUBSET Levels, want' \in SUBSET IntrSlots,
           \A m \in Levels \ {l} : OfLevel(rest, m) = OfLevel(sched, m),
           ActivateNext(l, rest, br)
    PROVE  Tables'
<1> DEFINE next == Lowest(OfLevel(rest, l))
<1>1. OfLevel(rest, l) \in SUBSET IntrSlots /\ OfLevel(rest, l) \in SUBSET Nat
    BY NoneIsNone DEF OfLevel
<1>2. /\ next \in IntrSlots \cup {None}
      /\ (next = None) <=> (OfLevel(rest, l) = {})
      /\ next # None => next \in OfLevel(rest, l)
    BY <1>1, LowestOf, NoneIsNone
<1> HIDE DEF next
<1>3. /\ sched' = rest /\ act' = [act EXCEPT ![l] = next]
      /\ vec' = IF next = None THEN vec ELSE [vec EXCEPT ![l] = next]
      /\ brReq' = IF next = None THEN br ELSE br \cup {l}
    BY DEF ActivateNext, next
<1>4. \A m \in Levels : act'[m] = IF m = l THEN next ELSE act[m]
    BY <1>3 DEF Tables
<1>5. LevelTablesConsistent'
    <2> SUFFICES ASSUME NEW m \in Levels
                 PROVE  /\ (act'[m] = None) <=> (OfLevel(rest, m) = {})
                        /\ act'[m] # None => act'[m] \in OfLevel(rest, m)
        BY <1>3 DEF LevelTablesConsistent, OfLevel
    <2>1. CASE m = l
        BY <2>1, <1>2, <1>4
    <2>2. CASE m # l
        BY <2>2, <1>4 DEF Tables, LevelTablesConsistent
    <2> QED BY <2>1, <2>2
<1>6. /\ act' \in [Levels -> IntrSlots \cup {None}]
      /\ vec' \in [Levels -> IntrSlots \cup {None}]
      /\ brReq' \subseteq Levels
    BY <1>2, <1>3 DEF Tables
<1> QED BY <1>3, <1>5, <1>6 DEF Tables

(* INTR() keeps the tables, whether the level is busy or idle.             *)
LEMMA RaiseKeepsTables ==
    ASSUME Tables, NEW r \in IntrSlots, RaiseIntr(r)
    PROVE  Tables'
<1>1. LevelOf[r] \in Levels
    BY IntrAssumption
<1>2. CASE Refused(r)
    BY <1>2, TablesIdle DEF RaiseIntr, NoActivation, SchedulerUnchanged, intrTables
<1>3. CASE ~Refused(r) /\ act[LevelOf[r]] = None
    <2>1. want' \in SUBSET IntrSlots
        BY <1>3 DEF RaiseIntr, Tables
    <2>2. ActivateNext(LevelOf[r], sched \cup {r}, brReq)
        BY <1>3 DEF RaiseIntr
    <2>3. \A m \in Levels \ {LevelOf[r]} : OfLevel(sched \cup {r}, m) = OfLevel(sched, m)
        BY DEF OfLevel
    <2> QED BY <1>1, <2>1, <2>2, <2>3, ActivationKeepsTables DEF Tables
<1>4. CASE ~Refused(r) /\ act[LevelOf[r]] # None
    <2>1. /\ want' = want \cup {r} /\ sched' = sched \cup {r}
          /\ UNCHANGED <<act, vec, brReq>>
        BY <1>4 DEF RaiseIntr, NoActivation
    <2>2. LevelTablesConsistent'
        BY <1>1, <1>4, <2>1 DEF Tables, LevelTablesConsistent, OfLevel
    <2> QED BY <2>1, <2>2 DEF Tables
<1> QED BY <1>2, <1>3, <1>4

(* cancel_INTR() of a scheduled request keeps the tables, whether it was   *)
(* the active one or waited behind it.                                     *)
LEMMA CancelKeepsTables ==
    ASSUME Tables, NEW r \in sched, CancelIntr(r)
    PROVE  Tables'
<1>1. r \in IntrSlots /\ LevelOf[r] \in Levels
    BY IntrAssumption DEF Tables
<1>2. want' \in SUBSET IntrSlots
    BY DEF CancelIntr, Tables
<1>3. CASE r = act[LevelOf[r]]
    <2>1. ActivateNext(LevelOf[r], sched \ {r}, BrWithout(LevelOf[r]))
        BY <1>3 DEF CancelIntr
    <2>2. \A m \in Levels \ {LevelOf[r]} : OfLevel(sched \ {r}, m) = OfLevel(sched, m)
        BY DEF OfLevel
    <2>3. BrWithout(LevelOf[r]) \in SUBSET Levels /\ sched \ {r} \in SUBSET IntrSlots
        BY DEF BrWithout, Tables
    <2> QED BY <1>1, <1>2, <2>1, <2>2, <2>3, ActivationKeepsTables
<1>4. CASE r # act[LevelOf[r]]
    <2>1. sched' = sched \ {r} /\ UNCHANGED <<act, vec, brReq>>
        BY <1>4 DEF CancelIntr, NoActivation
    <2>2. LevelTablesConsistent'
        <3> SUFFICES ASSUME NEW m \in Levels
                     PROVE  /\ (act[m] = None) <=> (OfLevel(sched \ {r}, m) = {})
                            /\ act[m] # None => act[m] \in OfLevel(sched \ {r}, m)
            BY <2>1 DEF LevelTablesConsistent, OfLevel
        <3>1. CASE m = LevelOf[r]
            BY <3>1, <1>4 DEF Tables, LevelTablesConsistent, OfLevel
        <3>2. CASE m # LevelOf[r]
            BY <3>2 DEF Tables, LevelTablesConsistent, OfLevel
        <3> QED BY <3>1, <3>2
    <2> QED BY <1>2, <2>1, <2>2 DEF Tables
<1> QED BY <1>3, <1>4

(* worker_intr_complete_event keeps the tables, also when the completion   *)
(* finds no active request.                                                *)
LEMMA CompletionKeepsTables ==
    ASSUME Tables, NEW l \in Levels, CompleteIntr(l), want' \in SUBSET IntrSlots
    PROVE  Tables'
<1>a. act[l] \notin sched \/ LevelOf[act[l]] = l
    <2>1. CASE act[l] = None
        BY <2>1, NoneIsNone DEF Tables
    <2>2. CASE act[l] # None
        BY <2>2 DEF Tables, LevelTablesConsistent, OfLevel
    <2> QED BY <2>1, <2>2
<1>1. \A m \in Levels \ {l} : OfLevel(sched \ {act[l]}, m) = OfLevel(sched, m)
    BY <1>a DEF OfLevel
<1>2. sched \ {act[l]} \in SUBSET IntrSlots /\ brReq \in SUBSET Levels
    BY DEF Tables
<1>3. ActivateNext(l, sched \ {act[l]}, brReq)
    BY DEF CompleteIntr
<1> QED BY <1>1, <1>2, <1>3, ActivationKeepsTables

(* requests_cancel_all leaves every level empty and inactive.              *)
LEMMA CancelAllKeepsTables == Tables /\ CancelAll => Tables'
BY DEF Tables, CancelAll, LevelTablesConsistent, OfLevel

-----------------------------------------------------------------------------
(* One lemma per actor: its steps keep the three parts of the invariant.   *)

(* Device threads: INTR() and cancel_INTR().                               *)
LEMMA DeviceStepKeeps ==
    ASSUME SignalsTypeOK, Tables, Outside, DeviceStep
    PROVE  SignalsTypeOK' /\ Tables' /\ Outside'
<1> PICK r \in IntrSlots : DeviceRaises(r) \/ DeviceCancels(r)
    BY DEF DeviceStep
<1>1. Tables'
    BY RaiseKeepsTables, CancelKeepsTables DEF DeviceRaises, DeviceCancels
<1>2. UNCHANGED initVars /\ UNCHANGED wpc
    BY DEF DeviceRaises, DeviceCancels, OthersOfDevice, initVars, workerVars
<1>3. raises' \in [IntrSlots -> Nat] /\ cancels' \in Nat
    BY DEF DeviceRaises, DeviceCancels, Outside
<1>4. UNCHANGED <<granted, master, ssyn, intrEvt, regEvt, wLevel, wAhead, accesses>>
    BY DEF DeviceRaises, DeviceCancels, OthersOfDevice, intrWorker
<1>5. Outside'
    BY <1>2, <1>3, <1>4 DEF Outside, LoopInRange
<1> QED BY <1>1, <1>2, <1>5, SignalsUnchanged

(* The worker's INIT and power part, with requests_cancel_all.             *)
LEMMA WorkerInitKeeps ==
    ASSUME SignalsTypeOK, Tables, Outside, WorkerSamplesInit \/ WorkerNotifies
    PROVE  SignalsTypeOK' /\ Tables' /\ Outside'
<1>1. SignalsTypeOK'
    BY WorkerSamplesType, WorkerNotifiesType DEF WorkerSamplesInit, WorkerNotifies
<1>2. Tables'
    BY TablesIdle, CancelAllKeepsTables DEF WorkerSamplesInit, WorkerNotifies
<1>3. wpc' \notin {"intr", "intrAck"}
    BY DEF WorkerSamplesInit, WorkerNotifies, WorkerWakes, WorkerReadsInitCount,
           WorkerReadsInitLevel, WorkerReplaysFarSide, WorkerReplaysNearSide,
           WorkerPower, WorkerEndsPass
<1>4. UNCHANGED <<granted, master, ssyn, intrEvt, regEvt, wLevel, wAhead,
                  raises, cancels, accesses>>
    BY DEF WorkerSamplesInit, WorkerNotifies, OthersOfWorker, intrWorker, counts
<1>5. Outside'
    BY <1>3, <1>4 DEF Outside, LoopInRange
<1> QED BY <1>1, <1>2, <1>5

(* a step inside the worker's pass: INIT, DCLO and the PRU stay as they are*)
PassPlace == wpc' \in {"register", "access", "intr", "intrAck", "raise"}

(* A step of the worker's register or interrupt part leaves INIT and DCLO  *)
(* well typed.                                                             *)
LEMMA PassKeepsSignals ==
    ASSUME SignalsTypeOK, InPass, PassPlace, wAny' \in BOOLEAN
    PROVE  SignalsTypeOK'
BY DEF SignalsTypeOK, InPass, PassPlace, signalVars, busVars

(* worker_intr_complete_events goes to the next level, or leaves the       *)
(* loop.                                                                   *)
LEMMA GoesOnInRange ==
    GoesOn => PassPlace /\ wLevel' \in Levels \cup {None} /\ LoopInRange'
BY LoopLevels DEF GoesOn, PassPlace, LoopInRange

(* The worker's register and interrupt part.                               *)
LEMMA WorkerPassKeeps ==
    ASSUME SignalsTypeOK, Tables, Outside,
           \/ WorkerChecksRegister \/ WorkerServesAccess
           \/ WorkerSkipsLevel \/ WorkerTakesIntr \/ WorkerAcksIntr
    PROVE  SignalsTypeOK' /\ Tables' /\ Outside'
<1>1. InPass /\ UNCHANGED <<granted, master, ssyn, raises, cancels, accesses>>
    BY DEF WorkerChecksRegister, WorkerServesAccess, WorkerSkipsLevel,
           WorkerTakesIntr, WorkerAcksIntr, OthersOfWorker, counts
<1>2. CASE WorkerChecksRegister
    <2>1. PassPlace /\ wAny' \in BOOLEAN /\ wAhead' \in BOOLEAN
        BY <1>2 DEF WorkerChecksRegister, PassPlace, SignalsTypeOK, Outside, IsAcked
    <2>2. wLevel' \in Levels /\ UNCHANGED <<intrEvt, regEvt>>
        BY <1>2, LoopLevels DEF WorkerChecksRegister
    <2>3. Tables'
        BY <1>2, TablesIdle DEF WorkerChecksRegister
    <2> QED BY <1>1, <2>1, <2>2, <2>3, PassKeepsSignals DEF Outside, LoopInRange
<1>3. CASE WorkerServesAccess
    <2>1. PassPlace /\ wAny' \in BOOLEAN
        BY <1>3 DEF WorkerServesAccess, PassPlace, SignalsTypeOK
    <2>2. /\ wLevel' \in Levels /\ wAhead' \in BOOLEAN /\ regEvt' \in BOOLEAN
          /\ UNCHANGED intrEvt
        BY <1>3, LoopLevels DEF WorkerServesAccess
    <2>3. Tables'
        BY <1>3, TablesIdle, RaiseKeepsTables, CancelKeepsTables DEF WorkerServesAccess
    <2> QED BY <1>1, <2>1, <2>2, <2>3, PassKeepsSignals DEF Outside, LoopInRange
<1>4. CASE WorkerSkipsLevel
    <2>1. GoesOn /\ UNCHANGED <<wAny, wAhead, intrEvt, regEvt>>
        BY <1>4 DEF WorkerSkipsLevel
    <2>2. Tables'
        BY <1>4, TablesIdle DEF WorkerSkipsLevel
    <2>3. wAny' \in BOOLEAN
        BY <2>1 DEF SignalsTypeOK
    <2> QED BY <1>1, <2>1, <2>2, <2>3, GoesOnInRange, PassKeepsSignals DEF Outside
<1>5. CASE WorkerTakesIntr
    <2>1. /\ wpc = "intr" /\ wpc' = "intrAck" /\ wAny' = TRUE
          /\ UNCHANGED <<want, wLevel, wAhead, intrEvt, regEvt>>
        BY <1>5 DEF WorkerTakesIntr, intrWorker
    <2>2. wLevel \in Levels
        BY <2>1 DEF Outside, LoopInRange
    <2>3. Tables'
        BY <1>5, <2>1, <2>2, CompletionKeepsTables DEF WorkerTakesIntr, Tables
    <2> QED BY <1>1, <2>1, <2>2, <2>3, PassKeepsSignals DEF Outside, LoopInRange, PassPlace
<1>6. CASE WorkerAcksIntr
    <2>1. /\ wpc = "intrAck" /\ GoesOn /\ UNCHANGED <<wAny, wAhead, regEvt>>
          /\ intrEvt' = [intrEvt EXCEPT ![wLevel] = Ack(intrEvt[wLevel])]
        BY <1>6 DEF WorkerAcksIntr
    <2>2. wLevel \in Levels
        BY <2>1 DEF Outside, LoopInRange
    <2>3. intrEvt' \in [Levels -> Event]
        <3>1. Ack(intrEvt[wLevel]) \in Event
            BY <2>2, EventCounters DEF Outside
        <3> QED BY <2>1, <3>1 DEF Outside
    <2>4. Tables'
        BY <1>6, TablesIdle DEF WorkerAcksIntr
    <2>5. wAny' \in BOOLEAN
        BY <2>1 DEF SignalsTypeOK
    <2> QED BY <1>1, <2>1, <2>3, <2>4, <2>5, GoesOnInRange, PassKeepsSignals DEF Outside
<1> QED BY <1>2, <1>3, <1>4, <1>5, <1>6

(* The PRU, the processor and the backplane.                               *)
BusStep ==
    \/ PruSamples \/ (\E l \in Levels : PruTakesGrant(l)) \/ PruStartsIntr
    \/ PruSignalsIntr \/ PruGivesUpIntr
    \/ ProcessorTakesVector \/ ProcessorAccesses \/ InitLineChanges

(* No step on the bus moves the worker, and INIT and DCLO keep their       *)
(* types.                                                                  *)
LEMMA BusKeepsSignals ==
    ASSUME SignalsTypeOK, BusStep
    PROVE  SignalsTypeOK' /\ UNCHANGED wpc
<1>1. CASE PruSamples
    BY <1>1, PruSignalsType DEF PruSamples, PruSignalsChange, workerVars
<1>2. CASE InitLineChanges
    BY <1>2, BackplaneType DEF InitLineChanges, InitChanges, workerVars
<1>3. CASE PruSignalsIntr \/ ProcessorAccesses
    <2>1. irq' \in BOOLEAN /\ UNCHANGED <<workerVars, busVars, signalVars>>
        BY <1>3 DEF PruSignalsIntr, ProcessorAccesses, IrqAfterSignal
    <2> QED BY <2>1 DEF SignalsTypeOK, workerVars, busVars, signalVars
<1>4. CASE \/ \E l \in Levels : PruTakesGrant(l)
           \/ PruStartsIntr \/ PruGivesUpIntr \/ ProcessorTakesVector
    <2>1. UNCHANGED initVars
        BY <1>4 DEF PruTakesGrant, PruStartsIntr, PruGivesUpIntr, ProcessorTakesVector
    <2> QED BY <2>1, SignalsUnchanged DEF initVars, workerVars
<1> QED BY <1>1, <1>2, <1>3, <1>4 DEF BusStep

(* The PRU and the processor only ever take away BR requests and wishes;   *)
(* the tables on the ARM stay as they are.                                 *)
LEMMA BusKeepsTables ==
    ASSUME Tables, BusStep
    PROVE  Tables'
<1>1. UNCHANGED <<sched, act, vec>> /\ brReq' \subseteq brReq /\ want' \subseteq want
    BY DEF BusStep, PruSamples, PruTakesGrant, PruStartsIntr, PruSignalsIntr,
           PruGivesUpIntr, ProcessorTakesVector, ProcessorAccesses,
           InitLineChanges, OthersOfPru, OthersOfBus, intrTables
<1> QED BY <1>1 DEF Tables, LevelTablesConsistent, OfLevel

(* The PRU's grant, cycle and counters keep their types on every bus       *)
(* step.                                                                   *)
LEMMA BusKeepsOutside ==
    ASSUME Tables, Outside, BusStep, UNCHANGED wpc
    PROVE  Outside'
<1>1. UNCHANGED <<wLevel, wAhead, raises, cancels>>
    BY DEF BusStep, PruSamples, PruTakesGrant, PruStartsIntr, PruSignalsIntr,
           PruGivesUpIntr, ProcessorTakesVector, ProcessorAccesses,
           InitLineChanges, OthersOfPru, OthersOfBus, intrWorker, counts
<1>2. granted' \in Levels \cup {None} /\ ssyn' \in BOOLEAN
    BY DEF BusStep, PruSamples, PruTakesGrant, PruStartsIntr, PruSignalsIntr,
           PruGivesUpIntr, ProcessorTakesVector, ProcessorAccesses,
           InitLineChanges, OthersOfBus, GrantAfterInit, Outside
<1>3. master' \in [level : Levels \cup {None}, slot : IntrSlots \cup {None}]
    <2> DEFINE Cycles == [level : Levels \cup {None}, slot : IntrSlots \cup {None}]
    <2>1. Idle \in Cycles /\ master \in Cycles
        BY DEF Idle, Outside
    <2>2. CASE PruStartsIntr
        <3>1. granted \in Levels /\ vec[granted] \in IntrSlots \cup {None}
            BY <2>2 DEF PruStartsIntr, Outside, Tables
        <3> QED BY <2>2, <3>1 DEF PruStartsIntr
    <2>3. CASE ~PruStartsIntr
        <3>1. master' = master \/ master' = Idle
            BY <2>3 DEF BusStep, PruSamples, PruTakesGrant, PruSignalsIntr,
               PruGivesUpIntr, ProcessorTakesVector, ProcessorAccesses,
               InitLineChanges, OthersOfBus
        <3> QED BY <2>1, <3>1
    <2> QED BY <2>2, <2>3
<1>4. regEvt' \in BOOLEAN /\ accesses' \in Nat
    <2>1. \/ UNCHANGED <<regEvt, accesses>>
          \/ regEvt' = TRUE /\ accesses' = accesses + 1
        BY DEF BusStep, PruSamples, PruTakesGrant, PruStartsIntr, PruSignalsIntr,
               PruGivesUpIntr, ProcessorTakesVector, ProcessorAccesses,
               InitLineChanges, OthersOfPru, counts
    <2>2. accesses' \in Nat
        BY <2>1 DEF Outside
    <2>3. regEvt' \in BOOLEAN
        BY <2>1, Zenon DEF Outside
    <2> QED BY <2>2, <2>3
<1>5. intrEvt' \in [Levels -> Event]
    <2>1. CASE PruSignalsIntr
        <3>1. intrEvt' = [intrEvt EXCEPT ![master.level] = Signal(intrEvt[master.level])]
            BY <2>1 DEF PruSignalsIntr
        <3>2. CASE master.level \in Levels
            BY <3>1, <3>2, EventCounters DEF Outside
        <3>3. CASE master.level \notin Levels
            BY <3>1, <3>3 DEF Outside
        <3> QED BY <3>2, <3>3
    <2>2. CASE ~PruSignalsIntr
        BY <2>2 DEF BusStep, PruSamples, PruTakesGrant, PruStartsIntr, PruGivesUpIntr,
           ProcessorTakesVector, ProcessorAccesses, InitLineChanges, OthersOfBus, Outside
    <2> QED BY <2>1, <2>2
<1> QED BY <1>1, <1>2, <1>3, <1>4, <1>5 DEF Outside, LoopInRange

-----------------------------------------------------------------------------
(* IntrInv is inductive: raises, cancels, accesses, worker passes, PRU     *)
(* turns and INIT in any order preserve it.                                *)
THEOREM Inductive == Spec => []IntrInv
<1>1. Init => IntrInv
    BY InitParts, InvParts
<1>2. IntrInv /\ [Next]_vars => IntrInv'
    <2>a. IntrInv' <=> SignalsTypeOK' /\ Tables' /\ Outside'
        BY InvParts, PTL
    <2> SUFFICES ASSUME SignalsTypeOK, Tables, Outside, [Next]_vars
                 PROVE  SignalsTypeOK' /\ Tables' /\ Outside'
        BY <2>a, InvParts
    <2>1. CASE DeviceStep
        BY <2>1, DeviceStepKeeps
    <2>2. CASE WorkerStep
        BY <2>2, WorkerInitKeeps, WorkerPassKeeps DEF WorkerStep
    <2>3. CASE BusStep
        BY <2>3, BusKeepsSignals, BusKeepsTables, BusKeepsOutside
    <2>4. CASE UNCHANGED vars
        <3>1. Tables'
            BY <2>4, TablesIdle DEF vars, intrPru, SchedulerUnchanged
        <3>2. Outside'
            BY <2>4 DEF vars, initVars, workerVars, intrPru, intrWorker, counts,
                        Outside, LoopInRange
        <3> QED BY <2>4, <3>1, <3>2, SignalsUnchanged DEF vars
    <2> QED BY <2>1, <2>2, <2>3, <2>4 DEF Next, BusStep
<1> QED BY <1>1, <1>2, PTL DEF Spec

(* Every variable of the interrupt scheduler, the worker and the PRU keeps *)
(* its type.                                                               *)
THEOREM TypesHold == Spec => []TypeOK
<1>1. IntrInv => TypeOK
    BY DEF IntrInv
<1> QED BY <1>1, Inductive, PTL

(* "both empty, or both filled": on every level the active request and the *)
(* slot table agree, whatever cancels, completions and INIT do to them.    *)
THEOREM LevelsConsistent == Spec => []LevelTablesConsistent
<1>1. IntrInv => LevelTablesConsistent
    BY DEF IntrInv
<1> QED BY <1>1, Inductive, PTL
-----------------------------------------------------------------------------
(***************************************************************************)
(* The PRU mirrors the tables. What follows assumes that an INIT lasts     *)
(* until the worker has answered it, and counters of more than two states. *)
(***************************************************************************)
LongInit == ~ShortInit /\ EventMod > 2

Inside == wpc \in {"power", "register", "intr", "intrAck", "access", "raise"}
Replaying == wpc \in {"replay1", "replay2"}
Raising == Inside /\ wRaise

(* How the INIT line, the PRU's sample, the pending signals and the level  *)
(* of the worker belong together.                                          *)
InitPhases ==
    /\ Pending(initEvt) <= 2
    /\ initReplay <=> Replaying
    /\ ~bus_init_active => /\ Pending(initEvt) = Bit(initCur)
                           /\ initCur => busInit
    /\ bus_init_active /\ Pending(initEvt) = 0 => initCur /\ lineInit
    /\ bus_init_active /\ ~initCur => Pending(initEvt) = 1 /\ lineInit
    /\ Pending(initEvt) = 2 => bus_init_active /\ initCur
    /\ Pending(initEvt) > 0 /\ initCur => busInit
    /\ Raising => lineInit /\ initCur /\ Pending(initEvt) = 1
    /\ Replaying => initCur /\ ~wRaise /\ (lineInit <=> wpc = "replay2")

(* The count the worker reads before the level.                            *)
CountRead ==
    wpc = "level" \/ Replaying =>
        /\ 0 < Ahead(wSeen, initEvt) /\ Ahead(wSeen, initEvt) <= Pending(initEvt)
        /\ Pending(initEvt) <= Ahead(wSeen, initEvt) + 1

(* There is no DCLO on this bus.                                           *)
NoPower == ~busDclo /\ ~dcloCur /\ IsAcked(powEvt)

(* A completion of level l that no one has used yet.                       *)
Done(l) == ~IsAcked(intrEvt[l]) /\ ~(wpc = "intrAck" /\ wLevel = l)
OnPru(l) == l \in brReq \/ granted = l \/ master.level = l
Delivered(l) == Done(l) \/ (master.level = l /\ ssyn)

(* Each level has at most one place on the PRU, and it is the active       *)
(* request's.                                                              *)
OnePlace ==
    \A l \in Levels :
        /\ Pending(intrEvt[l]) <= 1
        /\ l \in brReq => granted # l /\ master.level # l /\ ~Done(l)
        /\ granted = l => master.level # l /\ ~Done(l)
        /\ master.level = l => ~Done(l)
        /\ OnPru(l) \/ Done(l) => act[l] # None
        /\ l \in brReq \/ granted = l => vec[l] = act[l]
        /\ master.level = l => master.slot = act[l]
        /\ wpc = "intrAck" /\ wLevel = l => ~IsAcked(intrEvt[l])

(* Wishes are in the tables, and a delivered one is no wish any more.      *)
WishesKept ==
    /\ want \subseteq sched
    /\ \A l \in Levels : Delivered(l) => act[l] \notin want

(* No INIT: every active request has its place, and only a delivered       *)
(* request is in the tables without a wish for it.                         *)
Quiet == ~bus_init_active /\ ~busInit /\ ~initCur
QuietMirror ==
    Quiet => /\ \A l \in Levels : act[l] # None => OnPru(l) \/ Done(l)
             /\ \A r \in sched : r \in want \/ (r = act[LevelOf[r]] /\ Delivered(LevelOf[r]))

(* An INIT that the worker has carried out.                                *)
NothingLeft ==
    /\ sched = {} /\ want = {} /\ brReq = {} /\ granted = None /\ master = Idle
    /\ \A l \in Levels : act[l] = None /\ IsAcked(intrEvt[l])
CarriedOut == bus_init_active /\ ~Raising => NothingLeft

(* The bus: no cycle under a sampled INIT or during a register access.     *)
BusFree ==
    /\ (busInit /\ initCur) \/ regEvt => granted = None /\ master = Idle
    /\ ssyn => ~busInit
    /\ master.level = None => master = Idle

(* The loop has dealt with the levels behind it, when nothing can be added.*)
LoopDone ==
    /\ wAhead => regEvt /\ wpc \in {"intr", "intrAck", "access"}
    /\ wpc = "access" => wAhead
    /\ wAhead \/ Raising =>
         \A l \in Levels :
            \/ wpc \in {"intr", "intrAck"} /\ l < wLevel
            \/ wpc \in {"access", "raise"}
            => IsAcked(intrEvt[l])

Mirror == OnePlace /\ WishesKept /\ QuietMirror /\ CarriedOut /\ BusFree /\ LoopDone
MirrorInv == InitPhases /\ CountRead /\ NoPower /\ (cancels = 0 => Mirror)


-----------------------------------------------------------------------------
(* The signals: first what a step must leave alone.                        *)
phaseVars == <<wRaise, wSeen, lineInit, initReplay, initEvt, initCur, busInit,
               powEvt, dcloCur, busDclo>>
Phases == InitPhases /\ CountRead /\ NoPower

(* The worker's way through a pass does not touch the signals.             *)
LEMMA PhasesIdle ==
    ASSUME Phases, UNCHANGED phaseVars,
           \/ wpc' = wpc
           \/ Inside /\ wpc' \in {"register", "intr", "intrAck", "access", "raise"}
           \/ wpc = "wait" /\ wpc' = "init"
           \/ wpc = "raise" /\ wpc' \in {"init", "wait"} /\ ~wRaise
    PROVE  Phases'
BY DEF Phases, phaseVars, InitPhases, CountRead, NoPower, Inside, Replaying, Raising,
       bus_init_active, Bit, Pending, Ahead, IsAcked

(* The counts of the INIT event.                                           *)
LEMMA InitCounts ==
    ASSUME SignalsTypeOK, LongInit
    PROVE  /\ initEvt \in Event /\ wSeen \in Counter /\ EventMod \in Nat /\ EventMod > 2
           /\ Pending(initEvt) \in Nat /\ Pending(initEvt) < EventMod
           /\ Pending(initEvt) = 0 <=> IsAcked(initEvt)
           /\ Ahead(wSeen, initEvt) \in Nat
           /\ Ahead(wSeen, initEvt) = Pending(initEvt) <=> wSeen = initEvt.sig
BY PendingCount, SignalAssumption DEF SignalsTypeOK, LongInit

(* The backplane changes INIT: off only when it has been answered.         *)
LEMMA LinePhases ==
    ASSUME SignalsTypeOK, LongInit, Phases, InitLineChanges
    PROVE  Phases'
<1>1. /\ UNCHANGED <<wpc, wRaise, wSeen, lineInit, initReplay, initEvt, initCur,
                     powEvt, dcloCur, busDclo>>
      /\ busInit' = ~busInit /\ (~busInit \/ (Sampled /\ IsAcked(initEvt)))
    BY DEF InitLineChanges, InitChanges, workerVars, signalVars, LongInit
<1>2. busInit => initCur /\ Pending(initEvt) = 0
    BY <1>1, InitCounts DEF Sampled
<1>3. InitPhases'
    BY <1>1, <1>2, InitCounts DEF Phases, InitPhases, Inside, Replaying, Raising, bus_init_active,
        Bit, Pending
<1>4. CountRead' /\ NoPower'
    BY <1>1 DEF Phases, CountRead, NoPower, Replaying, Pending, Ahead, IsAcked
<1> QED BY <1>3, <1>4 DEF Phases

(* The PRU samples it.                                                     *)
LEMMA PruPhases ==
    ASSUME SignalsTypeOK, LongInit, Phases, PruSamples
    PROVE  Phases'
<1>1. /\ UNCHANGED <<wpc, wRaise, wSeen, lineInit, initReplay, busInit, busDclo>>
      /\ initCur' = busInit /\ dcloCur' = busDclo
      /\ initEvt' = IF initCur # busInit THEN Signal(initEvt) ELSE initEvt
      /\ powEvt' = IF dcloCur # busDclo THEN Signal(powEvt) ELSE powEvt
    BY DEF PruSamples, PruSignalsChange, workerVars, busVars
<1>2. dcloCur = FALSE /\ busDclo = FALSE
    BY DEF Phases, NoPower, SignalsTypeOK
<1>3. NoPower'
    BY <1>1, <1>2 DEF Phases, NoPower
<1>4. CASE initCur = busInit
    <2>1. UNCHANGED <<initCur, initEvt>>
        BY <1>1, <1>4
    <2> QED BY <1>1, <1>3, <2>1 DEF Phases, InitPhases, CountRead, Inside, Replaying, Raising,
            bus_init_active, Bit, Pending, Ahead
<1>5. CASE initCur # busInit
    <2> DEFINE p == Pending(initEvt)
    <2>1. initEvt' = Signal(initEvt)
        BY <1>1, <1>5
    <2>2. p \in {0, 1} /\ (initCur => p = 0) /\ p + 1 < EventMod
        BY <1>5, InitCounts DEF Phases, InitPhases, SignalsTypeOK
    <2>3. Pending(initEvt') = p + 1 /\ Ahead(wSeen', initEvt') = Ahead(wSeen, initEvt)
        BY <1>1, <2>1, <2>2, InitCounts, PendingSignal DEF Ahead
    <2> HIDE DEF p
    <2>a. wpc' = wpc /\ lineInit' = lineInit /\ initReplay' = initReplay /\ wRaise' = wRaise
        BY <1>1
    <2>4. CASE initCur /\ ~busInit
        <3>1. p = 0 /\ ~Raising /\ ~Replaying /\ wpc # "level" /\ bus_init_active /\ lineInit
            BY <2>2, <2>4, InitCounts DEF Phases, InitPhases, CountRead, Bit, p
        <3>a. initCur' = FALSE
            BY <1>1, <2>4 DEF SignalsTypeOK
        <3>b. Pending(initEvt)' = 1
            BY <2>3, <3>1 DEF Pending
        <3>2. initCur' = FALSE /\ Pending(initEvt)' = 1
            BY <3>a, <3>b
        <3>3. /\ ~Raising' /\ ~Replaying' /\ wpc' # "level" /\ bus_init_active' /\ lineInit'
            BY <2>a, <3>1 DEF Raising, Inside, Replaying, bus_init_active
        <3>4. ~initReplay'
            BY <2>a, <3>1 DEF Phases, InitPhases
        <3> HIDE DEF p
        <3>5. InitPhases'
            BY <3>2, <3>3, <3>4 DEF InitPhases
        <3>6. CountRead'
            BY <3>3 DEF CountRead
        <3> QED BY <1>3, <3>5, <3>6 DEF Phases
    <2>5. CASE ~initCur /\ busInit
        <3>1. /\ ~Raising /\ ~Replaying
              /\ bus_init_active => p = 1 /\ lineInit
              /\ ~bus_init_active => p = 0
            BY <2>2, <2>5, InitCounts DEF Phases, InitPhases, Bit, p
        <3>2. /\ initCur' = TRUE /\ busInit' = TRUE
              /\ Pending(initEvt)' = p + 1 /\ Ahead(wSeen, initEvt)' = Ahead(wSeen, initEvt)
            BY <1>1, <2>2, <2>3, <2>5 DEF SignalsTypeOK, Pending, Ahead
        <3>3. /\ ~Raising' /\ ~Replaying' /\ bus_init_active' = bus_init_active
            BY <2>a, <3>1 DEF Raising, Inside, Replaying, bus_init_active
        <3>4. ~initReplay'
            BY <2>a, <3>1 DEF Phases, InitPhases
        <3>5. InitPhases'
            BY <2>a, <2>2, <3>1, <3>2, <3>3, <3>4 DEF InitPhases, Bit
        <3>6. CountRead'
            <4>1. SUFFICES ASSUME wpc = "level"
                  PROVE /\ 0 < Ahead(wSeen, initEvt) /\ Ahead(wSeen, initEvt) <= p + 1
                        /\ p + 1 <= Ahead(wSeen, initEvt) + 1
                BY <2>a, <3>2, <3>3 DEF CountRead
            <4>2. 0 < Ahead(wSeen, initEvt) /\ Ahead(wSeen, initEvt) <= p
                BY <4>1 DEF Phases, CountRead, p
            <4> QED BY <4>2, <2>2, InitCounts
        <3> QED BY <1>3, <3>5, <3>6 DEF Phases
    <2> QED BY <1>5, <2>4, <2>5 DEF SignalsTypeOK
<1> QED BY <1>4, <1>5

(* The worker reads count and level.                                       *)
LEMMA SamplePhases ==
    ASSUME SignalsTypeOK, LongInit, Phases, WorkerSamplesInit
    PROVE  Phases'
<1>1. CASE WorkerWakes
    BY <1>1, PhasesIdle DEF WorkerWakes, phaseVars, signalVars, busVars
<1>2. CASE WorkerReadsInitCount
    <2>1. /\ wpc = "init" /\ wpc' = IF IsAcked(initEvt) THEN "power" ELSE "level"
          /\ wSeen' = initEvt.sig /\ wRaise' = FALSE
          /\ UNCHANGED <<lineInit, initReplay, initEvt, initCur, busInit, powEvt, dcloCur, busDclo>>
        BY <1>2 DEF WorkerReadsInitCount, signalVars, busVars
    <2>2. Ahead(wSeen', initEvt') = Pending(initEvt)
        BY <2>1 DEF Ahead, Pending
    <2>3. CountRead'
        BY <2>1, <2>2, InitCounts DEF CountRead, Replaying, Pending
    <2>4. InitPhases' /\ NoPower'
        BY <2>1 DEF Phases, InitPhases, NoPower, Inside, Replaying, Raising, bus_init_active,
            Bit, Pending, IsAcked
    <2> QED BY <2>3, <2>4 DEF Phases
<1>3. CASE WorkerReadsInitLevel
    <2>1. /\ wpc = "level" /\ wpc' = IF initCur = lineInit THEN "replay1" ELSE "power"
          /\ lineInit' = IF initCur = lineInit THEN ~initCur ELSE initCur
          /\ initReplay' = (initCur = lineInit)
          /\ wRaise' = (initCur /\ initCur # lineInit)
          /\ initEvt' = IF initCur \/ initCur = lineInit THEN initEvt ELSE Ack(initEvt)
          /\ UNCHANGED <<wSeen, initCur, busInit, powEvt, dcloCur, busDclo>>
        BY <1>3 DEF WorkerReadsInitLevel, IsPulse, signalVars, busVars
    <2>2. Pending(initEvt) > 0 /\ Ahead(wSeen, initEvt) > 0 /\ ~initReplay
        BY <2>1, InitCounts DEF Phases, CountRead, InitPhases, Replaying
    <2>3. NoPower'
        BY <2>1 DEF Phases, NoPower, IsAcked
    <2>4. CASE initCur /\ lineInit
        <3>1. /\ wpc' = "replay1" /\ lineInit' = FALSE /\ initReplay' = TRUE /\ wRaise' = FALSE
              /\ initEvt' = initEvt
            BY <2>1, <2>4 DEF SignalsTypeOK
        <3> QED BY <2>1, <2>2, <2>3, <2>4, <3>1 DEF Phases, InitPhases, CountRead, Inside,
                Replaying, Raising, bus_init_active, Bit, Pending, Ahead
    <2>5. CASE initCur /\ ~lineInit
        <3>1. /\ wpc' = "power" /\ lineInit' = TRUE /\ initReplay' = FALSE /\ wRaise' = TRUE
              /\ initEvt' = initEvt
            BY <2>1, <2>5 DEF SignalsTypeOK
        <3> QED BY <2>1, <2>2, <2>3, <2>5, <3>1 DEF Phases, InitPhases, CountRead, Inside,
                Replaying, Raising, bus_init_active, Bit, Pending, Ahead
    <2>6. CASE ~initCur /\ lineInit
        <3>1. /\ wpc' = "power" /\ lineInit' = FALSE /\ initReplay' = FALSE /\ wRaise' = FALSE
              /\ initEvt' = Ack(initEvt)
            BY <2>1, <2>6 DEF SignalsTypeOK
        <3>2. Pending(initEvt) = 1
            BY <2>2, <2>6 DEF Phases, InitPhases, bus_init_active
        <3>3. Pending(initEvt') = 0
            BY <3>1, <3>2, InitCounts, PendingAck
        <3>4. /\ ~Raising' /\ ~Replaying' /\ wpc' # "level" /\ ~bus_init_active'
              /\ ~initCur' /\ ~initReplay' /\ Pending(initEvt)' = 0
            BY <2>1, <2>6, <3>1, <3>3 DEF Raising, Inside, Replaying, bus_init_active, Pending
        <3>5. InitPhases'
            BY <3>4 DEF InitPhases, Bit
        <3>6. CountRead'
            BY <3>4 DEF CountRead
        <3> QED BY <2>3, <3>5, <3>6 DEF Phases
    <2>7. ~(~initCur /\ ~lineInit)
        BY <2>2 DEF Phases, InitPhases, bus_init_active, Bit
    <2> QED BY <2>4, <2>5, <2>6, <2>7
<1> QED BY <1>1, <1>2, <1>3 DEF WorkerSamplesInit

(* The worker plays a pulse out, passes the power part and ends the pass.  *)
LEMMA NotifyPhases ==
    ASSUME SignalsTypeOK, LongInit, Phases, WorkerNotifies
    PROVE  Phases'
<1>1. CASE WorkerReplaysFarSide
    <2>1. /\ wpc = "replay1" /\ wpc' = "replay2" /\ lineInit' = ~lineInit
          /\ UNCHANGED <<wRaise, wSeen, initReplay, initEvt, initCur, busInit, powEvt, dcloCur, busDclo>>
        BY <1>1 DEF WorkerReplaysFarSide, signalVars, busVars
    <2>2. lineInit' = TRUE /\ initReplay' = TRUE /\ initReplay = TRUE /\ initCur
        BY <2>1 DEF Phases, InitPhases, Replaying, SignalsTypeOK
    <2> QED BY <2>1, <2>2 DEF Phases, InitPhases, CountRead, NoPower, Inside, Replaying, Raising,
            bus_init_active, Bit, Pending, Ahead, IsAcked
<1>2. CASE WorkerReplaysNearSide
    <2>1. /\ wpc = "replay2" /\ wpc' = "power" /\ initReplay' = FALSE
          /\ initEvt' = [initEvt EXCEPT !.ack = wSeen]
          /\ UNCHANGED <<wRaise, wSeen, lineInit, initCur, busInit, powEvt, dcloCur, busDclo>>
        BY <1>2 DEF WorkerReplaysNearSide, PulseAck, busVars
    <2>2. Pending(initEvt') \in {0, 1}
        BY <2>1, InitCounts, PendingUpTo DEF Phases, CountRead, Replaying
    <2>3. lineInit /\ initCur /\ ~wRaise /\ busInit
        BY <2>1, InitCounts DEF Phases, InitPhases, CountRead, Replaying
    <2> QED BY <2>1, <2>2, <2>3 DEF Phases, InitPhases, CountRead, NoPower, Inside, Replaying,
            Raising, bus_init_active, Bit, IsAcked
<1>3. CASE WorkerPower("register")
    <2>1. wpc = "power" /\ wpc' = "register" /\ UNCHANGED phaseVars
        BY <1>3 DEF WorkerPower, phaseVars, busVars, Phases, NoPower
    <2> QED BY <2>1, PhasesIdle DEF Inside
<1>4. CASE WorkerEndsPass /\ wRaise
    <2>1. /\ wpc = "raise" /\ wpc' \in {"init", "wait"} /\ initEvt' = Ack(initEvt)
          /\ UNCHANGED <<wRaise, wSeen, lineInit, initReplay, initCur, busInit, powEvt, dcloCur, busDclo>>
        BY <1>4 DEF WorkerEndsPass, busVars
    <2>2. lineInit /\ initCur /\ Pending(initEvt) = 1
        BY <1>4, <2>1 DEF Phases, InitPhases, Raising, Inside
    <2>3. Pending(initEvt') = 0
        BY <2>1, <2>2, InitCounts, PendingAck
    <2> QED BY <2>1, <2>2, <2>3 DEF Phases, InitPhases, CountRead, NoPower, Inside, Replaying,
            Raising, bus_init_active, Bit, IsAcked
<1>5. CASE WorkerEndsPass /\ ~wRaise
    <2>1. wpc = "raise" /\ wpc' \in {"init", "wait"} /\ UNCHANGED phaseVars
        BY <1>5 DEF WorkerEndsPass, phaseVars, busVars
    <2> QED BY <1>5, <2>1, PhasesIdle
<1> QED BY <1>1, <1>2, <1>3, <1>4, <1>5 DEF WorkerNotifies

(* Every step keeps the phases of INIT.                                    *)
LEMMA PhasesKept ==
    ASSUME IntrInv, LongInit, Phases, [Next]_vars
    PROVE  Phases'
<1> SignalsTypeOK
    BY DEF IntrInv, TypeOK
<1>1. CASE DeviceStep
    BY <1>1, PhasesIdle DEF DeviceStep, DeviceRaises, DeviceCancels, OthersOfDevice, initVars,
        workerVars, signalVars, busVars, phaseVars
<1>2. CASE \/ WorkerChecksRegister \/ WorkerServesAccess
           \/ WorkerSkipsLevel \/ WorkerTakesIntr \/ WorkerAcksIntr
    <2>1. InPass /\ Inside /\ PassPlace
        BY <1>2 DEF WorkerChecksRegister, WorkerServesAccess, WorkerSkipsLevel, WorkerTakesIntr,
            WorkerAcksIntr, GoesOn, Inside, PassPlace
    <2> QED BY <2>1, PhasesIdle DEF InPass, PassPlace, phaseVars, signalVars, busVars
<1>3. CASE WorkerSamplesInit \/ WorkerNotifies
    BY <1>3, SamplePhases, NotifyPhases
<1>4. CASE PruSamples \/ InitLineChanges
    BY <1>4, PruPhases, LinePhases
<1>5. CASE \/ \E l \in Levels : PruTakesGrant(l)
           \/ PruStartsIntr \/ PruSignalsIntr \/ PruGivesUpIntr
           \/ ProcessorTakesVector \/ ProcessorAccesses
    <2>1. UNCHANGED <<workerVars, busVars, signalVars>>
        BY <1>5 DEF PruTakesGrant, PruStartsIntr, PruSignalsIntr, PruGivesUpIntr,
            ProcessorTakesVector, ProcessorAccesses, initVars
    <2> QED BY <2>1, PhasesIdle DEF workerVars, busVars, signalVars, phaseVars
<1>6. CASE UNCHANGED vars
    BY <1>6, PhasesIdle DEF vars, initVars, workerVars, busVars, signalVars, phaseVars
<1> QED BY <1>1, <1>2, <1>3, <1>4, <1>5, <1>6 DEF Next, WorkerStep

-----------------------------------------------------------------------------
(* The mirror: what the worker is answering, and steps that keep it.       *)
Answering(l) == wpc = "intrAck" /\ wLevel = l

NoneAnswered == \A l \in Levels : ~Answering(l)

mirrorVars == <<sched, act, vec, brReq, granted, master, intrEvt, want>>

(* A step that leaves the tables and the PRU alone keeps every place.      *)
LEMMA PlacesIdle ==
    ASSUME OnePlace, WishesKept, UNCHANGED mirrorVars, ssyn' => ssyn,
           \A l \in Levels : Answering(l)' <=> Answering(l)
    PROVE  /\ OnePlace' /\ WishesKept'
           /\ \A l \in Levels : /\ OnPru(l)' <=> OnPru(l)
                                /\ Done(l)' <=> Done(l)
                                /\ ssyn' = ssyn => (Delivered(l)' <=> Delivered(l))
<1>1. ASSUME NEW l \in Levels
      PROVE  /\ OnPru(l)' <=> OnPru(l)
             /\ Done(l)' <=> Done(l)
             /\ Delivered(l)' => Delivered(l)
             /\ ssyn' = ssyn => (Delivered(l)' <=> Delivered(l))
    BY DEF mirrorVars, OnPru, Done, Delivered, Answering, IsAcked
<1>2. OnePlace'
    BY <1>1 DEF OnePlace, mirrorVars, Answering, Pending, IsAcked
<1>3. WishesKept'
    BY <1>1 DEF WishesKept, mirrorVars
<1> QED BY <1>1, <1>2, <1>3

(* NothingLeft depends on the tables and the PRU only.                     *)
LEMMA NothingStays ==
    ASSUME NothingLeft, UNCHANGED mirrorVars
    PROVE  NothingLeft'
BY DEF NothingLeft, mirrorVars, IsAcked

(* When nothing is left, the places are in order.                          *)
LEMMA NothingIsInOrder ==
    NothingLeft /\ IntrInv /\ NoneAnswered => OnePlace /\ WishesKept /\ QuietMirror /\ CarriedOut
<1> SUFFICES ASSUME NothingLeft, IntrInv, NoneAnswered
             PROVE  OnePlace /\ WishesKept /\ QuietMirror /\ CarriedOut
    OBVIOUS
<1>1. /\ granted = None /\ master = Idle /\ brReq = {} /\ sched = {} /\ want = {}
      /\ \A l \in Levels : act[l] = None /\ IsAcked(intrEvt[l])
    BY DEF NothingLeft
<1>2. \A l \in Levels : ~Done(l) /\ ~OnPru(l) /\ ~Delivered(l) /\ master.level # l
    BY <1>1, NoneIsNone DEF Done, OnPru, Delivered, Idle
<1>3. \A l \in Levels : Pending(intrEvt[l]) = 0
    <2> TAKE l \in Levels
    <2>1. intrEvt[l] \in Event /\ 0 \in Counter
        BY SignalAssumption DEF IntrInv, TypeOK, Counter
    <2> QED BY <1>1, <2>1, PendingCount
<1>4. OnePlace
    BY <1>1, <1>2, <1>3, NoneIsNone DEF OnePlace, NoneAnswered, Answering, OnPru
<1>5. WishesKept /\ QuietMirror
    BY <1>1, <1>2 DEF WishesKept, QuietMirror
<1> QED BY <1>4, <1>5 DEF CarriedOut

(* What holds while the worker carries an INIT out.                        *)
LEMMA InitFacts ==
    ASSUME IntrInv, LongInit, Phases
    PROVE  /\ IsAcked(initEvt) <=> Pending(initEvt) = 0
           /\ Replaying => bus_init_active /\ ~Raising /\ busInit /\ initCur
           /\ Raising => bus_init_active /\ busInit /\ initCur
           /\ busInit /\ initCur /\ IsAcked(initEvt) => bus_init_active /\ ~Raising
           /\ ~busInit /\ initCur => bus_init_active /\ ~Raising
<1> SignalsTypeOK
    BY DEF IntrInv, TypeOK
<1>1. /\ Pending(initEvt) \in Nat
      /\ IsAcked(initEvt) <=> Pending(initEvt) = 0
    BY InitCounts
<1>2. Replaying => bus_init_active /\ ~Raising /\ busInit /\ initCur
    BY InitCounts DEF Phases, InitPhases, CountRead, Replaying, Raising, Inside, bus_init_active
<1>3. Raising => bus_init_active /\ busInit /\ initCur
    BY <1>1 DEF Phases, InitPhases, bus_init_active
<1>4. busInit /\ initCur /\ IsAcked(initEvt) => bus_init_active /\ ~Raising
    BY <1>1 DEF Phases, InitPhases, Bit
<1>5. ~busInit /\ initCur => bus_init_active /\ ~Raising
    <2>1. ~bus_init_active /\ initCur => busInit
        BY DEF Phases, InitPhases
    <2> QED BY <1>3, <2>1
<1> QED BY <1>1, <1>2, <1>3, <1>4, <1>5

(* The worker reads the INIT count and the level.                          *)
LEMMA SampleMirror ==
    ASSUME IntrInv, IntrInv', LongInit, Phases, Mirror, WorkerSamplesInit
    PROVE  Mirror'
<1>1. /\ UNCHANGED mirrorVars /\ UNCHANGED <<ssyn, regEvt, wLevel, wAhead, busInit, initCur>>
      /\ wpc \in {"wait", "init", "level"}
      /\ wpc' \in {"init", "level", "power", "replay1"}
    BY DEF WorkerSamplesInit, mirrorVars, SchedulerUnchanged, intrTables, intrWorker,
        OthersOfWorker, counts, WorkerWakes, WorkerReadsInitCount, WorkerReadsInitLevel,
        signalVars, busVars
<1>2. \A l \in Levels : ~Answering(l) /\ ~Answering(l)'
    BY <1>1 DEF Answering
<1>3. /\ OnePlace' /\ WishesKept'
      /\ \A l \in Levels : (OnPru(l)' <=> OnPru(l)) /\ (Done(l)' <=> Done(l))
                           /\ (Delivered(l)' <=> Delivered(l))
    BY <1>1, <1>2, PlacesIdle DEF Mirror
<1>4. BusFree'
    BY <1>1 DEF Mirror, BusFree, mirrorVars
<1>5. LoopDone'
    BY <1>1 DEF Mirror, LoopDone, Raising, Inside, mirrorVars
<1>6. ~Raising /\ (bus_init_active => NothingLeft)
    BY <1>1 DEF Raising, Inside, Mirror, CarriedOut
<1>7. CASE bus_init_active
    <2>1. NothingLeft'
        BY <1>1, <1>6, <1>7, NothingStays
    <2>2. QuietMirror' /\ CarriedOut'
        BY <1>2, <2>1 DEF NothingLeft, QuietMirror, CarriedOut
    <2> QED BY <1>3, <1>4, <1>5, <2>2 DEF Mirror
<1>8. CASE ~bus_init_active
    <2>1. bus_init_active' => Raising'
        <3>1. CASE WorkerReadsInitLevel
            <4>1. Pending(initEvt) > 0 /\ Pending(initEvt) = Bit(initCur)
                BY <1>8, <3>1, InitCounts DEF WorkerReadsInitLevel, Phases, CountRead,
                    InitPhases, IntrInv, TypeOK
            <4>2. initCur /\ ~lineInit
                BY <1>8, <4>1 DEF Bit, bus_init_active
            <4>3. wRaise' /\ wpc' = "power"
                BY <3>1, <4>2 DEF WorkerReadsInitLevel, IsPulse
            <4> QED BY <4>3 DEF Raising, Inside
        <3>2. CASE ~WorkerReadsInitLevel
            BY <1>8, <3>2 DEF WorkerSamplesInit, WorkerWakes, WorkerReadsInitCount, bus_init_active
        <3> QED BY <3>1, <3>2
    <2>2. CarriedOut'
        BY <2>1 DEF CarriedOut
    <2>3. Quiet' => Quiet
        BY <1>1, <1>8 DEF Quiet
    <2>4. QuietMirror'
        BY <1>1, <1>3, <2>3, IntrAssumption DEF Mirror, QuietMirror, mirrorVars, IntrInv, TypeOK
    <2> QED BY <1>3, <1>4, <1>5, <2>2, <2>4 DEF Mirror
<1> QED BY <1>7, <1>8

(* The worker plays an INIT out, or ends its pass with one.                *)
LEMMA NotifyMirror ==
    ASSUME IntrInv, IntrInv', LongInit, Phases, Mirror, WorkerNotifies
    PROVE  Mirror'
<1>1. /\ UNCHANGED <<granted, master, intrEvt, ssyn, regEvt, wLevel, wAhead, busInit, initCur, wRaise>>
      /\ wpc \in {"replay1", "replay2", "power", "raise"}
      /\ wpc' \in {"replay2", "power", "register", "init", "wait"}
      /\ wpc' = "replay2" <=> wpc = "replay1"
      /\ Cancels => CancelAll
      /\ ~Cancels => UNCHANGED mirrorVars
    BY DEF WorkerNotifies, mirrorVars, SchedulerUnchanged, intrTables, intrWorker,
        OthersOfWorker, counts, WorkerReplaysFarSide, WorkerReplaysNearSide, WorkerPower,
        WorkerEndsPass, signalVars, busVars
<1>2. \A l \in Levels : ~Answering(l) /\ ~Answering(l)'
    BY <1>1 DEF Answering
<1>4. BusFree'
    BY <1>1 DEF Mirror, BusFree
<1>5. LoopDone'
    <2>1. ~wAhead
        BY <1>1 DEF Mirror, LoopDone
    <2> QED BY <1>1, <2>1 DEF LoopDone, Raising
<1>6. ~PowerCancels
    BY DEF PowerCancels, Phases, NoPower
<1>7. CASE Replaying \/ (wpc = "raise" /\ wRaise)
    <2>1. NothingLeft'
        <3>1. CASE Replaying
            <4>1. NothingLeft
                BY <3>1, InitFacts DEF Mirror, CarriedOut
            <4>2. CASE Cancels
                BY <1>1, <4>1, <4>2 DEF CancelAll, NothingLeft
            <4>3. CASE ~Cancels
                BY <1>1, <4>1, <4>3, NothingStays
            <4> QED BY <4>2, <4>3
        <3>2. CASE wpc = "raise" /\ wRaise
            <4>1. Raising
                BY <3>2 DEF Raising, Inside
            <4>2. granted = None /\ master = Idle /\ \A l \in Levels : IsAcked(intrEvt[l])
                BY <3>2, <4>1, InitFacts DEF Mirror, BusFree, LoopDone
            <4>3. Cancels
                BY <3>2, <4>1 DEF Cancels, InitCancels, Phases, InitPhases
            <4> QED BY <1>1, <4>2, <4>3 DEF CancelAll, NothingLeft
        <3> QED BY <1>7, <3>1, <3>2
    <2>2. OnePlace' /\ WishesKept' /\ QuietMirror' /\ CarriedOut'
        <3>1. NoneAnswered'
            BY <1>2 DEF NoneAnswered
        <3> QED BY <2>1, <3>1, NothingIsInOrder, PTL
    <2> QED BY <1>4, <1>5, <2>2 DEF Mirror
<1>8. CASE wpc = "power" \/ (wpc = "raise" /\ ~wRaise)
    <2>1. ~Cancels
        BY <1>6, <1>8 DEF Cancels, InitCancels
    <2>2. UNCHANGED mirrorVars /\ UNCHANGED <<lineInit, initReplay>> /\ (Raising' <=> Raising)
        BY <1>1, <1>8, <2>1 DEF WorkerNotifies, WorkerReplaysFarSide, WorkerReplaysNearSide,
            WorkerPower, WorkerEndsPass, Raising, Inside
    <2>3. /\ OnePlace' /\ WishesKept'
          /\ \A l \in Levels : (OnPru(l)' <=> OnPru(l)) /\ (Done(l)' <=> Done(l))
                               /\ (Delivered(l)' <=> Delivered(l))
        BY <1>1, <1>2, <2>2, PlacesIdle DEF Mirror
    <2>4. QuietMirror'
        BY <1>1, <2>2, <2>3, IntrAssumption DEF Mirror, QuietMirror, Quiet, bus_init_active,
            mirrorVars, IntrInv, TypeOK
    <2>5. CarriedOut'
        BY <2>2, NothingStays DEF Mirror, CarriedOut, bus_init_active
    <2> QED BY <1>4, <1>5, <2>3, <2>4, <2>5 DEF Mirror
<1> QED BY <1>1, <1>7, <1>8 DEF Replaying, IntrInv, TypeOK, SignalsTypeOK

-----------------------------------------------------------------------------
(* The operations under requests_mutex.                                    *)

(* __builtin_ffs finds the least member.                                   *)
LEMMA LowestIsLeast ==
    ASSUME NEW S \in SUBSET Nat
    PROVE  \A y \in S : Lowest(S) \in S /\ Lowest(S) <= y
<1> SUFFICES ASSUME S # {} PROVE Lowest(S) \in S /\ \A y \in S : Lowest(S) <= y
    OBVIOUS
<1>1. \E x \in S : \A y \in S : ~(<<y, x>> \in OpToRel(<, Nat))
    BY NatLessThanWellFounded, WFMin
<1>2. \E x \in S : \A y \in S : ~(y < x)
    BY <1>1 DEF OpToRel
<1>3. \E x \in S : \A y \in S : x <= y
    BY <1>2
<1> QED BY <1>3 DEF Lowest

(* The loop over the levels passes over none of them.                      *)
LEMMA LoopOrder ==
    /\ \A l \in Levels : FirstLevel <= l
    /\ \A k \in Levels, l \in Levels :
        LevelAfter(k) = None \/ l < LevelAfter(k) => l <= k
<1>1. ASSUME NEW l \in Levels PROVE FirstLevel <= l
    BY NoneIsNone, LowestIsLeast DEF FirstLevel
<1>2. ASSUME NEW k \in Levels, NEW l \in Levels,
             LevelAfter(k) = None \/ l < LevelAfter(k)
      PROVE  l <= k
    <2> DEFINE S == {m \in Levels : m > k}
    <2>1. S \in SUBSET Nat /\ k \in Nat /\ l \in Nat
        BY NoneIsNone
    <2>2. SUFFICES ASSUME l > k PROVE FALSE
        BY <2>1
    <2>3. l \in S
        BY <2>2
    <2>4. LevelAfter(k) \in S /\ LevelAfter(k) <= l
        BY <2>1, <2>3, LowestIsLeast DEF LevelAfter
    <2> QED BY <1>2, <2>1, <2>4, NoneIsNone
<1> QED BY <1>1, <1>2

(* What activating the lowest slot of level l does to the tables.          *)
LEMMA Activated ==
    ASSUME Tables, NEW l \in Levels, NEW rest \in SUBSET IntrSlots,
           NEW br \in SUBSET Levels, ActivateNext(l, rest, br)
    PROVE  /\ sched' = rest
           /\ \A m \in Levels \ {l} : /\ act'[m] = act[m] /\ vec'[m] = vec[m]
                                      /\ m \in brReq' <=> m \in br
           /\ act'[l] = None <=> OfLevel(rest, l) = {}
           /\ act'[l] = None => (l \in brReq' <=> l \in br)
           /\ act'[l] # None => /\ act'[l] \in OfLevel(rest, l)
                                /\ l \in brReq' /\ vec'[l] = act'[l]
<1> DEFINE next == Lowest(OfLevel(rest, l))
<1>1. OfLevel(rest, l) \in SUBSET IntrSlots /\ OfLevel(rest, l) \in SUBSET Nat
    BY NoneIsNone DEF OfLevel
<1>2. /\ (next = None) <=> (OfLevel(rest, l) = {})
      /\ next # None => next \in OfLevel(rest, l)
    BY <1>1, LowestOf, NoneIsNone
<1> HIDE DEF next
<1>3. /\ sched' = rest /\ act' = [act EXCEPT ![l] = next]
      /\ vec' = IF next = None THEN vec ELSE [vec EXCEPT ![l] = next]
      /\ brReq' = IF next = None THEN br ELSE br \cup {l}
    BY DEF ActivateNext, next
<1>4. act'[l] = next /\ \A m \in Levels \ {l} : act'[m] = act[m] /\ vec'[m] = vec[m]
    BY <1>3 DEF Tables
<1>5. next # None => vec'[l] = next
    BY <1>3 DEF Tables
<1> QED BY <1>2, <1>3, <1>4, <1>5

(* INTR(): a new request gets a place on the PRU if its level was idle.    *)
LEMMA RaiseMirror ==
    ASSUME IntrInv, Mirror, NEW r \in IntrSlots, RaiseIntr(r),
           UNCHANGED <<granted, master, ssyn, intrEvt, busInit, initCur, lineInit, initReplay>>,
           \A l \in Levels : Answering(l)' <=> Answering(l),
           Raising' <=> Raising
    PROVE  OnePlace' /\ WishesKept' /\ QuietMirror' /\ CarriedOut'
<1> DEFINE l == LevelOf[r]
<1>a. Tables /\ l \in Levels
    BY InvParts, IntrAssumption
<1>b. \A m \in Levels : Done(m)' <=> Done(m)
    BY DEF Done, Answering, IsAcked
<1>c. \A m \in Levels : Delivered(m)' <=> Delivered(m)
    BY <1>b DEF Delivered
<1>d. \A m \in Levels : Answering(m)' => ~IsAcked(intrEvt[m])'
    BY DEF Answering, Mirror, OnePlace, IsAcked
<1>e. \A m \in Levels : Pending(intrEvt[m])' <= 1
    BY DEF Pending, Mirror, OnePlace
<1>f. Quiet' => Quiet
    BY DEF Quiet, bus_init_active
<1>g. act = [m \in Levels |-> act[m]] /\ \A m \in Levels : act[m] # None => act[m] \in sched /\ LevelOf[act[m]] = m
    BY <1>a DEF Tables, LevelTablesConsistent, OfLevel
<1>1. CASE Refused(r)
    <2>1. UNCHANGED mirrorVars
        BY <1>1 DEF RaiseIntr, NoActivation, mirrorVars
    <2>2. OnePlace' /\ WishesKept' /\ \A m \in Levels : OnPru(m)' <=> OnPru(m)
        BY <2>1, PlacesIdle DEF Mirror
    <2>3. QuietMirror'
        BY <1>b, <1>c, <1>f, <2>1, <2>2, IntrAssumption, <1>a DEF Mirror, QuietMirror, mirrorVars, Tables
    <2>4. CarriedOut'
        BY <2>1, NothingStays DEF Mirror, CarriedOut, bus_init_active
    <2> QED BY <2>2, <2>3, <2>4
<1>2. CASE ~Refused(r) /\ act[l] = None
    <2>1. want' = want \cup {r} /\ ActivateNext(l, sched \cup {r}, brReq) /\ ~bus_init_active /\ r \notin sched
        BY <1>2 DEF RaiseIntr, Refused
    <2>2. OfLevel(sched \cup {r}, l) = {r}
        BY <1>2, <1>a DEF OfLevel, Tables, LevelTablesConsistent
    <2>3. /\ sched' = sched \cup {r} /\ act'[l] = r /\ vec'[l] = r /\ l \in brReq'
          /\ \A m \in Levels \ {l} : /\ act'[m] = act[m] /\ vec'[m] = vec[m]
                                     /\ m \in brReq' <=> m \in brReq
        <3>1. sched \cup {r} \in SUBSET IntrSlots /\ brReq \in SUBSET Levels
            BY <1>a DEF Tables
        <3> HIDE DEF l
        <3> DEFINE rest == sched \cup {r}
        <3>2. ActivateNext(l, rest, brReq)
            BY <2>1
        <3>3. OfLevel(rest, l) = {r} /\ rest \in SUBSET IntrSlots
            BY <2>2, <3>1
        <3> HIDE DEF rest
        <3>4. /\ sched' = rest
              /\ \A m \in Levels \ {l} : /\ act'[m] = act[m] /\ vec'[m] = vec[m]
                                         /\ m \in brReq' <=> m \in brReq
              /\ act'[l] = None <=> OfLevel(rest, l) = {}
              /\ act'[l] # None => /\ act'[l] \in OfLevel(rest, l)
                                   /\ l \in brReq' /\ vec'[l] = act'[l]
            BY <1>a, <3>1, <3>2, <3>3, Activated
        <3> QED BY <3>3, <3>4 DEF rest
    <2>4. ~OnPru(l) /\ ~Done(l)
        BY <1>a, <1>2 DEF Mirror, OnePlace
    <2>5. r # None
        BY NoneIsNone
    <2> HIDE DEF l
    <2>6. OnePlace'
        <3> SUFFICES ASSUME NEW m \in Levels
                     PROVE  /\ m \in brReq' => granted # m /\ master.level # m /\ ~Done(m)
                            /\ granted = m => master.level # m /\ ~Done(m)
                            /\ master.level = m => ~Done(m)
                            /\ m \in brReq' \/ granted = m \/ master.level = m \/ Done(m) => act'[m] # None
                            /\ m \in brReq' \/ granted = m => vec'[m] = act'[m]
                            /\ master.level = m => master.slot = act'[m]
            BY <1>b, <1>d, <1>e DEF OnePlace, OnPru, Answering
        <3>1. CASE m = l
            BY <2>3, <2>4, <2>5, <3>1 DEF OnPru
        <3>2. CASE m # l
            BY <2>3, <3>2 DEF Mirror, OnePlace, OnPru
        <3> QED BY <3>1, <3>2
    <2>7. WishesKept'
        <3>1. want' \subseteq sched'
            BY <2>1, <2>3 DEF Mirror, WishesKept
        <3>2. ASSUME NEW m \in Levels, Delivered(m) PROVE act'[m] \notin want'
            <4>1. m # l
                BY <2>4, <3>2 DEF Delivered, OnPru
            <4>2. act'[m] = act[m] /\ act[m] \notin want
                BY <2>3, <3>2, <4>1 DEF Mirror, WishesKept
            <4>3. act[m] # None
                BY <3>2 DEF Delivered, Mirror, OnePlace, OnPru
            <4> QED BY <1>g, <2>1, <4>2, <4>3
        <3> QED BY <1>c, <3>1, <3>2 DEF WishesKept
    <2>8. QuietMirror'
        <3> SUFFICES ASSUME Quiet'
                     PROVE  /\ \A m \in Levels : act'[m] # None => OnPru(m)' \/ Done(m)'
                            /\ \A s \in sched' : \/ s \in want'
                                                 \/ s = act'[LevelOf[s]] /\ Delivered(LevelOf[s])'
            BY DEF QuietMirror
        <3>1. ASSUME NEW m \in Levels, act'[m] # None PROVE OnPru(m)' \/ Done(m)'
            <4>1. CASE m = l
                BY <2>3, <4>1 DEF OnPru
            <4>2. CASE m # l
                <5>1. OnPru(m) \/ Done(m)
                    BY <1>f, <2>3, <3>1, <4>2 DEF Mirror, QuietMirror
                <5> QED BY <1>b, <2>3, <4>2, <5>1 DEF OnPru
            <4> QED BY <4>1, <4>2
        <3>2. ASSUME NEW s \in sched', s \notin want' PROVE s = act'[LevelOf[s]] /\ Delivered(LevelOf[s])'
            <4>1. s \in sched /\ s \notin want
                BY <2>1, <2>3, <3>2
            <4>2. s = act[LevelOf[s]] /\ Delivered(LevelOf[s]) /\ LevelOf[s] \in Levels
                BY <1>f, <4>1, <1>a, IntrAssumption DEF Mirror, QuietMirror, Tables
            <4>3. LevelOf[s] # l
                BY <2>4, <4>2 DEF Delivered, OnPru
            <4> QED BY <1>c, <2>3, <4>2, <4>3
        <3> QED BY <3>1, <3>2
    <2>9. CarriedOut'
        BY <2>1 DEF CarriedOut, bus_init_active
    <2> QED BY <2>6, <2>7, <2>8, <2>9
<1>3. CASE ~Refused(r) /\ act[l] # None
    <2>1. /\ want' = want \cup {r} /\ sched' = sched \cup {r} /\ UNCHANGED <<act, vec, brReq>>
          /\ ~bus_init_active /\ r \notin sched
        BY <1>3 DEF RaiseIntr, NoActivation, Refused
    <2>2. \A m \in Levels : OnPru(m)' <=> OnPru(m)
        BY <2>1 DEF OnPru
    <2>3. OnePlace'
        BY <1>b, <1>d, <1>e, <2>1, <2>2 DEF Mirror, OnePlace, Answering
    <2>4. WishesKept'
        <3>1. ASSUME NEW m \in Levels, Delivered(m) PROVE act[m] # None
            BY <3>1 DEF Delivered, Mirror, OnePlace, OnPru
        <3> QED BY <1>c, <1>g, <2>1, <3>1 DEF Mirror, WishesKept
    <2>5. QuietMirror'
        BY <1>a, <1>b, <1>c, <1>f, <2>1, <2>2, IntrAssumption DEF Mirror, QuietMirror, Tables
    <2>6. CarriedOut'
        BY <2>1 DEF CarriedOut, bus_init_active
    <2> QED BY <2>3, <2>4, <2>5, <2>6
<1> QED BY <1>1, <1>2, <1>3

(* cancel_INTR() in a register access: the worker has taken every          *)
(* completion and the PRU can start none, so the level has only its BR.    *)
LEMMA CancelMirror ==
    ASSUME IntrInv, Mirror, wpc = "access", NEW r \in sched, CancelIntr(r),
           UNCHANGED <<granted, master, ssyn, intrEvt, busInit, initCur, lineInit, initReplay>>,
           wpc' = "intr", wRaise' = wRaise
    PROVE  OnePlace' /\ WishesKept' /\ QuietMirror' /\ CarriedOut'
<1> DEFINE l == LevelOf[r]
<1>a. Tables /\ r \in IntrSlots /\ l \in Levels
    BY InvParts, IntrAssumption DEF Tables
<1>b. granted = None /\ master = Idle /\ \A m \in Levels : IsAcked(intrEvt[m])
    BY DEF Mirror, LoopDone, BusFree
<1>c. \A m \in Levels : /\ ~Done(m) /\ ~Done(m)' /\ ~Delivered(m) /\ ~Delivered(m)'
                        /\ granted # m /\ master.level # m
    BY <1>b, NoneIsNone DEF Done, Delivered, Idle, IsAcked
<1>d. CarriedOut'
    <2>1. bus_init_active => Raising
        BY DEF Mirror, CarriedOut, NothingLeft
    <2>2. bus_init_active' => Raising'
        BY <2>1 DEF bus_init_active, Raising, Inside
    <2> QED BY <2>2 DEF CarriedOut
<1>e. \A m \in Levels : Pending(intrEvt[m])' <= 1
    BY DEF Pending, Mirror, OnePlace
<1>f. Quiet' => Quiet
    BY DEF Quiet, bus_init_active
<1>g. want' = want \ {r} /\ sched' = sched \ {r}
    BY DEF CancelIntr, ActivateNext, NoActivation
<1>1. WishesKept'
    BY <1>c, <1>g DEF Mirror, WishesKept
<1>2. Quiet' => \A s \in sched' : s \in want'
    <2> SUFFICES ASSUME Quiet', NEW s \in sched' PROVE s \in want'
        OBVIOUS
    <2>1. s \in sched /\ s # r /\ LevelOf[s] \in Levels
        BY <1>a, <1>g, IntrAssumption DEF Tables
    <2>2. s \in want
        BY <1>c, <1>f, <2>1 DEF Mirror, QuietMirror
    <2> QED BY <1>g, <2>1, <2>2
<1>3. CASE r = act[l]
    <2>1. ActivateNext(l, sched \ {r}, brReq \ {l})
        BY <1>3 DEF CancelIntr, BrWithout
    <2> DEFINE rest == sched \ {r}
               br == brReq \ {l}
    <2>2. rest \in SUBSET IntrSlots /\ br \in SUBSET Levels /\ l \notin br
        BY <1>a DEF Tables
    <2>3. \A m \in Levels \ {l} : m \in br <=> m \in brReq
        OBVIOUS
    <2>4. ActivateNext(l, rest, br)
        BY <2>1
    <2> HIDE DEF rest, br, l
    <2>5. /\ \A m \in Levels \ {l} : /\ act'[m] = act[m] /\ vec'[m] = vec[m]
                                     /\ m \in brReq' <=> m \in brReq
          /\ act'[l] = None => l \notin brReq'
          /\ act'[l] # None => l \in brReq' /\ vec'[l] = act'[l]
        BY <1>a, <2>2, <2>3, <2>4, Activated
    <2>6. OnePlace'
        <3> SUFFICES ASSUME NEW m \in Levels
                     PROVE  m \in brReq' => act'[m] # None /\ vec'[m] = act'[m]
            BY <1>c, <1>e DEF OnePlace, OnPru
        <3>1. CASE m = l
            BY <2>5, <3>1
        <3>2. CASE m # l
            BY <2>5, <3>2 DEF Mirror, OnePlace, OnPru
        <3> QED BY <3>1, <3>2
    <2>7. Quiet' => \A m \in Levels : act'[m] # None => OnPru(m)'
        <3> SUFFICES ASSUME Quiet', NEW m \in Levels, act'[m] # None PROVE m \in brReq'
            BY DEF OnPru
        <3>1. CASE m = l
            BY <2>5, <3>1
        <3>2. CASE m # l
            BY <1>c, <1>f, <2>5, <3>2 DEF Mirror, QuietMirror, OnPru
        <3> QED BY <3>1, <3>2
    <2>8. QuietMirror'
        BY <1>2, <2>7 DEF QuietMirror
    <2> QED BY <1>d, <1>1, <2>6, <2>8
<1>4. CASE r # act[l]
    <2>1. UNCHANGED <<act, vec, brReq>>
        BY <1>4 DEF CancelIntr, NoActivation
    <2>2. OnePlace'
        BY <1>c, <1>e, <2>1 DEF Mirror, OnePlace, OnPru
    <2>3. Quiet' => \A m \in Levels : act'[m] # None => OnPru(m)'
        BY <1>c, <1>f, <2>1 DEF Mirror, QuietMirror, OnPru
    <2>4. QuietMirror'
        BY <1>2, <2>3 DEF QuietMirror
    <2> QED BY <1>d, <1>1, <2>2, <2>4
<1> QED BY <1>3, <1>4

(* worker_intr_complete_event retires the request whose vector was taken   *)
(* and gives its level to the next one.                                    *)
LEMMA TakeMirror ==
    ASSUME IntrInv, Mirror, WorkerTakesIntr
    PROVE  Mirror'
<1>l. PICK l \in Levels : l = wLevel
    BY InvParts DEF WorkerTakesIntr, Outside, LoopInRange
<1>a. Tables
    BY InvParts
<1> DEFINE gone == act[l]
           rest == sched \ {act[l]}
<1>b. /\ UNCHANGED <<granted, master, ssyn, intrEvt, regEvt, want, wLevel, wAhead, busInit, initCur,
                     lineInit, initReplay, wRaise>>
      /\ wpc = "intr" /\ wpc' = "intrAck" /\ ~IsAcked(intrEvt[l])
      /\ ActivateNext(l, rest, brReq)
    BY <1>l DEF WorkerTakesIntr, CompleteIntr, InPass, OthersOfWorker, intrWorker, signalVars, busVars
<1>c. Done(l) /\ gone # None /\ ~OnPru(l) /\ gone \notin want
    <2>1. Done(l)
        BY <1>b DEF Done
    <2> QED BY <1>a, <2>1 DEF Mirror, OnePlace, WishesKept, OnPru, Delivered
<1>d. rest \in SUBSET IntrSlots /\ brReq \in SUBSET Levels
    BY <1>a DEF Tables
<1>r. \A s : s \in rest <=> s \in sched /\ s # gone
    OBVIOUS
<1>g. gone = act[l]
    OBVIOUS
<1> HIDE DEF gone, rest
<1>e. /\ sched' = rest
      /\ \A m \in Levels \ {l} : /\ act'[m] = act[m] /\ vec'[m] = vec[m]
                                 /\ m \in brReq' <=> m \in brReq
      /\ act'[l] = None => (l \in brReq' <=> l \in brReq)
      /\ act'[l] # None => l \in brReq' /\ vec'[l] = act'[l]
    BY <1>a, <1>b, <1>d, Activated
<1>f. wLevel = l /\ ~Done(l)' /\ \A m \in Levels \ {l} : Done(m)' <=> Done(m)
    BY <1>b, <1>l DEF Done, IsAcked
<1>h. ~Delivered(l)' /\ \A m \in Levels \ {l} : Delivered(m)' <=> Delivered(m)
    BY <1>b, <1>c, <1>f DEF Delivered, OnPru
<1>1. OnePlace'
    <2> SUFFICES ASSUME NEW m \in Levels
                 PROVE  /\ Pending(intrEvt[m])' <= 1
                        /\ m \in brReq' => granted # m /\ master.level # m /\ ~Done(m)'
                        /\ granted = m => master.level # m /\ ~Done(m)'
                        /\ master.level = m => ~Done(m)'
                        /\ m \in brReq' \/ granted = m \/ master.level = m \/ Done(m)' => act'[m] # None
                        /\ m \in brReq' \/ granted = m => vec'[m] = act'[m]
                        /\ master.level = m => master.slot = act'[m]
                        /\ wLevel = m => ~IsAcked(intrEvt[m])
        BY <1>b DEF OnePlace, OnPru, IsAcked
    <2>1. Pending(intrEvt[m])' <= 1
        BY <1>b DEF Pending, Mirror, OnePlace
    <2>2. CASE m = l
        BY <1>b, <1>c, <1>e, <1>f, <2>1, <2>2 DEF OnPru
    <2>3. CASE m # l
        BY <1>e, <1>f, <2>1, <2>3 DEF Mirror, OnePlace, OnPru
    <2> QED BY <2>2, <2>3
<1>2. WishesKept'
    <2>1. want' \subseteq sched'
        BY <1>b, <1>c, <1>e, <1>r DEF Mirror, WishesKept
    <2>2. ASSUME NEW m \in Levels, Delivered(m)' PROVE act'[m] \notin want'
        BY <1>b, <1>e, <1>h, <2>2 DEF Mirror, WishesKept
    <2> QED BY <2>1, <2>2 DEF WishesKept
<1>q. Quiet' => Quiet
    BY <1>b DEF Quiet, bus_init_active
<1>3. QuietMirror'
    <2> SUFFICES ASSUME Quiet'
                 PROVE  /\ \A m \in Levels : act'[m] # None => OnPru(m)' \/ Done(m)'
                        /\ \A s \in sched' : \/ s \in want'
                                             \/ s = act'[LevelOf[s]] /\ Delivered(LevelOf[s])'
        BY DEF QuietMirror
    <2>1. ASSUME NEW m \in Levels, act'[m] # None PROVE OnPru(m)' \/ Done(m)'
        <3>1. CASE m = l
            BY <1>e, <2>1, <3>1 DEF OnPru
        <3>2. CASE m # l
            <4>1. OnPru(m) \/ Done(m)
                BY <1>e, <1>q, <2>1, <3>2 DEF Mirror, QuietMirror
            <4> QED BY <1>b, <1>e, <1>f, <3>2, <4>1 DEF OnPru
        <3> QED BY <3>1, <3>2
    <2>2. ASSUME NEW s \in sched', s \notin want' PROVE s = act'[LevelOf[s]] /\ Delivered(LevelOf[s])'
        <3>1. s \in sched /\ s # gone /\ s \notin want
            BY <1>b, <1>e, <1>r, <2>2
        <3>2. s = act[LevelOf[s]] /\ Delivered(LevelOf[s]) /\ LevelOf[s] \in Levels
            BY <1>a, <1>q, <3>1, IntrAssumption DEF Mirror, QuietMirror, Tables
        <3>3. LevelOf[s] # l
            BY <1>g, <3>1, <3>2
        <3> QED BY <1>e, <1>h, <3>2, <3>3
    <2> QED BY <2>1, <2>2
<1>4. CarriedOut'
    <2>1. bus_init_active => Raising
        BY <1>a, <1>b DEF Mirror, CarriedOut, NothingLeft
    <2>2. bus_init_active' => Raising'
        BY <1>b, <2>1 DEF bus_init_active, Raising, Inside
    <2> QED BY <2>2 DEF CarriedOut
<1>5. BusFree'
    BY <1>b DEF Mirror, BusFree
<1>6. LoopDone'
    BY <1>b DEF Mirror, LoopDone, Raising, Inside, IsAcked
<1> QED BY <1>1, <1>2, <1>3, <1>4, <1>5, <1>6 DEF Mirror

(* The loop over the levels goes on: a level that was answered, or that    *)
(* had nothing, is behind it.                                              *)
LEMMA LoopMirror ==
    ASSUME IntrInv, IntrInv', Mirror, WorkerSkipsLevel \/ WorkerAcksIntr
    PROVE  Mirror'
<1>l. PICK l \in Levels : l = wLevel
    BY InvParts DEF WorkerSkipsLevel, WorkerAcksIntr, Outside, LoopInRange
<1>b. /\ UNCHANGED <<sched, act, vec, brReq, want, granted, master, ssyn, regEvt, wAhead,
                     busInit, initCur, lineInit, initReplay, wRaise>>
      /\ wpc \in {"intr", "intrAck"} /\ GoesOn
    BY DEF WorkerSkipsLevel, WorkerAcksIntr, SchedulerUnchanged, intrTables, InPass,
        OthersOfWorker, signalVars, busVars
<1>c. /\ wLevel' = LevelAfter(l)
      /\ wpc' \in {"intr", "access", "raise"}
      /\ wpc' = "access" => wAhead
      /\ wpc' = "raise" => ~wAhead
      /\ wpc' # "intr" => LevelAfter(l) = None
    BY <1>b, <1>l DEF GoesOn
<1>d. /\ IsAcked(intrEvt'[l]) /\ Pending(intrEvt'[l]) = 0
      /\ \A m \in Levels \ {l} : intrEvt'[m] = intrEvt[m]
      /\ wpc = "intr" => IsAcked(intrEvt[l])
    <2>a. intrEvt[l] \in Event /\ intrEvt'[l] \in Event /\ 0 \in Counter
        BY SignalAssumption DEF IntrInv, TypeOK, Counter
    <2>1. CASE WorkerSkipsLevel
        BY <1>l, <2>1, <2>a, PendingCount DEF WorkerSkipsLevel
    <2>2. CASE WorkerAcksIntr
        <3>1. wpc = "intrAck" /\ intrEvt' = [intrEvt EXCEPT ![l] = Ack(intrEvt[l])]
            BY <1>l, <2>2 DEF WorkerAcksIntr
        <3>2. intrEvt'[l] = Ack(intrEvt[l]) /\ \A m \in Levels \ {l} : intrEvt'[m] = intrEvt[m]
            BY <3>1 DEF IntrInv, TypeOK
        <3>3. Pending(intrEvt[l]) = 1
            <4>1. ~IsAcked(intrEvt[l]) /\ Pending(intrEvt[l]) <= 1
                BY <1>l, <3>1 DEF Mirror, OnePlace
            <4>2. Pending(intrEvt[l]) \in 0 .. EventMod - 1 /\ Pending(intrEvt[l]) # 0
                BY <2>a, <4>1, PendingCount
            <4> QED BY <4>1, <4>2, SignalAssumption
        <3>4. Pending(intrEvt'[l]) = 0
            BY <2>a, <3>2, <3>3, PendingAck
        <3>5. IsAcked(intrEvt'[l])
            BY <2>a, <3>4, PendingCount
        <3> QED BY <3>1, <3>2, <3>4, <3>5
    <2> QED BY <2>1, <2>2
<1>e. \A m \in Levels : Done(m)' <=> Done(m)
    <2> TAKE m \in Levels
    <2>1. CASE m = l
        BY <1>b, <1>c, <1>d, <1>l, <2>1 DEF Done
    <2>2. CASE m # l
        BY <1>b, <1>c, <1>d, <1>l, <2>2 DEF Done
    <2> QED BY <2>1, <2>2
<1>f. \A m \in Levels : (OnPru(m)' <=> OnPru(m)) /\ (Delivered(m)' <=> Delivered(m))
    BY <1>b, <1>e DEF OnPru, Delivered
<1>1. OnePlace'
    <2>1. ASSUME NEW m \in Levels PROVE Pending(intrEvt[m])' <= 1
        <3>1. CASE m = l
            BY <1>d, <3>1 DEF Pending
        <3>2. CASE m # l
            BY <1>d, <3>2 DEF Mirror, OnePlace, Pending
        <3> QED BY <3>1, <3>2
    <2> QED BY <1>b, <1>c, <1>e, <1>f, <2>1 DEF Mirror, OnePlace
<1>2. WishesKept'
    BY <1>b, <1>f DEF Mirror, WishesKept
<1>3. QuietMirror'
    <2>1. Quiet' => Quiet
        BY <1>b DEF Quiet, bus_init_active
    <2> QED BY <1>b, <1>e, <1>f, <2>1, IntrAssumption DEF Mirror, QuietMirror, IntrInv, TypeOK
<1>r. Raising' <=> Raising
    BY <1>b, <1>c DEF Raising, Inside
<1>4. CarriedOut'
    <2>1. ASSUME NothingLeft PROVE NothingLeft'
        <3>1. ASSUME NEW m \in Levels PROVE IsAcked(intrEvt[m])'
            <4>1. CASE m = l
                BY <1>d, <4>1 DEF IsAcked
            <4>2. CASE m # l
                BY <1>d, <2>1, <4>2 DEF NothingLeft, IsAcked
            <4> QED BY <4>1, <4>2
        <3> QED BY <1>b, <2>1, <3>1 DEF NothingLeft
    <2> QED BY <1>b, <1>r, <2>1 DEF Mirror, CarriedOut, bus_init_active
<1>5. BusFree'
    BY <1>b DEF Mirror, BusFree
<1>6. LoopDone'
    <2>1. ASSUME wAhead \/ Raising, NEW m \in Levels,
                 (wpc' = "intr" /\ m < wLevel') \/ wpc' \in {"access", "raise"}
          PROVE  IsAcked(intrEvt[m])'
        <3>1. m <= l
            BY <1>c, <2>1, LoopOrder
        <3>2. CASE m = l
            BY <1>d, <3>2 DEF IsAcked
        <3>3. CASE m # l
            <4>1. m < l
                BY <3>1, <3>3, NoneIsNone
            <4>2. IsAcked(intrEvt[m])
                BY <1>b, <1>l, <2>1, <4>1 DEF Mirror, LoopDone
            <4> QED BY <1>d, <3>3, <4>2 DEF IsAcked
        <3> QED BY <3>2, <3>3
    <2>2. wAhead' => regEvt' /\ wpc' \in {"intr", "intrAck", "access"}
        BY <1>b, <1>c DEF Mirror, LoopDone
    <2>3. wpc' = "access" => wAhead'
        BY <1>b, <1>c
    <2> QED BY <1>b, <1>c, <1>r, <2>1, <2>2, <2>3 DEF LoopDone
<1> QED BY <1>1, <1>2, <1>3, <1>4, <1>5, <1>6 DEF Mirror

(* The worker's register part.                                             *)
LEMMA RegisterMirror ==
    ASSUME IntrInv, Mirror, WorkerChecksRegister \/ WorkerServesAccess
    PROVE  Mirror'
<1>b. /\ UNCHANGED <<granted, master, ssyn, intrEvt, busInit, initCur, lineInit, initReplay, wRaise>>
      /\ wpc \in {"register", "access"} /\ wpc' = "intr"
      /\ wLevel' = FirstLevel /\ (wAhead' => regEvt') /\ (regEvt' => regEvt)
    <2>1. CASE WorkerChecksRegister
        <3>1. wAhead' = (regEvt /\ IsAcked(initEvt)) /\ regEvt' = regEvt /\ wpc' = "intr"
            BY <2>1 DEF WorkerChecksRegister, TakesIntrFirst
        <3>2. wAhead' => regEvt'
            BY <3>1, Zenon
        <3> QED BY <2>1, <3>1, <3>2 DEF WorkerChecksRegister, InPass, OthersOfWorker,
            signalVars, busVars
    <2>2. CASE WorkerServesAccess
        BY <2>2 DEF WorkerServesAccess, InPass, OthersOfWorker, signalVars, busVars
    <2> QED BY <2>1, <2>2
<1>c. \A l \in Levels : ~Answering(l) /\ ~Answering(l)'
    BY <1>b DEF Answering
<1>d. Raising' <=> Raising
    BY <1>b DEF Raising, Inside
<1>1. BusFree'
    BY <1>b DEF Mirror, BusFree
<1>2. LoopDone'
    <2>1. \A l \in Levels : ~(l < wLevel')
        BY <1>b, LoopOrder, LoopLevels, NoneIsNone
    <2> QED BY <1>b, <2>1 DEF LoopDone
<1>3. CASE SchedulerUnchanged
    <2>1. UNCHANGED mirrorVars
        BY <1>b, <1>3 DEF SchedulerUnchanged, intrTables, mirrorVars
    <2>2. /\ OnePlace' /\ WishesKept'
          /\ \A l \in Levels : (OnPru(l)' <=> OnPru(l)) /\ (Done(l)' <=> Done(l))
                               /\ (Delivered(l)' <=> Delivered(l))
        BY <1>b, <1>c, <2>1, PlacesIdle DEF Mirror
    <2>3. QuietMirror'
        BY <1>b, <2>1, <2>2, IntrAssumption DEF Mirror, QuietMirror, Quiet, bus_init_active,
            mirrorVars, IntrInv, TypeOK
    <2>4. CarriedOut'
        BY <1>b, <1>d, <2>1, NothingStays DEF Mirror, CarriedOut, bus_init_active
    <2> QED BY <1>1, <1>2, <2>2, <2>3, <2>4 DEF Mirror
<1>4. ASSUME NEW r \in IntrSlots, RaiseIntr(r) PROVE Mirror'
    BY <1>b, <1>c, <1>d, <1>1, <1>2, <1>4, RaiseMirror DEF Mirror
<1>5. ASSUME NEW r \in sched, CancelIntr(r), wpc = "access" PROVE Mirror'
    BY <1>b, <1>1, <1>2, <1>5, CancelMirror DEF Mirror
<1> QED BY <1>3, <1>4, <1>5 DEF WorkerChecksRegister, WorkerServesAccess

(* A device thread raises its interrupt.                                   *)
LEMMA DeviceMirror ==
    ASSUME IntrInv, Mirror, NEW r \in IntrSlots, DeviceRaises(r)
    PROVE  Mirror'
<1>b. /\ UNCHANGED <<granted, master, ssyn, intrEvt, regEvt, busInit, initCur, lineInit, initReplay,
                     wRaise, wpc, wLevel, wAhead>>
      /\ RaiseIntr(r)
    BY DEF DeviceRaises, OthersOfDevice, initVars, workerVars, busVars, signalVars, intrWorker
<1>c. \A l \in Levels : Answering(l)' <=> Answering(l)
    BY <1>b DEF Answering
<1>d. Raising' <=> Raising
    BY <1>b DEF Raising, Inside
<1>1. BusFree'
    BY <1>b DEF Mirror, BusFree
<1>2. LoopDone'
    BY <1>b, <1>d DEF Mirror, LoopDone, IsAcked
<1> QED BY <1>b, <1>c, <1>d, <1>1, <1>2, RaiseMirror DEF Mirror

-----------------------------------------------------------------------------
(* The PRU and the bus.                                                    *)

(* The PRU samples INIT; with INIT it drops requests and a taken grant.    *)
LEMMA PruSampleMirror ==
    ASSUME IntrInv, LongInit, Phases, Mirror, PruSamples
    PROVE  Mirror'
<1>b. /\ UNCHANGED <<sched, act, vec, master, ssyn, intrEvt, regEvt, want, busInit, lineInit, initReplay,
                     wRaise, wpc, wLevel, wAhead>>
      /\ initCur' = busInit
      /\ brReq' = (IF busInit THEN {} ELSE brReq) /\ granted' = (IF busInit THEN None ELSE granted)
      /\ master = Idle
    BY DEF PruSamples, PruSignalsChange, OthersOfPru, intrTables, intrWorker, workerVars, busVars,
        GrantAfterInit
<1>c. \A l \in Levels : (Done(l)' <=> Done(l)) /\ (Delivered(l)' <=> Delivered(l))
    BY <1>b DEF Done, Delivered, IsAcked
<1>d. \A l \in Levels : granted' = l => granted = l
    BY <1>b, NoneIsNone
<1>1. OnePlace'
    <2>1. \A l \in Levels : OnPru(l)' => OnPru(l)
        BY <1>b, <1>d DEF OnPru
    <2> QED BY <1>b, <1>c, <1>d, <2>1 DEF Mirror, OnePlace, Pending, IsAcked
<1>2. WishesKept'
    BY <1>b, <1>c DEF Mirror, WishesKept
<1>3. QuietMirror'
    <2> SUFFICES ASSUME Quiet' PROVE QuietMirror'
        BY DEF QuietMirror
    <2>1. ~busInit /\ Quiet
        BY <1>b, InitFacts DEF Quiet, bus_init_active
    <2>2. \A l \in Levels : OnPru(l)' <=> OnPru(l)
        BY <1>b, <2>1 DEF OnPru
    <2> QED BY <1>b, <1>c, <2>1, <2>2, IntrAssumption DEF Mirror, QuietMirror, IntrInv, TypeOK
<1>r. Raising' <=> Raising
    BY <1>b DEF Raising, Inside
<1>4. CarriedOut'
    BY <1>b, <1>r DEF Mirror, CarriedOut, NothingLeft, bus_init_active, IsAcked
<1>5. BusFree'
    BY <1>b DEF Mirror, BusFree
<1>6. LoopDone'
    BY <1>b, <1>r DEF Mirror, LoopDone, IsAcked
<1> QED BY <1>1, <1>2, <1>3, <1>4, <1>5, <1>6 DEF Mirror

(* what a step of the PRU or the processor leaves alone                    *)
armVars == <<sched, act, vec, busInit, initCur, lineInit, initReplay, wRaise, wpc, wLevel, wAhead>>

(* An INIT that is carried out leaves nothing on the PRU to go on with.    *)
LEMMA BusyIsNotCarriedOut ==
    ASSUME CarriedOut, UNCHANGED armVars, brReq # {} \/ granted # None \/ master # Idle
    PROVE  CarriedOut' /\ (Raising' <=> Raising) /\ (Quiet' <=> Quiet)
<1>1. (Raising' <=> Raising) /\ (bus_init_active' <=> bus_init_active)
    BY DEF armVars, Raising, Inside, bus_init_active
<1>2. bus_init_active => Raising
    BY DEF CarriedOut, NothingLeft
<1>3. CarriedOut'
    BY <1>1, <1>2 DEF CarriedOut
<1>4. Quiet' <=> Quiet
    BY <1>1 DEF Quiet, armVars
<1> QED BY <1>1, <1>3, <1>4

(* The request of level l becomes a grant.                                 *)
LEMMA GrantMirror ==
    ASSUME IntrInv, Mirror, NEW l \in Levels, PruTakesGrant(l)
    PROVE  Mirror'
<1>b. /\ UNCHANGED armVars /\ UNCHANGED <<master, ssyn, intrEvt, regEvt, want>>
      /\ master = Idle /\ ~regEvt /\ ~initCur /\ l \in brReq /\ granted = None
      /\ granted' = l /\ brReq' = brReq \ {l}
    BY DEF PruTakesGrant, OthersOfPru, intrTables, intrWorker, initVars, workerVars, busVars,
        signalVars, armVars
<1>c. \A m \in Levels : /\ (Done(m)' <=> Done(m)) /\ (Delivered(m)' <=> Delivered(m))
                        /\ (OnPru(m)' <=> OnPru(m))
    BY <1>b, NoneIsNone DEF Done, Delivered, OnPru, IsAcked, armVars
<1>1. OnePlace'
    <2> SUFFICES ASSUME NEW m \in Levels
                 PROVE  /\ Pending(intrEvt[m]) <= 1
                        /\ m \in brReq' => granted' # m /\ master.level # m /\ ~Done(m)
                        /\ granted' = m => master.level # m /\ ~Done(m)
                        /\ master.level = m => ~Done(m)
                        /\ OnPru(m) \/ Done(m) => act[m] # None
                        /\ m \in brReq' \/ granted' = m => vec[m] = act[m]
                        /\ master.level = m => master.slot = act[m]
                        /\ wpc = "intrAck" /\ wLevel = m => ~IsAcked(intrEvt[m])
        BY <1>b, <1>c DEF OnePlace, armVars, Pending, IsAcked
    <2>1. CASE m = l
        BY <1>b, <2>1 DEF Mirror, OnePlace
    <2>2. CASE m # l
        BY <1>b, <2>2 DEF Mirror, OnePlace
    <2> QED BY <2>1, <2>2
<1>2. WishesKept'
    BY <1>b, <1>c DEF Mirror, WishesKept, armVars
<1>d. CarriedOut' /\ (Raising' <=> Raising) /\ (Quiet' <=> Quiet)
    BY <1>b, BusyIsNotCarriedOut DEF Mirror
<1>3. QuietMirror'
    BY <1>b, <1>c, <1>d, IntrAssumption DEF Mirror, QuietMirror, IntrInv, TypeOK, armVars
<1>5. BusFree'
    BY <1>b DEF Mirror, BusFree, armVars
<1>6. LoopDone'
    BY <1>b, <1>d DEF Mirror, LoopDone, IsAcked, armVars
<1> QED BY <1>1, <1>2, <1>3, <1>d, <1>5, <1>6 DEF Mirror

(* The granted level puts the vector of its active request on the bus.     *)
LEMMA StartMirror ==
    ASSUME IntrInv, Mirror, PruStartsIntr
    PROVE  Mirror'
<1>l. PICK l \in Levels : l = granted
    BY DEF PruStartsIntr, IntrInv, TypeOK
<1>b. /\ UNCHANGED armVars /\ UNCHANGED <<brReq, intrEvt, regEvt, want>>
      /\ master = Idle /\ ~regEvt /\ ~initCur /\ granted = l
      /\ granted' = None /\ ssyn' = FALSE
      /\ master'.level = l /\ master'.slot = vec[l]
    BY <1>l DEF PruStartsIntr, OthersOfPru, intrTables, intrWorker, initVars, workerVars, busVars,
        signalVars, armVars
<1>n. l # None /\ master.level = None
    BY <1>b, NoneIsNone DEF Idle
<1>c. \A m \in Levels : /\ (Done(m)' <=> Done(m)) /\ (OnPru(m)' <=> OnPru(m))
    BY <1>b, <1>n, NoneIsNone DEF Done, OnPru, IsAcked, armVars
<1>d. \A m \in Levels : Delivered(m)' <=> Delivered(m)
    BY <1>b, <1>c, <1>n, NoneIsNone DEF Delivered
<1>1. OnePlace'
    <2> SUFFICES ASSUME NEW m \in Levels
                 PROVE  /\ Pending(intrEvt[m]) <= 1
                        /\ m \in brReq => master'.level # m /\ ~Done(m)
                        /\ master'.level = m => ~Done(m)
                        /\ OnPru(m) \/ Done(m) => act[m] # None
                        /\ m \in brReq => vec[m] = act[m]
                        /\ master'.level = m => master'.slot = act[m]
                        /\ wpc = "intrAck" /\ wLevel = m => ~IsAcked(intrEvt[m])
        BY <1>b, <1>c, NoneIsNone DEF OnePlace, armVars, Pending, IsAcked
    <2>1. CASE m = l
        BY <1>b, <2>1 DEF Mirror, OnePlace
    <2>2. CASE m # l
        BY <1>b, <2>2 DEF Mirror, OnePlace
    <2> QED BY <2>1, <2>2
<1>2. WishesKept'
    BY <1>b, <1>d DEF Mirror, WishesKept, armVars
<1>e. CarriedOut' /\ (Raising' <=> Raising) /\ (Quiet' <=> Quiet)
    BY <1>b, <1>n, BusyIsNotCarriedOut DEF Mirror
<1>3. QuietMirror'
    BY <1>b, <1>c, <1>d, <1>e, IntrAssumption DEF Mirror, QuietMirror, IntrInv, TypeOK, armVars
<1>5. BusFree'
    BY <1>b, <1>n DEF Mirror, BusFree, armVars
<1>6. LoopDone'
    BY <1>b, <1>e DEF Mirror, LoopDone, IsAcked, armVars
<1> QED BY <1>1, <1>2, <1>3, <1>e, <1>5, <1>6 DEF Mirror

(* The cycle is through and its completion is signalled. The worker cannot *)
(* have passed this level in a loop that must not miss one: ahead of an    *)
(* access, and under INIT, there is no cycle.                              *)
LEMMA SignalMirror ==
    ASSUME IntrInv, IntrInv', LongInit, Phases, Mirror, PruSignalsIntr
    PROVE  Mirror'
<1>l. PICK l \in Levels : l = master.level
    BY DEF PruSignalsIntr, Mirror, BusFree, IntrInv, TypeOK
<1>b. /\ UNCHANGED armVars /\ UNCHANGED <<brReq, granted, regEvt, want>>
      /\ master # Idle /\ ssyn /\ IsAcked(intrEvt[l]) /\ master' = Idle /\ ~ssyn'
      /\ intrEvt' = [intrEvt EXCEPT ![l] = Signal(intrEvt[l])]
    BY <1>l DEF PruSignalsIntr, OthersOfPru, intrTables, intrWorker, workerVars, busVars,
        signalVars, armVars
<1>n. master'.level = None /\ master.level = l /\ None \notin Levels
    BY <1>b, <1>l, NoneIsNone DEF Idle
<1>c. /\ intrEvt'[l] = Signal(intrEvt[l]) /\ \A m \in Levels \ {l} : intrEvt'[m] = intrEvt[m]
      /\ Pending(intrEvt'[l]) = 1 /\ ~IsAcked(intrEvt'[l])
    <2>a. intrEvt[l] \in Event /\ intrEvt'[l] \in Event /\ 0 \in Counter
        BY SignalAssumption DEF IntrInv, TypeOK, Counter
    <2>1. intrEvt'[l] = Signal(intrEvt[l]) /\ \A m \in Levels \ {l} : intrEvt'[m] = intrEvt[m]
        BY <1>b DEF IntrInv, TypeOK
    <2>2. Pending(intrEvt[l]) = 0
        BY <1>b, <2>a, PendingCount
    <2>3. Pending(intrEvt'[l]) = 1
        BY <2>a, <2>1, <2>2, PendingSignal, SignalAssumption DEF LongInit
    <2>4. ~IsAcked(intrEvt'[l])
        BY <2>a, <2>3, PendingCount
    <2> QED BY <2>1, <2>3, <2>4
<1>d. /\ l \notin brReq /\ granted # l /\ ~Done(l) /\ act[l] # None /\ ~Answering(l)
    BY <1>b, <1>n DEF Mirror, OnePlace, OnPru, Answering
<1>e. /\ Done(l)' /\ Delivered(l) /\ Delivered(l)' /\ OnPru(l)
      /\ \A m \in Levels \ {l} : /\ (Done(m)' <=> Done(m)) /\ (Delivered(m)' <=> Delivered(m))
                                 /\ (OnPru(m)' <=> OnPru(m))
    <2>1. Done(l)'
        BY <1>b, <1>c, <1>d DEF Done, Answering, armVars
    <2>2. \A m \in Levels \ {l} : Done(m)' <=> Done(m)
        BY <1>b, <1>c DEF Done, armVars
    <2> QED BY <1>b, <1>n, <2>1, <2>2 DEF Delivered, OnPru
<1>1. OnePlace'
    <2> SUFFICES ASSUME NEW m \in Levels
                 PROVE  /\ Pending(intrEvt'[m]) <= 1
                        /\ m \in brReq => granted # m /\ ~Done(m)'
                        /\ granted = m => ~Done(m)'
                        /\ OnPru(m)' \/ Done(m)' => act[m] # None
                        /\ m \in brReq \/ granted = m => vec[m] = act[m]
                        /\ wpc = "intrAck" /\ wLevel = m => ~IsAcked(intrEvt'[m])
        BY <1>b, <1>n DEF OnePlace, armVars, Pending, IsAcked
    <2>1. CASE m = l
        BY <1>b, <1>c, <1>d, <2>1
    <2>2. CASE m # l
        BY <1>b, <1>c, <1>e, <2>2 DEF Mirror, OnePlace
    <2> QED BY <2>1, <2>2
<1>2. WishesKept'
    BY <1>b, <1>e DEF Mirror, WishesKept, armVars
<1>f. CarriedOut' /\ (Raising' <=> Raising) /\ (Quiet' <=> Quiet)
    BY <1>b, BusyIsNotCarriedOut DEF Mirror
<1>3. QuietMirror'
    <2> SUFFICES ASSUME Quiet'
                 PROVE  /\ \A m \in Levels : act[m] # None => OnPru(m)' \/ Done(m)'
                        /\ \A s \in sched : \/ s \in want
                                            \/ s = act[LevelOf[s]] /\ Delivered(LevelOf[s])'
        BY <1>b DEF QuietMirror, armVars
    <2>1. \A m \in Levels : act[m] # None => OnPru(m)' \/ Done(m)'
        BY <1>e, <1>f DEF Mirror, QuietMirror
    <2>2. ASSUME NEW s \in sched, s \notin want PROVE s = act[LevelOf[s]] /\ Delivered(LevelOf[s])'
        <3>1. LevelOf[s] \in Levels
            BY IntrAssumption DEF IntrInv, TypeOK
        <3>2. s = act[LevelOf[s]] /\ Delivered(LevelOf[s])
            BY <1>f, <2>2 DEF Mirror, QuietMirror
        <3> QED BY <1>e, <3>1, <3>2
    <2> QED BY <2>1, <2>2
<1>5. BusFree'
    BY <1>b, <1>n DEF Mirror, BusFree, armVars
<1>6. LoopDone'
    <2>1. ~Raising
        BY <1>b, InitFacts DEF Mirror, BusFree
    <2>2. ~wAhead
        BY <1>b DEF Mirror, BusFree, LoopDone
    <2> QED BY <1>b, <1>f, <2>1, <2>2 DEF Mirror, LoopDone, armVars
<1> QED BY <1>1, <1>2, <1>3, <1>f, <1>5, <1>6 DEF Mirror

(* INIT ends a cycle the processor has not answered.                       *)
LEMMA GiveUpMirror ==
    ASSUME IntrInv, Mirror, PruGivesUpIntr
    PROVE  Mirror'
<1>b. /\ UNCHANGED armVars /\ UNCHANGED <<brReq, granted, ssyn, intrEvt, regEvt, want>>
      /\ master # Idle /\ ~ssyn /\ busInit /\ master' = Idle
    BY DEF PruGivesUpIntr, OthersOfPru, intrTables, intrWorker, initVars, workerVars, busVars,
        signalVars, armVars
<1>n. \A m \in Levels : master'.level # m
    BY <1>b, NoneIsNone DEF Idle
<1>c. \A m \in Levels : /\ (Done(m)' <=> Done(m)) /\ (Delivered(m)' <=> Delivered(m))
                        /\ (OnPru(m)' => OnPru(m))
    BY <1>b, <1>n DEF Done, Delivered, OnPru, IsAcked, armVars
<1>1. OnePlace'
    BY <1>b, <1>n, <1>c DEF Mirror, OnePlace, Pending, IsAcked, armVars
<1>2. WishesKept'
    BY <1>b, <1>c DEF Mirror, WishesKept, armVars
<1>d. CarriedOut' /\ (Raising' <=> Raising) /\ ~Quiet'
    BY <1>b, BusyIsNotCarriedOut DEF Mirror, Quiet
<1>5. BusFree'
    BY <1>b DEF Mirror, BusFree, armVars
<1>6. LoopDone'
    BY <1>b, <1>d DEF Mirror, LoopDone, IsAcked, armVars
<1> QED BY <1>1, <1>2, <1>d, <1>5, <1>6 DEF Mirror, QuietMirror

(* The processor takes the vector: its request is not wanted any more.     *)
LEMMA VectorMirror ==
    ASSUME IntrInv, Mirror, ProcessorTakesVector
    PROVE  Mirror'
<1>l. PICK l \in Levels : l = master.level
    BY DEF ProcessorTakesVector, Mirror, BusFree, IntrInv, TypeOK
<1>b. /\ UNCHANGED armVars /\ UNCHANGED <<brReq, granted, master, intrEvt, regEvt>>
      /\ master # Idle /\ ~ssyn /\ ~busInit /\ ssyn' = TRUE /\ want' = want \ {master.slot}
    BY DEF ProcessorTakesVector, OthersOfBus, intrTables, intrWorker, initVars, workerVars, busVars,
        signalVars, armVars
<1>s. master.slot = act[l] /\ act[l] # None /\ LevelOf[act[l]] = l
    BY <1>l DEF Mirror, OnePlace, OnPru, IntrInv, LevelTablesConsistent, OfLevel
<1>c. \A m \in Levels : (Done(m)' <=> Done(m)) /\ (OnPru(m)' <=> OnPru(m))
    BY <1>b DEF Done, OnPru, IsAcked, armVars
<1>d. Delivered(l)' /\ \A m \in Levels \ {l} : Delivered(m)' <=> Delivered(m)
    BY <1>b, <1>c, <1>l DEF Delivered
<1>1. OnePlace'
    BY <1>b, <1>c DEF Mirror, OnePlace, Pending, IsAcked, armVars
<1>2. WishesKept'
    BY <1>b, <1>d, <1>s DEF Mirror, WishesKept, armVars
<1>e. CarriedOut' /\ (Raising' <=> Raising) /\ (Quiet' <=> Quiet)
    BY <1>b, BusyIsNotCarriedOut DEF Mirror
<1>3. QuietMirror'
    <2> SUFFICES ASSUME Quiet'
                 PROVE  /\ \A m \in Levels : act[m] # None => OnPru(m)' \/ Done(m)'
                        /\ \A s \in sched : \/ s \in want'
                                            \/ s = act[LevelOf[s]] /\ Delivered(LevelOf[s])'
        BY <1>b DEF QuietMirror, armVars
    <2>1. \A m \in Levels : act[m] # None => OnPru(m)' \/ Done(m)'
        BY <1>c, <1>e DEF Mirror, QuietMirror
    <2>2. ASSUME NEW s \in sched, s \notin want' PROVE s = act[LevelOf[s]] /\ Delivered(LevelOf[s])'
        <3>1. LevelOf[s] \in Levels
            BY IntrAssumption DEF IntrInv, TypeOK
        <3>2. CASE s = act[l]
            BY <1>d, <1>s, <3>2
        <3>3. CASE s # act[l]
            <4>1. s = act[LevelOf[s]] /\ Delivered(LevelOf[s])
                BY <1>b, <1>e, <1>s, <2>2, <3>3 DEF Mirror, QuietMirror
            <4> QED BY <1>d, <3>1, <3>3, <4>1
        <3> QED BY <3>2, <3>3
    <2> QED BY <2>1, <2>2
<1>5. BusFree'
    BY <1>b DEF Mirror, BusFree, armVars
<1>6. LoopDone'
    BY <1>b, <1>e DEF Mirror, LoopDone, IsAcked, armVars
<1> QED BY <1>1, <1>2, <1>3, <1>e, <1>5, <1>6 DEF Mirror

(* The processor opens a register access, or INIT changes on the bus.      *)
LEMMA LineMirror ==
    ASSUME IntrInv, LongInit, Phases, Mirror, ProcessorAccesses \/ InitLineChanges
    PROVE  Mirror'
<1>b. /\ UNCHANGED mirrorVars
      /\ UNCHANGED <<initCur, lineInit, initReplay, wRaise, wpc, wLevel, wAhead>>
      /\ ssyn' => ssyn
    BY DEF ProcessorAccesses, InitLineChanges, InitChanges, OthersOfBus, intrTables, intrWorker,
        workerVars, signalVars, mirrorVars
<1>c. /\ OnePlace' /\ WishesKept'
      /\ \A l \in Levels : /\ OnPru(l)' <=> OnPru(l)
                           /\ Done(l)' <=> Done(l)
                           /\ ssyn' = ssyn => (Delivered(l)' <=> Delivered(l))
    <2>1. \A l \in Levels : Answering(l)' <=> Answering(l)
        BY <1>b DEF Answering
    <2> QED BY <1>b, <2>1, PlacesIdle DEF Mirror
<1>r. (Raising' <=> Raising) /\ (bus_init_active' <=> bus_init_active)
    BY <1>b DEF Raising, Inside, bus_init_active
<1>4. CarriedOut'
    BY <1>b, <1>r, NothingStays DEF Mirror, CarriedOut
<1>1. CASE ProcessorAccesses
    <2>1. /\ UNCHANGED <<ssyn, busInit>> /\ regEvt' = TRUE /\ granted = None /\ master = Idle
        BY <1>1 DEF ProcessorAccesses, busVars
    <2>3. QuietMirror'
        BY <1>b, <1>c, <1>r, <2>1, IntrAssumption DEF Mirror, QuietMirror, Quiet, IntrInv, TypeOK, mirrorVars
    <2>5. BusFree'
        BY <1>b, <2>1 DEF Mirror, BusFree, mirrorVars
    <2>6. LoopDone'
        BY <1>b, <1>r, <2>1 DEF Mirror, LoopDone, IsAcked, mirrorVars
    <2> QED BY <1>c, <1>4, <2>3, <2>5, <2>6 DEF Mirror
<1>2. CASE InitLineChanges
    <2>1. /\ busInit' = ~busInit /\ ssyn' = FALSE /\ regEvt' = regEvt
          /\ busInit => Sampled /\ IsAcked(initEvt)
        BY <1>2 DEF InitLineChanges, InitChanges, LongInit
    <2>2. busInit \/ initCur => NothingLeft
        <3>1. busInit \/ initCur => bus_init_active /\ ~Raising
            BY <2>1, InitFacts DEF Sampled
        <3> QED BY <3>1 DEF Mirror, CarriedOut
    <2>3. QuietMirror'
        <3> SUFFICES ASSUME Quiet' PROVE QuietMirror'
            BY DEF QuietMirror
        <3>1. busInit
            BY <2>1 DEF Quiet
        <3>2. NothingLeft'
            BY <1>b, <2>2, <3>1, NothingStays
        <3> QED BY <3>2 DEF QuietMirror, NothingLeft
    <2>5. BusFree'
        BY <1>b, <2>1, <2>2 DEF Mirror, BusFree, NothingLeft, mirrorVars
    <2>6. LoopDone'
        BY <1>b, <1>r, <2>1 DEF Mirror, LoopDone, IsAcked, mirrorVars
    <2> QED BY <1>c, <1>4, <2>3, <2>5, <2>6 DEF Mirror
<1> QED BY <1>1, <1>2

-----------------------------------------------------------------------------
(* No INIT and no request after power up.                                  *)
LEMMA MirrorInitially == Init => MirrorInv
<1> SUFFICES ASSUME Init PROVE MirrorInv
    OBVIOUS
<1>1. /\ wpc = "wait" /\ wRaise = FALSE /\ lineInit = FALSE /\ initReplay = FALSE
      /\ initEvt = NoEvents /\ powEvt = NoEvents /\ initCur = FALSE /\ dcloCur = FALSE
      /\ busInit = FALSE /\ busDclo = FALSE
    BY DEF Init, InitSignals
<1>2. Pending(initEvt) = 0 /\ IsAcked(powEvt)
    <2>1. NoEvents \in Event /\ IsAcked(NoEvents) /\ 0 \in Counter
        BY NoEventsType, SignalAssumption DEF NoEvents, IsAcked, Counter
    <2> QED BY <1>1, <2>1, PendingCount
<1>3. InitPhases
    BY <1>1, <1>2 DEF InitPhases, Inside, Replaying, Raising, bus_init_active, Bit
<1>4. CountRead /\ NoPower
    BY <1>1, <1>2 DEF CountRead, NoPower, Replaying
<1>5. NothingLeft
    BY DEF Init, NothingLeft, IsAcked, NoEvents
<1>6. NoneAnswered
    BY <1>1 DEF NoneAnswered, Answering
<1>7. BusFree /\ LoopDone
    BY <1>1 DEF Init, BusFree, LoopDone, Raising, Inside, Idle
<1> QED BY <1>3, <1>4, <1>5, <1>6, <1>7, NothingIsInOrder, InitParts, InvParts DEF MirrorInv, Mirror

(* Every step keeps the mirror as long as no device thread cancels.        *)
LEMMA MirrorKept ==
    ASSUME IntrInv, IntrInv', LongInit, Phases, cancels = 0 => Mirror, [Next]_vars
    PROVE  cancels' = 0 => Mirror'
<1> SUFFICES ASSUME cancels' = 0 PROVE Mirror'
    OBVIOUS
<1>1. CASE DeviceStep
    <2>1. PICK r \in IntrSlots : DeviceRaises(r) \/ DeviceCancels(r)
        BY <1>1 DEF DeviceStep
    <2>2. ~DeviceCancels(r)
        BY DEF DeviceCancels, IntrInv, TypeOK
    <2>3. cancels = 0
        BY <2>1, <2>2 DEF DeviceRaises
    <2> QED BY <2>1, <2>2, <2>3, DeviceMirror
<1>2. CASE WorkerStep
    <2>1. cancels = 0
        BY <1>2 DEF WorkerStep, WorkerSamplesInit, WorkerNotifies, WorkerChecksRegister,
            WorkerServesAccess, WorkerSkipsLevel, WorkerTakesIntr, WorkerAcksIntr, OthersOfWorker, counts
    <2> QED BY <1>2, <2>1, SampleMirror, NotifyMirror, RegisterMirror, LoopMirror, TakeMirror
        DEF WorkerStep
<1>3. CASE BusStep
    <2>1. cancels = 0
        BY <1>3 DEF BusStep, PruSamples, PruTakesGrant, PruStartsIntr, PruSignalsIntr, PruGivesUpIntr,
            ProcessorTakesVector, ProcessorAccesses, InitLineChanges, OthersOfPru, OthersOfBus, counts
    <2> QED BY <1>3, <2>1, PruSampleMirror, GrantMirror, StartMirror, SignalMirror, GiveUpMirror,
        VectorMirror, LineMirror DEF BusStep
<1>4. CASE UNCHANGED vars
    <2>1. /\ UNCHANGED armVars /\ UNCHANGED mirrorVars /\ UNCHANGED <<ssyn, regEvt, cancels>>
        BY <1>4 DEF vars, initVars, workerVars, busVars, signalVars, intrTables, intrPru, intrWorker,
            counts, armVars, mirrorVars
    <2>2. /\ OnePlace' /\ WishesKept'
          /\ \A l \in Levels : (OnPru(l)' <=> OnPru(l)) /\ (Done(l)' <=> Done(l))
                               /\ (Delivered(l)' <=> Delivered(l))
        <3>1. \A l \in Levels : Answering(l)' <=> Answering(l)
            BY <2>1 DEF Answering, armVars
        <3> QED BY <2>1, <3>1, PlacesIdle DEF Mirror
    <2>3. QuietMirror'
        BY <2>1, <2>2, IntrAssumption DEF Mirror, QuietMirror, Quiet, bus_init_active, IntrInv,
            TypeOK, mirrorVars, armVars
    <2>r. Raising' <=> Raising
        BY <2>1 DEF Raising, Inside, armVars
    <2>4. CarriedOut'
        BY <2>1, <2>r, NothingStays DEF Mirror, CarriedOut, bus_init_active, armVars
    <2>5. BusFree' /\ LoopDone'
        BY <2>1, <2>r DEF Mirror, BusFree, LoopDone, IsAcked, mirrorVars, armVars
    <2> QED BY <2>2, <2>3, <2>4, <2>5 DEF Mirror
<1> QED BY <1>1, <1>2, <1>3, <1>4 DEF Next, BusStep

(* The invariant behind the three results below: where INIT, the worker    *)
(* and the PRU can be relative to each other, and with it where each       *)
(* request of a level is.                                                  *)
THEOREM MirrorInductive ==
    ASSUME LongInit
    PROVE  Spec => []MirrorInv
<1>1. Init => MirrorInv
    BY MirrorInitially
<1>2. IntrInv /\ IntrInv' /\ MirrorInv /\ [Next]_vars => MirrorInv'
    <2> SUFFICES ASSUME IntrInv, IntrInv', MirrorInv, [Next]_vars PROVE MirrorInv'
        OBVIOUS
    <2>1. Phases /\ (cancels = 0 => Mirror)
        BY DEF MirrorInv, Phases
    <2>2. Phases'
        BY <2>1, PhasesKept
    <2>3. cancels' = 0 => Mirror'
        BY <2>1, MirrorKept
    <2> QED BY <2>2, <2>3 DEF MirrorInv, Phases
<1> QED BY <1>1, <1>2, Inductive, PTL DEF Spec

(* "the two agree": unless an INIT is on its way to the worker, the PRU    *)
(* holds exactly one interrupt of every level with an active request, with *)
(* that request's vector, and nothing of any other level.                  *)
THEOREM PruAgrees ==
    ASSUME LongInit
    PROVE  Spec => []PruMirrorsTables
<1>1. IntrInv /\ MirrorInv => PruMirrorsTables
    <2> SUFFICES ASSUME IntrInv, MirrorInv, OnlyWorkerCancels, Sampled, IsAcked(initEvt),
                        NEW l \in Levels
                 PROVE  /\ Held(l) = Bit(act[l] # None)
                        /\ l \in brReq \/ granted = l => vec[l] = act[l]
                        /\ master.level = l => master.slot = act[l]
        BY DEF PruMirrorsTables
    <2>1. Mirror /\ Phases
        BY DEF MirrorInv, OnlyWorkerCancels, Phases
    <2>2. NothingLeft \/ Quiet
        <3>1. Pending(initEvt) = 0 /\ initCur = busInit
            BY <2>1, InitFacts DEF Sampled
        <3>2. ~Raising
            BY <2>1, <3>1 DEF Phases, InitPhases
        <3>3. ~bus_init_active => ~initCur
            BY <2>1, <3>1 DEF Phases, InitPhases, Bit
        <3> QED BY <2>1, <3>1, <3>2, <3>3 DEF Mirror, CarriedOut, Quiet
    <2>3. Pending(intrEvt[l]) - Bit(Answering(l)) = Bit(Done(l))
        <3>1. intrEvt[l] \in Event /\ 0 \in Counter
            BY SignalAssumption DEF IntrInv, TypeOK, Counter
        <3>2. Pending(intrEvt[l]) \in {0, 1}
            <4>1. Pending(intrEvt[l]) \in 0 .. EventMod - 1
                BY <3>1, PendingCount
            <4>2. Pending(intrEvt[l]) <= 1
                BY <2>1 DEF Mirror, OnePlace
            <4> QED BY <4>1, <4>2, SignalAssumption
        <3>3. Pending(intrEvt[l]) = 0 <=> IsAcked(intrEvt[l])
            BY <3>1, PendingCount
        <3>4. Answering(l) => ~IsAcked(intrEvt[l])
            BY <2>1 DEF Mirror, OnePlace, Answering
        <3> QED BY <3>2, <3>3, <3>4 DEF Bit, Done, Answering
    <2>4. Held(l) = Bit(l \in brReq) + Bit(granted = l) + Bit(master.level = l) + Bit(Done(l))
        <3>1. Pending(intrEvt[l]) \in Int /\ Bit(Answering(l)) \in Int
            <4>1. intrEvt[l] \in Event /\ 0 \in Counter
                BY SignalAssumption DEF IntrInv, TypeOK, Counter
            <4> QED BY <4>1, PendingCount DEF Bit
        <3> QED BY <2>3, <3>1 DEF Held, Pending, Answering, Bit
    <2>5. act[l] # None <=> OnPru(l) \/ Done(l)
        <3>1. CASE Quiet
            BY <2>1, <3>1 DEF Mirror, QuietMirror, OnePlace
        <3>2. CASE NothingLeft
            BY <2>1, <3>2 DEF NothingLeft, Mirror, OnePlace
        <3> QED BY <2>2, <3>1, <3>2
    <2>6. Held(l) = Bit(act[l] # None)
        BY <2>1, <2>4, <2>5 DEF Mirror, OnePlace, OnPru, Bit
    <2> QED BY <2>1, <2>6 DEF Mirror, OnePlace
<1> QED BY <1>1, Inductive, MirrorInductive, PTL

(* An accepted interrupt that was neither delivered nor withdrawn is in    *)
(* the tables: no completion retires another device's request.             *)
THEOREM NoneLost ==
    ASSUME LongInit
    PROVE  Spec => []NoLostInterrupt
<1>1. MirrorInv => NoLostInterrupt
    BY DEF MirrorInv, NoLostInterrupt, OnlyWorkerCancels, Mirror, WishesKept
<1> QED BY <1>1, MirrorInductive, PTL

(* The vector on the bus is that of a request its device still wants, but  *)
(* for an INIT the worker has still to carry out.                          *)
THEOREM VectorsWanted ==
    ASSUME LongInit
    PROVE  Spec => []VectorIsWanted
<1>1. IntrInv /\ MirrorInv => VectorIsWanted
    <2> SUFFICES ASSUME IntrInv, MirrorInv, OnlyWorkerCancels, master # Idle, ~ssyn,
                        Sampled, IsAcked(initEvt)
                 PROVE  master.slot \in want
        BY DEF VectorIsWanted
    <2>1. Mirror /\ Phases
        BY DEF MirrorInv, OnlyWorkerCancels, Phases
    <2>2. Quiet
        <3>1. Pending(initEvt) = 0 /\ initCur = busInit
            BY <2>1, InitFacts DEF Sampled
        <3>2. ~Raising
            BY <2>1, <3>1 DEF Phases, InitPhases
        <3>3. ~bus_init_active => ~initCur
            BY <2>1, <3>1 DEF Phases, InitPhases, Bit
        <3>4. ~bus_init_active
            BY <2>1, <3>2 DEF Mirror, CarriedOut, NothingLeft
        <3> QED BY <3>1, <3>3, <3>4 DEF Quiet
    <2>3. PICK l \in Levels : l = master.level
        BY <2>1 DEF Mirror, BusFree, IntrInv, TypeOK
    <2>4. /\ master.slot = act[l] /\ act[l] # None /\ ~Done(l)
          /\ act[l] \in sched /\ LevelOf[act[l]] = l
        BY <2>1, <2>3 DEF Mirror, OnePlace, OnPru, IntrInv, LevelTablesConsistent, OfLevel
    <2>5. ~Delivered(l)
        BY <2>4 DEF Delivered
    <2> QED BY <2>1, <2>2, <2>4, <2>5 DEF Mirror, QuietMirror
<1> QED BY <1>1, Inductive, MirrorInductive, PTL
=============================================================================
