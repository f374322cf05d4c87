---------------------------- MODULE DmaScheduler ----------------------------
(***************************************************************************)
(* The NPR (DMA) level of the request scheduler in qunibusadapter.cpp,     *)
(* together with what it shares with the PRU: mailbox->dma, the rollover   *)
(* event counters, the INIT and DCLO notifications.                        *)
(*                                                                         *)
(* Actors: device threads blocked in DMA(), one emulated processor that    *)
(* spins in DMA(), the adapter's worker() thread, and the PRU loop.        *)
(* Whatever runs under requests_mutex is one step, except where the code   *)
(* separates the use of a completion from its EVENT_ACK.                   *)
(***************************************************************************)
EXTENDS InitEvents

CONSTANTS
    DevSlots,       \* priority slots of devices; a lower slot is served first
    CpuSlots,       \* {} or the one slot of the emulated processor (31 in the code)
    TimedSlots,     \* devices that pass a timeout_ms to DMA()
    Words,          \* Words[s]: word counts slot s may ask for (0 = refused extent)
    MaxChunk,       \* PRU_MAX_DMA_WORDCOUNT
    CpuOwnsMemory,  \* registered_cpu->on_dma() may answer a device itself
    PruMayStick,    \* the PRU may stop answering for good
    OtherEvents,    \* register and interrupt events may wake the worker too
    IntrOnBus,      \* the PRU may be bus master for an interrupt
    OrphanExpires,  \* dma_orphan_wait_ns may pass while the latch stands
    MaxCalls        \* bound: MaxCalls[s] is the number of DMA() calls of slot s

Slots == DevSlots \cup CpuSlots
NoSlot == -1                                   \* prl->active == NULL

ASSUME SlotAssumption ==
    /\ DevSlots \subseteq Nat /\ CpuSlots \subseteq Nat
    /\ DevSlots \cap CpuSlots = {}
    /\ TimedSlots \subseteq DevSlots
    /\ \A c, d \in CpuSlots : c = d
ASSUME WordsAssumption ==
    /\ Words \in [Slots -> SUBSET Nat]
    /\ \A c \in CpuSlots : Words[c] = {1}
ASSUME BoundAssumption ==
    /\ MaxChunk \in Nat \ {0}
    /\ MaxCalls \in [Slots -> Nat]
ASSUME FlagAssumption ==
    /\ CpuOwnsMemory \in BOOLEAN /\ PruMayStick \in BOOLEAN
    /\ OrphanExpires \in BOOLEAN /\ OtherEvents \in BOOLEAN /\ IntrOnBus \in BOOLEAN

VARIABLES
    scheduled,   \* slots with slot_request[] # NULL (equals slot_request_mask)
    active,      \* prl->active
    orphan,      \* dma_orphan_on_pru
    complete, success, executing,    \* fields of each slot's dma_request_c
    wordcount, done,                 \* words asked for; words of finished chunks
    mbox,        \* mailbox->dma: status, words, cpu
    dmaEvt,      \* mailbox->events.dma: sig, ack
    pc,          \* where each DMA() caller is
    calls,       \* DMA() calls made, per slot
    spinDone,    \* "completed" of the processor's spin loop
    pruAlive,    \* the PRU answers
    pruReq,      \* sm_arb: npr = NPR raised or granted, cpu = cpu_request
    running, left,                   \* sm_dma holds the bus; cur_wordsleft
    carrier,     \* ghost: slot whose words the PRU is moving
    accepted,    \* ghost: the current call got into the tables
    moved        \* ghost: words moved for the current call

tables == <<scheduled, active>>
reqs   == <<complete, success, executing, wordcount, done>>
pruDma == <<running, left>>
caller == <<pc, calls, spinDone>>
ghosts == <<carrier, accepted, moved>>
vars == <<initVars, tables, orphan, reqs, mbox, dmaEvt, caller, pruAlive, pruReq,
          pruDma, ghosts>>

-----------------------------------------------------------------------------
(* requests_mutex is only seen held between two steps by the spinning      *)
(* processor, which acks the event before it unlocks.                      *)
LockFree == \A c \in CpuSlots : pc[c] # "ack"

(* __builtin_ffs over slot_request_mask *)
LowestSlot(S) == IF S = {} THEN NoSlot ELSE CHOOSE s \in S : \A t \in S : s <= t

MinOf(a, b) == IF a < b THEN a ELSE b

Init ==
    /\ InitSignals
    /\ scheduled = {} /\ active = NoSlot /\ orphan = FALSE
    /\ complete = [s \in Slots |-> FALSE] /\ success = [s \in Slots |-> FALSE]
    /\ executing = [s \in Slots |-> FALSE]
    /\ wordcount = [s \in Slots |-> 0] /\ done = [s \in Slots |-> 0]
    /\ mbox = [status |-> "ready", words |-> 0, cpu |-> FALSE]
    /\ dmaEvt = NoEvents
    /\ pc = [s \in Slots |-> "idle"] /\ calls = [s \in Slots |-> 0]
    /\ spinDone = FALSE
    /\ pruAlive = TRUE /\ pruReq = [npr |-> FALSE, cpu |-> FALSE]
    /\ running = FALSE /\ left = 0
    /\ carrier = NoSlot /\ accepted = [s \in Slots |-> FALSE]
    /\ moved = [s \in Slots |-> 0]

-----------------------------------------------------------------------------
(* The scheduler's helpers, all under requests_mutex.                      *)

(* "DMA held off: the PRU still carries a cancelled transfer"              *)
HeldOff_Never(held) == FALSE                                     \* mutant
HeldOff(held) == held

(* request_execute_active_on_PRU for slot a; ex, wc, dn, pr are executing, *)
(* wordcount, done and pruReq as the caller leaves them.                   *)
ExecuteOnPRU(a, held, ex, wc, dn, pr) ==
    IF a = NoSlot \/ HeldOff(held)
    THEN /\ executing' = ex /\ pruReq' = pr
         /\ UNCHANGED <<mbox, carrier>>
    ELSE /\ mbox' = [status |-> IF pruAlive THEN "arbitrating" ELSE "ready",
                     words |-> MinOf(MaxChunk, wc[a] - dn[a]),
                     cpu |-> a \in CpuSlots]
         /\ pruReq' = [npr |-> pr.npr \/ (pruAlive /\ a \notin CpuSlots),
                       cpu |-> pr.cpu \/ (pruAlive /\ a \in CpuSlots)]
         /\ executing' = [ex EXCEPT ![a] = TRUE]
         /\ carrier' = a

(* ARM2PRU_DMA_CANCEL on the PRU: only a transfer that has not started,    *)
(* and only if sm_data_master_state is NULL. busy: it is not, because an   *)
(* interrupt vector is on the bus, which no asserted INIT allows.          *)
MaybeBusy == {FALSE, IntrOnBus /\ ~initCur}

PruTakesBack(busy) == pruAlive /\ ~running /\ ~busy /\ mbox.status = "arbitrating"

(* dma_cancel_on_pru: the answer is read out of mailbox->dma.              *)
CancelledOnPru(busy) == PruTakesBack(busy) \/ (pruAlive /\ mbox.status = "canceled")

ReqAfterCancel(busy) ==
    IF PruTakesBack(busy)
    THEN [npr |-> pruReq.npr /\ mbox.cpu, cpu |-> pruReq.cpu /\ ~mbox.cpu]
    ELSE pruReq
MboxAfterCancel(busy) ==
    IF PruTakesBack(busy) THEN [mbox EXCEPT !.status = "canceled"] ELSE mbox

(* worker_device_dma_chunk_complete_event; it returns whether the signal   *)
(* was for the active request.                                             *)
ChunkEventIsMine == ~orphan /\ active # NoSlot

(* after the orphan's completion, what it held off is started              *)
StaysHeldOff_Always == TRUE                                      \* mutant
StaysHeldOff == ~orphan

DiscardChunkEvent ==
    /\ ~ChunkEventIsMine
    /\ orphan' = FALSE
    /\ ExecuteOnPRU(active, StaysHeldOff, executing, wordcount, done, pruReq)
    /\ UNCHANGED <<tables, complete, success, wordcount, done>>

ChunkSucceeded_Always == TRUE                                    \* mutant
ChunkSucceeded == mbox.status = "ready"

FinishRequest ==
    /\ ChunkEventIsMine
    /\ \/ mbox.status # "ready"
       \/ done[active] + mbox.words = wordcount[active]
    /\ success' = [success EXCEPT ![active] = ChunkSucceeded]
    /\ complete' = [complete EXCEPT ![active] = @ \/ active \notin CpuSlots]
    /\ scheduled' = scheduled \ {active}
    /\ active' = LowestSlot(scheduled \ {active})
    /\ ExecuteOnPRU(LowestSlot(scheduled \ {active}), FALSE,
                    [executing EXCEPT ![active] = FALSE], wordcount, done, pruReq)
    /\ UNCHANGED <<orphan, wordcount, done>>

(* chunk_qunibus_start_addr = cur_addr + 2, as words from the start        *)
NextChunkStart_SkipsWord == done[active] + mbox.words + 1        \* mutant
NextChunkStart == done[active] + mbox.words

NextChunk ==
    /\ ChunkEventIsMine
    /\ mbox.status = "ready"
    /\ done[active] + mbox.words < wordcount[active]
    /\ done' = [done EXCEPT ![active] = NextChunkStart]
    /\ active' = LowestSlot(scheduled)
    /\ ExecuteOnPRU(LowestSlot(scheduled), FALSE, executing, wordcount,
                    [done EXCEPT ![active] = NextChunkStart], pruReq)
    /\ UNCHANGED <<scheduled, orphan, complete, success, wordcount>>

ChunkComplete == DiscardChunkEvent \/ FinishRequest \/ NextChunk

(* what requests_cancel_scheduled leaves of the latch and of complete      *)
OrphanAfterCancel_Forgotten(expired, asked, busy) == FALSE       \* mutant
OrphanAfterCancel(expired, asked, busy) ==
    (orphan /\ ~expired) \/ (asked /\ ~CancelledOnPru(busy))

CompleteAfterCancel_Unsignalled == complete                      \* mutant
CompleteAfterCancel == [s \in Slots |-> complete[s] \/ s \in scheduled]

(* requests_cancel_all, with requests_cancel_scheduled: every request of   *)
(* the tables is released as failed; what the PRU refuses to give back     *)
(* becomes the orphan. expired: the latch stood for dma_orphan_wait_ns.    *)
CancelAll(expired, busy) ==
    LET asked == \E s \in scheduled : executing[s] IN
    /\ orphan' = OrphanAfterCancel(expired, asked, busy)
    /\ pruReq' = IF asked THEN ReqAfterCancel(busy) ELSE pruReq
    /\ mbox' = IF asked THEN MboxAfterCancel(busy) ELSE mbox
    /\ executing' = [s \in Slots |-> executing[s] /\ s \notin scheduled]
    /\ success' = [s \in Slots |-> success[s] /\ s \notin scheduled]
    /\ complete' = CompleteAfterCancel
    /\ scheduled' = {} /\ active' = NoSlot
    /\ carrier' = NoSlot
    /\ UNCHANGED <<wordcount, done>>

SchedulerUnchanged == UNCHANGED <<tables, orphan, reqs, mbox, pruReq, carrier>>

-----------------------------------------------------------------------------
(* DMA() as its callers see it.                                            *)

Reached(s, place) == pc' = [pc EXCEPT ![s] = place]

CallBegins(s) ==
    /\ pc[s] = "idle" /\ calls[s] < MaxCalls[s]
    /\ calls' = [calls EXCEPT ![s] = @ + 1]
    /\ UNCHANGED <<initVars, dmaEvt, spinDone, pruAlive, pruDma>>

(* refused: nothing to transfer, bus being initialized, or slot occupied   *)
DmaRefused(s, n) ==
    /\ CallBegins(s)
    /\ \/ n = 0
       \/ bus_init_active
       \/ LockFree /\ s \in scheduled
    /\ success' = [success EXCEPT ![s] = FALSE]
    /\ complete' = [complete EXCEPT ![s] = TRUE]
    /\ accepted' = [accepted EXCEPT ![s] = FALSE]
    /\ Reached(s, "read")
    /\ UNCHANGED <<tables, orphan, executing, wordcount, done, mbox, pruReq,
                   carrier, moved>>

(* an emulated processor whose memory is its own answers the device        *)
DmaByCpu(s, n) ==
    /\ CallBegins(s)
    /\ CpuOwnsMemory /\ s \notin CpuSlots
    /\ n \in Words[s] \ {0} /\ ~bus_init_active
    /\ success' = [success EXCEPT ![s] = TRUE]
    /\ complete' = [complete EXCEPT ![s] = TRUE]
    /\ accepted' = [accepted EXCEPT ![s] = FALSE]
    /\ Reached(s, "idle")
    /\ UNCHANGED <<tables, orphan, executing, wordcount, done, mbox, pruReq,
                   carrier, moved>>

DmaScheduled(s, n) ==
    /\ CallBegins(s)
    /\ LockFree
    /\ n \in Words[s] \ {0} /\ ~bus_init_active /\ s \notin scheduled
    /\ complete' = [complete EXCEPT ![s] = FALSE]
    /\ success' = [success EXCEPT ![s] = FALSE]
    /\ wordcount' = [wordcount EXCEPT ![s] = n]
    /\ done' = [done EXCEPT ![s] = 0]
    /\ scheduled' = scheduled \cup {s}
    /\ LET ex == [executing EXCEPT ![s] = FALSE] IN
       IF active = NoSlot
       THEN /\ active' = LowestSlot(scheduled \cup {s})
            /\ ExecuteOnPRU(LowestSlot(scheduled \cup {s}), orphan, ex,
                            [wordcount EXCEPT ![s] = n], [done EXCEPT ![s] = 0],
                            pruReq)
       ELSE /\ executing' = ex
            /\ UNCHANGED <<active, mbox, pruReq, carrier>>
    /\ accepted' = [accepted EXCEPT ![s] = TRUE]
    /\ moved' = [moved EXCEPT ![s] = 0]
    /\ Reached(s, IF s \in CpuSlots THEN "spin" ELSE "wait")
    /\ UNCHANGED orphan

(* the blocking wait on complete_cond ends *)
DmaReturns(s) ==
    /\ pc[s] = "wait" /\ complete[s]
    /\ Reached(s, "read")
    /\ SchedulerUnchanged
    /\ UNCHANGED <<initVars, dmaEvt, calls, spinDone, pruAlive, pruDma, accepted, moved>>

(* pthread_cond_timedwait says ETIMEDOUT *)
DmaTimesOut(s) ==
    /\ s \in TimedSlots
    /\ pc[s] = "wait" /\ ~complete[s]
    /\ success' = [success EXCEPT ![s] = FALSE]
    /\ Reached(s, "abandon")
    /\ UNCHANGED <<tables, orphan, complete, executing, wordcount, done, mbox,
                   pruReq, initVars, dmaEvt, calls, spinDone, pruAlive, pruDma, ghosts>>

(* dma_request_abandon: nothing to do, refused by the PRU, or retired.     *)
KeepsSlot(s, busy) ==
    complete[s] \/ s \notin scheduled \/ (executing[s] /\ ~CancelledOnPru(busy))

DmaAbandonKept(s, busy) ==
    /\ pc[s] = "abandon" /\ LockFree
    /\ KeepsSlot(s, busy)
    /\ Reached(s, "read")
    /\ SchedulerUnchanged
    /\ UNCHANGED <<initVars, dmaEvt, calls, spinDone, pruAlive, pruDma, accepted, moved>>

(* who is active once s is out of the tables                               *)
ActiveWithout_Stale(s) == active                                 \* mutant
ActiveWithout(s) == IF active \in {s, NoSlot} THEN LowestSlot(scheduled \ {s}) ELSE active

(* Retired: the PRU is asked first, then the mailbox may be handed on.     *)
DmaAbandonRetired(s, busy) ==
    LET after == ActiveWithout(s)
        ex == [executing EXCEPT ![s] = FALSE]
        pr == IF executing[s] THEN ReqAfterCancel(busy) ELSE pruReq
    IN
    /\ pc[s] = "abandon" /\ LockFree
    /\ ~KeepsSlot(s, busy)
    /\ scheduled' = scheduled \ {s} /\ active' = after
    /\ IF after # active /\ after # NoSlot /\ ~orphan
       THEN ExecuteOnPRU(after, FALSE, ex, wordcount, done, pr)
       ELSE /\ executing' = ex /\ pruReq' = pr
            /\ mbox' = IF executing[s] THEN MboxAfterCancel(busy) ELSE mbox
            /\ carrier' = IF carrier = s THEN NoSlot ELSE carrier
    /\ complete' = [complete EXCEPT ![s] = TRUE]
    /\ Reached(s, "read")
    /\ UNCHANGED <<orphan, success, wordcount, done, initVars, dmaEvt, calls, spinDone,
                   pruAlive, pruDma, accepted, moved>>

(* The caller looks at dma_request.success after DMA() has returned.       *)
DmaResultRead(s) ==
    /\ pc[s] = "read"
    /\ Reached(s, "idle")
    /\ SchedulerUnchanged
    /\ UNCHANGED <<initVars, dmaEvt, calls, spinDone, pruAlive, pruDma, accepted, moved>>

-----------------------------------------------------------------------------
(* The processor's spin in DMA(): one turn of the loop per step, the       *)
(* EVENT_ACK a step of its own with the mutex still held.                  *)

OthersOfSpin == UNCHANGED <<initVars, calls, pruAlive, pruDma, accepted, moved>>

(* a completion this thread dispatches itself: its own, or the orphan's    *)
EventIsForSpin_OwnOnly(c) == active = c                          \* mutant
EventIsForSpin(c) == active = c \/ (c \notin scheduled /\ orphan)

CpuTakesEvent(c) ==
    /\ pc[c] = "spin"
    /\ ~IsAcked(dmaEvt)
    /\ EventIsForSpin(c)
    /\ ChunkComplete
    /\ spinDone' = (ChunkEventIsMine \/ active # c)
    /\ Reached(c, "ack")
    /\ UNCHANGED dmaEvt
    /\ OthersOfSpin

CpuAcksEvent(c) ==
    /\ pc[c] = "ack"
    /\ dmaEvt' = Ack(dmaEvt)
    /\ Reached(c, IF spinDone THEN "read" ELSE "spin")
    /\ SchedulerUnchanged
    /\ UNCHANGED spinDone
    /\ OthersOfSpin

(* the access was cancelled by INIT or power, and the PRU owes nothing     *)
CpuSeesCancel(c) ==
    /\ pc[c] = "spin"
    /\ active # c /\ c \notin scheduled /\ ~orphan
    /\ Reached(c, "read")
    /\ SchedulerUnchanged
    /\ UNCHANGED <<dmaEvt, spinDone>>
    /\ OthersOfSpin

(* dma_orphan_wait_ns has passed: the access fails and leaves the tables.  *)
(* What comes behind it is activated, but held off by the standing latch.  *)
CpuGivesUp(c) ==
    /\ OrphanExpires
    /\ pc[c] = "spin" /\ orphan
    /\ IsAcked(dmaEvt) \/ (active # c /\ c \in scheduled)
    /\ scheduled' = scheduled \ {c}
    /\ active' = ActiveWithout(c)
    /\ executing' = [executing EXCEPT ![c] = @ /\ c \notin scheduled]
    /\ complete' = [complete EXCEPT ![c] = @ \/ c \in scheduled]
    /\ Reached(c, "read")
    /\ UNCHANGED <<orphan, success, wordcount, done, mbox, pruReq, carrier,
                   dmaEvt, spinDone>>
    /\ OthersOfSpin

-----------------------------------------------------------------------------
(* worker(): INIT and power as in InitEvents, the DMA event between them   *)
(* and the rising INIT at the end of the pass.                             *)

OthersOfWorker == UNCHANGED <<caller, pruAlive, pruDma, accepted, moved>>

WorkerSamplesInit ==
    /\ WorkerWakes \/ WorkerReadsInitCount \/ WorkerReadsInitLevel
    /\ SchedulerUnchanged
    /\ UNCHANGED dmaEvt
    /\ OthersOfWorker

(* worker_init_event() and worker_power_event() *)
WorkerNotifies ==
    /\ \/ WorkerReplaysFarSide \/ WorkerReplaysNearSide
       \/ WorkerPower("dma") \/ WorkerEndsPass
    /\ IF Cancels THEN LockFree /\ \E x \in {FALSE, OrphanExpires}, busy \in MaybeBusy : CancelAll(x, busy)
                  ELSE SchedulerUnchanged
    /\ UNCHANGED dmaEvt
    /\ OthersOfWorker

OthersOfDmaEvent ==
    /\ UNCHANGED <<wRaise, wSeen, lineInit, initReplay, lineDclo, signalVars, irq, busVars>>
    /\ OthersOfWorker

(* the test for a device DMA event is made without the mutex *)
WorkerChecksDma ==
    /\ wpc = "dma"
    /\ LET mine == ~IsAcked(dmaEvt) /\ ~mbox.cpu IN
       /\ wpc' = IF mine THEN "dmaLock" ELSE "raise"
       /\ wAny' = (wAny \/ mine)
    /\ SchedulerUnchanged
    /\ UNCHANGED dmaEvt
    /\ OthersOfDmaEvent

WorkerTakesDma ==
    /\ wpc = "dmaLock" /\ LockFree
    /\ ChunkComplete
    /\ wpc' = "dmaAck"
    /\ UNCHANGED <<wAny, dmaEvt>>
    /\ OthersOfDmaEvent

WorkerAcksDma ==
    /\ wpc = "dmaAck"
    /\ dmaEvt' = Ack(dmaEvt)
    /\ wpc' = "raise"
    /\ SchedulerUnchanged
    /\ UNCHANGED wAny
    /\ OthersOfDmaEvent

-----------------------------------------------------------------------------
(* The PRU loop. INIT and DCLO are sampled at the head of a slave pass, so *)
(* an arbitration always follows a sample of the current lines.            *)

OthersOfPru == UNCHANGED <<tables, orphan, reqs, caller, accepted>>

(* do_event_initializationsignals: an asserted INIT also drops the request *)
PruSamples ==
    /\ pruAlive /\ ~running
    /\ ~Sampled \/ (busInit /\ pruReq.npr)
    /\ PruSignalsChange
    /\ pruReq' = [pruReq EXCEPT !.npr = @ /\ ~busInit]
    /\ UNCHANGED <<mbox, dmaEvt, pruAlive, pruDma, carrier, moved>>
    /\ OthersOfPru

(* sm_arb_worker_device: NPR is granted, or the processor finds the bus    *)
(* idle; sm_dma_start takes mailbox->dma as it stands.                     *)
PruStartsDma ==
    /\ pruAlive /\ ~running /\ Sampled
    /\ \/ pruReq.npr /\ ~busInit /\ pruReq' = [pruReq EXCEPT !.npr = FALSE]
       \/ pruReq.cpu /\ ~pruReq.npr /\ pruReq' = [pruReq EXCEPT !.cpu = FALSE]
    /\ running' = TRUE /\ left' = mbox.words
    /\ mbox' = [mbox EXCEPT !.status = "running"]
    /\ UNCHANGED <<initVars, dmaEvt, pruAlive, carrier, moved>>
    /\ OthersOfPru

(* sm_dma_state_1..99: one word, or a bus timeout *)
PruMovesWord(timeout) ==
    LET last == left = 1
        final == IF timeout THEN "timeoutstop"
                 ELSE IF last THEN "ready"
                 ELSE IF busInit THEN "initstop" ELSE "running"
    IN
    /\ pruAlive /\ running /\ mbox.status = "running"
    /\ left' = IF timeout THEN left ELSE left - 1
    /\ moved' = IF timeout \/ carrier = NoSlot THEN moved
                ELSE [moved EXCEPT ![carrier] = @ + 1]
    /\ running' = (final = "running")
    /\ mbox' = [mbox EXCEPT !.status = final]
    /\ dmaEvt' = IF final = "running" THEN dmaEvt ELSE Signal(dmaEvt)
    /\ irq' = (irq \/ (final # "running" /\ ~mbox.cpu))
    /\ UNCHANGED <<workerVars, busVars, signalVars, pruAlive, pruReq, carrier>>
    /\ OthersOfPru

(* sm_dma_state_1 finds cur_status overwritten: it stops without a signal  *)
PruStopsSilently ==
    /\ pruAlive /\ running /\ mbox.status # "running"
    /\ running' = FALSE
    /\ UNCHANGED <<initVars, left, mbox, dmaEvt, pruAlive, pruReq, carrier, moved>>
    /\ OthersOfPru

(* Register accesses and finished interrupts raise PRU2ARM_INTERRUPT too;  *)
(* here they only make the worker run a pass.                              *)
PruOtherEvent ==
    /\ OtherEvents /\ pruAlive /\ ~irq
    /\ irq' = TRUE
    /\ UNCHANGED <<workerVars, busVars, signalVars, mbox, dmaEvt, pruAlive, pruReq,
                   pruDma, carrier, moved>>
    /\ OthersOfPru

PruSticks ==
    /\ PruMayStick /\ pruAlive
    /\ pruAlive' = FALSE
    /\ UNCHANGED <<initVars, mbox, dmaEvt, pruReq, pruDma, carrier, moved>>
    /\ OthersOfPru

-----------------------------------------------------------------------------
(* The backplane: INIT or DCLO changes.                                    *)
BackplaneStep ==
    /\ InitChanges \/ DcloChanges
    /\ UNCHANGED <<tables, orphan, reqs, mbox, dmaEvt, caller, pruAlive, pruReq,
                   pruDma, ghosts>>

-----------------------------------------------------------------------------
DeviceStep(s) ==
    \/ \E n \in Words[s] : DmaRefused(s, n) \/ DmaByCpu(s, n) \/ DmaScheduled(s, n)
    \/ DmaReturns(s) \/ DmaTimesOut(s) \/ DmaResultRead(s)
    \/ \E busy \in MaybeBusy : DmaAbandonKept(s, busy) \/ DmaAbandonRetired(s, busy)

CpuStep(c) == CpuTakesEvent(c) \/ CpuAcksEvent(c) \/ CpuSeesCancel(c) \/ CpuGivesUp(c)

WorkerStep == \/ WorkerSamplesInit \/ WorkerNotifies
              \/ WorkerChecksDma \/ WorkerTakesDma \/ WorkerAcksDma

PruStep == \/ PruSamples \/ PruStartsDma
           \/ \E timeout \in BOOLEAN : PruMovesWord(timeout)
           \/ PruStopsSilently

Next ==
    \/ \E s \in Slots : DeviceStep(s)
    \/ \E c \in CpuSlots : CpuStep(c)
    \/ WorkerStep
    \/ PruStep
    \/ PruOtherEvent
    \/ PruSticks
    \/ BackplaneStep

Spec == Init /\ [][Next]_vars

(* The worker is a realtime thread, the PRU loop never stops while alive,  *)
(* a live arbitrator grants NPR, and a caller that can go on does.         *)
Fairness ==
    /\ WF_vars(WorkerStep)
    /\ WF_vars(PruSamples) /\ WF_vars(PruStartsDma) /\ WF_vars(PruStopsSilently)
    /\ WF_vars(\E timeout \in BOOLEAN : PruMovesWord(timeout))
    /\ \A c \in CpuSlots : WF_vars(CpuStep(c))
    /\ \A s \in Slots : /\ WF_vars(DmaReturns(s) \/ DmaResultRead(s))
                        /\ WF_vars(DmaTimesOut(s))
                        /\ WF_vars(\E busy \in MaybeBusy : \/ DmaAbandonKept(s, busy)
                                                              \/ DmaAbandonRetired(s, busy))

FairSpec == Spec /\ Fairness

-----------------------------------------------------------------------------
Statuses == {"ready", "arbitrating", "running", "timeoutstop", "initstop", "canceled"}
Finished == {"ready", "timeoutstop", "initstop"}

SchedulerType == scheduled \in SUBSET Slots /\ active \in Slots \cup {NoSlot} /\ orphan \in BOOLEAN

RequestsType ==
    /\ complete \in [Slots -> BOOLEAN] /\ success \in [Slots -> BOOLEAN]
    /\ executing \in [Slots -> BOOLEAN]
    /\ wordcount \in [Slots -> Nat] /\ done \in [Slots -> Nat]

MailboxType ==
    /\ mbox \in [status : Statuses, words : Nat, cpu : BOOLEAN]
    /\ dmaEvt \in Event

CallerType ==
    /\ pc \in [Slots -> {"idle", "wait", "abandon", "spin", "ack", "read"}]
    /\ calls \in [Slots -> Nat] /\ spinDone \in BOOLEAN
    /\ accepted \in [Slots -> BOOLEAN]

PruType ==
    /\ pruAlive \in BOOLEAN /\ pruReq \in [npr : BOOLEAN, cpu : BOOLEAN]
    /\ running \in BOOLEAN /\ left \in Nat
    /\ carrier \in Slots \cup {NoSlot} /\ moved \in [Slots -> Nat]

(* Type invariant of the scheduler, the mailbox, the callers, the worker   *)
(* and the PRU; left \in Nat says the PRU never counts below zero words.   *)
TypeOK == /\ SignalsTypeOK /\ SchedulerType /\ RequestsType
          /\ MailboxType /\ CallerType /\ PruType

(* The asserts of request_activate_lowest_slot and request_active_complete:*)
(* a request is active exactly when some slot requests, and the active one *)
(* is in its slot, whatever INIT, timeouts and a dead PRU did meanwhile.   *)
TablesConsistent ==
    /\ (active = NoSlot) <=> (scheduled = {})
    /\ active # NoSlot => active \in scheduled

(* The asserts of request_execute_active_on_PRU and the chunk completion:  *)
(* unless an orphan owns it, the mailbox describes a non-empty part of     *)
(* what the active request still has to transfer.                          *)
ChunkFits ==
    active # NoSlot /\ ~orphan =>
        /\ mbox.words > 0
        /\ done[active] + mbox.words <= wordcount[active]

(* What makes the three inductive: a request in the tables has words left, *)
(* and the PRU never starts or continues a transfer of no words.           *)
WithinRequest == \A s \in scheduled : done[s] < wordcount[s]
PruHasWords ==
    /\ pruReq.npr \/ pruReq.cpu => mbox.words > 0
    /\ running /\ mbox.status = "running" => left > 0
IndInv == TypeOK /\ TablesConsistent /\ ChunkFits /\ WithinRequest /\ PruHasWords

B(b) == IF b THEN 1 ELSE 0

(* What the PRU still owes: a transfer it wants the bus for or is running, *)
(* and completions signalled that nobody has taken yet.                    *)
Taken == B(wpc = "dmaAck") + B(~LockFree)
Owed == B(pruReq.npr) + B(pruReq.cpu) + B(running)
        + ((dmaEvt.sig - dmaEvt.ack) % EventMod) - Taken

(* mailbox->dma is never shared: the PRU holds at most one transfer or one *)
(* untaken completion, and the orphan latch stands only while it does.     *)
MailboxNotShared == Owed \in {0, 1} /\ (orphan => Owed = 1)

(* No active transfer is forgotten: if the PRU holds nothing for it, it    *)
(* dropped the request on INIT and the worker has yet to cancel it.        *)
NoForgottenTransfer ==
    active # NoSlot /\ Owed = 0 => ~IsAcked(initEvt)

(* A completion is only ever accounted to a transfer the PRU has ended.    *)
CompletionIsFinished ==
    [][/\ ChunkEventIsMine
       /\ \/ wpc = "dmaLock" /\ wpc' = "dmaAck"
          \/ \E c \in CpuSlots : pc[c] = "spin" /\ pc'[c] = "ack"
       => mbox.status \in Finished]_vars

(* "not called for CPU DATI/DATO": what the worker completes is a device   *)
(* transfer the PRU has ended.                                             *)
WorkerCompletesFinished ==
    [][wpc = "dmaLock" /\ wpc' = "dmaAck" /\ ChunkEventIsMine
       => mbox.status \in Finished]_vars

(* A transfer reported as successful moved exactly the words asked for,    *)
(* chunk by chunk, also when INIT or a deadline struck in between.         *)
SuccessMeansMoved ==
    \A s \in Slots : accepted[s] /\ success[s] => moved[s] = wordcount[s]

(* Once the worker has acknowledged an asserted INIT, no request stands    *)
(* until INIT ends, although DMA() tests line_INIT before it locks.        *)
InitClearsRequests == lineInit /\ IsAcked(initEvt) => scheduled = {}

(* Every DMA() call comes back to its caller.                              *)
EveryCallReturns ==
    \A s \in Slots : pc[s] \in {"wait", "abandon", "spin", "ack"} ~> pc[s] = "read"
=============================================================================
