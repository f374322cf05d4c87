--------------------------- MODULE BusArbitration ---------------------------
(***************************************************************************)
(* The UniBone card on a UNIBUS: the firmware's main loop                  *)
(* (pru1_main_unibus.c) with its arbitration workers, the DMA and INTR bus *)
(* master state machines, the requests and cancels the ARM hands it, a     *)
(* neighbour card further down the grant chain, and the arbitrator: a      *)
(* physical processor, or the emulated one (sm_arb_worker_cpu) with its    *)
(* own bus cycles. One pass of the loop, one command of the ARM and one    *)
(* change of the neighbour's or the processor's lines is a step.           *)
(***************************************************************************)
EXTENDS PruArbitration

CONSTANTS
    Machines,    \* [processor: {"physical", "emulated"}, neighbour: BOOLEAN]
    PswLevels,   \* priorities the emulated processor runs at
    StaleGrant,  \* a grant of the emulated arbitrator may lose its card: an
                 \* INTR is withdrawn although its BR line is up, or INIT
                 \* comes in the one pass between SACK and the grant's end
    MaxLate,     \* passes of the loop a grant may outlive the SACK it got
    MaxFaults    \* bound: INIT pulses, and grants that time out while the ARM
                 \* holds a register access open

ASSUME MachineAssumption ==
    /\ Machines \subseteq [processor : {"physical", "emulated"}, neighbour : BOOLEAN]
    /\ PswLevels \subseteq 0 .. 7 /\ StaleGrant \in BOOLEAN
    /\ MaxLate \in Nat /\ MaxFaults \in Nat

VARIABLES
    machine,     \* the machine the card is plugged into
    req,         \* sm_arb.device_request_mask
    sig,         \* sm_arb.device_request_signalled_mask
    lines,       \* the BR/NPR lines this card drives, latch 1
    fwd,         \* sm_arb.device_forwarded_grant_mask
    wait,        \* sm_arb.grant_bbsy_ssyn_wait_grant_mask
    cpuReq,      \* sm_arb.cpu_request
    dma,         \* the transfer in mailbox.dma: none, of a device, of the cpu
    sack, bbsy,  \* lines this card drives
    mast,        \* sm_data_master_state
    vector,      \* sm_intr_master.vector, here the level it belongs to
    stretched,   \* a deviceregister event is not acked, SSYN held back
    cmdDone,     \* a command of the ARM was taken since the last pass
    grant,       \* GRANT IN from the processor, or arbitrator_grant_mask
    late,        \* passes since this card's SACK with the grant still there
    pending,     \* mailbox.arbitrator.ifs_intr_arbitration_pending
    awaiting,    \* the physical processor waits for the INTR of its grant
    ssyn,        \* SSYN of the processor fielding an INTR
    cpuBus,      \* the physical processor drives BBSY
    nPhase, nLevel,  \* the neighbour: what it does, at which level
    initOn,      \* INIT line
    faults

armVars == <<req, cpuReq, dma>>
arbVars == <<sig, lines, fwd, wait>>
busVars == <<sack, bbsy, mast, vector>>
cpuVars == <<awaiting, ssyn, cpuBus>>
nVars   == <<nPhase, nLevel>>
initVars == <<initOn, faults>>
vars == <<machine, armVars, arbVars, busVars, stretched, cmdDone, grant, late, pending, cpuVars, nVars, initVars>>

Emulated == machine.processor = "emulated"

Init ==
    /\ machine \in Machines
    /\ req = {} /\ sig = {} /\ lines = {} /\ fwd = {} /\ wait = {} /\ cpuReq = FALSE
    /\ dma = "none" /\ sack = FALSE /\ bbsy = FALSE /\ mast = "none" /\ vector = 0
    /\ stretched = FALSE /\ cmdDone = FALSE /\ grant = {} /\ late = 0 /\ pending = FALSE
    /\ awaiting = FALSE /\ ssyn = FALSE /\ cpuBus = FALSE
    /\ nPhase = "idle" /\ nLevel = NP
    /\ initOn = FALSE /\ faults = 0

(* The wired-or lines.                                                     *)
Lines == lines \cup (IF nPhase \in {"passing", "asking"} THEN {nLevel} ELSE {})
SackLine == sack \/ nPhase \in {"elected", "master"}
BbsyLine == bbsy \/ nPhase \in {"master", "last"} \/ cpuBus

(* GRANT OUT, what the neighbour sees. The emulated arbitrator drives it.  *)
GrantOut == IF Emulated THEN grant ELSE fwd

-----------------------------------------------------------------------------
(* The main loop while the card is not bus master.                         *)

Forward ==
    fwd' = IF Emulated THEN fwd ELSE Forwarded(grant, sig, fwd)

(* The grant of the last arbitration drops before the card has made more   *)
(* than MaxLate passes since it answered with SACK.                        *)
GrantDropsInTime ==
    IF sack /\ grant # {} /\ ~Emulated
    THEN late < MaxLate /\ late' = late + 1
    ELSE late' = 0

(* do_event_initializationsignals(): INIT drops the requests, and the SACK *)
(* of a grant taken that still waits for the bus.                          *)
Kept(mask) == IF initOn THEN {} ELSE mask
KeptSack == sack /\ ~(initOn /\ wait # {})
SackSeen == KeptSack \/ nPhase \in {"elected", "master"}

(* sm_arb_worker_device(in): the emulated processor's cycle is started, a  *)
(* grant is taken, the bus is taken, or the card goes on waiting.          *)
CpuAccess(pend) ==
    /\ cpuReq /\ CpuAccessGranted(Lines, SackSeen, BbsyLine, pend)
    /\ cpuReq' = FALSE
    /\ mast' = "dma_start"
    /\ req' = Kept(req) /\ wait' = Kept(wait) /\ sack' = KeptSack
    /\ UNCHANGED <<sig, lines, vector>>

NoCpuAccess(pend) ==
    /\ ~(cpuReq /\ CpuAccessGranted(Lines, SackSeen, BbsyLine, pend))
    /\ sig' = Kept(req)
    /\ UNCHANGED cpuReq

TakeGrant(in) ==
    /\ Kept(wait) = {}
    /\ LET taken == Accepted(in, Kept(req), fwd') IN
        /\ wait' = taken
        /\ req' = Kept(req) \ taken
        /\ lines' = Kept(req) \ taken
        /\ sack' = (KeptSack \/ taken # {})
    /\ UNCHANGED <<mast, vector>>

TakeBus(in) ==
    /\ Kept(wait) # {}
    /\ MayDrive(in, wait, BbsyLine, ssyn)
    /\ IF NP \in wait
       THEN mast' = "dma_start" /\ UNCHANGED vector
       ELSE mast' = "intr_start" /\ vector' \in wait
    /\ wait' = {}
    /\ lines' = req
    /\ UNCHANGED <<req, sack>>

WaitForBus(in) ==
    /\ Kept(wait) # {}
    /\ ~MayDrive(in, wait, BbsyLine, ssyn)
    /\ lines' = req
    /\ UNCHANGED <<req, wait, sack, mast, vector>>

WorkerDevice(in, pend) ==
    \/ CpuAccess(pend)
    \/ NoCpuAccess(pend) /\ (TakeGrant(in) \/ TakeBus(in) \/ WaitForBus(in))

(* A pass while the ARM holds a register access open: no arbitration.      *)
PassStretched ==
    /\ mast = "none" /\ stretched
    /\ cmdDone' = FALSE
    /\ Forward /\ GrantDropsInTime
    /\ req' = Kept(req) /\ wait' = Kept(wait) /\ sack' = KeptSack
    /\ UNCHANGED <<machine, cpuReq, dma, sig, lines, bbsy, mast, vector, stretched, grant, pending, cpuVars, nVars, initVars>>

PassPhysical ==
    /\ mast = "none" /\ ~stretched /\ ~Emulated
    /\ cmdDone' = FALSE
    /\ Forward /\ GrantDropsInTime
    /\ WorkerDevice(grant, pending)
    /\ UNCHANGED <<machine, dma, bbsy, stretched, grant, pending, cpuVars, nVars, initVars>>

(* sm_arb_worker_cpu() first; level is the processor's, FETCHING included. *)
(* A grant a card is about to answer does not time out (milliseconds).     *)
PassEmulated(level, timedOut) ==
    /\ mast = "none" /\ ~stretched /\ Emulated
    /\ timedOut => ~(nPhase = "asking" /\ nLevel \in grant)
    /\ cmdDone' = FALSE
    /\ Forward /\ GrantDropsInTime
    /\ grant' = ArbitratorGrant(Lines, SackSeen, grant, pending, level, timedOut)
    /\ pending' = FALSE
    /\ WorkerDevice(grant', pending')
    /\ UNCHANGED <<machine, dma, bbsy, stretched, cpuVars, nVars, initVars>>

-----------------------------------------------------------------------------
(* The main loop while the card is bus master: one state a pass.           *)
MasterStep ==
    /\ cmdDone' = FALSE
    /\ UNCHANGED <<machine, vector, req, cpuReq, arbVars, grant, late, pending, cpuVars, nVars, initVars>>

DmaStart ==
    /\ mast = "dma_start"
    /\ bbsy' = TRUE
    /\ mast' = "dma_word"
    /\ UNCHANGED <<sack, dma, stretched>> /\ MasterStep

(* SACK goes with the last word's address, which may be a register of the  *)
(* card itself.                                                            *)
DmaLastWord ==
    /\ mast = "dma_word"
    /\ sack' = FALSE
    /\ mast' = "dma_last"
    /\ stretched' \in {stretched, TRUE}
    /\ UNCHANGED <<bbsy, dma>> /\ MasterStep

DmaEnds ==
    /\ mast = "dma_last"
    /\ bbsy' = FALSE
    /\ mast' = "none"
    /\ dma' = "none"
    /\ UNCHANGED <<sack, stretched>> /\ MasterStep

(* Bus timeout, or INIT before the last word.                              *)
DmaAborts ==
    /\ mast = "dma_word"
    /\ sack' = FALSE
    /\ bbsy' = FALSE
    /\ mast' = "none"
    /\ dma' = "none"
    /\ UNCHANGED stretched /\ MasterStep

IntrStart ==
    /\ mast = "intr_start"
    /\ bbsy' = TRUE
    /\ mast' = "intr_vector"
    /\ UNCHANGED <<sack, dma, stretched>> /\ MasterStep

IntrVector ==
    /\ mast = "intr_vector"
    /\ sack' = FALSE
    /\ mast' = "intr_ssyn"
    /\ UNCHANGED <<bbsy, dma, stretched>> /\ MasterStep

(* Mutant: INIT does not end the wait for SSYN.                            *)
IntrEnds_NoInit ==
    /\ mast = "intr_ssyn"
    /\ ssyn
    /\ bbsy' = FALSE
    /\ mast' = "none"
    /\ UNCHANGED <<sack, dma, stretched>> /\ MasterStep

(* SSYN of the processor, or INIT and no SSYN coming any more. The wait    *)
(* for the ARM to ack the level's previous event only delays this step;    *)
(* IntrScheduler models it.                                                *)
IntrEnds ==
    /\ mast = "intr_ssyn"
    /\ ssyn \/ initOn
    /\ bbsy' = FALSE
    /\ mast' = "none"
    /\ UNCHANGED <<sack, dma, stretched>> /\ MasterStep

-----------------------------------------------------------------------------
(* Commands of the ARM, taken by the loop at the end of a pass.            *)
ArmStep ==
    /\ ~cmdDone /\ cmdDone' = TRUE
    /\ UNCHANGED <<machine, sig, lines, fwd, bbsy, mast, vector, stretched, grant, late, cpuVars, nVars, initVars>>

ArmDma ==
    /\ dma = "none"
    /\ dma' = "device"
    /\ req' = req \cup {NP}
    /\ UNCHANGED <<cpuReq, wait, sack, pending>> /\ ArmStep

(* The emulated processor's thread, not while it waits for an arbitration. *)
ArmCpuDma ==
    /\ Emulated /\ dma = "none" /\ ~pending
    /\ dma' = "cpu"
    /\ cpuReq' = TRUE
    /\ UNCHANGED <<req, wait, sack, pending>> /\ ArmStep

(* Mutant: the SACK of a grant already taken is left on the bus.           *)
ArmDmaCancel_KeepsSack ==
    /\ mast = "none" /\ dma # "none"
    /\ dma' = "none"
    /\ IF dma = "cpu"
       THEN cpuReq' = FALSE /\ UNCHANGED <<req, wait>>
       ELSE /\ req' = req \ {NP}
            /\ wait' = IF NP \in wait THEN {} ELSE wait
            /\ UNCHANGED cpuReq
    /\ UNCHANGED <<sack, pending>> /\ ArmStep

ArmDmaCancel ==
    /\ mast = "none" /\ dma # "none"
    /\ dma' = "none"
    /\ IF dma = "cpu"
       THEN cpuReq' = FALSE /\ UNCHANGED <<req, wait, sack>>
       ELSE /\ req' = req \ {NP}
            /\ wait' = IF NP \in wait THEN {} ELSE wait
            /\ sack' = (sack /\ NP \notin wait)
            /\ UNCHANGED cpuReq
    /\ UNCHANGED pending /\ ArmStep

ArmIntr(l) ==
    /\ l # NP /\ l \notin req \cup wait
    /\ req' = req \cup {l}
    /\ UNCHANGED <<cpuReq, dma, wait, sack, pending>> /\ ArmStep

ArmIntrCancel(l) ==
    /\ l # NP /\ l \in req /\ (StaleGrant \/ ~Emulated \/ l \notin sig)
    /\ req' = req \ {l}
    /\ UNCHANGED <<cpuReq, dma, wait, sack, pending>> /\ ArmStep

ArmGrantInterrupts ==
    /\ Emulated /\ ~cpuReq
    /\ pending' = TRUE
    /\ UNCHANGED <<armVars, wait, sack>> /\ ArmStep

(* The other bus masters address a register of the card; the ARM acks.     *)
RegisterAccess ==
    /\ mast = "none" /\ ~stretched
    /\ cpuBus \/ nPhase \in {"master", "last"}
    /\ stretched' = TRUE
    /\ UNCHANGED <<machine, armVars, arbVars, busVars, cmdDone, grant, late, pending, cpuVars, nVars, initVars>>

ArmAcksRegister ==
    /\ stretched
    /\ stretched' = FALSE
    /\ UNCHANGED <<machine, armVars, arbVars, busVars, cmdDone, grant, late, pending, cpuVars, nVars, initVars>>

-----------------------------------------------------------------------------
(* The physical processor: arbitrator, bus master, interrupt fielding.     *)
CpuStep == UNCHANGED <<machine, armVars, arbVars, busVars, stretched, cmdDone, late, pending, nVars, initOn>>

(* A level is granted when nobody is elected; a BR only between            *)
(* instructions, with no other INTR outstanding.                           *)
CpuGrants(l) ==
    /\ ~Emulated /\ ~initOn
    /\ l \in Highest(Lines) /\ grant = {} /\ ~SackLine
    /\ l # NP => ~awaiting /\ ~cpuBus
    /\ grant' = {l}
    /\ awaiting' = (awaiting \/ l # NP)
    /\ UNCHANGED <<ssyn, cpuBus>> /\ CpuStep /\ UNCHANGED faults

CpuSeesSack ==
    /\ ~Emulated /\ grant # {} /\ SackLine
    /\ grant' = {}
    /\ UNCHANGED cpuVars /\ CpuStep /\ UNCHANGED faults

(* No SACK: never while a card is about to answer (a pass of the loop).    *)
NoSackTimeout ==
    /\ ~Emulated /\ grant # {} /\ ~SackLine
    /\ ~(nPhase = "asking" /\ nLevel \in GrantOut)
    /\ ~(mast = "none" /\ ~stretched /\ Accepted(grant, req, Forwarded(grant, sig, fwd)) # {})
    /\ grant' = {}
    /\ awaiting' = (awaiting /\ NP \in grant)
    /\ IF stretched
       THEN faults < MaxFaults /\ faults' = faults + 1
       ELSE UNCHANGED faults
    /\ UNCHANGED <<ssyn, cpuBus>> /\ CpuStep

CpuTakesBus ==
    /\ ~Emulated /\ ~initOn /\ ~awaiting
    /\ grant = {} /\ ~SackLine /\ ~BbsyLine /\ ~ssyn
    /\ cpuBus' = TRUE
    /\ UNCHANGED <<grant, awaiting, ssyn>> /\ CpuStep /\ UNCHANGED faults

CpuLeavesBus ==
    /\ cpuBus
    /\ cpuBus' = FALSE
    /\ UNCHANGED <<grant, awaiting, ssyn>> /\ CpuStep /\ UNCHANGED faults

(* INTR is answered with SSYN by the processor that granted it; on an      *)
(* emulated one by sm_intr_slave_start().                                  *)
FieldInterrupt ==
    /\ mast = "intr_ssyn" /\ ~ssyn
    /\ Emulated \/ awaiting
    /\ ssyn' = TRUE
    /\ awaiting' = FALSE
    /\ UNCHANGED <<grant, cpuBus>> /\ CpuStep /\ UNCHANGED faults

(* SSYN drops with INTR (sm_intr_slave_state_1()).                         *)
InterruptFielded ==
    /\ ssyn /\ mast # "intr_ssyn"
    /\ ssyn' = FALSE
    /\ UNCHANGED <<grant, awaiting, cpuBus>> /\ CpuStep /\ UNCHANGED faults

-----------------------------------------------------------------------------
(* The neighbour: a card that asked before the grant came may take it, one *)
(* that asks while a grant passes lets it pass.                            *)
NeighbourStep == UNCHANGED <<machine, armVars, arbVars, busVars, stretched, cmdDone, grant, late, pending, ssyn, cpuBus, initVars>>

NeighbourAsks(l) ==
    /\ machine.neighbour /\ nPhase = "idle" /\ ~initOn
    /\ nLevel' = l
    /\ nPhase' = IF l \in GrantOut THEN "passing" ELSE "asking"
    /\ UNCHANGED awaiting /\ NeighbourStep

NeighbourPassed ==
    /\ nPhase = "passing" /\ nLevel \notin GrantOut
    /\ nPhase' = "asking"
    /\ UNCHANGED <<nLevel, awaiting>> /\ NeighbourStep

NeighbourTakesGrant ==
    /\ nPhase = "asking" /\ nLevel \in GrantOut
    /\ nPhase' = "elected"
    /\ UNCHANGED <<nLevel, awaiting>> /\ NeighbourStep

NeighbourTakesBus ==
    /\ nPhase = "elected" /\ nLevel \notin GrantOut /\ ~BbsyLine /\ ~ssyn
    /\ nPhase' = "master"
    /\ UNCHANGED <<nLevel, awaiting>> /\ NeighbourStep

NeighbourDropsSack ==
    /\ nPhase = "master"
    /\ nPhase' = "last"
    /\ UNCHANGED <<nLevel, awaiting>> /\ NeighbourStep

NeighbourLeavesBus ==
    /\ nPhase = "last"
    /\ nPhase' = "idle"
    /\ awaiting' = (awaiting /\ nLevel = NP)   \* its INTR is done
    /\ UNCHANGED nLevel /\ NeighbourStep

-----------------------------------------------------------------------------
(* INIT: the processor and the neighbour start over. It lasts until the    *)
(* loop has made the passes that end the card's own bus cycle and drop a   *)
(* grant that waits for the bus; a RESET of the emulated processor holds   *)
(* it for 10 ms, which outlasts any register access.                       *)
InitAsserted ==
    /\ ~initOn /\ faults < MaxFaults
    /\ StaleGrant \/ ~Emulated \/ wait \cap grant = {}
    /\ initOn' = TRUE /\ faults' = faults + 1
    /\ grant' = IF Emulated THEN grant ELSE {}
    /\ awaiting' = FALSE
    /\ UNCHANGED <<machine, armVars, arbVars, busVars, stretched, cmdDone, late, pending, ssyn, cpuBus, nVars>>

NeighbourInit ==
    /\ initOn /\ nPhase # "idle"
    /\ nPhase' = "idle"
    /\ UNCHANGED <<nLevel, awaiting>> /\ NeighbourStep

InitNegated ==
    /\ initOn /\ nPhase = "idle" /\ mast = "none" /\ wait = {} /\ ~cpuBus
    /\ Emulated => ~stretched /\ lines = {}
    /\ initOn' = FALSE
    /\ UNCHANGED <<machine, armVars, arbVars, busVars, stretched, cmdDone, grant, late, pending, cpuVars, nVars, faults>>

-----------------------------------------------------------------------------
SlavePass ==
    \/ PassStretched \/ PassPhysical
    \/ \E level \in PswLevels \cup {FETCHING}, timedOut \in BOOLEAN : PassEmulated(level, timedOut)

Pass ==
    \/ SlavePass
    \/ DmaStart \/ DmaLastWord \/ DmaEnds \/ DmaAborts
    \/ IntrStart \/ IntrVector \/ IntrEnds

Processor ==
    \/ \E l \in Levels : CpuGrants(l)
    \/ CpuSeesSack \/ NoSackTimeout
    \/ CpuTakesBus \/ CpuLeavesBus
    \/ FieldInterrupt \/ InterruptFielded

NeighbourGoesOn ==
    \/ NeighbourPassed \/ NeighbourTakesGrant \/ NeighbourTakesBus
    \/ NeighbourDropsSack \/ NeighbourLeavesBus \/ NeighbourInit

Neighbour == NeighbourGoesOn \/ \E l \in Levels : NeighbourAsks(l)

Arm ==
    \/ ArmDma \/ ArmCpuDma \/ ArmDmaCancel \/ ArmGrantInterrupts
    \/ \E l \in Levels : ArmIntr(l) \/ ArmIntrCancel(l)
    \/ RegisterAccess \/ ArmAcksRegister

Next == Pass \/ Processor \/ Neighbour \/ Arm \/ InitAsserted \/ InitNegated

(* The loop runs for ever, makes arbitrating passes between two register   *)
(* accesses and does not always miss that the grant is off, or on, for its *)
(* passes are shorter than either; the ARM acks what it is told; a         *)
(* physical processor arbitrates NPR before anything of its own, the cards *)
(* give the bus back after a bounded number of words, and INIT is a pulse. *)
BusFairness ==
    /\ WF_vars(Pass)
    /\ SF_vars(grant = {} /\ PassPhysical) /\ SF_vars(grant # {} /\ PassPhysical)
    /\ WF_vars(ArmAcksRegister)
    /\ WF_vars(CpuSeesSack \/ NoSackTimeout) /\ WF_vars(CpuLeavesBus)
    /\ WF_vars(FieldInterrupt \/ InterruptFielded)
    /\ SF_vars(CpuGrants(NP))
    /\ WF_vars(NeighbourGoesOn)
    /\ SF_vars(InitNegated)

Spec == Init /\ [][Next]_vars /\ BusFairness

-----------------------------------------------------------------------------
Masters == {"none", "dma_start", "dma_word", "dma_last", "intr_start", "intr_vector", "intr_ssyn"}

(* The one-bit lines and flags; the masks, states and counters.           *)
FlagsOK ==
    /\ cpuReq \in BOOLEAN /\ sack \in BOOLEAN /\ bbsy \in BOOLEAN
    /\ stretched \in BOOLEAN /\ cmdDone \in BOOLEAN /\ pending \in BOOLEAN
    /\ awaiting \in BOOLEAN /\ ssyn \in BOOLEAN /\ cpuBus \in BOOLEAN /\ initOn \in BOOLEAN

MasksOK ==
    /\ machine \in Machines
    /\ req \subseteq Levels /\ sig \subseteq Levels /\ lines \subseteq Levels
    /\ fwd \subseteq Levels /\ wait \subseteq Levels /\ grant \subseteq Levels
    /\ dma \in {"none", "device", "cpu"} /\ mast \in Masters /\ vector \in Levels \cup {0}
    /\ nPhase \in {"idle", "passing", "asking", "elected", "master", "last"} /\ nLevel \in Levels
    /\ late \in 0 .. MaxLate /\ faults \in 0 .. MaxFaults

(* The masks hold request lines, and the firmware's master state is one of *)
(* its state functions.                                                    *)
TypeOK == FlagsOK /\ MasksOK

(* Who drives BBSY, and who drives SACK. The emulated processor's cycles   *)
(* are the processor's although this card's latches drive them.            *)
Owners ==
    (IF bbsy THEN IF dma = "cpu" /\ mast \in {"dma_word", "dma_last"} THEN {"processor"} ELSE {"card"} ELSE {})
    \cup (IF nPhase \in {"master", "last"} THEN {"neighbour"} ELSE {})
    \cup (IF cpuBus THEN {"processor"} ELSE {})
Elected ==
    (IF sack THEN {"card"} ELSE {})
    \cup (IF nPhase \in {"elected", "master"} THEN {"neighbour"} ELSE {})

(* "A second SACK on that grant puts two masters on the bus"               *)
(* (pru1_main_unibus.c:164): a grant the card forwarded is not taken by    *)
(* the card as well, one it took is not forwarded, so two cards never      *)
(* drive the bus at once, and the processor never does beside a card.      *)
OneBusMaster ==
    /\ ~(bbsy /\ (nPhase \in {"master", "last"} \/ cpuBus))
    /\ ~(cpuBus /\ nPhase \in {"master", "last"})
    /\ ~(sack /\ nPhase \in {"elected", "master"})

(* "An interrupt the processor is not fielding, whose SSYN never comes"    *)
(* (pru1_main_unibus.c:165): outside INIT the card puts INTR on the bus    *)
(* only while the processor still waits for the INTR of the grant it gave. *)
InterruptAwaited ==
    mast \in {"intr_start", "intr_vector", "intr_ssyn"} /\ ~Emulated /\ ~initOn
        => awaiting \/ ssyn

(* The arbitration of the card, the neighbour and the processor implements *)
(* the abstract election of one bus master at a time.                      *)
BO == INSTANCE BusOwner WITH
        Cards <- {"card", "neighbour"}, owners <- Owners, elected <- Elected
ImplementsBusOwner == BO!Spec

(* SACK "held, it blocks every later arbitration on the bus"               *)
(* (pru1_main_unibus.c:298): the card's SACK always falls, whether the     *)
(* transfer runs, times out, meets INIT or is taken back by the ARM.       *)
SackFalls == sack ~> ~sack

(* Holding BBSY "would keep [the processor] off the bus for good"          *)
(* (pru1_statemachine_intr_master.c:92): a bus cycle of the card ends,     *)
(* INIT or not.                                                            *)
BusReturned == bbsy ~> ~bbsy

(* A transfer handed to the PRU runs, is taken back or loses its request   *)
(* to INIT: the card's NPR is not passed over for ever for the neighbour's,*)
(* and no grant is left on the chain that keeps it from being granted.     *)
DroppedByInit == dma = "device" /\ NP \notin req \cup wait /\ mast = "none"
DmaServed == dma # "none" ~> dma = "none" \/ DroppedByInit
=============================================================================
