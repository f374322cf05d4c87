------------------------ MODULE BusArbitrationProofs ------------------------
(***************************************************************************)
(* For every set of levels, any number of INITs and timeouts, and grants   *)
(* that may lose their card: the bus of BusArbitration has one master, the *)
(* card interrupts only a processor that waits for it, and the arbitration *)
(* implements BusOwner. The same for the bus with the emulated processor   *)
(* of InterruptFielding behind it.                                         *)
(***************************************************************************)
EXTENDS InterruptFielding, TLAPS

(***************************************************************************)
(* The two assumptions about the machine: the emulated arbitrator is on a  *)
(* card without neighbours, and a grant outlives its SACK by at most one   *)
(* pass of the loop.                                                       *)
(***************************************************************************)
SoleArbitrator == \A m \in Machines : ~(m.processor = "emulated" /\ m.neighbour)
GrantsEnd == MaxLate <= 1

(***************************************************************************)
(* The inductive invariant.                                                *)
(***************************************************************************)
DmaStates == {"dma_start", "dma_word", "dma_last"}
IntrStates == {"intr_start", "intr_vector", "intr_ssyn"}

(* What the ARM asked for, what the arbitration holds and what the master  *)
(* state machine does belong together; SACK and BBSY follow from them.     *)
ClaimsAgree ==
    /\ NP \in req \cup wait => dma = "device"
    /\ NP \in wait => NP \notin req
    /\ cpuReq => dma = "cpu"
    /\ mast # "none" => wait = {}
    /\ mast \in DmaStates => dma # "none" /\ ~cpuReq /\ NP \notin req
    /\ sack <=> \/ wait # {}
                \/ mast \in {"dma_start", "dma_word"} /\ dma = "device"
                \/ mast \in {"intr_start", "intr_vector"}
    /\ bbsy <=> mast \in {"dma_word", "dma_last", "intr_vector", "intr_ssyn"}

(* An emulated processor has no physical one beside it, and no neighbour.  *)
MachineFits ==
    /\ dma = "cpu" => Emulated
    /\ Emulated => nPhase = "idle" /\ ~cpuBus

OneGrant == grant = {} \/ \E l \in Levels : grant = {l}

(* Physical processor: a grant is the card's or the neighbour's.           *)
GrantHasOneTaker ==
    /\ OneGrant
    /\ sack /\ grant # {} => grant \cap fwd = {} /\ (late = 0 => grant \subseteq sig)
    /\ nPhase = "asking" /\ nLevel \in fwd => ~sack /\ (initOn \/ grant = {nLevel})
    /\ nPhase = "elected" => ~sack /\ (grant = {} \/ (grant = {nLevel} /\ nLevel \in fwd))
    /\ nPhase = "master" => ~sack /\ grant = {}
    /\ nPhase \in {"master", "last"} => mast = "none" /\ ~cpuBus
    /\ cpuBus => mast = "none"

(* Physical processor, outside INIT: it waits for the INTR of a BR grant   *)
(* until the one card that has the grant has been fielded.                 *)
NeighbourInterrupts == nPhase \in {"elected", "master", "last"} /\ nLevel # NP
CardInterrupts == wait \ {NP} # {} \/ (mast \in IntrStates /\ ~ssyn)
GrantIsAwaited ==
    /\ initOn => grant = {}
    /\ ssyn => mast \in {"none", "intr_ssyn"}
    /\ ~initOn =>
        /\ grant \ {NP} # {} \/ CardInterrupts \/ NeighbourInterrupts => awaiting
        /\ ~(CardInterrupts /\ NeighbourInterrupts)
        /\ wait \ {NP} # {} => grant \ {NP} \subseteq wait
        /\ mast \in IntrStates /\ ~ssyn => grant \subseteq {NP}
        /\ NeighbourInterrupts /\ nPhase # "elected" => grant \subseteq {NP}

BusInv ==
    /\ TypeOK /\ ClaimsAgree /\ MachineFits
    /\ ~Emulated => GrantHasOneTaker /\ GrantIsAwaited

-----------------------------------------------------------------------------
(* Types: first the masks and states, then the flags.                      *)

(* The arbitrator grants a level that is on the lines, or keeps its grant. *)
LEMMA GrantIsLevel ==
    ASSUME NEW rlines \in SUBSET Levels, NEW rsack, NEW g \in SUBSET Levels,
           NEW pend, NEW lev, NEW timedOut
    PROVE  ArbitratorGrant(rlines, rsack, g, pend, lev, timedOut) \in SUBSET Levels
BY LevelsAssumption DEF ArbitratorGrant, Highest

(* The wired-or lines are request lines.                                   *)
LEMMA LinesAreLevels == MasksOK => Lines \in SUBSET Levels
BY DEF MasksOK, Lines

(* sm_arb_worker_device() keeps the masks within the request lines.        *)
LEMMA WorkerMasks ==
    ASSUME MasksOK, NEW in, in \in SUBSET Levels, NEW pend, WorkerDevice(in, pend)
    PROVE  /\ req' \in SUBSET Levels /\ sig' \in SUBSET Levels /\ lines' \in SUBSET Levels
           /\ wait' \in SUBSET Levels /\ mast' \in Masters /\ vector' \in Levels \cup {0}
<1> USE DEF MasksOK, Masters, Kept
<1>1. CASE CpuAccess(pend)
    BY <1>1 DEF CpuAccess
<1>2. CASE NoCpuAccess(pend) /\ TakeGrant(in)
    BY <1>2 DEF NoCpuAccess, TakeGrant, Accepted
<1>3. CASE NoCpuAccess(pend) /\ TakeBus(in)
    BY <1>3 DEF NoCpuAccess, TakeBus
<1>4. CASE NoCpuAccess(pend) /\ WaitForBus(in)
    BY <1>4 DEF NoCpuAccess, WaitForBus
<1> QED BY <1>1, <1>2, <1>3, <1>4 DEF WorkerDevice

(* So does the forwarding of grants.                                       *)
LEMMA ForwardMasks ==
    ASSUME MasksOK, Forward, GrantDropsInTime
    PROVE  fwd' \in SUBSET Levels /\ late' \in 0 .. MaxLate
BY MachineAssumption DEF MasksOK, Forward, Forwarded, GrantDropsInTime

(* Every pass of the loop keeps the types of masks and states,             *)
LEMMA PassMasks == MasksOK /\ Pass => MasksOK'
<1> SUFFICES ASSUME MasksOK, Pass PROVE MasksOK'
    OBVIOUS
<1>1. CASE PassStretched
    BY <1>1, ForwardMasks DEF PassStretched, MasksOK, nVars, initVars, Kept
<1>2. CASE PassPhysical
    <2>1. WorkerDevice(grant, pending) /\ grant \in SUBSET Levels /\ Forward /\ GrantDropsInTime
        BY <1>2 DEF PassPhysical, MasksOK
    <2>2. /\ req' \in SUBSET Levels /\ sig' \in SUBSET Levels /\ lines' \in SUBSET Levels
          /\ wait' \in SUBSET Levels /\ mast' \in Masters /\ vector' \in Levels \cup {0}
        BY <2>1, WorkerMasks
    <2> QED BY <1>2, <2>1, <2>2, ForwardMasks DEF PassPhysical, MasksOK, nVars, initVars
<1>3. ASSUME NEW lev, NEW timedOut \in BOOLEAN, PassEmulated(lev, timedOut) PROVE MasksOK'
    <2>1. grant' \in SUBSET Levels
        BY <1>3, LinesAreLevels, GrantIsLevel DEF PassEmulated, MasksOK
    <2>2. WorkerDevice(grant', pending') /\ Forward /\ GrantDropsInTime
        BY <1>3 DEF PassEmulated
    <2>3. /\ req' \in SUBSET Levels /\ sig' \in SUBSET Levels /\ lines' \in SUBSET Levels
          /\ wait' \in SUBSET Levels /\ mast' \in Masters /\ vector' \in Levels \cup {0}
        BY <2>1, <2>2, WorkerMasks
    <2> QED BY <1>3, <2>1, <2>2, <2>3, ForwardMasks DEF PassEmulated, MasksOK, nVars, initVars
<1>4. CASE DmaStart \/ DmaLastWord \/ DmaEnds \/ DmaAborts
    BY <1>4 DEF DmaStart, DmaLastWord, DmaEnds, DmaAborts, MasterStep, MasksOK, Masters,
        arbVars, nVars, initVars
<1>5. CASE IntrStart \/ IntrVector \/ IntrEnds
    BY <1>5 DEF IntrStart, IntrVector, IntrEnds, MasterStep, MasksOK, Masters,
        arbVars, nVars, initVars
<1> QED BY <1>1, <1>2, <1>3, <1>4, <1>5 DEF Pass, SlavePass

(* and so does everybody else.                                             *)
LEMMA OtherMasks ==
    MasksOK /\ (Processor \/ Neighbour \/ Arm \/ InitAsserted \/ InitNegated) => MasksOK'
<1> SUFFICES ASSUME MasksOK, Processor \/ Neighbour \/ Arm \/ InitAsserted \/ InitNegated
             PROVE  MasksOK'
    OBVIOUS
<1> USE DEF MasksOK, armVars, arbVars, busVars, nVars, initVars
<1>1. CASE Processor
    BY <1>1, MachineAssumption
    DEF Processor, CpuGrants, CpuSeesSack, NoSackTimeout, CpuTakesBus,
        CpuLeavesBus, FieldInterrupt, InterruptFielded, CpuStep
<1>2. CASE Neighbour
    BY <1>2 DEF Neighbour, NeighbourGoesOn, NeighbourAsks, NeighbourPassed, NeighbourTakesGrant,
        NeighbourTakesBus, NeighbourDropsSack, NeighbourLeavesBus, NeighbourInit, NeighbourStep
<1>3. CASE ArmDma \/ ArmCpuDma \/ ArmDmaCancel \/ ArmGrantInterrupts
    BY <1>3, LevelsAssumption DEF ArmDma, ArmCpuDma, ArmDmaCancel, ArmGrantInterrupts, ArmStep
<1>4. CASE (\E l \in Levels : ArmIntr(l) \/ ArmIntrCancel(l)) \/ RegisterAccess \/ ArmAcksRegister
    BY <1>4 DEF ArmIntr, ArmIntrCancel, RegisterAccess, ArmAcksRegister, ArmStep
<1>5. CASE InitAsserted \/ InitNegated
    BY <1>5, MachineAssumption DEF InitAsserted, InitNegated
<1> QED BY <1>1, <1>2, <1>3, <1>4, <1>5 DEF Arm

(* The flags of sm_arb_worker_device() stay Boolean.                       *)
LEMMA WorkerFlags ==
    ASSUME FlagsOK, NEW in, NEW pend, WorkerDevice(in, pend)
    PROVE  cpuReq' \in BOOLEAN /\ sack' \in BOOLEAN
BY Zenon DEF FlagsOK, WorkerDevice, CpuAccess, NoCpuAccess, TakeGrant, TakeBus, WaitForBus, KeptSack

(* So do all flags in every step.                                          *)
LEMMA FlagsStep == FlagsOK /\ Next => FlagsOK'
<1> SUFFICES ASSUME FlagsOK, Next PROVE FlagsOK'
    OBVIOUS
<1> USE DEF armVars, arbVars, busVars, cpuVars, initVars
<1>1. CASE PassStretched
    BY <1>1, Zenon DEF FlagsOK, PassStretched, KeptSack
<1>2. CASE PassPhysical
    BY <1>2, WorkerFlags, Zenon DEF FlagsOK, PassPhysical
<1>3. ASSUME NEW lev, NEW timedOut, PassEmulated(lev, timedOut) PROVE FlagsOK'
    BY <1>3, WorkerFlags, Zenon DEF FlagsOK, PassEmulated
<1>4. ASSUME MasterStep, stretched' \in {stretched, TRUE}, sack' \in {sack, FALSE}, bbsy' \in BOOLEAN
      PROVE  FlagsOK'
    BY <1>4, Zenon DEF FlagsOK, MasterStep
<1>5. CASE DmaStart \/ DmaLastWord \/ DmaEnds \/ DmaAborts \/ IntrStart \/ IntrVector \/ IntrEnds
    BY <1>4, <1>5, Zenon
    DEF FlagsOK, DmaStart, DmaLastWord, DmaEnds, DmaAborts, IntrStart, IntrVector, IntrEnds
<1>6. ASSUME CpuStep, awaiting' \in BOOLEAN, ssyn' \in BOOLEAN, cpuBus' \in BOOLEAN PROVE FlagsOK'
    BY <1>6, Zenon DEF FlagsOK, CpuStep
<1>7. CASE Processor
    BY <1>6, <1>7, Zenon
    DEF FlagsOK, Processor, CpuGrants, CpuSeesSack, NoSackTimeout, CpuTakesBus,
        CpuLeavesBus, FieldInterrupt, InterruptFielded
<1>8. ASSUME NeighbourStep, awaiting' \in BOOLEAN PROVE FlagsOK'
    BY <1>8, Zenon DEF FlagsOK, NeighbourStep
<1>9. CASE Neighbour
    BY <1>8, <1>9, Zenon
    DEF FlagsOK, Neighbour, NeighbourGoesOn, NeighbourAsks, NeighbourPassed, NeighbourTakesGrant,
        NeighbourTakesBus, NeighbourDropsSack, NeighbourLeavesBus, NeighbourInit
<1>10. ASSUME ArmStep, cpuReq' \in BOOLEAN, sack' \in BOOLEAN, pending' \in BOOLEAN PROVE FlagsOK'
    BY <1>10, Zenon DEF FlagsOK, ArmStep
<1>11. CASE ArmDma \/ ArmCpuDma \/ ArmDmaCancel \/ ArmGrantInterrupts
    BY <1>10, <1>11, Zenon DEF FlagsOK, ArmDma, ArmCpuDma, ArmDmaCancel, ArmGrantInterrupts
<1>12. CASE \E l \in Levels : ArmIntr(l) \/ ArmIntrCancel(l)
    BY <1>10, <1>12, Zenon DEF FlagsOK, ArmIntr, ArmIntrCancel
<1>13. CASE RegisterAccess \/ ArmAcksRegister
    BY <1>13, Zenon DEF FlagsOK, RegisterAccess, ArmAcksRegister
<1>14. CASE InitAsserted \/ InitNegated
    BY <1>14, Zenon DEF FlagsOK, InitAsserted, InitNegated
<1> QED BY <1>1, <1>2, <1>3, <1>5, <1>7, <1>9, <1>11, <1>12, <1>13, <1>14, Zenon
    DEF Next, Pass, SlavePass, Arm

(* Types are preserved without any further assumption.                     *)
LEMMA TypeStep == TypeOK /\ [Next]_vars => TypeOK'
<1>1. MasksOK /\ UNCHANGED vars => MasksOK'
    BY DEF MasksOK, vars, armVars, arbVars, busVars, cpuVars, nVars, initVars
<1>2. FlagsOK /\ UNCHANGED vars => FlagsOK'
    BY Zenon DEF FlagsOK, vars, armVars, arbVars, busVars, cpuVars, nVars, initVars
<1> QED BY <1>1, <1>2, PassMasks, OtherMasks, FlagsStep DEF Next, TypeOK

-----------------------------------------------------------------------------
(* Claims, SACK and BBSY.                                                  *)

(* sm_arb_worker_device() hands a claim on: request, grant taken, bus      *)
(* master.                                                                 *)
LEMMA WorkerClaims ==
    ASSUME ClaimsAgree, mast = "none", NEW in, NEW pend, WorkerDevice(in, pend),
           UNCHANGED <<dma, bbsy>>
    PROVE  ClaimsAgree'
<1> USE DEF ClaimsAgree, Kept, KeptSack, DmaStates
<1>1. CASE CpuAccess(pend)
    BY <1>1 DEF CpuAccess, CpuAccessGranted, SackSeen
<1>2. CASE NoCpuAccess(pend) /\ TakeGrant(in)
    BY <1>2 DEF NoCpuAccess, TakeGrant, Accepted
<1>3. CASE NoCpuAccess(pend) /\ TakeBus(in)
    BY <1>3 DEF NoCpuAccess, TakeBus
<1>4. CASE NoCpuAccess(pend) /\ WaitForBus(in)
    BY <1>4 DEF NoCpuAccess, WaitForBus
<1> QED BY <1>1, <1>2, <1>3, <1>4 DEF WorkerDevice

(* Every step keeps claims, master state, SACK and BBSY together.          *)
LEMMA ClaimsStep == ClaimsAgree /\ [Next]_vars => ClaimsAgree'
<1> SUFFICES ASSUME ClaimsAgree, [Next]_vars PROVE ClaimsAgree'
    OBVIOUS
<1> USE DEF armVars, arbVars, busVars
<1>1. ASSUME UNCHANGED <<armVars, wait, busVars>> PROVE ClaimsAgree'
    BY <1>1 DEF ClaimsAgree
<1>2. CASE PassStretched
    BY <1>2 DEF ClaimsAgree, PassStretched, Kept, KeptSack, DmaStates
<1>3. CASE PassPhysical
    BY <1>3, WorkerClaims DEF PassPhysical
<1>4. ASSUME NEW lev, NEW timedOut, PassEmulated(lev, timedOut) PROVE ClaimsAgree'
    BY <1>4, WorkerClaims DEF PassEmulated
<1>5. CASE DmaStart \/ DmaLastWord \/ DmaEnds \/ DmaAborts
    <2> USE DEF ClaimsAgree, DmaStates, MasterStep
    <2>1. CASE DmaStart BY <2>1 DEF DmaStart
    <2>2. CASE DmaLastWord BY <2>2 DEF DmaLastWord
    <2>3. CASE DmaEnds BY <2>3 DEF DmaEnds
    <2>4. CASE DmaAborts BY <2>4 DEF DmaAborts
    <2> QED BY <1>5, <2>1, <2>2, <2>3, <2>4
<1>6. CASE IntrStart \/ IntrVector \/ IntrEnds
    BY <1>6 DEF ClaimsAgree, DmaStates, IntrStart, IntrVector, IntrEnds, MasterStep
<1>7. CASE ArmDma \/ ArmCpuDma \/ ArmDmaCancel \/ ArmGrantInterrupts
    <2> USE DEF ClaimsAgree, DmaStates, ArmStep
    <2>1. CASE ArmDma BY <2>1 DEF ArmDma
    <2>2. CASE ArmCpuDma BY <2>2 DEF ArmCpuDma
    <2>3. CASE ArmDmaCancel BY <2>3 DEF ArmDmaCancel
    <2>4. CASE ArmGrantInterrupts BY <2>4 DEF ArmGrantInterrupts
    <2> QED BY <1>7, <2>1, <2>2, <2>3, <2>4
<1>8. CASE \E l \in Levels : ArmIntr(l) \/ ArmIntrCancel(l)
    BY <1>8 DEF ClaimsAgree, DmaStates, ArmIntr, ArmIntrCancel, ArmStep
<1>9. CASE Processor \/ Neighbour
    BY <1>1, <1>9 DEF Processor, CpuGrants, CpuSeesSack, NoSackTimeout, CpuTakesBus, CpuLeavesBus,
        FieldInterrupt, InterruptFielded, CpuStep, Neighbour, NeighbourGoesOn, NeighbourAsks,
        NeighbourPassed, NeighbourTakesGrant, NeighbourTakesBus, NeighbourDropsSack,
        NeighbourLeavesBus, NeighbourInit, NeighbourStep
<1>10. CASE RegisterAccess \/ ArmAcksRegister \/ InitAsserted \/ InitNegated \/ UNCHANGED vars
    BY <1>1, <1>10 DEF RegisterAccess, ArmAcksRegister, InitAsserted, InitNegated, vars
<1> QED BY <1>2, <1>3, <1>4, <1>5, <1>6, <1>7, <1>8, <1>9, <1>10 DEF Next, Pass, SlavePass, Arm

-----------------------------------------------------------------------------
(* No neighbour and no physical processor beside an emulated arbitrator.   *)

(* The machine never changes, and only an emulated one has cycles of the   *)
(* processor in the mailbox.                                               *)
LEMMA CardKeepsMachine ==
    Pass \/ Arm \/ InitAsserted \/ InitNegated \/ UNCHANGED vars =>
        /\ UNCHANGED <<machine, nPhase, cpuBus>>
        /\ dma' \in {dma, "none", "device"} \/ Emulated
<1> USE DEF armVars, arbVars, busVars, cpuVars, nVars
<1>1. ASSUME Pass PROVE UNCHANGED <<machine, nPhase, cpuBus>> /\ dma' \in {dma, "none"}
    BY <1>1 DEF Pass, SlavePass, PassStretched, PassPhysical, PassEmulated, DmaStart, DmaLastWord,
        DmaEnds, DmaAborts, IntrStart, IntrVector, IntrEnds, MasterStep
<1>2. ASSUME Arm
      PROVE  UNCHANGED <<machine, nPhase, cpuBus>> /\ (dma' \in {dma, "none", "device"} \/ Emulated)
    BY <1>2 DEF Arm, ArmDma, ArmCpuDma, ArmDmaCancel, ArmGrantInterrupts, ArmIntr, ArmIntrCancel,
        RegisterAccess, ArmAcksRegister, ArmStep
<1>3. ASSUME InitAsserted \/ InitNegated \/ UNCHANGED vars
      PROVE  UNCHANGED <<machine, nPhase, cpuBus, dma>>
    BY <1>3 DEF InitAsserted, InitNegated, vars
<1> QED BY <1>1, <1>2, <1>3

(* The processor and the neighbour stay off the machine they are not part  *)
(* of.                                                                     *)
LEMMA MachineStep ==
    ASSUME SoleArbitrator, MasksOK, MachineFits, [Next]_vars PROVE MachineFits'
<1>1. CASE Pass \/ Arm \/ InitAsserted \/ InitNegated \/ UNCHANGED vars
    BY <1>1, CardKeepsMachine DEF MachineFits, Emulated
<1>2. CASE Processor
    BY <1>2 DEF MachineFits, Emulated, Processor, CpuGrants, CpuSeesSack, NoSackTimeout, CpuTakesBus,
        CpuLeavesBus, FieldInterrupt, InterruptFielded, CpuStep, armVars, cpuVars, nVars
<1>3. CASE Neighbour
    BY <1>3 DEF SoleArbitrator, MasksOK, MachineFits, Emulated, Neighbour, NeighbourGoesOn,
        NeighbourAsks, NeighbourPassed, NeighbourTakesGrant, NeighbourTakesBus, NeighbourDropsSack,
        NeighbourLeavesBus, NeighbourInit, NeighbourStep, armVars
<1> QED BY <1>1, <1>2, <1>3 DEF Next

-----------------------------------------------------------------------------
(* Each grant has one taker.                                               *)

(* A pass passes on what it sees granted, nothing of a grant taken; and a  *)
(* grant the neighbour was elected by stays passed on.                     *)
LEMMA PassForwards ==
    ASSUME GrantsEnd, MasksOK, ~Emulated, GrantHasOneTaker, Forward, GrantDropsInTime
    PROVE  /\ fwd' \subseteq grant
           /\ sack /\ grant # {} => fwd' = {} /\ late' # 0
           /\ nPhase = "elected" => grant \subseteq fwd'
<1>1. fwd' = grant \cap ((Levels \ sig) \cup fwd)
    BY DEF Forward, Forwarded
<1>2. sack /\ grant # {} => late < MaxLate /\ late' = late + 1
    BY DEF GrantDropsInTime
<1>3. sack /\ grant # {} => late = 0 /\ late' # 0
    BY <1>2, MachineAssumption DEF GrantsEnd, MasksOK
<1> QED BY <1>1, <1>3 DEF GrantHasOneTaker

(* A pass takes a grant only if the neighbour has not got it, and the bus  *)
(* only if it is free.                                                     *)
LEMMA PassTaker ==
    ASSUME GrantsEnd, MasksOK, ClaimsAgree, MachineFits, ~Emulated, GrantHasOneTaker,
           PassStretched \/ PassPhysical
    PROVE  GrantHasOneTaker'
<1> USE DEF nVars, cpuVars, initVars
<1>1. Forward /\ GrantDropsInTime /\ mast = "none"
    BY DEF PassStretched, PassPhysical
<1>2. /\ fwd' \subseteq grant
      /\ sack /\ grant # {} => fwd' = {} /\ late' # 0
      /\ nPhase = "elected" => grant \subseteq fwd'
    BY <1>1, PassForwards
<1>3. UNCHANGED <<grant, nPhase, nLevel, cpuBus, initOn>>
    BY DEF PassStretched, PassPhysical
<1>4. CASE (sack' => sack) /\ mast' = "none"
    BY <1>2, <1>3, <1>4 DEF GrantHasOneTaker, OneGrant
<1>5. CASE PassPhysical /\ NoCpuAccess(pending) /\ TakeGrant(grant)
    <2>1. CASE wait' = {}
        BY <1>1, <1>4, <1>5, <2>1 DEF TakeGrant, KeptSack
    <2>2. CASE wait' # {}
        <3>1. ~initOn /\ ~sack /\ sig' = req /\ mast' = "none" /\ wait' = (grant \cap req) \ fwd'
            BY <1>1, <1>5, <2>2 DEF NoCpuAccess, TakeGrant, Kept, Accepted, ClaimsAgree
        <3>2. PICK l \in Levels : grant = {l} /\ l \in req /\ l \notin fwd'
            BY <2>2, <3>1 DEF GrantHasOneTaker, OneGrant
        <3>3. fwd' = {} /\ grant \subseteq sig'
            BY <1>2, <3>1, <3>2
        <3>4. nPhase \notin {"elected", "master"}
            BY <1>2, <3>2 DEF GrantHasOneTaker
        <3> QED BY <1>3, <3>1, <3>2, <3>3, <3>4 DEF GrantHasOneTaker, OneGrant
    <2> QED BY <2>1, <2>2
<1>6. CASE PassPhysical /\ NoCpuAccess(pending) /\ TakeBus(grant)
    <2>1. sack' = sack /\ sack /\ ~BbsyLine
        BY <1>6 DEF TakeBus, Kept, MayDrive, ClaimsAgree
    <2> QED BY <1>2, <1>3, <2>1 DEF GrantHasOneTaker, OneGrant, BbsyLine
<1>7. CASE PassPhysical /\ NoCpuAccess(pending) /\ WaitForBus(grant)
    BY <1>1, <1>4, <1>7 DEF WaitForBus
<1>8. ~CpuAccess(pending)
    BY DEF CpuAccess, ClaimsAgree, MachineFits
<1>9. CASE PassStretched
    BY <1>1, <1>4, <1>9 DEF PassStretched, KeptSack
<1> QED BY <1>5, <1>6, <1>7, <1>8, <1>9 DEF PassPhysical, WorkerDevice

(* Every step leaves a grant to one taker.                                 *)
LEMMA TakerStep ==
    ASSUME GrantsEnd, MasksOK, ClaimsAgree, MachineFits, ~Emulated, GrantHasOneTaker, GrantIsAwaited,
           [Next]_vars
    PROVE  GrantHasOneTaker'
<1> USE DEF armVars, arbVars, busVars, cpuVars, nVars, initVars
<1>1. CASE PassStretched \/ PassPhysical
    BY <1>1, PassTaker
<1>2. ASSUME sack' => sack, UNCHANGED <<mast, grant, late, sig, fwd, nPhase, nLevel, cpuBus, initOn>>
      PROVE  GrantHasOneTaker'
    BY <1>2 DEF GrantHasOneTaker, OneGrant
<1>3. CASE DmaStart \/ DmaLastWord \/ DmaEnds \/ DmaAborts
    <2> USE DEF GrantHasOneTaker, OneGrant, MasterStep
    <2>1. CASE DmaStart BY <2>1 DEF DmaStart
    <2>2. CASE DmaLastWord BY <2>2 DEF DmaLastWord
    <2>3. CASE DmaEnds BY <2>3 DEF DmaEnds
    <2>4. CASE DmaAborts BY <2>4 DEF DmaAborts
    <2> QED BY <1>3, <2>1, <2>2, <2>3, <2>4
<1>4. CASE IntrStart \/ IntrVector \/ IntrEnds
    BY <1>4 DEF GrantHasOneTaker, OneGrant, IntrStart, IntrVector, IntrEnds, MasterStep
<1>5. CASE Arm
    BY <1>2, <1>5 DEF Arm, ArmDma, ArmCpuDma, ArmDmaCancel, ArmGrantInterrupts, ArmIntr, ArmIntrCancel,
        RegisterAccess, ArmAcksRegister, ArmStep
<1>6. CASE Processor
    <2> USE DEF GrantHasOneTaker, OneGrant, CpuStep
    <2>1. ASSUME NEW l \in Levels, CpuGrants(l) PROVE GrantHasOneTaker'
        BY <2>1 DEF CpuGrants, SackLine
    <2>2. CASE CpuSeesSack
        BY <2>2 DEF CpuSeesSack, SackLine
    <2>3. CASE NoSackTimeout
        BY <2>3 DEF NoSackTimeout, SackLine, GrantOut
    <2>4. CASE CpuTakesBus
        <3>1. mast = "none"
            BY <2>4 DEF CpuTakesBus, SackLine, BbsyLine, ClaimsAgree, MachineFits, MasksOK, Masters, DmaStates
        <3> QED BY <2>4, <3>1 DEF CpuTakesBus, BbsyLine
    <2>5. CASE CpuLeavesBus \/ FieldInterrupt \/ InterruptFielded
        BY <2>5 DEF CpuLeavesBus, FieldInterrupt, InterruptFielded
    <2> QED BY <1>6, <2>1, <2>2, <2>3, <2>4, <2>5 DEF Processor
<1>7. CASE Neighbour
    <2> USE DEF GrantHasOneTaker, OneGrant, NeighbourStep
    <2>1. ASSUME NEW l \in Levels, NeighbourAsks(l) PROVE GrantHasOneTaker'
        BY <2>1 DEF NeighbourAsks, GrantOut
    <2>2. CASE NeighbourPassed
        BY <2>2 DEF NeighbourPassed, GrantOut
    <2>5. CASE NeighbourDropsSack \/ NeighbourLeavesBus \/ NeighbourInit
        BY <2>5 DEF NeighbourDropsSack, NeighbourLeavesBus, NeighbourInit
    <2>3. CASE NeighbourTakesGrant
        BY <2>3 DEF NeighbourTakesGrant, GrantOut, GrantIsAwaited
    <2>4. CASE NeighbourTakesBus
        <3>1. mast = "none"
            BY <2>4 DEF NeighbourTakesBus, BbsyLine, ClaimsAgree, MachineFits, MasksOK, Masters, DmaStates
        <3> QED BY <2>4, <3>1 DEF NeighbourTakesBus, BbsyLine, GrantOut
    <2> QED BY <1>7, <2>1, <2>2, <2>3, <2>4, <2>5 DEF Neighbour, NeighbourGoesOn
<1>8. CASE InitAsserted \/ InitNegated
    BY <1>8 DEF GrantHasOneTaker, OneGrant, InitAsserted, InitNegated
<1>9. CASE UNCHANGED vars
    BY <1>2, <1>9 DEF vars
<1> QED BY <1>1, <1>3, <1>4, <1>5, <1>6, <1>7, <1>8, <1>9 DEF Next, Pass, SlavePass, PassEmulated

-----------------------------------------------------------------------------
(* The processor waits for the INTR of the grant it gave.                  *)

(* A pass takes a BR grant, and starts an INTR, only if the processor      *)
(* waits for it.                                                           *)
LEMMA PassAwaited ==
    ASSUME GrantsEnd, MasksOK, ClaimsAgree, MachineFits, ~Emulated, GrantHasOneTaker, GrantIsAwaited,
           PassStretched \/ PassPhysical
    PROVE  GrantIsAwaited'
<1> USE DEF nVars, cpuVars, initVars
<1>1. /\ UNCHANGED <<grant, awaiting, ssyn, nPhase, nLevel, initOn>>
      /\ mast = "none" /\ Forward /\ GrantDropsInTime
    BY DEF PassStretched, PassPhysical
<1>2. CASE mast' = "none" /\ (initOn \/ wait' \in {wait, {}})
    BY <1>1, <1>2 DEF GrantIsAwaited, CardInterrupts, NeighbourInterrupts, IntrStates
<1>3. CASE PassPhysical /\ NoCpuAccess(pending) /\ TakeGrant(grant)
    <2>1. CASE initOn \/ wait' = {}
        BY <1>1, <1>2, <1>3, <2>1 DEF TakeGrant
    <2>2. CASE ~initOn /\ wait' # {}
        <3>1. mast' = "none" /\ wait' = (grant \cap req) \ fwd'
            BY <1>1, <1>3, <2>2 DEF TakeGrant, Kept, Accepted
        <3>2. PICK l \in Levels : grant = {l} /\ l \notin fwd' /\ wait' = {l}
            BY <2>2, <3>1 DEF GrantHasOneTaker, OneGrant
        <3>3. nPhase \notin {"elected", "master"}
            BY <1>1, <3>2, PassForwards DEF GrantHasOneTaker
        <3> QED BY <1>1, <2>2, <3>1, <3>2, <3>3
            DEF GrantIsAwaited, CardInterrupts, NeighbourInterrupts, IntrStates
    <2> QED BY <2>1, <2>2
<1>4. CASE PassPhysical /\ NoCpuAccess(pending) /\ TakeBus(grant)
    <2>1. /\ ~initOn /\ wait # {} /\ wait' = {} /\ grant \cap wait = {} /\ ~ssyn
          /\ \/ NP \in wait /\ mast' = "dma_start"
             \/ NP \notin wait /\ mast' = "intr_start"
        BY <1>4 DEF TakeBus, Kept, MayDrive
    <2> QED BY <1>1, <2>1 DEF GrantIsAwaited, CardInterrupts, NeighbourInterrupts, IntrStates
<1>5. CASE PassPhysical /\ NoCpuAccess(pending) /\ WaitForBus(grant)
    BY <1>1, <1>2, <1>5 DEF WaitForBus
<1>6. ~CpuAccess(pending)
    BY DEF CpuAccess, ClaimsAgree, MachineFits
<1>7. CASE PassStretched
    BY <1>1, <1>2, <1>7 DEF PassStretched, Kept
<1> QED BY <1>3, <1>4, <1>5, <1>6, <1>7 DEF PassPhysical, WorkerDevice

(* Nobody ends the processor's wait for an INTR that is still to come.     *)
LEMMA AwaitedStep ==
    ASSUME GrantsEnd, MasksOK, ClaimsAgree, MachineFits, ~Emulated, GrantHasOneTaker, GrantIsAwaited,
           [Next]_vars
    PROVE  GrantIsAwaited'
<1> USE DEF armVars, arbVars, busVars, cpuVars, nVars, initVars
<1>1. CASE PassStretched \/ PassPhysical
    BY <1>1, PassAwaited
<1>2. ASSUME wait' \in {wait, {}}, UNCHANGED <<mast, grant, awaiting, ssyn, nPhase, nLevel, initOn>>
      PROVE  GrantIsAwaited'
    BY <1>2 DEF GrantIsAwaited, CardInterrupts, NeighbourInterrupts, IntrStates
<1>3. ASSUME mast \in DmaStates, mast' \in DmaStates \cup {"none"},
             UNCHANGED <<wait, grant, awaiting, ssyn, nPhase, nLevel, initOn>>
      PROVE  GrantIsAwaited'
    BY <1>3 DEF GrantIsAwaited, CardInterrupts, NeighbourInterrupts, IntrStates, DmaStates
<1>4. CASE DmaStart \/ DmaLastWord \/ DmaEnds \/ DmaAborts
    BY <1>3, <1>4 DEF DmaStates, DmaStart, DmaLastWord, DmaEnds, DmaAborts, MasterStep
<1>5. CASE IntrStart \/ IntrVector \/ IntrEnds
    BY <1>5 DEF GrantIsAwaited, CardInterrupts, NeighbourInterrupts, IntrStates,
        IntrStart, IntrVector, IntrEnds, MasterStep
<1>6. CASE Arm
    BY <1>2, <1>6 DEF Arm, ArmDma, ArmCpuDma, ArmDmaCancel, ArmGrantInterrupts, ArmIntr, ArmIntrCancel,
        RegisterAccess, ArmAcksRegister, ArmStep
<1>7. CASE Processor
    <2> USE DEF GrantIsAwaited, CardInterrupts, NeighbourInterrupts, IntrStates, CpuStep
    <2>1. ASSUME NEW l \in Levels, CpuGrants(l) PROVE GrantIsAwaited'
        BY <2>1 DEF CpuGrants
    <2>2. CASE CpuSeesSack
        BY <2>2 DEF CpuSeesSack
    <2>3. CASE NoSackTimeout
        <3>1. wait = {} /\ nPhase \notin {"elected", "master"} /\ ~initOn
            BY <2>3 DEF NoSackTimeout, SackLine, ClaimsAgree
        <3> QED BY <2>3, <3>1 DEF NoSackTimeout, GrantHasOneTaker, OneGrant
    <2>4. CASE CpuTakesBus \/ CpuLeavesBus
        BY <2>4 DEF CpuTakesBus, CpuLeavesBus
    <2>5. CASE FieldInterrupt
        BY <2>5 DEF FieldInterrupt, ClaimsAgree
    <2>6. CASE InterruptFielded
        BY <2>6 DEF InterruptFielded
    <2> QED BY <1>7, <2>1, <2>2, <2>3, <2>4, <2>5, <2>6 DEF Processor
<1>8. CASE Neighbour
    <2> USE DEF GrantIsAwaited, CardInterrupts, NeighbourInterrupts, IntrStates, NeighbourStep
    <2>1. ASSUME NEW l \in Levels, NeighbourAsks(l) PROVE GrantIsAwaited'
        BY <2>1 DEF NeighbourAsks
    <2>2. CASE NeighbourPassed \/ NeighbourDropsSack \/ NeighbourInit
        BY <2>2 DEF NeighbourPassed, NeighbourDropsSack, NeighbourInit
    <2>3. CASE NeighbourTakesGrant
        <3>1. ~sack /\ (initOn \/ grant = {nLevel})
            BY <2>3 DEF NeighbourTakesGrant, GrantOut, GrantHasOneTaker
        <3>2. wait = {}
            BY <3>1 DEF ClaimsAgree
        <3> QED BY <2>3, <3>1, <3>2 DEF NeighbourTakesGrant
    <2>4. CASE NeighbourTakesBus
        BY <2>4 DEF NeighbourTakesBus, GrantOut, GrantHasOneTaker
    <2>5. CASE NeighbourLeavesBus
        BY <2>5 DEF NeighbourLeavesBus
    <2> QED BY <1>8, <2>1, <2>2, <2>3, <2>4, <2>5 DEF Neighbour, NeighbourGoesOn
<1>9. CASE InitAsserted
    BY <1>9 DEF InitAsserted, GrantIsAwaited
<1>10. CASE InitNegated
    BY <1>10 DEF InitNegated, GrantIsAwaited, CardInterrupts, NeighbourInterrupts, IntrStates
<1>11. CASE UNCHANGED vars
    BY <1>2, <1>11 DEF vars
<1> QED BY <1>1, <1>4, <1>5, <1>6, <1>7, <1>8, <1>9, <1>10, <1>11 DEF Next, Pass, SlavePass, PassEmulated

-----------------------------------------------------------------------------
(* The invariant holds, and what follows from it.                          *)

(* The types hold at power-up,                                             *)
LEMMA TypeInit == Init => TypeOK
<1> SUFFICES ASSUME Init PROVE TypeOK
    OBVIOUS
<1>1. FlagsOK
    BY Zenon DEF Init, FlagsOK
<1>2. MasksOK
    BY LevelsAssumption, MachineAssumption DEF Init, MasksOK, Masters
<1> QED BY <1>1, <1>2 DEF TypeOK

(* and so does the invariant.                                              *)
LEMMA BusInit == SoleArbitrator /\ Init => BusInv
<1> SUFFICES ASSUME SoleArbitrator, Init PROVE BusInv
    OBVIOUS
<1>1. TypeOK
    BY TypeInit
<1>2. ClaimsAgree /\ MachineFits
    BY DEF Init, ClaimsAgree, MachineFits, DmaStates
<1>3. GrantHasOneTaker /\ GrantIsAwaited
    BY DEF Init, GrantHasOneTaker, OneGrant, GrantIsAwaited, CardInterrupts, NeighbourInterrupts, IntrStates
<1> QED BY <1>1, <1>2, <1>3 DEF BusInv

(* No step swaps the processor.                                            *)
LEMMA MachineStays == Next => machine' = machine
BY DEF Next, Pass, SlavePass, PassStretched, PassPhysical, PassEmulated, DmaStart, DmaLastWord, DmaEnds,
    DmaAborts, IntrStart, IntrVector, IntrEnds, MasterStep, Processor, CpuGrants, CpuSeesSack,
    NoSackTimeout, CpuTakesBus, CpuLeavesBus, FieldInterrupt, InterruptFielded, CpuStep, Neighbour,
    NeighbourGoesOn, NeighbourAsks, NeighbourPassed, NeighbourTakesGrant, NeighbourTakesBus,
    NeighbourDropsSack, NeighbourLeavesBus, NeighbourInit, NeighbourStep, Arm, ArmDma, ArmCpuDma,
    ArmDmaCancel, ArmGrantInterrupts, ArmIntr, ArmIntrCancel, RegisterAccess, ArmAcksRegister, ArmStep,
    InitAsserted, InitNegated

(* The invariant is inductive.                                             *)
LEMMA BusStep ==
    ASSUME SoleArbitrator, GrantsEnd, BusInv, [Next]_vars PROVE BusInv'
<1>1. TypeOK' /\ ClaimsAgree'
    BY TypeStep, ClaimsStep DEF BusInv
<1>2. MachineFits'
    BY MachineStep DEF BusInv, TypeOK
<1>3. Emulated' = Emulated
    BY MachineStays DEF Emulated, vars
<1>4. CASE ~Emulated
    BY <1>1, <1>2, <1>4, TakerStep, AwaitedStep DEF BusInv, TypeOK
<1> QED BY <1>1, <1>2, <1>3, <1>4 DEF BusInv

(* What the invariant says of the bus.                                     *)
LEMMA SafeBus == BusInv => OneBusMaster /\ InterruptAwaited
<1> SUFFICES ASSUME BusInv PROVE OneBusMaster /\ InterruptAwaited
    OBVIOUS
<1>1. OneBusMaster
    BY DEF BusInv, OneBusMaster, ClaimsAgree, MachineFits, GrantHasOneTaker
<1>2. InterruptAwaited
    BY DEF BusInv, InterruptAwaited, GrantIsAwaited, CardInterrupts, IntrStates
<1> QED BY <1>1, <1>2

-----------------------------------------------------------------------------
(* The election of BusOwner.                                               *)
CpuCycle == dma = "cpu" /\ mast \in {"dma_word", "dma_last"}

OwnersKnown ==
    /\ bbsy /\ ~CpuCycle => Owners = {"card"}
    /\ bbsy /\ CpuCycle => Owners = {"processor"}
    /\ nPhase \in {"master", "last"} => Owners = {"neighbour"}
    /\ cpuBus => Owners = {"processor"}
    /\ ~bbsy /\ nPhase \notin {"master", "last"} /\ ~cpuBus => Owners = {}
    /\ sack => Elected = {"card"}
    /\ nPhase \in {"elected", "master"} => Elected = {"neighbour"}
    /\ ~sack /\ nPhase \notin {"elected", "master"} => Elected = {}

(* Who owns the bus and who is elected, read off the invariant.            *)
LEMMA WhoOwns == BusInv => OwnersKnown
BY SafeBus DEF OwnersKnown, Owners, Elected, OneBusMaster, CpuCycle

(* A step that moves none of these lines is none of BusOwner's.            *)
LEMMA Stutters ==
    ASSUME UNCHANGED <<bbsy, sack, nPhase, cpuBus>>, bbsy => CpuCycle' = CpuCycle
    PROVE  UNCHANGED <<Owners, Elected>>
BY DEF Owners, Elected, CpuCycle

(* The same after a step.                                                  *)
LEMMA WhoOwnsNext == BusInv' => OwnersKnown'
BY WhoOwns, PTL

(* A pass as slave elects the card, makes it resign, or changes nothing.   *)
LEMMA PassElects ==
    ASSUME BusInv, BusInv', SlavePass
    PROVE  [BO!Next]_(BO!vars)
<1> USE DEF cpuVars, nVars
<1>1. /\ UNCHANGED <<bbsy, nPhase, cpuBus, dma>> /\ mast = "none"
    BY DEF SlavePass, PassStretched, PassPhysical, PassEmulated
<1>2. ~bbsy
    BY <1>1 DEF BusInv, ClaimsAgree
<1>3. Owners' = Owners
    BY <1>1, <1>2 DEF Owners
<1>4. OwnersKnown /\ OwnersKnown'
    BY WhoOwns, WhoOwnsNext
<1>5. OneBusMaster /\ FlagsOK /\ FlagsOK'
    BY SafeBus DEF BusInv, TypeOK
<1>6. CASE sack' /\ ~sack
    <2>1. nPhase \notin {"elected", "master"}
        BY <1>1, <1>6 DEF BusInv, MachineFits, GrantHasOneTaker
    <2>2. Elected = {} /\ Elected' = {"card"}
        BY <1>4, <1>6, <2>1 DEF OwnersKnown
    <2> QED BY <1>3, <2>2 DEF BO!Next, BO!Elect
<1>7. CASE sack /\ ~sack'
    <2>1. nPhase' \notin {"elected", "master"}
        BY <1>1, <1>5, <1>7 DEF OneBusMaster
    <2>2. Elected = {"card"} /\ Elected' = {}
        BY <1>4, <1>7, <2>1 DEF OwnersKnown
    <2> QED BY <1>3, <2>2 DEF BO!Next, BO!Resign
<1>8. CASE sack <=> sack'
    BY <1>1, <1>3, <1>8 DEF Elected, BO!vars
<1> QED BY <1>6, <1>7, <1>8

(* A pass as master takes the bus, resigns, or leaves the bus.             *)
LEMMA MasterElects ==
    ASSUME BusInv, BusInv', Pass, ~SlavePass
    PROVE  [BO!Next]_(BO!vars)
<1> USE DEF MasterStep, cpuVars, nVars
<1>1. UNCHANGED <<nPhase, cpuBus>>
    BY DEF Pass, DmaStart, DmaLastWord, DmaEnds, DmaAborts, IntrStart, IntrVector, IntrEnds
<1>2. OwnersKnown /\ OwnersKnown' /\ ClaimsAgree /\ ClaimsAgree' /\ MachineFits /\ MasksOK
    BY WhoOwns, WhoOwnsNext DEF BusInv, TypeOK
<1>3. ~Emulated => GrantHasOneTaker
    BY DEF BusInv
<1>4. CASE DmaStart
    <2>1. ~bbsy /\ ~cpuBus /\ nPhase \notin {"master", "last"} /\ bbsy' /\ UNCHANGED <<sack, dma>>
        BY <1>2, <1>3, <1>4 DEF DmaStart, ClaimsAgree, MachineFits, GrantHasOneTaker
    <2>2. CASE dma = "cpu"
        <3>1. ~sack /\ nPhase = "idle"
            BY <1>2, <1>4, <2>2 DEF DmaStart, ClaimsAgree, MachineFits
        <3>2. Owners = {} /\ Owners' = {"processor"} /\ Elected = {} /\ Elected' = {}
            BY <1>1, <1>2, <1>4, <2>1, <2>2, <3>1 DEF DmaStart, OwnersKnown, CpuCycle
        <3> QED BY <3>2 DEF BO!Next, BO!ProcessorTakesBus
    <2>3. CASE dma # "cpu"
        <3>1. sack
            BY <1>2, <1>4, <2>3 DEF DmaStart, ClaimsAgree, DmaStates, MasksOK
        <3>2. Owners = {} /\ Owners' = {"card"} /\ Elected = {"card"} /\ Elected' = {"card"}
            BY <1>1, <1>2, <1>4, <2>1, <2>3, <3>1 DEF DmaStart, OwnersKnown, CpuCycle
        <3> QED BY <3>2 DEF BO!Next, BO!TakeBus
    <2> QED BY <2>2, <2>3
<1>5. CASE IntrStart
    <2>1. ~bbsy /\ sack /\ ~cpuBus /\ nPhase \notin {"master", "last"} /\ bbsy' /\ sack' /\ mast' = "intr_vector"
        BY <1>2, <1>3, <1>5 DEF IntrStart, ClaimsAgree, MachineFits, GrantHasOneTaker
    <2>2. Owners = {} /\ Owners' = {"card"} /\ Elected = {"card"} /\ Elected' = {"card"}
        BY <1>1, <1>2, <2>1 DEF OwnersKnown, CpuCycle
    <2> QED BY <2>2 DEF BO!Next, BO!TakeBus
<1>6. CASE DmaLastWord \/ IntrVector
    <2>1. bbsy /\ bbsy' /\ ~sack' /\ CpuCycle' = CpuCycle
        BY <1>2, <1>6 DEF DmaLastWord, IntrVector, ClaimsAgree, CpuCycle
    <2>2. Owners' = Owners
        BY <1>1, <2>1 DEF Owners, CpuCycle
    <2>3. CASE sack
        <3>1. Elected = {"card"} /\ nPhase \notin {"elected", "master"}
            BY <1>2, <2>3, SafeBus DEF OwnersKnown, OneBusMaster
        <3>2. Elected' = {}
            BY <1>1, <1>2, <2>1, <3>1 DEF OwnersKnown
        <3> QED BY <2>2, <3>1, <3>2 DEF BO!Next, BO!Resign
    <2>4. CASE ~sack
        BY <1>1, <2>1, <2>2, <2>4 DEF Elected, BO!vars
    <2> QED BY <2>3, <2>4
<1>7. CASE DmaEnds \/ DmaAborts \/ IntrEnds
    <2>1. bbsy /\ ~bbsy' /\ ~sack'
        BY <1>2, <1>7 DEF DmaEnds, DmaAborts, IntrEnds, ClaimsAgree
    <2>2. ~cpuBus /\ nPhase \notin {"master", "last"}
        BY <2>1, SafeBus DEF OneBusMaster
    <2>3. Owners' = {}
        BY <1>1, <1>2, <2>1, <2>2 DEF OwnersKnown
    <2>4. CASE CpuCycle
        <3>1. ~sack /\ nPhase = "idle"
            BY <1>2, <1>7, <2>4 DEF DmaEnds, DmaAborts, IntrEnds, ClaimsAgree, MachineFits, CpuCycle
        <3>2. Owners = {"processor"} /\ Elected = {} /\ Elected' = {}
            BY <1>1, <1>2, <2>1, <2>4, <3>1 DEF OwnersKnown
        <3> QED BY <2>3, <3>2 DEF BO!Next, BO!ProcessorLeavesBus
    <2>5. CASE ~CpuCycle
        <3>1. Owners = {"card"}
            BY <1>2, <2>1, <2>5 DEF OwnersKnown
        <3>2. Elected' = Elected \ {"card"}
            BY <1>1, <2>1 DEF Elected
        <3> QED BY <2>3, <3>1, <3>2 DEF BO!Next, BO!LeaveBus
    <2> QED BY <2>4, <2>5
<1> QED BY <1>4, <1>5, <1>6, <1>7 DEF Pass

(* The physical processor takes and leaves the bus.                        *)
LEMMA ProcessorElects ==
    ASSUME BusInv, BusInv', Processor
    PROVE  [BO!Next]_(BO!vars)
<1> USE DEF CpuStep, armVars, busVars, cpuVars, nVars
<1>1. UNCHANGED <<bbsy, sack, nPhase, dma, mast>>
    BY DEF Processor, CpuGrants, CpuSeesSack, NoSackTimeout, CpuTakesBus, CpuLeavesBus,
        FieldInterrupt, InterruptFielded
<1>2. Elected' = Elected
    BY <1>1 DEF Elected
<1>3. OwnersKnown /\ OwnersKnown'
    BY WhoOwns, WhoOwnsNext
<1>4. CASE CpuTakesBus
    <2>1. Owners = {} /\ Owners' = {"processor"} /\ Elected = {}
        BY <1>3, <1>4 DEF CpuTakesBus, SackLine, BbsyLine, OwnersKnown
    <2> QED BY <1>2, <2>1 DEF BO!Next, BO!ProcessorTakesBus
<1>5. CASE CpuLeavesBus
    <2>1. ~bbsy /\ nPhase \notin {"master", "last"} /\ cpuBus /\ ~cpuBus'
        BY <1>5, SafeBus DEF CpuLeavesBus, OneBusMaster
    <2>2. Owners = {"processor"} /\ Owners' = {}
        BY <1>1, <1>3, <2>1 DEF OwnersKnown
    <2> QED BY <1>2, <2>2 DEF BO!Next, BO!ProcessorLeavesBus
<1>6. CASE cpuBus' = cpuBus
    BY <1>1, <1>6, Stutters DEF CpuCycle, BO!vars
<1> QED BY <1>4, <1>5, <1>6
    DEF Processor, CpuGrants, CpuSeesSack, NoSackTimeout, FieldInterrupt, InterruptFielded

(* The neighbour is elected, takes the bus, resigns and leaves.            *)
LEMMA NeighbourElects ==
    ASSUME BusInv, BusInv', Neighbour
    PROVE  [BO!Next]_(BO!vars)
<1> USE DEF NeighbourStep, armVars, busVars
<1>1. UNCHANGED <<bbsy, sack, cpuBus, dma, mast>>
    BY DEF Neighbour, NeighbourGoesOn, NeighbourAsks, NeighbourPassed, NeighbourTakesGrant,
        NeighbourTakesBus, NeighbourDropsSack, NeighbourLeavesBus, NeighbourInit
<1>2. OwnersKnown /\ OwnersKnown' /\ OneBusMaster
    BY WhoOwns, WhoOwnsNext, SafeBus
<1>3. ASSUME nPhase \in {"idle", "passing", "asking"}, nPhase' \in {"idle", "passing", "asking"}
      PROVE  UNCHANGED BO!vars
    BY <1>1, <1>3 DEF Owners, Elected, BO!vars
<1>4. CASE NeighbourTakesGrant
    <2>1. ~sack
        BY <1>4 DEF NeighbourTakesGrant, GrantOut, BusInv, MachineFits, GrantHasOneTaker
    <2>2. Elected = {} /\ Elected' = {"neighbour"}
        BY <1>2, <1>4, <2>1 DEF NeighbourTakesGrant, OwnersKnown
    <2>3. Owners' = Owners
        BY <1>1, <1>4 DEF NeighbourTakesGrant, Owners
    <2> QED BY <2>2, <2>3 DEF BO!Next, BO!Elect
<1>5. CASE NeighbourTakesBus
    <2>1. Owners = {} /\ Owners' = {"neighbour"} /\ Elected = {"neighbour"} /\ Elected' = {"neighbour"}
        BY <1>2, <1>5 DEF NeighbourTakesBus, BbsyLine, OwnersKnown
    <2> QED BY <2>1 DEF BO!Next, BO!TakeBus
<1>6. CASE NeighbourDropsSack
    <2>1. Elected = {"neighbour"} /\ Elected' = {} /\ Owners' = Owners
        BY <1>1, <1>2, <1>6 DEF NeighbourDropsSack, OwnersKnown, OneBusMaster
    <2> QED BY <2>1 DEF BO!Next, BO!Resign
<1>7. CASE (NeighbourLeavesBus \/ NeighbourInit) /\ nPhase \in {"master", "last"}
    <2>1. ~bbsy /\ ~cpuBus /\ nPhase' = "idle"
        BY <1>2, <1>7 DEF NeighbourLeavesBus, NeighbourInit, OneBusMaster
    <2>2. Owners = {"neighbour"} /\ Owners' = {}
        BY <1>1, <1>2, <1>7, <2>1 DEF OwnersKnown
    <2>3. Elected' = Elected \ {"neighbour"}
        BY <1>1, <2>1 DEF Elected
    <2> QED BY <2>2, <2>3 DEF BO!Next, BO!LeaveBus
<1>8. CASE NeighbourInit /\ nPhase = "elected"
    <2>1. Elected = {"neighbour"} /\ Elected' = {}
        BY <1>1, <1>2, <1>8 DEF NeighbourInit, OwnersKnown, OneBusMaster
    <2>2. Owners' = Owners
        BY <1>1, <1>8 DEF NeighbourInit, Owners
    <2> QED BY <2>1, <2>2 DEF BO!Next, BO!Resign
<1>9. CASE NeighbourInit /\ nPhase \in {"passing", "asking"}
    BY <1>3, <1>9 DEF NeighbourInit
<1>10. CASE NeighbourPassed \/ \E l \in Levels : NeighbourAsks(l)
    BY <1>3, <1>10 DEF NeighbourPassed, NeighbourAsks
<1>11. nPhase \in {"idle", "passing", "asking", "elected", "master", "last"}
    BY DEF BusInv, TypeOK, MasksOK
<1> QED BY <1>4, <1>5, <1>6, <1>7, <1>8, <1>9, <1>10, <1>11
    DEF Neighbour, NeighbourGoesOn, NeighbourLeavesBus, NeighbourInit

(* A command of the ARM changes nothing, or makes the card resign.         *)
LEMMA ArmElects ==
    ASSUME BusInv, BusInv', Arm \/ InitAsserted \/ InitNegated \/ UNCHANGED vars
    PROVE  [BO!Next]_(BO!vars)
<1> USE DEF ArmStep, armVars, arbVars, busVars, cpuVars, nVars
<1>1. UNCHANGED <<bbsy, nPhase, cpuBus, mast>>
    BY DEF Arm, ArmDma, ArmCpuDma, ArmDmaCancel, ArmGrantInterrupts, ArmIntr, ArmIntrCancel,
        RegisterAccess, ArmAcksRegister, InitAsserted, InitNegated, vars
<1>2. CASE ArmDmaCancel
    <2>1. ~bbsy
        BY <1>2 DEF ArmDmaCancel, BusInv, ClaimsAgree
    <2>2. Owners' = Owners
        BY <1>1, <2>1 DEF Owners
    <2>3. CASE sack' <=> sack
        BY <1>1, <2>2, <2>3 DEF Elected, BO!vars
    <2>4. CASE sack /\ ~sack'
        <3>1. Elected = {"card"} /\ Elected' = {}
            BY <1>1, <2>4, SafeBus, WhoOwns, WhoOwnsNext DEF OwnersKnown, OneBusMaster
        <3> QED BY <2>2, <3>1 DEF BO!Next, BO!Resign
    <2> QED BY <1>2, <2>3, <2>4 DEF ArmDmaCancel
<1>3. CASE ~ArmDmaCancel
    <2>1. sack' = sack
        BY <1>3 DEF Arm, ArmDma, ArmCpuDma, ArmGrantInterrupts, ArmIntr, ArmIntrCancel,
            RegisterAccess, ArmAcksRegister, InitAsserted, InitNegated, vars
    <2>2. dma' = dma \/ dma = "none"
        BY <1>3 DEF Arm, ArmDma, ArmCpuDma, ArmGrantInterrupts, ArmIntr, ArmIntrCancel,
            RegisterAccess, ArmAcksRegister, InitAsserted, InitNegated, vars
    <2>3. CpuCycle' = CpuCycle
        BY <1>1, <2>2 DEF CpuCycle, BusInv, ClaimsAgree, DmaStates
    <2> QED BY <1>1, <2>1, <2>3, Stutters DEF BO!vars
<1> QED BY <1>2, <1>3

(* Every step is one of BusOwner, or stutters.                             *)
LEMMA ElectionStep ==
    ASSUME BusInv, BusInv', [Next]_vars
    PROVE  [BO!Next]_(BO!vars)
BY PassElects, MasterElects, ProcessorElects, NeighbourElects, ArmElects DEF Next

(* At power-up nobody has the bus and nobody is elected.                   *)
LEMMA ElectionInit == Init => BO!Init
BY DEF Init, BO!Init, Owners, Elected

-----------------------------------------------------------------------------
(* The bus with the emulated processor behind it.                          *)

(* A step of the composition is a step of the bus, and keeps its own       *)
(* types.                                                                  *)
LEMMA FieldStep ==
    ASSUME TypeOK, FieldTypeOK, [FieldNext]_allVars
    PROVE  [Next]_vars /\ FieldTypeOK'
<1> USE DEF allVars, fieldVars, FieldTypeOK, CpcValues
<1>1. CASE CardStep
    BY <1>1 DEF CardStep, Next, Pass, SlavePass, Arm
<1>2. ASSUME NEW timedOut \in BOOLEAN, PassCompares(timedOut) PROVE [Next]_vars /\ FieldTypeOK'
    BY <1>2 DEF PassCompares, Next, Pass, SlavePass
<1>3. CASE intr_slave_start \/ intr_slave_state_1
    <2>1. [Next]_vars
        BY <1>3 DEF intr_slave_start, intr_slave_state_1, Next, Processor
    <2>2. vector \in Levels \cup {0}
        BY DEF TypeOK, MasksOK
    <2> QED BY <1>3, <2>1, <2>2 DEF intr_slave_start, intr_slave_state_1
<1>4. CASE WorkerFields
    BY <1>4 DEF WorkerFields
<1>5. CASE GrantInterrupts \/ BusCycle \/ ExecuteReset
    <2>1. Next
        BY <1>5 DEF GrantInterrupts, BusCycle, ExecuteReset, Next, Arm
    <2> QED BY <1>5, <2>1 DEF GrantInterrupts, BusCycle, ExecuteReset
<1>6. CASE Arbitrated \/ TakeVector \/ CycleEnds \/ LoadVectorPsw \/ ExecutePsw \/ ExecuteOther \/ ResetEnds
    BY <1>6 DEF Arbitrated, TakeVector, CycleEnds, LoadVectorPsw, ExecutePsw, ExecuteOther, ResetEnds
<1>7. CASE PhysicalMachine
    BY <1>7 DEF PhysicalMachine
<1>8. CASE UNCHANGED allVars
    BY <1>8
<1> QED BY <1>1, <1>2, <1>3, <1>4, <1>5, <1>6, <1>7, <1>8 DEF FieldNext, Fielding, InstructionLoop

-----------------------------------------------------------------------------
(* Theorems.                                                               *)

(* The types of the composition.                                           *)
LEMMA BothTypes == FieldSpec => [](TypeOK /\ FieldTypeOK)
<1>1. FieldInit => TypeOK /\ FieldTypeOK
    BY TypeInit, FieldingAssumption DEF FieldInit, FieldTypeOK, CpcValues
<1>2. TypeOK /\ FieldTypeOK /\ [FieldNext]_allVars => TypeOK' /\ FieldTypeOK'
    BY FieldStep, TypeStep
<1> QED BY <1>1, <1>2, PTL DEF FieldSpec

(* Request and grant masks are made of request lines and the master state  *)
(* is a state function of the firmware, whatever the machine, the levels   *)
(* and the number of INITs and late grants.                                *)
THEOREM TypesHold == FieldSpec => []TypeOK
BY BothTypes, PTL

(* The mailbox words the firmware and the emulated processor share hold a  *)
(* level of the PSW or "fetching", and a vector or none.                   *)
THEOREM FieldTypesHold == FieldSpec => []FieldTypeOK
BY BothTypes, PTL

(* Every behaviour of the composed system is one of the bus.               *)
THEOREM FieldingIsBus == FieldSpec => Init /\ [][Next]_vars
<1>1. TypeOK /\ FieldTypeOK /\ [FieldNext]_allVars => [Next]_vars
    BY FieldStep
<1>2. FieldInit => Init
    BY DEF FieldInit
<1> QED BY <1>1, <1>2, BothTypes, PTL DEF FieldSpec

(* The inductive invariant, of the bus alone and with the emulated         *)
(* processor.                                                              *)
THEOREM Inductive ==
    ASSUME SoleArbitrator, GrantsEnd
    PROVE  (Spec => []BusInv) /\ (FieldSpec => []BusInv)
<1>1. Init => BusInv
    BY BusInit
<1>2. BusInv /\ [Next]_vars => BusInv'
    BY BusStep
<1>3. Init /\ [][Next]_vars => []BusInv
    BY <1>1, <1>2, PTL
<1> QED BY <1>3, FieldingIsBus, PTL DEF Spec

(* "A second SACK on that grant puts two masters on the bus"               *)
(* (pru1_main_unibus.c:164): it does not happen.                           *)
THEOREM OneMaster ==
    ASSUME SoleArbitrator, GrantsEnd
    PROVE  (Spec => []OneBusMaster) /\ (FieldSpec => []OneBusMaster)
BY Inductive, SafeBus, PTL

(* The card interrupts a physical processor only while that waits for the  *)
(* INTR of its grant (pru1_main_unibus.c:165).                             *)
THEOREM InterruptsAwaited ==
    ASSUME SoleArbitrator, GrantsEnd
    PROVE  (Spec => []InterruptAwaited) /\ (FieldSpec => []InterruptAwaited)
BY Inductive, SafeBus, PTL

(* The firmware, the neighbour and the processor implement the election of *)
(* one bus master at a time.                                               *)
THEOREM Implements ==
    ASSUME SoleArbitrator, GrantsEnd
    PROVE  (Spec => ImplementsBusOwner) /\ (FieldSpec => ImplementsBusOwner)
<1>1. BusInv /\ BusInv' /\ [Next]_vars => [BO!Next]_(BO!vars)
    BY ElectionStep
<1>2. Init /\ [][Next]_vars /\ []BusInv => ImplementsBusOwner
    BY <1>1, ElectionInit, PTL DEF ImplementsBusOwner, BO!Spec
<1> QED BY <1>2, Inductive, FieldingIsBus, PTL DEF Spec
=============================================================================
