----------------------- MODULE InterruptFieldingProofs -----------------------
(***************************************************************************)
(* For every set of levels and PSW priorities, and any number of RESETs:   *)
(* the emulated processor loses no vector, as long as no instruction loads *)
(* the PSW while an INTR is on its way and no grant loses its card. The    *)
(* two exceptions are what fielding_overwritten and bus_grant_stuck show.  *)
(***************************************************************************)
EXTENDS BusArbitrationProofs

(* What the processor's thread waits for, by its place in the loop.        *)
LoopWaits ==
    /\ fwd = {}
    /\ pending => cpc = "arbitrate"
    /\ cpuReq => cpc \in {"fetching", "trapping"}
    /\ initOn => cpc = "reset"

(* A BR line that is up is still asked for.                                *)
LinesStand ==
    /\ lines \subseteq sig
    /\ ~initOn => lines \ {NP} \subseteq req

(* A BR grant is taken in the pass that gives it.                          *)
GrantsTaken ==
    /\ grant \ {NP} \subseteq wait
    /\ initOn => grant \subseteq {NP}
    /\ NP \in grant => grant = {NP}
    /\ NP \in wait => wait = {NP}

(* There is one interrupt between the grant and the load of its PSW, and   *)
(* once the vector is off the bus the arbitration is closed.               *)
Trapping == cpc \in {"trap", "trapping", "load"}
OneVector ==
    /\ mast \in {"intr_start", "intr_vector"} => ~ssyn
    /\ CardInterrupts => event = 0 /\ extVec = 0 /\ ~Trapping
    /\ event # 0 => extVec = 0 /\ ~Trapping
    /\ extVec # 0 => ~Trapping
    /\ event # 0 \/ extVec # 0 \/ Trapping => level = FETCHING

EmulatedInv == LoopWaits /\ LinesStand /\ GrantsTaken /\ OneVector

FieldInv ==
    /\ TypeOK /\ FieldTypeOK /\ ClaimsAgree /\ MachineFits
    /\ Emulated => EmulatedInv
    /\ ~Emulated => event = 0 /\ extVec = 0

(* What is assumed: see the head of the module, and SoleArbitrator.        *)
Scope == SoleArbitrator /\ ~StaleGrant /\ ~LatePsw

-----------------------------------------------------------------------------
(* A pass gives a BR grant only for a line that is up, above the           *)
(* processor's level, with no other grant taken.                           *)
LEMMA NewGrant ==
    ASSUME FieldInv, Emulated, NEW timedOut \in BOOLEAN, PassEmulated(level, timedOut),
           grant' \ {NP} # {}
    PROVE  /\ ~initOn /\ wait = {} /\ ~cpuReq /\ level # FETCHING
           /\ grant' \ {NP} \subseteq req
<1> USE DEF FieldInv, EmulatedInv
<1>1. grant' = ArbitratorGrant(Lines, SackSeen, grant, pending, level, timedOut)
    BY DEF PassEmulated
<1>2. Lines = lines
    BY DEF MachineFits, Lines
<1>3. mast = "none" /\ (sack <=> wait # {})
    BY DEF PassEmulated, ClaimsAgree
<1>4. SackSeen \/ grant \subseteq {NP}
    BY <1>3 DEF SackSeen, KeptSack, GrantsTaken
<1>5. ~SackSeen /\ grant' # {NP} /\ grant' # grant
    BY <1>1, <1>4 DEF ArbitratorGrant
<1>6. pending /\ grant' = {l \in Highest(lines) : l > level}
    BY <1>1, <1>2, <1>5 DEF ArbitratorGrant
<1>7. cpc = "arbitrate" /\ ~initOn /\ ~cpuReq
    BY <1>6 DEF LoopWaits
<1>8. wait = {}
    BY <1>3, <1>5, <1>7 DEF SackSeen, KeptSack
<1>9. grant' \ {NP} \subseteq req
    BY <1>6, <1>7 DEF LinesStand, Highest
<1>10. level # FETCHING
    <2>1. PICK l \in lines : l > level
        BY <1>6 DEF Highest
    <2>2. l \in 4 .. 8
        BY LevelsAssumption DEF TypeOK, MasksOK
    <2> QED BY <2>1, <2>2 DEF FETCHING
<1> QED BY <1>7, <1>8, <1>9, <1>10

(* NPR is granted alone.                                                   *)
LEMMA NprGrantAlone ==
    ASSUME GrantsTaken, NEW lev, NEW timedOut, PassEmulated(lev, timedOut)
    PROVE  NP \in grant' => grant' = {NP}
BY DEF PassEmulated, ArbitratorGrant, Highest, GrantsTaken

(* A pass of the loop keeps the invariant.                                 *)
LEMMA PassKeeps ==
    ASSUME FieldInv, Emulated, NEW timedOut \in BOOLEAN, PassCompares(timedOut)
    PROVE  EmulatedInv'
<1> USE DEF cpuVars, initVars, fieldVars
<1>1. /\ PassEmulated(level, timedOut) /\ WorkerDevice(grant', pending') /\ mast = "none"
      /\ UNCHANGED <<level, event, extVec, cpc, ssyn, initOn>> /\ pending' = FALSE /\ fwd' = fwd
      /\ LoopWaits /\ LinesStand /\ GrantsTaken /\ OneVector /\ ClaimsAgree
    BY DEF PassCompares, PassEmulated, Forward, FieldInv, EmulatedInv
<1>2. grant' \ {NP} # {} =>
          /\ ~initOn /\ wait = {} /\ ~cpuReq /\ level # FETCHING
          /\ grant' \ {NP} \subseteq req
    BY <1>1, NewGrant
<1>a. NP \in grant' => grant' = {NP}
    BY <1>1, NprGrantAlone
<1>3. CASE CpuAccess(pending')
    <2>1. /\ cpuReq /\ cpuReq' = FALSE /\ mast' = "dma_start" /\ UNCHANGED <<sig, lines>>
          /\ req' = Kept(req) /\ wait' = Kept(wait)
        BY <1>3 DEF CpuAccess
    <2>2. grant' \subseteq {NP}
        BY <1>2, <2>1
    <2>3. LoopWaits' /\ LinesStand' /\ GrantsTaken'
        BY <1>1, <1>a, <2>1, <2>2 DEF LoopWaits, LinesStand, GrantsTaken, Kept
    <2>4. OneVector'
        BY <1>1, <2>1 DEF OneVector, CardInterrupts, IntrStates, Trapping, Kept
    <2> QED BY <2>3, <2>4 DEF EmulatedInv
<1>4. CASE NoCpuAccess(pending') /\ TakeGrant(grant')
    <2>1. /\ Kept(wait) = {} /\ wait' = grant' \cap Kept(req) /\ UNCHANGED <<cpuReq, mast>>
          /\ req' = Kept(req) \ wait' /\ lines' = req' /\ sig' = Kept(req)
        BY <1>1, <1>4 DEF NoCpuAccess, TakeGrant, Accepted, LoopWaits
    <2>2. LoopWaits' /\ LinesStand'
        BY <1>1, <2>1 DEF LoopWaits, LinesStand
    <2>3. GrantsTaken'
        BY <1>1, <1>2, <1>a, <2>1 DEF GrantsTaken, Kept
    <2>4. wait' \ {NP} # {} => level # FETCHING
        BY <1>2, <2>1
    <2>5. OneVector'
        BY <1>1, <2>1, <2>4 DEF OneVector, CardInterrupts, IntrStates, Trapping
    <2> QED BY <2>2, <2>3, <2>5 DEF EmulatedInv
<1>5. CASE NoCpuAccess(pending') /\ TakeBus(grant')
    <2>1. /\ ~initOn /\ wait # {} /\ wait' = {} /\ ~ssyn /\ UNCHANGED <<cpuReq, req>>
          /\ lines' = req /\ sig' = req
          /\ mast' = "dma_start" \/ (mast' = "intr_start" /\ NP \notin wait)
        BY <1>5 DEF NoCpuAccess, TakeBus, MayDrive, Kept
    <2>2. LoopWaits' /\ LinesStand' /\ GrantsTaken'
        BY <1>1, <1>2, <1>a, <2>1 DEF LoopWaits, LinesStand, GrantsTaken
    <2>3. OneVector'
        BY <1>1, <2>1 DEF OneVector, CardInterrupts, IntrStates, Trapping
    <2> QED BY <2>2, <2>3 DEF EmulatedInv
<1>6. CASE NoCpuAccess(pending') /\ WaitForBus(grant')
    <2>1. ~initOn /\ wait # {} /\ UNCHANGED <<cpuReq, req, wait, mast>> /\ lines' = req /\ sig' = req
        BY <1>6 DEF NoCpuAccess, WaitForBus, Kept
    <2>2. LoopWaits' /\ LinesStand' /\ GrantsTaken'
        BY <1>1, <1>2, <1>a, <2>1 DEF LoopWaits, LinesStand, GrantsTaken
    <2>3. OneVector'
        BY <1>1, <2>1 DEF OneVector, CardInterrupts, IntrStates, Trapping
    <2> QED BY <2>2, <2>3 DEF EmulatedInv
<1> QED BY <1>1, <1>3, <1>4, <1>5, <1>6 DEF WorkerDevice

(* The card's own bus cycles and the commands of its devices.              *)
LEMMA CardKeeps ==
    ASSUME Scope, FieldInv, Emulated, CardStep
    PROVE  EmulatedInv'
<1> USE DEF MasterStep, ArmStep, armVars, arbVars, busVars, cpuVars, nVars, initVars, fieldVars
<1>1. /\ UNCHANGED <<level, event, extVec, cpc>> /\ ClaimsAgree /\ MachineFits
      /\ LoopWaits /\ LinesStand /\ GrantsTaken /\ OneVector
    BY DEF CardStep, FieldInv, EmulatedInv
<1>2. ASSUME UNCHANGED <<mast, wait, ssyn>> PROVE OneVector'
    BY <1>1, <1>2 DEF OneVector, CardInterrupts, IntrStates, Trapping
<1>3. ASSUME UNCHANGED <<req, cpuReq, sig, lines, fwd, wait, grant, pending, initOn>>
      PROVE  LoopWaits' /\ LinesStand' /\ GrantsTaken'
    BY <1>1, <1>3 DEF LoopWaits, LinesStand, GrantsTaken
<1>4. CASE PassStretched
    <2>1. /\ UNCHANGED <<cpuReq, sig, lines, fwd, grant, pending, initOn, mast, ssyn>>
          /\ req' = Kept(req) /\ wait' = Kept(wait)
        BY <1>4 DEF PassStretched, Forward
    <2>2. LoopWaits' /\ LinesStand' /\ GrantsTaken'
        BY <1>1, <2>1 DEF LoopWaits, LinesStand, GrantsTaken, Kept
    <2>3. OneVector'
        BY <1>1, <2>1 DEF OneVector, CardInterrupts, IntrStates, Trapping, Kept
    <2> QED BY <2>2, <2>3 DEF EmulatedInv
<1>5. CASE DmaStart \/ DmaLastWord \/ DmaEnds \/ DmaAborts \/ IntrStart \/ IntrVector \/ IntrEnds
    <2>1. UNCHANGED <<req, cpuReq, sig, lines, fwd, wait, grant, pending, initOn, ssyn>>
        BY <1>5 DEF DmaStart, DmaLastWord, DmaEnds, DmaAborts, IntrStart, IntrVector, IntrEnds
    <2>2. OneVector'
        BY <1>1, <1>5, <2>1 DEF OneVector, CardInterrupts, IntrStates, Trapping,
            DmaStart, DmaLastWord, DmaEnds, DmaAborts, IntrStart, IntrVector, IntrEnds
    <2> QED BY <1>3, <2>1, <2>2 DEF EmulatedInv
<1>6. CASE ArmDma
    BY <1>1, <1>2, <1>6 DEF ArmDma, LoopWaits, LinesStand, GrantsTaken, EmulatedInv
<1>7. CASE ArmDmaCancel
    <2>1. UNCHANGED <<sig, lines, fwd, grant, pending, initOn, mast, ssyn>>
        BY <1>7 DEF ArmDmaCancel
    <2>2. LoopWaits' /\ LinesStand' /\ GrantsTaken'
        BY <1>1, <1>7, <2>1 DEF ArmDmaCancel, LoopWaits, LinesStand, GrantsTaken
    <2>3. OneVector'
        BY <1>1, <1>7, <2>1 DEF ArmDmaCancel, OneVector, CardInterrupts, IntrStates, Trapping
    <2> QED BY <2>2, <2>3 DEF EmulatedInv
<1>8. ASSUME NEW l \in Levels, ArmIntr(l) \/ ArmIntrCancel(l) PROVE EmulatedInv'
    BY <1>1, <1>2, <1>8 DEF Scope, ArmIntr, ArmIntrCancel, LoopWaits, LinesStand, GrantsTaken, EmulatedInv
<1>9. CASE RegisterAccess \/ ArmAcksRegister
    BY <1>2, <1>3, <1>9 DEF RegisterAccess, ArmAcksRegister, EmulatedInv
<1>10. CASE Neighbour
    <2>1. UNCHANGED <<mast, wait, ssyn, req, cpuReq, sig, lines, fwd, grant, pending, initOn>>
        BY <1>10 DEF Neighbour, NeighbourGoesOn, NeighbourAsks, NeighbourPassed, NeighbourTakesGrant,
            NeighbourTakesBus, NeighbourDropsSack, NeighbourLeavesBus, NeighbourInit, NeighbourStep
    <2> QED BY <1>2, <1>3, <2>1 DEF EmulatedInv
<1>11. CASE InitNegated
    BY <1>1, <1>2, <1>11 DEF InitNegated, LoopWaits, LinesStand, GrantsTaken, EmulatedInv
<1> QED BY <1>4, <1>5, <1>6, <1>7, <1>8, <1>9, <1>10, <1>11 DEF CardStep

(* The interrupt slave of the firmware and the worker of the adapter.      *)
LEMMA FieldingKeeps ==
    ASSUME FieldInv, Emulated, intr_slave_start \/ intr_slave_state_1 \/ WorkerFields
    PROVE  EmulatedInv'
<1> USE DEF CpuStep, vars, armVars, arbVars, busVars, cpuVars, initVars, fieldVars
<1>1. LoopWaits /\ LinesStand /\ GrantsTaken /\ OneVector /\ ClaimsAgree
    BY DEF FieldInv, EmulatedInv
<1>2. UNCHANGED <<req, cpuReq, sig, lines, fwd, wait, grant, pending, initOn, mast, cpc>>
    BY DEF intr_slave_start, intr_slave_state_1, WorkerFields, FieldInterrupt, InterruptFielded
<1>3. LoopWaits' /\ LinesStand' /\ GrantsTaken'
    BY <1>1, <1>2 DEF LoopWaits, LinesStand, GrantsTaken
<1> USE DEF OneVector, CardInterrupts, IntrStates, Trapping
<1>4. CASE intr_slave_start
    <2>1. mast = "intr_ssyn" /\ ~ssyn /\ ssyn' /\ level' = FETCHING /\ extVec' = extVec /\ wait = {}
        BY <1>1, <1>4 DEF intr_slave_start, FieldInterrupt, ClaimsAgree
    <2>2. OneVector'
        BY <1>1, <1>2, <2>1
    <2> QED BY <1>3, <2>2 DEF EmulatedInv
<1>5. CASE intr_slave_state_1
    <2>1. OneVector'
        BY <1>1, <1>2, <1>5 DEF intr_slave_state_1, InterruptFielded
    <2> QED BY <1>3, <2>1 DEF EmulatedInv
<1>6. CASE WorkerFields
    <2>1. OneVector'
        BY <1>1, <1>2, <1>6 DEF WorkerFields
    <2> QED BY <1>3, <2>1 DEF EmulatedInv
<1> QED BY <1>4, <1>5, <1>6

(* The instruction loop.                                                   *)
LEMMA LoopKeeps ==
    ASSUME Scope, FieldInv, Emulated, InstructionLoop
    PROVE  EmulatedInv'
<1> USE DEF ArmStep, vars, armVars, arbVars, busVars, cpuVars, initVars
<1>1. LoopWaits /\ LinesStand /\ GrantsTaken /\ OneVector /\ ClaimsAgree
    BY DEF FieldInv, EmulatedInv
<1> USE DEF OneVector, CardInterrupts, IntrStates, Trapping, LoopWaits, LinesStand, GrantsTaken, EmulatedInv
<1>2. CASE GrantInterrupts
    BY <1>1, <1>2 DEF GrantInterrupts, ArmGrantInterrupts
<1>3. CASE Arbitrated
    BY <1>1, <1>3 DEF Arbitrated
<1>4. CASE TakeVector
    BY <1>1, <1>4 DEF TakeVector
<1>5. CASE BusCycle
    BY <1>1, <1>5 DEF BusCycle, ArmCpuDma
<1>6. CASE CycleEnds
    BY <1>1, <1>6 DEF CycleEnds, ClaimsAgree
<1>7. CASE LoadVectorPsw
    BY <1>1, <1>7 DEF LoadVectorPsw
<1>8. CASE ExecutePsw
    BY <1>1, <1>8 DEF ExecutePsw, Scope, OnItsWay
<1>9. CASE ExecuteOther \/ ResetEnds
    BY <1>1, <1>9 DEF ExecuteOther, ResetEnds
<1>10. CASE ExecuteReset
    BY <1>1, <1>10 DEF ExecuteReset, InitAsserted, Scope
<1> QED BY <1>2, <1>3, <1>4, <1>5, <1>6, <1>7, <1>8, <1>9, <1>10 DEF InstructionLoop

(* With a physical processor no vector is handed over.                     *)
LEMMA PhysicalKeeps ==
    ASSUME ~Emulated, event = 0, extVec = 0, [FieldNext]_allVars
    PROVE  event' = 0 /\ extVec' = 0
BY DEF FieldNext, allVars, fieldVars, CardStep, Fielding, PassCompares, PassEmulated, intr_slave_start,
    intr_slave_state_1, WorkerFields, InstructionLoop, GrantInterrupts, Arbitrated, TakeVector, BusCycle,
    CycleEnds, LoadVectorPsw, ExecutePsw, ExecuteOther, ExecuteReset, ResetEnds, PhysicalMachine

-----------------------------------------------------------------------------
(* The invariant holds at power-up,                                        *)
LEMMA FieldStart == SoleArbitrator /\ FieldInit => FieldInv
<1> SUFFICES ASSUME SoleArbitrator, FieldInit PROVE FieldInv
    OBVIOUS
<1>1. TypeOK /\ ClaimsAgree /\ MachineFits
    BY BusInit DEF FieldInit, BusInv
<1>2. FieldTypeOK
    BY FieldingAssumption DEF FieldInit, FieldTypeOK, CpcValues
<1>3. EmulatedInv
    BY DEF FieldInit, Init, EmulatedInv, LoopWaits, LinesStand, GrantsTaken, OneVector, CardInterrupts,
        IntrStates, Trapping
<1> QED BY <1>1, <1>2, <1>3 DEF FieldInv, FieldInit

(* and every step keeps it.                                                *)
LEMMA FieldKeeps ==
    ASSUME Scope, FieldInv, [FieldNext]_allVars PROVE FieldInv'
<1>1. [Next]_vars /\ FieldTypeOK'
    BY FieldStep DEF FieldInv
<1>2. TypeOK' /\ ClaimsAgree' /\ MachineFits'
    BY <1>1, TypeStep, ClaimsStep, MachineStep DEF FieldInv, Scope, TypeOK
<1>3. Emulated' = Emulated
    BY <1>1, MachineStays DEF Emulated, vars
<1>4. CASE Emulated
    <2>1. ASSUME UNCHANGED allVars PROVE EmulatedInv'
        <3>1. /\ UNCHANGED <<req, cpuReq, sig, lines, fwd, wait, grant, pending, initOn, mast, ssyn>>
              /\ UNCHANGED <<level, event, extVec, cpc>>
            BY <2>1 DEF allVars, fieldVars, vars, armVars, arbVars, busVars, cpuVars, initVars
        <3> QED BY <1>4, <3>1 DEF FieldInv, EmulatedInv, LoopWaits, LinesStand, GrantsTaken, OneVector,
            CardInterrupts, IntrStates, Trapping
    <2>2. ASSUME CardStep PROVE EmulatedInv'
        BY <1>4, <2>2, CardKeeps
    <2>3. ASSUME NEW timedOut \in BOOLEAN, PassCompares(timedOut) PROVE EmulatedInv'
        BY <1>4, <2>3, PassKeeps
    <2>4. ASSUME intr_slave_start \/ intr_slave_state_1 \/ WorkerFields PROVE EmulatedInv'
        BY <1>4, <2>4, FieldingKeeps
    <2>5. ASSUME InstructionLoop PROVE EmulatedInv'
        BY <1>4, <2>5, LoopKeeps
    <2>6. EmulatedInv'
        BY <1>4, <2>1, <2>2, <2>3, <2>4, <2>5 DEF FieldNext, Fielding, PhysicalMachine
    <2> QED BY <1>1, <1>2, <1>3, <1>4, <2>6 DEF FieldInv
<1>5. CASE ~Emulated
    BY <1>1, <1>2, <1>3, <1>5, PhysicalKeeps DEF FieldInv
<1> QED BY <1>4, <1>5

(* The inductive invariant of the bus with the emulated processor.         *)
THEOREM FieldInductive ==
    ASSUME Scope PROVE FieldSpec => []FieldInv
<1>1. FieldInit => FieldInv
    BY FieldStart DEF Scope
<1>2. FieldInv /\ [FieldNext]_allVars => FieldInv'
    BY FieldKeeps
<1> QED BY <1>1, <1>2, PTL DEF FieldSpec

(* "The arbitrator grants nothing more until the PSW of that vector has    *)
(* been loaded" (cpu20/ka11.c:105): ka11_setintr() never overwrites a      *)
(* vector that the processor has not taken.                                *)
THEOREM NoVectorOverwritten ==
    ASSUME Scope PROVE FieldSpec => VectorNotOverwritten
<1>1. FieldInv => (event # 0 => extVec = 0)
    BY DEF FieldInv, EmulatedInv, OneVector
<1>2. FieldInv /\ [FieldNext]_allVars => [event # 0 /\ event' = 0 => extVec = 0]_allVars
    BY <1>1
<1> QED BY <1>2, FieldInductive, PTL DEF FieldSpec, VectorNotOverwritten
=============================================================================
