-------------------------- MODULE InterruptFielding --------------------------
(***************************************************************************)
(* The emulated processor behind the bus of BusArbitration: the firmware's *)
(* interrupt slave (pru1_statemachine_intr_slave.c), the adapter's worker, *)
(* which hands the vector over, and the instruction loop of the PDP-11     *)
(* cores (cpu20/ka11.c, cpu34/kd11ea.c) with the bus services it calls     *)
(* (cpu.cpp). The loop, the worker and the firmware run concurrently; what *)
(* the loop does between two of its waits is a step.                       *)
(***************************************************************************)
EXTENDS BusArbitration

CONSTANT LatePsw   \* an instruction may load the PSW while an INTR it was
                   \* not told of is granted or on its way

ASSUME FieldingAssumption == LatePsw \in BOOLEAN /\ 0 \in PswLevels

VARIABLES
    level,   \* mailbox.arbitrator.ifs_priority_level
    event,   \* the vector of an intr_slave event not acked, or 0
    extVec,  \* external_intrvec if external_intr, or 0
    cpc      \* where the instruction loop is

fieldVars == <<level, event, extVec, cpc>>
allVars == <<vars, fieldVars>>

FieldInit ==
    /\ Init
    /\ level = 0 /\ event = 0 /\ extVec = 0 /\ cpc = "service"

(* A granted INTR the loop has not taken yet.                              *)
OnItsWay ==
    \/ wait \ {NP} # {} \/ mast \in {"intr_start", "intr_vector", "intr_ssyn"}
    \/ event # 0 \/ extVec # 0

-----------------------------------------------------------------------------
(* The firmware: a pass compares with the level it finds in the mailbox;   *)
(* an INTR is answered with SSYN, closes the arbitration and goes to the   *)
(* ARM; SSYN is held until the ARM acked it and INTR is gone.              *)
PassCompares(timedOut) ==
    /\ PassEmulated(level, timedOut)
    /\ UNCHANGED fieldVars

(* Mutant: the arbitration is not closed.                                  *)
intr_slave_start_StaysOpen ==
    /\ Emulated /\ FieldInterrupt
    /\ event' = vector
    /\ UNCHANGED <<level, extVec, cpc>>

intr_slave_start ==
    /\ Emulated /\ FieldInterrupt
    /\ level' = FETCHING
    /\ event' = vector
    /\ UNCHANGED <<extVec, cpc>>

intr_slave_state_1 ==
    /\ Emulated /\ InterruptFielded
    /\ event = 0
    /\ UNCHANGED fieldVars

(* worker() of the adapter: on_interrupt(), then the ack.                  *)
WorkerFields ==
    /\ event # 0
    /\ extVec' = event
    /\ event' = 0
    /\ UNCHANGED <<vars, level, cpc>>

-----------------------------------------------------------------------------
(* The instruction loop. unibone_grant_interrupts() before each            *)
(* instruction: the thread spins until the firmware has arbitrated.        *)
GrantInterrupts ==
    /\ cpc = "service"
    /\ ArmGrantInterrupts
    /\ cpc' = "arbitrate"
    /\ UNCHANGED <<level, event, extVec>>

Arbitrated ==
    /\ cpc = "arbitrate" /\ ~pending
    /\ cpc' = "check"
    /\ UNCHANGED <<vars, level, event, extVec>>

(* A vector handed over by now is taken instead of the next opcode.        *)
TakeVector ==
    /\ cpc = "check"
    /\ cpc' = IF extVec # 0 THEN "trap" ELSE "fetch"
    /\ extVec' = 0
    /\ UNCHANGED <<vars, level, event>>

(* Opcode, stack and vector through memory: bus cycles, or none with       *)
(* direct_memory.                                                          *)
BusCycle ==
    /\ cpc \in {"fetch", "trap"}
    /\ ArmCpuDma
    /\ cpc' = IF cpc = "fetch" THEN "fetching" ELSE "trapping"
    /\ UNCHANGED <<level, event, extVec>>

CycleEnds ==
    /\ \/ cpc \in {"fetching", "trapping"} /\ dma # "cpu"
       \/ cpc \in {"fetch", "trap"}
    /\ cpc' = IF cpc \in {"fetch", "fetching"} THEN "execute" ELSE "load"
    /\ UNCHANGED <<vars, level, event, extVec>>

(* Mutant: more than the priority field of the PSW is announced.           *)
LoadVectorPsw_NotMasked ==
    /\ cpc = "load"
    /\ level' \in {l + 8 : l \in PswLevels}
    /\ cpc' = "service"
    /\ UNCHANGED <<vars, event, extVec>>

(* The new PSW from the vector: unibone_prioritylevelchange().             *)
LoadVectorPsw ==
    /\ cpc = "load"
    /\ level' \in PswLevels
    /\ cpc' = "service"
    /\ UNCHANGED <<vars, event, extVec>>

(* An instruction that loads the PSW: MTPS, RTI, a write to 777776, a trap.*)
ExecutePsw ==
    /\ cpc = "execute"
    /\ LatePsw \/ ~OnItsWay
    /\ level' \in PswLevels
    /\ cpc' = "service"
    /\ UNCHANGED <<vars, event, extVec>>

ExecuteOther ==
    /\ cpc = "execute"
    /\ cpc' = "service"
    /\ UNCHANGED <<vars, level, event, extVec>>

(* Mutant: RESET drops the pending vector as well.                         *)
ExecuteReset_DropsVector ==
    /\ cpc = "execute"
    /\ InitAsserted
    /\ cpc' = "reset"
    /\ extVec' = 0
    /\ UNCHANGED <<level, event>>

(* RESET: ka11_reset() leaves a vector taken off the bus pending; then the *)
(* INIT pulse, which the thread waits out.                                 *)
ExecuteReset ==
    /\ cpc = "execute"
    /\ InitAsserted
    /\ cpc' = "reset"
    /\ UNCHANGED <<level, event, extVec>>

ResetEnds ==
    /\ cpc = "reset" /\ ~initOn
    /\ cpc' = "service"
    /\ UNCHANGED <<vars, level, event, extVec>>

-----------------------------------------------------------------------------
(* The rest of the bus: the card's cycles and the commands of its devices. *)
CardStep ==
    /\ Emulated
    /\ \/ PassStretched
       \/ DmaStart \/ DmaLastWord \/ DmaEnds \/ DmaAborts
       \/ IntrStart \/ IntrVector \/ IntrEnds
       \/ ArmDma \/ ArmDmaCancel
       \/ \E l \in Levels : ArmIntr(l) \/ ArmIntrCancel(l)
       \/ RegisterAccess \/ ArmAcksRegister \/ Neighbour \/ InitNegated
    /\ UNCHANGED fieldVars

Fielding ==
    \/ \E timedOut \in BOOLEAN : PassCompares(timedOut)
    \/ intr_slave_start \/ intr_slave_state_1
    \/ WorkerFields

InstructionLoop ==
    \/ GrantInterrupts \/ Arbitrated \/ TakeVector \/ BusCycle \/ CycleEnds
    \/ LoadVectorPsw \/ ExecutePsw \/ ExecuteOther \/ ExecuteReset \/ ResetEnds

(* With a physical processor none of this runs.                            *)
PhysicalMachine == ~Emulated /\ Next /\ UNCHANGED fieldVars

FieldNext == CardStep \/ Fielding \/ InstructionLoop \/ PhysicalMachine

(* As on the bus, and: a grant nobody answers times out, the worker of the *)
(* adapter and the processor's thread run for ever, and mailbox_mutex lets *)
(* the processor's thread in sooner or later.                              *)
FieldFairness ==
    /\ BusFairness
    /\ WF_allVars(PassCompares(TRUE))
    /\ WF_allVars(WorkerFields)
    /\ WF_allVars(InstructionLoop)
    /\ SF_allVars(GrantInterrupts)

FieldSpec == FieldInit /\ [][FieldNext]_allVars /\ FieldFairness

-----------------------------------------------------------------------------
CpcValues == {"service", "arbitrate", "check", "fetch", "fetching", "execute",
              "trap", "trapping", "load", "reset"}

(* The mailbox words the firmware and the processor share hold a level or  *)
(* "fetching", and a vector or none.                                       *)
FieldTypeOK ==
    /\ level \in PswLevels \cup {FETCHING}
    /\ event \in Levels \cup {0} /\ extVec \in Levels \cup {0}
    /\ cpc \in CpcValues

(* "The arbitrator grants nothing more until the PSW of that vector has    *)
(* been loaded" (cpu20/ka11.c:105): the worker hands a vector over only     *)
(* when the processor has taken the last one, none is overwritten.         *)
VectorNotOverwritten == [][event # 0 /\ event' = 0 => extVec = 0]_allVars

(* Dropping a vector at RESET would "stop every later one"                 *)
(* (cpu20/ka11.c:106): the arbitration an INTR closes is always opened      *)
(* again by the processor loading a PSW.                                   *)
ArbitrationReopens == level = FETCHING ~> level # FETCHING
=============================================================================
