-------------------------- MODULE MscpRingsProofs ---------------------------
(***************************************************************************)
(* The rings of the MSCP port, for rings of any length and any number of   *)
(* commands, resets and failing bus cycles: types, the commands in flight, *)
(* the ring pointers of port and host, and the credits.                    *)
(***************************************************************************)
EXTENDS MscpPortProofs, FiniteSetTheorems, SequenceTheorems

Ring == [cmdLen : {0, CmdLen}, rspLen : {0, RspLen}, ringBase : SUBSET {"low", "high"},
         vector : BOOLEAN, cmdPtr : CmdSlots, rspPtr : RspSlots]

(* TypeOK by the actor that keeps the state.                               *)
PortTypes == initStep \in 0 .. 5 /\ nextStep \in BOOLEAN /\ sa \in 0 .. 6 /\ ring \in Ring
WorkTypes ==
    /\ wpc \in {"wait", "take", "reset", "parking", "chain", "pause", "comm", "publish"}
    /\ wStep \in 0 .. 5 /\ wCur \in BOOLEAN
ServTypes ==
    /\ pollState \in {"Wait", "Run", "InitRun", "InitRestart"}
    /\ credits \in Nat /\ onlineBy \in 0 .. MaxCmds
PollTypes ==
    /\ ppc \in {"sleep", "fetch", "take", "exec", "post", "repost", "message", "handback",
               "notify", "linger", "end"}
    /\ msgs \in Seq(0 .. MaxCmds) /\ cur \in 0 .. MaxCmds /\ grant \in Nat
    /\ worked \in BOOLEAN /\ waited \in 0 .. LingerRounds /\ more \in BOOLEAN
MemTypes ==
    /\ cmdRing \in [CmdSlots -> Slot] /\ rspRing \in [RspSlots -> Slot]
    /\ irq \in BOOLEAN /\ lost \subseteq {"message", "slot"}
HostTypes ==
    /\ hpc \in {"start", "init", "run"} /\ hStep \in 1 .. 4
    /\ scanning \in BOOLEAN /\ bell \in BOOLEAN /\ lateBell \in BOOLEAN
    /\ hCmd \in CmdSlots /\ hRsp \in RspSlots /\ hCredits \in Nat
    /\ out \subseteq Cmds /\ issued \in 0 .. MaxCmds /\ base \in 0 .. MaxCmds
    /\ resets \in 0 .. MaxResets
Types == /\ PortTypes /\ WorkTypes /\ ServTypes /\ PollTypes /\ MemTypes /\ HostTypes
         /\ errors \in 0 .. MaxErrors

(* The parts are TypeOK.                                                   *)
LEMMA TypeParts == TypeOK <=> Types
BY DEF TypeOK, Types, PortTypes, WorkTypes, ServTypes, PollTypes, MemTypes, HostTypes, Ring

(* A part whose variables stay keeps its types.                            *)
LEMMA TypesStay ==
    /\ PortTypes /\ UNCHANGED portVars => PortTypes'
    /\ WorkTypes /\ UNCHANGED workVars => WorkTypes'
    /\ ServTypes /\ UNCHANGED servVars => ServTypes'
    /\ PollTypes /\ UNCHANGED pollVars => PollTypes'
    /\ MemTypes /\ UNCHANGED memVars => MemTypes'
    /\ HostTypes /\ UNCHANGED hostVars => HostTypes'
BY DEF PortTypes, WorkTypes, ServTypes, PollTypes, MemTypes, HostTypes, portVars, workVars,
       servVars, pollVars, memVars, hostVars

(* The slots as the host and the port write them.                          *)
LEMMA SlotTypes ==
    /\ HostSlot \in Slot /\ PortSlot \in Slot
    /\ \A id \in 0 .. MaxCmds : [PortSlot EXCEPT !.msg = id] \in Slot
    /\ \A id \in 0 .. MaxCmds, g \in Nat : [own |-> FALSE, msg |-> id, grant |-> g] \in Slot
    /\ \A s \in Slot : [s EXCEPT !.own = FALSE] \in Slot
    /\ 0 \in CmdSlots /\ 0 \in RspSlots
<1>1. HostSlot \in Slot /\ PortSlot \in Slot
    BY PortAssumption DEF HostSlot, PortSlot, Slot
<1>2. \A id \in 0 .. MaxCmds : [PortSlot EXCEPT !.msg = id] \in Slot
    BY DEF PortSlot, Slot
<1>3. \A id \in 0 .. MaxCmds, g \in Nat : [own |-> FALSE, msg |-> id, grant |-> g] \in Slot
    BY DEF Slot
<1>4. \A s \in Slot : [s EXCEPT !.own = FALSE] \in Slot
    BY DEF Slot
<1>5. 0 \in CmdSlots /\ 0 \in RspSlots
    BY RingAssumption DEF CmdSlots, RspSlots
<1> QED BY <1>1, <1>2, <1>3, <1>4, <1>5

(* A ring pointer moved on is in the ring.                                 *)
LEMMA NextSlots ==
    /\ \A p \in CmdSlots : (p + 1) % CmdLen \in CmdSlots
    /\ \A p \in RspSlots : (p + 1) % RspLen \in RspSlots
BY RingAssumption DEF CmdSlots, RspSlots

(* A new initialisation step is a step.                                    *)
LEMMA TransitionTypes ==
    ASSUME NEW step \in 0 .. 5, StateTransition(step)
    PROVE  initStep' \in 0 .. 5 /\ nextStep' \in BOOLEAN /\ wCur' \in BOOLEAN
BY DEF StateTransition

(* What the host forgets keeps its types.                                  *)
LEMMA ForgetTypes ==
    ASSUME HostTypes, HostForgets, hpc' \in {"start", "init"}, hStep' = 1
    PROVE  HostTypes'
<1>1. /\ resets' \in 0 .. MaxResets
    BY PortAssumption DEF HostTypes, HostForgets
<1>2. /\ scanning' = FALSE /\ bell' = FALSE /\ lateBell' = FALSE /\ hCmd' = 0 /\ hRsp' = 0 /\ hCredits' = 1 /\ out' = {}
      /\ base' = issued /\ issued' = issued
    BY DEF HostForgets
<1>a. scanning' \in BOOLEAN /\ bell' \in BOOLEAN /\ lateBell' \in BOOLEAN
    BY <1>2
<1>b. hpc' \in {"start", "init", "run"} /\ hStep' \in 1 .. 4
    OBVIOUS
<1>3. scanning' \in BOOLEAN /\ bell' \in BOOLEAN /\ lateBell' \in BOOLEAN /\ hpc' \in {"start", "init", "run"} /\ hStep' \in 1 .. 4
    BY <1>a, <1>b
<1>4. hCmd' \in CmdSlots /\ hRsp' \in RspSlots /\ hCredits' \in Nat /\ out' \subseteq Cmds
    BY <1>2, SlotTypes
<1>5. issued' \in 0 .. MaxCmds /\ base' \in 0 .. MaxCmds
    BY <1>2 DEF HostTypes
<1> QED BY <1>1, <1>3, <1>4, <1>5 DEF HostTypes

(* The host's steps keep the types.                                        *)
LEMMA HostTyped ==
    ASSUME Types, Host \/ BusReset
    PROVE  Types'
<1> USE DEF Types
<1>1. CASE HostWritesIP
    <2>1. /\ StateTransition(0) /\ sa' = 0 /\ UNCHANGED <<ring, wpc, wStep, servVars, pollVars, memVars, errors>>
          /\ HostForgets /\ hpc' = "init" /\ hStep' = 1
        BY <1>1 DEF HostWritesIP, SaZero
    <2>2. PortTypes' /\ WorkTypes'
        BY <2>1, TransitionTypes DEF PortTypes, WorkTypes
    <2> QED BY <2>1, <2>2, TypesStay, ForgetTypes
<1>2. CASE BusReset
    <2>1. /\ StateTransition(0) /\ onlineBy' = 0 /\ irq' = FALSE
          /\ UNCHANGED <<sa, ring, wpc, wStep, pollState, credits, pollVars, cmdRing, rspRing, lost, errors>>
          /\ HostForgets /\ hpc' = "start" /\ hStep' = 1
        BY <1>2 DEF BusReset
    <2>2. PortTypes' /\ WorkTypes'
        BY <2>1, TransitionTypes DEF PortTypes, WorkTypes
    <2>3. ServTypes'
        BY <2>1, PortAssumption DEF ServTypes
    <2>4. MemTypes'
        BY <2>1 DEF MemTypes
    <2> QED BY <2>1, <2>2, <2>3, <2>4, TypesStay, ForgetTypes
<1>3. CASE HostWraps
    <2>1. /\ sa' = 6 /\ UNCHANGED <<initStep, nextStep, ring, workVars, servVars, pollVars, memVars, errors>>
          /\ HostForgets /\ hpc' = "start" /\ hStep' = 1
        BY <1>3 DEF HostWraps, SaEcho
    <2>2. PortTypes'
        BY <2>1 DEF PortTypes
    <2> QED BY <2>1, <2>2, TypesStay, ForgetTypes
<1>4. CASE HostAnswersStep
    <2>1. /\ SaWrite
          /\ UNCHANGED <<wpc, wStep, servVars, pollVars, irq, scanning, bell, lateBell, hCmd, hRsp,
                         hCredits, out, issued, base, resets, errors>>
        BY <1>4 DEF HostAnswersStep
    <2>2. PortTypes'
        <3>1. initStep' \in 0 .. 5 /\ nextStep' \in BOOLEAN
            BY <2>1, TransitionTypes DEF SaWrite, PortTypes, portVars
        <3>2. sa' \in 0 .. 6
            BY <2>1 DEF PortTypes, SaWrite, SaZero, portVars
        <3>3. ring' \in Ring
            <4>1. \/ ring' = [ring EXCEPT !.cmdLen = CmdLen, !.rspLen = RspLen, !.vector = TRUE]
                  \/ ring' = [ring EXCEPT !.ringBase = {"low"}]
                  \/ ring' = [ring EXCEPT !.ringBase = ring.ringBase \cup {"high"}]
                  \/ ring' = ring
                BY <2>1 DEF SaWrite, portVars
            <4>2. ring \in Ring /\ ring.ringBase \cup {"high"} \in SUBSET {"low", "high"}
                BY DEF PortTypes, Ring
            <4> QED BY <4>1, <4>2 DEF Ring
        <3> QED BY <3>1, <3>2, <3>3 DEF PortTypes
    <2>3. WorkTypes'
        BY <2>1 DEF WorkTypes, SaWrite, StateTransition
    <2>4. HostTypes'
        BY <1>4, <2>1 DEF HostTypes, HostAnswersStep
    <2>5. MemTypes'
        BY <1>4, <2>1, SlotTypes DEF MemTypes, HostAnswersStep
    <2> QED BY <2>1, <2>2, <2>3, <2>4, <2>5, TypesStay
<1>5. CASE HostSubmits
    <2>1. /\ issued < MaxCmds /\ issued' = issued + 1 /\ out' = out \cup {issued + 1}
          /\ hCredits > 0 /\ hCredits' = hCredits - 1 /\ bell' \in {TRUE, bell}
          /\ hCmd' = (hCmd + 1) % CmdLen
          /\ cmdRing' = [cmdRing EXCEPT ![hCmd] = [PortSlot EXCEPT !.msg = issued + 1]]
          /\ UNCHANGED <<portVars, workVars, servVars, pollVars, rspRing, irq, lost, hpc, hStep,
                         scanning, lateBell, hRsp, base, resets, errors>>
        BY <1>5 DEF HostSubmits
    <2>2. issued + 1 \in 0 .. MaxCmds /\ issued + 1 \in Cmds
        BY <2>1, PortAssumption DEF HostTypes, Cmds
    <2>3. hCmd' \in CmdSlots
        BY <2>1, NextSlots DEF HostTypes
    <2>4. HostTypes'
        <3>1. hCredits' \in Nat
            BY <2>1 DEF HostTypes
        <3>2. bell' \in BOOLEAN
            BY <2>1 DEF HostTypes
        <3>3. out' \subseteq Cmds
            BY <2>1, <2>2 DEF HostTypes
        <3> QED BY <2>1, <2>2, <2>3, <3>1, <3>2, <3>3 DEF HostTypes
    <2>5. MemTypes'
        BY <2>1, <2>2, SlotTypes DEF MemTypes
    <2> QED BY <2>1, <2>4, <2>5, TypesStay
<1>6. CASE HostRings
    <2>0. lateBell' \in BOOLEAN
        BY <1>6, Zenon DEF HostRings
    <2>1. ServTypes' /\ HostTypes'
        BY <1>6, <2>0 DEF HostRings, InitPolling, ServTypes, HostTypes
    <2> QED BY <1>6, <2>1, TypesStay DEF HostRings
<1>7. CASE HostTakesInterrupt
    <2>1. MemTypes' /\ HostTypes'
        BY <1>7 DEF HostTakesInterrupt, MemTypes, HostTypes
    <2> QED BY <1>7, <2>1, TypesStay DEF HostTakesInterrupt
<1>8. CASE HostScans
    <2>1. /\ UNCHANGED <<portVars, workVars, servVars, pollVars, cmdRing, irq, lost, hpc, hStep, bell,
                         lateBell, hCmd, issued, base, resets, errors>>
          /\ \/ scanning' = FALSE /\ UNCHANGED <<rspRing, hRsp, hCredits, out>>
             \/ /\ out' = out \ {rspRing[hRsp].msg}
                /\ hCredits' \in {hCredits, hCredits + 1 + rspRing[hRsp].grant}
                /\ rspRing' = [rspRing EXCEPT ![hRsp] = PortSlot] /\ hRsp' = (hRsp + 1) % RspLen
                /\ UNCHANGED scanning
        BY <1>8 DEF HostScans
    <2>2. rspRing[hRsp].grant \in Nat
        BY DEF MemTypes, HostTypes, Slot
    <2>3. HostTypes'
        <3>1. hCredits' \in Nat /\ hRsp' \in RspSlots /\ out' \subseteq Cmds
            BY <2>1, <2>2, NextSlots DEF HostTypes
        <3>2. scanning' \in BOOLEAN
            BY <2>1 DEF HostTypes
        <3> QED BY <2>1, <3>1, <3>2 DEF HostTypes
    <2>4. MemTypes'
        BY <2>1, SlotTypes DEF MemTypes, HostTypes
    <2> QED BY <2>1, <2>3, <2>4, TypesStay
<1> QED BY <1>1, <1>2, <1>3, <1>4, <1>5, <1>6, <1>7, <1>8 DEF Host

(* worker()'s steps keep the types.                                        *)
LEMMA WorkerTyped ==
    ASSUME Types, Worker
    PROVE  Types'
<1> USE DEF Types
<1>1. CASE WorkerWakes
    <2>1. PortTypes' /\ WorkTypes'
        BY <1>1 DEF WorkerWakes, PortTypes, WorkTypes
    <2> QED BY <1>1, <2>1, TypesStay DEF WorkerWakes
<1>2. CASE WorkerTakesStep
    <2>1. PortTypes'
        BY <1>2 DEF WorkerTakesStep, PortTypes, SaZero
    <2>2. WorkTypes'
        BY <1>2 DEF WorkerTakesStep, PortTypes, WorkTypes
    <2> QED BY <1>2, <2>1, <2>2, TypesStay DEF WorkerTakesStep
<1>3. CASE WorkerStopsPolling
    <2>1. WorkTypes' /\ ServTypes'
        BY <1>3 DEF WorkerStopsPolling, ServTypes, WorkTypes
    <2> QED BY <1>3, <2>1, TypesStay DEF WorkerStopsPolling
<1>4. CASE WorkerResets
    <2>1. /\ credits' = InitCredits /\ onlineBy' = 0 /\ ring' = NoRing /\ wpc' = "chain"
          /\ UNCHANGED <<initStep, nextStep, sa, wStep, wCur, pollState, pollVars, memVars, hostVars, errors>>
        BY <1>4 DEF WorkerResets, ResetState
    <2>2. NoRing \in Ring
        BY SlotTypes DEF NoRing, Ring
    <2>3. PortTypes' /\ WorkTypes'
        BY <2>1, <2>2 DEF PortTypes, WorkTypes
    <2>4. ServTypes'
        BY <2>1, PortAssumption DEF ServTypes
    <2> QED BY <2>1, <2>3, <2>4, TypesStay
<1>5. CASE WorkerChains
    <2>1. /\ initStep' \in 0 .. 5 /\ nextStep' \in BOOLEAN /\ wCur' \in BOOLEAN
        BY <1>5, TransitionTypes DEF WorkerChains, PortTypes, WorkTypes
    <2>2. PortTypes' /\ WorkTypes'
        BY <1>5, <2>1 DEF WorkerChains, PortTypes, WorkTypes
    <2> QED BY <1>5, <2>2, TypesStay DEF WorkerChains
<1>6. CASE WorkerTestsStep
    <2>1. PortTypes' /\ WorkTypes'
        BY <1>6 DEF WorkerTestsStep, PortTypes, WorkTypes
    <2> QED BY <1>6, <2>1, TypesStay DEF WorkerTestsStep
<1>7. CASE WorkerClearsCommArea
    <2>1. MemTypes'
        BY <1>7, SlotTypes DEF WorkerClearsCommArea, MemTypes
    <2>2. WorkTypes'
        BY <1>7 DEF WorkerClearsCommArea, WorkTypes
    <2>3. errors' \in 0 .. MaxErrors
        BY <1>7, PortAssumption DEF WorkerClearsCommArea, DmaFails
    <2> QED BY <1>7, <2>1, <2>2, <2>3, TypesStay DEF WorkerClearsCommArea
<1>8. CASE WorkerPublishes
    <2>1. PortTypes' /\ WorkTypes'
        BY <1>8 DEF WorkerPublishes, PortTypes, WorkTypes
    <2> QED BY <1>8, <2>1, TypesStay DEF WorkerPublishes
<1> QED BY <1>1, <1>2, <1>3, <1>4, <1>5, <1>6, <1>7, <1>8 DEF Worker

(* A bus cycle that fails, with the port error it causes.                  *)
LEMMA ErrorTyped ==
    ASSUME Types, DmaFails, PortError, UNCHANGED <<ring, wpc, wStep>>
    PROVE  PortTypes' /\ WorkTypes' /\ errors' \in 0 .. MaxErrors
<1>1. initStep' = 0 /\ nextStep' = TRUE /\ wCur' = FALSE /\ sa' = 5
    BY DEF PortError, StateTransition, SaError
<1>2. errors' \in 0 .. MaxErrors
    BY PortAssumption DEF DmaFails, Types
<1>3. PortTypes'
    BY <1>1 DEF Types, PortTypes
<1>4. WorkTypes'
    BY <1>1 DEF Types, WorkTypes
<1> QED BY <1>2, <1>3, <1>4

(* The polling thread's steps keep the types.                              *)
LEMMA PollTyped ==
    ASSUME Types, Poll
    PROVE  Types'
<1> USE DEF Types
<1>e. <<>> \in Seq(0 .. MaxCmds)
    OBVIOUS
<1>c. \A i \in CmdSlots : cmdRing[i].msg \in 0 .. MaxCmds
    BY DEF MemTypes, Slot
<1>p. ring.cmdPtr \in CmdSlots /\ ring.rspPtr \in RspSlots
    BY DEF PortTypes, Ring
<1>1. CASE PollWakes
    <2>1. ServTypes' /\ PollTypes'
        BY <1>1, <1>e DEF PollWakes, ServTypes, PollTypes
    <2> QED BY <1>1, <2>1, TypesStay DEF PollWakes
<1>2. CASE PollFetches
    <2>1. PollTypes'
        BY <1>2, <1>e, <1>c, <1>p DEF PollFetches, PollTypes
    <2>2. PortTypes' /\ WorkTypes' /\ errors' \in 0 .. MaxErrors
        BY <1>2, TypesStay, ErrorTyped DEF PollFetches
    <2> QED BY <1>2, <2>1, <2>2, TypesStay DEF PollFetches
<1>3. CASE PollTakesCommand
    <2>1. UNCHANGED <<servVars, cur, grant, waited, more, rspRing, lost, hostVars>>
        BY <1>3 DEF PollTakesCommand
    <2>2. CASE /\ cmdRing' = [cmdRing EXCEPT ![ring.cmdPtr].own = FALSE]
               /\ ring' = [ring EXCEPT !.cmdPtr = IF ring.cmdLen = 0 THEN 0 ELSE (@ + 1) % ring.cmdLen]
               /\ irq' = (irq \/ Interrupts)
               /\ msgs' = Append(msgs, cur) /\ worked' = TRUE /\ ppc' = "fetch"
               /\ UNCHANGED <<initStep, nextStep, sa, workVars, errors>>
        <3>1. PollTypes'
            BY <2>1, <2>2 DEF PollTypes
        <3>2. PortTypes'
            <4>1. (IF ring.cmdLen = 0 THEN 0 ELSE (ring.cmdPtr + 1) % ring.cmdLen) \in CmdSlots
                BY <1>p, SlotTypes, NextSlots DEF PortTypes, Ring
            <4>2. ring' \in Ring
                BY <2>2, <4>1 DEF PortTypes, Ring
            <4> QED BY <2>2, <4>2 DEF PortTypes
        <3>3. cmdRing' \in [CmdSlots -> Slot]
            BY <1>p, <2>2, SlotTypes DEF MemTypes
        <3>4. irq' \in BOOLEAN
            BY <2>2, Zenon DEF MemTypes, Interrupts, IsRunning, PortTypes
        <3>5. MemTypes'
            BY <2>1, <3>3, <3>4 DEF MemTypes
        <3> QED BY <2>1, <2>2, <3>1, <3>2, <3>5, TypesStay
    <2>3. CASE /\ DmaFails /\ PortError /\ msgs' = <<>> /\ ppc' = "exec"
               /\ UNCHANGED <<ring, wpc, wStep, worked, cmdRing, irq>>
        <3>1. PollTypes' /\ MemTypes'
            BY <1>e, <2>1, <2>3 DEF PollTypes, MemTypes
        <3> QED BY <2>1, <2>3, <3>1, ErrorTyped, TypesStay
    <2> QED BY <1>3, <2>2, <2>3 DEF PollTakesCommand
<1>4. CASE PollExecutes
    <2>1. UNCHANGED <<portVars, workVars, pollState, worked, memVars, hostVars, errors>>
        BY <1>4 DEF PollExecutes
    <2>2. PollTypes' /\ ServTypes'
        <3>1. CASE msgs # <<>> /\ pollState # "InitRestart"
            <4>1. Head(msgs) \in 0 .. MaxCmds /\ Tail(msgs) \in Seq(0 .. MaxCmds)
                BY <3>1, HeadTailProperties DEF PollTypes
            <4>2. /\ cur' = Head(msgs) /\ msgs' = Tail(msgs)
                  /\ onlineBy' \in {Head(msgs), onlineBy}
                  /\ grant' = credits /\ credits' = 0 /\ ppc' = "post" /\ UNCHANGED <<waited, more>>
                BY <1>4, <3>1 DEF PollExecutes
            <4> QED BY <2>1, <4>1, <4>2 DEF PollTypes, ServTypes
        <3>2. CASE ~(msgs # <<>> /\ pollState # "InitRestart")
            <4>1. /\ ppc' \in {"linger", "end"} /\ waited' = 0 /\ more' = FALSE
                  /\ UNCHANGED <<cur, msgs, onlineBy, grant, credits>>
                BY <1>4, <3>2 DEF PollExecutes
            <4>2. waited' \in 0 .. LingerRounds
                BY <4>1, PortAssumption
            <4> QED BY <2>1, <4>1, <4>2 DEF PollTypes, ServTypes
        <3> QED BY <3>1, <3>2
    <2> QED BY <2>1, <2>2, TypesStay
<1>5. CASE PollPosts
    <2>1. PollTypes'
        BY <1>5 DEF PollPosts, PollTypes
    <2>2. PortTypes' /\ WorkTypes' /\ errors' \in 0 .. MaxErrors
        BY <1>5, TypesStay, ErrorTyped DEF PollPosts
    <2> QED BY <1>5, <2>1, <2>2, TypesStay DEF PollPosts
<1>6. CASE PollHandsBack
    <2>1. PollTypes'
        BY <1>6 DEF PollHandsBack, PollTypes
    <2>2. MemTypes'
        <3>1. rspRing' \in [RspSlots -> Slot]
            BY <1>6, <1>p, SlotTypes DEF PollHandsBack, MemTypes, PollTypes
        <3>2. lost' \subseteq {"message", "slot"}
            BY <1>6 DEF PollHandsBack, MemTypes
        <3> QED BY <1>6, <3>1, <3>2 DEF PollHandsBack, MemTypes
    <2>3. errors' \in 0 .. MaxErrors
        BY <1>6, PortAssumption DEF PollHandsBack, DmaFails
    <2> QED BY <1>6, <2>1, <2>2, <2>3, TypesStay DEF PollHandsBack
<1>7. CASE PollNotifies
    <2>1. PollTypes'
        BY <1>7, PortAssumption DEF PollNotifies, PollTypes
    <2>2. irq' \in BOOLEAN
        BY <1>7, Zenon DEF PollNotifies, MemTypes, Interrupts, IsRunning, PortTypes
    <2>3. MemTypes'
        BY <1>7, <2>2 DEF PollNotifies, MemTypes
    <2>4. (IF ring.rspLen = 0 THEN 0 ELSE (ring.rspPtr + 1) % ring.rspLen) \in RspSlots
        BY <1>p, SlotTypes, NextSlots DEF PortTypes, Ring
    <2>5. ring' \in Ring
        BY <1>7, <2>4 DEF PollNotifies, PortTypes, Ring
    <2>6. PortTypes'
        BY <1>7, <2>5 DEF PollNotifies, PortTypes
    <2> QED BY <1>7, <2>1, <2>3, <2>6, TypesStay DEF PollNotifies
<1>8. CASE PollLingers
    <2>1. PollTypes'
        <3>1. waited' \in 0 .. LingerRounds
            BY <1>8, PortAssumption DEF PollLingers, PollTypes
        <3>2. more' \in BOOLEAN
            BY <1>8 DEF PollLingers, PollTypes
        <3>3. ppc' \in {"linger", "end"}
            BY <1>8 DEF PollLingers
        <3> QED BY <1>8, <3>1, <3>2, <3>3 DEF PollLingers, PollTypes
    <2>2. PortTypes' /\ WorkTypes' /\ errors' \in 0 .. MaxErrors
        BY <1>8, TypesStay, ErrorTyped DEF PollLingers
    <2> QED BY <1>8, <2>1, <2>2, TypesStay DEF PollLingers
<1>9. CASE PollEndsPass
    <2>1. cur' \in 0 .. MaxCmds /\ grant' \in Nat /\ waited' \in 0 .. LingerRounds /\ msgs' = <<>>
        BY <1>9, PortAssumption DEF PollEndsPass
    <2>2. worked' \in BOOLEAN /\ more' \in BOOLEAN
        BY <1>9, Zenon DEF PollEndsPass
    <2>3. PollTypes'
        BY <1>9, <1>e, <2>1, <2>2 DEF PollEndsPass, PollTypes
    <2>4. ServTypes'
        BY <1>9 DEF PollEndsPass, ServTypes
    <2> QED BY <1>9, <2>3, <2>4, TypesStay DEF PollEndsPass
<1>10. CASE PollWritesMessage
    <2>1. PollTypes'
        BY <1>10, PortAssumption DEF PollWritesMessage, PollTypes
    <2>2. MemTypes'
        BY <1>10 DEF PollWritesMessage, MemTypes
    <2>3. errors' \in 0 .. MaxErrors
        BY <1>10, PortAssumption DEF PollWritesMessage, DmaFails
    <2> QED BY <1>10, <2>1, <2>2, <2>3, TypesStay DEF PollWritesMessage
<1> QED BY <1>1, <1>2, <1>3, <1>4, <1>5, <1>6, <1>7, <1>8, <1>9, <1>10 DEF Poll

(* Every variable of the port, its threads, the rings and the host keeps   *)
(* its type: the ring pointers stay in the rings of the lengths the host   *)
(* gave, whatever resets and errors come between.                          *)
THEOREM PortTyped == Spec => []TypeOK
<1>1. Init => Types
    <2> SUFFICES ASSUME Init PROVE Types
        OBVIOUS
    <2>1. NoRing \in Ring
        BY SlotTypes DEF NoRing, Ring
    <2>b. nextStep \in BOOLEAN /\ wCur \in BOOLEAN /\ worked \in BOOLEAN /\ more \in BOOLEAN
        BY Zenon DEF Init
    <2>a. PortTypes
        <3>1. initStep = 0 /\ sa = 0 /\ ring = NoRing
            BY DEF Init, SaZero
        <3> QED BY <2>1, <2>b, <3>1 DEF PortTypes
    <2>2. WorkTypes
        <3>1. wpc = "wait" /\ wStep = 0
            BY DEF Init
        <3> QED BY <2>b, <3>1 DEF WorkTypes
    <2>3. ServTypes
        BY PortAssumption DEF Init, ServTypes
    <2>4. PollTypes
        <3>1. waited \in 0 .. LingerRounds /\ cur \in 0 .. MaxCmds /\ grant \in Nat
            BY PortAssumption DEF Init
        <3>2. msgs = <<>> /\ ppc = "sleep"
            BY DEF Init
        <3> QED BY <2>b, <3>1, <3>2 DEF PollTypes
    <2>5. MemTypes
        BY SlotTypes DEF Init, MemTypes
    <2>6. HostTypes
        BY SlotTypes, PortAssumption DEF Init, HostTypes
    <2> QED BY <2>a, <2>2, <2>3, <2>4, <2>5, <2>6, PortAssumption DEF Init, Types
<1>2. Types /\ [Next]_vars => Types'
    <2> SUFFICES ASSUME Types, [Next]_vars PROVE Types'
        OBVIOUS
    <2>1. CASE Next
        BY <2>1, HostTyped, WorkerTyped, PollTyped DEF Next
    <2>2. CASE UNCHANGED vars
        BY <2>2, TypesStay DEF vars, Types
    <2> QED BY <2>1, <2>2
<1>3. Types => TypeOK
    BY TypeParts
<1> QED BY <1>1, <1>2, <1>3, PTL DEF Spec

-----------------------------------------------------------------------------
(* Where host, port and worker() can be relative to each other.            *)
Epochs ==
    /\ hpc = "run" => initStep \in {0, 1, 5}
    /\ initStep = 5 => hpc = "run"
    /\ wpc \in {"comm", "publish"} => hpc # "run"
    /\ pollState = "InitRestart" => initStep = 0
    /\ base <= issued /\ out \subseteq base + 1 .. issued

(* A host that has not finished the initialisation has nothing under way.  *)
HostFresh == hpc # "run" => out = {} /\ hCmd = 0 /\ hRsp = 0 /\ hCredits = 1

(* From the reset to the last step: no drive, full credits, pointers at 0. *)
PortFresh ==
    wpc = "chain" \/ initStep \in 1 .. 4 =>
        onlineBy = 0 /\ credits = InitCredits /\ ring.cmdPtr = 0 /\ ring.rspPtr = 0

(* What the port knows of the rings after each step.                       *)
Geometry ==
    /\ initStep \in 2 .. 5 => ring.cmdLen = CmdLen /\ ring.rspLen = RspLen /\ ring.vector
    /\ initStep = 3 => ring.ringBase = {"low"}
    /\ initStep \in {4, 5} => ring.ringBase = {"low", "high"}

EpochInv == Epochs /\ HostFresh /\ PortFresh /\ Geometry

(* The host's steps keep it.                                               *)
LEMMA EpochHost ==
    ASSUME TypeOK, HandInv, EpochInv, Host \/ BusReset
    PROVE  EpochInv'
<1> USE DEF EpochInv
<1>t. /\ initStep \in 0 .. 5 /\ hpc \in {"start", "init", "run"} /\ issued \in Nat /\ base \in Nat
      /\ issued \in 0 .. MaxCmds
    BY DEF TypeOK
<1>1. CASE HostWritesIP \/ BusReset \/ HostWraps
    <2>1. /\ hpc' \in {"init", "start"} /\ out' = {} /\ hCmd' = 0 /\ hRsp' = 0 /\ hCredits' = 1
          /\ base' = issued /\ issued' = issued
          /\ UNCHANGED <<wpc, pollState, ring, credits>> /\ onlineBy' \in {0, onlineBy}
          /\ initStep' = 0 \/ (initStep' = initStep /\ initStep \in {0, 1})
        BY <1>1 DEF HostWritesIP, BusReset, HostWraps, HostForgets, StateTransition, servVars, workVars
    <2>2. Epochs'
        BY <1>t, <2>1 DEF Epochs
    <2>3. HostFresh' /\ PortFresh' /\ Geometry'
        BY <2>1 DEF HostFresh, PortFresh, Geometry
    <2> QED BY <2>2, <2>3
<1>2. CASE HostAnswersStep
    <2>1. /\ hpc = "init" /\ hStep = initStep /\ initStep \in 1 .. 4
        BY <1>2 DEF HostAnswersStep, HandInv, HandTypes, NotToldStaleStep
    <2>2. /\ initStep' = initStep + 1 /\ hpc' = IF initStep < 4 THEN "init" ELSE "run"
          /\ UNCHANGED <<wpc, pollState, credits, onlineBy, out, hCmd, hRsp, hCredits, base, issued>>
        BY <1>2, <2>1 DEF HostAnswersStep, SaWrite, StateTransition, servVars
    <2>3. pollState = "Wait" /\ wpc \notin {"comm", "publish"}
        <3>1. pollState = "Wait"
            BY <2>1 DEF HandInv, PollParked
        <3>2. sa = initStep
            BY <1>2, <2>1 DEF HostAnswersStep
        <3> QED BY <2>1, <3>1, <3>2 DEF HandInv, HandTypes, WorkerInStep, NotAhead, Unpublished, StepStates
    <2>4. Epochs'
        BY <1>t, <2>1, <2>2, <2>3 DEF Epochs
    <2>5. HostFresh'
        BY <2>1, <2>2 DEF HostFresh
    <2>6. ring \in Ring
        BY TypeParts DEF Types, PortTypes
    <2>a. \/ initStep = 1 /\ ring' = [ring EXCEPT !.cmdLen = CmdLen, !.rspLen = RspLen, !.vector = TRUE]
          \/ initStep = 2 /\ ring' = [ring EXCEPT !.ringBase = {"low"}]
          \/ initStep = 3 /\ ring' = [ring EXCEPT !.ringBase = ring.ringBase \cup {"high"}]
          \/ initStep = 4 /\ ring' = ring
        BY <1>2, <2>1 DEF HostAnswersStep, SaWrite
    <2>7. ring'.cmdPtr = ring.cmdPtr /\ ring'.rspPtr = ring.rspPtr
        BY <2>a, <2>6 DEF Ring
    <2>8. PortFresh'
        BY <2>1, <2>2, <2>7 DEF PortFresh
    <2>9. Geometry'
        <3>1. CASE initStep = 1
            <4>0. ring' = [ring EXCEPT !.cmdLen = CmdLen, !.rspLen = RspLen, !.vector = TRUE]
                BY <2>a, <3>1
            <4>a. ring = [cmdLen |-> ring.cmdLen, rspLen |-> ring.rspLen, ringBase |-> ring.ringBase,
                          vector |-> ring.vector, cmdPtr |-> ring.cmdPtr, rspPtr |-> ring.rspPtr]
                BY <2>6 DEF Ring
            <4>1. ring'.cmdLen = CmdLen /\ ring'.rspLen = RspLen
                BY <4>0, <4>a
            <4>2. ring'.vector = TRUE
                BY <4>0, <4>a
            <4>3. ring'.vector
                BY <4>2, Zenon
            <4> QED BY <2>2, <3>1, <4>1, <4>3 DEF Geometry
        <3>2. CASE initStep = 2
            BY <2>a, <2>2, <2>6, <3>2 DEF Ring, Geometry
        <3>3. CASE initStep = 3
            BY <2>a, <2>2, <2>6, <3>3 DEF Ring, Geometry
        <3>4. CASE initStep = 4
            BY <2>a, <2>2, <2>6, <3>4 DEF Ring, Geometry
        <3> QED BY <2>1, <3>1, <3>2, <3>3, <3>4
    <2> QED BY <2>4, <2>5, <2>8, <2>9
<1>3. CASE HostSubmits \/ HostRings \/ HostTakesInterrupt \/ HostScans
    <2>1. /\ hpc = "run" /\ UNCHANGED <<hpc, initStep, ring, wpc, credits, onlineBy, base>>
          /\ pollState' \in {pollState, "InitRun"}
          /\ \/ issued' = issued + 1 /\ out' = out \cup {issued + 1}
             \/ issued' = issued /\ out' \subseteq out
        BY <1>3 DEF HostSubmits, HostRings, HostTakesInterrupt, HostScans, InitPolling, portVars,
            workVars, servVars
    <2>a. base' <= issued' /\ out' \subseteq base' + 1 .. issued'
        <3>1. base' = base /\ base <= issued /\ out \subseteq base + 1 .. issued
            BY <2>1 DEF Epochs
        <3>2. CASE issued' = issued + 1 /\ out' = out \cup {issued + 1}
            <4>1. \A x \in out : x \in base + 1 .. issued + 1
                BY <1>t, <3>1
            <4> QED BY <1>t, <3>1, <3>2, <4>1
        <3>3. CASE issued' = issued /\ out' \subseteq out
            BY <3>1, <3>3
        <3> QED BY <2>1, <3>2, <3>3
    <2>b. pollState' = "InitRestart" => pollState = "InitRestart"
        BY <2>1
    <2>2. Epochs'
        BY <2>1, <2>a, <2>b DEF Epochs
    <2>3. HostFresh' /\ PortFresh' /\ Geometry'
        BY <2>1 DEF HostFresh, PortFresh, Geometry
    <2> QED BY <2>2, <2>3
<1> QED BY <1>1, <1>2, <1>3 DEF Host

(* worker()'s steps keep it.                                               *)
LEMMA EpochWorker ==
    ASSUME TypeOK, HandInv, EpochInv, Worker, ~StaleStep1
    PROVE  EpochInv'
<1> USE DEF EpochInv
<1>a. UNCHANGED <<hpc, base, issued, out, hCmd, hRsp, hCredits>>
    BY DEF Worker, WorkerWakes, WorkerTakesStep, WorkerStopsPolling, WorkerResets, ResetState,
        WorkerChains, WorkerTestsStep, WorkerClearsCommArea, WorkerPublishes, hostVars
<1>h. HostFresh'
    BY <1>a DEF HostFresh
<1>1. CASE WorkerStopsPolling
    <2>1. /\ wpc = "reset" /\ wpc' = "parking" /\ UNCHANGED <<initStep, ring, credits, onlineBy>>
        BY <1>1 DEF WorkerStopsPolling, portVars
    <2>2. initStep = 0
        BY <2>1 DEF HandInv, WorkerInStep, ResetStates
    <2> QED BY <1>a, <1>h, <2>1, <2>2 DEF Epochs, PortFresh, Geometry
<1>2. CASE WorkerResets
    <2>1. /\ wpc = "parking" /\ wpc' = "chain" /\ UNCHANGED <<initStep, pollState>>
          /\ credits' = InitCredits /\ onlineBy' = 0 /\ ring'.cmdPtr = 0 /\ ring'.rspPtr = 0
        BY <1>2 DEF WorkerResets, ResetState, NoRing
    <2>2. initStep = 0
        BY <2>1 DEF HandInv, WorkerInStep, ResetStates
    <2> QED BY <1>a, <1>h, <2>1, <2>2 DEF Epochs, PortFresh, Geometry
<1>3. CASE WorkerChains
    <2>1. /\ wpc = "chain" /\ wpc' = "wait" /\ UNCHANGED <<pollState, ring, credits, onlineBy>>
          /\ initStep' \in {initStep, 1}
        BY <1>3 DEF WorkerChains, StateTransition, servVars
    <2>2. initStep = 0 /\ pollState = "Wait"
        BY <2>1 DEF HandInv, WorkerInStep, PollParked, ResetStates
    <2> QED BY <1>a, <1>h, <2>1, <2>2 DEF Epochs, PortFresh, Geometry
<1>4. CASE WorkerTestsStep
    <2>1. /\ wpc = "pause" /\ UNCHANGED <<initStep, pollState, ring, credits, onlineBy>>
          /\ wpc' = "wait" \/ (wpc' \in {"comm", "publish"} /\ wCur /\ wStep # 1)
        BY <1>4 DEF WorkerTestsStep, servVars
    <2>2. wpc' \in {"comm", "publish"} => hpc # "run"
        BY <2>1 DEF HandInv, WorkerInStep, StepStates, Epochs
    <2> QED BY <1>a, <1>h, <2>1, <2>2 DEF Epochs, PortFresh, Geometry
<1>5. CASE WorkerWakes \/ WorkerTakesStep \/ WorkerClearsCommArea \/ WorkerPublishes
    <2>1. /\ UNCHANGED <<initStep, pollState, ring, credits, onlineBy>>
          /\ wpc' \in {"take", "reset", "pause", "wait"} \/ (wpc = "comm" /\ wpc' = "publish")
        BY <1>5 DEF WorkerWakes, WorkerTakesStep, WorkerClearsCommArea, WorkerPublishes, portVars, servVars
    <2> QED BY <1>a, <1>h, <2>1 DEF Epochs, PortFresh, Geometry
<1> QED BY <1>1, <1>2, <1>3, <1>4, <1>5 DEF Worker

(* The polling thread runs only with the port up or in a reset, and leaves *)
(* the lengths and the base of the rings alone.                            *)
LEMMA PollAwake ==
    ASSUME TypeOK, HandInv, Poll
    PROVE  /\ initStep \in {0, 5} /\ wpc # "chain" /\ pollState # "Wait"
           /\ initStep' \in {0, initStep}
           /\ pollState' = "InitRestart" => pollState = "InitRestart"
           /\ UNCHANGED <<hostVars, wpc>>
           /\ \A f \in {"cmdLen", "rspLen", "ringBase", "vector"} : ring'[f] = ring[f]
<1>1. pollState # "Wait"
    BY DEF Poll, PollWakes, PollFetches, PollTakesCommand, PollExecutes, PollPosts, PollWritesMessage,
        PollHandsBack, PollNotifies, PollLingers, PollEndsPass, HandInv, PollParked
<1>2. initStep \in {0, 5} /\ wpc # "chain"
    BY <1>1 DEF HandInv, HandTypes, PollParked
<1>3. initStep' \in {0, initStep} /\ UNCHANGED <<hostVars, wpc>>
    BY DEF Poll, PollWakes, PollFetches, PollTakesCommand, PollExecutes, PollPosts, PollWritesMessage,
        PollHandsBack, PollNotifies, PollLingers, PollEndsPass, PortError, StateTransition, portVars, workVars
<1>4. pollState' = "InitRestart" => pollState = "InitRestart"
    BY DEF Poll, PollWakes, PollFetches, PollTakesCommand, PollExecutes, PollPosts, PollWritesMessage,
        PollHandsBack, PollNotifies, PollLingers, PollEndsPass, servVars
<1>5. \A f \in {"cmdLen", "rspLen", "ringBase", "vector"} : ring'[f] = ring[f]
    <2>1. \/ ring' = ring
          \/ \E p : ring' = [ring EXCEPT !.cmdPtr = p]
          \/ \E p : ring' = [ring EXCEPT !.rspPtr = p]
        BY DEF Poll, PollWakes, PollFetches, PollTakesCommand, PollExecutes, PollPosts, PollWritesMessage,
            PollHandsBack, PollNotifies, PollLingers, PollEndsPass, portVars
    <2>2. ring \in Ring
        BY TypeParts DEF Types, PortTypes
    <2> QED BY <2>1, <2>2 DEF Ring
<1> QED BY <1>1, <1>2, <1>3, <1>4, <1>5

(* So the polling thread keeps the epochs.                                 *)
LEMMA EpochPoll ==
    ASSUME TypeOK, HandInv, EpochInv, Poll
    PROVE  EpochInv'
<1>1. /\ UNCHANGED <<hpc, base, issued, out, hCmd, hRsp, hCredits>>
      /\ UNCHANGED wpc
    BY PollAwake DEF hostVars
<1>2. initStep \in {0, 5} /\ initStep' \in {0, initStep} /\ wpc # "chain"
    BY PollAwake
<1>3. Epochs'
    BY <1>1, <1>2, PollAwake DEF EpochInv, Epochs
<1>4. HostFresh' /\ PortFresh'
    BY <1>1, <1>2 DEF EpochInv, HostFresh, PortFresh
<1>5. ring'.cmdLen = ring.cmdLen /\ ring'.rspLen = ring.rspLen /\ ring'.ringBase = ring.ringBase
      /\ ring'.vector = ring.vector
    BY PollAwake
<1>6. Geometry'
    BY <1>2, <1>5 DEF EpochInv, Geometry
<1> QED BY <1>3, <1>4, <1>6 DEF EpochInv

(* The epochs, for every instance.                                         *)
LEMMA EpochInductive ==
    ASSUME ~StaleStep1
    PROVE  Spec => [](TypeOK /\ HandInv /\ EpochInv)
<1>1. Init => EpochInv
    <2> SUFFICES ASSUME Init PROVE EpochInv
        OBVIOUS
    <2>1. /\ initStep = 0 /\ wpc = "wait" /\ hpc = "start" /\ pollState = "Wait"
          /\ out = {} /\ hCmd = 0 /\ hRsp = 0 /\ hCredits = 1 /\ issued = 0 /\ base = 0
        BY DEF Init
    <2> QED BY <2>1 DEF EpochInv, Epochs, HostFresh, PortFresh, Geometry
<1>2. TypeOK /\ HandInv /\ EpochInv /\ [Next]_vars => EpochInv'
    <2> SUFFICES ASSUME TypeOK, HandInv, EpochInv, [Next]_vars PROVE EpochInv'
        OBVIOUS
    <2>1. CASE Next
        BY <2>1, EpochHost, EpochWorker, EpochPoll DEF Next
    <2>2. CASE UNCHANGED vars
        BY <2>2 DEF vars, EpochInv, Epochs, HostFresh, PortFresh, Geometry, portVars, workVars,
            servVars, hostVars
    <2> QED BY <2>1, <2>2
<1>3. Spec => []HandInv
    BY HandInductive
<1> QED BY <1>1, <1>2, <1>3, PortTyped, PTL DEF Spec

-----------------------------------------------------------------------------
(* Where the commands of the host are: in the ring, fetched by the port,   *)
(* executed with the response not posted, answered. 0 is a lost message.   *)
Commands == {i \in CmdSlots : cmdRing[i].own}
Responses == {i \in RspSlots : ~rspRing[i].own}
CommandIds == {cmdRing[i].msg : i \in Commands}
QueueIds == IF ppc = "sleep" THEN {} ELSE {msgs[k] : k \in 1 .. Len(msgs)}
HandIds == IF ppc \in {"post", "repost", "message", "handback"} THEN {cur} \ {0} ELSE {}
ResponseIds == {rspRing[i].msg : i \in Responses} \ {0}

(* The host waits for each of them, and each is in one place only, once.   *)
Wanted == CommandIds \subseteq out /\ QueueIds \subseteq out /\ HandIds \subseteq out /\ ResponseIds \subseteq out
Apart ==
    /\ CommandIds \cap QueueIds = {} /\ CommandIds \cap HandIds = {} /\ CommandIds \cap ResponseIds = {}
    /\ QueueIds \cap HandIds = {} /\ QueueIds \cap ResponseIds = {} /\ HandIds \cap ResponseIds = {}
CommandsDiffer == \A i, j \in Commands : cmdRing[i].msg = cmdRing[j].msg => i = j
ResponsesDiffer == \A i, j \in Responses : rspRing[i].msg = rspRing[j].msg /\ rspRing[i].msg # 0 => i = j
QueueDiffers == ppc # "sleep" => \A k, l \in 1 .. Len(msgs) : msgs[k] = msgs[l] => k = l

(* The slots the polling thread has found its own are still.               *)
Found ==
    /\ ppc = "take" => ring.cmdPtr \in Commands /\ cur = cmdRing[ring.cmdPtr].msg
    /\ ppc \in {"message", "handback"} => ring.rspPtr \notin Responses

InFlight ==
    hpc = "run" =>
        Wanted /\ Apart /\ CommandsDiffer /\ ResponsesDiffer /\ QueueDiffers /\ Found

(* The places do not change when what they are read from does not.         *)
LEMMA PlacesStay ==
    /\ UNCHANGED cmdRing => Commands' = Commands /\ CommandIds' = CommandIds /\ (CommandsDiffer => CommandsDiffer')
    /\ UNCHANGED rspRing => Responses' = Responses /\ ResponseIds' = ResponseIds /\ (ResponsesDiffer => ResponsesDiffer')
    /\ UNCHANGED <<ppc, msgs>> => QueueIds' = QueueIds /\ (QueueDiffers => QueueDiffers')
    /\ ppc # "sleep" /\ ppc' # "sleep" /\ UNCHANGED msgs =>
         QueueIds' = QueueIds /\ (QueueDiffers => QueueDiffers')
    /\ UNCHANGED <<ppc, cur>> => HandIds' = HandIds
<1>1. UNCHANGED cmdRing => Commands' = Commands /\ CommandIds' = CommandIds /\ (CommandsDiffer => CommandsDiffer')
    BY DEF Commands, CommandIds, CommandsDiffer
<1>2. UNCHANGED rspRing => Responses' = Responses /\ ResponseIds' = ResponseIds /\ (ResponsesDiffer => ResponsesDiffer')
    BY DEF Responses, ResponseIds, ResponsesDiffer
<1>3. UNCHANGED <<ppc, msgs>> => QueueIds' = QueueIds /\ (QueueDiffers => QueueDiffers')
    BY DEF QueueIds, QueueDiffers
<1>4. ppc # "sleep" /\ ppc' # "sleep" /\ UNCHANGED msgs =>
         QueueIds' = QueueIds /\ (QueueDiffers => QueueDiffers')
    BY DEF QueueIds, QueueDiffers
<1>5. UNCHANGED <<ppc, cur>> => HandIds' = HandIds
    BY DEF HandIds
<1> QED BY <1>1, <1>2, <1>3, <1>4, <1>5

(* The slots a step changes: the host's next command slot handed over ...  *)
LEMMA SlotSubmitted ==
    ASSUME Types, HostSubmits
    PROVE  /\ hCmd \in CmdSlots \ Commands /\ Commands' = Commands \cup {hCmd}
           /\ cmdRing'[hCmd].msg = issued + 1
           /\ \A i \in CmdSlots \ {hCmd} : cmdRing'[i] = cmdRing[i]
<1>1. /\ cmdRing' = [cmdRing EXCEPT ![hCmd] = [PortSlot EXCEPT !.msg = issued + 1]]
      /\ ~cmdRing[hCmd].own
    BY DEF HostSubmits
<1>2. hCmd \in CmdSlots /\ cmdRing \in [CmdSlots -> Slot]
    BY DEF Types, HostTypes, MemTypes
<1>3. /\ cmdRing'[hCmd].own /\ cmdRing'[hCmd].msg = issued + 1
      /\ \A i \in CmdSlots \ {hCmd} : cmdRing'[i] = cmdRing[i]
    BY <1>1, <1>2 DEF PortSlot
<1> QED BY <1>1, <1>2, <1>3 DEF Commands

(* ... its next response slot given back ...                               *)
LEMMA SlotScanned ==
    ASSUME Types, HostScans, ~rspRing[hRsp].own
    PROVE  /\ hRsp \in Responses /\ Responses' = Responses \ {hRsp}
           /\ \A i \in RspSlots \ {hRsp} : rspRing'[i] = rspRing[i]
<1>1. rspRing' = [rspRing EXCEPT ![hRsp] = PortSlot]
    BY DEF HostScans
<1>2. hRsp \in RspSlots /\ rspRing \in [RspSlots -> Slot]
    BY DEF Types, HostTypes, MemTypes
<1>3. rspRing'[hRsp].own /\ \A i \in RspSlots \ {hRsp} : rspRing'[i] = rspRing[i]
    BY <1>1, <1>2 DEF PortSlot
<1> QED BY <1>2, <1>3 DEF Responses

(* ... the port's next command slot given back, its bus cycles succeeding, *)
LEMMA SlotTaken ==
    ASSUME Types, Found, PollTakesCommand, ppc' = "fetch"
    PROVE  /\ ring.cmdPtr \in Commands /\ Commands' = Commands \ {ring.cmdPtr}
           /\ \A i \in CmdSlots \ {ring.cmdPtr} : cmdRing'[i] = cmdRing[i]
<1>1. ppc = "take" /\ cmdRing' = [cmdRing EXCEPT ![ring.cmdPtr].own = FALSE]
    BY DEF PollTakesCommand
<1>2. ring.cmdPtr \in CmdSlots /\ cmdRing \in [CmdSlots -> Slot]
    BY DEF Types, PortTypes, MemTypes, Ring
<1>3. /\ ~cmdRing'[ring.cmdPtr].own
      /\ \A i \in CmdSlots \ {ring.cmdPtr} : cmdRing'[i] = cmdRing[i]
    BY <1>1, <1>2 DEF Slot
<1>4. ring.cmdPtr \in Commands
    BY <1>1 DEF Found
<1> QED BY <1>2, <1>3, <1>4 DEF Commands

(* ... and its next response slot filled, the bus cycle succeeding.        *)
LEMMA SlotPosted ==
    ASSUME Types, Found, PollHandsBack, UNCHANGED errors
    PROVE  /\ ring.rspPtr \in RspSlots \ Responses /\ Responses' = Responses \cup {ring.rspPtr}
           /\ rspRing'[ring.rspPtr] = [own |-> FALSE, msg |-> cur, grant |-> grant]
           /\ \A i \in RspSlots \ {ring.rspPtr} : rspRing'[i] = rspRing[i]
<1>1. ppc = "handback" /\ rspRing' = [rspRing EXCEPT ![ring.rspPtr] = [own |-> FALSE, msg |-> cur, grant |-> grant]]
    BY PortAssumption DEF PollHandsBack, DmaFails, Types
<1>2. ring.rspPtr \in RspSlots /\ rspRing \in [RspSlots -> Slot]
    BY DEF Types, PortTypes, MemTypes, Ring
<1>3. /\ rspRing'[ring.rspPtr] = [own |-> FALSE, msg |-> cur, grant |-> grant]
      /\ \A i \in RspSlots \ {ring.rspPtr} : rspRing'[i] = rspRing[i]
    BY <1>1, <1>2
<1>4. ring.rspPtr \notin Responses
    BY <1>1 DEF Found
<1> QED BY <1>2, <1>3, <1>4 DEF Responses

(* A step that takes nothing in, with the queue dropped or kept.           *)
LEMMA FlightShrinks ==
    ASSUME InFlight, UNCHANGED <<cmdRing, rspRing, out, hpc>>,
           QueueIds' \subseteq QueueIds, HandIds' \subseteq HandIds,
           QueueDiffers => QueueDiffers', Found'
    PROVE  InFlight'
BY PlacesStay DEF InFlight, Wanted, Apart

(* The host's steps keep it.                                               *)
LEMMA FlightHost ==
    ASSUME TypeOK, HandInv, EpochInv, InFlight, Host \/ BusReset
    PROVE  InFlight'
<1>t. Types
    BY TypeParts
<1>1. CASE HostWritesIP \/ BusReset \/ HostWraps
    BY <1>1 DEF HostWritesIP, BusReset, HostWraps, InFlight
<1>2. CASE HostAnswersStep
    <2>1. CASE hStep < 4
        BY <1>2, <2>1 DEF HostAnswersStep, InFlight
    <2>2. CASE hStep = 4
        <3>1. /\ cmdRing' = [i \in CmdSlots |-> HostSlot] /\ rspRing' = [i \in RspSlots |-> PortSlot]
              /\ UNCHANGED <<ppc, msgs, out>>
            BY <1>2, <2>2 DEF HostAnswersStep, pollVars
        <3>2. ppc = "sleep"
            BY <1>2, <2>2 DEF HostAnswersStep, HandInv, NotToldStaleStep, PollParked
        <3>3. Commands' = {} /\ Responses' = {}
            BY <3>1 DEF Commands, Responses, HostSlot, PortSlot
        <3>4. CommandIds' = {} /\ ResponseIds' = {} /\ QueueIds' = {} /\ HandIds' = {}
            BY <3>1, <3>2, <3>3 DEF CommandIds, ResponseIds, QueueIds, HandIds
        <3> QED BY <3>1, <3>2, <3>3, <3>4 DEF InFlight, Wanted, Apart, CommandsDiffer, ResponsesDiffer, QueueDiffers, Found
    <2> QED BY <1>t, <2>1, <2>2 DEF Types, HostTypes
<1>3. CASE HostRings \/ HostTakesInterrupt
    <2>1. UNCHANGED <<cmdRing, rspRing, out, hpc, ppc, msgs, cur, ring>>
        BY <1>3 DEF HostRings, HostTakesInterrupt, portVars, pollVars, memVars
    <2>2. InFlight => (hpc = "run" => Found')
        BY <2>1, PlacesStay DEF InFlight, Found
    <2> QED BY <2>1, <2>2, FlightShrinks, PlacesStay DEF InFlight
<1>4. CASE HostSubmits
    <2>1. /\ hpc = "run" /\ hpc' = "run" /\ ~cmdRing[hCmd].own /\ out' = out \cup {issued + 1}
          /\ cmdRing' = [cmdRing EXCEPT ![hCmd] = [PortSlot EXCEPT !.msg = issued + 1]]
          /\ UNCHANGED <<rspRing, ppc, msgs, cur, ring>>
        BY <1>4 DEF HostSubmits, portVars, pollVars
    <2>2. issued + 1 \notin out
        BY <1>t DEF EpochInv, Epochs, Types, HostTypes
    <2>3. /\ hCmd \in CmdSlots \ Commands /\ Commands' = Commands \cup {hCmd}
          /\ cmdRing'[hCmd].msg = issued + 1
          /\ \A i \in CmdSlots \ {hCmd} : cmdRing'[i] = cmdRing[i]
        BY <1>t, <1>4, SlotSubmitted
    <2>6. CommandIds' = CommandIds \cup {issued + 1}
        BY <2>3 DEF CommandIds, Commands
    <2>7. CommandsDiffer'
        <3>1. CommandsDiffer /\ \A i \in Commands : cmdRing[i].msg \in out
            BY <2>1 DEF InFlight, Wanted, CommandIds
        <3> QED BY <2>2, <2>3, <3>1 DEF CommandsDiffer, Commands
    <2>8. Found'
        BY <2>1, <2>3, PlacesStay DEF InFlight, Found, Commands
    <2> QED BY <2>1, <2>2, <2>6, <2>7, <2>8, PlacesStay DEF InFlight, Wanted, Apart
<1>5. CASE HostScans
    <2>0. /\ hpc = "run" /\ hpc' = "run" /\ UNCHANGED <<cmdRing, ppc, msgs, cur, ring>>
        BY <1>5 DEF HostScans, portVars, pollVars
    <2>1. CASE UNCHANGED <<rspRing, out>>
        <3>1. Found'
            BY <2>0, <2>1, PlacesStay DEF InFlight, Found
        <3> QED BY <2>0, <2>1, <3>1, FlightShrinks, PlacesStay
    <2>2. CASE /\ ~rspRing[hRsp].own /\ out' = out \ {rspRing[hRsp].msg}
               /\ rspRing' = [rspRing EXCEPT ![hRsp] = PortSlot]
        <3>1. /\ hRsp \in Responses /\ Responses' = Responses \ {hRsp}
              /\ \A i \in RspSlots \ {hRsp} : rspRing'[i] = rspRing[i]
            BY <1>t, <1>5, <2>2, SlotScanned
        <3>4. /\ ResponseIds' = ResponseIds \ {rspRing[hRsp].msg}
              /\ rspRing[hRsp].msg \in ResponseIds \/ rspRing[hRsp].msg \notin out
            <4>1. ResponsesDiffer
                BY <2>0 DEF InFlight
            <4>2. \A i \in Responses : i # hRsp /\ rspRing[i].msg # 0 => rspRing[i].msg # rspRing[hRsp].msg
                BY <3>1, <4>1 DEF ResponsesDiffer
            <4>3. 0 \notin out
                BY <1>t DEF Types, HostTypes, Cmds
            <4>4. ResponseIds' = ResponseIds \ {rspRing[hRsp].msg}
                BY <3>1, <4>2 DEF ResponseIds, Responses
            <4>5. rspRing[hRsp].msg \in ResponseIds \/ rspRing[hRsp].msg \notin out
                BY <3>1, <4>3 DEF ResponseIds
            <4> QED BY <4>4, <4>5
        <3>5. ResponsesDiffer'
            BY <2>0, <3>1 DEF InFlight, ResponsesDiffer, Responses
        <3>6. Found'
            BY <2>0, <3>1, PlacesStay DEF InFlight, Found
        <3> QED BY <2>0, <2>2, <3>4, <3>5, <3>6, PlacesStay DEF InFlight, Wanted, Apart
    <2> QED BY <1>5, <2>1, <2>2 DEF HostScans
<1> QED BY <1>1, <1>2, <1>3, <1>4, <1>5 DEF Host

(* worker()'s steps keep it: it moves the ring pointers and the rings only *)
(* with the polling thread asleep, the rings only before the host runs.    *)
LEMMA FlightWorker ==
    ASSUME TypeOK, HandInv, EpochInv, InFlight, Worker
    PROVE  InFlight'
<1>1. UNCHANGED <<hpc, out, ppc, msgs, cur>>
    BY DEF Worker, WorkerWakes, WorkerTakesStep, WorkerStopsPolling, WorkerResets, ResetState,
        WorkerChains, WorkerTestsStep, WorkerClearsCommArea, WorkerPublishes, hostVars, pollVars
<1>2. CASE hpc = "run"
    <2>1. UNCHANGED <<cmdRing, rspRing>>
        BY <1>2 DEF Worker, WorkerWakes, WorkerTakesStep, WorkerStopsPolling, WorkerResets, ResetState,
            WorkerChains, WorkerTestsStep, WorkerClearsCommArea, WorkerPublishes, memVars, EpochInv, Epochs
    <2>2. ppc # "sleep" => UNCHANGED ring
        BY DEF Worker, WorkerWakes, WorkerTakesStep, WorkerStopsPolling, WorkerResets, ResetState,
            WorkerChains, WorkerTestsStep, WorkerClearsCommArea, WorkerPublishes, portVars, HandInv, PollParked
    <2>3. Found'
        BY <1>1, <1>2, <2>1, <2>2, PlacesStay DEF InFlight, Found
    <2> QED BY <1>1, <2>1, <2>3, FlightShrinks, PlacesStay
<1>3. CASE hpc # "run"
    BY <1>1, <1>3 DEF InFlight
<1> QED BY <1>2, <1>3

(* The polling thread's steps keep it.                                     *)
LEMMA FlightPoll ==
    ASSUME TypeOK, HandInv, EpochInv, InFlight, Poll
    PROVE  InFlight'
<1>t. Types
    BY TypeParts
<1>h. UNCHANGED <<hpc, out>>
    BY PollAwake DEF hostVars
<1>r. SUFFICES ASSUME hpc = "run" PROVE InFlight'
    BY <1>h DEF InFlight
<1>i. Wanted /\ Apart /\ CommandsDiffer /\ ResponsesDiffer /\ QueueDiffers /\ Found
    BY <1>r DEF InFlight
<1>m. msgs \in Seq(0 .. MaxCmds)
    BY <1>t DEF Types, PollTypes
<1>p. ring.cmdPtr \in CmdSlots /\ ring.rspPtr \in RspSlots /\ cmdRing \in [CmdSlots -> Slot] /\ rspRing \in [RspSlots -> Slot]
    BY <1>t DEF Types, PortTypes, MemTypes, Ring
<1>1. CASE PollWakes
    <2>1. /\ ppc = "sleep" /\ ppc' = "fetch" /\ msgs' = <<>> /\ UNCHANGED <<cmdRing, rspRing>>
        BY <1>1 DEF PollWakes, memVars
    <2>2. QueueIds' = {} /\ HandIds' = {} /\ QueueDiffers'
        BY <2>1 DEF QueueIds, HandIds, QueueDiffers
    <2>3. Found'
        BY <2>1 DEF Found
    <2> QED BY <1>h, <2>1, <2>2, <2>3, FlightShrinks
<1>2. CASE PollFetches
    <2>1. ppc = "fetch" /\ UNCHANGED <<cmdRing, rspRing>>
        BY <1>2 DEF PollFetches, memVars
    <2>2. CASE ppc' = "exec" /\ msgs' \in {msgs, <<>>}
        <3>1. QueueIds' \subseteq QueueIds /\ HandIds' = {} /\ Found'
            BY <2>1, <2>2 DEF QueueIds, HandIds, Found
        <3>2. QueueDiffers'
            BY <1>i, <2>1, <2>2 DEF QueueDiffers
        <3> QED BY <1>h, <2>1, <3>1, <3>2, FlightShrinks
    <2>3. CASE ppc' = "take" /\ msgs' = msgs /\ ring' = ring /\ cmdRing[ring.cmdPtr].own /\ cur' = cmdRing[ring.cmdPtr].msg
        <3>1. QueueIds' = QueueIds /\ QueueDiffers' /\ HandIds' = {}
            BY <1>i, <2>1, <2>3, PlacesStay DEF HandIds
        <3>2. Found'
            BY <1>p, <2>1, <2>3, PlacesStay DEF Found, Commands
        <3> QED BY <1>h, <2>1, <3>1, <3>2, FlightShrinks
    <2> QED BY <1>2, <2>2, <2>3 DEF PollFetches, portVars
<1>3. CASE PollTakesCommand
    <2>1. ppc = "take" /\ UNCHANGED <<cur, rspRing>>
        BY <1>3 DEF PollTakesCommand
    <2>2. CASE /\ cmdRing' = [cmdRing EXCEPT ![ring.cmdPtr].own = FALSE]
               /\ msgs' = Append(msgs, cur) /\ ppc' = "fetch"
        <3>1. ring.cmdPtr \in Commands /\ cur = cmdRing[ring.cmdPtr].msg /\ cur \in CommandIds
            BY <1>i, <2>1 DEF Found, CommandIds
        <3>2. /\ Commands' = Commands \ {ring.cmdPtr}
              /\ \A i \in CmdSlots \ {ring.cmdPtr} : cmdRing'[i] = cmdRing[i]
            BY <1>t, <1>i, <1>3, <2>2, SlotTaken
        <3>4. CommandIds' = CommandIds \ {cur}
            <4>1. \A i \in Commands : i # ring.cmdPtr => cmdRing[i].msg # cur
                BY <1>i, <3>1 DEF CommandsDiffer
            <4> QED BY <3>1, <3>2, <4>1 DEF CommandIds, Commands
        <3>5. CommandsDiffer'
            BY <1>i, <3>2 DEF CommandsDiffer, Commands
        <3>6. /\ Len(msgs') = Len(msgs) + 1 /\ msgs'[Len(msgs) + 1] = cur /\ Len(msgs) \in Nat
              /\ \A k \in 1 .. Len(msgs) : msgs'[k] = msgs[k]
            BY <1>m, <1>t, <2>2 DEF Types, PollTypes
        <3>7. QueueIds = {msgs[k] : k \in 1 .. Len(msgs)} /\ QueueIds' = {msgs'[k] : k \in 1 .. Len(msgs')}
            BY <2>1, <2>2 DEF QueueIds
        <3>8. QueueIds' = QueueIds \cup {cur}
            <4>1. 1 .. Len(msgs') = 1 .. Len(msgs) \cup {Len(msgs) + 1}
                BY <3>6
            <4>2. ASSUME NEW x PROVE x \in QueueIds' <=> x \in QueueIds \/ x = cur
                BY <3>6, <3>7, <4>1
            <4> QED BY <4>2
        <3>9. QueueDiffers'
            <4>1. \A k \in 1 .. Len(msgs) : msgs[k] # cur
                BY <1>i, <3>1, <3>7 DEF Apart
            <4>2. \A k, l \in 1 .. Len(msgs) : msgs[k] = msgs[l] => k = l
                BY <1>i, <2>1 DEF QueueDiffers
            <4> QED BY <3>6, <4>1, <4>2 DEF QueueDiffers
        <3>10. HandIds' = {} /\ HandIds = {} /\ Found'
            BY <2>1, <2>2 DEF HandIds, Found
        <3> QED BY <1>h, <1>i, <2>1, <3>1, <3>4, <3>5, <3>8, <3>9, <3>10, PlacesStay DEF InFlight, Wanted, Apart
    <2>3. CASE ppc' = "exec" /\ msgs' = <<>> /\ UNCHANGED cmdRing
        <3>1. QueueIds' = {} /\ HandIds' = {} /\ Found' /\ QueueDiffers'
            BY <2>3 DEF QueueIds, HandIds, Found, QueueDiffers
        <3> QED BY <1>h, <2>1, <2>3, <3>1, FlightShrinks
    <2> QED BY <1>3, <2>2, <2>3 DEF PollTakesCommand
<1>4. CASE PollExecutes
    <2>1. ppc = "exec" /\ UNCHANGED <<cmdRing, rspRing>>
        BY <1>4 DEF PollExecutes, memVars
    <2>2. CASE msgs # <<>> /\ pollState # "InitRestart"
        <3>1. cur' = Head(msgs) /\ msgs' = Tail(msgs) /\ ppc' = "post"
            BY <1>4, <2>2 DEF PollExecutes
        <3>2. /\ Len(msgs) \in Nat \ {0} /\ cur' = msgs[1] /\ Len(msgs') = Len(msgs) - 1
              /\ \A k \in 1 .. Len(msgs) - 1 : msgs'[k] = msgs[k + 1]
            BY <1>m, <2>2, <3>1
        <3>3. QueueIds = {msgs[k] : k \in 1 .. Len(msgs)} /\ QueueIds' = {msgs'[k] : k \in 1 .. Len(msgs')}
            BY <2>1, <3>1 DEF QueueIds
        <3>4. \A k, l \in 1 .. Len(msgs) : msgs[k] = msgs[l] => k = l
            BY <1>i, <2>1 DEF QueueDiffers
        <3>5. QueueIds' \subseteq QueueIds /\ cur' \in QueueIds
            <4>1. \A k \in 1 .. Len(msgs) - 1 : k + 1 \in 1 .. Len(msgs) /\ 1 \in 1 .. Len(msgs)
                BY <3>2
            <4>2. 1 \in 1 .. Len(msgs)
                BY <3>2
            <4> QED BY <3>2, <3>3, <4>1, <4>2
        <3>6. cur' \notin QueueIds'
            <4>1. \A k \in 1 .. Len(msgs) - 1 : msgs[k + 1] # msgs[1]
                BY <3>2, <3>4
            <4> QED BY <3>2, <3>3, <4>1
        <3>7. QueueDiffers'
            <4>1. ASSUME NEW k \in 1 .. Len(msgs'), NEW l \in 1 .. Len(msgs'), msgs'[k] = msgs'[l] PROVE k = l
                <5>1. k + 1 \in 1 .. Len(msgs) /\ l + 1 \in 1 .. Len(msgs) /\ msgs[k + 1] = msgs[l + 1]
                    BY <3>2, <4>1
                <5>2. k + 1 = l + 1
                    BY <3>4, <5>1
                <5> QED BY <3>2, <5>2
            <4> QED BY <4>1 DEF QueueDiffers
        <3>8. HandIds' \subseteq {cur'} /\ Found'
            BY <3>1 DEF HandIds, Found
        <3> QED BY <1>h, <1>i, <2>1, <3>5, <3>6, <3>7, <3>8, PlacesStay DEF InFlight, Wanted, Apart
    <2>3. CASE ppc' \in {"linger", "end"} /\ msgs' = msgs
        <3>1. QueueIds' = QueueIds /\ QueueDiffers' /\ HandIds' = {} /\ Found'
            BY <1>i, <2>1, <2>3, PlacesStay DEF HandIds, Found
        <3> QED BY <1>h, <2>1, <3>1, FlightShrinks
    <2> QED BY <1>4, <2>2, <2>3 DEF PollExecutes
<1>5. CASE PollPosts
    <2>1. /\ ppc \in {"post", "repost"} /\ UNCHANGED <<cmdRing, rspRing, msgs, cur, ring>>
          /\ ppc' \in {"exec", "repost", "message"} /\ (ppc' = "message" => rspRing[ring.rspPtr].own)
        BY <1>5 DEF PollPosts, memVars, portVars
    <2>2. QueueIds' = QueueIds /\ QueueDiffers'
        BY <1>i, <2>1, PlacesStay
    <2>3. HandIds' \subseteq HandIds
        BY <2>1 DEF HandIds
    <2>4. Found'
        BY <2>1, PlacesStay DEF Found, Responses
    <2> QED BY <1>h, <2>1, <2>2, <2>3, <2>4, FlightShrinks
<1>6. CASE PollHandsBack
    <2>1. ppc = "handback" /\ ppc' = "notify" /\ UNCHANGED <<cmdRing, msgs, cur, ring>>
        BY <1>6 DEF PollHandsBack, portVars
    <2>2. QueueIds' = QueueIds /\ QueueDiffers' /\ HandIds' = {} /\ HandIds = {cur} \ {0} /\ Found'
        BY <1>i, <2>1, PlacesStay DEF HandIds, Found
    <2>3. CASE UNCHANGED errors
        <3>1. /\ ring.rspPtr \in RspSlots \ Responses /\ Responses' = Responses \cup {ring.rspPtr}
              /\ rspRing'[ring.rspPtr].msg = cur
              /\ \A i \in RspSlots \ {ring.rspPtr} : rspRing'[i] = rspRing[i]
            BY <1>t, <1>i, <1>6, <2>3, SlotPosted
        <3>4. ResponseIds' = ResponseIds \cup HandIds
            BY <2>2, <3>1 DEF ResponseIds, Responses
        <3>5. ResponsesDiffer'
            <4>1. ResponsesDiffer /\ \A i \in Responses : rspRing[i].msg # cur \/ cur = 0
                BY <1>i, <2>2 DEF Apart, ResponseIds
            <4> QED BY <3>1, <4>1 DEF ResponsesDiffer, Responses
        <3> QED BY <1>h, <1>i, <2>1, <2>2, <3>4, <3>5, PlacesStay DEF InFlight, Wanted, Apart
    <2>4. CASE rspRing' = rspRing
        BY <1>h, <2>1, <2>2, <2>4, FlightShrinks
    <2> QED BY <1>6, <2>3, <2>4 DEF PollHandsBack
<1>7. CASE PollNotifies \/ PollLingers \/ PollEndsPass
    <2>1. /\ ppc \in {"notify", "linger", "end"} /\ ppc' \in {"exec", "linger", "end", "sleep"}
          /\ UNCHANGED <<cmdRing, rspRing>> /\ (ppc' # "sleep" => UNCHANGED msgs)
        BY <1>7 DEF PollNotifies, PollLingers, PollEndsPass, memVars
    <2>2. QueueIds' \subseteq QueueIds /\ HandIds' = {} /\ Found'
        BY <2>1 DEF QueueIds, HandIds, Found
    <2>3. QueueDiffers'
        BY <1>i, <2>1 DEF QueueDiffers
    <2> QED BY <1>h, <2>1, <2>2, <2>3, FlightShrinks
<1>8. CASE PollWritesMessage
    <2>1. /\ ppc = "message" /\ ppc' = "handback" /\ UNCHANGED <<cmdRing, rspRing, msgs, ring>>
          /\ cur' \in {cur, 0}
        BY <1>8 DEF PollWritesMessage, portVars
    <2>2. QueueIds' = QueueIds /\ QueueDiffers'
        BY <1>i, <2>1, PlacesStay
    <2>3. HandIds' \subseteq HandIds
        BY <2>1 DEF HandIds
    <2>4. Found'
        BY <1>i, <2>1, PlacesStay DEF Found
    <2> QED BY <1>h, <2>1, <2>2, <2>3, <2>4, FlightShrinks
<1> QED BY <1>1, <1>2, <1>3, <1>4, <1>5, <1>6, <1>7, <1>8 DEF Poll

(* Each command of the host that runs is in one place, for every instance. *)
LEMMA FlightInductive ==
    ASSUME ~StaleStep1
    PROVE  Spec => []InFlight
<1>1. Init => InFlight
    BY DEF Init, InFlight
<1>2. TypeOK /\ HandInv /\ EpochInv /\ InFlight /\ [Next]_vars => InFlight'
    <2> SUFFICES ASSUME TypeOK, HandInv, EpochInv, InFlight, [Next]_vars PROVE InFlight'
        OBVIOUS
    <2>1. CASE Next
        BY <2>1, FlightHost, FlightWorker, FlightPoll DEF Next
    <2>2. CASE UNCHANGED vars
        <3>1. UNCHANGED <<cmdRing, rspRing, out, hpc, ppc, msgs, cur, ring>>
            BY <2>2 DEF vars, portVars, pollVars, memVars, hostVars
        <3>2. hpc = "run" => Found'
            BY <3>1, PlacesStay DEF InFlight, Found
        <3> QED BY <3>1, <3>2, PlacesStay, FlightShrinks DEF InFlight
    <2> QED BY <2>1, <2>2
<1>3. Spec => [](TypeOK /\ HandInv /\ EpochInv)
    BY EpochInductive
<1> QED BY <1>1, <1>2, <1>3, PTL DEF Spec

(* A message that is missing was lost: PostResponse() did not look at the  *)
(* result of its write.                                                    *)
Missing ==
    hpc = "run" =>
        /\ \A i \in Responses : rspRing[i].msg = 0 => "message" \in lost
        /\ ppc \in {"post", "repost", "message"} => cur # 0
        /\ ppc = "handback" /\ cur = 0 => "message" \in lost

(* Missing is kept: only PollWritesMessage loses one, and says so.         *)
LEMMA MissingKept ==
    ASSUME TypeOK, HandInv, EpochInv, InFlight, Missing, [Next]_vars
    PROVE  Missing'
<1>t. Types
    BY TypeParts
<1>1. CASE HostWritesIP \/ BusReset \/ HostWraps
    BY <1>1 DEF HostWritesIP, BusReset, HostWraps, Missing
<1>2. CASE HostAnswersStep
    <2>1. CASE hStep < 4
        BY <1>2, <2>1 DEF HostAnswersStep, Missing
    <2>2. CASE hStep = 4
        <3>1. rspRing' = [i \in RspSlots |-> PortSlot] /\ ppc' = ppc
            BY <1>2, <2>2 DEF HostAnswersStep, pollVars
        <3>2. ppc = "sleep"
            BY <1>2, <2>2 DEF HostAnswersStep, HandInv, NotToldStaleStep, PollParked
        <3>3. Responses' = {}
            BY <3>1 DEF Responses, PortSlot
        <3> QED BY <3>1, <3>2, <3>3 DEF Missing
    <2> QED BY <1>t, <2>1, <2>2 DEF Types, HostTypes
<1>3. CASE HostSubmits \/ HostRings \/ HostTakesInterrupt \/ UNCHANGED vars
    <2>1. UNCHANGED <<rspRing, lost, ppc, cur, hpc>>
        BY <1>3 DEF HostSubmits, HostRings, HostTakesInterrupt, vars, memVars, pollVars, hostVars
    <2> QED BY <2>1, PlacesStay DEF Missing
<1>4. CASE HostScans
    <2>1. UNCHANGED <<lost, ppc, cur, hpc>>
        BY <1>4 DEF HostScans, pollVars
    <2>2. CASE rspRing[hRsp].own
        BY <1>4, <2>1, <2>2, PlacesStay DEF HostScans, Missing
    <2>3. CASE ~rspRing[hRsp].own
        <3>1. /\ hRsp \in Responses /\ Responses' = Responses \ {hRsp}
              /\ \A i \in RspSlots \ {hRsp} : rspRing'[i] = rspRing[i]
            BY <1>t, <1>4, <2>3, SlotScanned
        <3> QED BY <2>1, <3>1 DEF Missing, Responses
    <2> QED BY <2>2, <2>3
<1>5. CASE Worker
    <2>1. UNCHANGED <<hpc, ppc, cur, lost>>
        BY <1>5 DEF Worker, WorkerWakes, WorkerTakesStep, WorkerStopsPolling, WorkerResets, ResetState,
            WorkerChains, WorkerTestsStep, WorkerClearsCommArea, WorkerPublishes, hostVars, pollVars, memVars
    <2>2. hpc = "run" => UNCHANGED rspRing
        BY <1>5 DEF Worker, WorkerWakes, WorkerTakesStep, WorkerStopsPolling, WorkerResets, ResetState,
            WorkerChains, WorkerTestsStep, WorkerClearsCommArea, WorkerPublishes, memVars, EpochInv, Epochs
    <2> QED BY <2>1, <2>2, PlacesStay DEF Missing
<1>6. CASE Poll
    <2>h. UNCHANGED hpc
        BY <1>6, PollAwake DEF hostVars
    <2>1. CASE PollWakes \/ PollFetches \/ PollTakesCommand \/ PollNotifies \/ PollLingers \/ PollEndsPass
        <3>1. UNCHANGED <<rspRing, lost>> /\ ppc' \notin {"post", "repost", "message", "handback"}
            BY <2>1 DEF PollWakes, PollFetches, PollTakesCommand, PollNotifies, PollLingers, PollEndsPass, memVars
        <3> QED BY <2>h, <3>1, PlacesStay DEF Missing
    <2>2. CASE PollExecutes
        <3>1. UNCHANGED <<rspRing, lost>> /\ ppc = "exec"
            BY <2>2 DEF PollExecutes, memVars
        <3>2. CASE msgs # <<>> /\ pollState # "InitRestart"
            <4>1. cur' = Head(msgs) /\ ppc' = "post"
                BY <2>2, <3>2 DEF PollExecutes
            <4>2. 1 \in 1 .. Len(msgs) /\ Head(msgs) = msgs[1]
                BY <1>t, <3>2 DEF Types, PollTypes
            <4>3. hpc = "run" => Head(msgs) \in out
                BY <3>1, <4>2 DEF InFlight, Wanted, QueueIds
            <4>4. 0 \notin out
                BY <1>t DEF Types, HostTypes, Cmds
            <4> QED BY <2>h, <3>1, <4>1, <4>3, <4>4, PlacesStay DEF Missing
        <3>3. CASE ppc' \in {"linger", "end"}
            BY <2>h, <3>1, <3>3, PlacesStay DEF Missing
        <3> QED BY <2>2, <3>2, <3>3 DEF PollExecutes
    <2>3. CASE PollPosts
        <3>1. /\ UNCHANGED <<rspRing, lost, cur>> /\ ppc \in {"post", "repost"}
              /\ ppc' \in {"exec", "repost", "message"}
            BY <2>3 DEF PollPosts, memVars
        <3> QED BY <2>h, <3>1, PlacesStay DEF Missing
    <2>4. CASE PollWritesMessage
        <3>1. /\ UNCHANGED rspRing /\ ppc = "message" /\ ppc' = "handback" /\ lost \subseteq lost'
              /\ cur' = cur \/ "message" \in lost'
            BY <2>4 DEF PollWritesMessage
        <3> QED BY <2>h, <3>1, PlacesStay DEF Missing
    <2>5. CASE PollHandsBack
        <3>1. ppc = "handback" /\ ppc' = "notify" /\ lost \subseteq lost'
            BY <2>5 DEF PollHandsBack
        <3>2. CASE UNCHANGED rspRing
            BY <2>h, <3>1, <3>2, PlacesStay DEF Missing
        <3>3. CASE UNCHANGED errors
            <4>1. ASSUME hpc = "run" PROVE Found
                BY <4>1 DEF InFlight
            <4>2. hpc = "run" =>
                    /\ Responses' = Responses \cup {ring.rspPtr} /\ ring.rspPtr \notin Responses
                    /\ rspRing'[ring.rspPtr].msg = cur
                    /\ \A i \in RspSlots \ {ring.rspPtr} : rspRing'[i] = rspRing[i]
                BY <1>t, <2>5, <3>3, <4>1, SlotPosted
            <4> QED BY <2>h, <3>1, <4>2 DEF Missing, Responses
        <3> QED BY <2>5, <3>2, <3>3 DEF PollHandsBack
    <2> QED BY <1>6, <2>1, <2>2, <2>3, <2>4, <2>5 DEF Poll
<1> QED BY <1>1, <1>2, <1>3, <1>4, <1>5, <1>6 DEF Next, Host

(* Missing holds for every instance.                                       *)
LEMMA MissingInductive ==
    ASSUME ~StaleStep1
    PROVE  Spec => []Missing
<1>1. Init => Missing
    BY DEF Init, Missing
<1>2. TypeOK /\ HandInv /\ EpochInv /\ InFlight /\ Missing /\ [Next]_vars => Missing'
    BY MissingKept
<1>3. Spec => [](TypeOK /\ HandInv /\ EpochInv) /\ []InFlight
    BY EpochInductive, FlightInductive
<1> QED BY <1>1, <1>2, <1>3, PTL DEF Spec

(* A host that runs finds only responses to its own commands, one to each, *)
(* and a buffer without one only if its message write failed unnoticed:    *)
(* what Poll() had fetched, executed or half posted when the port was      *)
(* initialised again is dropped by mscp_server_base::Reset() and never     *)
(* reaches the new rings, whatever their lengths.                          *)
THEOREM OnlyWantedResponses ==
    ASSUME ~StaleStep1
    PROVE  Spec => []ResponsesWanted
<1>1. InFlight /\ Missing => ResponsesWanted
    <2> SUFFICES ASSUME InFlight, Missing, hpc = "run", NEW i \in Responses
                 PROVE  IF rspRing[i].msg = 0 THEN "message" \in lost
                        ELSE /\ rspRing[i].msg \in out
                             /\ \A j \in Responses : rspRing[i].msg = rspRing[j].msg => i = j
        BY DEF ResponsesWanted, Responses
    <2>1. rspRing[i].msg = 0 => "message" \in lost
        BY DEF Missing
    <2>2. rspRing[i].msg # 0 => rspRing[i].msg \in out
        BY DEF InFlight, Wanted, ResponseIds
    <2>3. rspRing[i].msg # 0 => \A j \in Responses : rspRing[i].msg = rspRing[j].msg => i = j
        BY DEF InFlight, ResponsesDiffer
    <2> QED BY <2>1, <2>2, <2>3
<1>2. Spec => []InFlight /\ []Missing
    BY FlightInductive, MissingInductive
<1> QED BY <1>1, <1>2, PTL

-----------------------------------------------------------------------------
(* The drive of a running port was brought online since the last reset.    *)
OnlineSince == initStep = 5 /\ onlineBy # 0 => onlineBy > base

(* After a reset the drive is online only by a command of the host that    *)
(* initialised the port since: Reset() takes the drives offline after      *)
(* Poll() has parked, and what Poll() executes later the new host issued.  *)
THEOREM OnlineByNewHost ==
    ASSUME ~StaleStep1
    PROVE  Spec => []OnlineByThisHost
<1>1. Init => OnlineSince
    BY DEF Init, OnlineSince
<1>2. TypeOK /\ HandInv /\ EpochInv /\ InFlight /\ OnlineSince /\ [Next]_vars => OnlineSince'
    <2> SUFFICES ASSUME TypeOK, HandInv, EpochInv, InFlight, OnlineSince, [Next]_vars PROVE OnlineSince'
        OBVIOUS
    <2>1. CASE HostWritesIP \/ BusReset \/ HostWraps
        BY <2>1 DEF HostWritesIP, BusReset, HostWraps, StateTransition, OnlineSince
    <2>2. CASE HostAnswersStep
        <3>1. initStep \in 1 .. 4 /\ onlineBy' = onlineBy
            BY <2>2 DEF HostAnswersStep, HandInv, HandTypes, NotToldStaleStep, servVars
        <3> QED BY <3>1 DEF EpochInv, PortFresh, OnlineSince
    <2>3. CASE HostSubmits \/ HostRings \/ HostTakesInterrupt \/ HostScans
        BY <2>3 DEF HostSubmits, HostRings, HostTakesInterrupt, HostScans, portVars, servVars, OnlineSince
    <2>4. CASE Worker
        <3>1. base' = base /\ onlineBy' \in {0, onlineBy} /\ initStep' \in {1, initStep}
            BY <2>4 DEF Worker, WorkerWakes, WorkerTakesStep, WorkerStopsPolling, WorkerResets, ResetState,
                WorkerChains, WorkerTestsStep, WorkerClearsCommArea, WorkerPublishes, hostVars, portVars,
                servVars, StateTransition
        <3> QED BY <3>1 DEF OnlineSince
    <2>5. CASE Poll
        <3>1. base' = base /\ initStep' \in {0, initStep}
            BY <2>5, PollAwake DEF hostVars
        <3>2. onlineBy' = onlineBy \/ (ppc = "exec" /\ msgs # <<>> /\ onlineBy' = Head(msgs))
            BY <2>5 DEF Poll, PollWakes, PollFetches, PollTakesCommand, PollExecutes, PollPosts, PollWritesMessage,
                PollHandsBack, PollNotifies, PollLingers, PollEndsPass, servVars
        <3>3. initStep = 5 /\ ppc = "exec" /\ msgs # <<>> => Head(msgs) > base
            <4> SUFFICES ASSUME initStep = 5, ppc = "exec", msgs # <<>> PROVE Head(msgs) > base
                OBVIOUS
            <4>1. 1 \in 1 .. Len(msgs) /\ Head(msgs) = msgs[1]
                BY TypeParts DEF Types, PollTypes
            <4>2. Head(msgs) \in QueueIds
                BY <4>1 DEF QueueIds
            <4>3. Head(msgs) \in out /\ out \subseteq base + 1 .. issued
                BY <4>2 DEF InFlight, Wanted, EpochInv, Epochs
            <4>4. base \in Nat /\ issued \in Nat
                BY DEF TypeOK
            <4>5. Head(msgs) \in base + 1 .. issued
                BY <4>3
            <4> QED BY <4>4, <4>5
        <3> QED BY <3>1, <3>2, <3>3 DEF OnlineSince
    <2>6. CASE UNCHANGED vars
        BY <2>6 DEF vars, portVars, servVars, hostVars, OnlineSince
    <2> QED BY <2>1, <2>2, <2>3, <2>4, <2>5, <2>6 DEF Next, Host
<1>3. TypeOK /\ EpochInv /\ OnlineSince => OnlineByThisHost
    BY DEF TypeOK, EpochInv, PortFresh, OnlineSince, OnlineByThisHost
<1>4. Spec => [](TypeOK /\ HandInv /\ EpochInv) /\ []InFlight
    BY EpochInductive, FlightInductive
<1> QED BY <1>1, <1>2, <1>3, <1>4, PTL DEF Spec

-----------------------------------------------------------------------------
(* Slots of a ring of length n.                                            *)
(* Slot i is Gap slots behind slot p; k slots on from p is Step; the k     *)
(* slots from p on are a window.                                           *)
Gap(p, i, n) == IF i >= p THEN i - p ELSE i + n - p
Step(p, k, n) == IF p + k >= n THEN p + k - n ELSE p + k
Window(p, k, n) == {i \in 0 .. n - 1 : Gap(p, i, n) < k}

(* The slots of S follow each other from first up to next, around the end. *)
InWindow(S, first, next, n) ==
    /\ Cardinality(S) \in 0 .. n
    /\ S = Window(first, Cardinality(S), n)
    /\ next = Step(first, Cardinality(S), n)

(* The pointers are taken modulo the length; at most once around.          *)
LEMMA StepIsMod ==
    ASSUME NEW n \in Nat \ {0}, NEW p \in 0 .. n - 1, NEW k \in 0 .. n
    PROVE  (p + k) % n = Step(p, k, n) /\ Step(p, k, n) \in 0 .. n - 1
BY DEF Step

(* The slots of a ring are finitely many.                                  *)
LEMMA WindowFinite ==
    ASSUME NEW n \in Nat \ {0}, NEW S, S \subseteq 0 .. n - 1
    PROVE  IsFiniteSet(S)
<1>1. 0 \in Int /\ n - 1 \in Int
    OBVIOUS
<1>2. IsFiniteSet(0 .. n - 1)
    BY <1>1, FS_Interval
<1> QED BY <1>2, FS_Subset

(* A ring with nothing in it.                                              *)
LEMMA WindowEmpty ==
    ASSUME NEW n \in Nat \ {0}, NEW p \in 0 .. n - 1
    PROVE  InWindow({}, p, p, n)
<1>1. Cardinality({}) = 0
    BY FS_EmptySet
<1> QED BY <1>1 DEF InWindow, Window, Gap, Step

(* One more slot filled, behind the others.                                *)
LEMMA WindowPush ==
    ASSUME NEW n \in Nat \ {0}, NEW first \in 0 .. n - 1, NEW next, NEW S,
           InWindow(S, first, next, n), next \notin S
    PROVE  InWindow(S \cup {next}, first, Step(next, 1, n), n)
<1> DEFINE k == Cardinality(S)
<1>1. k \in 0 .. n /\ S = Window(first, k, n) /\ next = Step(first, k, n)
    BY DEF InWindow
<1>2. IsFiniteSet(S)
    BY <1>1, WindowFinite DEF Window
<1>3. Cardinality(S \cup {next}) = k + 1
    BY <1>2, FS_AddElement
<1> HIDE DEF k
<1>4. k < n /\ next \in 0 .. n - 1
    BY <1>1 DEF Window, Gap, Step
<1>5. Step(first, k + 1, n) = Step(next, 1, n)
    BY <1>1, <1>4 DEF Step
<1>6. S \cup {next} = Window(first, k + 1, n)
    <2>1. ASSUME NEW i \in 0 .. n - 1 PROVE Gap(first, i, n) < k + 1 <=> Gap(first, i, n) < k \/ i = next
        BY <1>1, <1>4 DEF Gap, Step
    <2> QED BY <1>1, <1>4, <2>1 DEF Window
<1> QED BY <1>1, <1>3, <1>4, <1>5, <1>6 DEF InWindow

(* What is in the ring begins at the first slot.                           *)
LEMMA WindowFirst ==
    ASSUME NEW n \in Nat \ {0}, NEW first \in 0 .. n - 1, NEW next, NEW S,
           InWindow(S, first, next, n), S # {}
    PROVE  first \in S
<1> DEFINE k == Cardinality(S)
<1>1. k \in 0 .. n /\ S = Window(first, k, n)
    BY DEF InWindow
<1> HIDE DEF k
<1>2. PICK i \in S : i \in 0 .. n - 1 /\ Gap(first, i, n) < k
    BY <1>1 DEF Window
<1>3. k > 0
    BY <1>1, <1>2 DEF Gap
<1> QED BY <1>1, <1>3 DEF Window, Gap

(* The first slot emptied.                                                 *)
LEMMA WindowPop ==
    ASSUME NEW n \in Nat \ {0}, NEW first \in 0 .. n - 1, NEW next, NEW S,
           InWindow(S, first, next, n), first \in S
    PROVE  InWindow(S \ {first}, Step(first, 1, n), next, n)
<1> DEFINE k == Cardinality(S)
<1>1. k \in 0 .. n /\ S = Window(first, k, n) /\ next = Step(first, k, n)
    BY DEF InWindow
<1>2. IsFiniteSet(S)
    BY <1>1, WindowFinite DEF Window
<1>3. Cardinality(S \ {first}) = k - 1
    BY <1>2, FS_RemoveElement
<1> HIDE DEF k
<1>4. k > 0
    BY <1>1 DEF Window, Gap
<1>5. Step(Step(first, 1, n), k - 1, n) = next
    BY <1>1, <1>4 DEF Step
<1>6. S \ {first} = Window(Step(first, 1, n), k - 1, n)
    <2>1. ASSUME NEW i \in 0 .. n - 1 PROVE Gap(Step(first, 1, n), i, n) < k - 1 <=> Gap(first, i, n) < k /\ i # first
        BY <1>1, <1>4 DEF Gap, Step
    <2> QED BY <1>1, <1>4, <2>1 DEF Window
<1>7. k - 1 \in 0 .. n
    BY <1>1, <1>4
<1> QED BY <1>3, <1>5, <1>6, <1>7 DEF InWindow


-----------------------------------------------------------------------------
(* Where the port will post the next response but the one it has posted.   *)
PostPtr == IF ppc = "notify" THEN Step(ring.rspPtr, 1, RspLen) ELSE ring.rspPtr

(* The commands lie between the port's pointer and the host's, the         *)
(* responses between the host's and the port's, if none got lost.          *)
RingInv ==
    initStep = 5 =>
        /\ InWindow(Commands, ring.cmdPtr, hCmd, CmdLen)
        /\ "slot" \notin lost => InWindow(Responses, hRsp, PostPtr, RspLen)

(* A step that leaves a ring and its pointers alone.                       *)
LEMMA RingsStay ==
    /\ UNCHANGED <<cmdRing, hCmd, ring>> => Commands' = Commands /\ ring'.cmdPtr = ring.cmdPtr
    /\ UNCHANGED <<rspRing, hRsp, ring>> /\ (ppc = "notify" <=> ppc' = "notify") =>
         Responses' = Responses /\ PostPtr' = PostPtr
<1>1. UNCHANGED <<cmdRing, hCmd, ring>> => Commands' = Commands /\ ring'.cmdPtr = ring.cmdPtr
    BY PlacesStay
<1>2. UNCHANGED <<rspRing, hRsp, ring>> /\ (ppc = "notify" <=> ppc' = "notify") =>
         Responses' = Responses /\ PostPtr' = PostPtr
    BY PlacesStay DEF PostPtr
<1> QED BY <1>1, <1>2

(* The host's steps keep the rings in step.                                *)
LEMMA RingHost ==
    ASSUME TypeOK, HandInv, EpochInv, InFlight, RingInv, Host \/ BusReset
    PROVE  RingInv'
<1>t. Types
    BY TypeParts
<1>p. /\ hCmd \in 0 .. CmdLen - 1 /\ ring.cmdPtr \in 0 .. CmdLen - 1 /\ CmdLen \in Nat \ {0}
      /\ hRsp \in 0 .. RspLen - 1 /\ ring.rspPtr \in 0 .. RspLen - 1 /\ RspLen \in Nat \ {0}
    BY <1>t, RingAssumption DEF Types, HostTypes, PortTypes, Ring, CmdSlots, RspSlots
<1>1. CASE HostWritesIP \/ BusReset \/ HostWraps
    BY <1>1 DEF HostWritesIP, BusReset, HostWraps, StateTransition, RingInv
<1>2. CASE HostAnswersStep
    <2>1. hpc = "init" /\ hStep = initStep /\ initStep \in 1 .. 4 /\ UNCHANGED <<ppc, hCmd, hRsp>>
        BY <1>2 DEF HostAnswersStep, HandInv, HandTypes, NotToldStaleStep, pollVars
    <2>2. CASE initStep < 4
        BY <1>2, <2>1, <2>2 DEF HostAnswersStep, SaWrite, StateTransition, RingInv
    <2>3. CASE initStep = 4
        <3>1. /\ cmdRing' = [i \in CmdSlots |-> HostSlot] /\ rspRing' = [i \in RspSlots |-> PortSlot]
              /\ ring' = ring
            BY <1>2, <2>1, <2>3 DEF HostAnswersStep, SaWrite
        <3>2. Commands' = {} /\ Responses' = {}
            BY <3>1 DEF Commands, Responses, HostSlot, PortSlot
        <3>3. ring'.cmdPtr = 0 /\ hCmd' = 0 /\ ring'.rspPtr = 0 /\ hRsp' = 0 /\ ppc' = "sleep"
            BY <2>1, <2>3, <3>1 DEF EpochInv, PortFresh, HostFresh, HandInv, PollParked
        <3>4. PostPtr' = 0
            BY <3>3 DEF PostPtr
        <3>5. InWindow({}, 0, 0, CmdLen) /\ InWindow({}, 0, 0, RspLen)
            BY <1>p, WindowEmpty
        <3> QED BY <3>2, <3>3, <3>4, <3>5 DEF RingInv
    <2> QED BY <2>1, <2>2, <2>3
<1>3. CASE HostRings \/ HostTakesInterrupt
    <2>1. UNCHANGED <<cmdRing, rspRing, lost, hCmd, hRsp, ring, ppc, initStep>>
        BY <1>3 DEF HostRings, HostTakesInterrupt, portVars, pollVars, memVars
    <2> QED BY <2>1, RingsStay DEF RingInv
<1>4. CASE HostSubmits
    <2>1. UNCHANGED <<rspRing, lost, hRsp, ring, ppc, initStep>> /\ hCmd' = (hCmd + 1) % CmdLen
        BY <1>4 DEF HostSubmits, portVars, pollVars
    <2>2. hCmd \notin Commands /\ Commands' = Commands \cup {hCmd}
        BY <1>t, <1>4, SlotSubmitted
    <2>3. hCmd' = Step(hCmd, 1, CmdLen)
        BY <1>p, <2>1, StepIsMod
    <2>4. initStep = 5 => InWindow(Commands \cup {hCmd}, ring.cmdPtr, Step(hCmd, 1, CmdLen), CmdLen)
        BY <1>p, <2>2, WindowPush DEF RingInv
    <2> QED BY <2>1, <2>2, <2>3, <2>4, RingsStay DEF RingInv
<1>5. CASE HostScans
    <2>1. UNCHANGED <<cmdRing, lost, hCmd, ring, ppc, initStep>>
        BY <1>5 DEF HostScans, portVars, pollVars
    <2>2. CASE rspRing[hRsp].own
        <3>1. UNCHANGED <<rspRing, hRsp>>
            BY <1>5, <2>2 DEF HostScans
        <3> QED BY <2>1, <3>1, RingsStay DEF RingInv
    <2>3. CASE ~rspRing[hRsp].own
        <3>1. hRsp \in Responses /\ Responses' = Responses \ {hRsp}
            BY <1>t, <1>5, <2>3, SlotScanned
        <3>2. hRsp' = Step(hRsp, 1, RspLen)
            BY <1>p, <1>5, <2>3, StepIsMod DEF HostScans
        <3>3. initStep = 5 /\ "slot" \notin lost => InWindow(Responses \ {hRsp}, Step(hRsp, 1, RspLen), PostPtr, RspLen)
            BY <1>p, <3>1, WindowPop DEF RingInv
        <3>4. PostPtr' = PostPtr
            BY <2>1 DEF PostPtr
        <3> QED BY <2>1, <3>1, <3>2, <3>3, <3>4, RingsStay DEF RingInv
    <2> QED BY <2>2, <2>3
<1> QED BY <1>1, <1>2, <1>3, <1>4, <1>5 DEF Host

(* worker() moves no pointer of a port that runs.                          *)
LEMMA RingWorker ==
    ASSUME TypeOK, HandInv, EpochInv, RingInv, Worker
    PROVE  RingInv'
<1>1. UNCHANGED <<hCmd, hRsp, ppc>> /\ (initStep' = 5 => initStep = 5)
    BY DEF Worker, WorkerWakes, WorkerTakesStep, WorkerStopsPolling, WorkerResets, ResetState,
        WorkerChains, WorkerTestsStep, WorkerClearsCommArea, WorkerPublishes, hostVars, pollVars,
        portVars, StateTransition
<1>2. UNCHANGED lost /\ (initStep = 5 => UNCHANGED <<cmdRing, rspRing, ring>>)
    BY DEF Worker, WorkerWakes, WorkerTakesStep, WorkerStopsPolling, WorkerResets, ResetState,
        WorkerChains, WorkerTestsStep, WorkerClearsCommArea, WorkerPublishes, memVars, portVars,
        EpochInv, Epochs, HandInv, WorkerInStep, ResetStates
<1> QED BY <1>1, <1>2, RingsStay DEF RingInv

(* The polling thread's steps keep the rings in step.                      *)
LEMMA RingPoll ==
    ASSUME TypeOK, HandInv, EpochInv, InFlight, RingInv, Poll
    PROVE  RingInv'
<1>t. Types
    BY TypeParts
<1>p. /\ ring.cmdPtr \in 0 .. CmdLen - 1 /\ CmdLen \in Nat \ {0}
      /\ hRsp \in 0 .. RspLen - 1 /\ ring.rspPtr \in 0 .. RspLen - 1 /\ RspLen \in Nat \ {0}
    BY <1>t, RingAssumption DEF Types, HostTypes, PortTypes, Ring, CmdSlots, RspSlots
<1>s. SUFFICES ASSUME initStep' = 5 PROVE RingInv'
    BY DEF RingInv
<1>i. initStep = 5 /\ UNCHANGED <<hCmd, hRsp>>
    BY <1>s, PollAwake DEF hostVars
<1>w. /\ InWindow(Commands, ring.cmdPtr, hCmd, CmdLen)
      /\ "slot" \notin lost => InWindow(Responses, hRsp, PostPtr, RspLen)
    BY <1>i DEF RingInv
<1>g. ring.cmdLen = CmdLen /\ ring.rspLen = RspLen /\ ring \in Ring /\ Found
    BY <1>t, <1>i DEF EpochInv, Geometry, Epochs, InFlight, Types, PortTypes
<1>1. CASE PollWakes \/ PollFetches \/ PollExecutes \/ PollPosts \/ PollWritesMessage \/ PollLingers
           \/ PollEndsPass
    <2>1. /\ UNCHANGED <<cmdRing, rspRing, ring>> /\ ppc # "notify" /\ ppc' # "notify"
          /\ "slot" \in lost => "slot" \in lost'
        BY <1>1 DEF PollWakes, PollFetches, PollExecutes, PollPosts, PollWritesMessage, PollLingers,
            PollEndsPass, memVars, portVars
    <2> QED BY <1>i, <1>w, <2>1, RingsStay DEF RingInv
<1>2. CASE PollTakesCommand
    <2>1. /\ ppc = "take" /\ ppc' = "fetch" /\ UNCHANGED <<rspRing, lost>>
          /\ ring' = [ring EXCEPT !.cmdPtr = (ring.cmdPtr + 1) % CmdLen]
        BY <1>2, <1>s, <1>g, <1>p DEF PollTakesCommand, PortError, StateTransition
    <2>2. ring.cmdPtr \in Commands /\ Commands' = Commands \ {ring.cmdPtr}
        BY <1>t, <1>g, <1>2, <2>1, SlotTaken
    <2>3. ring'.cmdPtr = Step(ring.cmdPtr, 1, CmdLen) /\ ring'.rspPtr = ring.rspPtr
        <3>0. 1 \in 0 .. CmdLen
            BY <1>p
        <3>1. (ring.cmdPtr + 1) % CmdLen = Step(ring.cmdPtr, 1, CmdLen)
            BY <1>p, <3>0, StepIsMod
        <3> QED BY <1>g, <2>1, <3>1 DEF Ring
    <2>4. InWindow(Commands \ {ring.cmdPtr}, Step(ring.cmdPtr, 1, CmdLen), hCmd, CmdLen)
        BY <1>p, <1>w, <2>2, WindowPop
    <2>5. PostPtr' = PostPtr /\ Responses' = Responses
        BY <2>1, <2>3, PlacesStay DEF PostPtr
    <2> QED BY <1>i, <1>w, <2>1, <2>2, <2>3, <2>4, <2>5 DEF RingInv
<1>3. CASE PollHandsBack
    <2>1. ppc = "handback" /\ ppc' = "notify" /\ UNCHANGED <<cmdRing, ring>>
        BY <1>3 DEF PollHandsBack, portVars
    <2>2. InWindow(Commands', ring'.cmdPtr, hCmd', CmdLen)
        BY <1>i, <1>w, <2>1, RingsStay
    <2>3. CASE UNCHANGED <<lost, errors>>
        <3>1. ring.rspPtr \notin Responses /\ Responses' = Responses \cup {ring.rspPtr}
            BY <1>t, <1>g, <1>3, <2>3, SlotPosted
        <3>2. PostPtr = ring.rspPtr /\ PostPtr' = Step(ring.rspPtr, 1, RspLen)
            BY <2>1 DEF PostPtr
        <3>3. "slot" \notin lost =>
                InWindow(Responses \cup {ring.rspPtr}, hRsp, Step(ring.rspPtr, 1, RspLen), RspLen)
            BY <1>p, <1>w, <3>1, <3>2, WindowPush
        <3> QED BY <1>i, <2>2, <2>3, <3>1, <3>2, <3>3 DEF RingInv
    <2>4. CASE "slot" \in lost'
        BY <2>2, <2>4 DEF RingInv
    <2> QED BY <1>3, <2>3, <2>4 DEF PollHandsBack
<1>4. CASE PollNotifies
    <2>1. /\ ppc = "notify" /\ ppc' = "exec" /\ UNCHANGED <<cmdRing, rspRing, lost>>
          /\ ring' = [ring EXCEPT !.rspPtr = (ring.rspPtr + 1) % RspLen]
        BY <1>4, <1>g, <1>p DEF PollNotifies
    <2>2. ring'.rspPtr = Step(ring.rspPtr, 1, RspLen) /\ ring'.cmdPtr = ring.cmdPtr
        <3>0. 1 \in 0 .. RspLen
            BY <1>p
        <3>1. (ring.rspPtr + 1) % RspLen = Step(ring.rspPtr, 1, RspLen)
            BY <1>p, <3>0, StepIsMod
        <3> QED BY <1>g, <2>1, <3>1 DEF Ring
    <2>3. PostPtr' = PostPtr
        BY <2>1, <2>2 DEF PostPtr
    <2> QED BY <1>i, <1>w, <2>1, <2>2, <2>3, PlacesStay DEF RingInv
<1> QED BY <1>1, <1>2, <1>3, <1>4 DEF Poll

(* The windows hold for every instance.                                    *)
LEMMA RingInductive ==
    ASSUME ~StaleStep1
    PROVE  Spec => []RingInv
<1>1. Init => RingInv
    BY DEF Init, RingInv
<1>2. TypeOK /\ HandInv /\ EpochInv /\ InFlight /\ RingInv /\ [Next]_vars => RingInv'
    <2> SUFFICES ASSUME TypeOK, HandInv, EpochInv, InFlight, RingInv, [Next]_vars PROVE RingInv'
        OBVIOUS
    <2>1. CASE Next
        BY <2>1, RingHost, RingWorker, RingPoll DEF Next
    <2>2. CASE UNCHANGED vars
        BY <2>2, RingsStay DEF vars, portVars, pollVars, memVars, hostVars, RingInv
    <2> QED BY <2>1, <2>2
<1>3. Spec => [](TypeOK /\ HandInv /\ EpochInv) /\ []InFlight
    BY EpochInductive, FlightInductive
<1> QED BY <1>1, <1>2, <1>3, PTL DEF Spec

(* For rings of any length the pointers of port and host stay in step: the *)
(* port, whose pointers Reset() clears and GetNextCommand() and            *)
(* PostResponse() advance, looks for the next command where the host puts  *)
(* it, and the host for the next response where the port puts it as long   *)
(* as every descriptor has arrived: PostResponse() ignores a failing write *)
(* and moves on, whether the port runs or not.                             *)
THEOREM RingsStayInStep ==
    ASSUME ~StaleStep1
    PROVE  Spec => []RingsInStep
<1>1. TypeOK /\ EpochInv /\ RingInv => RingsInStep
    <2> SUFFICES ASSUME TypeOK, EpochInv, RingInv, hpc = "run", initStep = 5
                 PROVE  /\ ring.cmdLen = CmdLen /\ ring.rspLen = RspLen
                        /\ ring.ringBase = {"low", "high"} /\ ring.vector
                        /\ hCmd = (ring.cmdPtr + Cardinality(Commands)) % CmdLen
                        /\ Commands # {} => ring.cmdPtr \in Commands
                        /\ "slot" \notin lost =>
                             /\ Responses # {} => hRsp \in Responses
                             /\ (hRsp + Cardinality(Responses)) % RspLen
                                  = (ring.rspPtr + (IF ppc = "notify" THEN 1 ELSE 0)) % RspLen
        BY DEF RingsInStep, IsRunning, Commands, Responses
    <2>1. /\ hCmd \in 0 .. CmdLen - 1 /\ ring.cmdPtr \in 0 .. CmdLen - 1 /\ CmdLen \in Nat \ {0}
          /\ hRsp \in 0 .. RspLen - 1 /\ ring.rspPtr \in 0 .. RspLen - 1 /\ RspLen \in Nat \ {0}
        BY TypeParts, RingAssumption DEF Types, HostTypes, PortTypes, Ring, CmdSlots, RspSlots
    <2>2. /\ InWindow(Commands, ring.cmdPtr, hCmd, CmdLen)
          /\ "slot" \notin lost => InWindow(Responses, hRsp, PostPtr, RspLen)
        BY DEF RingInv
    <2>3. ring.cmdLen = CmdLen /\ ring.rspLen = RspLen /\ ring.ringBase = {"low", "high"} /\ ring.vector
        BY DEF EpochInv, Geometry
    <2>4. hCmd = (ring.cmdPtr + Cardinality(Commands)) % CmdLen
        BY <2>1, <2>2, StepIsMod DEF InWindow
    <2>5. /\ Commands # {} => ring.cmdPtr \in Commands
          /\ "slot" \notin lost /\ Responses # {} => hRsp \in Responses
        BY <2>1, <2>2, WindowFirst
    <2>6. "slot" \notin lost => (hRsp + Cardinality(Responses)) % RspLen = PostPtr
        BY <2>1, <2>2, StepIsMod DEF InWindow
    <2>7. PostPtr = (ring.rspPtr + (IF ppc = "notify" THEN 1 ELSE 0)) % RspLen
        <3>1. 1 \in 0 .. RspLen /\ 0 \in 0 .. RspLen
            BY <2>1
        <3>2. (ring.rspPtr + 1) % RspLen = Step(ring.rspPtr, 1, RspLen)
            BY <2>1, <3>1, StepIsMod
        <3>3. (ring.rspPtr + 0) % RspLen = ring.rspPtr
            BY <2>1
        <3> QED BY <3>2, <3>3 DEF PostPtr
    <2> QED BY <2>3, <2>4, <2>5, <2>6, <2>7
<1>2. Spec => [](TypeOK /\ HandInv /\ EpochInv) /\ []RingInv
    BY EpochInductive, RingInductive
<1> QED BY <1>1, <1>2, PTL

-----------------------------------------------------------------------------
(* The responses that carry credits beyond their own, what they carry, and *)
(* what the response in hand will carry.                                   *)
Carriers == {i \in RspSlots : ~rspRing[i].own /\ rspRing[i].grant > 0}
Carried == IF Carriers = {} THEN 0 ELSE rspRing[CHOOSE i \in Carriers : TRUE].grant
InHand == IF ppc \in {"post", "repost", "message", "handback"} THEN grant ELSE 0

(* The credits the port has to give are all in one place, and all there if *)
(* no write of a response was lost.                                        *)
OnePurse ==
    /\ \A i, j \in Carriers : i = j
    /\ credits > 0 => InHand = 0 /\ Carriers = {}
    /\ InHand > 0 => Carriers = {}
PurseInv ==
    initStep = 5 =>
        /\ OnePurse
        /\ lost = {} => credits + hCredits + Cardinality(out) + InHand + Carried = InitCredits + 1

(* What is carried, by the carrier.                                        *)
LEMMA CarriedBy ==
    /\ Carriers = {} => Carried = 0
    /\ \A i : Carriers = {i} => Carried = rspRing[i].grant
<1>1. Carriers = {} => Carried = 0
    BY DEF Carried
<1>2. ASSUME NEW i, Carriers = {i} PROVE Carried = rspRing[i].grant
    <2>1. (CHOOSE j \in {i} : TRUE) = i
        OBVIOUS
    <2>2. (CHOOSE j \in Carriers : TRUE) = i
        BY <1>2, <2>1
    <2> QED BY <1>2, <2>2 DEF Carried
<1> QED BY <1>1, <1>2

(* The same after a step.                                                  *)
LEMMA CarriedByNext ==
    /\ Carriers' = {} => Carried' = 0
    /\ \A i : Carriers' = {i} => Carried' = rspRing'[i].grant
<1>1. Carriers' = {} => Carried' = 0
    BY DEF Carried
<1>2. ASSUME NEW i, Carriers' = {i} PROVE Carried' = rspRing'[i].grant
    <2>1. (CHOOSE j \in {i} : TRUE) = i
        OBVIOUS
    <2>2. (CHOOSE j \in Carriers' : TRUE) = i
        BY <1>2, <2>1
    <2> QED BY <1>2, <2>2 DEF Carried
<1> QED BY <1>1, <1>2

(* The amounts are numbers.                                                *)
LEMMA PurseTypes ==
    ASSUME TypeOK, OnePurse
    PROVE  /\ credits \in Nat /\ hCredits \in Nat /\ grant \in Nat /\ InHand \in Nat /\ Carried \in Nat
           /\ IsFiniteSet(out) /\ Cardinality(out) \in Nat /\ InitCredits \in Nat
<1>1. credits \in Nat /\ hCredits \in Nat /\ grant \in Nat /\ InitCredits \in Nat
    BY PortAssumption DEF TypeOK
<1>2. InHand \in Nat
    BY <1>1 DEF InHand
<1>3. Carried \in Nat
    <2>1. \A i \in RspSlots : rspRing[i].grant \in Nat
        BY TypeParts DEF Types, MemTypes, Slot
    <2>2. CASE Carriers = {}
        BY <2>2, CarriedBy
    <2>3. CASE Carriers # {}
        <3>1. PICK i \in Carriers : Carriers = {i}
            BY <2>3 DEF OnePurse
        <3> QED BY <2>1, <3>1, CarriedBy DEF Carriers
    <2> QED BY <2>2, <2>3
<1>4. IsFiniteSet(out)
    <2>1. out \subseteq 1 .. MaxCmds /\ MaxCmds \in Nat
        BY PortAssumption DEF TypeOK, Cmds
    <2>2. 1 \in Int /\ MaxCmds \in Int
        BY <2>1
    <2>3. IsFiniteSet(1 .. MaxCmds)
        BY <2>2, FS_Interval
    <2> QED BY <2>1, <2>3, FS_Subset
<1>5. Cardinality(out) \in Nat
    BY <1>4, FS_CardinalityType
<1> QED BY <1>1, <1>2, <1>3, <1>4, <1>5

(* A step that moves no credits.                                           *)
LEMMA PurseStays ==
    ASSUME PurseInv, UNCHANGED <<rspRing, credits, hCredits, out, lost>>, InHand' = InHand,
           initStep' = 5 => initStep = 5
    PROVE  PurseInv'
<1>1. Carriers' = Carriers /\ Carried' = Carried
    BY DEF Carriers, Carried
<1> QED BY <1>1 DEF PurseInv, OnePurse

(* The host's steps move credits only between itself and its commands.     *)
LEMMA PurseHost ==
    ASSUME TypeOK, HandInv, EpochInv, InFlight, Missing, PurseInv, Host \/ BusReset
    PROVE  PurseInv'
<1>t. Types
    BY TypeParts
<1>1. CASE HostWritesIP \/ BusReset \/ HostWraps
    BY <1>1 DEF HostWritesIP, BusReset, HostWraps, StateTransition, PurseInv
<1>2. CASE HostAnswersStep
    <2>1. /\ hpc = "init" /\ hStep = initStep /\ initStep \in 1 .. 4
          /\ UNCHANGED <<ppc, credits, hCredits, out>>
        BY <1>2 DEF HostAnswersStep, HandInv, HandTypes, NotToldStaleStep, pollVars, servVars
    <2>2. CASE initStep < 4
        BY <1>2, <2>1, <2>2 DEF HostAnswersStep, SaWrite, StateTransition, PurseInv
    <2>3. CASE initStep = 4
        <3>1. rspRing' = [i \in RspSlots |-> PortSlot]
            BY <1>2, <2>1, <2>3 DEF HostAnswersStep
        <3>2. Carriers' = {}
            BY <3>1 DEF Carriers, PortSlot
        <3>3. credits' = InitCredits /\ hCredits' = 1 /\ out' = {} /\ InHand' = 0
            BY <2>1, <2>3 DEF EpochInv, PortFresh, HostFresh, HandInv, PollParked, InHand
        <3>4. Carried' = 0 /\ Cardinality(out') = 0
            BY <3>2, <3>3, CarriedByNext, FS_EmptySet
        <3> QED BY <3>2, <3>3, <3>4, PortAssumption DEF PurseInv, OnePurse
    <2> QED BY <2>1, <2>2, <2>3
<1>3. CASE HostRings \/ HostTakesInterrupt
    <2>1. UNCHANGED <<rspRing, credits, hCredits, out, lost, initStep>> /\ InHand' = InHand
        BY <1>3 DEF HostRings, HostTakesInterrupt, portVars, pollVars, servVars, memVars, InHand
    <2> QED BY <2>1, PurseStays
<1>4. CASE HostSubmits
    <2>1. /\ UNCHANGED <<rspRing, credits, lost, initStep>> /\ InHand' = InHand
          /\ out' = out \cup {issued + 1} /\ hCredits' = hCredits - 1
        BY <1>4 DEF HostSubmits, portVars, pollVars, servVars, InHand
    <2>2. issued + 1 \notin out
        BY <1>t DEF EpochInv, Epochs, Types, HostTypes
    <2>3. Carriers' = Carriers /\ Carried' = Carried
        BY <2>1 DEF Carriers, Carried
    <2>4. SUFFICES ASSUME initStep = 5 PROVE PurseInv'
        BY <2>1 DEF PurseInv
    <2>5. OnePurse /\ (lost = {} => credits + hCredits + Cardinality(out) + InHand + Carried = InitCredits + 1)
        BY <2>4 DEF PurseInv
    <2>6. IsFiniteSet(out)
        BY <2>5, PurseTypes
    <2>7. Cardinality(out') = Cardinality(out) + 1
        BY <2>1, <2>2, <2>6, FS_AddElement
    <2>8. lost' = {} => credits' + hCredits' + Cardinality(out') + InHand' + Carried' = InitCredits + 1
        BY <2>1, <2>3, <2>5, <2>7, PurseTypes
    <2>9. OnePurse'
        BY <2>1, <2>3, <2>5 DEF OnePurse
    <2> QED BY <2>8, <2>9 DEF PurseInv
<1>5. CASE HostScans
    <2>1. UNCHANGED <<credits, lost, initStep>> /\ InHand' = InHand /\ hpc = "run"
        BY <1>5 DEF HostScans, portVars, pollVars, servVars, InHand
    <2>2. CASE rspRing[hRsp].own
        <3>1. UNCHANGED <<rspRing, hCredits, out>>
            BY <1>5, <2>2 DEF HostScans
        <3> QED BY <2>1, <3>1, PurseStays
    <2>3. CASE ~rspRing[hRsp].own
        <3>1. /\ hRsp \in Responses /\ Responses' = Responses \ {hRsp}
              /\ \A i \in RspSlots \ {hRsp} : rspRing'[i] = rspRing[i]
            BY <1>t, <1>5, <2>3, SlotScanned
        <3>0. lost = {} => rspRing[hRsp].msg # 0
            BY <2>1, <3>1 DEF Missing
        <3>2. /\ out' = out \ {rspRing[hRsp].msg}
              /\ lost = {} => hCredits' = hCredits + 1 + rspRing[hRsp].grant
            BY <1>5, <2>3, <3>0 DEF HostScans
        <3>3. (lost = {} => rspRing[hRsp].msg \in out) /\ rspRing[hRsp].grant \in Nat
            <4>1. lost = {} => rspRing[hRsp].msg \in out
                BY <2>1, <3>0, <3>1 DEF InFlight, Wanted, ResponseIds
            <4>2. rspRing[hRsp].grant \in Nat
                BY <1>t DEF Types, MemTypes, HostTypes, Slot
            <4> QED BY <4>1, <4>2
        <3>4. SUFFICES ASSUME initStep = 5 PROVE PurseInv'
            BY <2>1 DEF PurseInv
        <3>5. OnePurse /\ (lost = {} => credits + hCredits + Cardinality(out) + InHand + Carried = InitCredits + 1)
            BY <3>4 DEF PurseInv
        <3>6. IsFiniteSet(out)
            BY <3>5, PurseTypes
        <3>7. lost = {} => Cardinality(out') = Cardinality(out) - 1
            BY <3>2, <3>3, <3>6, FS_RemoveElement
        <3>8. Carriers' = Carriers \ {hRsp}
            <4>1. Carriers = {i \in Responses : rspRing[i].grant > 0}
                BY DEF Carriers, Responses
            <4>2. Carriers' = {i \in Responses' : rspRing'[i].grant > 0}
                BY DEF Carriers, Responses
            <4> QED BY <3>1, <4>1, <4>2 DEF Responses
        <3>9. Carried = Carried' + rspRing[hRsp].grant
            <4>1. CASE hRsp \in Carriers
                <5>1. Carriers = {hRsp} /\ Carriers' = {}
                    BY <3>5, <3>8, <4>1 DEF OnePurse
                <5>2. Carried = rspRing[hRsp].grant /\ Carried' = 0
                    BY <5>1, CarriedBy, CarriedByNext
                <5> QED BY <3>3, <5>2
            <4>2. CASE hRsp \notin Carriers
                <5>1. rspRing[hRsp].grant = 0 /\ Carriers' = Carriers
                    BY <3>1, <3>3, <3>8, <4>2 DEF Carriers, Responses
                <5>2. CASE Carriers = {}
                    BY <5>1, <5>2, CarriedBy, CarriedByNext
                <5>3. CASE Carriers # {}
                    <6>1. PICK i \in Carriers : Carriers = {i}
                        BY <3>5, <5>3 DEF OnePurse
                    <6>2. i \in RspSlots \ {hRsp} /\ rspRing[i].grant \in Nat
                        BY <1>t, <4>2 DEF Carriers, Types, MemTypes, Slot
                    <6>3. Carried = rspRing[i].grant /\ Carried' = rspRing[i].grant
                        BY <3>1, <5>1, <6>1, <6>2, CarriedBy, CarriedByNext
                    <6> QED BY <5>1, <6>2, <6>3
                <5> QED BY <5>2, <5>3
            <4> QED BY <4>1, <4>2
        <3>a. OnePurse'
            BY <2>1, <3>5, <3>8 DEF OnePurse
        <3>b. Carried' \in Nat
            <4>1. \/ Carriers' = {}
                  \/ \E i \in Carriers : Carriers' = {i} /\ i # hRsp
                BY <3>5, <3>8 DEF OnePurse
            <4>2. \A i \in Carriers : i # hRsp => rspRing'[i].grant \in Nat
                BY <1>t, <3>1 DEF Carriers, Types, MemTypes, Slot
            <4> QED BY <4>1, <4>2, CarriedByNext
        <3>c. lost' = {} => credits' + hCredits' + Cardinality(out') + InHand' + Carried' = InitCredits + 1
            BY <2>1, <3>2, <3>3, <3>5, <3>7, <3>9, <3>b, PurseTypes
        <3> QED BY <3>a, <3>c DEF PurseInv
    <2> QED BY <2>2, <2>3
<1> QED BY <1>1, <1>2, <1>3, <1>4, <1>5 DEF Host

(* worker() moves no credits of a port that runs.                          *)
LEMMA PurseWorker ==
    ASSUME TypeOK, HandInv, EpochInv, PurseInv, Worker
    PROVE  PurseInv'
<1>1. UNCHANGED <<hCredits, out>> /\ InHand' = InHand /\ (initStep' = 5 => initStep = 5)
    BY DEF Worker, WorkerWakes, WorkerTakesStep, WorkerStopsPolling, WorkerResets, ResetState,
        WorkerChains, WorkerTestsStep, WorkerClearsCommArea, WorkerPublishes, hostVars, pollVars,
        portVars, StateTransition, InHand
<1>2. UNCHANGED lost /\ (initStep = 5 => UNCHANGED <<rspRing, credits>>)
    BY DEF Worker, WorkerWakes, WorkerTakesStep, WorkerStopsPolling, WorkerResets, ResetState,
        WorkerChains, WorkerTestsStep, WorkerClearsCommArea, WorkerPublishes, memVars, servVars,
        EpochInv, Epochs, HandInv, WorkerInStep, ResetStates
<1>3. CASE initStep = 5
    BY <1>1, <1>2, <1>3, PurseStays
<1>4. CASE initStep # 5
    BY <1>1, <1>4 DEF PurseInv
<1> QED BY <1>3, <1>4

(* The polling thread moves the port's credits on, all of them.            *)
LEMMA PursePoll ==
    ASSUME TypeOK, HandInv, EpochInv, InFlight, PurseInv, Poll
    PROVE  PurseInv'
<1>t. Types
    BY TypeParts
<1>s. SUFFICES ASSUME initStep' = 5 PROVE PurseInv'
    BY DEF PurseInv
<1>i. initStep = 5 /\ UNCHANGED <<hCredits, out>> /\ pollState # "InitRestart"
    BY <1>s, PollAwake DEF hostVars, EpochInv, Epochs
<1>p. OnePurse /\ (lost = {} => credits + hCredits + Cardinality(out) + InHand + Carried = InitCredits + 1)
    BY <1>i DEF PurseInv
<1>f. Found
    BY <1>i DEF EpochInv, Epochs, InFlight
<1>1. CASE PollWakes \/ PollFetches \/ PollTakesCommand \/ PollNotifies \/ PollLingers \/ PollEndsPass
    <2>1. /\ UNCHANGED <<rspRing, credits, lost>>
          /\ ppc \notin {"post", "repost", "message", "handback"}
          /\ ppc' \notin {"post", "repost", "message", "handback"}
        BY <1>1 DEF PollWakes, PollFetches, PollTakesCommand, PollNotifies, PollLingers, PollEndsPass, memVars, servVars
    <2>2. InHand' = InHand
        BY <2>1 DEF InHand
    <2> QED BY <1>i, <2>1, <2>2, PurseStays
<1>2. CASE PollPosts
    <2>1. /\ UNCHANGED <<rspRing, credits, grant, lost>>
          /\ ppc \in {"post", "repost"} /\ ppc' \in {"repost", "message"}
        BY <1>2, <1>i, <1>s DEF PollPosts, PortError, StateTransition, IsRunning, memVars, servVars
    <2>2. InHand' = InHand
        BY <2>1 DEF InHand
    <2> QED BY <1>i, <2>1, <2>2, PurseStays
<1>3. CASE PollExecutes
    <2>1. ppc = "exec" /\ UNCHANGED <<rspRing, lost>>
        BY <1>3 DEF PollExecutes, memVars
    <2>2. CASE ppc' = "post" /\ grant' = credits /\ credits' = 0
        <3>1. InHand = 0 /\ InHand' = credits
            BY <2>1, <2>2 DEF InHand
        <3>2. Carriers' = Carriers /\ Carried' = Carried
            BY <2>1 DEF Carriers, Carried
        <3>3. OnePurse'
            BY <1>p, <2>2, <3>1, <3>2 DEF OnePurse
        <3>4. lost' = {} => credits' + hCredits' + Cardinality(out') + InHand' + Carried' = InitCredits + 1
            BY <1>i, <1>p, <2>1, <2>2, <3>1, <3>2, PurseTypes
        <3> QED BY <3>3, <3>4 DEF PurseInv
    <2>3. CASE ppc' \in {"linger", "end"} /\ UNCHANGED credits
        <3>1. InHand' = InHand
            BY <2>1, <2>3 DEF InHand
        <3> QED BY <1>i, <2>1, <2>3, <3>1, PurseStays
    <2> QED BY <1>3, <2>2, <2>3 DEF PollExecutes
<1>4. CASE PollHandsBack /\ UNCHANGED <<lost, errors>>
    <2>1. ppc = "handback" /\ ppc' = "notify" /\ UNCHANGED <<credits, lost>>
        BY <1>4 DEF PollHandsBack, servVars
    <2>2. /\ ring.rspPtr \in RspSlots \ Responses /\ Responses' = Responses \cup {ring.rspPtr}
          /\ rspRing'[ring.rspPtr].grant = grant
          /\ \A i \in RspSlots \ {ring.rspPtr} : rspRing'[i] = rspRing[i]
        BY <1>t, <1>f, <1>4, SlotPosted
    <2>3. InHand = grant /\ InHand' = 0 /\ grant \in Nat
        BY <1>p, <2>1, PurseTypes DEF InHand
    <2>4. Carriers = {i \in Responses : rspRing[i].grant > 0} /\ Carriers' = {i \in Responses' : rspRing'[i].grant > 0}
        BY DEF Carriers, Responses
    <2>5. CASE grant > 0
        <3>1. Carriers = {} /\ credits = 0
            <4>1. Carriers = {}
                BY <1>p, <2>3, <2>5 DEF OnePurse
            <4>2. credits = 0
                BY <1>p, <2>3, <2>5, PurseTypes DEF OnePurse
            <4> QED BY <4>1, <4>2
        <3>2. Carriers' = {ring.rspPtr}
            BY <2>2, <2>4, <2>5, <3>1 DEF Responses
        <3>3. Carried = 0 /\ Carried' = grant
            BY <2>2, <3>1, <3>2, CarriedBy, CarriedByNext
        <3>4. OnePurse'
            BY <2>1, <2>3, <3>1, <3>2 DEF OnePurse
        <3>5. lost' = {} => credits' + hCredits' + Cardinality(out') + InHand' + Carried' = InitCredits + 1
            BY <1>i, <1>p, <2>1, <2>3, <3>3, PurseTypes
        <3> QED BY <3>4, <3>5 DEF PurseInv
    <2>6. CASE grant = 0
        <3>1. Carriers' = Carriers
            BY <2>2, <2>4, <2>6 DEF Responses
        <3>2. Carried' = Carried
            <4>1. CASE Carriers = {}
                BY <3>1, <4>1, CarriedBy, CarriedByNext
            <4>2. CASE Carriers # {}
                <5>1. PICK i \in Carriers : Carriers = {i}
                    BY <1>p, <4>2 DEF OnePurse
                <5>2. i \in RspSlots \ {ring.rspPtr}
                    BY <2>2, <2>4 DEF Responses
                <5> QED BY <2>2, <3>1, <5>1, <5>2, CarriedBy, CarriedByNext
            <4> QED BY <4>1, <4>2
        <3>3. OnePurse'
            BY <1>p, <2>1, <2>3, <3>1 DEF OnePurse
        <3>4. lost' = {} => credits' + hCredits' + Cardinality(out') + InHand' + Carried' = InitCredits + 1
            BY <1>i, <1>p, <2>1, <2>3, <2>6, <3>2, PurseTypes
        <3> QED BY <3>3, <3>4 DEF PurseInv
    <2> QED BY <2>3, <2>5, <2>6
<1>5. CASE PollWritesMessage
    <2>1. /\ ppc = "message" /\ ppc' = "handback" /\ UNCHANGED <<rspRing, credits>>
          /\ UNCHANGED <<grant, lost>> \/ (grant' = 0 /\ lost' # {})
        BY <1>5 DEF PollWritesMessage, servVars
    <2>2. CASE UNCHANGED <<grant, lost>>
        <3>1. InHand' = InHand
            BY <2>1, <2>2 DEF InHand
        <3> QED BY <1>i, <2>1, <2>2, <3>1, PurseStays
    <2>3. CASE grant' = 0 /\ lost' # {}
        <3>1. InHand' = 0 /\ Carriers' = Carriers
            BY <2>1, <2>3 DEF InHand, Carriers
        <3> QED BY <1>p, <2>1, <2>3, <3>1 DEF PurseInv, OnePurse
    <2> QED BY <2>1, <2>2, <2>3
<1>6. CASE PollHandsBack /\ UNCHANGED rspRing /\ lost' # {}
    <2>1. ppc' = "notify" /\ UNCHANGED credits
        BY <1>6 DEF PollHandsBack, servVars
    <2>2. InHand' = 0 /\ Carriers' = Carriers
        BY <1>6, <2>1 DEF InHand, Carriers
    <2> QED BY <1>p, <1>6, <2>1, <2>2 DEF PurseInv, OnePurse
<1>7. PollHandsBack => UNCHANGED <<lost, errors>> \/ (UNCHANGED rspRing /\ lost' # {})
    BY DEF PollHandsBack
<1> QED BY <1>1, <1>2, <1>3, <1>4, <1>5, <1>6, <1>7 DEF Poll

(* Credits are neither lost nor made while the port runs and no write of a *)
(* response fails, however often it is initialised again: those _credits   *)
(* holds, the host's, one for each command under way and those in the one  *)
(* response that carries more than its own are INIT_CREDITS + 1.           *)
(* PollExecutes hands all of _credits to the first response: they always   *)
(* travel together, and are lost together if PostResponse(), which looks   *)
(* at neither result, fails to write the message or its descriptor.        *)
THEOREM CreditsKept ==
    ASSUME ~StaleStep1
    PROVE  Spec => []CreditsConserved
<1>1. Init => PurseInv
    BY DEF Init, PurseInv
<1>2. TypeOK /\ HandInv /\ EpochInv /\ InFlight /\ Missing /\ PurseInv /\ [Next]_vars => PurseInv'
    <2> SUFFICES ASSUME TypeOK, HandInv, EpochInv, InFlight, Missing, PurseInv, [Next]_vars PROVE PurseInv'
        OBVIOUS
    <2>1. CASE Next
        BY <2>1, PurseHost, PurseWorker, PursePoll DEF Next
    <2>2. CASE UNCHANGED vars
        <3>1. UNCHANGED <<rspRing, credits, hCredits, out, lost, initStep>> /\ InHand' = InHand
            BY <2>2 DEF vars, portVars, servVars, pollVars, memVars, hostVars, InHand
        <3> QED BY <3>1, PurseStays
    <2> QED BY <2>1, <2>2
<1>3. PurseInv => CreditsConserved
    BY DEF PurseInv, OnePurse, Carried, Carriers, InHand, CreditsConserved, IsRunning
<1>4. Spec => [](TypeOK /\ HandInv /\ EpochInv) /\ []InFlight
    BY EpochInductive, FlightInductive
<1>5. Spec => []Missing
    BY MissingInductive
<1> QED BY <1>1, <1>2, <1>3, <1>4, <1>5, PTL DEF Spec
=============================================================================
