------------------------------ MODULE MscpPort ------------------------------
(***************************************************************************)
(* The MSCP port (mscp_port.cpp) with its polling thread (mscp_server.cpp) *)
(* and a host driver: the four-step initialisation through IP and SA, the  *)
(* command and response rings in host memory, resets and port errors.      *)
(*                                                                         *)
(* Four actors: the host, whose register accesses the adapter's worker     *)
(* serves without being pre-empted (one step each); the port's worker(),   *)
(* which walks the initialisation; the polling thread; the bus (INIT).     *)
(* What a thread does between two waits, mutexes or DMA cycles is a step.  *)
(***************************************************************************)
EXTENDS Naturals, Sequences, FiniteSets

CONSTANTS
    CmdLen, RspLen,   \* ring lengths the host asks for in step 1
    InitCredits,      \* INIT_CREDITS
    Onlines,          \* the commands that are ONLINE; the others are transfers
    StaleStep1,       \* step 1 is published after, not with, the generation test
    BellsMislead,     \* the host trusts the port to poll also after a late doorbell
    LingerRounds,     \* bound: ring reads of LingerForNextCommand()
    MaxCmds,          \* bound: commands the host issues
    MaxResets,        \* bound: IP writes, INITs and diagnostic wraps
    MaxErrors         \* bound: DMA cycles that fail

ASSUME RingAssumption == CmdLen \in Nat \ {0} /\ RspLen \in Nat \ {0}
ASSUME PortAssumption ==
    /\ InitCredits \in Nat /\ Onlines \subseteq Nat /\ StaleStep1 \in BOOLEAN
    /\ BellsMislead \in BOOLEAN
    /\ LingerRounds \in Nat \ {0}
    /\ MaxCmds \in Nat /\ MaxResets \in Nat /\ MaxErrors \in Nat

VARIABLES
    initStep,    \* _initStep: 0 Uninitialized, 1 .. 4, 5 Complete
    nextStep,    \* _next_step: the worker has a step to run
    sa,          \* what the host reads in SA
    ring,        \* lengths, base, vector as the host gave them, and the pointers
    wpc, wStep,  \* where worker() is, and the step it took
    wCur,        \* the generation it took is still _stepGeneration
    pollState,   \* _pollState
    credits,     \* _credits
    onlineBy,    \* the command that brought the drive online, 0 when offline
    ppc,         \* where Poll() is
    msgs, cur,   \* commands fetched, and the one in hand
    grant,       \* credits the response in hand carries beyond its own
    worked,      \* msgCount > 0
    waited,      \* rounds lingered
    more,        \* moreWork
    cmdRing, rspRing, \* the rings in host memory
    irq,         \* the port's interrupt is pending
    lost,        \* ghost: response writes that failed since GO
    hpc, hStep,  \* host driver: what it does, the step it waits for
    scanning,    \* its interrupt service routine runs
    bell,        \* it still has to read IP for a command it handed over
    lateBell,    \* its last doorbell rang while the port polled, or for nothing
    hCmd, hRsp,  \* its ring pointers
    hCredits,    \* its credits
    out,         \* commands it has no response to
    issued,      \* commands issued so far
    base,        \* ghost: commands issued before the last initialisation
    resets, errors

portVars == <<initStep, nextStep, sa, ring>>
workVars == <<wpc, wStep, wCur>>
servVars == <<pollState, credits, onlineBy>>
pollVars == <<ppc, msgs, cur, grant, worked, waited, more>>
memVars  == <<cmdRing, rspRing, irq, lost>>
hostVars == <<hpc, hStep, scanning, bell, lateBell, hCmd, hRsp, hCredits, out, issued, base, resets>>
vars == <<portVars, workVars, servVars, pollVars, memVars, hostVars, errors>>

SaZero == 0      \* 1 .. 4 are the step bits
SaError == 5     \* PORT_ERROR with a code
SaEcho == 6      \* the value of a diagnostic wrap
Cmds == 1 .. MaxCmds
NoRing == [cmdLen |-> 0, rspLen |-> 0, ringBase |-> {}, vector |-> FALSE, cmdPtr |-> 0, rspPtr |-> 0]
CmdSlots == 0 .. CmdLen - 1
RspSlots == 0 .. RspLen - 1
PortSlot == [own |-> TRUE, msg |-> 0, grant |-> 0]
HostSlot == [own |-> FALSE, msg |-> 0, grant |-> 0]

Init ==
    /\ initStep = 0 /\ nextStep = FALSE /\ sa = SaZero /\ ring = NoRing
    /\ wpc = "wait" /\ wStep = 0 /\ wCur = FALSE
    /\ pollState = "Wait" /\ credits = InitCredits /\ onlineBy = 0
    /\ ppc = "sleep" /\ msgs = <<>> /\ cur = 0 /\ grant = 0
    /\ worked = FALSE /\ waited = 0 /\ more = FALSE
    /\ cmdRing = [i \in CmdSlots |-> HostSlot]
    /\ rspRing = [i \in RspSlots |-> HostSlot]
    /\ irq = FALSE /\ lost = {}
    /\ hpc = "start" /\ hStep = 1 /\ scanning = FALSE /\ bell = FALSE
    /\ lateBell = FALSE
    /\ hCmd = 0 /\ hRsp = 0 /\ hCredits = 1 /\ out = {} /\ issued = 0 /\ base = 0
    /\ resets = 0 /\ errors = 0

-----------------------------------------------------------------------------
StateTransition(step) ==
    /\ initStep' = step
    /\ nextStep' = TRUE
    /\ wCur' = FALSE       \* _stepGeneration++

IsRunning == initStep = 5
PortError ==
    /\ sa' = SaError
    /\ StateTransition(0)

(* The port can interrupt: initialised and given a vector. (Hosts modelled *)
(* here poll SA during initialisation: interrupt enable is off.)           *)
Interrupts == IsRunning /\ ring.vector

(* A bus cycle of the port fails.                                          *)
DmaFails ==
    /\ errors < MaxErrors
    /\ errors' = errors + 1

(* mscp_server_base::InitPolling()                                         *)
InitPolling == pollState' = "InitRun"

-----------------------------------------------------------------------------
(* The host: register accesses, handled by on_after_register_access().     *)

HostForgets ==
    /\ resets < MaxResets
    /\ resets' = resets + 1
    /\ scanning' = FALSE /\ bell' = FALSE /\ lateBell' = FALSE
    /\ hCmd' = 0 /\ hRsp' = 0 /\ hCredits' = 1 /\ out' = {} /\ base' = issued
    /\ UNCHANGED issued

HostWritesIP ==
    /\ HostForgets
    /\ hpc' = "init" /\ hStep' = 1
    /\ sa' = SaZero
    /\ StateTransition(0)
    /\ UNCHANGED <<ring, wpc, wStep, servVars, pollVars, memVars, errors>>

(* INIT or power-up: on_init_changed() or on_power_changed() of the port   *)
(* and of its drives. The host starts over.                                *)
BusReset ==
    /\ HostForgets
    /\ hpc' = "start" /\ hStep' = 1
    /\ StateTransition(0)
    /\ onlineBy' = 0
    /\ irq' = FALSE
    /\ UNCHANGED <<sa, ring, wpc, wStep, pollState, credits, pollVars, cmdRing, rspRing, lost, errors>>

(* SA written in diagnostic wrap mode: echoed, the port stays in its step. *)
HostWraps ==
    /\ hpc = "init" /\ hStep = 1 /\ sa = 1
    /\ initStep \in {0, 1}
    /\ HostForgets
    /\ sa' = SaEcho
    /\ hpc' = "start" /\ hStep' = 1
    /\ UNCHANGED <<initStep, nextStep, ring, workVars, servVars, pollVars, memVars, errors>>

(* What a write to SA does to the port, by the step the port is in. In     *)
(* step 4 a write without GO changes nothing: a stuttering step.           *)
SaWrite ==
    \/ /\ initStep \in {0, 1}
       /\ ring' = [ring EXCEPT !.cmdLen = CmdLen, !.rspLen = RspLen, !.vector = TRUE]
       /\ StateTransition(2)
       /\ UNCHANGED sa
    \/ /\ initStep = 2
       /\ ring' = [ring EXCEPT !.ringBase = {"low"}]
       /\ StateTransition(3)
       /\ UNCHANGED sa
    \/ /\ initStep = 3
       /\ ring' = [ring EXCEPT !.ringBase = @ \union {"high"}]
       /\ StateTransition(4)
       /\ UNCHANGED sa
    \/ /\ initStep = 4
       /\ StateTransition(5)
       /\ sa' = SaZero
       /\ UNCHANGED ring
    \/ /\ initStep = 5
       /\ UNCHANGED <<portVars, wCur>>

(* The host reads the step it waits for in SA and answers it. Before GO it *)
(* sets up its rings: all response slots the port's, no command pending.   *)
HostAnswersStep ==
    /\ hpc = "init" /\ sa = hStep
    /\ SaWrite
    /\ IF hStep < 4
       THEN hStep' = hStep + 1 /\ UNCHANGED <<hpc, cmdRing, rspRing, lost>>
       ELSE /\ hpc' = "run" /\ UNCHANGED hStep /\ lost' = {}
            /\ cmdRing' = [i \in CmdSlots |-> HostSlot]
            /\ rspRing' = [i \in RspSlots |-> PortSlot]
    /\ UNCHANGED <<wpc, wStep, servVars, pollVars, irq, scanning, bell, lateBell,
                   hCmd, hRsp, hCredits, out, issued, base, resets, errors>>

(* A response the host waits for is not in the ring yet.                   *)
Unanswered == \E id \in out : \A i \in RspSlots : rspRing[i].own \/ rspRing[i].msg # id

(* The host takes the port to be polling: it has not answered an earlier   *)
(* command, or the host is just reading an answer: "as far as it is        *)
(* concerned the controller is still polling" (mscp_server.cpp:443).       *)
TakenForPolling ==
    \/ Unanswered
    \/ /\ out # {} \/ (scanning /\ issued > base)
       /\ lateBell => BellsMislead

(* The host hands a command over. It rings the doorbell unless it takes    *)
(* the port to be polling.                                                 *)
HostSubmits ==
    LET id == issued + 1 IN
    /\ hpc = "run" /\ issued < MaxCmds /\ hCredits > 0 /\ ~cmdRing[hCmd].own
    /\ cmdRing' = [cmdRing EXCEPT ![hCmd] = [PortSlot EXCEPT !.msg = id]]
    /\ bell' \in IF TakenForPolling THEN {TRUE, bell} ELSE {TRUE}
    /\ issued' = id
    /\ out' = out \union {id}
    /\ hCmd' = (hCmd + 1) % CmdLen
    /\ hCredits' = hCredits - 1
    /\ UNCHANGED <<portVars, workVars, servVars, pollVars, rspRing, irq, lost, hpc, hStep, scanning,
                   lateBell, hRsp, base, resets, errors>>

(* IP read: starts polling if the port is operating.                       *)
HostRings ==
    /\ hpc = "run" /\ bell
    /\ bell' = FALSE
    /\ lateBell' = (pollState # "Wait" \/ ~cmdRing[ring.cmdPtr].own)
    /\ IF IsRunning THEN InitPolling ELSE UNCHANGED pollState
    /\ UNCHANGED <<portVars, workVars, credits, onlineBy, pollVars, memVars, hpc, hStep, scanning,
                   hCmd, hRsp, hCredits, out, issued, base, resets, errors>>

(* The host's service routine: taken, it scans the response ring until it  *)
(* finds a slot of the port, then sleeps till the next interrupt. A buffer *)
(* it returns to the port it has cleared: message 0, no response.          *)
HostTakesInterrupt ==
    /\ hpc = "run" /\ irq /\ ~scanning
    /\ irq' = FALSE /\ scanning' = TRUE
    /\ UNCHANGED <<portVars, workVars, servVars, pollVars, cmdRing, rspRing, lost, hpc, hStep, bell,
                   lateBell, hCmd, hRsp, hCredits, out, issued, base, resets, errors>>

HostScans ==
    /\ hpc = "run" /\ scanning
    /\ IF rspRing[hRsp].own
       THEN scanning' = FALSE /\ UNCHANGED <<rspRing, hRsp, hCredits, out>>
       ELSE /\ out' = out \ {rspRing[hRsp].msg}
            /\ hCredits' = IF rspRing[hRsp].msg = 0 THEN hCredits ELSE hCredits + 1 + rspRing[hRsp].grant
            /\ rspRing' = [rspRing EXCEPT ![hRsp] = PortSlot]
            /\ hRsp' = (hRsp + 1) % RspLen
            /\ UNCHANGED scanning
    /\ UNCHANGED <<portVars, workVars, servVars, pollVars, cmdRing, irq, lost, hpc, hStep, bell,
                   lateBell, hCmd, issued, base, resets, errors>>

(* The host is reading responses or about to answer one with a command.    *)
HostAnswering == irq \/ scanning

Host == HostWritesIP \/ HostWraps \/ HostAnswersStep \/ HostSubmits \/ HostRings
        \/ HostTakesInterrupt \/ HostScans

-----------------------------------------------------------------------------
(* worker(): the initialisation state machine of the port.                 *)

WorkerWakes ==
    /\ wpc = "wait" /\ nextStep
    /\ nextStep' = FALSE
    /\ wpc' = "take"
    /\ UNCHANGED <<initStep, sa, ring, wStep, wCur, servVars, pollVars, memVars, hostVars, errors>>

(* TakeStep(), and for Uninitialized the clearing of SA.                   *)
WorkerTakesStep ==
    /\ wpc = "take"
    /\ wStep' = initStep
    /\ wCur' = TRUE
    /\ \/ initStep = 0 /\ wpc' = "reset" /\ sa' = SaZero
       \/ initStep \in 1 .. 4 /\ wpc' = "pause" /\ UNCHANGED sa
       \/ initStep = 5 /\ wpc' = "wait" /\ UNCHANGED sa
    /\ UNCHANGED <<initStep, nextStep, ring, servVars, pollVars, memVars, hostVars, errors>>

WorkerStopsPolling_NoHandshake == \* mutant
    /\ wpc = "reset"
    /\ pollState' = "Wait"
    /\ wpc' = "parking"
    /\ UNCHANGED <<portVars, wStep, wCur, credits, onlineBy, pollVars, memVars, hostVars, errors>>

(* mscp_server_base::Reset() tells a polling thread that is not asleep to  *)
(* give up, and waits for it.                                              *)
WorkerStopsPolling ==
    /\ wpc = "reset"
    /\ pollState' = IF pollState = "Wait" THEN "Wait" ELSE "InitRestart"
    /\ wpc' = "parking"
    /\ UNCHANGED <<portVars, wStep, wCur, credits, onlineBy, pollVars, memVars, hostVars, errors>>

(* The rest of both Reset()s: credits, drives, rings.                      *)
ResetState(asleep, newCredits, drive, newRing) ==
    /\ wpc = "parking" /\ asleep
    /\ credits' = newCredits
    /\ onlineBy' = drive
    /\ ring' = newRing
    /\ wpc' = "chain"
    /\ UNCHANGED <<initStep, nextStep, sa, wStep, wCur, pollState, pollVars, memVars, hostVars, errors>>

WorkerResets_NoWait == ResetState(TRUE, InitCredits, 0, NoRing)                        \* mutant
WorkerResets_KeepRspPtr ==                                                             \* mutant
    ResetState(pollState = "Wait", InitCredits, 0, [NoRing EXCEPT !.rspPtr = ring.rspPtr])
WorkerResets_KeepCredits == ResetState(pollState = "Wait", credits, 0, NoRing)         \* mutant
WorkerResets_KeepDrives == ResetState(pollState = "Wait", InitCredits, onlineBy, NoRing) \* mutant

WorkerResets == ResetState(pollState = "Wait", InitCredits, 0, NoRing)

(* ChainTransition() to step 1, unless another request came meanwhile.     *)
WorkerChains ==
    /\ wpc = "chain"
    /\ wpc' = "wait"
    /\ IF wCur THEN StateTransition(1) ELSE UNCHANGED <<initStep, nextStep, wCur>>
    /\ UNCHANGED <<sa, ring, wStep, servVars, pollVars, memVars, hostVars, errors>>

WorkerTestsStep_NoTest ==    \* mutant
    /\ wpc = "pause"
    /\ IF wStep = 1 /\ ~StaleStep1 THEN wpc' = "wait" /\ sa' = 1
       ELSE wpc' = (IF wStep = 4 THEN "comm" ELSE "publish") /\ UNCHANGED sa
    /\ UNCHANGED <<initStep, nextStep, ring, wStep, wCur, servVars, pollVars, memVars, hostVars, errors>>

(* StepCurrent() after the wait of a step; a step that was left is not     *)
(* published.                                                              *)
WorkerTestsStep ==
    /\ wpc = "pause"
    /\ IF ~wCur THEN wpc' = "wait" /\ UNCHANGED sa
       ELSE IF wStep = 1 /\ ~StaleStep1 THEN wpc' = "wait" /\ sa' = 1
       ELSE wpc' = (IF wStep = 4 THEN "comm" ELSE "publish") /\ UNCHANGED sa
    /\ UNCHANGED <<initStep, nextStep, ring, wStep, wCur, servVars, pollVars, memVars, hostVars, errors>>

(* Step 4 writes the communications area; a failure is not looked at.      *)
WorkerClearsCommArea ==
    /\ wpc = "comm"
    /\ wpc' = "publish"
    /\ \/ /\ cmdRing' = [i \in CmdSlots |-> HostSlot]
          /\ rspRing' = [i \in RspSlots |-> PortSlot]
          /\ UNCHANGED errors
       \/ DmaFails /\ UNCHANGED <<cmdRing, rspRing>>
    /\ UNCHANGED <<portVars, wStep, wCur, servVars, pollVars, irq, lost, hostVars>>

WorkerPublishes ==
    /\ wpc = "publish"
    /\ wpc' = "wait"
    /\ sa' = wStep
    /\ UNCHANGED <<initStep, nextStep, ring, wStep, wCur, servVars, pollVars, memVars, hostVars, errors>>

Worker == WorkerWakes \/ WorkerTakesStep \/ WorkerStopsPolling \/ WorkerResets \/ WorkerChains
          \/ WorkerTestsStep \/ WorkerClearsCommArea \/ WorkerPublishes

-----------------------------------------------------------------------------
(* Poll(): the polling thread.                                             *)

PollWakes ==
    /\ ppc = "sleep" /\ pollState # "Wait"
    /\ pollState' = IF pollState = "InitRun" THEN "Run" ELSE pollState
    /\ ppc' = "fetch" /\ msgs' = <<>> /\ worked' = FALSE
    /\ UNCHANGED <<portVars, workVars, credits, onlineBy, cur, grant, waited, more, memVars, hostVars, errors>>

(* GetNextCommand(): the descriptor at the ring pointer, and its message.  *)
PollFetches ==
    /\ ppc = "fetch"
    /\ \/ /\ \/ pollState = "InitRestart"
             \/ ~cmdRing[ring.cmdPtr].own
          /\ ppc' = "exec"
          /\ UNCHANGED <<portVars, workVars, msgs, cur, errors>>
       \/ /\ pollState # "InitRestart" /\ cmdRing[ring.cmdPtr].own
          /\ cur' = cmdRing[ring.cmdPtr].msg
          /\ ppc' = "take"
          /\ UNCHANGED <<portVars, workVars, msgs, errors>>
       \/ /\ pollState # "InitRestart" /\ DmaFails
          /\ PortError
          /\ msgs' = <<>> /\ ppc' = "exec"
          /\ UNCHANGED <<ring, wpc, wStep, cur>>
    /\ UNCHANGED <<servVars, grant, worked, waited, more, memVars, hostVars>>

(* ... the descriptor handed back, the pointer moved on, the host told.    *)
PollTakesCommand ==
    /\ ppc = "take"
    /\ \/ /\ cmdRing' = [cmdRing EXCEPT ![ring.cmdPtr].own = FALSE]
          /\ ring' = [ring EXCEPT !.cmdPtr = IF ring.cmdLen = 0 THEN 0 ELSE (@ + 1) % ring.cmdLen]
          /\ irq' = (irq \/ Interrupts)
          /\ msgs' = Append(msgs, cur) /\ worked' = TRUE /\ ppc' = "fetch"
          /\ UNCHANGED <<initStep, nextStep, sa, workVars, errors>>
       \/ /\ DmaFails
          /\ PortError
          /\ msgs' = <<>> /\ ppc' = "exec"
          /\ UNCHANGED <<ring, wpc, wStep, worked, cmdRing, irq>>
    /\ UNCHANGED <<servVars, cur, grant, waited, more, rspRing, lost, hostVars>>

(* The next command of the queue is executed, or the pass is over.         *)
PollExecutes ==
    /\ ppc = "exec"
    /\ IF msgs # <<>> /\ pollState # "InitRestart"
       THEN /\ cur' = Head(msgs) /\ msgs' = Tail(msgs)
            /\ onlineBy' = IF Head(msgs) \in Onlines THEN Head(msgs) ELSE onlineBy
            /\ grant' = credits /\ credits' = 0
            /\ ppc' = "post"
            /\ UNCHANGED <<waited, more>>
       ELSE /\ ppc' = IF worked THEN "linger" ELSE "end"
            /\ waited' = 0 /\ more' = FALSE
            /\ UNCHANGED <<cur, msgs, onlineBy, grant, credits>>
    /\ UNCHANGED <<portVars, workVars, pollState, worked, memVars, hostVars, errors>>

PollPosts_HoldsOn ==         \* mutant
    /\ ppc \in {"post", "repost"}
    /\ \/ /\ ppc = "repost" /\ FALSE
          /\ ppc' = "exec"
          /\ UNCHANGED <<portVars, workVars, errors>>
       \/ /\ ppc = "post" \/ TRUE
          /\ \/ /\ ppc' = IF rspRing[ring.rspPtr].own THEN "message" ELSE "repost"
                /\ UNCHANGED <<portVars, workVars, errors>>
             \/ /\ DmaFails
                /\ PortError
                /\ ppc' = "exec"
                /\ UNCHANGED <<ring, wpc, wStep>>
    /\ UNCHANGED <<servVars, msgs, cur, grant, worked, waited, more, memVars, hostVars>>

(* PostResponse(): the response descriptor read. While the ring is full it *)
(* is tried again, until the port stops running or is being reset.         *)
PollPosts ==
    /\ ppc \in {"post", "repost"}
    /\ \/ /\ ppc = "repost" /\ (pollState = "InitRestart" \/ ~IsRunning)
          /\ ppc' = "exec"
          /\ UNCHANGED <<portVars, workVars, errors>>
       \/ /\ ppc = "post" \/ (pollState # "InitRestart" /\ IsRunning)
          /\ \/ /\ ppc' = IF rspRing[ring.rspPtr].own THEN "message" ELSE "repost"
                /\ UNCHANGED <<portVars, workVars, errors>>
             \/ /\ DmaFails
                /\ PortError
                /\ ppc' = "exec"
                /\ UNCHANGED <<ring, wpc, wStep>>
    /\ UNCHANGED <<servVars, msgs, cur, grant, worked, waited, more, memVars, hostVars>>

(* ... the message written. The result is not looked at: if the write is   *)
(* lost the buffer holds no response, and the credits in it are gone.      *)
PollWritesMessage ==
    /\ ppc = "message"
    /\ ppc' = "handback"
    /\ \/ UNCHANGED <<cur, grant, lost, errors>>
       \/ /\ DmaFails
          /\ cur' = 0 /\ grant' = 0
          /\ lost' = lost \union {"message"}
    /\ UNCHANGED <<portVars, workVars, servVars, msgs, worked, waited, more, cmdRing, rspRing, irq, hostVars>>

(* ... the descriptor written, and again the result is not looked at.      *)
PollHandsBack ==
    /\ ppc = "handback"
    /\ ppc' = "notify"
    /\ \/ /\ rspRing' = [rspRing EXCEPT ![ring.rspPtr] = [own |-> FALSE, msg |-> cur, grant |-> grant]]
          /\ UNCHANGED <<lost, errors>>
       \/ /\ DmaFails
          /\ lost' = lost \union {"slot"}
          /\ UNCHANGED rspRing
    /\ UNCHANGED <<portVars, workVars, servVars, msgs, cur, grant, worked, waited, more, cmdRing, irq, hostVars>>

PollNotifies_NoWrap ==       \* mutant
    /\ ppc = "notify"
    /\ ppc' = "exec"
    /\ irq' = (irq \/ Interrupts)
    /\ ring' = [ring EXCEPT !.rspPtr = @ + 1]
    /\ cur' = 0 /\ grant' = 0
    /\ UNCHANGED <<initStep, nextStep, sa, workVars, servVars, msgs, worked, waited, more,
                   cmdRing, rspRing, lost, hostVars, errors>>

(* ... then, and only then, the interrupt, and the pointer.                *)
PollNotifies ==
    /\ ppc = "notify"
    /\ ppc' = "exec"
    /\ irq' = (irq \/ Interrupts)
    /\ ring' = [ring EXCEPT !.rspPtr = IF ring.rspLen = 0 THEN 0 ELSE (@ + 1) % ring.rspLen]
    /\ cur' = 0 /\ grant' = 0
    /\ UNCHANGED <<initStep, nextStep, sa, workVars, servVars, msgs, worked, waited, more,
                   cmdRing, rspRing, lost, hostVars, errors>>

(* LingerForNextCommand() with CommandPending(). The window is long enough *)
(* for a host that is answering: the rounds count when it is done.         *)
PollLingers ==
    /\ ppc = "linger"
    /\ \/ /\ pollState # "Run" \/ waited = LingerRounds
          /\ ppc' = "end"
          /\ UNCHANGED <<portVars, workVars, more, waited, errors>>
       \/ /\ pollState = "Run" /\ waited < LingerRounds
          /\ \/ /\ ring.ringBase # {} /\ IsRunning /\ cmdRing[ring.cmdPtr].own
                /\ more' = TRUE /\ ppc' = "end"
                /\ UNCHANGED <<portVars, workVars, waited, errors>>
             \/ /\ ring.ringBase = {} \/ ~IsRunning \/ ~cmdRing[ring.cmdPtr].own
                /\ ~HostAnswering
                /\ waited' = waited + 1
                /\ UNCHANGED <<portVars, workVars, ppc, more, errors>>
             \/ /\ ring.ringBase # {} /\ IsRunning /\ DmaFails
                /\ PortError
                /\ waited' = waited + 1
                /\ UNCHANGED <<ring, wpc, wStep, ppc, more>>
    /\ UNCHANGED <<servVars, msgs, cur, grant, worked, memVars, hostVars>>

PollEndsPass_StopsLooking == \* mutant
    /\ ppc = "end"
    /\ ppc' = "sleep"
    /\ pollState' = IF pollState = "InitRun" THEN "Run" ELSE "Wait"
    /\ msgs' = <<>> /\ cur' = 0 /\ grant' = 0 /\ worked' = FALSE /\ waited' = 0 /\ more' = FALSE
    /\ UNCHANGED <<portVars, workVars, credits, onlineBy, memVars, hostVars, errors>>

(* The end of a pass, under polling_mutex.                                 *)
PollEndsPass ==
    /\ ppc = "end"
    /\ ppc' = "sleep"
    /\ pollState' = IF pollState = "InitRestart" THEN "Wait"
                    ELSE IF pollState = "InitRun" \/ more THEN "Run"
                    ELSE "Wait"
    /\ msgs' = <<>> /\ cur' = 0 /\ grant' = 0 /\ worked' = FALSE /\ waited' = 0 /\ more' = FALSE
    /\ UNCHANGED <<portVars, workVars, credits, onlineBy, memVars, hostVars, errors>>

Poll == PollWakes \/ PollFetches \/ PollTakesCommand \/ PollExecutes \/ PollPosts
        \/ PollWritesMessage \/ PollHandsBack \/ PollNotifies \/ PollLingers \/ PollEndsPass

Next == Host \/ BusReset \/ Worker \/ Poll

(* worker() and Poll() are real time threads that only wait for each other *)
(* or for the host; a host in its initialisation or its service routine    *)
(* goes on, and rings when it owes it.                                     *)
Fairness ==
    /\ WF_vars(Worker) /\ WF_vars(Poll)
    /\ WF_vars(HostAnswersStep) /\ WF_vars(HostRings)
    /\ WF_vars(HostTakesInterrupt) /\ WF_vars(HostScans)

Spec == Init /\ [][Next]_vars /\ Fairness

-----------------------------------------------------------------------------
Slot == [own : BOOLEAN, msg : 0 .. MaxCmds, grant : Nat]

(* Types.                                                                  *)
TypeOK ==
    /\ initStep \in 0 .. 5 /\ nextStep \in BOOLEAN /\ sa \in 0 .. 6
    /\ ring \in [cmdLen : {0, CmdLen}, rspLen : {0, RspLen}, ringBase : SUBSET {"low", "high"},
                 vector : BOOLEAN, cmdPtr : CmdSlots, rspPtr : RspSlots]
    /\ wpc \in {"wait", "take", "reset", "parking", "chain", "pause", "comm", "publish"}
    /\ wStep \in 0 .. 5 /\ wCur \in BOOLEAN
    /\ pollState \in {"Wait", "Run", "InitRun", "InitRestart"}
    /\ credits \in Nat /\ onlineBy \in 0 .. MaxCmds
    /\ ppc \in {"sleep", "fetch", "take", "exec", "post", "repost", "message", "handback",
               "notify", "linger", "end"}
    /\ msgs \in Seq(0 .. MaxCmds) /\ cur \in 0 .. MaxCmds /\ grant \in Nat
    /\ worked \in BOOLEAN /\ waited \in 0 .. LingerRounds /\ more \in BOOLEAN
    /\ cmdRing \in [CmdSlots -> Slot] /\ rspRing \in [RspSlots -> Slot]
    /\ irq \in BOOLEAN /\ lost \subseteq {"message", "slot"}
    /\ hpc \in {"start", "init", "run"} /\ hStep \in 1 .. 4
    /\ scanning \in BOOLEAN /\ bell \in BOOLEAN /\ lateBell \in BOOLEAN
    /\ hCmd \in CmdSlots /\ hRsp \in RspSlots /\ hCredits \in Nat
    /\ out \subseteq Cmds /\ issued \in 0 .. MaxCmds /\ base \in 0 .. MaxCmds
    /\ resets \in 0 .. MaxResets /\ errors \in 0 .. MaxErrors

(* "A host that resets the port during that wait must not then be told the *)
(* port reached the step it was leaving" (mscp_port.cpp:155): when a host  *)
(* finds the step it waits for in SA, the port is in that step.            *)
NotToldStaleStep == hpc = "init" /\ sa = hStep => initStep = hStep

(* The port has one dma_request_c for worker() and for the polling thread: *)
(* while the initialisation runs, and while it writes the communications   *)
(* area, the polling thread is asleep and has nothing to wake for.         *)
ParkedDuringInit ==
    initStep \in 1 .. 4 \/ wpc = "comm" => ppc = "sleep" /\ pollState = "Wait"

(* A host that runs finds only responses to its own commands in the ring,  *)
(* one to each: whatever the polling thread had in hand when the host      *)
(* initialised the port again, none of it arrives in the new rings. A      *)
(* buffer without a response is one whose message was lost.                *)
ResponsesWanted ==
    hpc = "run" =>
      \A i, j \in RspSlots : ~rspRing[i].own =>
        IF rspRing[i].msg = 0 THEN "message" \in lost
        ELSE /\ rspRing[i].msg \in out
             /\ ~rspRing[j].own /\ rspRing[i].msg = rspRing[j].msg => i = j

(* The ring pointers of port and host stay in step, through resets at any  *)
(* moment: the port looks for the next command where the host puts it, and *)
(* the host for the next response where the port puts it, as long as every *)
(* descriptor the port wrote since GO has arrived.                         *)
RingsInStep ==
    LET commands  == {i \in CmdSlots : cmdRing[i].own}
        responses == {i \in RspSlots : ~rspRing[i].own}
        posting   == IF ppc = "notify" THEN 1 ELSE 0
    IN hpc = "run" /\ IsRunning =>
         /\ ring.cmdLen = CmdLen /\ ring.rspLen = RspLen
         /\ ring.ringBase = {"low", "high"} /\ ring.vector
         /\ hCmd = (ring.cmdPtr + Cardinality(commands)) % CmdLen
         /\ commands # {} => ring.cmdPtr \in commands
         /\ "slot" \notin lost =>
              /\ responses # {} => hRsp \in responses
              /\ (hRsp + Cardinality(responses)) % RspLen = (ring.rspPtr + posting) % RspLen

(* Credits are neither lost nor made as long as every write of a response  *)
(* has arrived: those the port still has to give, those of the host, one   *)
(* for each command under way and those on their way to the host are what  *)
(* the initialisation set out with. They travel together: at most one      *)
(* response carries any beyond its own.                                    *)
CreditsConserved ==
    LET carriers == {i \in RspSlots : ~rspRing[i].own /\ rspRing[i].grant > 0}
        carried  == IF carriers = {} THEN 0 ELSE rspRing[CHOOSE i \in carriers : TRUE].grant
        inHand   == IF ppc \in {"post", "repost", "message", "handback"} THEN grant ELSE 0
    IN hpc = "run" /\ IsRunning =>
         /\ \A i, j \in carriers : i = j
         /\ lost = {} => credits + hCredits + Cardinality(out) + inHand + carried = InitCredits + 1

(* After a reset the drive is online only by a command of the host that    *)
(* initialised the port since: an ONLINE the polling thread was executing  *)
(* when the reset came does not survive it.                                *)
OnlineByThisHost == initStep \in 1 .. 5 /\ onlineBy # 0 => onlineBy > base

(* Every initialisation a host starts gets through, and every reset ends,  *)
(* whatever the polling thread is waiting for.                             *)
InitCompletes == hpc = "init" ~> hpc # "init"

(* Every command is answered and the host notices, unless the port stops   *)
(* or a response write was lost: no doorbell, no command handed over       *)
(* without one to a port that polls or lingers, and no response interrupt  *)
(* is lost. (MaxCmds being finite, the host runs out of open commands only *)
(* if each one is answered.)                                               *)
CommandAnswered == out # {} ~> (out = {} \/ ~IsRunning \/ lost # {})
=============================================================================
