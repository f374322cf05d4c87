--------------------------- MODULE MscpPortProofs ---------------------------
(***************************************************************************)
(* The initialisation handshake of the MSCP port, for rings of any length, *)
(* any number of commands, resets, wraps and failing bus cycles: a host is *)
(* never told a step that the port is not in, and the polling thread       *)
(* sleeps while the port initialises.                                      *)
(***************************************************************************)
EXTENDS MscpPort, TLAPS

StepStates == {"pause", "comm", "publish"}
ResetStates == {"reset", "parking", "chain"}

HandTypes ==
    /\ initStep \in 0 .. 5 /\ wStep \in 0 .. 5 /\ hStep \in 1 .. 4 /\ sa \in 0 .. 6
    /\ wpc \in {"wait", "take"} \cup StepStates \cup ResetStates

(* Host and port are at the same step, or the port is Uninitialized.       *)
HostInStep ==
    hpc = "init" => \/ initStep = 0 /\ hStep = 1
                    \/ initStep \in 1 .. 4 /\ hStep = initStep

(* The step the port is in is not in SA before worker() has published it,  *)
(* and no later one ever is.                                               *)
Unpublished == nextStep \/ wpc = "take" \/ (wpc \in StepStates /\ wCur)
NotAhead ==
    initStep \in 1 .. 4 => sa \notin (initStep + (IF Unpublished THEN 0 ELSE 1)) .. 4

(* What worker() knows, by the step it runs.                               *)
WorkerInStep ==
    /\ wpc = "take" /\ nextStep => initStep = 0
    /\ wpc \in StepStates => wStep \in 1 .. 4
    /\ wpc \in StepStates /\ wCur => wStep = initStep /\ ~nextStep
    /\ wpc \in StepStates /\ ~wCur => initStep = 0
    /\ wpc \in {"comm", "publish"} => wStep \in 2 .. 4
    /\ wpc \in ResetStates => initStep = 0 /\ sa \notin 1 .. 4

(* The polling thread sleeps when it has nothing to do, and has nothing to *)
(* do while worker() runs a step.                                          *)
PollParked ==
    /\ pollState = "Wait" => ppc = "sleep"
    /\ initStep \in 1 .. 4 \/ wpc \in StepStates \cup {"chain"} => pollState = "Wait"

HandInv ==
    /\ HandTypes /\ HostInStep /\ NotAhead /\ WorkerInStep /\ PollParked
    /\ NotToldStaleStep

(* The variables the argument looks at, in groups by who changes them.     *)
stepVars == <<initStep, nextStep, sa, wCur>>
handVars == <<stepVars, wpc, wStep, pollState, ppc, hpc, hStep>>

-----------------------------------------------------------------------------
(* A step that leaves these variables alone leaves the invariant alone.    *)
LEMMA HandStutters ==
    ASSUME HandInv, UNCHANGED handVars
    PROVE  HandInv'
BY DEF HandInv, HandTypes, HostInStep, Unpublished, NotAhead, WorkerInStep, PollParked,
       NotToldStaleStep, StepStates, ResetStates, handVars, stepVars

(* A port error: only the polling thread meets one, it is awake, so that   *)
(* no step of the initialisation is under way.                             *)
LEMMA HandFails ==
    ASSUME HandInv, PortError, ppc # "sleep", ppc' # "sleep",
           UNCHANGED <<wpc, wStep, pollState, hpc, hStep>>
    PROVE  HandInv'
<1>1. pollState # "Wait" /\ initStep \in {0, 5} /\ wpc \notin StepStates \cup {"chain"}
  BY DEF HandInv, HandTypes, PollParked, StepStates
<1>2. initStep' = 0 /\ nextStep' = TRUE /\ wCur' = FALSE /\ sa' = 5
  BY DEF PortError, StateTransition, SaError
<1> QED
  BY <1>1, <1>2 DEF HandInv, HandTypes, HostInStep, Unpublished, NotAhead, WorkerInStep, PollParked,
         NotToldStaleStep, StepStates, ResetStates

(* What the polling thread does between waking and the end of a pass.      *)
LEMMA HandPolls ==
    ASSUME HandInv, ppc # "sleep", ppc' # "sleep", UNCHANGED <<stepVars, wpc, wStep, pollState, hpc, hStep>>
    PROVE  HandInv'
BY DEF HandInv, HandTypes, HostInStep, Unpublished, NotAhead, WorkerInStep, PollParked,
       NotToldStaleStep, StepStates, ResetStates, stepVars

-----------------------------------------------------------------------------
(* The host's actions keep the invariant.                                  *)
LEMMA HandHost ==
    ASSUME HandInv, Host \/ BusReset
    PROVE  HandInv'
<1> USE DEF HandInv, HandTypes, StepStates, ResetStates
<1>1. CASE HostWritesIP
  <2>1. /\ initStep' = 0 /\ nextStep' = TRUE /\ wCur' = FALSE /\ sa' = 0
        /\ hpc' = "init" /\ hStep' = 1
        /\ UNCHANGED <<wpc, wStep, pollState, ppc>>
    BY <1>1 DEF HostWritesIP, StateTransition, SaZero, servVars, pollVars
  <2> QED
    BY <2>1 DEF HostInStep, Unpublished, NotAhead, WorkerInStep, PollParked, NotToldStaleStep
<1>2. CASE HostWraps
  <2>1. /\ sa' = 6 /\ hpc' = "start" /\ hStep' = 1
        /\ UNCHANGED <<initStep, nextStep, wCur, wpc, wStep, pollState, ppc>>
    BY <1>2 DEF HostWraps, SaEcho, servVars, pollVars, workVars
  <2> QED
    BY <2>1 DEF HostInStep, Unpublished, NotAhead, WorkerInStep, PollParked, NotToldStaleStep
<1>3. CASE HostAnswersStep
  <2>1. hpc = "init" /\ sa = hStep /\ initStep = hStep /\ initStep \in 1 .. 4
    BY <1>3 DEF HostAnswersStep, NotToldStaleStep
  <2>2. /\ initStep' = initStep + 1 /\ nextStep' = TRUE /\ wCur' = FALSE
        /\ sa' = IF initStep = 4 THEN 0 ELSE sa
        /\ IF hStep < 4 THEN hStep' = hStep + 1 /\ hpc' = hpc ELSE hpc' = "run" /\ hStep' = hStep
        /\ UNCHANGED <<wpc, wStep, pollState, ppc>>
    BY <1>3, <2>1 DEF HostAnswersStep, SaWrite, StateTransition, SaZero, servVars, pollVars
  <2>3. pollState = "Wait" /\ ppc = "sleep"
    BY <2>1 DEF PollParked
  <2>4. wpc = "wait"
    BY <2>1 DEF WorkerInStep, NotAhead, Unpublished
  <2>5. PollParked' /\ HostInStep' /\ HandTypes' /\ NotToldStaleStep'
    BY <2>1, <2>2, <2>3 DEF HostInStep, PollParked, NotToldStaleStep
  <2>6. NotAhead'
    BY <2>1, <2>2 DEF NotAhead, Unpublished
  <2>7. WorkerInStep'
    BY <2>2, <2>4 DEF WorkerInStep
  <2> QED
    BY <2>5, <2>6, <2>7
<1>4. CASE HostSubmits
  BY <1>4, HandStutters DEF HostSubmits, handVars, stepVars, portVars, workVars, servVars, pollVars
<1>5. CASE HostRings
  <2>1. /\ UNCHANGED <<stepVars, wpc, wStep, ppc, hpc, hStep>>
        /\ IF initStep = 5 THEN pollState' = "InitRun" ELSE pollState' = pollState
        /\ hpc = "run"
    BY <1>5 DEF HostRings, InitPolling, IsRunning, stepVars, portVars, workVars, pollVars
  <2>2. initStep = 5 => wpc \notin StepStates \cup {"chain"}
    BY DEF WorkerInStep
  <2> QED
    BY <2>1, <2>2 DEF HostInStep, Unpublished, NotAhead, WorkerInStep, PollParked, NotToldStaleStep, stepVars
<1>6. CASE HostTakesInterrupt
  BY <1>6, HandStutters DEF HostTakesInterrupt, handVars, stepVars, portVars, workVars, servVars, pollVars
<1>7. CASE HostScans
  BY <1>7, HandStutters DEF HostScans, handVars, stepVars, portVars, workVars, servVars, pollVars
<1>8. CASE BusReset
  <2>1. /\ initStep' = 0 /\ nextStep' = TRUE /\ wCur' = FALSE
        /\ hpc' = "start" /\ hStep' = 1
        /\ UNCHANGED <<sa, wpc, wStep, pollState, ppc>>
    BY <1>8 DEF BusReset, StateTransition, pollVars
  <2> QED
    BY <2>1 DEF HostInStep, Unpublished, NotAhead, WorkerInStep, PollParked, NotToldStaleStep
<1> QED
  BY <1>1, <1>2, <1>3, <1>4, <1>5, <1>6, <1>7, <1>8 DEF Host

(* worker()'s steps keep the invariant.                                    *)
LEMMA HandWorker ==
    ASSUME HandInv, Worker, ~StaleStep1
    PROVE  HandInv'
<1> USE DEF HandInv, HandTypes, StepStates, ResetStates
<1>1. CASE WorkerWakes
  <2>1. /\ wpc = "wait" /\ nextStep /\ nextStep' = FALSE /\ wpc' = "take"
        /\ UNCHANGED <<initStep, sa, wStep, wCur, pollState, ppc, hpc, hStep>>
    BY <1>1 DEF WorkerWakes, servVars, pollVars, hostVars
  <2> QED
    BY <2>1 DEF HostInStep, Unpublished, NotAhead, WorkerInStep, PollParked, NotToldStaleStep
<1>2. CASE WorkerTakesStep
  <2>1. /\ wpc = "take" /\ wStep' = initStep /\ wCur' = TRUE
        /\ \/ initStep = 0 /\ wpc' = "reset" /\ sa' = 0
           \/ initStep \in 1 .. 4 /\ wpc' = "pause" /\ sa' = sa
           \/ initStep = 5 /\ wpc' = "wait" /\ sa' = sa
        /\ UNCHANGED <<initStep, nextStep, pollState, ppc, hpc, hStep>>
    BY <1>2 DEF WorkerTakesStep, SaZero, servVars, pollVars, hostVars
  <2>2. WorkerInStep' /\ NotAhead'
    BY <2>1 DEF WorkerInStep, NotAhead, Unpublished
  <2> QED
    BY <2>1, <2>2 DEF HostInStep, PollParked, NotToldStaleStep
<1>3. CASE WorkerStopsPolling
  <2>1. /\ wpc = "reset" /\ wpc' = "parking"
        /\ pollState' = IF pollState = "Wait" THEN "Wait" ELSE "InitRestart"
        /\ UNCHANGED <<stepVars, wStep, ppc, hpc, hStep>>
    BY <1>3 DEF WorkerStopsPolling, stepVars, portVars, pollVars, hostVars
  <2> QED
    BY <2>1 DEF HostInStep, Unpublished, NotAhead, WorkerInStep, PollParked, NotToldStaleStep, stepVars
<1>4. CASE WorkerResets
  <2>1. /\ wpc = "parking" /\ pollState = "Wait" /\ wpc' = "chain"
        /\ UNCHANGED <<stepVars, wStep, pollState, ppc, hpc, hStep>>
    BY <1>4 DEF WorkerResets, ResetState, stepVars, pollVars, hostVars
  <2> QED
    BY <2>1 DEF HostInStep, Unpublished, NotAhead, WorkerInStep, PollParked, NotToldStaleStep, stepVars
<1>5. CASE WorkerChains
  <2>1. /\ wpc = "chain" /\ wpc' = "wait"
        /\ \/ initStep' = 1 /\ nextStep' = TRUE /\ wCur' = FALSE
           \/ UNCHANGED <<initStep, nextStep, wCur>>
        /\ UNCHANGED <<sa, wStep, pollState, ppc, hpc, hStep>>
    BY <1>5 DEF WorkerChains, StateTransition, servVars, pollVars, hostVars
  <2>2. initStep = 0 /\ sa \notin 1 .. 4 /\ pollState = "Wait" /\ ppc = "sleep"
    BY <2>1 DEF WorkerInStep, PollParked
  <2>3. hpc = "init" => hStep = 1
    BY <2>2 DEF HostInStep
  <2>4. CASE initStep' = 1
    BY <2>1, <2>2, <2>3, <2>4
       DEF HostInStep, Unpublished, NotAhead, WorkerInStep, PollParked, NotToldStaleStep
  <2>5. CASE UNCHANGED <<initStep, nextStep, wCur>>
    BY <2>1, <2>2, <2>3, <2>5
       DEF HostInStep, Unpublished, NotAhead, WorkerInStep, PollParked, NotToldStaleStep
  <2> QED
    BY <2>1, <2>4, <2>5
<1>6. CASE WorkerTestsStep
  <2>1. /\ wpc = "pause"
        /\ \/ ~wCur /\ wpc' = "wait" /\ sa' = sa
           \/ wCur /\ wStep = 1 /\ wpc' = "wait" /\ sa' = 1
           \/ wCur /\ wStep # 1 /\ wpc' = (IF wStep = 4 THEN "comm" ELSE "publish") /\ sa' = sa
        /\ UNCHANGED <<initStep, nextStep, wStep, wCur, pollState, ppc, hpc, hStep>>
    BY <1>6 DEF WorkerTestsStep, servVars, pollVars, hostVars
  <2>2. wCur => wStep = initStep /\ ~nextStep
    BY <2>1 DEF WorkerInStep
  <2>3. WorkerInStep' /\ NotAhead'
    BY <2>1, <2>2 DEF WorkerInStep, NotAhead, Unpublished
  <2>4. NotToldStaleStep' /\ HostInStep' /\ PollParked'
    BY <2>1, <2>2 DEF HostInStep, PollParked, NotToldStaleStep
  <2> QED
    BY <2>1, <2>3, <2>4
<1>7. CASE WorkerClearsCommArea
  <2>1. /\ wpc = "comm" /\ wpc' = "publish"
        /\ UNCHANGED <<stepVars, wStep, pollState, ppc, hpc, hStep>>
    BY <1>7 DEF WorkerClearsCommArea, stepVars, portVars, servVars, pollVars, hostVars
  <2> QED
    BY <2>1 DEF HostInStep, Unpublished, NotAhead, WorkerInStep, PollParked, NotToldStaleStep, stepVars
<1>8. CASE WorkerPublishes
  <2>1. /\ wpc = "publish" /\ wpc' = "wait" /\ sa' = wStep
        /\ UNCHANGED <<initStep, nextStep, wStep, wCur, pollState, ppc, hpc, hStep>>
    BY <1>8 DEF WorkerPublishes, servVars, pollVars, hostVars
  <2>2. /\ wStep \in 2 .. 4
        /\ wCur => wStep = initStep /\ ~nextStep
        /\ ~wCur => initStep = 0
    BY <2>1 DEF WorkerInStep
  <2>3. WorkerInStep' /\ NotAhead'
    BY <2>1, <2>2 DEF WorkerInStep, NotAhead, Unpublished
  <2>4. NotToldStaleStep' /\ HostInStep' /\ PollParked'
    BY <2>1, <2>2 DEF HostInStep, PollParked, NotToldStaleStep
  <2> QED
    BY <2>1, <2>2, <2>3, <2>4
<1> QED
  BY <1>1, <1>2, <1>3, <1>4, <1>5, <1>6, <1>7, <1>8 DEF Worker

(* The polling thread's steps keep the invariant.                          *)
LEMMA HandPoll ==
    ASSUME HandInv, Poll
    PROVE  HandInv'
<1> USE DEF stepVars, portVars, workVars, servVars, hostVars
<1>1. CASE PollWakes
  <2>1. /\ pollState # "Wait" /\ pollState' # "Wait"
        /\ UNCHANGED <<stepVars, wpc, wStep, hpc, hStep>>
    BY <1>1 DEF PollWakes
  <2> QED
    BY <2>1 DEF HandInv, HandTypes, HostInStep, Unpublished, NotAhead, WorkerInStep, PollParked,
       NotToldStaleStep, StepStates, ResetStates
<1>2. CASE PollFetches
  BY <1>2, HandPolls, HandFails DEF PollFetches
<1>3. CASE PollTakesCommand
  BY <1>3, HandPolls, HandFails DEF PollTakesCommand
<1>4. CASE PollExecutes
  BY <1>4, HandPolls DEF PollExecutes
<1>5. CASE PollPosts
  BY <1>5, HandPolls, HandFails DEF PollPosts
<1>6. CASE PollHandsBack
  BY <1>6, HandPolls DEF PollHandsBack
<1>7. CASE PollNotifies
  BY <1>7, HandPolls DEF PollNotifies
<1>8. CASE PollLingers
  BY <1>8, HandPolls, HandFails DEF PollLingers
<1>9. CASE PollEndsPass
  <2>1. /\ ppc = "end" /\ ppc' = "sleep"
        /\ UNCHANGED <<stepVars, wpc, wStep, hpc, hStep>>
    BY <1>9 DEF PollEndsPass
  <2> QED
    BY <2>1 DEF HandInv, HandTypes, HostInStep, Unpublished, NotAhead, WorkerInStep, PollParked,
       NotToldStaleStep, StepStates, ResetStates
<1>10. CASE PollWritesMessage
  BY <1>10, HandPolls DEF PollWritesMessage
<1> QED
  BY <1>1, <1>2, <1>3, <1>4, <1>5, <1>6, <1>7, <1>8, <1>9, <1>10 DEF Poll

-----------------------------------------------------------------------------
(* HandInv is an inductive invariant of the port when step 1 is published  *)
(* with the generation test (StepCurrent(), mscp_port.cpp), for every ring *)
(* length and any number of resets, wraps, commands and failing cycles.    *)
THEOREM HandInductive ==
    ASSUME ~StaleStep1
    PROVE  Spec => []HandInv
<1>1. Init => HandInv
  BY DEF Init, SaZero, HandInv, HandTypes, HostInStep, Unpublished, NotAhead, WorkerInStep,
         PollParked, NotToldStaleStep, StepStates, ResetStates
<1>2. HandInv /\ [Next]_vars => HandInv'
  <2> SUFFICES ASSUME HandInv, [Next]_vars
               PROVE  HandInv'
    OBVIOUS
  <2>1. CASE UNCHANGED vars
    BY <2>1, HandStutters DEF vars, handVars, stepVars, portVars, workVars, servVars, pollVars, hostVars
  <2>2. CASE Next
    BY <2>2, HandHost, HandWorker, HandPoll DEF Next
  <2> QED
    BY <2>1, <2>2
<1> QED
  BY <1>1, <1>2, PTL DEF Spec

(* NotToldStaleStep for every instance: whenever the host finds the step   *)
(* it waits for in SA, the port is in that step, however IP writes, INITs, *)
(* diagnostic wraps and port errors fall between the steps of worker().    *)
THEOREM NeverToldStaleStep ==
    ASSUME ~StaleStep1
    PROVE  Spec => []NotToldStaleStep
<1>1. HandInv => NotToldStaleStep
  BY DEF HandInv
<1> QED
  BY <1>1, HandInductive, PTL

(* ParkedDuringInit for every instance: worker() and the polling thread    *)
(* never use the port's one dma_request_c at the same time.                *)
THEOREM PollingParked ==
    ASSUME ~StaleStep1
    PROVE  Spec => []ParkedDuringInit
<1>1. HandInv => ParkedDuringInit
  BY DEF HandInv, PollParked, StepStates, ParkedDuringInit
<1> QED
  BY <1>1, HandInductive, PTL
=============================================================================
