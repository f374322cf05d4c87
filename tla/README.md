# QUniLator: TLA+ models, model checks and proofs

QUniLator (QUniBone) is a BeagleBone based card that plugs into a DEC UNIBUS or
QBUS backplane. A real time core of the BeagleBone, the *PRU*, drives the bus
lines; the Linux side, the *ARM*, emulates controllers, memory and processors.
This directory models the part where the two meet: the request schedulers of
the ARM (`10.01_base/2_src/arm/qunibusadapter.cpp`), the firmware state
machines of the PRU (`10.01_base/2_src/pru1_u/`) and the mailbox between them
(`10.01_base/2_src/shared/mailbox.h`); and two users of it with a protocol of
their own, the MSCP port (`10.02_devices/2_src/mscp_port.cpp`) and the
interrupt side of the emulated processors (`10.02_devices/2_src/cpu.cpp`,
`cpu20/ka11.c`). Every emulated device does its work through this code, and
almost everything that can go wrong in it needs several threads, the PRU and the
backplane to act in an order that no test arranges.

Source paths below are relative to `src/`. `qunibusadapter.cpp` stands for
`10.01_base/2_src/arm/qunibusadapter.cpp`.

## 1. Inventory

### 1.1 The parts of the system

| Part | State it keeps | Operations |
|---|---|---|
| INIT and power delivery | PRU: last sampled lines, event counters in the mailbox. ARM: `line_INIT`, `init_replay`, `line_DCLO` | PRU samples and signals; `worker()` turns counters and levels into edges; `worker_init_event`, `worker_power_event` tell the devices and cancel all requests |
| DMA request scheduler | `request_levels[NPR]` (slot table, mask, active request), the `dma_request_c` of each slot, `dma_orphan_on_pru`, `mailbox->dma` | `DMA()`, `request_execute_active_on_PRU`, `worker_device_dma_chunk_complete_event`, `dma_request_abandon`, `requests_cancel_all` |
| Interrupt request scheduler | four `request_levels` (BR4..BR7), `mailbox->intr.vector[]` | `INTR()`, `cancel_INTR()`, `worker_intr_complete_event`, `requests_cancel_all` |
| PRU arbitration, DMA and interrupt masters | `sm_arb`, `sm_dma`, `sm_intr_master`, `sm_data_master_state` | one state function per bus phase, called from one endless loop |
| ARM to PRU command mailbox | `arm2pru_req`, response words | `mailbox_execute()`; the PRU's command switch |
| Register map | page tables, `mailbox->deviceregister` | register/unregister device; a stretched access handled by `worker_deviceregister_event` |
| Device base class | parameters, `enabled`, worker threads | enable, disable, install, `on_param_changed` |
| MSCP port and server | `_initStep`, `_next_step`, SA, ring addresses and pointers; `_pollState`, `_credits`, drives | IP and SA accesses; `worker()` walks the initialisation; `Poll()` fetches commands from and posts responses to rings in host memory; two `Reset()`s |
| Controllers (RL11, RK11, RX11, TS11, DEUNA, DELQA, DL11, KW11, ...) | registers, drive state machines | register access callbacks, worker threads calling `DMA()` and `INTR()` |
| Emulated processors | registers, PSW, `external_intr`; in the mailbox `ifs_priority_level`, `ifs_intr_arbitration_pending` | instruction loop; every bus cycle is a `DMA()` call that spins; before each instruction `unibone_grant_interrupts()`; each PSW load `unibone_prioritylevelchange()` |
| Storage images, shared file system | files | read, write, format conversion |
| Panel, display, web service, diagnostics menus | user interface | show and set parameters |

`PROJECT.json` lists every part with the reason where it is not modelled.

### 1.2 How they interact

* **Shared memory.** ARM and PRU share one mailbox. Each event is an 8 bit pair
  `signaled`/`acked`: the PRU increments one, the ARM the other, and they are
  compared for equality. After a signal the PRU may raise one hardware
  interrupt, which wakes `worker()`; interrupts coalesce.
* **Commands.** The ARM writes a command word and waits until the PRU has
  cleared it, with a timeout after which the command has simply failed.
* **Locks.** `requests_mutex` protects the tables. A device thread waits in
  `DMA()` on the condition variable of its request. The emulated processor does
  not wait: it spins on the event counter and dispatches the completion itself,
  under the mutex.
* **Callbacks.** `worker()` calls the devices for INIT, DCLO and register
  accesses. A register access stops the PDP-11 until the callback has returned,
  and may raise or withdraw interrupts meanwhile.
* **Bus lines.** Cards ask with BR or NPR, the processor answers with a GRANT
  that runs from card to card, the card that takes it drives SACK and, when the
  last master is off, BBSY. The PRU decides each pass of its loop which grant it
  takes and which it passes on. With an emulated processor the PRU is the
  arbitrator as well, and the processor's own cycles need no grant.
* **Rings in host memory.** The MSCP port and its host hand descriptors to each
  other by an ownership bit, move their pointers independently, and tell each
  other by an IP read and by an interrupt.

### 1.3 What is hard

Four concurrent actors (device threads, the processor thread, `worker()`, the
PRU loop) and an independent backplane. One `mailbox->dma` for all transfers: it
must not be written for a second transfer while the first is on the bus. Deadlines
that race completions. Cancels that the PRU may refuse. INIT pulses that may be
shorter than the wake-up latency of Linux. One event counter consumed by two
threads. Completions that name no request and are accounted to whatever is
active. A grant that is forwarded while a request of ours comes up, taken while
it is withdrawn, or left standing when INIT voids it. A host that resets the MSCP
port while one of its threads publishes a step, and the other posts a response.
An instruction that loads the PSW while an interrupt it was not told of is on
its way. `hazards` in `PROJECT.json` has each of these with its line.

### 1.4 What makes each part correct

* *INIT delivery*: no INIT is lost, whatever its length; the devices end with
  the level of the line.
* *DMA*: two transfers never share the mailbox; each completion belongs to a
  finished transfer; a successful call has moved all its words; after INIT the
  tables are empty; every call returns; the asserts in the code hold.
* *Interrupts*: every accepted interrupt is delivered or withdrawn, no vector is
  delivered that nobody wants, and the PRU requests exactly the levels with an
  active request.
* *Bus arbitration*: one bus master at a time, also during the hand-over; an
  INTR only while the processor waits for it; SACK and BBSY always fall; a
  transfer handed to the PRU is carried out, taken back or dropped by INIT.
* *Interrupt fielding*: no vector overwrites one that the processor has not yet
  taken; the arbitration an INTR closes is opened again.
* *MSCP port*: a host is never told a step the port has left; the polling thread
  is parked while the port initialises; only wanted responses arrive; the ring
  pointers of both sides stay in step; credits are conserved; nothing of an old
  host survives a reset; every initialisation gets through and every command is
  answered.

## 2. Modules

| Module | Models |
|---|---|
| `InitEvents` | INIT and DCLO from the backplane over PRU sampling and event counters to the callbacks of `worker()`. Extended by the two schedulers |
| `InitDelivery` | `InitEvents` closed with the devices' view; the INIT protocol on its own |
| `DmaScheduler` | NPR level: `DMA()` of device threads and of the processor, the worker's completion, abandonment, cancelling, and the PRU's DMA side |
| `IntrScheduler` | BR levels: `INTR()`, `cancel_INTR()`, completions, register accesses, and the PRU's interrupt side |
| `BusOwner` | abstract specification: one elected card, one bus master |
| `PruArbitration` | what the arbitration workers compute from the lines: forwarded and accepted grants, the emulated arbitrator's choice |
| `BusArbitration` | the card on the UNIBUS: the firmware's main loop, DMA and INTR master, commands of the ARM, a neighbour card, the processor; implements `BusOwner` |
| `InterruptFielding` | `BusArbitration` composed with the emulated processor: interrupt slave, hand-over by `worker()`, instruction loop |
| `MscpPort` | the MSCP port, its two threads, the rings and a host driver |
| `MCDmaScheduler`, `MCIntrScheduler`, `MCInterruptFielding`, `MCMscpPort` | values of the constants for TLC |
| `InitEventsProofs`, `InitDeliveryProofs`, `DmaSchedulerProofs`, `IntrSchedulerProofs`, `BusArbitrationProofs`, `InterruptFieldingProofs`, `MscpPortProofs`, `MscpRingsProofs` | the theorems; `InitEventsProofs` has lemmas only, which the next three share |

`map` in `PROJECT.json` gives the source lines of every definition. Definitions
whose name ends in `_Something` and which are marked as a mutant (on their line
or in the comment before them) are the deliberately wrong variants used to see
that each property can fail.

### 2.1 InitEvents and InitDelivery

`worker()` is a loop; `wpc` says where it is: waiting for the PRU interrupt,
after reading the INIT count, after reading the level, at the replay of a pulse
(far side, near side), at the power event, at the raising edge. The count and
the level are read in two steps, because the line may change in between; this
is the case the code's pulse logic is about. The PRU side is one action that
samples both lines and signals the events that changed. `busInit`, `busDclo`
are the lines themselves and change freely, as often as `MaxInit` and
`MaxPower` allow. The event counters keep their modulus as `EventMod`.

The schedulers extend the module by putting their own part of the worker's pass
between "power" and "raise", and by letting `Cancels` empty their tables.

### 2.2 DmaScheduler

* A request is named by its priority slot. Addresses and data are abstracted to
  word counts: `wordcount` asked for, `done` in finished chunks, `left` still to
  move in the chunk on the PRU.
* `pc[s]` is the place of each `DMA()` caller: idle, waiting, past its deadline,
  returned but result not yet looked at; for the processor: spinning, and between
  dispatch and `EVENT_ACK`, when it holds the mutex.
* The code tests `bus_init_active()` twice, before and after it takes
  `requests_mutex`. The first test can only refuse the call, as the second does;
  the second is made in the same step as the scheduling, as under the mutex.
* Everything under `requests_mutex` is one step, except for that last case.
* `mbox` is `mailbox->dma`; `pruReq` is what the arbitration state machine
  requests; `running` is "the DMA state machine is bus master".
* ARM2PRU_DMA_CANCEL answers from the PRU's state: refused when the transfer
  runs, when it has ended, or (`IntrOnBus`) when an interrupt vector is on the
  bus.
* `dma_orphan_on_pru` is `orphan`; `OrphanExpires` lets its 100 ms pass.
* Ghosts: `carrier` (whose words the PRU moves), `accepted` and `moved` per
  call. No guard depends on them.
* A call of a device may be refused because its slot still carries a timed-out
  transfer, because INIT is active, because the extent is empty or because the
  processor owns the memory and answers itself (`CpuOwnsMemory`).

### 2.3 IntrScheduler

* `sched`, `act`, `vec`, `brReq` are the slot tables, the active request per
  level, the vector in the mailbox and the PRU's request mask.
* A grant is taken (`granted`), the vector is put on the bus (`master`), the
  processor takes it (`ssyn`), the PRU signals. A vector is identified with the
  slot it was pushed for.
* `WorkerServesAccess` is a register access: the worker first handles the
  completed interrupts (the order the comment at `qunibusadapter.cpp:1923`
  demands), then the callback may raise or withdraw any request.
* `want` is a ghost: raised, and neither delivered nor withdrawn.

Assumptions of this module: requests outside `ThreadCancels` are withdrawn only
from register callbacks, and the passing properties speak of behaviours up to the
first cancel by a device thread (`OnlyWorkerCancels`; what comes after it is the
finding `intr_thread_cancel`); an INIT lasts until the worker has seen
it (`ShortInit = FALSE`, the case the comment at `qunibusadapter.cpp:1820` calls
the ordinary one); a processor that gave a grant makes no register access until
the interrupt is through; an `INTR()` of a request that is already in the tables
is ignored, as in the code; DCLO does not strike (`InitDelivery` and
`DmaScheduler` have it; its cancel is the one of INIT).

### 2.4 PruArbitration and BusArbitration

A bit mask of request or grant lines is a set of levels, 4 to 7 and `NP = 8`. One
pass of the endless loop in `pru1_main_unibus.c` is one step: as slave
(`PassPhysical`, `PassEmulated`, `PassStretched`) or one state of the DMA or INTR
master. `lines` is the latch with the BR/NPR lines, which a pass rewrites from
`req`; `Kept`, `KeptSack` are what `do_event_initializationsignals()` leaves at the
start of a pass while INIT is up.

* The ARM's commands (`ArmDma`, `ArmCpuDma`, `ArmDmaCancel`, `ArmIntr`,
  `ArmIntrCancel`, `ArmGrantInterrupts`) are taken at the end of a pass, one a
  pass (`cmdDone`). `stretched` is a register access the ARM has not acked: the
  loop goes on, forwards grants, but does not arbitrate. The last word of a
  transfer may address a register of the card itself.
* The processor is physical or the emulated one; `machine` says which, and
  whether there is a neighbour further down the chain. The physical processor is
  external: it grants the highest line, takes the grant back on SACK or on its
  own timeout, owns the bus between, and answers INTR with SSYN.
* The neighbour is external too and keeps the rule of the bus: a card that asks
  while a grant passes lets that grant pass.
* `IntrEnds` leaves out the test that the ARM has acked the level's previous event
  (`pru1_statemachine_intr_master.c:108`). The wait only delays the step, which may be
  delayed in the model too, so the safety results include it; that it ends is part of
  the fairness assumed, since the ARM acks without waiting for the PRU. `IntrScheduler`
  models the wait itself.

Assumptions. A grant drops before the card has made more than `MaxLate` passes
after its SACK (`GrantDropsInTime`); with `MaxLate = 2` one bus master would no
longer hold, because the second pass has forgotten what was accepted and passes
the grant on. The processor's SACK timeout does not strike while a card is about
to answer; during a register access it may, as often as `MaxFaults` says. INIT
lasts until the loop has seen it; a RESET of the emulated processor holds it for
10 ms (`qunibus.cpp:280`), which outlasts a register access.

### 2.5 InterruptFielding

The firmware's interrupt slave closes the arbitration (`level = FETCHING`) and
signals the vector; `WorkerFields` hands it to `external_intrvec`; the instruction
loop asks for an arbitration, takes a vector or an opcode, makes bus cycles (or
none, with `direct_memory`), and loads a PSW. `cpc` is its place. RESET raises INIT
from the loop and waits it out. The 100 ms bound on the wait for an arbitration
is left out: it is for a PRU that does not answer. Steps of a machine with a
physical processor are those of `BusArbitration` alone (`PhysicalMachine`).

### 2.6 MscpPort

Four actors. The host's register accesses run in the adapter's worker, a FIFO
thread of the highest priority on one core, and are one step each. The port's
`worker()` takes steps at `wpc`; the polling thread at `ppc`. What a thread does
between two waits, mutexes or bus cycles is one step.

* `_stepGeneration` is abstracted to `wCur`: the generation the worker took is
  still the current one. `sa` is the step bit, an error or an echo.
* Commands are numbers; `Onlines` are those that bring the drive online and
  stand for commands that change drive state; the rest are transfers.
* The rings live in host memory: `own` is the ownership bit, `grant` the credits
  a response carries. `PostResponse()` is four steps: the descriptor is read
  (`PollPosts`; a full ring is tried again), the message is written
  (`PollWritesMessage`), the descriptor is written (`PollHandsBack`), then the
  interrupt is raised and the pointer moves (`PollNotifies`).
* `DmaFails` lets a bus cycle fail. A failing read, and a failing write of a command
  descriptor, raise `PortError`. The two writes of `PostResponse()` and that of the
  communications area are not looked at by the code (`mscp_port.cpp:829`, `:858`,
  `:332`): each may fail at any moment, on a running port too, and the port goes on as
  if it had not. The ghost `lost` records which kind of response write has failed
  since GO; no guard depends on it, and the properties that a lost write falsifies
  say so (`RingsInStep`, `CreditsConserved`, `CommandAnswered`). Two results are left
  out because nothing in the model looks at what they leave: those of the transition
  words before an interrupt and of the declared buffer length.
* The locals of `Poll()` are cleared where their life ends, which keeps states equal
  that the code cannot tell apart.
* The host is external. It polls SA during initialisation (interrupt enable off),
  sets its rings up before GO, and may reset or be reset (`HostWritesIP`, `BusReset`)
  or ask for a diagnostic wrap at any time. It clears a response buffer before it
  returns it to the port: a buffer handed back without a message reads as no
  response and gives no credits.
* The doorbell. The host rings for a command unless it takes the port to be polling
  (`TakenForPolling`): an earlier command of its own is unanswered, or it is just
  reading responses and answers one with the next command, which is the host that
  the comments at `mscp_server.cpp:167` and `:442` describe and that
  `LingerForNextCommand()` waits for. It may always ring all the same. The second case
  is left out after a doorbell that rang during a pass or with nothing in the ring
  (`lateBell`), unless `BellsMislead`: see section 5.1.
* The linger window is 3 s of wall clock against a host whose speed varies; the code
  says that "a window too short deadlocks". The model takes it to be long enough for
  a host with an interrupt pending or its service routine running (`HostAnswering`):
  empty rounds count only when it has finished. A host slower than that is outside
  the model, as it is outside what the code can serve.
* `base` is a ghost: commands issued before the last initialisation.
* A write to SA in step 4 without GO changes nothing and is a stuttering step.
* Step 1 is published in the step that tests the generation, unless `StaleStep1`;
  steps 2 to 4 always in two steps.

## 3. What is checked

All runs name their constants in the `.cfg`. `CHECK_DEADLOCK FALSE` is set
because the environment is bounded: when all calls, INIT changes and raises are
used up, the system is idle and has no next step.

### 3.1 Passing runs

| Run | Instance | Shows |
|---|---|---|
| `init_delivery` | six INIT changes, two DCLO changes, counters modulo 8 | `InitNotLost`, `LevelsAgree`, `InitCarriedOut` |
| `dma_devices` | slot 1 with a transfer of two chunks; slot 2 with a deadline, one or no word, two calls; two INIT changes | `MailboxNotShared`, `NoForgottenTransfer`, `SuccessMeansMoved`, `InitClearsRequests`, `CompletionIsFinished`, `EveryCallReturns` |
| `dma_cpu` | the emulated processor alone, three accesses, three INIT changes, DCLO, foreign wake-ups of the worker | `MailboxNotShared`, `SuccessMeansMoved`, `CompletionIsFinished`, `EveryCallReturns` |
| `dma_all` | two devices and the processor, and every failure: PRU stuck, latch expired, interrupt on the bus, memory owned by the processor; counters modulo 2 | `TypeOK`, `TablesConsistent`, `ChunkFits` |
| `intr_levels` | three requests on two levels (two compete on one), one access, one cancel by a device thread, two INIT changes | `TypeOK`, `LevelTablesConsistent`, `PruMirrorsTables`, `NoLostInterrupt`, `VectorIsWanted`, `EveryInterruptServed` |
| `mscp_port` | both rings of two, four commands, three resets or wraps, one bus cycle failing anywhere | `NotToldStaleStep`, `ParkedDuringInit`, `ResponsesWanted`, `RingsInStep`, `CreditsConserved`, `OnlineByThisHost`, `InitCompletes`, `CommandAnswered` |
| `bus_fielding` | BR4 and NPR; a card with a neighbour under a physical processor, and the emulated processor on a card alone; levels 0 and 7; one INIT or timeout during an access | `ImplementsBusOwner`, `InterruptAwaited`, `SackFalls`, `BusReturned`, `DmaServed`, `VectorNotOverwritten`, `ArbitrationReopens` |

Why these bounds. The DMA scheduler's state depends on the active request, the
other requests in the table and one transfer on the PRU. Two slots give a
request behind another, a request that overtakes between two chunks, and a
device behind an orphan; a second call of a slot gives the reuse of its
`dma_request_c` while the old transfer is still on the bus. Two INIT changes
make one whole pulse, three a pulse and a new assertion. `MaxChunk = 1` with two
words exercises the chunk logic; the proofs cover all other sizes. The counters
count modulo 4 (2 in `dma_all`, 3 in `intr_levels`, where two INIT signals may be
unanswered at once), so that they wrap within a run; six INIT changes against
modulus 8 keep the source below one full turn, as 8 bits do for a worker that sleeps
through fewer than 256 events.

For the bus one BR and NPR give every order of a DMA and an interrupt; the
neighbour may ask for either, so each of the two cards has the other's grant go
by. Which BR wins over which is decided by `Highest` alone. One INIT is enough,
because after it every variable but `faults` can have its initial value. In
`mscp_port` both rings have two slots, so that each pointer differs from zero at a
reset and wraps within the four commands. With two initial credits the host can
have three commands under way, one more than the response ring holds: it gets full,
and the polling thread holds a response back. One failing cycle is enough to lose
either write of a response, since what the port does next does not depend on it;
three resets give a reset of a reset. `LingerRounds = 1`
stands for the 600 rounds of the code: one round in which the ring is empty and
one end of the window are all that the model can tell apart.

Passing instances are chosen to lie outside the findings and observations of
section 5. Devices and processor run separately where `CompletionIsFinished` and
`EveryCallReturns` are checked (together they meet `dma_cpu_race`), and in
`dma_devices` the chunked request has the lower slot and no deadline (the other
way round it meets the stale `executing_on_PRU`). `StaleStep1`, `StaleGrant` and
`LatePsw` are FALSE in `mscp_port` and `bus_fielding` and TRUE in the violation run
that shows what they exclude (`mscp_stale_step`, `bus_grant_stuck`,
`fielding_overwritten`). `BellsMislead` is FALSE in `mscp_port` as well; what it excludes is
the observation about `mscp_server.cpp:190` in section 5.1. `OrphanExpires`, `PruMayStick` and
`IntrOnBus` are on in `dma_all` only: with a stuck PRU or an orphan that never
signals, a caller without a deadline waits for ever by design of the code.

### 3.2 Fairness

* Weak fairness of the worker's steps: `worker()` is a real time thread with its
  own priority and is blocked only by `requests_mutex`, which nobody holds for
  long.
* Weak fairness of the PRU's steps while it is alive: the firmware is an endless
  loop on a core of its own.
* Weak fairness of callers: a thread in `DMA()` that can go on does so. On the
  single ARM core (`docs/unibone-bringup-issues.md:54`) the spinning processor is
  preempted by the worker, so neither starves.
* Strong fairness of `PruTakesGrant` for interrupts: the processor may raise and
  lower its priority, so a level is granted again and again but not always; a
  processor that never lowers its priority owes no interrupt.
* Deadlines pass. Nothing is assumed of the backplane or of new calls.
* `BusFairness`: the PRU's loop runs for ever, and meets the grant both on and
  off again and again, since a pass is shorter than either; the ARM acks a
  register access; a physical processor serves NPR, ends its own bus cycles and
  answers INTR; the neighbour goes on with what it started; INIT is a pulse.
  Nobody has to ask for anything.
* `FieldFairness` adds: a grant that nobody answers times out, `worker()` and the
  processor's thread run, and the mailbox mutex lets the processor in sooner or
  later. ExecuteReset is not forced: it is one of the instructions.
* `MscpPort!Fairness`: both threads of the port run; a host in its initialisation
  or service routine goes on, and rings the doorbell when it owes it. Resets,
  errors and new commands are never owed. A lingering polling thread may wait for the
  host's service routine, which ends: each scan empties a slot or finds none.

### 3.3 Violation runs

Each of these checks one statement of the repository against the code; see
section 5.

## 4. What is proved

Every safety property of the passing runs is stated by a theorem. Where a theorem
has a hypothesis, it is named below with the reason.

### 4.1 INIT delivery

`InitEventsProofs` has the lemmas about the signal part, which the three modules that
extend `InitEvents` share: the types of its variables, the arithmetic of the
counters (`Pending`: signals not answered; `Ahead`: those up to the count the worker
read), and the INIT protocol itself, `Delivering`:

* `SignalInHand`: where the worker acts on a signal, the signal is still pending, so
  that no acknowledge overtakes what it acknowledges;
* `LevelFollows`: the worker's level is the PRU's, but for signals it has yet to use;
  in a replay, which of the two depends on the edge it has reached;
* `CancelPending`, carried along: an asserted INIT is in the counter *and will be
  acted on*. An INIT that is on and off again while the worker still holds an
  earlier one needs two pending signals, one that came during a replay has to have
  come after the count that was read.

The one assumption is `NotLapped`: the PRU's signal does not make the counters equal.
The 8 bit counter would come full circle only with 256 changes unanswered. It is an
assumption about steps (`Spec /\ [][NotLapped]_vars => ...`); `Counted` derives it from
`MaxInit < EventMod`.

`InitDeliveryProofs` proves of `InitDelivery`, for any number of INIT and DCLO changes:

* `NoInitLost`: `[]InitNotLost`;
* `LevelsEndEqual`: `[]LevelsAgree`;
* `FewInits`: both from `MaxInit < EventMod` alone, without `NotLapped`.

They follow from `Inductive`: `[]DeliveryInv`, which adds to `Delivering` that an INIT owed
a cancel is `CancelPending`, and that the devices know the worker's level except
within a replay and before the rising edge.

### 4.2 DMA scheduler

`DmaSchedulerProofs` proves for every set of slots, every word count, chunk
size, counter modulus, call bound and every combination of failures:

* `TypesHold`: `Spec => []TypeOK`;
* `TablesAgree`: `Spec => []TablesConsistent`;
* `ChunksFit`: `Spec => []ChunkFits`.

All follow from `Inductive`: `Spec => []IndInv`, where `IndInv` is the
conjunction of `TypeOK`, `TablesConsistent`, `ChunkFits` and two strengthenings:

* `WithinRequest`: the finished chunks of a scheduled request are fewer words
  than it asked for. `ChunkFits` alone is not inductive: it speaks of the pushed
  chunk, and whether the *next* chunk is non-empty depends on what the finished
  ones have left.
* `PruHasWords`: a PRU that is requested or running has a non-zero count.
  Without it `left` might be decremented below zero.

The argument splits `IndInv` along `requests_mutex`: `Core` speaks of what is
written under it (tables, requests, mailbox), `Frame` of the rest. Each helper
that pushes, completes, cancels or abandons has a lemma about `Core`, stated
for the values its caller leaves, and each action then needs the lemma of its
helper and a few facts about `Frame`. The assumptions are the named `ASSUME`s of
the module: `SignalAssumption` (a modulus of at least 2), `SlotAssumption`
(slots are naturals, at most one processor), `WordsAssumption` (a processor
access is one word), `BoundAssumption`, `FlagAssumption`. TLC evaluates them in
every run.

The exchange over `mailbox->dma` is proved within `Scope`:

* `NotShared`: `Spec => []MailboxNotShared`;
* `MovedAsAsked`: `Spec => []SuccessMeansMoved`;
* `OnlyFinished`: `Spec => CompletionIsFinished`.

`Scope` says that there are device threads only or the processor only (together they
meet the finding `dma_cpu_race`); that the PRU answers, the latch does not expire and
no cancel is refused for an interrupt (`~PruMayStick`, `~OrphanExpires`, `~IntrOnBus`);
that a counter tells two completions from none (`EventMod > 2`); and that a request
with a deadline is at most one chunk. The last is what the callers do, all of which go
through `qunibus.cpp`: probes and the VAX console (`cpuvax.cpp:284`) ask for one word,
the memory sizer for a chunk at a time (`qunibus.cpp:577`), the disassembler for 64
words, and the web service refuses more than 4096 (`webapi.cpp:1313`, `:1407`), which is
`PRU_MAX_DMA_WORDCOUNT`. The first observation of section 5.1 is what would happen
without it. `dma_devices` and `dma_cpu` satisfy `Scope`.

`MailInductive` has the invariant. `MailInv` says where a transfer is. The mailbox is in
one of four phases, `Free`, `Asked`, `Moving` or `Ended`, where `Ended` counts the
completions that no thread has started to dispatch: between the dispatch and
`EVENT_ACK` the counters still differ although the next transfer may be pushed.
`Exchange` says for whom: nobody, the active request, or an orphan while nothing in the
tables executes. `PushedOnce` is the case of deadlines, `OneSide` and `Takers` say which
thread dispatches. `MovedInv` counts the words: in each phase `moved`, `done`, `left` and
the pushed count fit together (`Progress`), and a request that is not active has
moved what its finished chunks say (`Settled`).

INIT is proved without `Scope`, with every failure switched on:

* `RequestsCleared`: `Spec /\ [][NotLapped]_vars => []InitClearsRequests`, from
  `ClearedInductive`: while the worker holds INIT on and has cancelled for it, the
  tables are empty, and `Delivering` holds in the composed system.

`NoneForgotten` (`Scope` and `NotLapped`) proves `[]NoForgottenTransfer`. The mailbox can only
become `Free` under an active request (`Dropped`) when the PRU samples INIT, which every
other step's lemma states (`Orderly`); and then `CancelPending` holds until the cancel.
`FewInitsCleared` has the two from `MaxInit < EventMod`.

### 4.3 Interrupt scheduler

`IntrSchedulerProofs` proves, for every set of requests and levels, every number
of raises, cancels and accesses, with cancels from device threads and INITs of
any length:

* `TypesHold`: `Spec => []TypeOK`;
* `LevelsConsistent`: `Spec => []LevelTablesConsistent`.

Both follow from `Inductive`: `Spec => []IntrInv`. The strengthening is
`LoopInRange`: while the worker is in its loop over the levels, `wLevel` is one
of them. Without it a completion could be accounted to no level and take away an
arbitrary request. `ActivationKeepsTables` is the lemma all raising, cancelling
and completing steps share: activating the lowest slot of a level makes table
and active request agree there, if the other levels are left alone. The
assumption is `IntrAssumption` (requests are naturals, and there is at least one
of the four levels).

With `LongInit` (an INIT lasts until the worker has answered it, section 2.3; the
counters tell two signals from none), and for behaviours up to the first cancel by a
device thread (what comes after it is the finding `intr_thread_cancel`):

* `PruAgrees`: `Spec => []PruMirrorsTables`;
* `NoneLost`: `Spec => []NoLostInterrupt`;
* `VectorsWanted`: `Spec => []VectorIsWanted`.

They follow from `MirrorInductive`: `Spec => []MirrorInv`. A completion names a level and
no request, so everything depends on the active request not changing between the
grant and the completion. `OnePlace`: each level has at most one place on the PRU
(request line, taken grant, vector on the bus, completion not yet used), and it is
the active request's. `WishesKept`: what a device waits for is in the tables, and what
is delivered it does not wait for. `QuietMirror` is the converse without INIT.
`LoopDone`: a register access and a rising INIT find no completion unused on the
levels the loop has passed; this is the order the comment at
`qunibusadapter.cpp:1923` demands. `InitPhases` and `CountRead` list where line, sample,
signals and worker can be relative to each other, since under INIT the PRU's side
and the tables are cleared at different times.

### 4.4 Bus arbitration and interrupt fielding

`BusArbitrationProofs` proves, for every set of levels and machines and any
number of INITs and unanswered grants, that `InterruptFielding` keeps the types of
both modules (`TypesHold`, `FieldTypesHold`), and that each of its behaviours is one
of the bus (`FieldingIsBus`). Under two assumptions about the machine, which
`bus_fielding` satisfies, `SoleArbitrator` (the emulated arbitrator's card has no
neighbour) and `GrantsEnd` (`MaxLate <= 1`), it proves of the bus alone and with the
emulated processor:

* `OneMaster`: `Spec => []OneBusMaster`;
* `InterruptsAwaited`: `Spec => []InterruptAwaited`;
* `Implements`: `Spec => ImplementsBusOwner`, with `StaleGrant` on or off.

All follow from `Inductive`: `Spec => []BusInv`. One bus master is far from
inductive: whether a second card may become master depends on grants not yet
answered, and on the SACK that hides them. `ClaimsAgree` ties SACK and BBSY to
what the state machines do, `GrantHasOneTaker` says that a standing grant is on
its way to the neighbour or to the card and never to both (the reason for
`GrantsEnd`), and `GrantIsAwaited` that the processor waits as long as a BR grant
or the card that took it is under way. For the refinement each action is shown
to be an election, a hand-over, a release or a stutter of `BusOwner`; a master's
successor is elected by SACK while the master still owns the bus, so the mapping
(`Owners`, `Elected`) reads both from the lines.

`InterruptFieldingProofs` proves `NoVectorOverwritten`:
`FieldSpec => VectorNotOverwritten`, with `Scope` (`SoleArbitrator`, and neither of the
two exceptions `StaleGrant` and `LatePsw` that findings 4 and 5 are about). The
inductive invariant is `FieldInv`; its heart is `OneVector`: between the grant and
the load of the new PSW there is one interrupt, and as soon as its vector is off
the bus the level is FETCHING, so that `NewGrant` excludes another. That needs
`GrantsTaken` (a BR grant is taken in the pass that gives it, which is what
`StaleGrant` breaks) and `LoopWaits` (an arbitration is only asked for before an
instruction).

### 4.5 MSCP port

`MscpPortProofs` proves, for every ring length, any number of commands, resets,
diagnostic wraps and failing bus cycles, and with `~StaleStep1` (finding 3):

* `NeverToldStaleStep`: `Spec => []NotToldStaleStep`;
* `PollingParked`: `Spec => []ParkedDuringInit`.

Both follow from `HandInductive`: `Spec => []HandInv`. Its parts are `HostInStep`
(host and port are at the same step, or the port is Uninitialized), `NotAhead`
(SA never shows a step the port has not reached, nor the one worker() has yet to
publish; without it a host might answer a step before the worker has taken it),
`WorkerInStep` (what the worker knows: a step it still publishes is the port's or
has been reset) and `PollParked`. A port error can only come from a polling thread
that is awake, hence never during the initialisation.

`MscpRingsProofs` goes on from there, for the same instances:

* `PortTyped`: `Spec => []TypeOK`, with `StaleStep1` on or off;
* `OnlyWantedResponses`: `Spec => []ResponsesWanted`;
* `OnlineByNewHost`: `Spec => []OnlineByThisHost`;
* `RingsStayInStep`: `Spec => []RingsInStep`;
* `CreditsKept`: `Spec => []CreditsConserved`.

All but the first have `~StaleStep1`. `EpochInv` says what is fresh between a reset and
the host's next GO: the host has nothing under way, the port has no drive online,
full credits and both pointers at zero. `InFlight` follows a command: it is in the
command ring, in the polling thread's queue, in its hand, or answered in the response
ring, in one of them only and once, and the host still waits for it. `RingInv` describes
the two rings as windows: commands lie from the port's pointer to the host's,
responses from the host's to where the port posts next, which between the post and
the move of the pointer is one further. `PurseInv` is the sum of the credits; it needs
`OnePurse`, that the credits beyond a response's own are all in one place, because the
port gives everything it has with the next response. `CreditsConserved` states that as
well.

Failing bus cycles are part of all this, on a running port too. What they cost is in
the statements. A descriptor that `PostResponse()` failed to write leaves the port's
pointer one slot ahead of the host for good, so the response half of `RingsInStep`
and of `RingInv` holds while no such write was lost since GO; the command half always
does. A lost message or descriptor takes the credits in it along, so the sum holds
while `lost` is empty; that the credits are in one place holds always. `Missing` ties
the two: a response buffer without a message, in the ring or in the thread's hand, is
one whose write was lost, and hence what a host scans while nothing was lost is an
answer. `OnlyWantedResponses` and `OnlineByNewHost` need no such condition.

### 4.6 What is only model-checked

* Liveness (`EveryCallReturns`, `InitCarriedOut`, `EveryInterruptServed`, `SackFalls`,
  `BusReturned`, `DmaServed`, `ArbitrationReopens`, `InitCompletes`, `CommandAnswered`): fairness is
  outside the prover's reach.
* Nothing is claimed beyond the hypotheses above. Of devices and processor together,
  an expired latch, a stuck PRU or a cancel refused for an interrupt only the results
  that need no `Scope` are proved, and `dma_all` checks the same on its instance.

## 5. Findings

1. **`dma_cpu_race`** (`qunibusadapter.cpp:1950`). `worker()` tests the event and
   `cpu_access` before it takes the mutex. The processor dispatches its own
   completion, which pushes the next device transfer and clears `cpu_access`,
   and acks afterwards; a worker pass in between completes the device transfer
   just pushed as failed, and acks once too often.
2. **`intr_thread_cancel`** (`qunibusadapter.cpp:1381`). `cancel_INTR()` from a
   device thread after the grant was taken: the completion still comes, retires
   the next request of the level, and that interrupt is lost.
3. **`mscp_stale_step`** (`mscp_port.cpp:272`). `worker()` tests the generation under
   the step mutex and writes STEP1 to SA after releasing it. A reset in between
   leaves the host with the step the port was leaving.
4. **`bus_grant_stuck`** (`pru1_statemachine_arbitration.c:284`). The emulated
   arbitrator grants from a latch that may show a request already withdrawn.
   Nobody answers, and the grant's timeout is not reached while NPR is up: no
   DMA and no processor cycle from then on.
5. **`fielding_overwritten`** (`cpu.cpp:215`). An instruction that loads the PSW
   while an INTR is on its way overwrites the mark that keeps the arbitration
   closed; a second INTR is granted and its vector may replace the first.

### 5.1 Observations without a run

Met while modelling; no run is kept for them.

* `qunibusadapter.cpp:1658`: `executing_on_PRU` stays set on a chunked request that
  is put back between chunks; its abandonment then cancels the transfer of
  whoever overtook it. (`dma_devices` with `Words <- SecondIsLong` and the
  deadline on the chunked slot 2 violates `NoForgottenTransfer`.) No caller today
  gives a deadline to a transfer of more than one chunk.
* `qunibusadapter.cpp:945`: a refused call shares its `dma_request_c` with the
  transfer it was refused for, whose completion may set `success` before the
  caller looks.
* `qunibusadapter.cpp:487`: the PRU refuses a cancel also while an interrupt vector
  is on the bus; the latch then waits for a signal that an INIT makes impossible
  (`IntrOnBus = TRUE`, `MaxPower = 1`).
* An emulated arbitrator with a physical neighbour: the card puts GRANT on GRANT
  OUT and its own devices may take it in the same pass, while the neighbour takes
  it too. `bus_fielding` therefore has the emulated processor on a card alone.
* `pru1_statemachine_arbitration.c:164` is a test that cannot be true there, and
  `:274` compares `requested_intr_level`, not the processor's level, with
  FETCHING. Both are harmless: no level exceeds FETCHING.
* A taken grant still standing after two further passes would be forwarded
  (`MaxLate`).
* `ARM2PRU_CPU_ENABLE` resets the arbitration state and drops requests the ARM's
  tables keep.
* The error code `PortError()` leaves in SA is cleared by the Uninitialized step it
  schedules.
* `mscp_server.cpp:190`: a doorbell that rings during a pass sets `InitRun`, and
  `LingerForNextCommand()` then returns at once, although the pass may have fetched the
  command the bell was for. The pass that follows finds the ring empty, has
  `msgCount` 0, does not linger, and the server goes to Wait. A host that answers
  the responses with a command and without a doorbell, as the comment at `:442`
  says hosts do, is not served: "a pass that did work looks again for a while" does
  not hold here. (`mscp_port` with `BellsMislead = TRUE` violates `CommandAnswered`, also with
  `MaxErrors = 0` and `MaxResets = 1`.)
* `mscp_port.cpp:829`, `:858`: a response message or descriptor that could not be
  written is lost without a port error ("TODO: Need to handle NXM", `:736`). The command
  is never answered, the credits in it are gone, and after a lost descriptor the host
  waits at a slot the port has passed. (`RingsInStep`, `CreditsConserved` and
  `CommandAnswered` without their conditions on `lost` are violated by `mscp_port`.)

## 6. What is not modelled

Instruction sets, file formats, storage contents, rendering, HTTP: no protocol
between actors, or out of a model checker's reach. Addresses, data words and
register values: the schedulers do not look at them. ACLO: its edges only reach
device callbacks. The signal timing of the bus phases (SACK, BBSY, SSYN): one
step each. ARB_MODE_NONE (a diagnostic that ignores other masters),
ARM2PRU_CPU_ENABLE, HALT, START and power traps of the emulated processors. What
a disk or tape command does, the on-demand opening of images, and the TMSCP
commands. In the port: interrupts during initialisation, and a host that gives
no vector. `mailbox_execute()`: atomic, or failing for good once the PRU is
stuck. A second retirement of an expired latch by a late signal: a live PRU ends
a word within a bus timeout, far below 100 ms.

## 7. Plan

Done: all modules of section 2, with the theorems of section 4.

Theorems next: `MailInv` with `IntrOnBus` and with an expiring latch, which needs the
bound on a bus cycle as a hypothesis; chunked requests with a deadline, once the
flag `executing_on_PRU` is cleared between chunks; an abstract specification of
`DMA()` as one atomic transfer, with `MailInv` and `MovedInv` as the facts of its
refinement; interrupts with an INIT shorter than the worker's latency.

Modules next, in this order:

1. `MailboxCommand`: the command handshake with its timeout and a late answer,
   refined to the atomic command used here.
2. `RegisterMap`: registration and removal against accesses in flight.
3. `DeviceLifecycle`: enable, disable, worker threads and their cancellation.
4. RL11 drive and controller; the QBUS variant of INIT delivery; saving and
   activating configurations in the web service.
