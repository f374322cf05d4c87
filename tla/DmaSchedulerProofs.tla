------------------------- MODULE DmaSchedulerProofs -------------------------
(***************************************************************************)
(* For every set of slots, every word count, chunk size and counter width, *)
(* and with the PRU free to die and the orphan latch free to expire:       *)
(* DmaScheduler keeps its types, its tables agree with the active request, *)
(* and the asserts on chunk sizes in qunibusadapter.cpp never fire. Within *)
(* Scope the mailbox is never shared, a success means that every word was  *)
(* moved, and a completion is of a transfer the PRU has ended. INIT clears *)
(* the tables, and no transfer it dropped is forgotten.                    *)
(***************************************************************************)
EXTENDS DmaScheduler, InitEventsProofs, WellFoundedInduction

(* Slots are natural numbers, so none of them is NoSlot.                   *)
LEMMA SlotsAreNat == Slots \subseteq Nat /\ NoSlot \notin Slots
BY SlotAssumption DEF Slots, NoSlot

(* __builtin_ffs finds a requesting slot whenever there is one.            *)
LEMMA LowestIsMember ==
    ASSUME NEW S \in SUBSET Slots, S # {}
    PROVE  LowestSlot(S) \in S
<1>1. S \subseteq Nat
    BY SlotsAreNat
<1>2. \E x \in S : \A y \in S : ~(<<y, x>> \in OpToRel(<, Nat))
    BY <1>1, NatLessThanWellFounded, WFMin
<1>3. \E x \in S : \A y \in S : ~(y < x)
    BY <1>1, <1>2 DEF OpToRel
<1>4. \E x \in S : \A y \in S : x <= y
    BY <1>1, <1>3
<1> QED BY <1>4 DEF LowestSlot

(* The next active request, seen from the tables it is chosen from.        *)
LEMMA LowestOf ==
    ASSUME NEW S \in SUBSET Slots
    PROVE  /\ LowestSlot(S) \in Slots \cup {NoSlot}
           /\ (LowestSlot(S) = NoSlot) <=> (S = {})
           /\ LowestSlot(S) # NoSlot => LowestSlot(S) \in S
<1>1. CASE S = {}
    BY <1>1 DEF LowestSlot
<1>2. CASE S # {}
    BY <1>2, LowestIsMember, SlotsAreNat
<1> QED BY <1>1, <1>2

-----------------------------------------------------------------------------
(* The part of the inductive invariant that requests_mutex protects.       *)
Mailboxes == [status : Statuses, words : Nat, cpu : BOOLEAN]
Requests  == [npr : BOOLEAN, cpu : BOOLEAN]

Core == /\ SchedulerType /\ RequestsType
        /\ mbox \in Mailboxes /\ pruReq \in Requests
        /\ carrier \in Slots \cup {NoSlot} /\ pruAlive \in BOOLEAN
        /\ TablesConsistent /\ ChunkFits /\ WithinRequest
        /\ (pruReq.npr \/ pruReq.cpu => mbox.words > 0)

(* a scheduler step gives the PRU a transfer, but never a running one      *)
KeepsRunning == mbox'.status = "running" => mbox.status = "running"

(* request_execute_active_on_PRU keeps the types, and what it pushes fits  *)
(* the request it pushes it for.                                           *)
LEMMA ExecuteOnPRUType ==
    ASSUME NEW a \in Slots \cup {NoSlot}, NEW held \in BOOLEAN,
           NEW ex \in [Slots -> BOOLEAN],
           NEW wc \in [Slots -> Nat], NEW dn \in [Slots -> Nat],
           NEW pr \in Requests,
           a # NoSlot => dn[a] < wc[a],
           pr.npr \/ pr.cpu => mbox.words > 0,
           mbox \in Mailboxes, carrier \in Slots \cup {NoSlot}, pruAlive \in BOOLEAN,
           ExecuteOnPRU(a, held, ex, wc, dn, pr)
    PROVE  /\ executing' \in [Slots -> BOOLEAN]
           /\ mbox' \in Mailboxes /\ pruReq' \in Requests
           /\ carrier' \in Slots \cup {NoSlot}
           /\ pruReq'.npr \/ pruReq'.cpu => mbox'.words > 0
           /\ KeepsRunning
           /\ a # NoSlot /\ ~held => mbox'.words > 0 /\ dn[a] + mbox'.words <= wc[a]
<1>1. CASE a = NoSlot \/ held
    BY <1>1 DEF ExecuteOnPRU, HeldOff, KeepsRunning
<1>2. CASE a # NoSlot /\ ~held
    <2> DEFINE words == MinOf(MaxChunk, wc[a] - dn[a])
    <2>1. a \in Slots /\ wc[a] \in Nat /\ dn[a] \in Nat /\ dn[a] < wc[a]
        BY <1>2
    <2>2. words \in Nat /\ words > 0 /\ dn[a] + words <= wc[a]
        BY <2>1, BoundAssumption DEF MinOf
    <2>3. mbox' = [status |-> IF pruAlive THEN "arbitrating" ELSE "ready",
                   words |-> words, cpu |-> a \in CpuSlots]
        BY <1>2 DEF ExecuteOnPRU, HeldOff
    <2>4. mbox' \in Mailboxes /\ mbox'.words = words /\ mbox'.status # "running"
        BY <2>2, <2>3 DEF Mailboxes, Statuses
    <2>5. pruReq' \in Requests
        BY <1>2 DEF ExecuteOnPRU, HeldOff, Requests
    <2>6. executing' \in [Slots -> BOOLEAN] /\ carrier' \in Slots
        BY <1>2, <2>1 DEF ExecuteOnPRU, HeldOff
    <2> HIDE DEF words
    <2> QED BY <2>2, <2>4, <2>5, <2>6 DEF KeepsRunning
<1> QED BY <1>1, <1>2

-----------------------------------------------------------------------------
(* The scheduler's operations, one lemma each.                             *)

(* A step that leaves the tables, the requests and the mailbox alone.      *)
LEMMA SchedulerIdle ==
    Core /\ SchedulerUnchanged /\ pruAlive' \in BOOLEAN => Core' /\ KeepsRunning
BY DEF Core, KeepsRunning, SchedulerUnchanged, tables, reqs, SchedulerType, RequestsType,
       TablesConsistent, ChunkFits, WithinRequest

(* The completion of an orphan, or of nothing: what it held off starts.    *)
LEMMA DiscardKeepsCore ==
    ASSUME Core, DiscardChunkEvent, pruAlive' = pruAlive
    PROVE  Core' /\ KeepsRunning
<1>1. active \in Slots \cup {NoSlot} /\ (active # NoSlot => done[active] < wordcount[active])
    BY DEF Core, SchedulerType, TablesConsistent, WithinRequest
<1>2. StaysHeldOff \in BOOLEAN /\ (active # NoSlot => ~StaysHeldOff)
    BY DEF Core, SchedulerType, StaysHeldOff, DiscardChunkEvent, ChunkEventIsMine
<1>3. /\ executing' \in [Slots -> BOOLEAN]
      /\ mbox' \in Mailboxes /\ pruReq' \in Requests
      /\ carrier' \in Slots \cup {NoSlot}
      /\ pruReq'.npr \/ pruReq'.cpu => mbox'.words > 0
      /\ KeepsRunning
      /\ active # NoSlot /\ ~StaysHeldOff
            => mbox'.words > 0 /\ done[active] + mbox'.words <= wordcount[active]
    BY <1>1, <1>2, ExecuteOnPRUType DEF DiscardChunkEvent, Core, RequestsType
<1>4. /\ UNCHANGED <<scheduled, active, complete, success, wordcount, done>>
      /\ orphan' = FALSE
    BY DEF DiscardChunkEvent, tables
<1>5. ChunkFits'
    BY <1>2, <1>3, <1>4 DEF ChunkFits
<1>6. SchedulerType' /\ RequestsType' /\ TablesConsistent' /\ WithinRequest'
    BY <1>3, <1>4 DEF Core, SchedulerType, RequestsType, TablesConsistent, WithinRequest
<1> QED BY <1>3, <1>5, <1>6 DEF Core

(* The last chunk, or a failed one: the request leaves and the next of the *)
(* lowest slot is pushed.                                                  *)
LEMMA FinishKeepsCore ==
    ASSUME Core, FinishRequest, pruAlive' = pruAlive
    PROVE  Core' /\ KeepsRunning
<1> DEFINE rest == scheduled \ {active}
           next == LowestSlot(rest)
<1>1. active \in Slots /\ ~orphan /\ rest \in SUBSET Slots
    BY DEF Core, SchedulerType, FinishRequest, ChunkEventIsMine
<1>2. /\ next \in Slots \cup {NoSlot}
      /\ (next = NoSlot) <=> (rest = {})
      /\ next # NoSlot => next \in rest
    BY <1>1, LowestOf
<1>3. next # NoSlot => done[next] < wordcount[next]
    BY <1>2 DEF Core, WithinRequest
<1>4. [executing EXCEPT ![active] = FALSE] \in [Slots -> BOOLEAN]
    BY DEF Core, RequestsType
<1>5. ExecuteOnPRU(next, FALSE, [executing EXCEPT ![active] = FALSE], wordcount, done, pruReq)
    BY DEF FinishRequest
<1>6. /\ executing' \in [Slots -> BOOLEAN]
      /\ mbox' \in Mailboxes /\ pruReq' \in Requests
      /\ carrier' \in Slots \cup {NoSlot}
      /\ pruReq'.npr \/ pruReq'.cpu => mbox'.words > 0
      /\ KeepsRunning
      /\ next # NoSlot => mbox'.words > 0 /\ done[next] + mbox'.words <= wordcount[next]
    <2> HIDE DEF next
    <2> QED BY <1>2, <1>3, <1>4, <1>5, ExecuteOnPRUType DEF Core, RequestsType
<1>7. scheduled' = rest /\ active' = next /\ UNCHANGED <<orphan, wordcount, done>>
    BY DEF FinishRequest
<1>8. complete' \in [Slots -> BOOLEAN]
    BY <1>1 DEF Core, RequestsType, FinishRequest
<1>9. success' \in [Slots -> BOOLEAN]
    BY <1>1 DEF Core, RequestsType, FinishRequest, ChunkSucceeded
<1> HIDE DEF next
<1>10. TablesConsistent' /\ SchedulerType'
    BY <1>1, <1>2, <1>7 DEF Core, SchedulerType, TablesConsistent
<1>11. WithinRequest' /\ ChunkFits'
    <2>1. \A s \in scheduled : done[s] < wordcount[s]
        BY DEF Core, WithinRequest
    <2> QED BY <1>6, <1>7, <2>1 DEF WithinRequest, ChunkFits
<1>12. RequestsType'
    BY <1>6, <1>7, <1>8, <1>9 DEF Core, RequestsType
<1> QED BY <1>6, <1>10, <1>11, <1>12 DEF Core

(* A chunk of several: its words are counted, and the lowest slot - maybe  *)
(* another request - gets the mailbox.                                     *)
LEMMA NextChunkKeepsCore ==
    ASSUME Core, NextChunk, pruAlive' = pruAlive
    PROVE  Core' /\ KeepsRunning
<1> DEFINE next == LowestSlot(scheduled)
           dn == [done EXCEPT ![active] = NextChunkStart]
<1>1. active \in Slots /\ ~orphan /\ active \in scheduled /\ scheduled \in SUBSET Slots
    BY DEF Core, SchedulerType, NextChunk, ChunkEventIsMine, TablesConsistent
<1>2. next \in scheduled /\ next \in Slots /\ next # NoSlot
    BY <1>1, LowestIsMember, SlotsAreNat
<1>3. mbox.words \in Nat /\ done[active] \in Nat
    BY <1>1 DEF Core, RequestsType, Mailboxes
<1>4. NextChunkStart \in Nat /\ NextChunkStart < wordcount[active]
    BY <1>3 DEF NextChunkStart, NextChunk
<1>5. dn \in [Slots -> Nat]
    BY <1>1, <1>4 DEF Core, RequestsType
<1>6. \A s \in scheduled : dn[s] < wordcount[s]
    BY <1>1, <1>4 DEF Core, RequestsType, WithinRequest
<1>7. ExecuteOnPRU(next, FALSE, executing, wordcount, dn, pruReq)
    BY DEF NextChunk
<1>8. /\ UNCHANGED <<scheduled, orphan, complete, success, wordcount>>
      /\ active' = next /\ done' = dn
    BY DEF NextChunk
<1> HIDE DEF next, dn
<1>9. /\ executing' \in [Slots -> BOOLEAN]
      /\ mbox' \in Mailboxes /\ pruReq' \in Requests
      /\ carrier' \in Slots \cup {NoSlot}
      /\ pruReq'.npr \/ pruReq'.cpu => mbox'.words > 0
      /\ KeepsRunning
      /\ mbox'.words > 0 /\ dn[next] + mbox'.words <= wordcount[next]
    <2>1. dn[next] < wordcount[next] /\ next \in Slots \cup {NoSlot}
        BY <1>2, <1>6
    <2>2. /\ executing \in [Slots -> BOOLEAN] /\ wordcount \in [Slots -> Nat]
          /\ pruReq \in Requests /\ (pruReq.npr \/ pruReq.cpu => mbox.words > 0)
          /\ mbox \in Mailboxes /\ carrier \in Slots \cup {NoSlot} /\ pruAlive \in BOOLEAN
        BY DEF Core, RequestsType
    <2> QED BY <1>2, <1>5, <1>7, <2>1, <2>2, ExecuteOnPRUType
<1>10. TablesConsistent' /\ SchedulerType'
    BY <1>1, <1>2, <1>8 DEF Core, SchedulerType, TablesConsistent
<1>11. WithinRequest' /\ ChunkFits'
    BY <1>2, <1>6, <1>8, <1>9 DEF Core, WithinRequest, ChunkFits
<1>12. RequestsType'
    BY <1>5, <1>8, <1>9 DEF Core, RequestsType
<1> QED BY <1>9, <1>10, <1>11, <1>12 DEF Core

(* whether an interrupt is on the bus is a Boolean                         *)
LEMMA BusyIsBoolean == MaybeBusy \subseteq BOOLEAN
BY FlagAssumption DEF MaybeBusy

(* ARM2PRU_DMA_CANCEL takes a request back, and the words stay as they are *)
LEMMA CancelOnPruType ==
    ASSUME Core, NEW busy \in BOOLEAN
    PROVE  /\ ReqAfterCancel(busy) \in Requests /\ MboxAfterCancel(busy) \in Mailboxes
           /\ ReqAfterCancel(busy).npr => pruReq.npr
           /\ ReqAfterCancel(busy).cpu => pruReq.cpu
           /\ MboxAfterCancel(busy).words = mbox.words
           /\ MboxAfterCancel(busy).status = "running" => mbox.status = "running"
<1>1. PruTakesBack(busy) \in BOOLEAN
    BY DEF PruTakesBack
<1>2. CASE PruTakesBack(busy)
    BY <1>2 DEF Core, ReqAfterCancel, MboxAfterCancel, Requests, Mailboxes, Statuses
<1>3. CASE ~PruTakesBack(busy)
    BY <1>3 DEF Core, ReqAfterCancel, MboxAfterCancel
<1> QED BY <1>1, <1>2, <1>3

(* requests_cancel_all leaves empty tables behind.                         *)
LEMMA CancelAllKeepsCore ==
    ASSUME Core, NEW x \in BOOLEAN, NEW busy \in BOOLEAN, CancelAll(x, busy),
           pruAlive' = pruAlive
    PROVE  Core' /\ KeepsRunning
<1>1. /\ mbox' \in {mbox, MboxAfterCancel(busy)} /\ pruReq' \in {pruReq, ReqAfterCancel(busy)}
      /\ scheduled' = {} /\ active' = NoSlot /\ carrier' = NoSlot
      /\ UNCHANGED <<wordcount, done>>
    BY DEF CancelAll
<1>2. /\ mbox' \in Mailboxes /\ pruReq' \in Requests /\ mbox'.words = mbox.words
      /\ pruReq'.npr => pruReq.npr
      /\ pruReq'.cpu => pruReq.cpu
      /\ KeepsRunning
    BY <1>1, CancelOnPruType DEF Core, KeepsRunning
<1>3. orphan' \in BOOLEAN
    BY DEF Core, SchedulerType, CancelAll, OrphanAfterCancel
<1>4. executing' \in [Slots -> BOOLEAN] /\ success' \in [Slots -> BOOLEAN]
    BY DEF Core, RequestsType, CancelAll
<1>5. complete' \in [Slots -> BOOLEAN]
    BY DEF Core, RequestsType, CancelAll, CompleteAfterCancel
<1>6. SchedulerType' /\ RequestsType'
    BY <1>1, <1>3, <1>4, <1>5 DEF Core, SchedulerType, RequestsType
<1>7. TablesConsistent' /\ ChunkFits' /\ WithinRequest'
    BY <1>1 DEF TablesConsistent, ChunkFits, WithinRequest
<1> QED BY <1>1, <1>2, <1>6, <1>7 DEF Core

(* DMA() puts a request into its free slot and pushes it if none is active *)
LEMMA ScheduleKeepsCore ==
    ASSUME Core, NEW s \in Slots, NEW n \in Words[s], DmaScheduled(s, n)
    PROVE  Core' /\ KeepsRunning
<1> DEFINE tab == scheduled \cup {s}
           ex == [executing EXCEPT ![s] = FALSE]
           wc == [wordcount EXCEPT ![s] = n]
           dn == [done EXCEPT ![s] = 0]
<1>1. n \in Nat /\ n > 0 /\ s \notin scheduled /\ pruAlive' = pruAlive
    BY WordsAssumption DEF DmaScheduled, CallBegins
<1>2. /\ tab \in SUBSET Slots /\ ex \in [Slots -> BOOLEAN]
      /\ wc \in [Slots -> Nat] /\ dn \in [Slots -> Nat]
    BY <1>1 DEF Core, SchedulerType, RequestsType
<1>3. \A t \in tab : dn[t] < wc[t]
    BY <1>1 DEF Core, SchedulerType, RequestsType, WithinRequest
<1>4. /\ scheduled' = tab /\ wordcount' = wc /\ done' = dn /\ UNCHANGED orphan
      /\ complete' \in [Slots -> BOOLEAN] /\ success' \in [Slots -> BOOLEAN]
    BY DEF DmaScheduled, Core, RequestsType
<1>5. WithinRequest'
    BY <1>3, <1>4 DEF WithinRequest
<1>6. CASE active = NoSlot
    <2> DEFINE next == LowestSlot(tab)
    <2>1. next \in tab /\ next \in Slots /\ next # NoSlot
        BY <1>2, LowestIsMember, SlotsAreNat
    <2>2. active' = next /\ ExecuteOnPRU(next, orphan, ex, wc, dn, pruReq)
        BY <1>6 DEF DmaScheduled
    <2> HIDE DEF next, tab, ex, wc, dn
    <2>3. dn[next] < wc[next] /\ next \in Slots \cup {NoSlot}
        BY <1>3, <2>1
    <2>4. /\ orphan \in BOOLEAN /\ pruReq \in Requests
          /\ pruReq.npr \/ pruReq.cpu => mbox.words > 0
          /\ mbox \in Mailboxes /\ carrier \in Slots \cup {NoSlot} /\ pruAlive \in BOOLEAN
        BY DEF Core, SchedulerType
    <2>5. /\ executing' \in [Slots -> BOOLEAN]
          /\ mbox' \in Mailboxes /\ pruReq' \in Requests
          /\ carrier' \in Slots \cup {NoSlot}
          /\ pruReq'.npr \/ pruReq'.cpu => mbox'.words > 0
          /\ KeepsRunning
          /\ ~orphan => mbox'.words > 0 /\ dn[next] + mbox'.words <= wc[next]
        BY <1>2, <2>1, <2>2, <2>3, <2>4, ExecuteOnPRUType
    <2>6. TablesConsistent' /\ SchedulerType'
        BY <1>2, <1>4, <2>1, <2>2 DEF Core, SchedulerType, TablesConsistent
    <2>7. ChunkFits'
        BY <1>4, <2>2, <2>5 DEF ChunkFits
    <2>8. RequestsType'
        BY <1>2, <1>4, <2>5 DEF RequestsType
    <2> QED BY <1>1, <1>5, <2>4, <2>5, <2>6, <2>7, <2>8 DEF Core
<1>7. CASE active # NoSlot
    <2>1. executing' = ex /\ UNCHANGED <<active, mbox, pruReq, carrier>>
        BY <1>7 DEF DmaScheduled
    <2>2. active \in scheduled /\ active # s
        BY <1>1, <1>7 DEF Core, TablesConsistent
    <2>3. wc[active] = wordcount[active] /\ dn[active] = done[active]
        BY <2>2 DEF Core, RequestsType, SchedulerType
    <2> HIDE DEF ex, wc, dn
    <2>4. TablesConsistent' /\ SchedulerType'
        BY <1>2, <1>4, <1>7, <2>1, <2>2 DEF Core, SchedulerType, TablesConsistent
    <2>5. ChunkFits'
        BY <1>4, <2>1, <2>3 DEF Core, ChunkFits
    <2>6. RequestsType'
        BY <1>2, <1>4, <2>1 DEF RequestsType
    <2> QED BY <1>1, <1>5, <2>1, <2>4, <2>5, <2>6 DEF Core, KeepsRunning
<1> QED BY <1>6, <1>7

(* who is active once a slot has left the tables                           *)
LEMMA ActiveWithoutOf ==
    ASSUME Core, NEW s \in Slots
    PROVE  /\ ActiveWithout(s) \in Slots \cup {NoSlot}
           /\ (ActiveWithout(s) = NoSlot) <=> (scheduled \ {s} = {})
           /\ ActiveWithout(s) # NoSlot => ActiveWithout(s) \in scheduled \ {s}
<1>1. scheduled \ {s} \in SUBSET Slots /\ s # NoSlot
    BY SlotsAreNat DEF Core, SchedulerType
<1>2. CASE active \in {s, NoSlot}
    BY <1>1, <1>2, LowestOf DEF ActiveWithout
<1>3. CASE active \notin {s, NoSlot}
    BY <1>3 DEF ActiveWithout, Core, SchedulerType, TablesConsistent
<1> QED BY <1>2, <1>3

(* dma_request_abandon takes a request out and hands the mailbox on.       *)
LEMMA RetireKeepsCore ==
    ASSUME Core, NEW s \in Slots, NEW busy \in BOOLEAN, DmaAbandonRetired(s, busy)
    PROVE  Core' /\ KeepsRunning
<1> DEFINE after == ActiveWithout(s)
           ex == [executing EXCEPT ![s] = FALSE]
           pr == IF executing[s] THEN ReqAfterCancel(busy) ELSE pruReq
<1>1. /\ after \in Slots \cup {NoSlot}
      /\ (after = NoSlot) <=> (scheduled \ {s} = {})
      /\ after # NoSlot => after \in scheduled \ {s}
    BY ActiveWithoutOf
<1>2. /\ pr \in Requests /\ (pr.npr => pruReq.npr) /\ (pr.cpu => pruReq.cpu)
      /\ ex \in [Slots -> BOOLEAN]
    BY CancelOnPruType DEF Core, RequestsType
<1>3. /\ scheduled' = scheduled \ {s} /\ active' = after
      /\ UNCHANGED <<orphan, success, wordcount, done, pruAlive>>
      /\ complete' \in [Slots -> BOOLEAN]
    BY DEF DmaAbandonRetired, Core, RequestsType
<1>4. after # active => active \in {s, NoSlot}
    BY DEF ActiveWithout
<1>5. SchedulerType' /\ TablesConsistent' /\ WithinRequest'
    BY <1>1, <1>3 DEF Core, SchedulerType, TablesConsistent, WithinRequest
<1>6. CASE after # active /\ after # NoSlot /\ ~orphan
    <2>1. ExecuteOnPRU(after, FALSE, ex, wordcount, done, pr)
        BY <1>6 DEF DmaAbandonRetired
    <2>2. /\ wordcount \in [Slots -> Nat] /\ done \in [Slots -> Nat]
          /\ done[after] < wordcount[after]
          /\ pr.npr \/ pr.cpu => mbox.words > 0
          /\ mbox \in Mailboxes /\ carrier \in Slots \cup {NoSlot} /\ pruAlive \in BOOLEAN
        BY <1>1, <1>2, <1>6 DEF Core, RequestsType, WithinRequest
    <2> HIDE DEF after, ex, pr
    <2>3. /\ executing' \in [Slots -> BOOLEAN]
          /\ mbox' \in Mailboxes /\ pruReq' \in Requests
          /\ carrier' \in Slots \cup {NoSlot}
          /\ pruReq'.npr \/ pruReq'.cpu => mbox'.words > 0
          /\ KeepsRunning
          /\ mbox'.words > 0 /\ done[after] + mbox'.words <= wordcount[after]
        BY <1>1, <1>2, <1>6, <2>1, <2>2, ExecuteOnPRUType
    <2>4. RequestsType' /\ ChunkFits'
        BY <1>3, <2>3 DEF Core, RequestsType, ChunkFits
    <2> QED BY <1>3, <1>5, <2>2, <2>3, <2>4 DEF Core
<1>7. CASE ~(after # active /\ after # NoSlot /\ ~orphan)
    <2>1. /\ executing' = ex /\ pruReq' = pr
          /\ mbox' \in {mbox, MboxAfterCancel(busy)}
          /\ carrier' \in {NoSlot, carrier}
        BY <1>7 DEF DmaAbandonRetired
    <2>2. /\ mbox' \in Mailboxes /\ mbox'.words = mbox.words /\ KeepsRunning
        BY <2>1, CancelOnPruType DEF Core, KeepsRunning
    <2> HIDE DEF after, ex, pr
    <2>3. ChunkFits'
        BY <1>3, <1>7, <2>2 DEF Core, ChunkFits
    <2>4. RequestsType'
        BY <1>2, <1>3, <2>1 DEF Core, RequestsType
    <2>5. pruReq'.npr \/ pruReq'.cpu => mbox'.words > 0
        BY <1>2, <2>1, <2>2 DEF Core
    <2> QED BY <1>2, <1>3, <1>5, <2>1, <2>2, <2>3, <2>4, <2>5 DEF Core
<1> QED BY <1>6, <1>7

(* The spinning processor gives up on the orphan and leaves the tables.    *)
LEMMA GiveUpKeepsCore ==
    ASSUME Core, NEW c \in Slots, CpuGivesUp(c)
    PROVE  Core' /\ KeepsRunning
<1>1. /\ ActiveWithout(c) \in Slots \cup {NoSlot}
      /\ (ActiveWithout(c) = NoSlot) <=> (scheduled \ {c} = {})
      /\ ActiveWithout(c) # NoSlot => ActiveWithout(c) \in scheduled \ {c}
    BY ActiveWithoutOf
<1>2. /\ scheduled' = scheduled \ {c} /\ active' = ActiveWithout(c) /\ orphan
      /\ UNCHANGED <<orphan, success, wordcount, done, mbox, pruReq, carrier, pruAlive>>
    BY DEF CpuGivesUp, OthersOfSpin
<1>3. executing' \in [Slots -> BOOLEAN] /\ complete' \in [Slots -> BOOLEAN]
    BY DEF CpuGivesUp, Core, RequestsType
<1>4. SchedulerType' /\ TablesConsistent' /\ WithinRequest' /\ ChunkFits'
    BY <1>1, <1>2 DEF Core, SchedulerType, TablesConsistent, WithinRequest, ChunkFits
<1>5. RequestsType'
    BY <1>2, <1>3 DEF Core, RequestsType
<1> QED BY <1>2, <1>4, <1>5 DEF Core, KeepsRunning

(* A caller that is refused, served by the processor or late only writes   *)
(* the result fields of its own request.                                   *)
LEMMA ResultKeepsCore ==
    ASSUME Core, complete' \in [Slots -> BOOLEAN], success' \in [Slots -> BOOLEAN],
           UNCHANGED <<tables, orphan, executing, wordcount, done, mbox, pruReq, carrier,
                       pruAlive>>
    PROVE  Core' /\ KeepsRunning
BY DEF Core, KeepsRunning, tables, SchedulerType, RequestsType, TablesConsistent,
       ChunkFits, WithinRequest

(* The PRU takes up, carries out or drops a request: it moves no table and *)
(* leaves the word count of the mailbox alone.                             *)
LEMMA PruKeepsCore ==
    ASSUME Core, UNCHANGED <<tables, orphan, reqs, carrier, pruAlive>>,
           mbox' \in Mailboxes, mbox'.words = mbox.words, pruReq' \in Requests,
           pruReq'.npr => pruReq.npr, pruReq'.cpu => pruReq.cpu
    PROVE  Core'
BY DEF Core, tables, reqs, SchedulerType, RequestsType, TablesConsistent,
       ChunkFits, WithinRequest

-----------------------------------------------------------------------------
(* The rest of the inductive invariant: callers, signals, the PRU's count. *)
CountsDown == running /\ mbox.status = "running" => left > 0

Frame == /\ SignalsTypeOK /\ dmaEvt \in Event /\ CallerType
         /\ running \in BOOLEAN /\ left \in Nat /\ moved \in [Slots -> Nat]
         /\ CountsDown

(* The inductive invariant, split along requests_mutex.                    *)
LEMMA IndInvParts == IndInv <=> Core /\ Frame
BY DEF IndInv, TypeOK, Core, Frame, CountsDown, PruHasWords, MailboxType, PruType,
       Mailboxes, Requests

(* The adapter starts with empty tables and an idle PRU: both parts hold.  *)
LEMMA InitParts == Init => Core /\ Frame
<1> SUFFICES ASSUME Init PROVE Core /\ Frame
    OBVIOUS
<1>1. SignalsTypeOK /\ dmaEvt \in Event
    BY InitSignalsType, NoEventsType DEF Init
<1>2. mbox \in Mailboxes /\ pruReq \in Requests /\ ~pruReq.npr /\ ~pruReq.cpu
    BY DEF Init, Mailboxes, Requests, Statuses
<1>3. SchedulerType /\ RequestsType /\ TablesConsistent /\ ChunkFits /\ WithinRequest
    BY DEF Init, SchedulerType, RequestsType, TablesConsistent, ChunkFits, WithinRequest
<1>4. Core
    BY <1>2, <1>3 DEF Core, Init
<1>5. CallerType /\ CountsDown /\ running \in BOOLEAN /\ left \in Nat /\ moved \in [Slots -> Nat]
    BY DEF Init, CallerType, CountsDown
<1> QED BY <1>1, <1>4, <1>5 DEF Frame

(* A step of a caller or of the worker leaves the PRU's data path alone;   *)
(* what it may do to the frame is bounded by its types.                    *)
LEMMA FrameKept ==
    ASSUME Frame, KeepsRunning, SignalsTypeOK', dmaEvt' \in Event, CallerType',
           UNCHANGED <<running, left>>, moved' \in [Slots -> Nat]
    PROVE  Frame'
BY DEF Frame, KeepsRunning, CountsDown

-----------------------------------------------------------------------------
(* DMA() and its callers.                                                  *)

Places == {"idle", "wait", "abandon", "spin", "ack", "read"}

(* A caller of DMA() that moves on stays within its known places.          *)
LEMMA CallerMoves ==
    ASSUME CallerType, NEW s \in Slots, NEW p \in Places, Reached(s, p),
           calls' \in [Slots -> Nat], spinDone' \in BOOLEAN, accepted' \in [Slots -> BOOLEAN]
    PROVE  CallerType'
BY DEF CallerType, Reached, Places

(* DMA() of a device, from its refusals to dma_request_abandon(), keeps    *)
(* the invariant.                                                          *)
LEMMA DeviceStepKeeps ==
    ASSUME Core, Frame, NEW s \in Slots, DeviceStep(s)
    PROVE  Core' /\ Frame'
<1> USE DEF Places
<1>a. /\ CallerType /\ calls \in [Slots -> Nat] /\ spinDone \in BOOLEAN
      /\ accepted \in [Slots -> BOOLEAN] /\ moved \in [Slots -> Nat] /\ dmaEvt \in Event
      /\ SignalsTypeOK
      /\ complete \in [Slots -> BOOLEAN] /\ success \in [Slots -> BOOLEAN]
    BY DEF Frame, CallerType, Core, RequestsType
<1>b. ASSUME UNCHANGED initVars PROVE SignalsTypeOK'
    BY <1>a, <1>b, SignalsUnchanged
<1>c. ASSUME CallBegins(s)
      PROVE  /\ SignalsTypeOK' /\ calls' \in [Slots -> Nat]
             /\ UNCHANGED <<dmaEvt, spinDone, pruAlive, running, left>>
    BY <1>a, <1>b, <1>c DEF CallBegins, pruDma
<1>1. ASSUME NEW n \in Words[s], DmaRefused(s, n) PROVE Core' /\ Frame'
    <2>1. Core' /\ KeepsRunning
        BY <1>1, <1>a, <1>c, ResultKeepsCore DEF DmaRefused
    <2>2. CallerType'
        BY <1>1, <1>a, <1>c, CallerMoves DEF DmaRefused
    <2> QED BY <1>1, <1>a, <1>c, <2>1, <2>2, FrameKept DEF DmaRefused
<1>2. ASSUME NEW n \in Words[s], DmaByCpu(s, n) PROVE Core' /\ Frame'
    <2>1. Core' /\ KeepsRunning
        BY <1>2, <1>a, <1>c, ResultKeepsCore DEF DmaByCpu
    <2>2. CallerType'
        BY <1>2, <1>a, <1>c, CallerMoves DEF DmaByCpu
    <2> QED BY <1>2, <1>a, <1>c, <2>1, <2>2, FrameKept DEF DmaByCpu
<1>3. ASSUME NEW n \in Words[s], DmaScheduled(s, n) PROVE Core' /\ Frame'
    <2>1. Core' /\ KeepsRunning
        BY <1>3, ScheduleKeepsCore
    <2>2. accepted' \in [Slots -> BOOLEAN] /\ moved' \in [Slots -> Nat] /\ CallBegins(s)
        BY <1>3, <1>a DEF DmaScheduled
    <2>3. CASE s \in CpuSlots
        BY <1>3, <1>a, <1>c, <2>1, <2>2, <2>3, CallerMoves, FrameKept DEF DmaScheduled
    <2>4. CASE s \notin CpuSlots
        BY <1>3, <1>a, <1>c, <2>1, <2>2, <2>4, CallerMoves, FrameKept DEF DmaScheduled
    <2> QED BY <2>3, <2>4
<1>4. ASSUME \/ DmaReturns(s) \/ DmaResultRead(s)
             \/ \E busy \in MaybeBusy : DmaAbandonKept(s, busy)
      PROVE  Core' /\ Frame'
    <2>1. /\ SchedulerUnchanged /\ UNCHANGED <<initVars, dmaEvt, calls, spinDone, pruAlive,
                                              running, left, accepted, moved>>
          /\ Reached(s, "read") \/ Reached(s, "idle")
        BY <1>4 DEF DmaReturns, DmaAbandonKept, DmaResultRead, pruDma
    <2>2. Core' /\ KeepsRunning
        BY <2>1, SchedulerIdle DEF Core
    <2>3. CallerType'
        BY <1>a, <2>1, CallerMoves
    <2> QED BY <1>a, <1>b, <2>1, <2>2, <2>3, FrameKept
<1>5. ASSUME DmaTimesOut(s) PROVE Core' /\ Frame'
    <2>1. Core' /\ KeepsRunning
        BY <1>5, <1>a, ResultKeepsCore DEF DmaTimesOut, ghosts
    <2>2. CallerType'
        BY <1>5, <1>a, CallerMoves DEF DmaTimesOut, ghosts
    <2> QED BY <1>5, <1>a, <1>b, <2>1, <2>2, FrameKept DEF DmaTimesOut, pruDma, ghosts
<1>6. ASSUME NEW busy \in MaybeBusy, DmaAbandonRetired(s, busy) PROVE Core' /\ Frame'
    <2>1. Core' /\ KeepsRunning
        BY <1>6, BusyIsBoolean, RetireKeepsCore
    <2>2. CallerType'
        BY <1>6, <1>a, CallerMoves DEF DmaAbandonRetired
    <2> QED BY <1>6, <1>a, <1>b, <2>1, <2>2, FrameKept DEF DmaAbandonRetired, pruDma
<1> QED BY <1>1, <1>2, <1>3, <1>4, <1>5, <1>6 DEF DeviceStep

-----------------------------------------------------------------------------
(* The completion of a chunk, by whichever thread takes the event.         *)
LEMMA ChunkCompleteKeepsCore ==
    ASSUME Core, ChunkComplete, pruAlive' = pruAlive
    PROVE  Core' /\ KeepsRunning
BY DiscardKeepsCore, FinishKeepsCore, NextChunkKeepsCore DEF ChunkComplete

(* The processor's spin in DMA() keeps the invariant.                      *)
LEMMA CpuStepKeeps ==
    ASSUME Core, Frame, NEW c \in CpuSlots, CpuStep(c)
    PROVE  Core' /\ Frame'
<1> USE DEF Places
<1>a. /\ CallerType /\ calls \in [Slots -> Nat] /\ spinDone \in BOOLEAN
      /\ accepted \in [Slots -> BOOLEAN] /\ moved \in [Slots -> Nat] /\ dmaEvt \in Event
      /\ SignalsTypeOK /\ c \in Slots
    BY DEF Frame, CallerType, Slots
<1>b. /\ OthersOfSpin
      /\ UNCHANGED <<initVars, calls, pruAlive, running, left, accepted, moved>>
    BY DEF CpuStep, CpuTakesEvent, CpuAcksEvent, CpuSeesCancel, CpuGivesUp, OthersOfSpin, pruDma
<1>c. SignalsTypeOK'
    BY <1>a, <1>b, SignalsUnchanged
<1>1. CASE CpuTakesEvent(c)
    <2>1. Core' /\ KeepsRunning
        BY <1>1, <1>b, ChunkCompleteKeepsCore DEF CpuTakesEvent
    <2>2. spinDone' \in BOOLEAN /\ UNCHANGED dmaEvt
        BY <1>1 DEF CpuTakesEvent, ChunkEventIsMine
    <2>3. CallerType'
        BY <1>1, <1>a, <1>b, <2>2, CallerMoves DEF CpuTakesEvent
    <2> QED BY <1>a, <1>b, <1>c, <2>1, <2>2, <2>3, FrameKept
<1>2. CASE CpuAcksEvent(c)
    <2>1. Core' /\ KeepsRunning
        BY <1>2, <1>b, SchedulerIdle DEF CpuAcksEvent, Core
    <2>2. spinDone' \in BOOLEAN /\ dmaEvt' \in Event
        BY <1>2, <1>a, EventCounters DEF CpuAcksEvent
    <2>3. CallerType'
        BY <1>2, <1>a, <1>b, <2>2, CallerMoves DEF CpuAcksEvent
    <2> QED BY <1>a, <1>b, <1>c, <2>1, <2>2, <2>3, FrameKept
<1>3. CASE CpuSeesCancel(c)
    <2>1. Core' /\ KeepsRunning
        BY <1>3, <1>b, SchedulerIdle DEF CpuSeesCancel, Core
    <2>2. CallerType' /\ UNCHANGED dmaEvt
        BY <1>3, <1>a, <1>b, CallerMoves DEF CpuSeesCancel
    <2> QED BY <1>a, <1>b, <1>c, <2>1, <2>2, FrameKept
<1>4. CASE CpuGivesUp(c)
    <2>1. Core' /\ KeepsRunning
        BY <1>4, <1>a, GiveUpKeepsCore
    <2>2. CallerType' /\ UNCHANGED dmaEvt
        BY <1>4, <1>a, <1>b, CallerMoves DEF CpuGivesUp
    <2> QED BY <1>a, <1>b, <1>c, <2>1, <2>2, FrameKept
<1> QED BY <1>1, <1>2, <1>3, <1>4 DEF CpuStep

(* A pass of worker() keeps the invariant.                                 *)
LEMMA WorkerStepKeeps ==
    ASSUME Core, Frame, WorkerStep
    PROVE  Core' /\ Frame'
<1>a. /\ CallerType /\ moved \in [Slots -> Nat] /\ dmaEvt \in Event /\ SignalsTypeOK
      /\ pruAlive \in BOOLEAN
    BY DEF Frame, Core
<1>b. UNCHANGED <<caller, pruAlive, running, left, accepted, moved>>
    BY DEF WorkerStep, WorkerSamplesInit, WorkerNotifies, WorkerChecksDma, WorkerTakesDma,
           WorkerAcksDma, OthersOfDmaEvent, OthersOfWorker, pruDma
<1>c. CallerType'
    BY <1>a, <1>b DEF CallerType, caller
<1>1. CASE WorkerSamplesInit
    <2>1. Core' /\ KeepsRunning
        BY <1>1, <1>a, <1>b, SchedulerIdle DEF WorkerSamplesInit
    <2>2. SignalsTypeOK' /\ UNCHANGED dmaEvt
        BY <1>1, <1>a, WorkerSamplesType DEF WorkerSamplesInit
    <2> QED BY <1>a, <1>b, <1>c, <2>1, <2>2, FrameKept
<1>2. CASE WorkerNotifies
    <2>1. Core' /\ KeepsRunning
        <3>1. CASE Cancels
            BY <1>2, <1>b, <3>1, BusyIsBoolean, CancelAllKeepsCore, FlagAssumption DEF WorkerNotifies
        <3>2. CASE ~Cancels
            BY <1>2, <1>a, <1>b, <3>2, SchedulerIdle DEF WorkerNotifies
        <3> QED BY <3>1, <3>2
    <2>2. SignalsTypeOK' /\ UNCHANGED dmaEvt
        BY <1>2, <1>a, WorkerNotifiesType DEF WorkerNotifies
    <2> QED BY <1>a, <1>b, <1>c, <2>1, <2>2, FrameKept
<1>3. ASSUME wpc' \in {"dmaLock", "dmaAck", "raise"}, wAny' \in BOOLEAN, OthersOfDmaEvent
      PROVE  SignalsTypeOK'
    BY <1>3, <1>a DEF OthersOfDmaEvent, SignalsTypeOK, signalVars, busVars
<1>4. CASE WorkerChecksDma
    <2>1. Core' /\ KeepsRunning
        BY <1>4, <1>a, <1>b, SchedulerIdle DEF WorkerChecksDma
    <2>2. wAny' \in BOOLEAN
        BY <1>4, <1>a DEF WorkerChecksDma, SignalsTypeOK, IsAcked
    <2>3. SignalsTypeOK' /\ UNCHANGED dmaEvt
        BY <1>3, <1>4, <2>2 DEF WorkerChecksDma
    <2> QED BY <1>a, <1>b, <1>c, <2>1, <2>3, FrameKept
<1>5. CASE WorkerTakesDma
    <2>1. Core' /\ KeepsRunning
        BY <1>5, <1>b, ChunkCompleteKeepsCore DEF WorkerTakesDma
    <2>2. SignalsTypeOK' /\ UNCHANGED dmaEvt
        BY <1>3, <1>5, <1>a DEF WorkerTakesDma, SignalsTypeOK
    <2> QED BY <1>a, <1>b, <1>c, <2>1, <2>2, FrameKept
<1>6. CASE WorkerAcksDma
    <2>1. Core' /\ KeepsRunning
        BY <1>6, <1>a, <1>b, SchedulerIdle DEF WorkerAcksDma
    <2>2. SignalsTypeOK'
        BY <1>3, <1>6, <1>a DEF WorkerAcksDma, SignalsTypeOK
    <2>3. dmaEvt' \in Event
        BY <1>6, <1>a, EventCounters DEF WorkerAcksDma
    <2> QED BY <1>a, <1>b, <1>c, <2>1, <2>2, <2>3, FrameKept
<1> QED BY <1>1, <1>2, <1>4, <1>5, <1>6 DEF WorkerStep

-----------------------------------------------------------------------------
(* A word moved, or timed out, leaves the PRU a count it can go on with.   *)
LEMMA WordKeepsCount ==
    ASSUME Core, Frame, NEW timeout \in BOOLEAN, PruMovesWord(timeout)
    PROVE  /\ left' \in Nat /\ running' \in BOOLEAN /\ CountsDown'
           /\ mbox' \in Mailboxes /\ mbox'.words = mbox.words
<1>1. left \in Nat /\ left > 0 /\ mbox \in Mailboxes
    BY DEF PruMovesWord, Frame, CountsDown, Core
<1>2. CASE timeout
    <2>1. mbox' = [mbox EXCEPT !.status = "timeoutstop"] /\ left' = left /\ running' = FALSE
        BY <1>2 DEF PruMovesWord
    <2> QED BY <1>1, <2>1 DEF CountsDown, Mailboxes, Statuses
<1>3. CASE ~timeout /\ left = 1
    <2>1. mbox' = [mbox EXCEPT !.status = "ready"] /\ left' = left - 1 /\ running' = FALSE
        BY <1>3 DEF PruMovesWord
    <2>2. left' \in Nat
        BY <1>1, <2>1
    <2>3. mbox' \in Mailboxes /\ mbox'.words = mbox.words
        BY <1>1, <2>1 DEF Mailboxes, Statuses
    <2> QED BY <2>1, <2>2, <2>3 DEF CountsDown
<1>4. CASE ~timeout /\ left # 1 /\ busInit
    <2>1. mbox' = [mbox EXCEPT !.status = "initstop"] /\ left' = left - 1 /\ running' = FALSE
        BY <1>4 DEF PruMovesWord
    <2>2. left' \in Nat
        BY <1>1, <2>1
    <2>3. mbox' \in Mailboxes /\ mbox'.words = mbox.words
        BY <1>1, <2>1 DEF Mailboxes, Statuses
    <2> QED BY <2>1, <2>2, <2>3 DEF CountsDown
<1>5. CASE ~timeout /\ left # 1 /\ ~busInit
    <2>1. mbox' = [mbox EXCEPT !.status = "running"] /\ left' = left - 1 /\ running' = TRUE
        BY <1>5 DEF PruMovesWord
    <2>2. left' \in Nat /\ left' > 0
        BY <1>1, <1>5, <2>1
    <2>3. mbox' \in Mailboxes /\ mbox'.words = mbox.words
        BY <1>1, <2>1 DEF Mailboxes, Statuses
    <2> QED BY <2>1, <2>2, <2>3 DEF CountsDown
<1> QED BY <1>2, <1>3, <1>4, <1>5

(* A turn of the PRU loop keeps the invariant.                             *)
LEMMA PruStepKeeps ==
    ASSUME Core, Frame, PruStep
    PROVE  Core' /\ Frame'
<1>a. /\ CallerType /\ moved \in [Slots -> Nat] /\ dmaEvt \in Event /\ SignalsTypeOK
      /\ running \in BOOLEAN /\ left \in Nat /\ CountsDown
      /\ mbox \in Mailboxes /\ pruReq \in Requests
    BY DEF Frame, Core
<1>b. OthersOfPru /\ UNCHANGED <<tables, orphan, reqs, carrier, pruAlive>>
    BY DEF PruStep, PruSamples, PruStartsDma, PruMovesWord, PruStopsSilently, OthersOfPru
<1>c. CallerType'
    BY <1>a, <1>b DEF CallerType, OthersOfPru, caller
<1>1. CASE PruSamples
    <2>1. /\ pruReq' = [pruReq EXCEPT !.npr = @ /\ ~busInit]
          /\ UNCHANGED <<mbox, dmaEvt, running, left, moved>>
        BY <1>1 DEF PruSamples, pruDma
    <2>2. pruReq' \in Requests /\ (pruReq'.npr => pruReq.npr) /\ (pruReq'.cpu => pruReq.cpu)
        BY <1>a, <2>1 DEF Requests
    <2>3. Core'
        BY <1>a, <1>b, <2>1, <2>2, PruKeepsCore
    <2>4. SignalsTypeOK'
        BY <1>1, <1>a, PruSignalsType DEF PruSamples
    <2> QED BY <1>a, <1>c, <2>1, <2>3, <2>4 DEF Frame, CountsDown
<1>2. CASE PruStartsDma
    <2>1. /\ pruReq.npr \/ pruReq.cpu
          /\ \/ pruReq' = [pruReq EXCEPT !.npr = FALSE]
             \/ pruReq' = [pruReq EXCEPT !.cpu = FALSE]
          /\ running' = TRUE /\ left' = mbox.words
          /\ mbox' = [mbox EXCEPT !.status = "running"]
          /\ UNCHANGED <<initVars, dmaEvt, moved>>
        BY <1>2 DEF PruStartsDma
    <2>2. pruReq' \in Requests /\ (pruReq'.npr => pruReq.npr) /\ (pruReq'.cpu => pruReq.cpu)
        BY <1>a, <2>1 DEF Requests
    <2>3. mbox' \in Mailboxes /\ mbox'.words = mbox.words
        BY <1>a, <2>1 DEF Mailboxes, Statuses
    <2>4. Core'
        BY <1>b, <2>2, <2>3, PruKeepsCore
    <2>5. left' \in Nat /\ left' > 0
        BY <1>a, <2>1 DEF Core, Mailboxes
    <2>6. SignalsTypeOK'
        BY <1>a, <2>1, SignalsUnchanged
    <2> QED BY <1>a, <1>c, <2>1, <2>4, <2>5, <2>6 DEF Frame, CountsDown
<1>3. ASSUME NEW timeout \in BOOLEAN, PruMovesWord(timeout) PROVE Core' /\ Frame'
    <2>1. /\ left' \in Nat /\ running' \in BOOLEAN /\ CountsDown'
          /\ mbox' \in Mailboxes /\ mbox'.words = mbox.words
        BY <1>3, WordKeepsCount
    <2>2. Core'
        BY <1>3, <1>a, <1>b, <2>1, PruKeepsCore DEF PruMovesWord
    <2>3. dmaEvt' \in Event
        BY <1>3, <1>a, EventCounters DEF PruMovesWord
    <2>4. irq' \in BOOLEAN /\ UNCHANGED <<workerVars, busVars, signalVars>>
        BY <1>3 DEF PruMovesWord
    <2>5. SignalsTypeOK'
        BY <1>a, <2>4 DEF SignalsTypeOK, workerVars, busVars, signalVars
    <2>6. moved' \in [Slots -> Nat]
        <3>1. CASE carrier = NoSlot \/ timeout
            BY <1>3, <1>a, <3>1 DEF PruMovesWord
        <3>2. CASE carrier \in Slots /\ ~timeout
            BY <1>3, <1>a, <3>2, SlotsAreNat DEF PruMovesWord
        <3> QED BY <3>1, <3>2 DEF Core
    <2> QED BY <1>c, <2>1, <2>2, <2>3, <2>5, <2>6 DEF Frame
<1>4. CASE PruStopsSilently
    <2>1. running' = FALSE /\ UNCHANGED <<initVars, left, mbox, dmaEvt, pruReq, moved>>
        BY <1>4 DEF PruStopsSilently
    <2>2. Core'
        BY <1>a, <1>b, <2>1, PruKeepsCore
    <2>3. SignalsTypeOK'
        BY <1>a, <2>1, SignalsUnchanged
    <2> QED BY <1>a, <1>c, <2>1, <2>2, <2>3 DEF Frame, CountsDown
<1> QED BY <1>1, <1>2, <1>3, <1>4 DEF PruStep

(* A wakeup for something else, a PRU that sticks and a change on the      *)
(* backplane keep the invariant, and so does no change at all.             *)
LEMMA SurroundingsKeep ==
    ASSUME Core, Frame,
           PruOtherEvent \/ PruSticks \/ BackplaneStep \/ UNCHANGED vars
    PROVE  Core' /\ Frame'
<1>a. CallerType /\ SignalsTypeOK /\ CountsDown /\ pruAlive \in BOOLEAN /\ dmaEvt \in Event
      /\ moved \in [Slots -> Nat]
    BY DEF Frame, Core
<1>b. UNCHANGED <<tables, orphan, reqs, caller, accepted, mbox, dmaEvt, pruReq,
                  running, left, carrier, moved>>
    BY DEF PruOtherEvent, PruSticks, BackplaneStep, OthersOfPru, vars, pruDma, ghosts
<1>1. CallerType'
    BY <1>a, <1>b DEF CallerType, caller
<1>2. SignalsTypeOK'
    <2>1. CASE PruOtherEvent
        BY <1>a, <2>1 DEF PruOtherEvent, SignalsTypeOK, workerVars, busVars, signalVars
    <2>2. CASE PruSticks \/ UNCHANGED vars
        BY <1>a, <2>2, SignalsUnchanged DEF PruSticks, vars
    <2>3. CASE BackplaneStep
        BY <1>a, <2>3, BackplaneType DEF BackplaneStep
    <2> QED BY <2>1, <2>2, <2>3
<1>3. pruAlive' \in BOOLEAN
    BY <1>a DEF PruOtherEvent, PruSticks, BackplaneStep, vars
<1>4. Core' /\ KeepsRunning
    BY <1>b, <1>3, SchedulerIdle DEF SchedulerUnchanged
<1> QED BY <1>1, <1>2, <1>4, <1>a, <1>b, FrameKept

-----------------------------------------------------------------------------
(* IndInv is inductive: DMA() calls, deadlines, the spinning processor,    *)
(* worker passes, PRU turns, INIT and DCLO in any order preserve it.       *)
THEOREM Inductive == Spec => []IndInv
<1>1. Init => IndInv
    BY InitParts, IndInvParts
<1>2. IndInv /\ [Next]_vars => IndInv'
    <2>a. IndInv' <=> Core' /\ Frame'
        BY IndInvParts, PTL
    <2> SUFFICES ASSUME Core, Frame, [Next]_vars PROVE Core' /\ Frame'
        BY <2>a, IndInvParts
    <2>1. CASE \E s \in Slots : DeviceStep(s)
        BY <2>1, DeviceStepKeeps
    <2>2. CASE \E c \in CpuSlots : CpuStep(c)
        BY <2>2, CpuStepKeeps
    <2>3. CASE WorkerStep
        BY <2>3, WorkerStepKeeps
    <2>4. CASE PruStep
        BY <2>4, PruStepKeeps
    <2>5. CASE PruOtherEvent \/ PruSticks \/ BackplaneStep \/ UNCHANGED vars
        BY <2>5, SurroundingsKeep
    <2> QED BY <2>1, <2>2, <2>3, <2>4, <2>5 DEF Next
<1> QED BY <1>1, <1>2, PTL DEF Spec

(* Every variable of the scheduler, the mailbox, the callers, the worker   *)
(* and the PRU keeps its type; the PRU never counts below zero words.      *)
THEOREM TypesHold == Spec => []TypeOK
<1>1. IndInv => TypeOK
    BY DEF IndInv
<1> QED BY <1>1, Inductive, PTL

(* The asserts of request_activate_lowest_slot and request_active_complete *)
(* never fire: the active request and the slot tables always agree.        *)
THEOREM TablesAgree == Spec => []TablesConsistent
<1>1. IndInv => TablesConsistent
    BY DEF IndInv
<1> QED BY <1>1, Inductive, PTL

(* The asserts on the chunk in request_execute_active_on_PRU and in        *)
(* worker_device_dma_chunk_complete_event never fire: a chunk has words    *)
(* and stays within the request, for every MaxChunk and every word count.  *)
THEOREM ChunksFit == Spec => []ChunkFits
<1>1. IndInv => ChunkFits
    BY DEF IndInv
<1> QED BY <1>1, Inductive, PTL
-----------------------------------------------------------------------------
(* The exchange over mailbox->dma, with device threads only or with the    *)
(* emulated processor only (together they meet the finding dma_cpu_race),  *)
(* a PRU that answers, a latch that does not expire and no cancel refused  *)
(* for an interrupt. A request with a deadline is at most one chunk: every *)
(* caller that gives one stays within PRU_MAX_DMA_WORDCOUNT (qunibus.cpp,  *)
(* cpuvax.cpp, webapi.cpp). Two completions may be unanswered.             *)
Scope ==
    /\ DevSlots = {} \/ CpuSlots = {}
    /\ ~PruMayStick /\ ~OrphanExpires /\ ~IntrOnBus
    /\ EventMod > 2
    /\ \A s \in TimedSlots : \A n \in Words[s] : n <= MaxChunk

(* The phases of a transfer in the mailbox. Untaken counts completions     *)
(* that no thread has started to dispatch.                                 *)
NoRequest == ~pruReq.npr /\ ~pruReq.cpu
Untaken == Pending(dmaEvt) - Taken

Free   == NoRequest /\ ~running /\ Untaken = 0
Asked  == /\ (pruReq.npr <=> ~mbox.cpu) /\ (pruReq.cpu <=> mbox.cpu)
          /\ ~running /\ Untaken = 0 /\ mbox.status = "arbitrating"
Moving == NoRequest /\ running /\ Untaken = 0 /\ mbox.status = "running"
Ended  == NoRequest /\ ~running /\ Untaken = 1 /\ mbox.status \in Finished

(* What the mailbox holds for the active request; a request that INIT      *)
(* dropped still reads as arbitrating.                                     *)
Mine ==
    /\ executing[active] /\ carrier = active
    /\ mbox.words = MinOf(MaxChunk, wordcount[active] - done[active])
    /\ Free => mbox.status = "arbitrating"

(* The mailbox is free, or serves the active request, or the orphan while  *)
(* everything in the tables waits for that one's completion.               *)
Exchange ==
    /\ Free \/ Asked \/ Moving \/ Ended
    /\ ~orphan /\ active = NoSlot => Free
    /\ ~orphan /\ active # NoSlot => Mine
    /\ orphan => /\ Moving \/ Ended
                 /\ carrier = NoSlot /\ \A s \in scheduled : ~executing[s]

(* A request with a deadline is pushed once: if it executes, it is active. *)
PushedOnce ==
    \A s \in TimedSlots \cap scheduled :
        done[s] = 0 /\ wordcount[s] <= MaxChunk /\ (executing[s] => s = active)

(* Who dispatches the completion: worker() or the processor, never both.   *)
OneSide ==
    Pending(dmaEvt) > 0 \/ running \/ ~NoRequest => (mbox.cpu <=> CpuSlots # {})
Takers ==
    /\ CpuSlots # {} => wpc \notin {"dmaLock", "dmaAck"}
    /\ wpc = "dmaLock" => Ended
    /\ \A s \in Slots : pc[s] = "abandon" => s \in TimedSlots

MailInv == pruAlive /\ Exchange /\ PushedOnce /\ OneSide /\ Takers

(* The PRU holds nothing for the active request. No step but a sample of   *)
(* INIT makes it so; Orderly is what each of the others keeps.             *)
Dropped == Free /\ ~orphan /\ active # NoSlot
Orderly == Exchange' /\ PushedOnce' /\ OneSide' /\ (Dropped' => Dropped)

(* Words moved, words of finished chunks and the PRU's count belong        *)
(* together in every phase.                                                *)
Progress ==
    /\ Free \/ Asked => moved[active] = done[active]
    /\ Moving => moved[active] + left = done[active] + mbox.words
    /\ Ended /\ mbox.status = "ready" => moved[active] = done[active] + mbox.words
Settled(s) ==
    /\ accepted[s] => ~success[s]
    /\ orphan \/ s # active => moved[s] = done[s]
MovedInv ==
    /\ SuccessMeansMoved
    /\ \A s \in scheduled : Settled(s)
    /\ ~orphan /\ active # NoSlot => Progress

-----------------------------------------------------------------------------
(* Only the processor takes the mutex across two steps, so with device     *)
(* threads alone it is free; at most one completion is being dispatched.   *)
LEMMA TakenRange ==
    ASSUME Takers
    PROVE  Taken \in {0, 1} /\ (CpuSlots = {} => LockFree)
<1>1. CpuSlots = {} => LockFree
    BY DEF LockFree
<1>2. wpc = "dmaAck" => LockFree
    BY <1>1 DEF Takers
<1> QED BY <1>1, <1>2 DEF Taken, B

(* The counter of DMA completions, as far as it is used.                   *)
LEMMA DmaCount ==
    ASSUME dmaEvt \in Event
    PROVE  /\ Pending(dmaEvt) \in Nat /\ Pending(dmaEvt) < EventMod
           /\ Pending(dmaEvt) = 0 <=> IsAcked(dmaEvt)
<1>1. dmaEvt.sig \in Counter
    BY DEF Event
<1> QED BY <1>1, PendingCount, SignalAssumption

(* A caller that moves between places without the mutex leaves it alone.   *)
LEMMA LockStays ==
    ASSUME CallerType, NEW s \in Slots, NEW p, Reached(s, p), p # "ack", pc[s] # "ack"
    PROVE  LockFree' = LockFree
<1>1. \A c \in CpuSlots : c \in Slots
    BY DEF Slots
<1>2. \A c \in CpuSlots : pc'[c] # "ack" <=> pc[c] # "ack"
    BY <1>1 DEF CallerType, Reached
<1> QED BY <1>2 DEF LockFree

(* A step that neither signals nor dispatches leaves Untaken as it is.     *)
LEMMA UntakenStays ==
    ASSUME UNCHANGED dmaEvt, LockFree' = LockFree, wpc' = "dmaAck" <=> wpc = "dmaAck"
    PROVE  Untaken' = Untaken /\ Taken' = Taken /\ Pending(dmaEvt') = Pending(dmaEvt)
<1>1. B(wpc' = "dmaAck") = B(wpc = "dmaAck") /\ B(~LockFree') = B(~LockFree)
    BY DEF B
<1>2. Taken' = Taken
    BY <1>1 DEF Taken
<1> QED BY <1>2 DEF Untaken

(* request_execute_active_on_PRU into a free mailbox: the PRU is asked for *)
(* the next chunk of a.                                                    *)
LEMMA Pushes ==
    ASSUME Scope, pruAlive, NEW a \in Slots, NEW ex \in [Slots -> BOOLEAN],
           NEW wc, NEW dn, NEW pr \in Requests, ~pr.npr, ~pr.cpu,
           ExecuteOnPRU(a, FALSE, ex, wc, dn, pr), ~running', Untaken' = 0
    PROVE  /\ Asked' /\ executing' = [ex EXCEPT ![a] = TRUE] /\ carrier' = a
           /\ mbox'.words = MinOf(MaxChunk, wc[a] - dn[a])
           /\ mbox'.cpu <=> CpuSlots # {}
<1>1. a # NoSlot
    BY SlotsAreNat
<1>2. /\ mbox' = [status |-> "arbitrating", words |-> MinOf(MaxChunk, wc[a] - dn[a]),
                  cpu |-> a \in CpuSlots]
      /\ pruReq' = [npr |-> pr.npr \/ a \notin CpuSlots, cpu |-> pr.cpu \/ a \in CpuSlots]
      /\ executing' = [ex EXCEPT ![a] = TRUE] /\ carrier' = a
    BY <1>1 DEF ExecuteOnPRU, HeldOff
<1>3. a \in CpuSlots <=> CpuSlots # {}
    BY DEF Scope, Slots
<1>4. Asked'
    BY <1>2 DEF Asked
<1> QED BY <1>2, <1>3, <1>4

(* After such a push the exchange is in order, if the tables are.          *)
LEMMA PushedExchange ==
    ASSUME Scope, pruAlive, NEW a \in Slots, NEW ex \in [Slots -> BOOLEAN],
           NEW wc, NEW dn, NEW pr \in Requests, ~pr.npr, ~pr.cpu,
           ExecuteOnPRU(a, FALSE, ex, wc, dn, pr), ~running', Untaken' = 0,
           active' = a, ~orphan', wordcount' = wc, done' = dn, scheduled' \subseteq Slots,
           \A s \in TimedSlots \cap scheduled' :
              dn[s] = 0 /\ wc[s] <= MaxChunk /\ (ex[s] => s = a)
    PROVE  Asked' /\ Orderly
<1>1. /\ Asked' /\ executing' = [ex EXCEPT ![a] = TRUE] /\ carrier' = a
      /\ mbox'.words = MinOf(MaxChunk, wc[a] - dn[a])
      /\ mbox'.cpu <=> CpuSlots # {}
    BY Pushes
<1>2. a # NoSlot
    BY SlotsAreNat
<1>3. executing'[a]
    BY <1>1
<1>4. Exchange'
    <2>1. mbox'.status = "arbitrating"
        BY <1>1 DEF Asked
    <2> QED BY <1>1, <1>2, <1>3, <2>1 DEF Exchange, Mine
<1>5. PushedOnce'
    BY <1>1 DEF PushedOnce
<1>6. OneSide' /\ ~Dropped'
    BY <1>1 DEF OneSide, Asked, Dropped, Free, NoRequest
<1> QED BY <1>1, <1>4, <1>5, <1>6 DEF Orderly

(* ... and so are the words, if all requests of the tables are settled.    *)
LEMMA PushedMoves ==
    ASSUME Asked', ~orphan', SuccessMeansMoved', active' # NoSlot => active' \in scheduled',
           \A s \in scheduled' : (accepted'[s] => ~success'[s]) /\ moved'[s] = done'[s]
    PROVE  MovedInv'
<1>1. active' # NoSlot => Progress'
    <2>1. ~Moving' /\ ~Ended'
        BY DEF Asked, Moving, Ended
    <2> QED BY <2>1 DEF Progress
<1>2. \A s \in scheduled' : Settled(s)'
    BY DEF Settled
<1> QED BY <1>1, <1>2 DEF MovedInv

(* With the tables empty and nothing asked of the PRU, all is in order.    *)
LEMMA FreeExchange ==
    ASSUME NoRequest', ~running', Untaken' = 0, active' = NoSlot, ~orphan', scheduled' = {},
           mbox'.cpu = mbox.cpu, OneSide, Pending(dmaEvt') = Pending(dmaEvt)
    PROVE  Orderly
<1>1. Free' /\ Exchange'
    BY DEF Free, Exchange
<1> QED BY <1>1 DEF PushedOnce, OneSide, Orderly, Dropped

(* The completion of the orphan: the request it held off is pushed.        *)
LEMMA DiscardMails ==
    ASSUME Scope, Core, Frame, MailInv, MovedInv, Ended, DiscardChunkEvent,
           UNCHANGED <<running, pruAlive, left, accepted, moved>>,
           Untaken' = 0, Pending(dmaEvt') = Pending(dmaEvt)
    PROVE  Orderly /\ MovedInv'
<1>1. orphan
    BY DEF DiscardChunkEvent, ChunkEventIsMine, MailInv, Exchange, Free, Ended
<1>2. /\ ~orphan' /\ UNCHANGED <<scheduled, active, complete, success, wordcount, done>>
      /\ ExecuteOnPRU(active, FALSE, executing, wordcount, done, pruReq)
    BY <1>1 DEF DiscardChunkEvent, StaysHeldOff, tables
<1>3. /\ NoRequest /\ ~running /\ pruAlive /\ ~running' /\ pruReq \in Requests
      /\ executing \in [Slots -> BOOLEAN] /\ scheduled \subseteq Slots
      /\ active \in Slots \cup {NoSlot} /\ TablesConsistent
    BY DEF Ended, MailInv, Core, RequestsType, SchedulerType
<1>4. \A s \in scheduled : ~executing[s] /\ moved[s] = done[s] /\ (accepted[s] => ~success[s])
    BY <1>1 DEF MailInv, Exchange, MovedInv, Settled
<1>5. SuccessMeansMoved'
    BY <1>2 DEF MovedInv, SuccessMeansMoved
<1>6. CASE active = NoSlot
    <2>1. UNCHANGED <<mbox, pruReq>> /\ scheduled = {}
        BY <1>2, <1>3, <1>6 DEF ExecuteOnPRU, TablesConsistent
    <2>2. NoRequest'
        BY <1>3, <2>1 DEF NoRequest
    <2>3. Orderly
        BY <1>2, <1>3, <1>6, <2>1, <2>2, FreeExchange DEF MailInv
    <2> QED BY <1>2, <1>5, <1>6, <2>1, <2>3 DEF MovedInv
<1>7. CASE active # NoSlot
    <2>1. active \in Slots /\ active \in scheduled
        BY <1>3, <1>7 DEF TablesConsistent
    <2>2. \A s \in TimedSlots \cap scheduled :
              done[s] = 0 /\ wordcount[s] <= MaxChunk /\ (executing[s] => s = active)
        BY DEF MailInv, PushedOnce
    <2>3. ~pruReq.npr /\ ~pruReq.cpu
        BY <1>3 DEF NoRequest
    <2>4. Asked' /\ Orderly
        BY <1>2, <1>3, <2>1, <2>2, <2>3, PushedExchange
    <2>5. MovedInv'
        BY <1>2, <1>4, <1>5, <2>1, <2>4, PushedMoves
    <2> QED BY <2>4, <2>5
<1> QED BY <1>6, <1>7

(* The last chunk, or a failed one: success is only reported of a request  *)
(* whose words are all moved, and the next one gets the mailbox.           *)
LEMMA FinishMails ==
    ASSUME Scope, Core, Frame, MailInv, MovedInv, Ended, FinishRequest,
           UNCHANGED <<running, pruAlive, left, accepted, moved>>,
           Untaken' = 0, Pending(dmaEvt') = Pending(dmaEvt)
    PROVE  Orderly /\ MovedInv'
<1> DEFINE rest == scheduled \ {active}
           next == LowestSlot(rest)
           ex == [executing EXCEPT ![active] = FALSE]
<1>1. ~orphan /\ active # NoSlot /\ active \in Slots /\ rest \in SUBSET Slots
    BY DEF Core, SchedulerType, FinishRequest, ChunkEventIsMine
<1>2. /\ next \in Slots \cup {NoSlot}
      /\ (next = NoSlot) <=> (rest = {})
      /\ next # NoSlot => next \in rest
    BY <1>1, LowestOf
<1>3. /\ NoRequest /\ ~running /\ pruAlive /\ ~running' /\ pruReq \in Requests
      /\ executing \in [Slots -> BOOLEAN] /\ success \in [Slots -> BOOLEAN]
      /\ ex \in [Slots -> BOOLEAN] /\ mbox.status \in Finished
    BY DEF Ended, MailInv, Core, RequestsType
<1>4. /\ scheduled' = rest /\ active' = next /\ UNCHANGED <<orphan, wordcount, done>>
      /\ ExecuteOnPRU(next, FALSE, ex, wordcount, done, pruReq)
      /\ success' = [success EXCEPT ![active] = mbox.status = "ready"]
      /\ mbox.status = "ready" => done[active] + mbox.words = wordcount[active]
    BY DEF FinishRequest, ChunkSucceeded
<1> HIDE DEF next, ex
<1>5. mbox.status = "ready" => moved[active] = wordcount[active]
    BY <1>1, <1>4 DEF MovedInv, Progress
<1>6. SuccessMeansMoved'
    <2>1. \A s \in Slots : s # active => success'[s] = success[s]
        BY <1>3, <1>4
    <2>2. success'[active] => mbox.status = "ready"
        BY <1>1, <1>3, <1>4
    <2> QED BY <1>4, <1>5, <2>1, <2>2 DEF MovedInv, SuccessMeansMoved
<1>7. \A s \in rest : moved[s] = done[s] /\ (accepted[s] => ~success'[s])
    BY <1>1, <1>3, <1>4 DEF MovedInv, Settled
<1>8. CASE next = NoSlot
    <2>1. UNCHANGED <<mbox, pruReq>> /\ rest = {}
        BY <1>2, <1>4, <1>8 DEF ExecuteOnPRU
    <2>2. NoRequest'
        BY <1>3, <2>1 DEF NoRequest
    <2>3. Orderly
        BY <1>1, <1>3, <1>4, <1>8, <2>1, <2>2, FreeExchange DEF MailInv
    <2> QED BY <1>4, <1>6, <1>8, <2>1, <2>3 DEF MovedInv
<1>9. CASE next # NoSlot
    <2>1. next \in Slots /\ next \in rest
        BY <1>1, <1>2, <1>9
    <2>2. \A s \in TimedSlots \cap rest :
              done[s] = 0 /\ wordcount[s] <= MaxChunk /\ (ex[s] => s = next)
        <3>1. \A s \in TimedSlots \cap rest : ex[s] = executing[s] /\ s # active
            BY <1>1, <1>3 DEF ex
        <3> QED BY <3>1 DEF MailInv, PushedOnce
    <2>3. ~pruReq.npr /\ ~pruReq.cpu
        BY <1>3 DEF NoRequest
    <2>4. Asked' /\ Orderly
        BY <1>1, <1>3, <1>4, <2>1, <2>2, <2>3, PushedExchange
    <2>5. MovedInv'
        BY <1>1, <1>4, <1>6, <1>7, <2>1, <2>4, PushedMoves
    <2> QED BY <2>4, <2>5
<1> QED BY <1>8, <1>9

(* One chunk of several: its words are moved, so the next chunk starts     *)
(* where they end. A request with a deadline is never here.                *)
LEMMA NextChunkMails ==
    ASSUME Scope, Core, Frame, MailInv, MovedInv, Ended, NextChunk,
           UNCHANGED <<running, pruAlive, left, accepted, moved>>,
           Untaken' = 0, Pending(dmaEvt') = Pending(dmaEvt)
    PROVE  Orderly /\ MovedInv'
<1> DEFINE next == LowestSlot(scheduled)
           dn == [done EXCEPT ![active] = done[active] + mbox.words]
<1>1. /\ ~orphan /\ active # NoSlot /\ active \in Slots /\ active \in scheduled
      /\ scheduled \in SUBSET Slots
    BY DEF Core, SchedulerType, NextChunk, ChunkEventIsMine, TablesConsistent
<1>2. next \in scheduled /\ next \in Slots /\ next # NoSlot
    BY <1>1, LowestIsMember, SlotsAreNat
<1>3. /\ NoRequest /\ ~running /\ pruAlive /\ ~running' /\ pruReq \in Requests
      /\ executing \in [Slots -> BOOLEAN] /\ done \in [Slots -> Nat]
      /\ wordcount \in [Slots -> Nat] /\ mbox.words \in Nat
    BY DEF Ended, MailInv, Core, RequestsType, Mailboxes
<1>4. /\ active' = next /\ done' = dn
      /\ UNCHANGED <<scheduled, orphan, complete, success, wordcount>>
      /\ ExecuteOnPRU(next, FALSE, executing, wordcount, dn, pruReq)
      /\ mbox.status = "ready" /\ done[active] + mbox.words < wordcount[active]
    BY DEF NextChunk, NextChunkStart
<1> HIDE DEF next
<1>5. active \notin TimedSlots
    <2>1. mbox.words = MinOf(MaxChunk, wordcount[active] - done[active])
        BY <1>1 DEF MailInv, Exchange, Mine
    <2>2. active \in TimedSlots => done[active] = 0 /\ wordcount[active] <= MaxChunk
        BY <1>1 DEF MailInv, PushedOnce
    <2> QED BY <1>1, <1>3, <1>4, <2>1, <2>2, BoundAssumption DEF MinOf
<1>6. moved[active] = done[active] + mbox.words
    BY <1>1, <1>4 DEF MovedInv, Progress
<1>7. \A s \in scheduled : moved[s] = dn[s] /\ (accepted[s] => ~success[s])
    <2>1. \A s \in scheduled : s # active => moved[s] = done[s]
        BY DEF MovedInv, Settled
    <2>2. \A s \in scheduled : accepted[s] => ~success[s]
        BY DEF MovedInv, Settled
    <2>3. \A s \in scheduled : s # active => dn[s] = done[s]
        BY <1>1, <1>3
    <2>4. dn[active] = done[active] + mbox.words
        BY <1>1, <1>3
    <2> HIDE DEF dn
    <2> QED BY <1>6, <2>1, <2>2, <2>3, <2>4
<1>8. SuccessMeansMoved'
    BY <1>4 DEF MovedInv, SuccessMeansMoved
<1>9. \A s \in TimedSlots \cap scheduled :
          dn[s] = 0 /\ wordcount[s] <= MaxChunk /\ (executing[s] => s = next)
    <2>1. \A s \in TimedSlots \cap scheduled : s # active /\ dn[s] = done[s]
        BY <1>1, <1>3, <1>5
    <2> HIDE DEF dn
    <2> QED BY <2>1 DEF MailInv, PushedOnce
<1>10. ~pruReq.npr /\ ~pruReq.cpu
    BY <1>3 DEF NoRequest
<1> HIDE DEF dn
<1>11. Asked' /\ Orderly
    BY <1>1, <1>2, <1>3, <1>4, <1>9, <1>10, PushedExchange
<1>12. MovedInv'
    BY <1>1, <1>2, <1>4, <1>7, <1>8, <1>11, PushedMoves
<1> QED BY <1>11, <1>12

-----------------------------------------------------------------------------
(* Nothing else than a running or finished transfer keeps the PRU from     *)
(* giving back what is in the mailbox for the active request.              *)
LEMMA TakenBack ==
    ASSUME Core, MailInv, ~orphan, active # NoSlot
    PROVE  /\ Free \/ Asked <=> CancelledOnPru(FALSE)
           /\ CancelledOnPru(FALSE) <=> PruTakesBack(FALSE)
           /\ CancelledOnPru(FALSE) =>
                /\ ~ReqAfterCancel(FALSE).npr /\ ~ReqAfterCancel(FALSE).cpu
                /\ ~running /\ Untaken = 0 /\ ReqAfterCancel(FALSE) \in Requests
           /\ MboxAfterCancel(FALSE).cpu = mbox.cpu
<1>1. /\ Free \/ Asked \/ Moving \/ Ended
      /\ Free => mbox.status = "arbitrating"
      /\ pruAlive /\ mbox \in Mailboxes /\ pruReq \in Requests
    BY DEF MailInv, Exchange, Mine, Core
<1>2. CASE Free \/ Asked
    <2>1. mbox.status = "arbitrating" /\ ~running /\ Untaken = 0
        BY <1>1, <1>2 DEF Free, Asked
    <2>2. PruTakesBack(FALSE) /\ CancelledOnPru(FALSE)
        BY <1>1, <2>1 DEF PruTakesBack, CancelledOnPru
    <2>3. (pruReq.npr /\ mbox.cpu) = FALSE /\ (pruReq.cpu /\ ~mbox.cpu) = FALSE
        BY <1>2 DEF Free, Asked, NoRequest
    <2>4. ReqAfterCancel(FALSE) = [npr |-> FALSE, cpu |-> FALSE]
        BY <2>2, <2>3 DEF ReqAfterCancel
    <2>5. /\ ~ReqAfterCancel(FALSE).npr /\ ~ReqAfterCancel(FALSE).cpu
          /\ ReqAfterCancel(FALSE) \in Requests
        <3> DEFINE none == [npr |-> FALSE, cpu |-> FALSE]
        <3>1. ~none.npr /\ ~none.cpu /\ none \in Requests
            BY DEF Requests
        <3>2. ReqAfterCancel(FALSE) = none
            BY <2>4
        <3> HIDE DEF none
        <3> QED BY <3>1, <3>2, Zenon
    <2>6. MboxAfterCancel(FALSE).cpu = mbox.cpu
        BY <1>1, <2>2 DEF MboxAfterCancel, Mailboxes
    <2> QED BY <1>2, <2>1, <2>2, <2>5, <2>6
<1>3. CASE ~(Free \/ Asked)
    <2>1. mbox.status \in {"running"} \cup Finished
        BY <1>1, <1>3 DEF Moving, Ended
    <2>2. ~PruTakesBack(FALSE) /\ ~CancelledOnPru(FALSE)
        BY <2>1 DEF PruTakesBack, CancelledOnPru, Finished
    <2>3. MboxAfterCancel(FALSE).cpu = mbox.cpu
        BY <2>2 DEF MboxAfterCancel
    <2> QED BY <1>3, <2>2, <2>3
<1> QED BY <1>2, <1>3

(* requests_cancel_all: what the PRU gives back leaves a free mailbox, and *)
(* what it does not give back is the orphan.                               *)
LEMMA CancelAllMails ==
    ASSUME Scope, Core, MailInv, MovedInv, CancelAll(FALSE, FALSE),
           UNCHANGED <<running, pruAlive, left, accepted, moved>>,
           Untaken' = Untaken, Pending(dmaEvt') = Pending(dmaEvt)
    PROVE  /\ Orderly /\ MovedInv'
           /\ Ended => Ended'
<1> DEFINE asked == \E s \in scheduled : executing[s]
<1>1. /\ scheduled' = {} /\ active' = NoSlot /\ carrier' = NoSlot
      /\ UNCHANGED <<wordcount, done>>
      /\ orphan' = (orphan \/ (asked /\ ~CancelledOnPru(FALSE)))
      /\ pruReq' = IF asked THEN ReqAfterCancel(FALSE) ELSE pruReq
      /\ mbox' = IF asked THEN MboxAfterCancel(FALSE) ELSE mbox
      /\ success' = [s \in Slots |-> success[s] /\ s \notin scheduled]
    BY DEF CancelAll, OrphanAfterCancel
<1>2. orphan \in BOOLEAN /\ TablesConsistent /\ success \in [Slots -> BOOLEAN]
    BY DEF Core, SchedulerType, RequestsType
<1>3. SuccessMeansMoved'
    BY <1>1, <1>2 DEF MovedInv, SuccessMeansMoved
<1>4. PushedOnce' /\ MovedInv'
    BY <1>1, <1>3 DEF PushedOnce, MovedInv
<1>5. CASE orphan
    <2>1. ~asked /\ (Moving \/ Ended)
        BY <1>5 DEF MailInv, Exchange
    <2>2. orphan' /\ UNCHANGED <<mbox, pruReq>>
        BY <1>1, <1>5, <2>1
    <2>3. (Moving => Moving') /\ (Ended => Ended')
        BY <2>2 DEF Moving, Ended, NoRequest
    <2>4. OneSide'
        BY <2>2 DEF MailInv, OneSide, NoRequest
    <2> QED BY <1>1, <1>4, <2>1, <2>2, <2>3, <2>4 DEF Exchange, Orderly, Dropped
<1>6. CASE ~orphan /\ active = NoSlot
    <2>1. scheduled = {} /\ Free
        BY <1>2, <1>6 DEF MailInv, Exchange, TablesConsistent
    <2>2. ~orphan' /\ UNCHANGED <<mbox, pruReq>>
        BY <1>1, <1>6, <2>1
    <2>3. NoRequest' /\ ~running' /\ Untaken' = 0 /\ ~Ended
        BY <2>1, <2>2 DEF Free, Ended, NoRequest
    <2> QED BY <1>1, <1>4, <2>2, <2>3, FreeExchange DEF MailInv
<1>7. CASE ~orphan /\ active # NoSlot
    <2>1. asked
        <3>1. active \in scheduled /\ executing[active]
            BY <1>2, <1>7 DEF MailInv, Exchange, Mine, TablesConsistent
        <3> QED BY <3>1
    <2> HIDE DEF asked
    <2>2. CASE CancelledOnPru(FALSE)
        <3>1. ~orphan' /\ pruReq' = ReqAfterCancel(FALSE) /\ mbox' = MboxAfterCancel(FALSE)
            BY <1>1, <1>7, <2>1, <2>2
        <3>2. NoRequest' /\ ~running' /\ Untaken' = 0 /\ mbox'.cpu = mbox.cpu
            BY <1>7, <2>2, <3>1, TakenBack DEF NoRequest
        <3>3. ~Ended
            BY <1>7, <2>2, TakenBack DEF Ended
        <3> QED BY <1>1, <1>4, <3>1, <3>2, <3>3, FreeExchange DEF MailInv
    <2>3. CASE ~CancelledOnPru(FALSE)
        <3>1. ~PruTakesBack(FALSE) /\ (Moving \/ Ended)
            BY <1>7, <2>3, TakenBack DEF MailInv, Exchange
        <3>2. orphan' /\ UNCHANGED <<mbox, pruReq>>
            BY <1>1, <2>1, <2>3, <3>1 DEF ReqAfterCancel, MboxAfterCancel
        <3>3. (Moving => Moving') /\ (Ended => Ended')
            BY <3>2 DEF Moving, Ended, NoRequest
        <3>4. OneSide'
            BY <3>2 DEF MailInv, OneSide, NoRequest
        <3> QED BY <1>1, <1>4, <3>1, <3>2, <3>3, <3>4 DEF Exchange, Orderly, Dropped
    <2> QED BY <2>2, <2>3
<1> QED BY <1>2, <1>5, <1>6, <1>7

(* DMA() puts a request into the tables: it is pushed into a free mailbox, *)
(* or waits for the active request or the orphan.                          *)
LEMMA ScheduleMails ==
    ASSUME Scope, Core, Frame, MailInv, MovedInv, NEW s \in Slots, NEW n \in Words[s],
           DmaScheduled(s, n), Untaken' = Untaken, Pending(dmaEvt') = Pending(dmaEvt)
    PROVE  /\ Orderly /\ MovedInv'
           /\ Ended => Ended'
<1> DEFINE tab == scheduled \cup {s}
           ex == [executing EXCEPT ![s] = FALSE]
           wc == [wordcount EXCEPT ![s] = n]
           dn == [done EXCEPT ![s] = 0]
<1>1. /\ s \notin scheduled /\ scheduled' = tab /\ wordcount' = wc /\ done' = dn
      /\ success' = [success EXCEPT ![s] = FALSE]
      /\ accepted' = [accepted EXCEPT ![s] = TRUE] /\ moved' = [moved EXCEPT ![s] = 0]
      /\ UNCHANGED <<orphan, running, left, pruAlive>>
    BY DEF DmaScheduled, CallBegins, pruDma
<1>2. /\ executing \in [Slots -> BOOLEAN] /\ success \in [Slots -> BOOLEAN]
      /\ wordcount \in [Slots -> Nat] /\ done \in [Slots -> Nat]
      /\ accepted \in [Slots -> BOOLEAN] /\ moved \in [Slots -> Nat]
      /\ scheduled \in SUBSET Slots /\ orphan \in BOOLEAN /\ TablesConsistent
      /\ active \in Slots \cup {NoSlot} /\ pruReq \in Requests
    BY DEF Core, RequestsType, SchedulerType, Frame, CallerType
<1>3. /\ ~ex[s] /\ wc[s] = n /\ dn[s] = 0 /\ ~success'[s] /\ moved'[s] = 0
      /\ \A t \in Slots : t # s => /\ ex[t] = executing[t] /\ wc[t] = wordcount[t]
                                   /\ dn[t] = done[t] /\ success'[t] = success[t]
                                   /\ moved'[t] = moved[t] /\ accepted'[t] = accepted[t]
    BY <1>1, <1>2
<1>4. SuccessMeansMoved'
    BY <1>1, <1>3 DEF MovedInv, SuccessMeansMoved
<1>5. s \in TimedSlots => n <= MaxChunk
    BY DEF Scope
<1>6. \A t \in tab : accepted'[t] => ~success'[t]
    BY <1>1, <1>2, <1>3 DEF MovedInv, Settled
<1> HIDE DEF ex, wc, dn
<1>7. CASE active = NoSlot
    <2>1. scheduled = {} /\ tab = {s}
        BY <1>2, <1>7 DEF TablesConsistent
    <2>2. LowestSlot(tab) = s
        <3>1. LowestSlot(tab) \in tab
            <4>1. tab \in SUBSET Slots /\ tab # {}
                BY <1>2
            <4> QED BY <4>1, LowestIsMember
        <3> QED BY <2>1, <3>1
    <2>3. active' = s /\ ExecuteOnPRU(s, orphan, ex, wc, dn, pruReq)
        BY <1>7, <2>2 DEF DmaScheduled, ex, wc, dn
    <2>4. \A t \in tab : moved'[t] = dn[t]
        BY <1>3, <2>1
    <2>5. \A t \in TimedSlots \cap tab : dn[t] = 0 /\ wc[t] <= MaxChunk /\ (ex[t] => t = s)
        BY <1>3, <1>5, <2>1
    <2>6. CASE orphan
        <3>1. executing' = ex /\ UNCHANGED <<mbox, pruReq, carrier>>
            BY <2>3, <2>6 DEF ExecuteOnPRU, HeldOff
        <3>2. (Moving => Moving') /\ (Ended => Ended') /\ OneSide'
            BY <1>1, <3>1 DEF MailInv, Moving, Ended, NoRequest, OneSide
        <3>3. (Moving \/ Ended) /\ carrier = NoSlot
            BY <2>6 DEF MailInv, Exchange
        <3>4. \A t \in tab : ~executing'[t]
            BY <1>3, <2>1, <3>1
        <3>5. Exchange'
            BY <1>1, <2>6, <3>1, <3>2, <3>3, <3>4 DEF Exchange
        <3>6. PushedOnce'
            BY <1>1, <2>3, <2>5, <3>1 DEF PushedOnce
        <3>7. MovedInv'
            BY <1>1, <1>4, <1>6, <2>4, <2>6 DEF MovedInv, Settled
        <3> QED BY <1>1, <2>6, <3>2, <3>5, <3>6, <3>7 DEF Orderly, Dropped
    <2>7. CASE ~orphan
        <3>1. Free /\ ~pruReq.npr /\ ~pruReq.cpu /\ ~running' /\ Untaken' = 0 /\ pruAlive
            BY <1>1, <1>7, <2>7 DEF MailInv, Exchange, Free, NoRequest
        <3>2. ExecuteOnPRU(s, FALSE, ex, wc, dn, pruReq)
            BY <2>3, <2>7 DEF ExecuteOnPRU, HeldOff
        <3>3. ex \in [Slots -> BOOLEAN] /\ tab \subseteq Slots
            BY <1>2 DEF ex
        <3>4. Asked' /\ Orderly
            BY <1>1, <1>2, <2>3, <2>5, <2>7, <3>1, <3>2, <3>3, PushedExchange
        <3>5. MovedInv'
            BY <1>1, <1>4, <1>6, <2>1, <2>3, <2>4, <2>7, <3>4, PushedMoves
        <3>6. ~Ended
            BY <3>1 DEF Free, Ended
        <3> QED BY <3>4, <3>5, <3>6
    <2> QED BY <1>2, <2>6, <2>7
<1>8. CASE active # NoSlot
    <2>1. executing' = ex /\ UNCHANGED <<active, mbox, pruReq, carrier>>
        BY <1>8 DEF DmaScheduled, ex
    <2>2. active \in scheduled /\ active # s /\ active \in Slots
        BY <1>1, <1>2, <1>8 DEF TablesConsistent
    <2>3. /\ executing'[active] = executing[active] /\ moved'[active] = moved[active]
          /\ wordcount'[active] = wordcount[active] /\ done'[active] = done[active]
        BY <1>1, <1>3, <2>1, <2>2
    <2>4. (Free' <=> Free) /\ (Asked' <=> Asked) /\ (Moving' <=> Moving) /\ (Ended' <=> Ended)
        BY <1>1, <2>1 DEF Free, Asked, Moving, Ended, NoRequest
    <2>5. OneSide'
        BY <1>1, <2>1 DEF MailInv, OneSide, NoRequest
    <2>6. PushedOnce'
        <3>1. \A t \in TimedSlots \cap scheduled : /\ done[t] = 0 /\ wordcount[t] <= MaxChunk
                                                   /\ executing[t] => t = active
            BY DEF MailInv, PushedOnce
        <3> QED BY <1>1, <1>2, <1>3, <1>5, <2>1, <3>1 DEF PushedOnce
    <2>7. orphan => \A t \in tab : ~executing'[t]
        BY <1>2, <1>3, <2>1 DEF MailInv, Exchange
    <2>8. Exchange'
        BY <1>1, <1>8, <2>1, <2>3, <2>4, <2>7 DEF MailInv, Exchange, Mine
    <2>9. Progress => Progress'
        BY <1>1, <2>1, <2>3, <2>4 DEF Progress
    <2>10. \A t \in tab : orphan \/ t # active => moved'[t] = dn[t]
        BY <1>2, <1>3 DEF MovedInv, Settled
    <2>11. MovedInv'
        BY <1>1, <1>4, <1>6, <2>1, <2>9, <2>10 DEF MovedInv, Settled
    <2> QED BY <1>1, <1>8, <2>4, <2>5, <2>6, <2>8, <2>11 DEF Orderly, Dropped
<1> QED BY <1>7, <1>8

-----------------------------------------------------------------------------
(* A step that leaves tables, mailbox and PRU alone, and reports no new    *)
(* success, keeps the exchange in its phase.                               *)
LEMMA QuietMails ==
    ASSUME MailInv, MovedInv,
           UNCHANGED <<scheduled, active, orphan, executing, wordcount, done, mbox, pruReq,
                       carrier, running, left, moved>>,
           \A s \in Slots : accepted'[s] /\ success'[s] => accepted[s] /\ success[s],
           scheduled \subseteq Slots,
           Untaken' = Untaken, Pending(dmaEvt') > 0 => Pending(dmaEvt) > 0
    PROVE  /\ Orderly /\ MovedInv'
           /\ Ended => Ended'
<1>1. (Free' <=> Free) /\ (Asked' <=> Asked) /\ (Moving' <=> Moving) /\ (Ended' <=> Ended)
    BY DEF Free, Asked, Moving, Ended, NoRequest
<1>2. Exchange'
    BY <1>1 DEF MailInv, Exchange, Mine
<1>3. PushedOnce' /\ OneSide'
    BY DEF MailInv, PushedOnce, OneSide, NoRequest
<1>4. SuccessMeansMoved'
    BY DEF MovedInv, SuccessMeansMoved
<1>5. Progress => Progress'
    BY <1>1 DEF Progress
<1>6. \A s \in scheduled : Settled(s) => Settled(s)'
    BY DEF Settled
<1>7. MovedInv'
    BY <1>4, <1>5, <1>6 DEF MovedInv
<1> QED BY <1>1, <1>2, <1>3, <1>7 DEF Orderly, Dropped

(* The rest of MailInv, for a step that starts no dispatch.                *)
LEMMA TakersStay ==
    ASSUME Takers, Ended => Ended', wpc' = wpc \/ wpc' \notin {"dmaLock", "dmaAck"},
           \A s \in Slots : pc'[s] = "abandon" => pc[s] = "abandon" \/ s \in TimedSlots
    PROVE  Takers'
BY DEF Takers

(* dma_request_abandon: a request the PRU gives back leaves the mailbox to *)
(* the next one; one that was never pushed leaves only the tables.         *)
LEMMA RetireMails ==
    ASSUME Scope, Core, Frame, MailInv, MovedInv, NEW s \in Slots,
           DmaAbandonRetired(s, FALSE),
           Untaken' = Untaken, Pending(dmaEvt') = Pending(dmaEvt)
    PROVE  /\ Orderly /\ MovedInv'
           /\ Ended => Ended'
<1> DEFINE after == ActiveWithout(s)
           rest == scheduled \ {s}
           ex == [executing EXCEPT ![s] = FALSE]
           pr == IF executing[s] THEN ReqAfterCancel(FALSE) ELSE pruReq
           pushes == after # active /\ after # NoSlot /\ ~orphan
<1>1. /\ s \in scheduled /\ scheduled' = rest /\ active' = after
      /\ executing[s] => CancelledOnPru(FALSE)
      /\ UNCHANGED <<orphan, success, wordcount, done, running, left, pruAlive, accepted, moved>>
    BY DEF DmaAbandonRetired, KeepsSlot, pruDma
<1>2. /\ pushes => ExecuteOnPRU(after, FALSE, ex, wordcount, done, pr)
      /\ ~pushes => /\ executing' = ex /\ pruReq' = pr
                    /\ mbox' = IF executing[s] THEN MboxAfterCancel(FALSE) ELSE mbox
                    /\ carrier' = IF carrier = s THEN NoSlot ELSE carrier
    BY DEF DmaAbandonRetired
<1>3. /\ after \in Slots \cup {NoSlot}
      /\ (after = NoSlot) <=> (rest = {})
      /\ after # NoSlot => after \in rest
    BY ActiveWithoutOf
<1>4. /\ executing \in [Slots -> BOOLEAN] /\ scheduled \subseteq Slots /\ orphan \in BOOLEAN
      /\ TablesConsistent /\ pruReq \in Requests /\ pruAlive /\ s # NoSlot
    BY SlotsAreNat DEF Core, RequestsType, SchedulerType, MailInv
<1>5. s \in TimedSlots
    BY DEF DmaAbandonRetired, MailInv, Takers
<1>6. executing[s] => s = active
    BY <1>1, <1>5 DEF MailInv, PushedOnce
<1>7. ~ex[s] /\ \A t \in Slots : t # s => ex[t] = executing[t]
    BY <1>4
<1>8. SuccessMeansMoved'
    BY <1>1 DEF MovedInv, SuccessMeansMoved
<1>9. \A t \in rest : accepted[t] => ~success[t]
    BY DEF MovedInv, Settled
<1>10. after = IF active \in {s, NoSlot} THEN LowestSlot(rest) ELSE active
    BY DEF ActiveWithout
<1> HIDE DEF after, ex
<1>11. CASE orphan
    <2>1. ~executing[s] /\ (Moving \/ Ended) /\ carrier = NoSlot
          /\ \A t \in scheduled : ~executing[t]
        BY <1>1, <1>11 DEF MailInv, Exchange
    <2>2. executing' = ex /\ UNCHANGED <<pruReq, mbox, carrier>>
        BY <1>2, <1>4, <1>11, <2>1
    <2>3. (Moving => Moving') /\ (Ended => Ended') /\ OneSide'
        BY <1>1, <2>2 DEF MailInv, Moving, Ended, NoRequest, OneSide
    <2>4. \A t \in scheduled' : ~executing'[t]
        BY <1>1, <1>4, <1>7, <2>1, <2>2
    <2>5. Exchange'
        BY <1>1, <1>11, <2>1, <2>2, <2>3, <2>4 DEF Exchange
    <2>6. PushedOnce'
        BY <1>1, <2>4 DEF MailInv, PushedOnce
    <2>7. MovedInv'
        BY <1>1, <1>8, <1>11 DEF MovedInv, Settled
    <2> QED BY <1>1, <1>11, <2>3, <2>5, <2>6, <2>7 DEF Orderly, Dropped
<1>12. CASE ~orphan /\ s = active
    <2>1. active # NoSlot /\ executing[s] /\ carrier = s
        BY <1>1, <1>4, <1>12 DEF MailInv, Exchange, Mine
    <2>2. /\ CancelledOnPru(FALSE) /\ pr = ReqAfterCancel(FALSE)
          /\ ~pr.npr /\ ~pr.cpu /\ ~running /\ Untaken = 0 /\ pr \in Requests
          /\ MboxAfterCancel(FALSE).cpu = mbox.cpu
        BY <1>1, <1>12, <2>1, TakenBack
    <2> HIDE DEF pr
    <2>3. ~Ended
        BY <2>2 DEF Ended
    <2>4. \A t \in rest : t # active
        BY <1>12
    <2>5. \A t \in rest : moved[t] = done[t]
        BY <2>4 DEF MovedInv, Settled
    <2>6. CASE after = NoSlot
        <3>1. /\ pruReq' = pr /\ mbox' = MboxAfterCancel(FALSE) /\ rest = {}
            BY <1>2, <1>3, <2>1, <2>6
        <3>2. NoRequest' /\ mbox'.cpu = mbox.cpu
            BY <2>2, <3>1 DEF NoRequest
        <3>3. Orderly
            BY <1>1, <1>12, <2>2, <2>6, <3>1, <3>2, FreeExchange DEF MailInv
        <3>4. MovedInv'
            BY <1>1, <1>8, <2>6, <3>1 DEF MovedInv
        <3> QED BY <2>3, <3>3, <3>4
    <2>7. CASE after # NoSlot
        <3>1. after \in rest /\ after # active /\ after \in Slots
            BY <1>3, <1>4, <1>12, <2>7
        <3>2. ExecuteOnPRU(after, FALSE, ex, wordcount, done, pr)
            BY <1>2, <1>12, <2>7, <3>1
        <3>3. \A t \in TimedSlots \cap rest :
                  done[t] = 0 /\ wordcount[t] <= MaxChunk /\ (ex[t] => t = after)
            BY <1>4, <1>7, <2>4 DEF MailInv, PushedOnce
        <3>4. ex \in [Slots -> BOOLEAN]
            BY <1>4 DEF ex
        <3>5. /\ scheduled' \subseteq Slots /\ ~orphan' /\ ~running' /\ Untaken' = 0
              /\ active' = after /\ wordcount' = wordcount /\ done' = done
              /\ \A t \in TimedSlots \cap scheduled' :
                    done[t] = 0 /\ wordcount[t] <= MaxChunk /\ (ex[t] => t = after)
            BY <1>1, <1>4, <1>12, <2>2, <3>3
        <3>6. Asked' /\ Orderly
            BY <1>4, <2>2, <3>1, <3>2, <3>4, <3>5, PushedExchange
        <3>7. MovedInv'
            BY <1>1, <1>8, <1>9, <1>12, <2>5, <3>1, <3>6, PushedMoves
        <3> QED BY <2>3, <3>6, <3>7
    <2> QED BY <2>6, <2>7
<1>13. CASE ~orphan /\ s # active
    <2>1. active # NoSlot /\ active \in rest /\ after = active /\ ~executing[s]
        BY <1>1, <1>4, <1>6, <1>10, <1>13 DEF TablesConsistent
    <2>2. carrier = active /\ Mine
        BY <1>13, <2>1 DEF MailInv, Exchange, Mine
    <2>3. active \in Slots /\ carrier # s
        BY <1>4, <1>13, <2>1, <2>2
    <2>4. executing' = ex /\ UNCHANGED <<pruReq, mbox, carrier, active>>
        BY <1>1, <1>2, <2>1, <2>3
    <2>5. executing'[active] = executing[active]
        BY <1>7, <1>13, <2>3, <2>4
    <2>6. (Free' <=> Free) /\ (Asked' <=> Asked) /\ (Moving' <=> Moving) /\ (Ended' <=> Ended)
        BY <1>1, <2>4 DEF Free, Asked, Moving, Ended, NoRequest
    <2>7. Exchange'
        BY <1>1, <1>13, <2>1, <2>2, <2>4, <2>5, <2>6 DEF MailInv, Exchange, Mine
    <2>8. PushedOnce' /\ OneSide'
        BY <1>1, <1>4, <1>7, <2>4 DEF MailInv, PushedOnce, OneSide, NoRequest
    <2>9. Progress'
        BY <1>1, <1>13, <2>1, <2>4, <2>6 DEF MovedInv, Progress
    <2>10. MovedInv'
        BY <1>1, <1>8, <1>13, <2>4, <2>9 DEF MovedInv, Settled
    <2> QED BY <1>1, <2>1, <2>6, <2>7, <2>8, <2>10 DEF Orderly, Dropped
<1> QED BY <1>4, <1>11, <1>12, <1>13

(* A caller of DMA() moves on: no completion is signalled or taken, and    *)
(* only a request with a deadline is abandoned.                            *)
LEMMA CallerMails ==
    ASSUME Frame, MailInv, NEW s \in Slots, NEW p, Reached(s, p), p # "ack", pc[s] # "ack",
           p = "abandon" => s \in TimedSlots,
           UNCHANGED <<initVars, dmaEvt, pruAlive>>
    PROVE  /\ Untaken' = Untaken /\ Pending(dmaEvt') = Pending(dmaEvt)
           /\ Orderly /\ (Ended => Ended') => MailInv' /\ (Dropped' => Dropped)
<1>1. UNCHANGED wpc /\ CallerType
    BY DEF initVars, workerVars, Frame
<1>2. LockFree' = LockFree
    BY <1>1, LockStays
<1>3. Untaken' = Untaken /\ Pending(dmaEvt') = Pending(dmaEvt)
    BY <1>1, <1>2, UntakenStays
<1>4. \A t \in Slots : pc'[t] = "abandon" => pc[t] = "abandon" \/ t \in TimedSlots
    BY <1>1 DEF Reached, CallerType
<1>5. (Ended => Ended') => Takers'
    BY <1>1, <1>4, TakersStay DEF MailInv
<1> QED BY <1>3, <1>5 DEF MailInv, Orderly

(* DMA() of a device, from its refusals to dma_request_abandon().          *)
LEMMA DeviceMails ==
    ASSUME Scope, Core, Frame, MailInv, MovedInv, NEW s \in Slots, DeviceStep(s)
    PROVE  MailInv' /\ MovedInv' /\ (Dropped' => Dropped)
<1>a. /\ accepted \in [Slots -> BOOLEAN] /\ success \in [Slots -> BOOLEAN]
      /\ scheduled \subseteq Slots
    BY DEF Frame, CallerType, Core, RequestsType, SchedulerType
<1>1. ASSUME NEW n \in Words[s], DmaRefused(s, n) \/ DmaByCpu(s, n)
      PROVE  MailInv' /\ MovedInv' /\ (Dropped' => Dropped)
    <2>1. /\ Reached(s, "read") \/ Reached(s, "idle")
          /\ pc[s] = "idle" /\ UNCHANGED <<initVars, dmaEvt, pruAlive, running, left>>
          /\ UNCHANGED <<scheduled, active, orphan, executing, wordcount, done, mbox, pruReq,
                         carrier, moved>>
          /\ accepted' = [accepted EXCEPT ![s] = FALSE]
          /\ \E b \in BOOLEAN : success' = [success EXCEPT ![s] = b]
        BY <1>1 DEF DmaRefused, DmaByCpu, CallBegins, tables, pruDma
    <2>2. \A t \in Slots : accepted'[t] /\ success'[t] => accepted[t] /\ success[t]
        BY <1>a, <2>1
    <2>3. /\ Untaken' = Untaken /\ Pending(dmaEvt') = Pending(dmaEvt)
          /\ Orderly /\ (Ended => Ended') => MailInv' /\ (Dropped' => Dropped)
        BY <2>1, CallerMails
    <2> QED BY <1>a, <2>1, <2>2, <2>3, QuietMails
<1>2. ASSUME NEW n \in Words[s], DmaScheduled(s, n)
      PROVE  MailInv' /\ MovedInv' /\ (Dropped' => Dropped)
    <2>1. /\ Reached(s, "spin") \/ Reached(s, "wait")
          /\ pc[s] = "idle" /\ UNCHANGED <<initVars, dmaEvt, pruAlive>>
        BY <1>2 DEF DmaScheduled, CallBegins
    <2>2. /\ Untaken' = Untaken /\ Pending(dmaEvt') = Pending(dmaEvt)
          /\ Orderly /\ (Ended => Ended') => MailInv' /\ (Dropped' => Dropped)
        BY <2>1, CallerMails
    <2> QED BY <1>2, <2>2, ScheduleMails
<1>3. ASSUME \/ DmaReturns(s) \/ DmaResultRead(s)
             \/ \E busy \in MaybeBusy : DmaAbandonKept(s, busy)
      PROVE  MailInv' /\ MovedInv' /\ (Dropped' => Dropped)
    <2>1. /\ Reached(s, "read") \/ Reached(s, "idle")
          /\ pc[s] \in {"wait", "read", "abandon"}
          /\ SchedulerUnchanged /\ UNCHANGED <<initVars, dmaEvt, pruAlive, pruDma, accepted, moved>>
        BY <1>3 DEF DmaReturns, DmaAbandonKept, DmaResultRead
    <2>2. UNCHANGED <<scheduled, active, orphan, executing, wordcount, done, mbox, pruReq,
                      carrier, running, left, success>>
        BY <2>1 DEF SchedulerUnchanged, tables, reqs, pruDma
    <2>3. /\ Untaken' = Untaken /\ Pending(dmaEvt') = Pending(dmaEvt)
          /\ Orderly /\ (Ended => Ended') => MailInv' /\ (Dropped' => Dropped)
        BY <2>1, CallerMails
    <2> QED BY <1>a, <2>1, <2>2, <2>3, QuietMails
<1>4. CASE DmaTimesOut(s)
    <2>1. /\ Reached(s, "abandon") /\ s \in TimedSlots /\ pc[s] = "wait"
          /\ success' = [success EXCEPT ![s] = FALSE]
          /\ UNCHANGED <<initVars, dmaEvt, pruAlive, accepted, moved, scheduled, active, orphan,
                         executing, wordcount, done, mbox, pruReq, carrier, running, left>>
        BY <1>4 DEF DmaTimesOut, tables, pruDma, ghosts
    <2>2. \A t \in Slots : accepted'[t] /\ success'[t] => accepted[t] /\ success[t]
        BY <1>a, <2>1
    <2>3. /\ Untaken' = Untaken /\ Pending(dmaEvt') = Pending(dmaEvt)
          /\ Orderly /\ (Ended => Ended') => MailInv' /\ (Dropped' => Dropped)
        BY <2>1, CallerMails
    <2> QED BY <1>a, <2>1, <2>2, <2>3, QuietMails
<1>5. ASSUME NEW busy \in MaybeBusy, DmaAbandonRetired(s, busy)
      PROVE  MailInv' /\ MovedInv' /\ (Dropped' => Dropped)
    <2>1. busy = FALSE
        BY DEF Scope, MaybeBusy
    <2>2. DmaAbandonRetired(s, FALSE)
        BY <1>5, <2>1
    <2>3. Reached(s, "read") /\ pc[s] = "abandon" /\ UNCHANGED <<initVars, dmaEvt, pruAlive>>
        BY <2>2 DEF DmaAbandonRetired
    <2>4. /\ Untaken' = Untaken /\ Pending(dmaEvt') = Pending(dmaEvt)
          /\ Orderly /\ (Ended => Ended') => MailInv' /\ (Dropped' => Dropped)
        BY <2>3, CallerMails
    <2> QED BY <2>2, <2>4, RetireMails
<1> QED BY <1>1, <1>2, <1>3, <1>4, <1>5 DEF DeviceStep

-----------------------------------------------------------------------------
(* A completion is dispatched by whichever thread takes it.                *)
LEMMA ChunkMails ==
    ASSUME Scope, Core, Frame, MailInv, MovedInv, Ended, ChunkComplete,
           UNCHANGED <<running, pruAlive, left, accepted, moved>>,
           Untaken' = 0, Pending(dmaEvt') = Pending(dmaEvt)
    PROVE  Orderly /\ MovedInv'
BY DiscardMails, FinishMails, NextChunkMails DEF ChunkComplete

(* The processor's spin: the completion it takes is its own or the         *)
(* orphan's, and of a transfer that has ended.                             *)
LEMMA CpuTakesEnded ==
    ASSUME Scope, Frame, MailInv, NEW c \in CpuSlots, CpuTakesEvent(c)
    PROVE  /\ Ended /\ Untaken' = 0 /\ Pending(dmaEvt') = Pending(dmaEvt)
           /\ wpc' \notin {"dmaLock", "dmaAck"}
<1>1. /\ pc[c] = "spin" /\ ~IsAcked(dmaEvt) /\ Reached(c, "ack")
      /\ UNCHANGED <<dmaEvt, wpc>> /\ c \in Slots /\ pc \in [Slots -> Places]
      /\ dmaEvt \in Event /\ wpc \notin {"dmaLock", "dmaAck"}
    BY DEF CpuTakesEvent, OthersOfSpin, initVars, workerVars, Slots, Frame, CallerType, Places,
           MailInv, Takers
<1>2. CpuSlots = {c}
    BY SlotAssumption
<1>3. LockFree /\ ~LockFree'
    BY <1>1, <1>2 DEF LockFree, Reached
<1>4. Taken = 0 /\ Taken' = 1
    BY <1>1, <1>3 DEF Taken, B
<1>5. Pending(dmaEvt) \in Nat /\ Pending(dmaEvt) > 0
    BY <1>1, DmaCount
<1>6. Untaken = Pending(dmaEvt) /\ Untaken' = Pending(dmaEvt) - 1
    BY <1>1, <1>4, <1>5 DEF Untaken
<1>7. Ended
    BY <1>5, <1>6 DEF MailInv, Exchange, Free, Asked, Moving
<1> QED BY <1>1, <1>6, <1>7 DEF Ended

(* The processor's spin in DMA().                                          *)
LEMMA CpuMails ==
    ASSUME Scope, Core, Frame, MailInv, MovedInv, NEW c \in CpuSlots, CpuStep(c)
    PROVE  MailInv' /\ MovedInv' /\ (Dropped' => Dropped)
<1>a. /\ c \in Slots /\ CpuSlots = {c} /\ pc \in [Slots -> Places] /\ dmaEvt \in Event
      /\ wpc \notin {"dmaLock", "dmaAck"} /\ scheduled \subseteq Slots
    BY SlotAssumption DEF Slots, Frame, CallerType, Places, MailInv, Takers, Core, SchedulerType
<1>b. UNCHANGED <<initVars, wpc, pruAlive, running, left, accepted, moved>>
    BY DEF CpuStep, CpuTakesEvent, CpuAcksEvent, CpuSeesCancel, CpuGivesUp, OthersOfSpin,
           pruDma, initVars, workerVars
<1>c. \A t \in Slots : pc'[t] = "abandon" => pc[t] = "abandon"
    BY <1>a DEF CpuStep, CpuTakesEvent, CpuAcksEvent, CpuSeesCancel, CpuGivesUp, Reached, Places
<1>d. Takers'
    BY <1>a, <1>b, <1>c DEF MailInv, Takers
<1>1. CASE CpuTakesEvent(c)
    <2>1. Ended /\ Untaken' = 0 /\ Pending(dmaEvt') = Pending(dmaEvt) /\ ChunkComplete
        BY <1>1, CpuTakesEnded DEF CpuTakesEvent
    <2>2. Orderly /\ MovedInv'
        BY <1>b, <2>1, ChunkMails
    <2> QED BY <1>b, <1>d, <2>2 DEF MailInv, Orderly
<1>2. ASSUME SchedulerUnchanged, Untaken' = Untaken, Pending(dmaEvt') > 0 => Pending(dmaEvt) > 0
      PROVE  MailInv' /\ MovedInv' /\ (Dropped' => Dropped)
    <2>1. UNCHANGED <<scheduled, active, orphan, executing, wordcount, done, mbox, pruReq,
                      carrier, success>>
        BY <1>2 DEF SchedulerUnchanged, tables, reqs
    <2>2. Orderly /\ MovedInv'
        BY <1>2, <1>a, <1>b, <2>1, QuietMails
    <2> QED BY <1>b, <1>d, <2>2 DEF MailInv, Orderly
<1>3. CASE CpuAcksEvent(c)
    <2>1. pc[c] = "ack" /\ dmaEvt' = Ack(dmaEvt) /\ pc'[c] # "ack"
        BY <1>3, <1>a DEF CpuAcksEvent, Reached
    <2>2. ~LockFree /\ LockFree'
        BY <1>a, <2>1 DEF LockFree
    <2>3. Taken = 1 /\ Taken' = 0
        BY <1>a, <1>b, <2>2 DEF Taken, B
    <2>4. Pending(dmaEvt) \in Nat /\ Untaken = Pending(dmaEvt) - 1 /\ Untaken \in {0, 1}
        BY <1>a, <2>3, DmaCount DEF Untaken, MailInv, Exchange, Free, Asked, Moving, Ended
    <2>5. Pending(dmaEvt') = Pending(dmaEvt) - 1
        BY <1>a, <2>1, <2>4, PendingAck
    <2>6. Untaken' = Untaken /\ (Pending(dmaEvt') > 0 => Pending(dmaEvt) > 0)
        BY <2>3, <2>4, <2>5 DEF Untaken
    <2> QED BY <1>2, <1>3, <2>6 DEF CpuAcksEvent
<1>4. CASE CpuSeesCancel(c)
    <2>1. pc[c] = "spin" /\ Reached(c, "read") /\ UNCHANGED dmaEvt /\ SchedulerUnchanged
        BY <1>4 DEF CpuSeesCancel
    <2>2. LockFree' = LockFree
        BY <1>a, <2>1, LockStays DEF Frame
    <2>3. Untaken' = Untaken /\ Pending(dmaEvt') = Pending(dmaEvt)
        BY <1>b, <2>1, <2>2, UntakenStays
    <2> QED BY <1>2, <2>1, <2>3
<1>5. ~CpuGivesUp(c)
    BY DEF CpuGivesUp, Scope
<1> QED BY <1>1, <1>3, <1>4, <1>5 DEF CpuStep

-----------------------------------------------------------------------------
(* A pass of worker().                                                     *)
LEMMA WorkerMails ==
    ASSUME Scope, Core, Frame, MailInv, MovedInv, WorkerStep
    PROVE  MailInv' /\ MovedInv' /\ (Dropped' => Dropped)
<1>a. /\ scheduled \subseteq Slots /\ dmaEvt \in Event /\ success \in [Slots -> BOOLEAN]
      /\ Takers /\ Taken \in {0, 1} /\ (CpuSlots = {} => LockFree)
    BY TakenRange DEF MailInv, Core, SchedulerType, RequestsType, Frame
<1>b. UNCHANGED <<caller, pruAlive, running, left, accepted, moved>>
    BY DEF WorkerStep, WorkerSamplesInit, WorkerNotifies, WorkerChecksDma, WorkerTakesDma,
           WorkerAcksDma, OthersOfDmaEvent, OthersOfWorker, pruDma
<1>c. LockFree' = LockFree /\ UNCHANGED pc
    BY <1>b DEF LockFree, caller
<1>d. ASSUME UNCHANGED dmaEvt, wpc # "dmaAck", wpc' # "dmaAck"
      PROVE  Untaken' = Untaken /\ Pending(dmaEvt') = Pending(dmaEvt)
    BY <1>c, <1>d, UntakenStays
<1>e. ASSUME SchedulerUnchanged, Untaken' = Untaken, Pending(dmaEvt') > 0 => Pending(dmaEvt) > 0
      PROVE  Orderly /\ MovedInv' /\ (Ended => Ended')
    <2>1. UNCHANGED <<scheduled, active, orphan, executing, wordcount, done, mbox, pruReq,
                      carrier, success>>
        BY <1>e DEF SchedulerUnchanged, tables, reqs
    <2> QED BY <1>a, <1>b, <1>e, <2>1, QuietMails
<1>1. CASE WorkerSamplesInit
    <2>1. /\ wpc \notin {"dmaLock", "dmaAck"} /\ wpc' \notin {"dmaLock", "dmaAck"}
          /\ SchedulerUnchanged /\ UNCHANGED dmaEvt
        BY <1>1 DEF WorkerSamplesInit, WorkerWakes, WorkerReadsInitCount, WorkerReadsInitLevel
    <2>2. Orderly /\ MovedInv' /\ (Ended => Ended')
        BY <1>d, <1>e, <2>1
    <2>3. Takers'
        BY <1>a, <1>c, <2>1, <2>2, TakersStay
    <2> QED BY <1>b, <2>2, <2>3 DEF MailInv, Orderly
<1>2. CASE WorkerNotifies
    <2>1. /\ wpc \notin {"dmaLock", "dmaAck"} /\ wpc' \notin {"dmaLock", "dmaAck"}
          /\ UNCHANGED dmaEvt
        BY <1>2 DEF WorkerNotifies, WorkerReplaysFarSide, WorkerReplaysNearSide, WorkerPower,
                    WorkerEndsPass
    <2>2. Untaken' = Untaken /\ Pending(dmaEvt') = Pending(dmaEvt)
        BY <1>d, <2>1
    <2>3. Orderly /\ MovedInv' /\ (Ended => Ended')
        <3>1. CASE Cancels
            <4>1. PICK x \in {FALSE, OrphanExpires}, busy \in MaybeBusy : CancelAll(x, busy)
                BY <1>2, <3>1 DEF WorkerNotifies
            <4>2. x = FALSE /\ busy = FALSE
                BY FlagAssumption DEF Scope, MaybeBusy
            <4>3. CancelAll(FALSE, FALSE)
                BY <4>1, <4>2
            <4> QED BY <1>b, <2>2, <4>3, CancelAllMails
        <3>2. CASE ~Cancels
            BY <1>2, <1>e, <2>2, <3>2 DEF WorkerNotifies
        <3> QED BY <3>1, <3>2
    <2>4. Takers'
        BY <1>a, <1>c, <2>1, <2>3, TakersStay
    <2> QED BY <1>b, <2>3, <2>4 DEF MailInv, Orderly
<1>3. CASE WorkerChecksDma
    <2>1. /\ wpc = "dma" /\ SchedulerUnchanged /\ UNCHANGED dmaEvt
          /\ wpc' = IF ~IsAcked(dmaEvt) /\ ~mbox.cpu THEN "dmaLock" ELSE "raise"
        BY <1>3 DEF WorkerChecksDma
    <2>2. Orderly /\ MovedInv' /\ (Ended => Ended')
        BY <1>d, <1>e, <2>1
    <2>3. CASE ~IsAcked(dmaEvt) /\ ~mbox.cpu
        <3>1. Pending(dmaEvt) \in Nat /\ Pending(dmaEvt) > 0
            BY <1>a, <2>3, DmaCount
        <3>2. CpuSlots = {}
            BY <2>3, <3>1 DEF MailInv, OneSide
        <3>3. Taken = 0
            BY <1>a, <2>1, <3>2 DEF Taken, B
        <3>4. Untaken > 0
            BY <3>1, <3>3 DEF Untaken
        <3>5. Ended
            BY <3>4 DEF MailInv, Exchange, Free, Asked, Moving
        <3>6. Takers'
            BY <1>a, <1>c, <2>1, <2>2, <3>2, <3>5 DEF Takers
        <3> QED BY <1>b, <2>2, <3>6 DEF MailInv, Orderly
    <2>4. CASE ~(~IsAcked(dmaEvt) /\ ~mbox.cpu)
        <3>1. Takers'
            BY <1>a, <1>c, <2>1, <2>2, <2>4, TakersStay
        <3> QED BY <1>b, <2>2, <3>1 DEF MailInv, Orderly
    <2> QED BY <2>3, <2>4
<1>4. CASE WorkerTakesDma
    <2>1. wpc = "dmaLock" /\ wpc' = "dmaAck" /\ ChunkComplete /\ UNCHANGED dmaEvt
        BY <1>4 DEF WorkerTakesDma
    <2>2. Ended /\ CpuSlots = {}
        BY <1>a, <2>1 DEF Takers
    <2>3. Taken = 0 /\ Taken' = 1
        BY <1>a, <1>c, <2>1, <2>2 DEF Taken, B
    <2>4. Pending(dmaEvt) \in Nat /\ Untaken = 1
        BY <1>a, <2>2, DmaCount DEF Ended
    <2>5. Untaken' = 0 /\ Pending(dmaEvt') = Pending(dmaEvt)
        BY <2>1, <2>3, <2>4 DEF Untaken
    <2>6. Orderly /\ MovedInv'
        BY <1>b, <2>1, <2>2, <2>5, ChunkMails
    <2>7. Takers'
        BY <1>a, <1>c, <2>1, <2>2 DEF Takers
    <2> QED BY <1>b, <2>6, <2>7 DEF MailInv, Orderly
<1>5. CASE WorkerAcksDma
    <2>1. wpc = "dmaAck" /\ wpc' = "raise" /\ SchedulerUnchanged /\ dmaEvt' = Ack(dmaEvt)
        BY <1>5 DEF WorkerAcksDma
    <2>2. CpuSlots = {} /\ LockFree
        BY <1>a, <2>1 DEF Takers
    <2>3. Taken = 1 /\ Taken' = 0
        BY <1>c, <2>1, <2>2 DEF Taken, B
    <2>4. Pending(dmaEvt) \in Nat /\ Untaken = Pending(dmaEvt) - 1 /\ Untaken \in {0, 1}
        BY <1>a, <2>3, DmaCount DEF Untaken, MailInv, Exchange, Free, Asked, Moving, Ended
    <2>5. Pending(dmaEvt') = Pending(dmaEvt) - 1
        BY <1>a, <2>1, <2>4, PendingAck
    <2>6. Untaken' = Untaken /\ (Pending(dmaEvt') > 0 => Pending(dmaEvt) > 0)
        BY <2>3, <2>4, <2>5 DEF Untaken
    <2>7. Orderly /\ MovedInv' /\ (Ended => Ended')
        BY <1>e, <2>1, <2>6
    <2>8. Takers'
        BY <1>a, <1>c, <2>1, <2>7, TakersStay
    <2> QED BY <1>b, <2>7, <2>8 DEF MailInv, Orderly
<1> QED BY <1>1, <1>2, <1>3, <1>4, <1>5 DEF WorkerStep

-----------------------------------------------------------------------------
(* The phases exclude each other: one that needs a signal has none yet.    *)
LEMMA OnePhase ==
    /\ Moving => ~Free /\ ~Asked /\ ~Ended
    /\ Ended => ~Free /\ ~Asked /\ ~Moving
    /\ Free => ~Moving /\ ~Ended
    /\ Asked => ~Moving /\ ~Ended
BY DEF Free, Asked, Moving, Ended

(* The PRU raises NPR, or the processor finds the bus idle: the words it   *)
(* is going to move are those of the mailbox.                              *)
LEMMA StartMails ==
    ASSUME Scope, Core, Frame, MailInv, MovedInv, PruStartsDma,
           Untaken' = Untaken, Pending(dmaEvt') = Pending(dmaEvt)
    PROVE  Asked /\ Moving' /\ Orderly /\ MovedInv'
<1>1. /\ \/ pruReq.npr /\ pruReq' = [pruReq EXCEPT !.npr = FALSE]
         \/ pruReq.cpu /\ ~pruReq.npr /\ pruReq' = [pruReq EXCEPT !.cpu = FALSE]
      /\ ~running /\ running' = TRUE /\ left' = mbox.words
      /\ mbox' = [mbox EXCEPT !.status = "running"]
      /\ UNCHANGED <<scheduled, active, orphan, success, executing, wordcount, done, carrier,
                     moved, accepted>>
    BY DEF PruStartsDma, OthersOfPru, tables, reqs
<1>2. mbox \in Mailboxes /\ pruReq \in Requests /\ orphan \in BOOLEAN
    BY DEF Core, SchedulerType
<1>3. Asked
    BY <1>1 DEF MailInv, Exchange, Free, Moving, Ended, NoRequest
<1>4. ~pruReq'.npr /\ ~pruReq'.cpu
    <2>1. CASE pruReq.npr
        <3>1. pruReq' = [pruReq EXCEPT !.npr = FALSE] /\ ~pruReq.cpu
            BY <1>1, <1>3, <2>1 DEF Asked
        <3> QED BY <1>2, <3>1 DEF Requests
    <2>2. CASE ~pruReq.npr
        <3>1. pruReq' = [pruReq EXCEPT !.cpu = FALSE]
            BY <1>1, <2>2
        <3> QED BY <1>2, <2>2, <3>1 DEF Requests
    <2> QED BY <2>1, <2>2
<1>5. mbox'.status = "running" /\ mbox'.words = mbox.words /\ mbox'.cpu = mbox.cpu
    BY <1>1, <1>2 DEF Mailboxes
<1>6. Moving'
    BY <1>1, <1>3, <1>4, <1>5 DEF Moving, NoRequest, Asked
<1>7. ~orphan /\ active # NoSlot /\ Mine
    BY <1>3, OnePhase DEF MailInv, Exchange, Free, Asked, NoRequest
<1>8. ~Free' /\ ~Asked' /\ ~Ended'
    BY <1>6 DEF Free, Asked, Ended, Moving
<1>9. Exchange'
    BY <1>1, <1>5, <1>6, <1>7, <1>8 DEF Exchange, Mine
<1>10. PushedOnce' /\ OneSide'
    <2>1. mbox.cpu <=> CpuSlots # {}
        BY <1>1 DEF MailInv, OneSide, NoRequest
    <2> QED BY <1>1, <1>5, <2>1 DEF MailInv, PushedOnce, OneSide
<1>11. moved[active] = done[active]
    BY <1>3, <1>7 DEF MovedInv, Progress
<1>12. Progress'
    BY <1>1, <1>5, <1>8, <1>11 DEF Progress
<1>13. SuccessMeansMoved'
    BY <1>1 DEF MovedInv, SuccessMeansMoved
<1>14. MovedInv'
    BY <1>1, <1>12, <1>13 DEF MovedInv, Settled
<1> QED BY <1>3, <1>6, <1>8, <1>9, <1>10, <1>14 DEF Orderly, Dropped

(* INIT drops a request: the mailbox goes on reading as arbitrating.       *)
LEMMA SampleMails ==
    ASSUME Scope, Core, Frame, MailInv, MovedInv, PruSamples,
           Untaken' = Untaken, Pending(dmaEvt') = Pending(dmaEvt)
    PROVE  /\ Exchange' /\ PushedOnce' /\ OneSide' /\ MovedInv'
           /\ Ended => Ended'
           /\ Free' /\ ~Free => busInit
<1>1. /\ pruReq' = [pruReq EXCEPT !.npr = @ /\ ~busInit]
      /\ UNCHANGED <<scheduled, active, orphan, success, executing, wordcount, done, mbox,
                     carrier, moved, accepted, running, left>>
    BY DEF PruSamples, OthersOfPru, tables, reqs, pruDma
<1>2. pruReq \in Requests /\ scheduled \subseteq Slots
    BY DEF Core, SchedulerType
<1>3. CASE pruReq.npr /\ busInit
    <2>1. ~pruReq'.npr /\ pruReq'.cpu = pruReq.cpu
        BY <1>1, <1>2, <1>3 DEF Requests
    <2>2. Asked
        BY <1>3 DEF MailInv, Exchange, Free, Moving, Ended, NoRequest
    <2>3. Free'
        BY <1>1, <1>3, <2>1, <2>2 DEF Asked, Free, NoRequest
    <2>4. ~orphan /\ active # NoSlot /\ Mine /\ mbox.status = "arbitrating"
        BY <1>3, <2>2, OnePhase DEF MailInv, Exchange, Free, Asked, NoRequest
    <2>5. Exchange'
        BY <1>1, <2>3, <2>4 DEF Exchange, Mine
    <2>6. PushedOnce' /\ OneSide'
        <3>1. mbox.cpu <=> CpuSlots # {}
            BY <1>3 DEF MailInv, OneSide, NoRequest
        <3> QED BY <1>1, <3>1 DEF MailInv, PushedOnce, OneSide
    <2>7. Progress'
        <3>1. moved[active] = done[active]
            BY <2>2, <2>4 DEF MovedInv, Progress
        <3>2. ~Moving' /\ ~Ended'
            BY <2>3 DEF Free, Moving, Ended
        <3> QED BY <1>1, <3>1, <3>2 DEF Progress
    <2>8. SuccessMeansMoved'
        BY <1>1 DEF MovedInv, SuccessMeansMoved
    <2>9. MovedInv'
        BY <1>1, <2>7, <2>8 DEF MovedInv, Settled
    <2> QED BY <1>3, <2>2, <2>5, <2>6, <2>9, OnePhase
<1>4. CASE ~(pruReq.npr /\ busInit)
    <2>1. pruReq' = pruReq
        BY <1>1, <1>2, <1>4 DEF Requests
    <2>2. Orderly /\ MovedInv' /\ (Ended => Ended')
        BY <1>1, <1>2, <2>1, QuietMails
    <2>3. Free' => Free
        BY <1>1, <2>1 DEF Free, NoRequest
    <2> QED BY <2>2, <2>3 DEF Orderly
<1> QED BY <1>3, <1>4

(* One word is moved or times out: the count goes down as the words go up, *)
(* and the end of the transfer is signalled once.                          *)
LEMMA WordMails ==
    ASSUME Scope, Core, Frame, MailInv, MovedInv, NEW timeout \in BOOLEAN,
           PruMovesWord(timeout)
    PROVE  Moving /\ MailInv' /\ MovedInv' /\ ~Dropped'
<1> DEFINE last == left = 1
           final == IF timeout THEN "timeoutstop"
                    ELSE IF last THEN "ready"
                    ELSE IF busInit THEN "initstop" ELSE "running"
<1>1. /\ running /\ mbox.status = "running"
      /\ left' = IF timeout THEN left ELSE left - 1
      /\ moved' = IF timeout \/ carrier = NoSlot THEN moved
                  ELSE [moved EXCEPT ![carrier] = @ + 1]
      /\ running' = (final = "running") /\ mbox' = [mbox EXCEPT !.status = final]
      /\ dmaEvt' = IF final = "running" THEN dmaEvt ELSE Signal(dmaEvt)
      /\ UNCHANGED <<pc, wpc, pruAlive, pruReq, carrier, scheduled, active, orphan, success,
                     executing, wordcount, done, accepted>>
    BY DEF PruMovesWord, OthersOfPru, tables, reqs, caller, workerVars
<1>2. /\ mbox \in Mailboxes /\ left \in Nat /\ left > 0 /\ dmaEvt \in Event
      /\ moved \in [Slots -> Nat] /\ scheduled \subseteq Slots /\ orphan \in BOOLEAN
      /\ TablesConsistent /\ active \in Slots \cup {NoSlot}
      /\ carrier \in Slots \cup {NoSlot}
    BY <1>1 DEF Core, SchedulerType, Frame, CountsDown
<1>3. Moving
    BY <1>1 DEF MailInv, Exchange, Free, Asked, Ended
<1>4. wpc # "dmaLock"
    BY <1>3, OnePhase DEF MailInv, Takers
<1>5. final \in {"running"} \cup Finished /\ (final = "ready" => left' = 0)
    BY <1>1, <1>2 DEF Finished
<1>6. mbox'.status = final /\ mbox'.words = mbox.words /\ mbox'.cpu = mbox.cpu
    BY <1>1, <1>2 DEF Mailboxes
<1>7. LockFree' = LockFree /\ Taken' = Taken /\ Taken \in {0, 1}
    <2>1. LockFree' = LockFree
        BY <1>1 DEF LockFree
    <2>2. B(wpc' = "dmaAck") = B(wpc = "dmaAck") /\ B(~LockFree') = B(~LockFree)
        BY <1>1, <2>1 DEF B
    <2> QED BY <2>1, <2>2, TakenRange DEF MailInv, Taken
<1>8. Untaken = 0 /\ Pending(dmaEvt) = Taken
    <2>1. Untaken = 0 /\ Pending(dmaEvt) \in Nat
        BY <1>2, <1>3, DmaCount DEF Moving
    <2> QED BY <1>7, <2>1 DEF Untaken
<1> HIDE DEF final, last
<1>9. (final = "running" => Moving') /\ (final # "running" => Ended')
    <2>1. CASE final = "running"
        <3>1. UNCHANGED dmaEvt /\ running'
            BY <1>1, <2>1
        <3>2. Untaken' = 0
            BY <1>7, <1>8, <3>1 DEF Untaken
        <3> QED BY <1>1, <1>3, <1>6, <2>1, <3>1, <3>2 DEF Moving, NoRequest
    <2>2. CASE final # "running"
        <3>1. dmaEvt' = Signal(dmaEvt) /\ ~running'
            BY <1>1, <2>2
        <3>2. Pending(dmaEvt) # EventMod - 1
            BY <1>7, <1>8, SignalAssumption DEF Scope
        <3>3. Pending(dmaEvt') = Pending(dmaEvt) + 1
            BY <1>2, <3>1, <3>2, PendingSignal
        <3>4. Untaken' = 1
            BY <1>7, <1>8, <3>3 DEF Untaken
        <3>5. mbox'.status \in Finished
            BY <1>5, <1>6, <2>2
        <3> QED BY <1>1, <1>3, <2>2, <3>1, <3>4, <3>5 DEF Ended, Moving, NoRequest
    <2> QED BY <2>1, <2>2
<1>10. Moving' \/ Ended'
    BY <1>9
<1>11. ~Free' /\ ~Asked'
    BY <1>10 DEF Free, Asked, Moving, Ended
<1>12. Exchange'
    <2>1. ~orphan => active # NoSlot /\ Mine
        BY <1>3, OnePhase DEF MailInv, Exchange
    <2>2. orphan => carrier = NoSlot /\ \A s \in scheduled : ~executing[s]
        BY DEF MailInv, Exchange
    <2> QED BY <1>1, <1>2, <1>6, <1>10, <1>11, <2>1, <2>2 DEF Exchange, Mine
<1>13. PushedOnce' /\ OneSide'
    <2>1. mbox.cpu <=> CpuSlots # {}
        BY <1>1 DEF MailInv, OneSide
    <2> QED BY <1>1, <1>6, <2>1 DEF MailInv, PushedOnce, OneSide
<1>14. Takers'
    BY <1>1, <1>4 DEF MailInv, Takers
<1>15. MailInv'
    BY <1>1, <1>12, <1>13, <1>14 DEF MailInv
<1>16. CASE orphan
    <2>1. moved' = moved
        BY <1>1, <1>16 DEF MailInv, Exchange
    <2>2. SuccessMeansMoved'
        BY <1>1, <2>1 DEF MovedInv, SuccessMeansMoved
    <2>3. MovedInv'
        BY <1>1, <1>16, <2>1, <2>2 DEF MovedInv, Settled
    <2> QED BY <1>3, <1>11, <1>15, <2>3 DEF Dropped
<1>17. CASE ~orphan
    <2>1. active # NoSlot /\ carrier = active /\ active \in Slots /\ active \in scheduled
        BY <1>2, <1>3, <1>17, OnePhase DEF MailInv, Exchange, Mine, TablesConsistent
    <2>2. /\ moved'[active] = IF timeout THEN moved[active] ELSE moved[active] + 1
          /\ \A s \in Slots : s # active => moved'[s] = moved[s]
        BY <1>1, <1>2, <2>1
    <2>3. moved[active] + left = done[active] + mbox.words /\ moved[active] \in Nat
        BY <1>2, <1>3, <1>17, <2>1 DEF MovedInv, Progress
    <2>4. moved'[active] + left' = done[active] + mbox.words /\ moved'[active] \in Nat
        BY <1>1, <1>2, <2>2, <2>3
    <2>5. mbox'.status = "ready" => moved'[active] = done[active] + mbox.words
        BY <1>5, <1>6, <2>4
    <2>6. Progress'
        BY <1>1, <1>6, <1>11, <2>4, <2>5 DEF Progress
    <2>7. accepted[active] => ~success[active]
        BY <2>1 DEF MovedInv, Settled
    <2>8. SuccessMeansMoved'
        BY <1>1, <2>2, <2>7 DEF MovedInv, SuccessMeansMoved
    <2>9. \A s \in scheduled : Settled(s)'
        BY <1>1, <1>2, <1>17, <2>2 DEF MovedInv, Settled
    <2>10. MovedInv'
        BY <1>1, <2>6, <2>8, <2>9 DEF MovedInv
    <2> QED BY <1>3, <1>11, <1>15, <2>10 DEF Dropped
<1> QED BY <1>2, <1>16, <1>17

(* A turn of the PRU loop.                                                 *)
LEMMA PruMails ==
    ASSUME Scope, Core, Frame, MailInv, MovedInv, PruStep
    PROVE  MailInv' /\ MovedInv' /\ (Dropped' => Dropped \/ PruSamples)
<1>a. ASSUME UNCHANGED <<pc, wpc, dmaEvt>>
      PROVE  Untaken' = Untaken /\ Pending(dmaEvt') = Pending(dmaEvt)
    BY <1>a, UntakenStays DEF LockFree
<1>1. CASE PruSamples
    <2>1. UNCHANGED <<pc, wpc, dmaEvt, pruAlive>>
        BY <1>1 DEF PruSamples, OthersOfPru, caller, PruSignalsChange, workerVars
    <2>2. Exchange' /\ PushedOnce' /\ OneSide' /\ MovedInv' /\ (Ended => Ended')
        BY <1>1, <1>a, <2>1, SampleMails
    <2>3. Takers'
        BY <2>1, <2>2, TakersStay DEF MailInv
    <2> QED BY <1>1, <2>1, <2>2, <2>3 DEF MailInv
<1>2. CASE PruStartsDma
    <2>1. UNCHANGED <<pc, wpc, dmaEvt, pruAlive>>
        BY <1>2 DEF PruStartsDma, OthersOfPru, caller, initVars, workerVars
    <2>2. Asked /\ Orderly /\ MovedInv'
        BY <1>2, <1>a, <2>1, StartMails
    <2>3. Takers'
        BY <2>1, <2>2, OnePhase, TakersStay DEF MailInv
    <2> QED BY <2>1, <2>2, <2>3 DEF MailInv, Orderly
<1>3. ASSUME NEW timeout \in BOOLEAN, PruMovesWord(timeout) PROVE MailInv' /\ MovedInv' /\ ~Dropped'
    BY <1>3, WordMails
<1>4. ~PruStopsSilently
    BY DEF PruStopsSilently, MailInv, Exchange, Free, Asked, Moving, Ended
<1> QED BY <1>1, <1>2, <1>3, <1>4 DEF PruStep

(* A wakeup for something else, a change on the backplane, or no change.   *)
LEMMA SurroundingsMail ==
    ASSUME Scope, Core, Frame, MailInv, MovedInv,
           PruOtherEvent \/ PruSticks \/ BackplaneStep \/ UNCHANGED vars
    PROVE  MailInv' /\ MovedInv' /\ (Dropped' => Dropped)
<1>1. ~PruSticks
    BY DEF PruSticks, Scope
<1>2. /\ UNCHANGED <<tables, orphan, reqs, caller, accepted, mbox, dmaEvt, pruAlive, pruReq,
                     running, left, carrier, moved>>
      /\ UNCHANGED wpc
    BY <1>1 DEF PruOtherEvent, BackplaneStep, OthersOfPru, vars, pruDma, ghosts, workerVars,
                InitChanges, DcloChanges, initVars
<1>3. UNCHANGED <<scheduled, active, success, executing, wordcount, done, pc>>
    BY <1>2 DEF tables, reqs, caller
<1>4. Untaken' = Untaken /\ Pending(dmaEvt') = Pending(dmaEvt)
    BY <1>2, <1>3, UntakenStays DEF LockFree
<1>5. scheduled \subseteq Slots
    BY DEF Core, SchedulerType
<1>6. Orderly /\ MovedInv' /\ (Ended => Ended')
    BY <1>2, <1>3, <1>4, <1>5, QuietMails
<1>7. Takers'
    BY <1>2, <1>3, <1>6, TakersStay DEF MailInv
<1> QED BY <1>2, <1>6, <1>7 DEF MailInv, Orderly

(* The adapter starts with a free mailbox.                                 *)
LEMMA InitMails == Init => MailInv /\ MovedInv
<1> SUFFICES ASSUME Init PROVE MailInv /\ MovedInv
    OBVIOUS
<1>1. Pending(dmaEvt) = 0
    <2>1. dmaEvt \in Event /\ IsAcked(dmaEvt)
        BY NoEventsType DEF Init, NoEvents, IsAcked
    <2> QED BY <2>1, DmaCount
<1>2. LockFree /\ wpc = "wait" /\ scheduled = {} /\ active = NoSlot /\ ~orphan /\ pruAlive
    BY DEF Init, InitSignals, LockFree, Slots
<1>3. Taken = 0
    BY <1>2 DEF Taken, B
<1>4. Free
    BY <1>1, <1>3 DEF Init, Free, NoRequest, Untaken
<1>5. Exchange /\ PushedOnce
    BY <1>2, <1>4 DEF Exchange, PushedOnce
<1>6. OneSide
    BY <1>1, <1>4 DEF OneSide, Free
<1>7. Takers
    BY <1>2 DEF Init, Takers
<1>8. MovedInv
    BY <1>2 DEF Init, MovedInv, SuccessMeansMoved
<1> QED BY <1>2, <1>5, <1>6, <1>7, <1>8 DEF MailInv

(* MailInv and MovedInv are inductive beside IndInv, within Scope.         *)
THEOREM MailInductive ==
    ASSUME Scope
    PROVE  Spec => [](MailInv /\ MovedInv)
<1>1. Init => MailInv /\ MovedInv
    BY InitMails
<1>2. IndInv /\ MailInv /\ MovedInv /\ [Next]_vars => (MailInv /\ MovedInv)'
    <2> SUFFICES ASSUME Core, Frame, MailInv, MovedInv, [Next]_vars
                 PROVE  MailInv' /\ MovedInv'
        BY IndInvParts
    <2>1. CASE \E s \in Slots : DeviceStep(s)
        BY <2>1, DeviceMails
    <2>2. CASE \E c \in CpuSlots : CpuStep(c)
        BY <2>2, CpuMails
    <2>3. CASE WorkerStep
        BY <2>3, WorkerMails
    <2>4. CASE PruStep
        BY <2>4, PruMails
    <2>5. CASE PruOtherEvent \/ PruSticks \/ BackplaneStep \/ UNCHANGED vars
        BY <2>5, SurroundingsMail
    <2> QED BY <2>1, <2>2, <2>3, <2>4, <2>5 DEF Next
<1> QED BY <1>1, <1>2, Inductive, PTL DEF Spec

(* What the PRU owes, by the phase of the exchange.                        *)
LEMMA OwedOf ==
    ASSUME Core, Frame
    PROVE  /\ Free => Owed = 0
           /\ Asked \/ Moving \/ Ended => Owed = 1
<1>1. /\ pruReq.npr \in BOOLEAN /\ pruReq.cpu \in BOOLEAN
      /\ running \in BOOLEAN /\ mbox.cpu \in BOOLEAN
    BY DEF Core, Frame, Requests, Mailboxes
<1>2. Pending(dmaEvt) \in Nat /\ Taken \in Int
    BY DmaCount DEF Frame, Taken, B
<1>3. Owed = B(pruReq.npr) + B(pruReq.cpu) + B(running) + Untaken
    BY <1>2 DEF Owed, Untaken, Pending, B
<1>4. Free => Owed = 0
    BY <1>3 DEF Free, NoRequest, B
<1>5. Asked => Owed = 1
    BY <1>1, <1>3 DEF Asked, B
<1>6. Moving \/ Ended => Owed = 1
    BY <1>3 DEF Moving, Ended, NoRequest, B
<1> QED BY <1>4, <1>5, <1>6

(* mailbox->dma is never shared: the PRU holds at most one transfer or one *)
(* completion that nobody has taken, and exactly one while the latch       *)
(* dma_orphan_on_pru stands.                                               *)
THEOREM NotShared ==
    ASSUME Scope
    PROVE  Spec => []MailboxNotShared
<1>1. IndInv /\ MailInv => MailboxNotShared
    BY IndInvParts, OwedOf DEF MailInv, Exchange, MailboxNotShared
<1> QED BY <1>1, Inductive, MailInductive, PTL

(* A transfer that DMA() reports as successful moved exactly the words     *)
(* asked for, over any number of chunks.                                   *)
THEOREM MovedAsAsked ==
    ASSUME Scope
    PROVE  Spec => []SuccessMeansMoved
<1>1. MovedInv => SuccessMeansMoved
    BY DEF MovedInv
<1> QED BY <1>1, MailInductive, PTL

(* Whichever thread takes a completion for the active request, it finds a  *)
(* transfer that the PRU has ended.                                        *)
THEOREM OnlyFinished ==
    ASSUME Scope
    PROVE  Spec => CompletionIsFinished
<1> DEFINE Took == \/ wpc = "dmaLock" /\ wpc' = "dmaAck"
                   \/ \E c \in CpuSlots : pc[c] = "spin" /\ pc'[c] = "ack"
<1>1. IndInv /\ MailInv /\ [Next]_vars
        => [ChunkEventIsMine /\ Took => mbox.status \in Finished]_vars
    <2> SUFFICES ASSUME Frame, MailInv, Next, Took PROVE mbox.status \in Finished
        BY IndInvParts
    <2>1. CASE wpc = "dmaLock"
        BY <2>1 DEF MailInv, Takers, Ended
    <2>2. ASSUME NEW c \in CpuSlots, pc[c] = "spin", pc'[c] = "ack"
          PROVE  mbox.status \in Finished
        <3>1. c \in Slots /\ pc \in [Slots -> Places] /\ pc' # pc
            BY <2>2 DEF Slots, Frame, CallerType, Places
        <3>2. ASSUME NEW s \in Slots, NEW p, Reached(s, p), p # "ack" PROVE FALSE
            BY <2>2, <3>1, <3>2 DEF Reached
        <3>3. ~(\E s \in Slots : DeviceStep(s))
            <4>1. ASSUME NEW s \in Slots, DeviceStep(s) PROVE FALSE
                <5>1. \E p \in Places \ {"ack"} : Reached(s, p)
                    BY <4>1 DEF DeviceStep, DmaRefused, DmaByCpu, DmaScheduled, DmaReturns,
                               DmaTimesOut, DmaResultRead, DmaAbandonKept, DmaAbandonRetired, Places
                <5> QED BY <3>2, <5>1
            <4> QED BY <4>1
        <3>4. ~(WorkerStep \/ PruStep \/ PruOtherEvent \/ PruSticks \/ BackplaneStep)
            BY <3>1 DEF WorkerStep, WorkerSamplesInit, WorkerNotifies, WorkerChecksDma,
                   WorkerTakesDma, WorkerAcksDma, OthersOfDmaEvent, OthersOfWorker, PruStep,
                   PruSamples, PruStartsDma, PruMovesWord, PruStopsSilently, PruOtherEvent,
                   PruSticks, OthersOfPru, BackplaneStep, caller
        <3>5. PICK d \in CpuSlots : CpuStep(d)
            BY <3>3, <3>4 DEF Next
        <3>6. d = c
            BY SlotAssumption
        <3>7. CpuTakesEvent(c)
            <4>1. ~CpuAcksEvent(c)
                BY <2>2 DEF CpuAcksEvent
            <4>2. ~CpuSeesCancel(c) /\ ~CpuGivesUp(c)
                BY <3>1, <3>2 DEF CpuSeesCancel, CpuGivesUp
            <4> QED BY <3>5, <3>6, <4>1, <4>2 DEF CpuStep
        <3> QED BY <3>7, CpuTakesEnded DEF Ended
    <2> QED BY <2>1, <2>2
<1> QED BY <1>1, Inductive, MailInductive, PTL DEF Spec, CompletionIsFinished

-----------------------------------------------------------------------------
(* INIT and the requests. While the worker holds INIT on and has cancelled *)
(* for it, the tables are empty; a request that the PRU dropped is one the *)
(* worker has yet to cancel.                                               *)
Cleared == lineInit /\ wpc \notin Replays /\ ~RaiseAhead => scheduled = {}
DropNoticed == Dropped => CancelPending

(* Outside INIT the tables only shrink, and a cancel empties them.         *)
LEMMA ChunkShrinks == ChunkComplete => scheduled' \subseteq scheduled
BY DEF ChunkComplete, DiscardChunkEvent, FinishRequest, NextChunk, tables

(* DMA() refuses while INIT is on; the processor only leaves the tables.   *)
LEMMA CallersAndInit ==
    ASSUME Delivering, Cleared, SignalsTypeOK',
           (\E s \in Slots : DeviceStep(s)) \/ (\E c \in CpuSlots : CpuStep(c))
    PROVE  Delivering' /\ Cleared' /\ (CancelPending => CancelPending')
<1>1. UNCHANGED initVars
    BY DEF DeviceStep, DmaRefused, DmaByCpu, DmaScheduled, CallBegins, DmaReturns, DmaTimesOut,
           DmaResultRead, DmaAbandonKept, DmaAbandonRetired, CpuStep, CpuTakesEvent,
           CpuAcksEvent, CpuSeesCancel, CpuGivesUp, OthersOfSpin
<1>2. UNCHANGED <<handVars, wpc, wRaise, lineInit>>
    BY <1>1 DEF initVars, workerVars, signalVars, handVars
<1>3. scheduled' \subseteq scheduled \/ ~lineInit
    <2>1. ASSUME NEW s \in Slots, NEW n \in Words[s], DmaScheduled(s, n) PROVE ~lineInit
        BY <2>1 DEF DmaScheduled, bus_init_active
    <2>2. ASSUME NEW s \in Slots, DeviceStep(s), \A n \in Words[s] : ~DmaScheduled(s, n)
          PROVE  scheduled' \subseteq scheduled
        BY <2>2 DEF DeviceStep, DmaRefused, DmaByCpu, DmaReturns, DmaTimesOut, DmaResultRead,
                    DmaAbandonKept, DmaAbandonRetired, SchedulerUnchanged, tables
    <2>3. ASSUME NEW c \in CpuSlots, CpuStep(c) PROVE scheduled' \subseteq scheduled
        BY <2>3, ChunkShrinks DEF CpuStep, CpuTakesEvent, CpuAcksEvent, CpuSeesCancel,
                                  CpuGivesUp, SchedulerUnchanged, tables
    <2> QED BY <2>1, <2>2, <2>3
<1>4. Cleared'
    BY <1>2, <1>3 DEF Cleared, RaiseAhead, MidPass
<1> QED BY <1>2, <1>4, HandUnchanged

(* A pass of worker(): it takes what is pending for INIT in hand only to   *)
(* cancel every request.                                                   *)
LEMMA WorkerAndInit ==
    ASSUME Delivering, Cleared, SignalsTypeOK', WorkerStep
    PROVE  /\ Delivering' /\ Cleared'
           /\ CancelPending => CancelPending' \/ active' = NoSlot
<1>1. CASE WorkerSamplesInit
    <2>1. /\ WorkerWakes \/ WorkerReadsInitCount \/ WorkerReadsInitLevel
          /\ UNCHANGED scheduled
        BY <1>1 DEF WorkerSamplesInit, SchedulerUnchanged, tables
    <2>2. Cleared'
        <3>1. CASE WorkerWakes \/ WorkerReadsInitCount
            <4>1. wpc \in {"wait", "init"} /\ UNCHANGED lineInit
                BY <3>1 DEF WorkerWakes, WorkerReadsInitCount
            <4> QED BY <2>1, <4>1 DEF Cleared, RaiseAhead, MidPass, Replays
        <3>2. CASE WorkerReadsInitLevel
            <4>1. wpc' = "replay1" \/ (wpc' = "power" /\ (lineInit' => wRaise'))
                BY <3>2 DEF WorkerReadsInitLevel, Delivering, SignalsTypeOK
            <4> QED BY <4>1 DEF Cleared, RaiseAhead, MidPass, Replays
        <3> QED BY <2>1, <3>1, <3>2
    <2> QED BY <2>1, <2>2, SamplesDeliver
<1>2. CASE WorkerNotifies
    <2>1. \/ WorkerReplaysFarSide \/ WorkerReplaysNearSide
          \/ WorkerPower("dma") \/ WorkerEndsPass
        BY <1>2 DEF WorkerNotifies
    <2>2. Delivering' /\ (CancelPending /\ ~Cancels => CancelPending')
        BY <2>1, NotifiesDeliver
    <2>3. CASE Cancels
        <3>1. scheduled' = {} /\ active' = NoSlot
            BY <1>2, <2>3 DEF WorkerNotifies, CancelAll
        <3> QED BY <2>2, <3>1 DEF Cleared
    <2>4. CASE ~Cancels
        <3>1. UNCHANGED scheduled /\ ~InitCancels
            BY <1>2, <2>4 DEF WorkerNotifies, SchedulerUnchanged, tables, Cancels
        <3>2. ASSUME WorkerReplaysFarSide PROVE Cleared'
            BY <3>2 DEF WorkerReplaysFarSide, Cleared, Replays
        <3>3. ASSUME WorkerReplaysNearSide PROVE Cleared'
            BY <3>1, <3>3 DEF WorkerReplaysNearSide, InitCancels, Cleared
        <3>4. ASSUME WorkerPower("dma") PROVE Cleared'
            <4>1. wpc = "power" /\ wpc' = "dma" /\ UNCHANGED <<lineInit, wRaise>>
                BY <3>4 DEF WorkerPower
            <4> QED BY <3>1, <4>1 DEF Cleared, RaiseAhead, MidPass, Replays
        <3>5. ASSUME WorkerEndsPass PROVE Cleared'
            <4>1. wpc = "raise" /\ wpc' \in {"init", "wait"} /\ UNCHANGED <<lineInit, wRaise>>
                BY <3>5 DEF WorkerEndsPass
            <4>2. lineInit => ~wRaise
                BY <3>1, <4>1 DEF InitCancels
            <4> QED BY <3>1, <4>1, <4>2 DEF Cleared, RaiseAhead, MidPass, Replays
        <3> QED BY <2>1, <2>2, <2>4, <3>2, <3>3, <3>4, <3>5
    <2> QED BY <2>3, <2>4
<1>3. CASE WorkerChecksDma \/ WorkerTakesDma \/ WorkerAcksDma
    <2>1. /\ wpc \in {"dma", "dmaLock", "dmaAck"} /\ wpc' \in {"dmaLock", "dmaAck", "raise"}
          /\ OthersOfDmaEvent /\ scheduled' \subseteq scheduled
        BY <1>3, ChunkShrinks DEF WorkerChecksDma, WorkerTakesDma, WorkerAcksDma,
                                  SchedulerUnchanged, tables
    <2>2. UNCHANGED <<handVars, lineInit, wRaise>>
        BY <2>1 DEF OthersOfDmaEvent, handVars, signalVars
    <2>3. MidPass /\ MidPass' /\ wpc \notin Replays
        BY <2>1 DEF MidPass, Replays
    <2>4. Cleared'
        BY <2>1, <2>2, <2>3 DEF Cleared, RaiseAhead
    <2> QED BY <2>2, <2>3, <2>4, HandUnchanged
<1> QED BY <1>1, <1>2, <1>3 DEF WorkerStep

(* The PRU and the lines: a signal adds to what is pending.                *)
LEMMA PruAndInit ==
    ASSUME Delivering, Cleared, SignalsTypeOK', NotLapped,
           PruStep \/ PruOtherEvent \/ PruSticks \/ BackplaneStep \/ UNCHANGED vars
    PROVE  Delivering' /\ Cleared' /\ (CancelPending => CancelPending')
<1>1. UNCHANGED scheduled /\ UNCHANGED workerVars
    BY DEF PruStep, PruSamples, PruStartsDma, PruMovesWord, PruStopsSilently, PruOtherEvent,
           PruSticks, BackplaneStep, OthersOfPru, tables, vars, initVars, PruSignalsChange,
           InitChanges, DcloChanges
<1>2. UNCHANGED <<wpc, lineInit, wRaise, wSeen>>
    BY <1>1 DEF workerVars
<1>3. Cleared'
    BY <1>1, <1>2 DEF Cleared, RaiseAhead, MidPass
<1>4. CASE PruSamples
    BY <1>3, <1>4, PruDelivers DEF PruSamples
<1>5. CASE ~PruSamples
    <2>1. UNCHANGED <<initEvt, initCur>>
        BY <1>5 DEF PruStep, PruStartsDma, PruMovesWord, PruStopsSilently, PruOtherEvent,
           PruSticks, BackplaneStep, vars, initVars, InitChanges, DcloChanges, signalVars
    <2>2. UNCHANGED handVars
        BY <1>2, <2>1 DEF handVars
    <2> QED BY <1>2, <1>3, <2>2, HandUnchanged
<1> QED BY <1>4, <1>5

(* An INIT that stands is either already answered by empty tables, or      *)
(* still pending.                                                          *)
LEMMA StandingInitPends ==
    ASSUME Delivering, Cleared, initCur, scheduled # {}
    PROVE  CancelPending
<1>1. ~lineInit \/ wpc \in Replays \/ RaiseAhead
    BY DEF Cleared
<1>2. Pending(initEvt) \in Nat /\ lineInit \in BOOLEAN /\ initCur = TRUE
    BY CountsInRange, SignalAssumption DEF Delivering, SignalsTypeOK
<1>3. Pending(initEvt) > 0
    <2>1. CASE wpc \in Replays \/ RaiseAhead \/ wpc = "level"
        BY <2>1 DEF Delivering, SignalInHand
    <2>2. CASE ~lineInit /\ ~RaiseAhead /\ wpc \notin Replays \cup {"level"}
        <3>1. lineInit # initCur
            BY <2>2, Zenon
        <3>2. Pending(initEvt) # 0
            BY <2>2, <3>1 DEF Delivering, LevelFollows
        <3> QED BY <1>2, <3>2
    <2> QED BY <1>1, <2>1, <2>2
<1>4. wpc = "replay2" /\ ~lineInit => wSeen # initEvt.sig
    BY <1>2 DEF Delivering, LevelFollows
<1> QED BY <1>2, <1>3, <1>4 DEF CancelPending

(* Every step of Next, as far as INIT and the tables are concerned.        *)
LEMMA StepAndInit ==
    ASSUME Delivering, Cleared, SignalsTypeOK', [Next]_vars, [NotLapped]_vars
    PROVE  /\ Delivering' /\ Cleared'
           /\ CancelPending => CancelPending' \/ active' = NoSlot
<1>1. NotLapped
    BY DEF NotLapped, vars, initVars, signalVars
<1> QED BY <1>1, CallersAndInit, WorkerAndInit, PruAndInit DEF Next

(* After power up the tables are empty and no INIT is owed.                *)
LEMMA InitStarts == Init => Delivering /\ Cleared /\ DropNoticed
<1> SUFFICES ASSUME Init PROVE Delivering /\ Cleared /\ DropNoticed
    OBVIOUS
<1>1. Delivering
    BY StartsDelivering DEF Init
<1> QED BY <1>1 DEF Init, Cleared, DropNoticed, Dropped

(* The INIT protocol and the emptied tables, in all of DmaScheduler.       *)
THEOREM ClearedInductive == Spec /\ [][NotLapped]_vars => [](Delivering /\ Cleared)
<1>1. Init => Delivering /\ Cleared
    BY InitStarts
<1>2. IndInv => SignalsTypeOK
    BY DEF IndInv, TypeOK
<1>3. Delivering /\ Cleared /\ SignalsTypeOK' /\ [Next]_vars /\ [NotLapped]_vars
        => (Delivering /\ Cleared)'
    BY StepAndInit
<1> QED BY <1>1, <1>2, <1>3, Inductive, PTL DEF Spec

(* Once the worker has acknowledged an asserted INIT, no request stands    *)
(* until INIT ends: DMA() tests again under the mutex, and every path      *)
(* that acknowledges it has emptied the tables before.                     *)
THEOREM RequestsCleared == Spec /\ [][NotLapped]_vars => []InitClearsRequests
<1>1. Delivering /\ Cleared => InitClearsRequests
    BY CountsInRange DEF Delivering, SignalInHand, Cleared, InitClearsRequests
<1> QED BY <1>1, ClearedInductive, PTL

(* A sample of INIT that drops a request finds that INIT pending; nothing  *)
(* but requests_cancel_all() settles it.                                   *)
LEMMA DropStaysNoticed ==
    ASSUME Scope, Core, Frame, MailInv, MovedInv, Delivering, Cleared, DropNoticed,
           SignalsTypeOK', [Next]_vars, [NotLapped]_vars
    PROVE  DropNoticed'
<1>1. CancelPending => CancelPending' \/ active' = NoSlot
    BY StepAndInit
<1>2. Dropped' => Dropped \/ PruSamples
    BY DeviceMails, CpuMails, WorkerMails, PruMails, SurroundingsMail DEF Next
<1>3. ASSUME PruSamples, Dropped', ~Dropped PROVE CancelPending'
    <2>1. PruSignalsChange /\ NotLapped
        BY <1>3 DEF PruSamples, NotLapped, vars, initVars, signalVars
    <2>2. UNCHANGED <<pc, wpc, dmaEvt, orphan, active>>
        BY <1>3 DEF PruSamples, OthersOfPru, caller, tables, PruSignalsChange, workerVars
    <2>3. Untaken' = Untaken /\ Pending(dmaEvt') = Pending(dmaEvt)
        BY <2>2, UntakenStays DEF LockFree
    <2>4. busInit /\ scheduled # {}
        BY <1>3, <2>2, <2>3, SampleMails DEF Dropped, Core, TablesConsistent
    <2>5. CASE ~initCur
        BY <2>1, <2>4, <2>5, PruDelivers
    <2>6. CASE initCur
        BY <2>1, <2>4, <2>6, PruDelivers, StandingInitPends
    <2> QED BY <2>5, <2>6
<1> QED BY <1>1, <1>2, <1>3 DEF DropNoticed, Dropped

(* No active transfer is forgotten: if the PRU holds nothing for it, it    *)
(* was dropped for an INIT that the worker has yet to acknowledge.         *)
THEOREM NoneForgotten ==
    ASSUME Scope
    PROVE  Spec /\ [][NotLapped]_vars => []NoForgottenTransfer
<1>1. Init => DropNoticed
    BY InitStarts
<1>2. /\ IndInv /\ MailInv /\ MovedInv /\ Delivering /\ Cleared /\ DropNoticed
      /\ IndInv' /\ [Next]_vars /\ [NotLapped]_vars
      => DropNoticed'
    <2>1. IndInv' => SignalsTypeOK'
        BY DEF IndInv, TypeOK
    <2> QED BY <2>1, IndInvParts, DropStaysNoticed
<1>3. IndInv /\ MailInv /\ Delivering /\ DropNoticed => NoForgottenTransfer
    <2> SUFFICES ASSUME Core, Frame, MailInv, Delivering, DropNoticed, active # NoSlot, Owed = 0
                 PROVE  ~IsAcked(initEvt)
        BY IndInvParts DEF NoForgottenTransfer
    <2>1. Free /\ ~orphan
        BY OwedOf DEF MailInv, Exchange
    <2>2. CancelPending
        BY <2>1 DEF DropNoticed, Dropped
    <2> QED BY <2>2, CountsInRange DEF Delivering, CancelPending
<1> QED BY <1>1, <1>2, <1>3, Inductive, MailInductive, ClearedInductive, PTL DEF Spec

(* The count of INIT changes bounds what is pending, in all steps.         *)
LEMMA StepCounts ==
    ASSUME MaxInit < EventMod, Delivering, Counted, [Next]_vars
    PROVE  Counted' /\ NotLapped
<1>a. SignalsTypeOK
    BY DEF Delivering
<1>1. ASSUME UNCHANGED <<initEvt, initCur, busInit, inits>> PROVE Counted' /\ NotLapped
    BY <1>1 DEF Counted, NotLapped
<1>2. CASE (\E s \in Slots : DeviceStep(s)) \/ (\E c \in CpuSlots : CpuStep(c))
    <2>1. UNCHANGED initVars
        BY <1>2 DEF DeviceStep, DmaRefused, DmaByCpu, DmaScheduled, CallBegins, DmaReturns,
           DmaTimesOut, DmaResultRead, DmaAbandonKept, DmaAbandonRetired, CpuStep,
           CpuTakesEvent, CpuAcksEvent, CpuSeesCancel, CpuGivesUp, OthersOfSpin
    <2> QED BY <1>1, <2>1 DEF initVars, signalVars, busVars
<1>3. CASE WorkerStep
    <2>1. CASE WorkerSamplesInit \/ WorkerNotifies
        BY <2>1, CountOfWorker DEF WorkerSamplesInit, WorkerNotifies
    <2>2. CASE WorkerChecksDma \/ WorkerTakesDma \/ WorkerAcksDma
        <3>1. UNCHANGED <<signalVars, busVars>>
            BY <2>2 DEF WorkerChecksDma, WorkerTakesDma, WorkerAcksDma, OthersOfDmaEvent
        <3> QED BY <1>1, <3>1 DEF signalVars, busVars
    <2> QED BY <1>3, <2>1, <2>2 DEF WorkerStep
<1>4. CASE PruSamples
    BY <1>4, <1>a, CountOfPru DEF PruSamples
<1>5. CASE BackplaneStep
    BY <1>5, <1>a, CountOfLines DEF BackplaneStep
<1>6. CASE \/ PruStep /\ ~PruSamples
           \/ PruOtherEvent \/ PruSticks \/ UNCHANGED vars
    <2>1. UNCHANGED <<signalVars, busVars>>
        BY <1>6 DEF PruStep, PruStartsDma, PruMovesWord, PruStopsSilently, PruOtherEvent,
                    PruSticks, vars, initVars
    <2> QED BY <1>1, <2>1 DEF signalVars, busVars
<1> QED BY <1>2, <1>3, <1>4, <1>5, <1>6 DEF Next

(* Both properties from the bound on INIT changes alone, as in the runs.   *)
THEOREM FewInitsCleared ==
    ASSUME Scope, MaxInit < EventMod
    PROVE  Spec => [](InitClearsRequests /\ NoForgottenTransfer)
<1>1. Init => Delivering /\ Cleared /\ Counted
    BY InitStarts, CountStarts DEF Init
<1>2. IndInv => SignalsTypeOK
    BY DEF IndInv, TypeOK
<1>3. Delivering /\ Cleared /\ Counted /\ SignalsTypeOK' /\ [Next]_vars
        => (Delivering /\ Cleared /\ Counted)' /\ [NotLapped]_vars
    BY StepCounts, StepAndInit
<1>4. Spec => [][NotLapped]_vars
    BY <1>1, <1>2, <1>3, Inductive, PTL DEF Spec
<1> QED BY <1>4, RequestsCleared, NoneForgotten, PTL
=============================================================================
