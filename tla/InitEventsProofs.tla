-------------------------- MODULE InitEventsProofs --------------------------
(* Facts about the steps of InitEvents that both request schedulers use.   *)
EXTENDS InitEvents, TLAPS

(* EVENT_SIGNAL and EVENT_ACK keep an event's two counters in their range. *)
LEMMA EventCounters ==
    ASSUME NEW e \in Event
    PROVE  Signal(e) \in Event /\ Ack(e) \in Event
<1>1. (e.sig + 1) % EventMod \in Counter /\ (e.ack + 1) % EventMod \in Counter
    BY SignalAssumption DEF Event, Counter
<1> QED BY <1>1 DEF Signal, Ack, Event, Counter

(* The counters start in range, whatever their modulus.                    *)
LEMMA NoEventsType == NoEvents \in Event
BY SignalAssumption DEF NoEvents, Event, Counter

(* The initial INIT and DCLO state is well typed.                          *)
LEMMA InitSignalsType == InitSignals => SignalsTypeOK
<1> SUFFICES ASSUME InitSignals PROVE SignalsTypeOK
    OBVIOUS
<1>1. wSeen \in Counter /\ inits \in 0 .. MaxInit /\ powers \in 0 .. MaxPower
    BY SignalAssumption DEF InitSignals, Counter
<1>2. initEvt \in Event /\ powEvt \in Event
    BY NoEventsType DEF InitSignals
<1> QED BY <1>1, <1>2, Zenon DEF InitSignals, SignalsTypeOK

(* A step of a scheduler that leaves INIT and DCLO alone keeps their type. *)
LEMMA SignalsUnchanged ==
    SignalsTypeOK /\ UNCHANGED initVars => SignalsTypeOK'
BY DEF SignalsTypeOK, initVars, workerVars, busVars, signalVars

(* The lines change: InitChanges and DcloChanges keep the type.            *)
LEMMA BackplaneType ==
    SignalsTypeOK /\ (InitChanges \/ DcloChanges) => SignalsTypeOK'
<1> SUFFICES ASSUME SignalsTypeOK, InitChanges \/ DcloChanges PROVE SignalsTypeOK'
    OBVIOUS
<1>1. inits' \in 0 .. MaxInit /\ powers' \in 0 .. MaxPower
    BY SignalAssumption DEF SignalsTypeOK, InitChanges, DcloChanges
<1>2. busInit' \in BOOLEAN /\ busDclo' \in BOOLEAN
    BY Zenon DEF SignalsTypeOK, InitChanges, DcloChanges
<1>3. UNCHANGED <<workerVars, signalVars, irq>>
    BY DEF InitChanges, DcloChanges
<1> QED BY <1>1, <1>2, <1>3 DEF SignalsTypeOK, workerVars, signalVars

(* do_event_initializationsignals keeps the type.                          *)
LEMMA PruSignalsType == SignalsTypeOK /\ PruSignalsChange => SignalsTypeOK'
<1> SUFFICES ASSUME SignalsTypeOK, PruSignalsChange PROVE SignalsTypeOK'
    OBVIOUS
<1>1. initEvt' \in Event /\ powEvt' \in Event
    BY EventCounters DEF SignalsTypeOK, PruSignalsChange
<1> QED BY <1>1 DEF SignalsTypeOK, PruSignalsChange, Sampled, workerVars, busVars

(* The sampling part of the worker's pass keeps the type.                  *)
LEMMA WorkerSamplesType ==
    SignalsTypeOK /\ (WorkerWakes \/ WorkerReadsInitCount \/ WorkerReadsInitLevel)
        => SignalsTypeOK'
<1> SUFFICES ASSUME SignalsTypeOK,
                    WorkerWakes \/ WorkerReadsInitCount \/ WorkerReadsInitLevel
             PROVE  SignalsTypeOK'
    OBVIOUS
<1>1. CASE WorkerWakes
    BY <1>1 DEF SignalsTypeOK, WorkerWakes, signalVars, busVars
<1>2. CASE WorkerReadsInitCount
    BY <1>2 DEF SignalsTypeOK, WorkerReadsInitCount, signalVars, busVars, Event,
                IsAcked
<1>3. CASE WorkerReadsInitLevel
    <2>1. initEvt' \in Event
        BY <1>3, EventCounters DEF SignalsTypeOK, WorkerReadsInitLevel
    <2>2. IsPulse \in BOOLEAN
        BY DEF IsPulse
    <2>3. lineInit' \in BOOLEAN /\ initReplay' \in BOOLEAN /\ wRaise' \in BOOLEAN
        BY <1>3, <2>2 DEF SignalsTypeOK, WorkerReadsInitLevel
    <2>4. wpc' \in {"replay1", "power"}
        BY <1>3 DEF WorkerReadsInitLevel
    <2> QED BY <1>3, <2>1, <2>3, <2>4 DEF SignalsTypeOK, WorkerReadsInitLevel, busVars
<1> QED BY <1>1, <1>2, <1>3

(* The notifying part of the worker's pass keeps the type; next is where   *)
(* a scheduler's own part of the pass begins.                              *)
LEMMA WorkerNotifiesType ==
    ASSUME NEW next \in {"dma", "register", "raise"},
           SignalsTypeOK,
           \/ WorkerReplaysFarSide \/ WorkerReplaysNearSide
           \/ WorkerPower(next) \/ WorkerEndsPass
    PROVE  SignalsTypeOK'
<1>1. CASE WorkerReplaysFarSide
    BY <1>1 DEF SignalsTypeOK, WorkerReplaysFarSide, signalVars, busVars
<1>2. CASE WorkerReplaysNearSide
    BY <1>2 DEF SignalsTypeOK, WorkerReplaysNearSide, PulseAck, busVars, Event
<1>3. CASE WorkerPower(next)
    <2>1. powEvt' \in Event
        BY <1>3, EventCounters DEF SignalsTypeOK, WorkerPower
    <2>2. lineDclo' \in BOOLEAN /\ wAny' \in BOOLEAN
        BY <1>3 DEF SignalsTypeOK, WorkerPower
    <2> QED BY <1>3, <2>1, <2>2 DEF SignalsTypeOK, WorkerPower, busVars
<1>4. CASE WorkerEndsPass
    <2>1. initEvt' \in Event
        BY <1>4, EventCounters DEF SignalsTypeOK, WorkerEndsPass
    <2> QED BY <1>4, <2>1 DEF SignalsTypeOK, WorkerEndsPass, busVars
<1> QED BY <1>1, <1>2, <1>3, <1>4
-----------------------------------------------------------------------------
(* Signals of event e that are not acknowledged, and how far a count n is  *)
(* ahead of the acknowledged ones.                                         *)
Pending(e) == (e.sig - e.ack) % EventMod
Ahead(n, e) == (n - e.ack) % EventMod

Distance(m, n) == IF m >= n THEN m - n ELSE m - n + EventMod

(* The modular counters, by cases.                                         *)
LEMMA CounterArithmetic ==
    ASSUME NEW m \in Counter, NEW n \in Counter
    PROVE  /\ (m + 1) % EventMod = IF m = EventMod - 1 THEN 0 ELSE m + 1
           /\ (m - n) % EventMod = Distance(m, n)
BY SignalAssumption DEF Counter, Distance

(* EVENT_IS_ACKED tells that nothing is pending.                           *)
LEMMA PendingCount ==
    ASSUME NEW e \in Event, NEW n \in Counter
    PROVE  /\ Pending(e) \in 0 .. EventMod - 1
           /\ Pending(e) = 0 <=> IsAcked(e)
           /\ Ahead(n, e) \in 0 .. EventMod - 1
           /\ Ahead(n, e) = Pending(e) <=> n = e.sig
           /\ Ahead(n, e) = 0 <=> n = e.ack
<1>1. e.sig \in Counter /\ e.ack \in Counter
    BY DEF Event
<1>2. /\ Pending(e) = Distance(e.sig, e.ack)
      /\ Ahead(n, e) = Distance(n, e.ack)
    BY <1>1, CounterArithmetic DEF Pending, Ahead
<1> QED BY <1>1, <1>2, SignalAssumption DEF Distance, IsAcked, Counter

(* EVENT_SIGNAL adds one to what is pending, unless it comes full circle.  *)
LEMMA PendingSignal ==
    ASSUME NEW e \in Event
    PROVE  /\ Signal(e).ack = e.ack /\ Signal(e).sig # e.sig
           /\ Pending(Signal(e)) = IF Pending(e) = EventMod - 1 THEN 0 ELSE Pending(e) + 1
<1>1. e.sig \in Counter /\ e.ack \in Counter
    BY DEF Event
<1>2. Signal(e).ack = e.ack /\ Signal(e).sig = (e.sig + 1) % EventMod
    BY DEF Signal, Event
<1>3. (e.sig + 1) % EventMod \in Counter
    BY <1>1, SignalAssumption DEF Counter
<1>4. /\ Signal(e).sig = IF e.sig = EventMod - 1 THEN 0 ELSE e.sig + 1
      /\ Pending(e) = Distance(e.sig, e.ack)
      /\ Pending(Signal(e)) = Distance(Signal(e).sig, e.ack)
    BY <1>1, <1>2, <1>3, CounterArithmetic DEF Pending
<1> QED BY <1>1, <1>2, <1>4, SignalAssumption DEF Distance, Counter

(* EVENT_ACK takes one away, if there is one.                              *)
LEMMA PendingAck ==
    ASSUME NEW e \in Event
    PROVE  /\ Ack(e).sig = e.sig
           /\ Pending(e) > 0 => Pending(Ack(e)) = Pending(e) - 1
<1>1. e.sig \in Counter /\ e.ack \in Counter
    BY DEF Event
<1>2. Ack(e).sig = e.sig /\ Ack(e).ack = (e.ack + 1) % EventMod
    BY DEF Ack, Event
<1>3. (e.ack + 1) % EventMod \in Counter
    BY <1>1, SignalAssumption DEF Counter
<1>4. /\ Ack(e).ack = IF e.ack = EventMod - 1 THEN 0 ELSE e.ack + 1
      /\ Pending(e) = Distance(e.sig, e.ack)
      /\ Pending(Ack(e)) = Distance(e.sig, Ack(e).ack)
    BY <1>1, <1>2, <1>3, CounterArithmetic DEF Pending
<1> QED BY <1>1, <1>2, <1>4, SignalAssumption DEF Distance, Counter

(* Acknowledging up to a count that was read takes all up to that away.    *)
LEMMA PendingUpTo ==
    ASSUME NEW e \in Event, NEW n \in Counter, Ahead(n, e) <= Pending(e)
    PROVE  /\ [e EXCEPT !.ack = n].sig = e.sig
           /\ Pending([e EXCEPT !.ack = n]) = Pending(e) - Ahead(n, e)
<1>1. e.sig \in Counter /\ e.ack \in Counter
    BY DEF Event
<1>2. [e EXCEPT !.ack = n].sig = e.sig /\ [e EXCEPT !.ack = n].ack = n
    BY DEF Event
<1>3. /\ Pending(e) = Distance(e.sig, e.ack) /\ Ahead(n, e) = Distance(n, e.ack)
      /\ Pending([e EXCEPT !.ack = n]) = Distance(e.sig, n)
    BY <1>1, <1>2, CounterArithmetic DEF Pending, Ahead
<1> QED BY <1>1, <1>2, <1>3, SignalAssumption DEF Distance, Counter
-----------------------------------------------------------------------------
(* The INIT protocol itself. The one assumption it needs: a signal of the  *)
(* PRU is not mistaken for an answer, because the counter came full circle *)
(* before the worker answered.                                             *)
NotLapped == initEvt'.sig # initEvt.sig => ~IsAcked(initEvt')

Replays == {"replay1", "replay2"}
MidPass == wpc \notin {"wait", "init", "level"} \cup Replays
RaiseAhead == MidPass /\ wRaise

(* Where worker() acts on a signal, the signal is still pending; the count *)
(* it read is one the PRU has reached. A pulse is not also a rising edge.  *)
SignalInHand ==
    /\ wpc \in Replays => ~wRaise
    /\ wpc = "level" \/ wpc \in Replays \/ RaiseAhead => Pending(initEvt) > 0
    /\ wpc = "level" \/ wpc \in Replays =>
         0 < Ahead(wSeen, initEvt) /\ Ahead(wSeen, initEvt) <= Pending(initEvt)

(* The worker's level is the PRU's, but for signals it has yet to use.     *)
LevelFollows ==
    /\ wpc \notin Replays \cup {"level"} /\ Pending(initEvt) = (IF RaiseAhead THEN 1 ELSE 0)
         => lineInit = initCur
    /\ wpc = "replay1" /\ wSeen = initEvt.sig => lineInit # initCur
    /\ wpc = "replay2" /\ wSeen = initEvt.sig => lineInit = initCur
    /\ RaiseAhead => lineInit

Delivering == SignalsTypeOK /\ SignalInHand /\ LevelFollows

(* An asserted INIT is in the counter and will be acted on: when the line  *)
(* is off again but the worker still holds it on, so is its end; in a      *)
(* replay that has already cancelled, it came after the count.             *)
CancelPending ==
    /\ Pending(initEvt) > 0
    /\ lineInit /\ ~initCur /\ wpc \notin Replays => Pending(initEvt) > 1
    /\ wpc = "replay2" /\ ~lineInit => wSeen # initEvt.sig

handVars == <<wRaise, wSeen, lineInit, initEvt, initCur>>

(* Counts of the event in hand are in range, and zero means acknowledged.  *)
LEMMA CountsInRange ==
    ASSUME SignalsTypeOK
    PROVE  /\ initEvt \in Event /\ wSeen \in Counter
           /\ Pending(initEvt) \in 0 .. EventMod - 1
           /\ Pending(initEvt) = 0 <=> IsAcked(initEvt)
           /\ Ahead(wSeen, initEvt) \in 0 .. EventMod - 1
           /\ Ahead(wSeen, initEvt) = Pending(initEvt) <=> wSeen = initEvt.sig
BY PendingCount DEF SignalsTypeOK

(* All levels are off and nothing is pending after power up.               *)
LEMMA StartsDelivering == InitSignals => Delivering
<1> SUFFICES ASSUME InitSignals PROVE Delivering
    OBVIOUS
<1>1. SignalsTypeOK
    BY InitSignalsType
<1>2. IsAcked(initEvt)
    BY DEF InitSignals, NoEvents, IsAcked
<1>3. Pending(initEvt) = 0
    BY <1>1, <1>2, CountsInRange
<1> QED
    BY <1>1, <1>3 DEF InitSignals, Delivering, SignalInHand, LevelFollows, RaiseAhead, MidPass, Replays

(* Nothing happens to INIT: a step of others, or of the rest of the pass.  *)
LEMMA HandUnchanged ==
    ASSUME Delivering, SignalsTypeOK', UNCHANGED handVars,
           UNCHANGED wpc \/ (MidPass /\ MidPass')
    PROVE  Delivering' /\ (CancelPending => CancelPending')
<1>1. UNCHANGED <<wRaise, wSeen, lineInit, initEvt, initCur>>
    BY DEF handVars
<1>2. /\ RaiseAhead' = RaiseAhead /\ (wpc \in Replays <=> wpc' \in Replays)
      /\ (wpc = "level" <=> wpc' = "level") /\ (wpc = "replay1" <=> wpc' = "replay1")
      /\ (wpc = "replay2" <=> wpc' = "replay2")
    BY <1>1 DEF RaiseAhead, MidPass, Replays
<1>3. Pending(initEvt') = Pending(initEvt) /\ Ahead(wSeen', initEvt') = Ahead(wSeen, initEvt)
    BY <1>1
<1> QED BY <1>1, <1>2, <1>3 DEF Delivering, SignalInHand, LevelFollows, CancelPending, Replays

(* The PRU signals a change: it adds to what is pending, and INIT that it  *)
(* sees come on is pending from then on.                                   *)
LEMMA PruDelivers ==
    ASSUME Delivering, PruSignalsChange, NotLapped
    PROVE  /\ Delivering'
           /\ CancelPending => CancelPending'
           /\ busInit /\ ~initCur => CancelPending'
<1>1. SignalsTypeOK'
    BY PruSignalsType DEF Delivering
<1>2. /\ UNCHANGED <<wpc, wRaise, wSeen, lineInit>> /\ initCur' = busInit
      /\ initEvt' = IF initCur # busInit THEN Signal(initEvt) ELSE initEvt
    BY DEF PruSignalsChange, workerVars
<1>3. CASE initCur = busInit
    BY <1>1, <1>2, <1>3, HandUnchanged DEF handVars
<1>4. CASE initCur # busInit
    <2> DEFINE p == Pending(initEvt)
               a == Ahead(wSeen, initEvt)
    <2>1. initEvt' = Signal(initEvt)
        BY <1>2, <1>4
    <2>2. /\ p \in Nat /\ a \in Nat
          /\ initEvt'.sig # initEvt.sig /\ Ahead(wSeen', initEvt') = a
          /\ Pending(initEvt') = IF p = EventMod - 1 THEN 0 ELSE p + 1
        BY <1>2, <2>1, CountsInRange, PendingSignal, SignalAssumption DEF Delivering, Ahead
    <2>3. Pending(initEvt') # 0
        BY <1>1, <2>2, PendingCount DEF NotLapped, SignalsTypeOK
    <2>4. Pending(initEvt') = p + 1
        BY <2>2, <2>3
    <2>5. wSeen' = initEvt'.sig <=> a = p + 1
        BY <1>1, <2>2, <2>4, PendingCount DEF SignalsTypeOK
    <2> HIDE DEF p, a
    <2>6. SignalInHand'
        BY <1>2, <2>2, <2>4 DEF Delivering, SignalInHand, RaiseAhead, MidPass, Replays, p, a
    <2>7. CancelPending => CancelPending'
        BY <1>2, <1>4, <2>2, <2>4, <2>5
           DEF Delivering, SignalInHand, CancelPending, Replays, p, a
    <2>8. LevelFollows'
        BY <1>2, <1>4, <2>2, <2>4, <2>5
           DEF Delivering, SignalInHand, LevelFollows, RaiseAhead, MidPass, Replays, p, a
    <2>9. busInit /\ ~initCur => CancelPending'
        BY <1>2, <1>4, <2>2, <2>4, <2>5
           DEF Delivering, SignalInHand, CancelPending, Replays, p, a
    <2> QED BY <1>1, <2>6, <2>7, <2>8, <2>9 DEF Delivering
<1> QED BY <1>3, <1>4

(* The worker wakes and reads count and level.                             *)
LEMMA SamplesDeliver ==
    ASSUME Delivering, WorkerWakes \/ WorkerReadsInitCount \/ WorkerReadsInitLevel
    PROVE  Delivering' /\ (CancelPending => CancelPending')
<1> USE DEF RaiseAhead, MidPass, Replays
<1>1. SignalsTypeOK'
    BY WorkerSamplesType DEF Delivering
<1>2. CASE WorkerWakes
    <2>1. /\ wpc = "wait" /\ wpc' = "init"
          /\ UNCHANGED <<wRaise, wSeen, lineInit, initEvt, initCur>>
        BY <1>2 DEF WorkerWakes, signalVars
    <2> QED
        BY <1>1, <2>1 DEF Delivering, SignalInHand, CancelPending, LevelFollows, Pending, Ahead
<1>3. CASE WorkerReadsInitCount
    <2>1. /\ wpc = "init" /\ wpc' = IF IsAcked(initEvt) THEN "power" ELSE "level"
          /\ wSeen' = initEvt.sig /\ wRaise' = FALSE
          /\ UNCHANGED <<lineInit, initEvt, initCur>>
        BY <1>3 DEF WorkerReadsInitCount, signalVars
    <2>2. /\ Pending(initEvt) \in Nat /\ (Pending(initEvt) = 0 <=> IsAcked(initEvt))
          /\ Pending(initEvt') = Pending(initEvt) /\ Ahead(wSeen', initEvt') = Pending(initEvt)
        BY <2>1, CountsInRange, SignalAssumption DEF Delivering, Ahead, Pending
    <2> QED
        BY <1>1, <2>1, <2>2 DEF Delivering, SignalInHand, CancelPending, LevelFollows
<1>4. CASE WorkerReadsInitLevel
    <2>1. /\ wpc = "level" /\ wpc' = IF initCur = lineInit THEN "replay1" ELSE "power"
          /\ lineInit' = IF initCur = lineInit THEN ~initCur ELSE initCur
          /\ wRaise' = (initCur /\ initCur # lineInit)
          /\ initEvt' = IF initCur \/ initCur = lineInit THEN initEvt ELSE Ack(initEvt)
          /\ UNCHANGED <<wSeen, initCur>>
        BY <1>4 DEF WorkerReadsInitLevel, IsPulse, signalVars
    <2>2. /\ Pending(initEvt) \in Nat /\ Pending(initEvt) > 0
          /\ Ahead(wSeen, initEvt) > 0 /\ Ahead(wSeen, initEvt) <= Pending(initEvt)
        BY <2>1, CountsInRange, SignalAssumption DEF Delivering, SignalInHand
    <2>3. CASE initCur = lineInit
        <3>1. /\ initEvt' = initEvt /\ wpc' = "replay1" /\ wRaise' = FALSE
              /\ lineInit' = ~initCur
            BY <2>1, <2>3
        <3>2. SignalInHand' /\ (CancelPending => CancelPending')
            BY <2>1, <2>2, <3>1 DEF Delivering, SignalInHand, CancelPending, Pending, Ahead
        <3>3. lineInit' # initCur'
            BY <2>1, <3>1 DEF Delivering, SignalsTypeOK
        <3>4. LevelFollows'
            BY <3>1, <3>3 DEF LevelFollows
        <3> QED BY <1>1, <3>2, <3>4 DEF Delivering
    <2>4. CASE initCur # lineInit /\ initCur
        <3>1. /\ initEvt' = initEvt /\ wpc' = "power" /\ wRaise' = TRUE
              /\ lineInit' = TRUE /\ initCur' = TRUE
            BY <2>1, <2>4 DEF Delivering, SignalsTypeOK
        <3>2. SignalInHand' /\ (CancelPending => CancelPending')
            BY <2>1, <2>2, <3>1 DEF Delivering, SignalInHand, CancelPending, Pending, Ahead
        <3>3. LevelFollows'
            BY <3>1 DEF LevelFollows
        <3> QED BY <1>1, <3>2, <3>3 DEF Delivering
    <2>5. CASE initCur # lineInit /\ ~initCur
        <3>1. /\ initEvt' = Ack(initEvt) /\ wpc' = "power" /\ wRaise' = FALSE
              /\ lineInit' = FALSE
            BY <2>1, <2>5 DEF Delivering, SignalsTypeOK
        <3>2. Pending(initEvt') = Pending(initEvt) - 1
            BY <2>2, <3>1, CountsInRange, PendingAck DEF Delivering
        <3>3. lineInit = TRUE /\ initCur = FALSE
            BY <2>5 DEF Delivering, SignalsTypeOK
        <3>4. CancelPending => Pending(initEvt) > 1
            BY <2>1, <3>3 DEF CancelPending
        <3>5. SignalInHand' /\ (CancelPending => CancelPending')
            BY <2>1, <2>2, <3>1, <3>2, <3>4 DEF SignalInHand, CancelPending
        <3>6. LevelFollows'
            BY <2>1, <3>1, <3>3 DEF LevelFollows
        <3> QED BY <1>1, <3>5, <3>6 DEF Delivering
    <2> QED BY <2>3, <2>4, <2>5
<1> QED BY <1>2, <1>3, <1>4

(* The worker tells the devices; what is pending stays so unless it        *)
(* cancels. next is where a scheduler's own part of the pass begins.       *)
LEMMA NotifiesDeliver ==
    ASSUME NEW next \in {"dma", "register", "raise"}, Delivering,
           \/ WorkerReplaysFarSide \/ WorkerReplaysNearSide
           \/ WorkerPower(next) \/ WorkerEndsPass
    PROVE  Delivering' /\ (CancelPending /\ ~Cancels => CancelPending')
<1> USE DEF RaiseAhead, MidPass, Replays
<1>1. SignalsTypeOK'
    BY WorkerNotifiesType DEF Delivering
<1>2. CASE WorkerReplaysFarSide
    <2>1. /\ wpc = "replay1" /\ wpc' = "replay2" /\ lineInit' = ~lineInit
          /\ UNCHANGED <<wRaise, wSeen, initEvt, initCur>> /\ (~Cancels => ~lineInit)
        BY <1>2 DEF WorkerReplaysFarSide, Cancels, InitCancels, signalVars
    <2>2. SignalInHand' /\ (CancelPending /\ ~Cancels => CancelPending')
        BY <2>1 DEF Delivering, SignalsTypeOK, SignalInHand, CancelPending, Pending, Ahead
    <2>3. LevelFollows'
        BY <2>1 DEF Delivering, SignalsTypeOK, LevelFollows
    <2> QED BY <1>1, <2>2, <2>3 DEF Delivering
<1>3. CASE WorkerReplaysNearSide
    <2>1. /\ wpc = "replay2" /\ wpc' = "power" /\ initEvt' = [initEvt EXCEPT !.ack = wSeen]
          /\ UNCHANGED <<wRaise, wSeen, lineInit, initCur>> /\ (~Cancels => ~lineInit)
        BY <1>3 DEF WorkerReplaysNearSide, PulseAck, Cancels, InitCancels
    <2>2. /\ Pending(initEvt) \in Nat /\ Ahead(wSeen, initEvt) \in Nat
          /\ Ahead(wSeen, initEvt) <= Pending(initEvt)
          /\ Ahead(wSeen, initEvt) = Pending(initEvt) <=> wSeen = initEvt.sig
          /\ Pending(initEvt') = Pending(initEvt) - Ahead(wSeen, initEvt)
        BY <2>1, CountsInRange, PendingUpTo, SignalAssumption DEF Delivering, SignalInHand
    <2>3. wRaise = FALSE
        BY <2>1 DEF Delivering, SignalsTypeOK, SignalInHand
    <2>4. SignalInHand' /\ LevelFollows' /\ (CancelPending /\ ~Cancels => CancelPending')
        BY <2>1, <2>2, <2>3 DEF Delivering, SignalsTypeOK, SignalInHand, CancelPending, LevelFollows
    <2> QED BY <1>1, <2>4 DEF Delivering
<1>4. CASE WorkerPower(next)
    <2>1. wpc = "power" /\ wpc' = next /\ UNCHANGED handVars
        BY <1>4 DEF WorkerPower, handVars
    <2> QED BY <1>1, <2>1, HandUnchanged
<1>5. CASE WorkerEndsPass /\ wRaise
    <2>1. /\ wpc = "raise" /\ wpc' \in {"init", "wait"} /\ initEvt' = Ack(initEvt)
          /\ UNCHANGED <<wRaise, wSeen, lineInit, initCur>>
        BY <1>5 DEF WorkerEndsPass
    <2>2. lineInit = TRUE /\ Pending(initEvt) \in Nat /\ Pending(initEvt) > 0
        BY <1>5, <2>1, CountsInRange, SignalAssumption
           DEF Delivering, SignalsTypeOK, LevelFollows, SignalInHand
    <2>3. Cancels
        BY <1>5, <2>1, <2>2 DEF Cancels, InitCancels
    <2>4. Pending(initEvt') = Pending(initEvt) - 1
        BY <2>1, <2>2, CountsInRange, PendingAck DEF Delivering
    <2>5. SignalInHand'
        BY <2>1, <2>4 DEF SignalInHand
    <2>6. Pending(initEvt) = 1 => lineInit = initCur
        BY <1>5, <2>1 DEF Delivering, LevelFollows
    <2>7. Pending(initEvt') = 0 => lineInit' = initCur'
        <3>1. Pending(initEvt') = 0 => Pending(initEvt) = 1
            BY <2>2, <2>4
        <3>2. lineInit' = lineInit /\ initCur' = initCur
            BY <2>1
        <3> QED BY <3>1, <3>2, <2>6, Zenon
    <2>8. LevelFollows'
        BY <2>1, <2>7 DEF LevelFollows
    <2> QED BY <1>1, <2>3, <2>5, <2>8 DEF Delivering
<1>6. CASE WorkerEndsPass /\ ~wRaise
    <2>1. /\ wpc = "raise" /\ wpc' \in {"init", "wait"} /\ initEvt' = initEvt
          /\ UNCHANGED <<wRaise, wSeen, lineInit, initCur>>
        BY <1>6 DEF WorkerEndsPass
    <2> QED
        BY <1>1, <1>6, <2>1 DEF Delivering, SignalInHand, CancelPending, LevelFollows, Pending, Ahead
<1> QED BY <1>2, <1>3, <1>4, <1>5, <1>6

-----------------------------------------------------------------------------
(* Fewer INIT changes than the counter counts: it cannot come full circle. *)
Counted == Pending(initEvt) + (IF initCur = busInit THEN 0 ELSE 1) <= inits

(* Nothing is pending and nothing has changed after power up.              *)
LEMMA CountStarts == InitSignals => Counted
<1> SUFFICES ASSUME InitSignals PROVE Counted
    OBVIOUS
<1>1. SignalsTypeOK /\ IsAcked(initEvt)
    BY InitSignalsType DEF InitSignals, NoEvents, IsAcked
<1>2. Pending(initEvt) = 0
    BY <1>1, CountsInRange
<1>3. initCur = busInit /\ inits = 0
    BY Zenon DEF InitSignals
<1> QED BY <1>2, <1>3 DEF Counted

(* A signal adds one to what is pending only for a change that was made.   *)
LEMMA CountOfPru ==
    ASSUME SignalsTypeOK, Counted, PruSignalsChange, MaxInit < EventMod
    PROVE  Counted' /\ NotLapped
<1> DEFINE p == Pending(initEvt)
<1>1. /\ p \in 0 .. EventMod - 1 /\ initEvt \in Event /\ wSeen \in Counter
      /\ inits \in Nat /\ inits <= MaxInit
    BY CountsInRange, SignalAssumption DEF SignalsTypeOK
<1>2. /\ UNCHANGED <<busInit, inits>> /\ initCur' = busInit
      /\ initEvt' = IF initCur # busInit THEN Signal(initEvt) ELSE initEvt
    BY DEF PruSignalsChange, busVars
<1>3. CASE initCur = busInit
    BY <1>1, <1>2, <1>3 DEF Counted, NotLapped
<1>4. CASE initCur # busInit
    <2>1. initEvt' = Signal(initEvt)
        BY <1>2, <1>4
    <2>2. p < EventMod - 1
        BY <1>1, <1>4, SignalAssumption DEF Counted
    <2>3. Pending(initEvt') = p + 1
        BY <1>1, <2>1, <2>2, PendingSignal
    <2>4. ~IsAcked(initEvt')
        <3>1. initEvt' \in Event
            BY <1>1, <2>1, EventCounters
        <3> QED BY <1>1, <2>3, <3>1, PendingCount
    <2> QED BY <1>1, <1>2, <1>4, <2>3, <2>4 DEF Counted, NotLapped
<1> QED BY <1>3, <1>4

(* A change of the lines allows for one signal more.                       *)
LEMMA CountOfLines ==
    ASSUME SignalsTypeOK, Counted, InitChanges \/ DcloChanges
    PROVE  Counted' /\ NotLapped
<1>1. Pending(initEvt) \in Nat /\ inits \in Nat
    BY CountsInRange, SignalAssumption DEF SignalsTypeOK
<1>2. UNCHANGED <<initEvt, initCur>> /\ (UNCHANGED <<busInit, inits>> \/ inits' = inits + 1)
    BY DEF InitChanges, DcloChanges, signalVars
<1> QED BY <1>1, <1>2 DEF Counted, NotLapped

(* The worker only ever takes away from what is pending.                   *)
LEMMA CountOfWorker ==
    ASSUME Delivering, Counted, NEW next \in {"dma", "register", "raise"},
           \/ WorkerWakes \/ WorkerReadsInitCount \/ WorkerReadsInitLevel
           \/ WorkerReplaysFarSide \/ WorkerReplaysNearSide
           \/ WorkerPower(next) \/ WorkerEndsPass
    PROVE  Counted' /\ NotLapped
<1> DEFINE p == Pending(initEvt)
<1>1. p \in 0 .. EventMod - 1 /\ initEvt \in Event /\ wSeen \in Counter /\ inits \in Nat
    BY CountsInRange, SignalAssumption DEF Delivering, SignalsTypeOK
<1>2. UNCHANGED <<busInit, inits, initCur>>
    BY DEF WorkerWakes, WorkerReadsInitCount, WorkerReadsInitLevel, WorkerReplaysFarSide,
        WorkerReplaysNearSide, WorkerPower, WorkerEndsPass, busVars, signalVars
<1>3. \/ initEvt' = initEvt
      \/ initEvt' = Ack(initEvt) /\ (wpc = "level" \/ RaiseAhead)
      \/ initEvt' = [initEvt EXCEPT !.ack = wSeen] /\ wpc = "replay2"
    BY DEF WorkerWakes, WorkerReadsInitCount, WorkerReadsInitLevel, WorkerReplaysFarSide,
        WorkerReplaysNearSide, WorkerPower, WorkerEndsPass, PulseAck, signalVars, RaiseAhead,
        MidPass, Replays
<1>4. Pending(initEvt') \in Int /\ Pending(initEvt') <= p /\ initEvt'.sig = initEvt.sig
    <2>1. CASE initEvt' = initEvt
        BY <1>1, <2>1
    <2>2. CASE initEvt' = Ack(initEvt) /\ (wpc = "level" \/ RaiseAhead)
        BY <1>1, <2>2, PendingAck DEF Delivering, SignalInHand
    <2>3. CASE initEvt' = [initEvt EXCEPT !.ack = wSeen] /\ wpc = "replay2"
        BY <1>1, <2>3, PendingUpTo, CountsInRange DEF Delivering, SignalInHand, Replays
    <2> QED BY <1>3, <2>1, <2>2, <2>3
<1> QED BY <1>1, <1>2, <1>4 DEF Counted, NotLapped
=============================================================================
