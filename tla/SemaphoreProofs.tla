-------------------------- MODULE SemaphoreProofs --------------------------
(***************************************************************************)
(* Semaphores over the kernel's queues, for every set of events,           *)
(* priorities, semaphores and timeouts, provided Lock_SempExpand is not    *)
(* called while events wait.                                               *)
(***************************************************************************)
EXTENDS Semaphore, KernelProofs

Waits == {"SEMP"}

(* Lamps lit, and where they may be lit.                                   *)
Lamps ==
    \A s \in created :
        /\ semp[s].lamps_limit \in -1 .. LIMIT_SINT32
        /\ semp[s].lamp_counter <= Capacity(s)
        /\ ~Unlimited(s) => semp[s].lamp_counter >= 0

(* An event inside Lock_SempPend that is in no queue is ready to return.   *)
WokenIsReady ==
    \A e \in Event : frame[e] # NoSemp /\ knl.head[e] = NoHead => knl.status[e] = READY

(* TypeOK is not inductive without the queues' coherence: the scheduler    *)
(* only finds an event because the ready queue and the statuses agree.     *)
IInv ==
    /\ TypeOK
    /\ Settled(knl, Waits)
    /\ NoLampWithWaiter
    /\ Lamps
    /\ FrameCoherence
    /\ WokenIsReady

-----------------------------------------------------------------------------
LEMMA InitInvariant == Init => IInv
<1> SUFFICES ASSUME Init PROVE IInv
  OBVIOUS
<1>1. /\ Settled(knl, Waits)
      /\ \A h \in SyncHead : knl.sync[h] = << >>
      /\ \A e \in Event : knl.head[e] = NoHead /\ knl.status[e] = READY
  BY BootSettled DEF Init
<1>2. NoLCB \in SempLCB
  BY DEF NoLCB, SempLCB, Order
<1>3. TypeOK
  BY <1>1, <1>2 DEF Init, TypeOK, Settled, Coherent
<1>4. NoLampWithWaiter /\ Lamps
  BY <1>1, SempAssumption DEF Init, NoLampWithWaiter, Lamps
<1>5. FrameCoherence /\ WokenIsReady
  BY <1>1, SempAssumption, HeadAssumption DEF Init, FrameCoherence, WokenIsReady
<1>6. QED
  BY <1>1, <1>3, <1>4, <1>5 DEF IInv

-----------------------------------------------------------------------------
(* What a step does to the waiting events.                                 *)

(* Nobody is woken, nobody blocks, the running event may go to sleep.      *)
LEMMA NobodyWokenKeeps ==
    ASSUME IInv, Settled(knl', Waits), NobodyWoken(knl', knl),
           frame[Running] = NoSemp, frame' = frame
    PROVE  FrameCoherence' /\ WokenIsReady'
<1>1. knl'.wakeup = knl.wakeup /\ knl'.head = knl.head
  BY DEF NobodyWoken
<1>2. FrameCoherence'
  BY <1>1 DEF IInv, FrameCoherence
<1>3. WokenIsReady'
  BY <1>1 DEF IInv, WokenIsReady, NobodyWoken, Running
<1>4. QED
  BY <1>2, <1>3

LEMMA StillKeeps ==
    ASSUME IInv, Still(knl', knl), frame' = frame
    PROVE  FrameCoherence' /\ WokenIsReady'
BY DEF IInv, FrameCoherence, WokenIsReady, Still

(* An event is woken by a post or by its alarm.                            *)
LEMMA WokenKeeps ==
    ASSUME IInv, NEW e \in Event, NEW why, NEW w, Woken(w, knl, e, why),
           knl'.head = w.head, knl'.status = w.status, knl'.wakeup = w.wakeup,
           frame' = frame,
           knl.head[e] # NoHead => \/ why = {"SEMP"}
                                   \/ {"SEMP", "SYNC_TIMEOUT"} \subseteq why,
           knl.head[e] = NoHead => frame[e] = NoSemp
    PROVE  FrameCoherence' /\ WokenIsReady'
<1>1. /\ knl.head \in [Event -> SyncHead \cup {NoHead}]
      /\ knl.status \in [Event -> SUBSET Status]
      /\ knl.wakeup \in [Event -> SUBSET Status]
      /\ frame \in [Event -> Semp \cup {NoSemp}]
  BY KernelFields DEF IInv, TypeOK
<1>2. \A x \in Event : /\ knl'.head[x] = IF x = e THEN NoHead ELSE knl.head[x]
                       /\ knl'.status[x] = IF x = e THEN READY ELSE knl.status[x]
                       /\ knl'.wakeup[x] = IF x = e THEN why ELSE knl.wakeup[x]
  BY <1>1 DEF Woken
<1>3. FrameCoherence'
  <2> SUFFICES ASSUME NEW x \in Event, NEW s \in Semp
               PROVE  /\ knl'.head[x] = s => frame[x] = s
                      /\ frame[x] = s /\ knl'.head[x] = NoHead =>
                            \/ knl'.wakeup[x] = {"SEMP"}
                            \/ {"SEMP", "SYNC_TIMEOUT"} \subseteq knl'.wakeup[x]
    BY DEF FrameCoherence
  <2>1. CASE x # e
    BY <1>2, <2>1 DEF IInv, FrameCoherence
  <2>2. CASE x = e
    <3>1. knl'.head[x] = NoHead /\ knl'.wakeup[x] = why
      BY <1>2, <2>2
    <3>2. NoHead # s /\ NoSemp # s
      BY SempAssumption, HeadAssumption
    <3>3. QED
      BY <2>2, <3>1, <3>2
  <2>3. QED
    BY <2>1, <2>2
<1>4. WokenIsReady'
  BY <1>2 DEF IInv, WokenIsReady
<1>5. QED
  BY <1>3, <1>4

(* Queues that only lose events keep lamps and waiters apart.              *)
LEMMA ShorterQueuesKeep ==
    ASSUME IInv, knl' \in Kernel, created' = created, semp' = semp,
           \A s \in Semp : ToSet(knl'.sync[s]) \subseteq ToSet(knl.sync[s])
    PROVE  NoLampWithWaiter' /\ Lamps'
<1>1. \A s \in Semp : knl'.sync[s] \in Seq(Event) /\ knl.sync[s] \in Seq(Event)
  BY SempAssumption, KernelFields DEF IInv, TypeOK
<1>2. ASSUME NEW s \in Semp, knl'.sync[s] # << >> PROVE knl.sync[s] # << >>
  <2>1. Head(knl'.sync[s]) \in ToSet(knl'.sync[s])
    BY <1>1, <1>2, QueueTail
  <2>2. ToSet(<< >>) = {}
    BY DEF ToSet
  <2>3. QED
    BY <2>1, <2>2
<1>3. NoLampWithWaiter'
  BY <1>2 DEF IInv, NoLampWithWaiter
<1>4. Lamps'
  BY DEF IInv, Lamps, Capacity, Unlimited
<1>5. QED
  BY <1>3, <1>4

-----------------------------------------------------------------------------
(* The calls.                                                              *)

LEMMA CreateKeeps ==
    ASSUME IInv, NEW s \in Semp, NEW limit \in Limits, NEW init \in Inits,
           NEW order \in Order, Lock_SempCreate(s, limit, init, order)
    PROVE  IInv'
<1> DEFINE lcb == [lamps_limit |-> limit, lamp_counter |-> init, sync_order |-> order]
<1>1. /\ knl' = knl /\ frame' = frame /\ held' = held /\ s \notin created
      /\ semp' = [semp EXCEPT ![s] = lcb] /\ created' = created \cup {s}
      /\ init <= limit /\ (limit # -1 => init >= 0)
  BY DEF Lock_SempCreate
<1>2. /\ limit \in Int /\ init \in Int /\ limit \in -1 .. LIMIT_SINT32
      /\ LIMIT_SINT32 \in Nat
  BY SempAssumption
<1>3. lcb \in SempLCB /\ lcb.lamps_limit = limit /\ lcb.lamp_counter = init
  BY <1>2 DEF SempLCB
<1> HIDE DEF lcb
<1>4. /\ semp' \in [Semp -> SempLCB] /\ semp'[s] = lcb
      /\ \A x \in Semp : x # s => semp'[x] = semp[x]
  BY <1>1, <1>3 DEF IInv, TypeOK
<1>5. TypeOK'
  BY <1>1, <1>4 DEF IInv, TypeOK
<1>6. NoLampWithWaiter'
  <2>1. knl.sync[s] = << >>
    BY <1>1 DEF IInv, NoLampWithWaiter
  <2>2. QED
    BY <1>1, <1>4, <2>1 DEF IInv, NoLampWithWaiter
<1>7. Lamps'
  <2> SUFFICES ASSUME NEW x \in created'
               PROVE  /\ semp'[x].lamps_limit \in -1 .. LIMIT_SINT32
                      /\ semp'[x].lamp_counter <= Capacity(x)'
                      /\ ~Unlimited(x)' => semp'[x].lamp_counter >= 0
    BY DEF Lamps
  <2>1. CASE x = s
    BY <1>1, <1>2, <1>3, <1>4, <2>1 DEF Capacity, Unlimited
  <2>2. CASE x # s
    <3>1. x \in created /\ x \in Semp /\ semp'[x] = semp[x]
      BY <1>1, <1>4, <2>2 DEF IInv, TypeOK
    <3>2. QED
      BY <3>1 DEF IInv, Lamps, Capacity, Unlimited
  <2>3. QED
    BY <2>1, <2>2
<1>8. QED
  BY <1>1, <1>5, <1>6, <1>7 DEF IInv, FrameCoherence, WokenIsReady

(* A lamp is lit or taken, nobody waits for it.                            *)
LEMMA CounterKeeps ==
    ASSUME IInv, NEW s \in Semp, s \in created, NEW c \in Int,
           semp' = [semp EXCEPT ![s].lamp_counter = c],
           c <= Capacity(s), ~Unlimited(s) => c >= 0,
           knl.sync[s] # << >> => c = 0,
           created' = created, knl'.sync = knl.sync
    PROVE  semp' \in [Semp -> SempLCB] /\ NoLampWithWaiter' /\ Lamps'
<1>1. semp \in [Semp -> SempLCB]
  BY DEF IInv, TypeOK
<1>2. /\ semp'[s] = [semp[s] EXCEPT !.lamp_counter = c]
      /\ \A x \in Semp : x # s => semp'[x] = semp[x]
  BY <1>1
<1>3. /\ [semp[s] EXCEPT !.lamp_counter = c] \in SempLCB
      /\ semp'[s].lamps_limit = semp[s].lamps_limit /\ semp'[s].lamp_counter = c
  BY <1>1, <1>2 DEF SempLCB
<1>4. semp' \in [Semp -> SempLCB]
  BY <1>1, <1>3
<1>5. NoLampWithWaiter'
  BY <1>2, <1>3 DEF IInv, NoLampWithWaiter
<1>6. Lamps'
  <2> SUFFICES ASSUME NEW x \in created
               PROVE  /\ semp'[x].lamps_limit \in -1 .. LIMIT_SINT32
                      /\ semp'[x].lamp_counter <= Capacity(x)'
                      /\ ~Unlimited(x)' => semp'[x].lamp_counter >= 0
    BY DEF Lamps
  <2>1. CASE x = s
    BY <1>3, <2>1 DEF IInv, Lamps, Capacity, Unlimited
  <2>2. CASE x # s
    <3>1. x \in Semp /\ semp'[x] = semp[x]
      BY <1>2, <2>2 DEF IInv, TypeOK
    <3>2. QED
      BY <3>1 DEF IInv, Lamps, Capacity, Unlimited
  <2>3. QED
    BY <2>1, <2>2
<1>7. QED
  BY <1>4, <1>5, <1>6

(* What a post does, to the queues, the counter and the waiting event.     *)
LEMMA SempPostKeeps ==
    ASSUME IInv, NEW s \in Semp, s \in created, SempPost(s),
           created' = created, frame' = frame, held' \in [Semp -> SUBSET Event]
    PROVE  IInv'
<1>1. /\ semp \in [Semp -> SempLCB] /\ knl.sync \in [SyncHead -> Seq(Event)]
      /\ knl.status \in [Event -> SUBSET Status] /\ knl.running \in Event
      /\ Settled(knl, Waits) /\ Coherent(knl, Event, Waits) /\ s \in SyncHead
  BY SempAssumption, KernelFields DEF IInv, TypeOK, Settled
<1>2. CASE knl.sync[s] = << >>
  <2> DEFINE a == semp[s].lamp_counter
             c == IF a < Capacity(s) THEN a + 1 ELSE a
  <2>1. semp' = [semp EXCEPT ![s].lamp_counter = c] /\ knl' = RestoreAsynSignal(knl)
    BY <1>1, <1>2 DEF SempPost
  <2>2. Settled(knl', Waits) /\ Still(knl', knl)
    BY <1>1, <2>1, RestoreStill
  <2>3. a \in Int /\ semp[s].lamps_limit \in Int /\ LIMIT_SINT32 \in Int
    BY <1>1, SempAssumption DEF SempLCB
  <2>4. a <= Capacity(s) /\ (~Unlimited(s) => a >= 0) /\ Capacity(s) \in Int
    BY <2>3 DEF IInv, Lamps, Capacity
  <2>5. c \in Int /\ c <= Capacity(s) /\ (~Unlimited(s) => c >= 0)
    BY <2>3, <2>4
  <2> HIDE DEF c
  <2>6. semp' \in [Semp -> SempLCB] /\ NoLampWithWaiter' /\ Lamps'
    BY <1>2, <2>1, <2>2, <2>5, CounterKeeps DEF Still
  <2>7. FrameCoherence' /\ WokenIsReady'
    BY <2>2, StillKeeps
  <2>8. QED
    BY <2>2, <2>6, <2>7 DEF IInv, TypeOK, Settled, Coherent
<1>3. CASE knl.sync[s] # << >>
  <2> DEFINE e == Head(knl.sync[s])
             w == EventReady(WakeFirst(knl, s, {"SEMP"}), e)
  <2>1. knl' = RestoreAsynSignal(w) /\ semp' = semp
    BY <1>3 DEF SempPost
  <2>2. "DELAY" \notin Waits /\ {"SEMP"} \in SUBSET Status
    BY DEF Waits, Status
  <2>3. /\ e \in Event /\ knl.head[e] = s /\ Coherent(w, Event, Waits)
        /\ Woken(w, knl, e, {"SEMP"}) /\ LeftQueues(w, knl, e)
    BY <1>1, <1>3, <2>2, WakeCoherent
  <2> HIDE DEF e, w
  <2>4. w.status[Idle] = READY /\ w.status[w.running] = READY /\ w \in Kernel
    BY <1>1, <2>3, EventAssumption DEF Woken, Settled, Coherent
  <2>5. Settled(knl', Waits) /\ OnlyRunning(knl', w)
    BY <2>1, <2>3, <2>4, RestoreSettles
  <2>6. /\ knl'.status = w.status /\ knl'.wakeup = w.wakeup /\ knl'.head = w.head
        /\ knl'.sync = w.sync /\ knl' \in Kernel
    BY <2>4, <2>5, OnlyRunningFields DEF Settled, Coherent
  <2>7. NoLampWithWaiter' /\ Lamps'
    <3>1. \A x \in Semp : ToSet(knl'.sync[x]) \subseteq ToSet(knl.sync[x])
      BY <2>3, <2>6, SempAssumption DEF LeftQueues
    <3>2. QED
      BY <2>1, <2>6, <3>1, ShorterQueuesKeep
  <2>8. FrameCoherence' /\ WokenIsReady'
    <3>1. knl.head[e] # NoHead
      BY <1>1, <2>3, HeadAssumption
    <3>2. QED
      BY <2>3, <2>6, <3>1, WokenKeeps
  <2>9. QED
    BY <2>1, <2>5, <2>6, <2>7, <2>8 DEF IInv, TypeOK
<1>4. QED
  BY <1>2, <1>3

(* A pend that finds a lamp lit takes it.                                  *)
LEMMA TakeKeeps ==
    ASSUME IInv, NEW s \in Semp, s \in created, LampLit(s), TakeLamp(s),
           knl' = RestoreAsynSignal(knl), created' = created, frame' = frame,
           held' \in [Semp -> SUBSET Event]
    PROVE  IInv'
<1> DEFINE a == semp[s].lamp_counter
           c == IF a # 0 THEN a - 1 ELSE a
<1>1. semp' = [semp EXCEPT ![s].lamp_counter = c]
  BY DEF TakeLamp
<1>2. Settled(knl', Waits) /\ Still(knl', knl)
  BY RestoreStill DEF IInv
<1>3. a \in Int /\ semp[s].lamps_limit \in Int /\ LIMIT_SINT32 \in Int
  BY SempAssumption DEF IInv, TypeOK, SempLCB
<1>4. a <= Capacity(s) /\ Capacity(s) \in Int
  BY <1>3 DEF IInv, Lamps, Capacity
<1>5. c \in Int /\ c <= Capacity(s)
  BY <1>3, <1>4
<1>6. ~Unlimited(s) => c >= 0
  BY <1>3 DEF LampLit
<1>7. knl.sync[s] # << >> => c = 0
  BY DEF IInv, NoLampWithWaiter
<1> HIDE DEF c
<1>8. semp' \in [Semp -> SempLCB] /\ NoLampWithWaiter' /\ Lamps'
  BY <1>1, <1>2, <1>5, <1>6, <1>7, CounterKeeps DEF Still
<1>9. FrameCoherence' /\ WokenIsReady'
  BY <1>2, StillKeeps
<1>10. QED
  BY <1>2, <1>8, <1>9 DEF IInv, TypeOK, Settled, Coherent

(* A pend that finds none blocks: no lamp is lit and the event is inside   *)
(* the call.                                                               *)
LEMMA BlockKeeps ==
    ASSUME IInv, NEW s \in Semp, NEW us \in Timeouts, Lock_SempPendBlock(s, us)
    PROVE  IInv'
<1> DEFINE e == knl.running
           b == AddRunningToBlock(knl, s, semp[s].sync_order, us, {"SEMP"})
<1>1. /\ knl' = RestoreAsynSignal(b) /\ frame' = [frame EXCEPT ![e] = s]
      /\ semp' = semp /\ created' = created /\ held' = held
      /\ s \in created /\ ~Unlimited(s) /\ semp[s].lamp_counter <= 0
      /\ knl.lock = 0 /\ e # Idle
  BY DEF Lock_SempPendBlock, Running, QuerySch, InApplication
<1>2. /\ knl.head \in [Event -> SyncHead \cup {NoHead}] /\ e \in Event
      /\ Settled(knl, Waits) /\ Coherent(knl, Event, Waits) /\ s \in SyncHead
      /\ knl.status[e] = READY /\ us \in Timeout
      /\ frame \in [Event -> Semp \cup {NoSemp}]
  BY SempAssumption, CallAssumption, KernelFields DEF IInv, TypeOK, Settled
<1>3. /\ {"SEMP"} \in SUBSET Status /\ {"SEMP"} \cap Waits # {}
      /\ {"SEMP"} \cap {"DELAY", "SYNC_TIMEOUT"} = {}
  BY DEF Status, Waits
<1>4. Coherent(b, Event, Waits) /\ Blocked(b, knl, s, {"SEMP"})
  BY <1>2, <1>3, BlockCoherent
<1>5. /\ b.running = e /\ b.lock = knl.lock /\ b.wakeup = knl.wakeup
      /\ b.head = [knl.head EXCEPT ![e] = s]
      /\ \A x \in Event : x # e => b.status[x] = knl.status[x]
      /\ \A g \in SyncHead : g # s => b.sync[g] = knl.sync[g]
  BY <1>4 DEF Blocked
<1> HIDE DEF b, e
<1>6. b.status[Idle] = READY /\ b.lock = 0 /\ b \in Kernel
  BY <1>1, <1>2, <1>4, <1>5, EventAssumption DEF Settled, Coherent
<1>7. Settled(knl', Waits) /\ OnlyRunning(knl', b)
  BY <1>1, <1>4, <1>6, RestoreSettles
<1>8. /\ knl'.status = b.status /\ knl'.wakeup = b.wakeup /\ knl'.head = b.head
      /\ knl'.sync = b.sync /\ knl' \in Kernel
  BY <1>6, <1>7, OnlyRunningFields DEF Settled, Coherent
<1>9. TypeOK'
  BY <1>1, <1>2, <1>8 DEF IInv, TypeOK
<1>10. NoLampWithWaiter'
  <2>1. semp[s].lamp_counter = 0
    <3>1. semp[s].lamp_counter \in Int
      BY DEF IInv, TypeOK, SempLCB
    <3>2. semp[s].lamp_counter >= 0
      BY <1>1 DEF IInv, Lamps
    <3>3. QED
      BY <1>1, <3>1, <3>2
  <2>2. QED
    BY <1>1, <1>5, <1>8, <2>1, SempAssumption DEF IInv, NoLampWithWaiter
<1>11. Lamps'
  BY <1>1 DEF IInv, Lamps, Capacity, Unlimited
<1>12. \A x \in Event : /\ knl'.head[x] = IF x = e THEN s ELSE knl.head[x]
                        /\ frame'[x] = IF x = e THEN s ELSE frame[x]
                        /\ x # e => knl'.status[x] = knl.status[x]
                        /\ knl'.wakeup[x] = knl.wakeup[x]
  BY <1>1, <1>2, <1>5, <1>8
<1>13. s # NoHead /\ s # NoSemp
  BY <1>2, SempAssumption, HeadAssumption
<1>14. FrameCoherence'
  BY <1>12, <1>13 DEF IInv, FrameCoherence
<1>15. WokenIsReady'
  BY <1>12, <1>13 DEF IInv, WokenIsReady
<1>16. QED
  BY <1>7, <1>9, <1>10, <1>11, <1>14, <1>15 DEF IInv

(* The event that runs again leaves Lock_SempPend.                         *)
LEMMA ReturnKeeps ==
    ASSUME IInv, Lock_SempPendReturn
    PROVE  IInv'
<1>1. /\ knl' = knl /\ semp' = semp /\ created' = created
      /\ frame' = [frame EXCEPT ![Running] = NoSemp] /\ frame[Running] # NoSemp
      /\ held' = IF WokenByTimeout(Running) THEN held ELSE Hold(frame[Running], Running)
  BY DEF Lock_SempPendReturn
<1>2. /\ Running \in Event /\ frame \in [Event -> Semp \cup {NoSemp}]
      /\ held \in [Semp -> SUBSET Event] /\ knl.status[Running] = READY
      /\ Coherent(knl, Event, Waits)
  BY KernelFields DEF IInv, TypeOK, Settled, Running
<1>3. held' \in [Semp -> SUBSET Event]
  <2>1. frame[Running] \in Semp
    BY <1>1, <1>2
  <2>2. Hold(frame[Running], Running) \in [Semp -> SUBSET Event]
    BY <1>2, <2>1 DEF Hold
  <2>3. QED
    BY <1>1, <1>2, <2>2
<1>4. TypeOK' /\ NoLampWithWaiter' /\ Lamps'
  BY <1>1, <1>2, <1>3 DEF IInv, TypeOK, NoLampWithWaiter, Lamps, Capacity, Unlimited
<1>5. knl.head[Running] = NoHead
  BY <1>2, ReadyNowhereElse
<1>6. \A x \in Event : frame'[x] = IF x = Running THEN NoSemp ELSE frame[x]
  BY <1>1, <1>2
<1>7. \A s \in Semp : s # NoHead /\ s # NoSemp
  BY SempAssumption, HeadAssumption
<1>8. FrameCoherence'
  BY <1>1, <1>5, <1>6, <1>7 DEF IInv, FrameCoherence
<1>9. WokenIsReady'
  BY <1>1, <1>6 DEF IInv, WokenIsReady
<1>10. QED
  BY <1>1, <1>4, <1>8, <1>9 DEF IInv

(* New lamps are lit when nobody waits.                                    *)
LEMMA ExpandKeeps ==
    ASSUME IInv, ~ExpandWithWaiters, NEW s \in Semp, NEW n \in Expansions,
           Lock_SempExpand(s, n)
    PROVE  IInv' /\ Still(knl', knl)
<1> DEFINE lim == semp[s].lamps_limit
           room == LIMIT_SINT32 - lim
           more == IF Unlimited(s) \/ room >= n THEN n ELSE room
           sum == semp[s].lamp_counter + more
           l == IF Unlimited(s) THEN lim ELSE lim + more
           c == IF sum \in 0 .. LIMIT_SINT32 THEN sum ELSE LIMIT_SINT32
<1>1. knl.sync[s] \in Seq(Event) /\ Len(knl.sync[s]) \in Nat
  BY SempAssumption, KernelFields DEF IInv, TypeOK
<1>2. Len(knl.sync[s]) = 0 /\ s \in created
  BY <1>1 DEF Lock_SempExpand
<1>3. /\ semp[s] \in SempLCB /\ lim \in Int /\ semp[s].lamp_counter \in Int
      /\ LIMIT_SINT32 \in Nat /\ n \in Nat /\ n > 0
  BY SempAssumption DEF IInv, TypeOK, SempLCB
<1>4. /\ lim \in -1 .. LIMIT_SINT32 /\ semp[s].lamp_counter <= Capacity(s)
      /\ ~Unlimited(s) => semp[s].lamp_counter >= 0
  BY <1>2 DEF IInv, Lamps
<1>5. /\ semp' = [semp EXCEPT ![s].lamps_limit = l, ![s].lamp_counter = c]
      /\ knl' = RestoreAsynSignal(knl)
      /\ created' = created /\ frame' = frame /\ held' = held
  <2> DEFINE waiting == Len(knl.sync[s])
             given == IF waiting = 0 THEN 0
                      ELSE IF waiting = 1 \/ more = 1 THEN 1 ELSE 2
             rest == semp[s].lamp_counter + more - given
             lit == IF rest \in 0 .. LIMIT_SINT32 THEN rest ELSE LIMIT_SINT32
  <2>1. /\ semp' = [semp EXCEPT
                      ![s].lamps_limit = IF Unlimited(s) THEN @ ELSE @ + more,
                      ![s].lamp_counter = lit]
        /\ knl' = RestoreAsynSignal(IF waiting = 0 THEN knl ELSE ExpandWake(s, more))
        /\ created' = created /\ frame' = frame /\ held' = held
    BY DEF Lock_SempExpand
  <2>2. given = 0 /\ waiting = 0
    BY <1>2
  <2>3. more \in Int
    BY <1>3
  <2> HIDE DEF given, more, waiting
  <2>4. rest = sum
    BY <1>3, <2>2, <2>3
  <2>5. lit = c
    BY <2>4
  <2> HIDE DEF lit, c
  <2>6. semp' = [semp EXCEPT ![s].lamps_limit = IF Unlimited(s) THEN @ ELSE @ + more,
                             ![s].lamp_counter = c]
    BY <2>1, <2>5
  <2>7. semp' = [semp EXCEPT ![s].lamps_limit = l, ![s].lamp_counter = c]
    BY <2>6 DEF IInv, TypeOK
  <2>8. QED
    BY <2>1, <2>2, <2>7
<1>6. /\ c \in Int /\ l \in Int /\ l \in -1 .. LIMIT_SINT32
      /\ (l = -1 <=> Unlimited(s)) /\ c >= 0
      /\ c <= IF l = -1 THEN LIMIT_SINT32 ELSE l
  <2>1. CASE Unlimited(s)
    BY <1>3, <1>4, <2>1 DEF Unlimited
  <2>2. CASE ~Unlimited(s)
    <3>1. lim >= 0 /\ room >= 0 /\ more >= 0 /\ more <= room /\ more \in Int
      BY <1>3, <1>4, <2>2 DEF Unlimited
    <3>2. semp[s].lamp_counter <= lim /\ semp[s].lamp_counter >= 0
      BY <1>4, <2>2 DEF Capacity
    <3> HIDE DEF more
    <3>3. sum \in 0 .. LIMIT_SINT32 /\ sum <= lim + more
      BY <1>3, <3>1, <3>2
    <3>4. QED
      BY <1>3, <2>2, <3>1, <3>3
  <2>3. QED
    BY <2>1, <2>2
<1> HIDE DEF c, l
<1>7. /\ semp'[s] = [semp[s] EXCEPT !.lamps_limit = l, !.lamp_counter = c]
      /\ \A x \in Semp : x # s => semp'[x] = semp[x]
  BY <1>5 DEF IInv, TypeOK
<1>8. /\ semp'[s] \in SempLCB /\ semp'[s].lamps_limit = l
      /\ semp'[s].lamp_counter = c
  BY <1>3, <1>6, <1>7 DEF SempLCB
<1>9. semp' \in [Semp -> SempLCB]
  BY <1>5, <1>7, <1>8 DEF IInv, TypeOK
<1>10. Settled(knl', Waits) /\ Still(knl', knl)
  BY <1>5, RestoreStill DEF IInv
<1>11. TypeOK'
  BY <1>5, <1>9, <1>10 DEF IInv, TypeOK, Settled, Coherent
<1>12. NoLampWithWaiter'
  <2>1. knl.sync[s] = << >>
    BY <1>1, <1>2
  <2>2. QED
    BY <1>5, <1>7, <1>10, <2>1 DEF IInv, NoLampWithWaiter, Still
<1>13. Lamps'
  <2> SUFFICES ASSUME NEW x \in created
               PROVE  /\ semp'[x].lamps_limit \in -1 .. LIMIT_SINT32
                      /\ semp'[x].lamp_counter <= Capacity(x)'
                      /\ ~Unlimited(x)' => semp'[x].lamp_counter >= 0
    BY <1>5 DEF Lamps
  <2>1. CASE x = s
    BY <1>6, <1>8, <2>1 DEF Capacity, Unlimited
  <2>2. CASE x # s
    <3>1. x \in Semp /\ semp'[x] = semp[x]
      BY <1>7, <2>2 DEF IInv, TypeOK
    <3>2. QED
      BY <3>1 DEF IInv, Lamps, Capacity, Unlimited
  <2>3. QED
    BY <2>1, <2>2
<1>14. FrameCoherence' /\ WokenIsReady'
  BY <1>5, <1>10, StillKeeps
<1>15. QED
  BY <1>10, <1>11, <1>12, <1>13, <1>14 DEF IInv

LEMMA DeleteKeeps ==
    ASSUME IInv, NEW s \in Semp, Lock_SempDelete(s)
    PROVE  IInv' /\ Still(knl', knl)
<1>1. /\ created' = created \ {s} /\ knl' = RestoreAsynSignal(knl)
      /\ semp' = semp /\ frame' = frame /\ held' = held /\ knl.sync[s] = << >>
  BY DEF Lock_SempDelete
<1>2. Settled(knl', Waits) /\ Still(knl', knl)
  BY <1>1, RestoreStill DEF IInv
<1>3. TypeOK'
  BY <1>1, <1>2 DEF IInv, TypeOK, Settled, Coherent
<1>4. NoLampWithWaiter' /\ Lamps'
  BY <1>1, <1>2 DEF IInv, NoLampWithWaiter, Lamps, Capacity, Unlimited, Still
<1>5. FrameCoherence' /\ WokenIsReady'
  BY <1>1, <1>2, StillKeeps
<1>6. QED
  BY <1>2, <1>3, <1>4, <1>5 DEF IInv

LEMMA SetSyncSortKeeps ==
    ASSUME IInv, NEW s \in Semp, NEW order \in Order, Lock_SempSetSyncSort(s, order)
    PROVE  IInv' /\ knl' = knl
<1>1. /\ semp' = [semp EXCEPT ![s].sync_order = order]
      /\ knl' = knl /\ created' = created /\ frame' = frame /\ held' = held
  BY DEF Lock_SempSetSyncSort
<1>2. /\ semp' \in [Semp -> SempLCB]
      /\ \A x \in Semp : /\ semp'[x].lamps_limit = semp[x].lamps_limit
                         /\ semp'[x].lamp_counter = semp[x].lamp_counter
  BY <1>1 DEF IInv, TypeOK, SempLCB
<1>3. TypeOK' /\ NoLampWithWaiter'
  BY <1>1, <1>2 DEF IInv, TypeOK, NoLampWithWaiter
<1>4. Lamps'
  BY <1>1, <1>2 DEF IInv, TypeOK, Lamps, Capacity, Unlimited
<1>5. QED
  BY <1>1, <1>3, <1>4 DEF IInv, FrameCoherence, WokenIsReady

(* The other calls of the kernel.                                          *)
LEMMA CallKeeps ==
    ASSUME IInv, InApplication, KernelCall, SempUnchanged
    PROVE  IInv' /\ NobodyWoken(knl', knl)
<1>1. semp' = semp /\ created' = created /\ frame' = frame /\ held' = held
  BY DEF SempUnchanged
<1>2. "DELAY" \notin Waits /\ Running # Idle /\ frame[Running] = NoSemp
  BY DEF Waits, InApplication
<1>3. Settled(knl', Waits) /\ NobodyWoken(knl', knl)
  BY <1>2, KernelCallSettled DEF IInv
<1>4. knl' \in Kernel /\ TypeOK'
  BY <1>1, <1>3 DEF IInv, TypeOK, Settled, Coherent
<1>5. NoLampWithWaiter' /\ Lamps'
  BY <1>1, <1>3 DEF IInv, NoLampWithWaiter, Lamps, Capacity, Unlimited, NobodyWoken
<1>6. FrameCoherence' /\ WokenIsReady'
  BY <1>1, <1>2, <1>3, NobodyWokenKeeps
<1>7. QED
  BY <1>3, <1>4, <1>5, <1>6 DEF IInv

(* The tick interrupt: an event woken by its alarm was waiting with a      *)
(* timeout, or sleeping outside Lock_SempPend.                             *)
LEMMA TickKeeps ==
    ASSUME IInv, Tick, SempUnchanged
    PROVE  IInv'
<1>1. semp' = semp /\ created' = created /\ frame' = frame /\ held' = held
  BY DEF SempUnchanged
<1>2. /\ Settled(knl', Waits)
      /\ \/ Still(knl', knl)
         \/ \E e \in Event : /\ knl.status[e] \cap {"DELAY", "SYNC_TIMEOUT"} # {}
                             /\ Woken(knl', knl, e, knl.status[e])
                             /\ LeftQueues(knl', knl, e)
  BY TickSettled DEF IInv
<1>3. knl' \in Kernel /\ TypeOK'
  BY <1>1, <1>2 DEF IInv, TypeOK, Settled, Coherent
<1>4. CASE Still(knl', knl)
  <2>1. NoLampWithWaiter' /\ Lamps'
    BY <1>1, <1>4 DEF IInv, NoLampWithWaiter, Lamps, Capacity, Unlimited, Still
  <2>2. FrameCoherence' /\ WokenIsReady'
    BY <1>1, <1>4, StillKeeps
  <2>3. QED
    BY <1>2, <1>3, <2>1, <2>2 DEF IInv
<1>5. ASSUME NEW e \in Event, knl.status[e] \cap {"DELAY", "SYNC_TIMEOUT"} # {},
             Woken(knl', knl, e, knl.status[e]), LeftQueues(knl', knl, e)
      PROVE  IInv'
  <2>1. NoLampWithWaiter' /\ Lamps'
    <3>1. \A s \in Semp : ToSet(knl'.sync[s]) \subseteq ToSet(knl.sync[s])
      BY <1>5, SempAssumption DEF LeftQueues
    <3>2. QED
      BY <1>1, <1>3, <3>1, ShorterQueuesKeep
  <2>2. knl.head[e] # NoHead => {"SEMP", "SYNC_TIMEOUT"} \subseteq knl.status[e]
    <3>1. knl.head[e] # NoHead => "SEMP" \in knl.status[e]
      BY DEF IInv, Settled, Coherent, SyncCoherent, Waits
    <3>2. "SEMP" \in knl.status[e] => "DELAY" \notin knl.status[e]
      BY DEF IInv, Settled, Coherent, SleepsOnly
    <3>3. QED
      BY <1>5, <3>1, <3>2
  <2>3. knl.head[e] = NoHead => frame[e] = NoSemp
    BY <1>5 DEF IInv, WokenIsReady, READY
  <2>4. FrameCoherence' /\ WokenIsReady'
    BY <1>1, <1>5, <2>2, <2>3, WokenKeeps
  <2>5. QED
    BY <1>2, <1>3, <2>1, <2>4 DEF IInv
<1>6. QED
  BY <1>2, <1>4, <1>5

-----------------------------------------------------------------------------
LEMMA NextKeeps ==
    ASSUME ~ExpandWithWaiters, IInv, [Next]_vars
    PROVE  IInv'
<1>1. ASSUME NEW s \in Semp, SempCall(s) PROVE IInv'
  <2>1. held \in [Semp -> SUBSET Event] /\ Running \in Event
    BY KernelFields DEF IInv, TypeOK, Running
  <2>2. CASE Lock_SempPost(s)
    <3>1. [held EXCEPT ![s] = @ \ {Running}] \in [Semp -> SUBSET Event]
      BY <2>1
    <3>2. QED
      BY <2>2, <3>1, SempPostKeeps DEF Lock_SempPost
  <2>3. CASE IsrSempPost(s)
    BY <2>1, <2>3, SempPostKeeps DEF IsrSempPost
  <2>4. CASE Lock_SempPendTake(s)
    <3>1. Hold(s, Running) \in [Semp -> SUBSET Event]
      BY <2>1 DEF Hold
    <3>2. QED
      BY <2>4, <3>1, TakeKeeps DEF Lock_SempPendTake
  <2>5. CASE IsrSempPend(s)
    BY <2>1, <2>5, TakeKeeps DEF IsrSempPend
  <2>6. ASSUME NEW us \in Timeouts, Lock_SempPendBlock(s, us) PROVE IInv'
    BY <2>6, BlockKeeps
  <2>7. ASSUME NEW limit \in Limits, NEW init \in Inits, NEW order \in Order,
               Lock_SempCreate(s, limit, init, order)
        PROVE  IInv'
    BY <2>7, CreateKeeps
  <2>8. ASSUME NEW n \in Expansions, Lock_SempExpand(s, n) PROVE IInv'
    BY <2>8, ExpandKeeps
  <2>9. CASE Lock_SempDelete(s)
    BY <2>9, DeleteKeeps
  <2>10. ASSUME NEW order \in Order, Lock_SempSetSyncSort(s, order) PROVE IInv'
    BY <2>10, SetSyncSortKeeps
  <2>11. QED
    BY <1>1, <2>2, <2>3, <2>4, <2>5, <2>6, <2>7, <2>8, <2>9, <2>10 DEF SempCall
<1>2. CASE Lock_SempPendReturn
  BY <1>2, ReturnKeeps
<1>3. CASE InApplication /\ KernelCall /\ SempUnchanged
  BY <1>3, CallKeeps
<1>4. CASE Tick /\ SempUnchanged
  BY <1>4, TickKeeps
<1>5. CASE UNCHANGED vars
  BY <1>5 DEF vars, IInv, TypeOK, NoLampWithWaiter, Lamps, Capacity, Unlimited,
              FrameCoherence, WokenIsReady
<1>6. QED
  BY <1>1, <1>2, <1>3, <1>4, <1>5 DEF Next

LEMMA Invariance == ASSUME ~ExpandWithWaiters PROVE Spec => []IInv
<1>1. Init => IInv
  BY InitInvariant
<1>2. IInv /\ [Next]_vars => IInv'
  BY NextKeeps
<1>3. QED
  BY <1>1, <1>2, PTL DEF Spec

(* The kernel's queues and the semaphores always have their types; in      *)
(* particular the scheduler of __DJY_SelectEventToRun always finds an      *)
(* event to run.                                                           *)
THEOREM TypeCorrect == ASSUME ~ExpandWithWaiters PROVE Spec => []TypeOK
<1>1. IInv => TypeOK
  BY DEF IInv
<1>2. QED
  BY <1>1, Invariance, PTL

(* The ready, blocking and alarm queues agree with the status, priority    *)
(* and sync_head of every event whatever calls, posts from interrupts and  *)
(* alarms interleave.                                                      *)
THEOREM QueuesCoherent == ASSUME ~ExpandWithWaiters PROVE Spec => []QueueCoherence
<1>1. IInv => QueueCoherence
  BY DEF IInv, Settled, Coherent, QueueCoherence, Waits
<1>2. QED
  BY <1>1, Invariance, PTL

(* Whenever scheduling is enabled, the best ready event runs: every path   *)
(* through Int_RestoreAsynSignal and the tick interrupt reschedules.       *)
THEOREM BestEventRuns == ASSUME ~ExpandWithWaiters PROVE Spec => []HighestPriorityRuns
<1>1. IInv => HighestPriorityRuns
  BY DEF IInv, Settled, HighestPriorityRuns
<1>2. QED
  BY <1>1, Invariance, PTL

(* Lock_SempPost and Lock_SempPend never leave a lamp lit while an event   *)
(* waits for one: no wake-up is lost.                                      *)
THEOREM NoLostWakeUp == ASSUME ~ExpandWithWaiters PROVE Spec => []NoLampWithWaiter
<1>1. IInv => NoLampWithWaiter
  BY DEF IInv
<1>2. QED
  BY <1>1, Invariance, PTL

(* The counter of a semaphore stays within its limit, and is not negative  *)
(* if there is one.                                                        *)
THEOREM LampsBounded == ASSUME ~ExpandWithWaiters PROVE Spec => []LampBound
<1>1. IInv => LampBound
  BY DEF IInv, Lamps, LampBound
<1>2. QED
  BY <1>1, Invariance, PTL

(* An event that waits is inside Lock_SempPend on the semaphore it queues  *)
(* for, and one that was woken finds in wakeup_from whether it got a lamp. *)
THEOREM FramesCoherent == ASSUME ~ExpandWithWaiters PROVE Spec => []FrameCoherence
<1>1. IInv => FrameCoherence
  BY DEF IInv
<1>2. QED
  BY <1>1, Invariance, PTL
=============================================================================
