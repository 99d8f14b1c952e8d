----------------------------- MODULE EventLife -----------------------------
(***************************************************************************)
(* The life of events and event types in core/djyos.c: types are           *)
(* registered and unregistered, events are popped, get a thread when they  *)
(* are first scheduled, are waited for, complete and end, and their ECBs   *)
(* and threads are recycled.                                               *)
(*                                                                         *)
(* knl is a kernel state of DjyKernel with these fields more:              *)
(*  evtt     g_tEvttTable; freeVm is the length of the my_free_vm list     *)
(*  kind     evtt_id of each ECB, NoEvtt for a free one                    *)
(*  vm       the events that have a thread                                 *)
(*  counter  sync_counter                                                  *)
(*  free     s_ptEventFree, which is a stack                               *)
(*  stacks   how many thread stacks the heap can still provide: they are   *)
(*           of one size, and the heap has no other use                    *)
(*  waitFree the length of g_ptWaitFreeVm                                  *)
(*  masked   Int_RestoreAsynSignal left interrupts disabled                *)
(* frame[e] is what the waiting call that e is inside waits for.           *)
(***************************************************************************)
EXTENDS DjyKernel, FiniteSets

CONSTANTS Evtt, NoEvtt,
          Correlative,       \* the types of relation EN_CORRELATIVE
          VpusRes,           \* the vpus_res independent types are registered with
          DefaultPrio,       \* and its default_prio
          PRIO_KEEP,         \* 0x80: types above it keep a thread
          MainType,          \* the type of the event that runs at boot
          Timeouts,          \* the timeouts given to the calls, in us
          MaxLock,           \* bound on nested Int_SaveAsynSignal
          StackLimit,        \* the thread stacks that fit in the heap
          POP_WRAP,          \* 2^32, scaled down: pop_times is a u32
          PopPrios,          \* the prio given to DJY_EventPop, 0 = the default
          DoneTimes,         \* the done_times given to DJY_WaitEvttCompleted
          BaseTimes,         \* *base_times - pop_times in DJY_WaitEvttPop
          NoFrame

VARIABLES knl, frame

vars == << knl, frame >>

(* The queues of this module: the sync of an ECB, done_sync and pop_sync   *)
(* of a type, and s_ptGenMemSync.                                          *)
Sync(e) == << "sync", e >>
DoneSync(t) == << "done", t >>
PopSync(t) == << "pop", t >>
MemSync == << "memory" >>

LifeHeads == {Sync(e) : e \in Event} \cup {DoneSync(t) : t \in Evtt}
                 \cup {PopSync(t) : t \in Evtt} \cup {MemSync}

ASSUME LifeAssumption ==
    /\ SyncHead = LifeHeads
    /\ NoEvtt \notin Evtt
    /\ Correlative \subseteq Evtt /\ MainType \in Correlative
    /\ VpusRes \subseteq Nat
    /\ DefaultPrio \in [Evtt -> 1 .. PRIO_SYS_SERVICE - 1]
    /\ IsFiniteSet(Event)
    /\ StackLimit \in Nat \ {0} /\ POP_WRAP \in Nat \ {0, 1}
    /\ Timeouts \subseteq Timeout \ {0}
    /\ PopPrios \subseteq 0 .. PRIO_SYS_SERVICE - 1
    /\ DoneTimes \subseteq Nat /\ BaseTimes \subseteq Int /\ MaxLock \in Nat
    /\ NoFrame \notin SyncHead

Waits == {"EVENT_DONE", "EVTT_DONE", "EVTT_POP", "MEMORY"}

LifeStatus == Status \cup Waits \cup {"EXP_EXIT"}

Live(k) == {e \in Event : k.kind[e] # NoEvtt} \cup {Idle}

ETCB == [registered : BOOLEAN, deleting : BOOLEAN, inuse : BOOLEAN,
         events : Nat, vpus : Nat, freeVm : Nat, vpusRes : Nat,
         popTimes : 0 .. POP_WRAP - 1, correlativeID : Event \cup {NoEvtt}]

(* What DJY_EvttRegist writes, when the stacks come from the heap.         *)
NewType(res) ==
           [registered |-> TRUE, deleting |-> FALSE, inuse |-> FALSE,
            events |-> 0, vpus |-> 0, freeVm |-> 0, vpusRes |-> res,
            popTimes |-> 0, correlativeID |-> NoEvtt]

Reserves(t) == IF t \in Correlative THEN {0} ELSE VpusRes

(* Boot: the event main runs, the ECBs in free are free.                   *)
Booted(main, free, types) ==
    LET prio == [e \in Event |-> IF e = main THEN DefaultPrio[MainType]
                                             ELSE PRIO_SYS_SERVICE]
        ready == [p \in Prio |->
                    SelectSeq(<< main, Idle >>, LAMBDA e : prio[e] = p)]
    IN  [evtt |-> [types EXCEPT ![MainType].inuse = TRUE,
                                ![MainType].events = 1,
                                ![MainType].vpus = 1,
                                ![MainType].popTimes = 1,
                                ![MainType].correlativeID = main],
         kind |-> [e \in Event |-> IF e = main THEN MainType ELSE NoEvtt],
         vm |-> {Idle, main},
         counter |-> [e \in Event |-> 0],
         free |-> free,
         stacks |-> StackLimit - 1,
         waitFree |-> 0,
         masked |-> FALSE] @@ BootKernel(ready, prio)

Init ==
    /\ \E main \in Event \ {Idle} :
       \E free \in SetToSeqs(Event \ {Idle, main}) :
       \E res \in {f \in [Evtt -> VpusRes \cup {0}] :
                       \A t \in Evtt : f[t] \in Reserves(t)} :
          knl = Booted(main, free, [t \in Evtt |-> NewType(res[t])])
    /\ frame = [e \in Event |-> NoFrame]

-----------------------------------------------------------------------------
(* Waking.                                                                 *)


(* The loops that wake the events in W out of queue h, in its order.       *)
Wake(k, h, W, sts) ==
    LET wake(b, e) ==
            LET r == IF "SYNC_TIMEOUT" \in b.status[e] THEN ResumeDelay(b, e)
                                                       ELSE b
            IN  EventReady([r EXCEPT !.sync[h] = Cut(@, e),
                                     !.head[e] = NoHead,
                                     !.status[e] = READY,
                                     !.wakeup[e] = sts], e)
    IN  FoldLeft(wake, k, SelectSeq(k.sync[h], LAMBDA e : e \in W))

WakeAll(k, h, sts) == Wake(k, h, ToSet(k.sync[h]), sts)

CountDown(k, W) ==
    [k EXCEPT !.counter = [e \in Event |-> IF e \in W THEN @[e] - 1 ELSE @[e]]]

FreeStackForWaiters(k) ==
    LET n == k.stacks + 1
        W == {k.sync[MemSync][i] : i \in 1 .. Len(k.sync[MemSync]) \cap 1 .. n}
    IN  Wake(k, MemSync, W, {"MEMORY"})

(* M_Free of a stack: the heap makes as many events ready that wait for    *)
(* memory as fit, without allocating anything for them.                    *)
FreeStack(k) ==
    LET n == k.stacks + 1
        W == {k.sync[MemSync][i] : i \in 1 .. Len(k.sync[MemSync]) \cap 1 .. n}
    IN  Wake([k EXCEPT !.stacks = n], MemSync, W, {"MEMORY"})

FreeStacks(k, n) == FoldLeft(LAMBDA b, i : FreeStack(b), k, [i \in 1 .. n |-> i])

-----------------------------------------------------------------------------
(* Scheduling an event that may have no thread yet.                        *)

HasThread(k, e) ==
    e \in k.vm \/ k.evtt[k.kind[e]].freeVm > 0 \/ k.stacks > 0

(* The first event of the ready queue that has, or can be given, a thread  *)
(* is moved to its front: those before it go and wait for memory.  Only    *)
(* the first free thread of a type is used, and the others are forgotten.  *)
SelectEventToRun(k) ==
    LET queue == FlattenSeq(k.ready)
        n == CHOOSE i \in 1 .. Len(queue) :
                 /\ HasThread(k, queue[i])
                 /\ \A j \in 1 .. i - 1 : ~HasThread(k, queue[j])
        e == queue[n]
        t == k.kind[e]
        wait(b, w) == [CutReadyEvent(b, w) EXCEPT
                         !.sync[MemSync] = Append(@, w), !.head[w] = MemSync,
                         !.status[w] = {"MEMORY", "NORUN"}]
        b == FoldLeft(wait, k, SubSeq(queue, 1, n - 1))
    IN  IF e \in k.vm THEN b
        ELSE IF k.evtt[t].freeVm > 0
        THEN [b EXCEPT !.vm = @ \cup {e}, !.evtt[t].freeVm = 0]
        ELSE [b EXCEPT !.vm = @ \cup {e}, !.evtt[t].vpus = @ + 1,
                       !.stacks = @ - 1]

(* __DJY_ScheduleAsynSignal, at the end of an interrupt.                   *)
ScheduleAsynSignal(k) ==
    LET s == SelectEventToRun(k) IN [s EXCEPT !.running = ReadyHead(s)]

(* Int_RestoreAsynSignal: the switch enables interrupts; a __DJY_Schedule  *)
(* that comes back to the running event does not.                          *)
Restore(k) ==
    IF k.lock # 0 \/ ReadyHead(k) = k.running THEN k
    ELSE LET s == ScheduleAsynSignal(k)
         IN  [s EXCEPT !.masked = s.running = k.running]

-----------------------------------------------------------------------------
(* Calls of the running event.                                             *)

Running == knl.running

InApplication ==
    /\ ~knl.inISR
    /\ Running # Idle
    /\ frame[Running] = NoFrame

(* Ending a call that does not block.                                      *)
Return(k) == knl' = Restore(k) /\ frame' = frame

(* The running event blocks in queue h, at place i, inside the call.       *)
Block(k, h, i, us, sts, goal) ==
    LET e == Running
        bits == {sts} \cup (IF us # TIMEOUT_FOREVER THEN {"SYNC_TIMEOUT"} ELSE {})
        b == [CutReadyEvent(k, e) EXCEPT !.sync[h] = InsertAt(@, i, e),
                                         !.head[e] = h, !.status[e] = bits]
    IN  /\ QuerySch(knl)
        /\ knl' = Restore(IF us # TIMEOUT_FOREVER THEN AddToDelay(b, us) ELSE b)
        /\ frame' = [frame EXCEPT ![e] = [on |-> h, goal |-> goal]]

(* The event runs again and returns from its call.                         *)
WaitReturn ==
    /\ ~knl.inISR
    /\ frame[Running] # NoFrame
    /\ frame' = [frame EXCEPT ![Running] = NoFrame]
    /\ UNCHANGED knl

DJY_EvttRegist(t, res) ==
    /\ InApplication
    /\ ~knl.evtt[t].registered
    /\ Return([knl EXCEPT !.evtt[t] = NewType(res)])

(* The callers make sure that no event waits for the type: the code wakes  *)
(* such an event but leaves its sync_head pointing at the queue.           *)
DJY_EvttUnregist(t) ==
    /\ InApplication
    /\ knl.evtt[t].registered
    /\ knl.sync[DoneSync(t)] = << >> /\ knl.sync[PopSync(t)] = << >>
    /\ IF knl.evtt[t].inuse
       THEN Return([knl EXCEPT !.evtt[t].deleting = TRUE])
       ELSE Return(FreeStacks([knl EXCEPT !.evtt[t].registered = FALSE,
                                          !.evtt[t].freeVm = 0],
                              knl.evtt[t].freeVm))

Usable(t) == knl.evtt[t].registered /\ ~knl.evtt[t].deleting

-----------------------------------------------------------------------------
(* DJY_EventPop.  id is an event type or an event.                         *)

PopCountsSameTypeOnly(k, t, id, w) == w = id \/ k.kind[w] = t

(* Does the pop count for event w, which waits in pop_sync of type t?      *)
PopCounts(k, t, id, w) == t \in Correlative \/ w = id \/ k.kind[w] = t

PopSyncStep(k, t, id) ==
    LET counted == {w \in ToSet(k.sync[PopSync(t)]) : PopCounts(k, t, id, w)}
        due == {w \in counted : k.counter[w] <= 1}
    IN  Wake(CountDown(k, counted \ due), PopSync(t), due, {"EVTT_POP"})


NeedsNewEvent(k, t, id) ==
    ~k.evtt[t].inuse \/ (t \notin Correlative /\ id = t)

(* An ECB from the free list, without a thread.                            *)
NewEvent(k, t, p) ==
    LET e == Head(k.free)
        prio == IF p # 0 THEN p ELSE DefaultPrio[t]
    IN  EventReady([k EXCEPT !.free = Tail(@),
                             !.evtt[t].events = @ + 1,
                             !.evtt[t].inuse = TRUE,
                             !.evtt[t].correlativeID = e,
                             !.kind[e] = t,
                             !.vm = @ \ {e},
                             !.sync[Sync(e)] = << >>,
                             !.head[e] = NoHead,
                             !.counter[e] = 0,
                             !.status[e] = READY,
                             !.wakeup[e] = {"NORUN"},
                             !.prio[e] = prio,
                             !.base[e] = prio], e)

(* The pop up to the blocking.  Without a free ECB it fails, but those who *)
(* wait for the pop have counted it.                                       *)
Popped(k, t, id, p) ==
    LET b == PopSyncStep(k, t, id)
        n == IF NeedsNewEvent(k, t, id) THEN NewEvent(b, t, p) ELSE b
    IN  [n EXCEPT !.evtt[t].popTimes = (@ + 1) % POP_WRAP]

PopFails(t, id) == NeedsNewEvent(knl, t, id) /\ knl.free = << >>

TypeOf(id) == IF id \in Event THEN knl.kind[id] ELSE id

(* An event of an independent type is addressed by its type: given an      *)
(* event id the code turns to the event of that type popped last.          *)
MayPop(id) ==
    /\ id \in Event => knl.kind[id] \in Correlative
    /\ Usable(TypeOf(id))

EventPop(id, p) ==
    LET t == TypeOf(id)
    IN  IF PopFails(t, id) THEN PopSyncStep(knl, t, id)
        ELSE Popped(knl, t, id, p)

DJY_EventPop(id, p) ==
    /\ InApplication
    /\ MayPop(id)
    /\ Return(EventPop(id, p))

(* With a timeout the caller waits until the event completes.              *)
DJY_EventPopWait(id, p, us) ==
    LET t == TypeOf(id)
        k == Popped(knl, t, id, p)
        h == Sync(k.evtt[t].correlativeID)
    IN  /\ InApplication
        /\ MayPop(id) /\ ~PopFails(t, id)
        /\ Block(k, h, Len(k.sync[h]) + 1, us, "EVENT_DONE", 0)

(* An interrupt handler pops without waiting; the switch comes at its end. *)
IsrEventPop(id, p) ==
    /\ ~knl.inISR /\ knl.lock = 0 /\ ~knl.masked
    /\ MayPop(id)
    /\ knl' = ScheduleAsynSignal(EventPop(id, p))
    /\ frame' = frame

-----------------------------------------------------------------------------
(* Waiting.                                                                *)

DJY_WaitEventCompleted(e, us) ==
    /\ InApplication
    /\ e # Running /\ knl.kind[e] # NoEvtt
    /\ Block(knl, Sync(e), Len(knl.sync[Sync(e)]) + 1, us, "EVENT_DONE", 0)

(* Where an event with counter c enters the queue: before the first one    *)
(* that is not below, but the head of the ring is only moved for a smaller *)
(* counter, so that a counter equal to the head's goes to the end.         *)
CounterPlace(k, h, c) ==
    LET q == k.sync[h]
        i == CHOOSE j \in 1 .. Len(q) + 1 :
                 /\ j <= Len(q) => k.counter[q[j]] >= c
                 /\ \A m \in 1 .. j - 1 : k.counter[q[m]] < c
    IN  IF q # << >> /\ i = 1 /\ k.counter[q[1]] = c THEN Len(q) + 1 ELSE i

BlockSorted(h, c, us, sts, goal) ==
    Block([knl EXCEPT !.counter[Running] = c], h, CounterPlace(knl, h, c),
          us, sts, goal)

DJY_WaitEvttCompleted(t, n, us) ==
    /\ InApplication
    /\ Usable(t)
    /\ BlockSorted(DoneSync(t), n, us, "EVTT_DONE", 0)

(* *base_times is given relative to pop_times; the difference of the two   *)
(* u32 says whether the awaited pop has already happened.                  *)
DJY_WaitEvttPop(t, base, us) ==
    LET popt == (base + 1) % POP_WRAP
    IN  /\ InApplication
        /\ Usable(t)
        /\ IF popt >= POP_WRAP \div 2 \/ popt = 0
           THEN Return(knl) /\ QuerySch(knl)
           ELSE BlockSorted(PopSync(t), popt, us, "EVTT_POP",
                            (knl.evtt[t].popTimes + popt) % POP_WRAP)

-----------------------------------------------------------------------------
(* Completing and ending.                                                  *)

DJY_EventComplete ==
    /\ InApplication
    /\ Return(WakeAll(knl, Sync(Running), {"EVENT_DONE"}))

DoneSyncStepBelowZero(k, t) ==
    LET q == ToSet(k.sync[DoneSync(t)])
        due == {w \in q : \/ k.counter[w] = 1
                          \/ k.counter[w] = 0 /\ k.evtt[t].vpus = 1}
    IN  Wake(CountDown(k, q \ due), DoneSync(t), due, {"EVTT_DONE"})

(* done_sync: a counter of 0 stands for the last event of the type, which  *)
(* the code takes to be the one that ends when the type has one thread.    *)
DoneSyncStep(k, t) ==
    LET q == ToSet(k.sync[DoneSync(t)])
        due == {w \in q : \/ k.counter[w] = 1
                          \/ k.counter[w] = 0 /\ k.evtt[t].vpus = 1}
    IN  Wake(CountDown(k, {w \in q \ due : k.counter[w] # 0}),
             DoneSync(t), due, {"EVTT_DONE"})

(* The ECB goes back to the free list.                                     *)
Recycle(k, e) ==
    [CutReadyEvent(k, e) EXCEPT !.free = << e >> \o @,
                                !.kind[e] = NoEvtt,
                                !.evtt[k.kind[e]].events = @ - 1]


(* Is the type out of use once an event ended?                             *)
LastThread(c, t) ==
    \/ t \in Correlative
    \/ c.events < c.vpus /\ c.vpus > c.vpusRes /\ c.vpus = 1

(* Does its thread stay with the type?                                     *)
KeepsThread(c, t) ==
    \/ LastThread(c, t) /\ DefaultPrio[t] < PRIO_KEEP
    \/ t \notin Correlative /\ (c.events >= c.vpus \/ c.vpus <= c.vpusRes)

(* A type that was unregistered while in use goes with its last event.     *)
Retire(k, t) ==
    LET c == k.evtt[t]
        inuse == c.inuse /\ ~LastThread(c, t)
    IN  IF ~inuse /\ c.deleting
        THEN [k EXCEPT !.evtt[t].inuse = FALSE, !.evtt[t].registered = FALSE,
                       !.evtt[t].freeVm = 0, !.waitFree = @ + c.freeVm]
        ELSE [k EXCEPT !.evtt[t].inuse = inuse]


(* __DJY_EventFinal and __DJY_EventExit: they differ in what they tell     *)
(* those who wait for the event.  The thread of the event that ends is     *)
(* given back only after the next event has been given its own.            *)
End(k, sts) ==
    LET e == k.running
        t == k.kind[e]
        done == Recycle(DoneSyncStep(WakeAll(k, Sync(e), sts), t), e)
        s == SelectEventToRun(Retire(done, t))
        v == IF KeepsThread(done.evtt[t], t)
             THEN [s EXCEPT !.evtt[t].freeVm = @ + 1]
             ELSE [s EXCEPT !.evtt[t].vpus = @ - 1, !.waitFree = @ + 1]
    IN  [v EXCEPT !.vm = @ \ {e}, !.lock = 0, !.masked = FALSE,
                  !.running = ReadyHead(s)]

DJY_EventFinal ==
    /\ InApplication
    /\ knl' = End(knl, {"EVENT_DONE"})
    /\ UNCHANGED frame

DJY_EventExit ==
    /\ InApplication
    /\ knl' = End(knl, {"EXP_EXIT"})
    /\ UNCHANGED frame

-----------------------------------------------------------------------------
(* The other calls, the system service event and the tick.                 *)

Int_SaveAsynSignal ==
    /\ InApplication
    /\ knl.lock < MaxLock
    /\ knl' = [knl EXCEPT !.lock = @ + 1]
    /\ UNCHANGED frame

Int_RestoreAsynSignal ==
    /\ InApplication
    /\ knl.lock > 0
    /\ Return([knl EXCEPT !.lock = @ - 1])

(* __DJY_Service frees the threads that ended events left behind.          *)
ServiceFrees ==
    /\ ~knl.inISR /\ Running = Idle
    /\ knl.waitFree > 0
    /\ Return(FreeStacks([knl EXCEPT !.waitFree = 0], knl.waitFree))

TickBegin ==
    /\ ~knl.inISR /\ knl.lock = 0 /\ ~knl.masked
    /\ knl' = TickStart(knl, 1)
    /\ UNCHANGED frame

TickAlarm ==
    /\ knl.inISR /\ AlarmDue(knl)
    /\ knl' = TickWake(knl)
    /\ UNCHANGED frame

(* TickEnd switches to the head of the ready queue; here it may have to be *)
(* given a thread first.                                                   *)
TickReturn ==
    /\ knl.inISR /\ ~AlarmDue(knl)
    /\ knl' = ScheduleAsynSignal([TickEnd(knl) EXCEPT !.running = Running])
    /\ UNCHANGED frame

Tick == TickBegin \/ TickAlarm \/ TickReturn

-----------------------------------------------------------------------------
Pop ==
    \E id \in Evtt \cup Event : \E p \in PopPrios :
        \/ DJY_EventPop(id, p)
        \/ \E us \in Timeouts : DJY_EventPopWait(id, p, us)
        \/ IsrEventPop(id, p)

Wait ==
    \E us \in Timeouts :
        \/ \E e \in Event : DJY_WaitEventCompleted(e, us)
        \/ \E t \in Evtt : \E n \in DoneTimes : DJY_WaitEvttCompleted(t, n, us)
        \/ \E t \in Evtt : \E base \in BaseTimes : DJY_WaitEvttPop(t, base, us)

Next ==
    \/ \E t \in Evtt : \E res \in Reserves(t) : DJY_EvttRegist(t, res)
    \/ \E t \in Evtt : DJY_EvttUnregist(t)
    \/ Pop
    \/ Wait
    \/ WaitReturn
    \/ DJY_EventComplete
    \/ DJY_EventFinal
    \/ DJY_EventExit
    \/ Int_SaveAsynSignal
    \/ Int_RestoreAsynSignal
    \/ ServiceFrees
    \/ Tick

Spec == Init /\ [][Next]_vars

-----------------------------------------------------------------------------
EventsOf(t) == {e \in Event : knl.kind[e] = t}

(* The types of the control blocks of events and event types.              *)
TypeOK ==
    /\ knl.evtt \in [Evtt -> ETCB]
    /\ knl.kind \in [Event -> Evtt \cup {NoEvtt}]
    /\ knl.vm \subseteq Event
    /\ knl.counter \in [Event -> Nat]
    /\ knl.stacks \in 0 .. StackLimit /\ knl.waitFree \in 0 .. StackLimit
    /\ knl.status \in [Event -> SUBSET LifeStatus]
    /\ knl.running \in Live(knl)




(* An event that has waited for its base_times + 1-th pop of a correlative *)
(* type is woken by it at the latest, also when pop_times wraps around.    *)
PopNotMissed ==
    \A e \in Event : \A t \in Correlative :
        knl.head[e] = PopSync(t) =>
            knl.counter[e] <= (frame[e].goal - knl.evtt[t].popTimes) % POP_WRAP

(* A __DJY_Schedule that finds no memory for the more urgent events leaves *)
(* interrupts masked, but never while the system service event runs, which *)
(* does not block and would then have the CPU for good.                    *)
ServiceUnmasked == Running = Idle => ~knl.masked

=============================================================================
