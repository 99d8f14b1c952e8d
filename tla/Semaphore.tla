----------------------------- MODULE Semaphore -----------------------------
(***************************************************************************)
(* The semaphores of lock/lock.c, over the event queues of DjyKernel.  An   *)
(* action is one system call of the running event (or of an asynchronous    *)
(* interrupt handler), from its Int_SaveAsynSignal to its last              *)
(* Int_RestoreAsynSignal; what Lock_SempPend does after it was blocked is    *)
(* an action of its own, taken when the event runs again.                   *)
(*                                                                         *)
(*  semp   the control blocks, and created, those that may be used         *)
(*  frame  frame[e] = the semaphore whose Lock_SempPend e is inside        *)
(*  held   the events whose Lock_SempPend returned true and that have not  *)
(*         posted since: how the callers use a semaphore that guards       *)
(*         resources.  The semaphores in Signal are posted by interrupt    *)
(*         handlers and by events that hold nothing.                       *)
(***************************************************************************)
EXTENDS KernelCalls, FiniteSets

CONSTANTS Semp, NoSemp,
          Signal,              \* semaphores used to signal, not as resources
          Limits, Inits,       \* what Lock_SempCreate is called with
          Expansions,          \* the Num given to Lock_SempExpand
          LIMIT_SINT32,        \* CN_LIMIT_SINT32, scaled down
          MaxBorrow,           \* bound: pends of an unlimited semaphore
          ExpandWithWaiters    \* may Lock_SempExpand find a waiter?

ASSUME SempAssumption ==
    /\ Semp = SyncHead
    /\ Signal \subseteq Semp
    /\ NoSemp \notin Semp
    /\ LIMIT_SINT32 \in Nat /\ MaxBorrow \in Nat
    /\ Limits \subseteq -1 .. LIMIT_SINT32
    /\ Inits \subseteq Int
    /\ Expansions \subseteq Nat \ {0}
    /\ ExpandWithWaiters \in BOOLEAN

VARIABLES semp, created, frame, held

vars == << knl, semp, created, frame, held >>

Order == {"FIFO", "PRIO"}

SempLCB == [lamps_limit : Int, lamp_counter : Int, sync_order : Order]

NoLCB == [lamps_limit |-> 0, lamp_counter |-> 0, sync_order |-> "FIFO"]

Init ==
    /\ Boot
    /\ semp = [s \in Semp |-> NoLCB]
    /\ created = {}
    /\ frame = [e \in Event |-> NoSemp]
    /\ held = [s \in Semp |-> {}]

-----------------------------------------------------------------------------
(* The running event executes application code: the system service event  *)
(* only idles, and must not block.                                         *)
InApplication ==
    /\ ~knl.inISR
    /\ Running # Idle
    /\ frame[Running] = NoSemp

(* lamps_limit = -1 stands for an unlimited number of lamps.               *)
Unlimited(s) == semp[s].lamps_limit = -1

(* init is never negative for a limited semaphore, and all the lamps of a  *)
(* resource semaphore are lit at first.                                    *)
Lock_SempCreate(s, limit, init, order) ==
    /\ InApplication
    /\ s \notin created
    /\ init <= limit
    /\ limit # -1 => init >= 0
    /\ s \notin Signal => limit # -1 /\ init = limit
    /\ semp' = [semp EXCEPT ![s] = [lamps_limit |-> limit,
                                    lamp_counter |-> init,
                                    sync_order |-> order]]
    /\ created' = created \cup {s}
    /\ UNCHANGED << knl, frame, held >>

CapacityPlusOne(s) == semp[s].lamps_limit + 1

(* The lamps a post finds room for.                                        *)
Capacity(s) == IF Unlimited(s) THEN LIMIT_SINT32 ELSE semp[s].lamps_limit

SempPostLightsLamp(s) ==
    /\ semp' = [semp EXCEPT ![s].lamp_counter = IF @ < Capacity(s) THEN @ + 1 ELSE @]
    /\ knl' = RestoreAsynSignal(knl)

(* The critical section of Lock_SempPost.                                  *)
SempPost(s) ==
    IF knl.sync[s] = << >>
    THEN /\ semp' = [semp EXCEPT ![s].lamp_counter =
                       IF @ < Capacity(s) THEN @ + 1 ELSE @]
         /\ knl' = RestoreAsynSignal(knl)
    ELSE /\ knl' = LET e == Head(knl.sync[s])
                   IN  RestoreAsynSignal(EventReady(WakeFirst(knl, s, {"SEMP"}), e))
         /\ semp' = semp

Lock_SempPost(s) ==
    /\ InApplication
    /\ s \in created
    /\ s \in Signal \/ Running \in held[s]
    /\ SempPost(s)
    /\ held' = [held EXCEPT ![s] = @ \ {Running}]
    /\ UNCHANGED << created, frame >>

(* Lock_SempPost in an interrupt handler; the scheduling is done when the  *)
(* handler returns.                                                        *)
IsrSempPost(s) ==
    /\ IsrAllowed
    /\ s \in created /\ s \in Signal
    /\ SempPost(s)
    /\ UNCHANGED << created, frame, held >>

LampLit(s) ==
    \/ Unlimited(s) /\ semp[s].lamp_counter > -MaxBorrow
    \/ ~Unlimited(s) /\ semp[s].lamp_counter > 0

TakeLamp(s) ==
    semp' = [semp EXCEPT ![s].lamp_counter = IF @ # 0 THEN @ - 1 ELSE @]

(* Who holds a lamp after e obtained one.                                  *)
Hold(s, e) == IF s \in Signal THEN held
              ELSE [held EXCEPT ![s] = @ \cup {e}]

(* A pend finds a lamp lit.                                                *)
Lock_SempPendTake(s) ==
    /\ InApplication
    /\ s \in created /\ LampLit(s)
    /\ s \in Signal \/ Running \notin held[s]
    /\ TakeLamp(s)
    /\ held' = Hold(s, Running)
    /\ knl' = RestoreAsynSignal(knl)
    /\ UNCHANGED << created, frame >>

(* It finds none and may block: the event leaves the CPU inside the call.  *)
Lock_SempPendBlock(s, us) ==
    /\ InApplication
    /\ s \in created /\ ~Unlimited(s) /\ semp[s].lamp_counter <= 0
    /\ s \in Signal \/ Running \notin held[s]
    /\ QuerySch(knl) /\ us # 0
    /\ knl' = RestoreAsynSignal(AddRunningToBlock(knl, s, semp[s].sync_order,
                                                  us, {"SEMP"}))
    /\ frame' = [frame EXCEPT ![Running] = s]
    /\ UNCHANGED << semp, created, held >>

(* The event runs again: it was woken by a post, unless wakeup_from says   *)
(* it was woken by the alarm.                                              *)
Lock_SempPendReturn ==
    /\ ~knl.inISR
    /\ frame[Running] # NoSemp
    /\ held' = IF WokenByTimeout(Running) THEN held
               ELSE Hold(frame[Running], Running)
    /\ frame' = [frame EXCEPT ![Running] = NoSemp]
    /\ UNCHANGED << knl, semp, created >>

(* An interrupt handler cannot block: it takes a lit lamp or none.         *)
IsrSempPend(s) ==
    /\ IsrAllowed
    /\ s \in created /\ s \in Signal /\ LampLit(s)
    /\ TakeLamp(s)
    /\ knl' = RestoreAsynSignal(knl)
    /\ UNCHANGED << created, frame, held >>

(* The new lamps go to the waiting events first.  The event woken keeps    *)
(* its sync_head.  The loop does not move on to the next waiter: with a    *)
(* lamp and a waiter left it goes on with the same event, whose multi_next *)
(* is by then one of the ready queue, or NULL, and readies it again.  What *)
(* the rest of the loop does to the memory is not modelled.  A semaphore   *)
(* already at CN_LIMIT_SINT32 is not expanded with waiters.                *)
ExpandWake(s, lamps) ==
    LET e == Head(knl.sync[s])
        once == EventReady([WakeFirst(knl, s, {"SEMP"}) EXCEPT !.head[e] = s], e)
        again == lamps > 1 /\ once.sync[s] # << >>
    IN  IF again THEN EventReady([once EXCEPT !.sync[s] = << >>], e) ELSE once

Lock_SempExpand(s, n) ==
    LET room == LIMIT_SINT32 - semp[s].lamps_limit
        more == IF Unlimited(s) \/ room >= n THEN n ELSE room
        waiting == Len(knl.sync[s])
        given == IF waiting = 0 THEN 0 ELSE IF waiting = 1 \/ more = 1 THEN 1 ELSE 2
        sum == semp[s].lamp_counter + more - given
    IN  /\ InApplication
        /\ s \in created
        /\ waiting > 0 => ExpandWithWaiters /\ more > 0
        /\ semp' = [semp EXCEPT
                      ![s].lamps_limit = IF Unlimited(s) THEN @ ELSE @ + more,
                      ![s].lamp_counter = IF sum \in 0 .. LIMIT_SINT32 THEN sum
                                          ELSE LIMIT_SINT32]
        /\ knl' = RestoreAsynSignal(IF waiting = 0 THEN knl
                                    ELSE ExpandWake(s, more))
        /\ UNCHANGED << created, frame, held >>

(* Refused while an event waits.  The callers must see to it that nobody   *)
(* holds a lamp, or was woken and is still inside Lock_SempPend.           *)
Lock_SempDelete(s) ==
    /\ InApplication
    /\ s \in created /\ held[s] = {} /\ \A e \in Event : frame[e] # s
    /\ knl.sync[s] = << >>
    /\ created' = created \ {s}
    /\ knl' = RestoreAsynSignal(knl)
    /\ UNCHANGED << semp, frame, held >>

(* Events already in the queue keep their places.                          *)
Lock_SempSetSyncSort(s, order) ==
    /\ InApplication
    /\ s \in created
    /\ semp' = [semp EXCEPT ![s].sync_order = order]
    /\ UNCHANGED << knl, created, frame, held >>

-----------------------------------------------------------------------------
SempCall(s) ==
    \/ \E limit \in Limits : \E init \in Inits : \E order \in Order :
          Lock_SempCreate(s, limit, init, order)
    \/ Lock_SempPost(s)
    \/ IsrSempPost(s)
    \/ Lock_SempPendTake(s)
    \/ \E us \in Timeouts : Lock_SempPendBlock(s, us)
    \/ IsrSempPend(s)
    \/ \E n \in Expansions : Lock_SempExpand(s, n)
    \/ Lock_SempDelete(s)
    \/ \E order \in Order : Lock_SempSetSyncSort(s, order)

SempUnchanged == UNCHANGED << semp, created, frame, held >>

Next ==
    \/ \E s \in Semp : SempCall(s)
    \/ Lock_SempPendReturn
    \/ InApplication /\ KernelCall /\ SempUnchanged
    \/ Tick /\ SempUnchanged

Spec == Init /\ [][Next]_vars

-----------------------------------------------------------------------------
(* The types of the kernel's queues, the control blocks and the callers.   *)
TypeOK ==
    /\ knl \in Kernel
    /\ semp \in [Semp -> SempLCB]
    /\ created \subseteq Semp
    /\ frame \in [Event -> Semp \cup {NoSemp}]
    /\ held \in [Semp -> SUBSET Event]

(* The queues an event is in are the ones its control block says, in every *)
(* interleaving of calls, posts from interrupts and alarms: it is in the   *)
(* ready queue, once and at its own priority, exactly when its status is   *)
(* READY; in the queue sync_head points to exactly when it waits for a     *)
(* semaphore; in the alarm queue exactly when it sleeps or has a timeout.  *)
QueueCoherence ==
    /\ NoDuplicates(knl)
    /\ ReadyCoherent(knl, Event)
    /\ SyncCoherent(knl, {"SEMP"})
    /\ DelayCoherent(knl)

(* No lost wake-up: a lamp is never lit while an event waits for one.      *)
NoLampWithWaiter ==
    \A s \in Semp : knl.sync[s] # << >> =>
        /\ s \in created
        /\ semp[s].lamp_counter = 0

(* A blocked event is inside Lock_SempPend on the semaphore it queues for, *)
(* and one that is inside and no longer queues can tell why it was woken.  *)
FrameCoherence ==
    \A e \in Event : \A s \in Semp :
        /\ knl.head[e] = s => frame[e] = s
        /\ frame[e] = s /\ knl.head[e] = NoHead =>
              \/ knl.wakeup[e] = {"SEMP"}
              \/ {"SEMP", "SYNC_TIMEOUT"} \subseteq knl.wakeup[e]

(* An event that is put into the ready queue was not in it: djyos.c:1260.  *)
ReadyOnce == \A p \in Prio : IsInjective(knl.ready[p])

(* The events that were given a lamp by a post and do not know it yet.     *)
Granted(s) == {e \in Event : /\ frame[e] = s
                             /\ knl.head[e] = NoHead
                             /\ "SYNC_TIMEOUT" \notin knl.wakeup[e]}

(* Lamps are neither lost nor doubled when posts, timeouts and preemptions *)
(* race: those lit, those held and those handed over add up to the limit.  *)
LampConservation ==
    \A s \in created \ Signal :
        semp[s].lamp_counter + Cardinality(held[s]) + Cardinality(Granted(s))
            = semp[s].lamps_limit

(* Semaphore s as its users see it.                                        *)
Counting(s) == INSTANCE CountingSemaphore WITH
    limit   <- semp[s].lamps_limit,
    lamps   <- IF Unlimited(s) THEN 0 ELSE semp[s].lamp_counter,
    waiting <- ToSet(knl.sync[s]),
    passing <- Granted(s)

(* Every call, interrupt and alarm, as far as semaphore s is concerned, is *)
(* a step of the counting semaphore MsgQueue is built on: an event gets    *)
(* past it with a lamp that was lit or handed over, never both, and an     *)
(* alarm takes no lamp.                                                    *)
ImplementsCounting ==
    /\ \A s \in Semp : Counting(s)!Init
    /\ [][\A s \in Semp : Counting(s)!Step]_vars

(* However posts, expansions and pends from events and interrupts mix, the *)
(* lamps lit stay within the limit, and the counter of a limited semaphore *)
(* is never negative.                                                      *)
LampBound ==
    \A s \in created :
        /\ semp[s].lamp_counter <= Capacity(s)
        /\ ~Unlimited(s) => semp[s].lamp_counter >= 0

(* An event's time is not wasted: only a tick or a post may make a blocked *)
(* event ready, and an alarm never fires early.                            *)
WokenForAReason ==
    [][\A e \in Event : knl.status[e] # READY /\ knl'.status[e] = READY =>
          \/ knl'.wakeup[e] = {"SEMP"} /\ knl.head[e] # NoHead
          \/ knl.inISR /\ knl.remain[e] <= 0 /\ knl'.wakeup[e] = knl.status[e]]_vars

(* The tick interrupt stays pending while it is masked and is served once  *)
(* interrupts are enabled (strong fairness), and whoever disabled          *)
(* scheduling enables it again.                                            *)
FairSpec ==
    /\ Spec
    /\ SF_vars(Tick /\ SempUnchanged)
    /\ WF_vars(InApplication /\ Int_RestoreAsynSignal /\ SempUnchanged)
=============================================================================
