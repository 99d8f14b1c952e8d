------------------------------- MODULE Mutex -------------------------------
(***************************************************************************)
(* The mutexes of lock/lock.c, with recursion, hand-over to the first      *)
(* waiter and priority inheritance, over the event queues of DjyKernel.    *)
(*                                                                         *)
(*  mutex   the control blocks: enable and owner; created, those in use    *)
(*  frame   where each event is in Lock_MutexPend:                         *)
(*            "out"    in application code                                 *)
(*            "enter"  past the tests made with interrupts enabled         *)
(*            "block"  blocked on mutex m, or woken and not yet run; ecb   *)
(*                     is the local pl_ecb                                 *)
(*  count   how often each event was told it has the mutex, minus how      *)
(*          often it released it                                           *)
(***************************************************************************)
EXTENDS KernelCalls

CONSTANTS MutexLCB,       \* the mutexes
          NoEvent,        \* a NULL event pointer
          MaxNest,        \* bound on the recursion of a mutex
          IsrKeeps        \* may an interrupt handler return with a mutex?

ASSUME MutexAssumption ==
    /\ MutexLCB = SyncHead
    /\ NoEvent \notin Event
    /\ MaxNest \in Nat \ {0}
    /\ IsrKeeps \in BOOLEAN

VARIABLES mutex, created, frame, count

vars == << knl, mutex, created, frame, count >>

Out == [at |-> "out", m |-> NoHead, ecb |-> NoEvent]

Free == [enable |-> 0, owner |-> NoEvent]

Init ==
    /\ Boot
    /\ mutex = [m \in MutexLCB |-> Free]
    /\ created = {}
    /\ frame = [e \in Event |-> Out]
    /\ count = [m \in MutexLCB |-> [e \in Event |-> 0]]

-----------------------------------------------------------------------------
InApplication ==
    /\ ~knl.inISR
    /\ Running # Idle
    /\ frame[Running].at = "out"



(* __DJY_FollowUpPrio: e runs at the priority of the running event.        *)
FollowUpPrio(k, e) ==
    IF e # NoEvent /\ k.prio[k.running] < k.prio[e]
    THEN ChangePrio(k, e, k.prio[k.running])
    ELSE k

RestorePrioToNone(k, e) ==
    IF e # NoEvent /\ k.prio[e] # k.base[e] THEN [k EXCEPT !.prio[e] = 0] ELSE k

(* __DJY_RestorePrio.                                                      *)
RestorePrio(k, e) ==
    IF e # NoEvent /\ k.prio[e] # k.base[e]
    THEN ChangePrio(k, e, k.base[e])
    ELSE k

Lock_MutexCreate(m) ==
    /\ InApplication
    /\ m \notin created
    /\ mutex' = [mutex EXCEPT ![m] = Free]
    /\ created' = created \cup {m}
    /\ UNCHANGED << knl, frame, count >>

(* Refused while an event waits.  The callers must see to it that nobody   *)
(* owns the mutex or is inside a call on it.                               *)
Lock_MutexDelete(m) ==
    /\ InApplication
    /\ m \in created /\ mutex[m].enable = 0
    /\ \A e \in Event : frame[e].m # m
    /\ knl.sync[m] = << >>
    /\ created' = created \ {m}
    /\ knl' = RestoreAsynSignal(knl)
    /\ UNCHANGED << mutex, frame, count >>

Obtain(m, e) == count' = [count EXCEPT ![m][e] = @ + 1]

(* The owner asks again: no critical section is needed.                    *)
Lock_MutexPendAgain(m) ==
    /\ InApplication /\ m \in created
    /\ mutex[m].enable # -1
    /\ mutex[m].owner = Running
    /\ mutex[m].enable < MaxNest
    /\ mutex' = [mutex EXCEPT ![m].enable = @ + 1]
    /\ Obtain(m, Running)
    /\ UNCHANGED << knl, created, frame >>

(* The tests made before the critical section: not held by an interrupt    *)
(* handler, not the owner.                                                 *)
Lock_MutexPendEnter(m) ==
    /\ InApplication /\ m \in created
    /\ mutex[m].enable # -1
    /\ mutex[m].owner # Running
    /\ frame' = [frame EXCEPT ![Running] = [at |-> "enter", m |-> m,
                                            ecb |-> NoEvent]]
    /\ UNCHANGED << knl, mutex, created, count >>

Entering(m) ==
    /\ ~knl.inISR
    /\ frame[Running].at = "enter" /\ frame[Running].m = m

Lock_MutexPendTake(m) ==
    /\ Entering(m)
    /\ mutex[m].enable = 0
    /\ mutex' = [mutex EXCEPT ![m] = [enable |-> 1, owner |-> Running]]
    /\ frame' = [frame EXCEPT ![Running] = Out]
    /\ Obtain(m, Running)
    /\ knl' = RestoreAsynSignal(knl)
    /\ created' = created

Lock_MutexPendFail(m, us) ==
    /\ Entering(m)
    /\ mutex[m].enable # 0
    /\ ~QuerySch(knl) \/ us = 0
    /\ frame' = [frame EXCEPT ![Running] = Out]
    /\ knl' = RestoreAsynSignal(knl)
    /\ UNCHANGED << mutex, created, count >>

(* A priority that an owner waiting in a sorted queue inherits must leave  *)
(* it in its place, as for DJY_SetEventPrio.                               *)
Lock_MutexPendBlock(m, us) ==
    LET own == mutex[m].owner
        blocked == AddRunningToBlock(knl, m, "PRIO", us, {"MUTEX"})
    IN  /\ Entering(m)
        /\ mutex[m].enable # 0
        /\ QuerySch(knl) /\ us # 0
        /\ own # NoEvent /\ knl.prio[Running] < knl.prio[own] =>
              StaysInPlace(knl, own, knl.prio[Running])
        /\ knl' = RestoreAsynSignal(FollowUpPrio(blocked, own))
        /\ frame' = [frame EXCEPT ![Running] = [at |-> "block", m |-> m,
                                                ecb |-> own]]
        /\ UNCHANGED << mutex, created, count >>

(* The event runs again.  After a timeout it restores the priority of the  *)
(* event that was the owner when it blocked.                               *)
Lock_MutexPendReturn ==
    /\ ~knl.inISR
    /\ frame[Running].at = "block"
    /\ LET m == frame[Running].m
           ecb == frame[Running].ecb
       IN  IF WokenByTimeout(Running)
           THEN /\ ecb # NoEvent => StaysInPlace(knl, ecb, knl.base[ecb])
                /\ knl' = RestoreAsynSignal(RestorePrio(knl, ecb))
                /\ count' = count
           ELSE /\ Obtain(m, Running)
                /\ knl' = knl
    /\ frame' = [frame EXCEPT ![Running] = Out]
    /\ UNCHANGED << mutex, created >>


(* The post that releases the mutex, after those of the recursive pends.   *)
LastPost(m) == mutex[m].enable <= 1

HandOverKeepsPrio(k, m) ==
    EventReady(WakeFirst(k, m, {"MUTEX"}), Head(k.sync[m]))

(* The mutex goes to the first waiter, the releaser to its own priority.   *)
HandOver(k, m) ==
    EventReady(RestorePrio(WakeFirst(k, m, {"MUTEX"}), k.running),
               Head(k.sync[m]))

(* Only the owner gets past the tests of Lock_MutexPost.                   *)
Lock_MutexPost(m) ==
    /\ InApplication /\ m \in created
    /\ mutex[m].enable # -1
    /\ mutex[m].owner = Running
    /\ count' = [count EXCEPT ![m][Running] = @ - 1]
    /\ IF ~LastPost(m)
       THEN /\ mutex' = [mutex EXCEPT ![m].enable = @ - 1]
            /\ knl' = RestoreAsynSignal(knl)
       ELSE IF knl.sync[m] = << >>
       THEN /\ mutex' = [mutex EXCEPT ![m] = Free]
            /\ knl' = RestoreAsynSignal(knl)
       ELSE /\ mutex' = [mutex EXCEPT ![m] = [enable |-> 1,
                                              owner |-> Head(knl.sync[m])]]
            /\ knl' = RestoreAsynSignal(HandOver(knl, m))
    /\ UNCHANGED << created, frame >>

IsrMutexPendAnyway(m) ==
    /\ IsrKeeps /\ IsrAllowed /\ m \in created
    /\ mutex' = [mutex EXCEPT ![m].enable = -1]
    /\ UNCHANGED << knl, created, frame, count >>

(* An interrupt handler never waits.  One that takes and releases a mutex  *)
(* before it returns leaves no trace.                                      *)
IsrMutexPend(m) ==
    /\ IsrKeeps /\ IsrAllowed /\ m \in created
    /\ mutex[m].enable = 0
    /\ mutex' = [mutex EXCEPT ![m].enable = -1]
    /\ UNCHANGED << knl, created, frame, count >>

IsrMutexPost(m) ==
    /\ IsrKeeps /\ IsrAllowed /\ m \in created
    /\ mutex[m].enable = -1
    /\ mutex' = [mutex EXCEPT ![m].enable = 0]
    /\ UNCHANGED << knl, created, frame, count >>

-----------------------------------------------------------------------------
MutexCall(m) ==
    \/ Lock_MutexCreate(m)
    \/ Lock_MutexDelete(m)
    \/ Lock_MutexPendAgain(m)
    \/ Lock_MutexPendEnter(m)
    \/ Lock_MutexPendTake(m)
    \/ \E us \in Timeouts : Lock_MutexPendFail(m, us)
    \/ \E us \in Timeouts : Lock_MutexPendBlock(m, us)
    \/ Lock_MutexPost(m)
    \/ IsrMutexPend(m)
    \/ IsrMutexPost(m)

MutexUnchanged == UNCHANGED << mutex, created, frame, count >>

Next ==
    \/ \E m \in MutexLCB : MutexCall(m)
    \/ Lock_MutexPendReturn
    \/ InApplication /\ KernelCall /\ MutexUnchanged
    \/ Tick /\ MutexUnchanged

Spec == Init /\ [][Next]_vars

-----------------------------------------------------------------------------
(* The types of the kernel's queues, the control blocks and the callers.   *)
TypeOK ==
    /\ knl \in Kernel
    /\ mutex \in [MutexLCB -> [enable : -1 .. MaxNest, owner : Event \cup {NoEvent}]]
    /\ created \subseteq MutexLCB
    /\ frame \in [Event -> [at : {"out", "enter", "block"},
                           m : MutexLCB \cup {NoHead},
                           ecb : Event \cup {NoEvent}]]
    /\ count \in [MutexLCB -> [Event -> Nat]]

(* Ready, blocking and alarm queues agree with each event's status and     *)
(* sync_head, also when inheritance moves an event between priorities.     *)
QueueCoherence ==
    /\ NoDuplicates(knl)
    /\ ReadyCoherent(knl, Event)
    /\ SyncCoherent(knl, {"MUTEX"})
    /\ DelayCoherent(knl)

(* Woken while blocked on m, and by what.                                  *)
Woken(e, m) == /\ frame[e].at = "block" /\ frame[e].m = m
               /\ knl.head[e] = NoHead

TimedOut(e) == "SYNC_TIMEOUT" \in knl.wakeup[e]

(* The mutex counts for exactly one event what the events believe they     *)
(* own: the owner's nesting depth is its successful pends minus its posts, *)
(* one more when the hand-over has not returned yet; nobody else, and no   *)
(* interrupt handler, thinks it has the mutex.                             *)
Ownership ==
    /\ \A m \in MutexLCB : \A e \in Event :
        LET granted == IF Woken(e, m) /\ ~TimedOut(e) THEN 1 ELSE 0
        IN  count[m][e] + granted =
                IF mutex[m].owner = e THEN mutex[m].enable ELSE 0
    /\ \A m \in MutexLCB : mutex[m].owner = NoEvent <=> mutex[m].enable <= 0


(* An event runs above its own priority only while it owns a mutex, or     *)
(* until an event that timed out waiting for it takes the priority back.   *)
BoostHasReason ==
    \A e \in Event : knl.prio[e] # knl.base[e] =>
        \/ \E m \in MutexLCB : mutex[m].owner = e
        \/ \E w \in Event, m \in MutexLCB :
              Woken(w, m) /\ TimedOut(w) /\ frame[w].ecb = e


(* Mutex queues are sorted by priority.                                    *)
WaitersSorted ==
    \A m \in MutexLCB : \A i, j \in DOMAIN knl.sync[m] :
        i < j => knl.prio[knl.sync[m][i]] <= knl.prio[knl.sync[m][j]]


(* Ticks are served, whoever disables scheduling enables it again, an event *)
(* that was woken leaves Lock_MutexPend if it runs often enough (ticks      *)
(* interrupt it in between), and so does an owner post.                     *)
FairSpec ==
    /\ Spec
    /\ SF_vars(Tick /\ MutexUnchanged)
    /\ WF_vars(InApplication /\ Int_RestoreAsynSignal /\ MutexUnchanged)
    /\ SF_vars(Lock_MutexPendReturn)
    /\ \A m \in MutexLCB : SF_vars(Lock_MutexPost(m))

=============================================================================
