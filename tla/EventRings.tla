----------------------------- MODULE EventRings -----------------------------
(***************************************************************************)
(* The queues of DjyKernel as core/djyos.c links them, through the four    *)
(* pointers of an event control block, which the queues share:             *)
(*                                                                         *)
(*  next, prev    the ring of the ready events, sorted by priority, or the *)
(*                ring of the alarms, sorted by expiry                     *)
(*  mnext, mprev  multi_next, multi_previous: among the ready events, the  *)
(*                ring of the first event of each priority, which          *)
(*                insertions walk; else the ring of a blocking queue       *)
(*  top, alarm    g_ptEventReady and g_ptEventDelay                        *)
(*  first         the first event of each blocking queue                   *)
(*                                                                         *)
(* The other fields of r are those of DjyKernel.                           *)
(***************************************************************************)
EXTENDS Integers, SequencesExt

CONSTANTS Event, Idle, PRIO_SYS_SERVICE, SyncHead, NoHead, TICK_US,
          TIMEOUT_FOREVER, RRS_Slice, Delays, Timeouts, TickIncs, NewPrios,
          MaxLock, BootReady, BootPrio,
          BootOrder,   \* the order in which the events are popped at boot
          NULL,
          Moving   \* may a new priority move an event in a blocking queue?

ASSUME RingAssumption ==
    NULL \notin Event /\ Moving \in BOOLEAN /\ MaxLock = 0

VARIABLE r

-----------------------------------------------------------------------------
(* The insertion loops: from start along the pointers ptr to the first     *)
(* event for which Past holds, or back to start.                           *)
Stop(start, ptr, Past(_)) ==
    LET n == Cardinality(Event)
        at[i \in 0 .. n] == IF i = 0 THEN start ELSE ptr[at[i - 1]]
        Ends(i) == Past(at[i]) \/ (i > 0 /\ at[i] = start)
    IN  at[CHOOSE i \in 0 .. n : Ends(i) /\ \A j \in 0 .. i - 1 : ~Ends(j)]

LinkBefore(q, e, x) ==
    [q EXCEPT !.next[e] = x, !.prev[e] = q.prev[x],
              !.next[q.prev[x]] = e, !.prev[x] = e]

LinkMultiBefore(q, e, x) ==
    [q EXCEPT !.mnext[e] = x, !.mprev[e] = q.mprev[x],
              !.mnext[q.mprev[x]] = e, !.mprev[x] = e]

InsertionPoint(q, e) ==
    Stop(q.top, q.mnext, LAMBDA x : q.prio[x] > q.prio[e])

(* __DJY_EventReady.  The event becomes the last of its priority, and the  *)
(* first if the event before it has another one.                           *)
EventReady(q, e) ==
    LET x == InsertionPoint(q, e)
        l == LinkBefore(q, e, x)
        m == IF q.prio[e] # q.prio[l.prev[e]] THEN LinkMultiBefore(l, e, x)
             ELSE [l EXCEPT !.mnext[e] = NULL, !.mprev[e] = NULL]
    IN  [m EXCEPT !.top = IF q.prio[e] < q.prio[@] THEN e ELSE @]

(* multi_next tells the first event of a priority from the others; the     *)
(* place goes to the next event of the priority, if there is one.          *)
CutReadyEvent(q, e) ==
    LET nx == q.next[e]
        c == [q EXCEPT !.prev[nx] = q.prev[e], !.next[q.prev[e]] = nx,
                       !.top = IF e = @ THEN nx ELSE @]
        s == [c EXCEPT !.mprev[nx] = q.mprev[e], !.mnext[q.mprev[e]] = nx]
    IN  IF e # q.top /\ q.mnext[e] = NULL THEN c
        ELSE IF q.prio[nx] # q.prio[e] THEN s
        ELSE [s EXCEPT !.mprev[q.mnext[e]] = nx, !.mnext[nx] = q.mnext[e]]

(* The round robin of DJY_ScheduleIsr relinks the running event by hand,   *)
(* in front of the first event of the next priority.                       *)
RotateRunning(q) ==
    LET e == q.running
        nx == q.next[e]
        mn == q.mnext[e]
        mp == q.mprev[e]
        c == [q EXCEPT !.mnext[mp] = nx, !.mprev[nx] = mp,
                       !.mprev[mn] = nx, !.mnext[nx] = mn,
                       !.mnext[e] = NULL, !.mprev[e] = NULL,
                       !.top = IF @ = e THEN nx ELSE @,
                       !.next[q.prev[e]] = nx, !.prev[nx] = q.prev[e]]
    IN  LinkBefore(c, e, mn)

HasPeer(q) ==
    LET e == q.running IN q.prio[e] = q.prio[q.next[e]] /\ e # q.next[e]

Ticks(us) == (us + TICK_US - 1) \div TICK_US

AddToDelayBeforeEqual(q, e, t) ==
    LET s == [q EXCEPT !.remain[e] = t]
        x == Stop(q.alarm, q.next, LAMBDA y : q.remain[y] >= t)
    IN  IF q.alarm = NULL
        THEN [s EXCEPT !.next[e] = e, !.prev[e] = e, !.alarm = e]
        ELSE [LinkBefore(s, e, x) EXCEPT
                 !.alarm = IF q.remain[@] >= t THEN e ELSE @]

(* __DJY_AddToDelay, and the same insertion in DJY_EventDelay.             *)
AddToDelay(q, e, t) ==
    LET s == [q EXCEPT !.remain[e] = t]
        x == Stop(q.alarm, q.next, LAMBDA y : q.remain[y] > t)
    IN  IF q.alarm = NULL
        THEN [s EXCEPT !.next[e] = e, !.prev[e] = e, !.alarm = e]
        ELSE [LinkBefore(s, e, x) EXCEPT
                 !.alarm = IF q.remain[@] > t THEN e ELSE @]

ResumeDelayOneWay(q, e) ==
    LET c == IF q.next[q.alarm] = q.alarm THEN [q EXCEPT !.alarm = NULL]
             ELSE [q EXCEPT !.alarm = IF e = @ THEN q.next[e] ELSE @,
                            !.next[q.prev[e]] = q.next[e]]
    IN  [c EXCEPT !.next[e] = NULL, !.prev[e] = NULL, !.remain[e] = 0]

ResumeDelay(q, e) ==
    LET c == IF q.next[q.alarm] = q.alarm THEN [q EXCEPT !.alarm = NULL]
             ELSE [q EXCEPT !.alarm = IF e = @ THEN q.next[e] ELSE @,
                            !.prev[q.next[e]] = q.prev[e],
                            !.next[q.prev[e]] = q.next[e]]
    IN  [c EXCEPT !.next[e] = NULL, !.prev[e] = NULL, !.remain[e] = 0]

-----------------------------------------------------------------------------
(* Blocking queues.                                                        *)

(* __DJY_AddRunningToBlock.                                                *)
AddRunningToBlock(q, h, order, us, sts) ==
    LET e == q.running
        c == [CutReadyEvent(q, e) EXCEPT !.prev[e] = NULL, !.next[e] = NULL,
                                         !.head[e] = h]
        f == q.first[h]
        x == IF order = "FIFO" THEN f
             ELSE Stop(f, c.mnext, LAMBDA y : q.prio[y] > q.prio[e])
        l == IF f = NULL
             THEN [c EXCEPT !.mnext[e] = e, !.mprev[e] = e, !.first[h] = e]
             ELSE IF order = "FIFO" THEN LinkMultiBefore(c, e, x)
             ELSE [LinkMultiBefore(c, e, x) EXCEPT
                      !.status[e] = @ \cup {"PRIO_SORT"},
                      !.first[h] = IF q.prio[f] > q.prio[e] THEN e ELSE @]
    IN  IF us # TIMEOUT_FOREVER
        THEN AddToDelay([l EXCEPT !.status[e] = @ \cup sts \cup {"SYNC_TIMEOUT"}],
                        e, Ticks(us))
        ELSE [l EXCEPT !.status[e] = @ \cup sts]

(* The event leaves its blocking queue, in a post, an alarm or             *)
(* __DJY_CutEcbFromSync.                                                   *)
CutEcbFromSync(q, e) ==
    LET h == q.head[e]
        c == [q EXCEPT !.first[h] = IF @ = e THEN q.mnext[e] ELSE @,
                       !.mnext[q.mprev[e]] = q.mnext[e],
                       !.mprev[q.mnext[e]] = q.mprev[e]]
        d == IF q.mnext[e] = e THEN [q EXCEPT !.first[h] = NULL] ELSE c
    IN  [d EXCEPT !.head[e] = NoHead, !.mnext[e] = NULL, !.mprev[e] = NULL]

(* The early return of __DJY_ChangeBlockQueue.                             *)
StaysInPlace(q, e) ==
    LET f == q.first[q.head[e]]
    IN  \/ e = f /\ q.prio[e] <= q.prio[q.mnext[e]]
        \/ q.prio[e] >= q.prio[q.mprev[e]] /\ q.prio[e] <= q.prio[q.mnext[e]]
        \/ e = q.mprev[f] /\ q.prio[e] >= q.prio[q.mprev[e]]

(* The event is taken out and linked before the first one whose priority   *)
(* is not better.  The walk begins at the head, even if that is the event  *)
(* taken out, and the back pointer of the event found is set to that event *)
(* itself.                                                                 *)
ChangeBlockQueue(q, e) ==
    LET h == q.head[e]
        c == [q EXCEPT !.mnext[q.mprev[e]] = q.mnext[e],
                       !.mprev[q.mnext[e]] = q.mprev[e]]
        x == Stop(q.first[h], c.mnext, LAMBDA y : q.prio[y] >= q.prio[e])
        pv == c.mprev[x]
    IN  [c EXCEPT !.mnext[e] = x, !.mprev[e] = pv, !.mnext[pv] = e,
                  !.mprev[x] = x,
                  !.first[h] = IF q.prio[@] > q.prio[e] THEN e ELSE @]

(* DJY_SetEventPrio.                                                       *)
ChangePrio(q, e, p) ==
    LET b == [q EXCEPT !.base[e] = p]
        n == [b EXCEPT !.prio[e] = p]
    IN  IF p = q.prio[e] THEN b
        ELSE IF q.status[e] = {}
        THEN EventReady([CutReadyEvent(b, e) EXCEPT !.prio[e] = p], e)
        ELSE IF "PRIO_SORT" \in q.status[e] /\ ~StaysInPlace(n, e)
        THEN ChangeBlockQueue(n, e)
        ELSE n

Schedule(q) == [q EXCEPT !.running = q.top]

-----------------------------------------------------------------------------
(* __DJY_InitSys links the system service event to itself; the other       *)
(* events are popped before scheduling starts.                             *)
Boot ==
    LET alone == [e \in Event |-> IF e = Idle THEN Idle ELSE NULL]
        sys == [next |-> alone, prev |-> alone, mnext |-> alone, mprev |-> alone,
                top |-> Idle, alarm |-> NULL, first |-> [h \in SyncHead |-> NULL],
                remain |-> [e \in Event |-> 0], status |-> [e \in Event |-> {}],
                wakeup |-> [e \in Event |-> {}], prio |-> BootPrio,
                base |-> BootPrio, head |-> [e \in Event |-> NoHead],
                running |-> Idle, phase |-> 0, inISR |-> FALSE]
        ready == FoldLeft(EventReady, sys, SelectSeq(BootOrder, LAMBDA e : e # Idle))
    IN  r = Schedule(ready)

InApplication == ~r.inISR /\ r.running # Idle

DJY_EventDelay(us) ==
    LET e == r.running
        c == CutReadyEvent(r, e)
    IN  /\ InApplication
        /\ r' = Schedule(IF us # 0
                         THEN AddToDelay([c EXCEPT !.status[e] = {"DELAY"}],
                                         e, Ticks(us))
                         ELSE IF HasPeer(r) THEN EventReady(c, e) ELSE r)

Pend(h, order, us) ==
    /\ InApplication
    /\ us # 0
    /\ r' = Schedule(AddRunningToBlock(r, h, order, us, {"SEMP"}))

Post(h) ==
    LET e == r.first[h]
        c == CutEcbFromSync(r, e)
        d == IF "SYNC_TIMEOUT" \in r.status[e] THEN ResumeDelay(c, e) ELSE c
    IN  /\ ~r.inISR
        /\ e # NULL
        /\ r' = Schedule(EventReady([d EXCEPT !.wakeup[e] = {"SEMP"},
                                              !.status[e] = {}], e))

DJY_SetEventPrio(e, p) ==
    /\ InApplication
    /\ e # Idle /\ p < PRIO_SYS_SERVICE
    /\ "PRIO_SORT" \in r.status[e] /\ p # r.prio[e] =>
          Moving \/ StaysInPlace([r EXCEPT !.prio[e] = p], e)
    /\ r' = Schedule(ChangePrio(r, e, p))

(* DJY_ScheduleIsr.                                                        *)
InDelay(e) == r.status[e] \cap {"DELAY", "SYNC_TIMEOUT"} # {}

TickBegin(inc) ==
    /\ ~r.inISR
    /\ r' = [r EXCEPT !.inISR = TRUE,
                      !.phase = IF RRS_Slice = 0 THEN 0 ELSE (@ + inc) % RRS_Slice,
                      !.remain = [e \in Event |-> IF InDelay(e) THEN @[e] - inc
                                                  ELSE 0]]

AlarmDue == r.alarm # NULL /\ r.remain[r.alarm] <= 0

TickAlarm ==
    LET e == r.alarm
        c == IF r.head[e] # NoHead THEN CutEcbFromSync(r, e) ELSE r
        d == [c EXCEPT !.wakeup[e] = r.status[e], !.status[e] = {},
                       !.remain[e] = 0]
        u == IF r.next[e] = e THEN [d EXCEPT !.alarm = NULL]
             ELSE [d EXCEPT !.alarm = r.next[e],
                            !.prev[r.next[e]] = r.prev[e],
                            !.next[r.prev[e]] = r.next[e]]
    IN  /\ r.inISR /\ AlarmDue
        /\ r' = EventReady(u, e)

TickReturn ==
    /\ r.inISR /\ ~AlarmDue
    /\ r' = LET t == IF RRS_Slice # 0 /\ r.phase = 0 /\ HasPeer(r)
                     THEN RotateRunning(r) ELSE r
            IN  Schedule([t EXCEPT !.inISR = FALSE])

Next ==
    \/ \E us \in Delays : DJY_EventDelay(us)
    \/ \E h \in SyncHead : \/ Post(h)
                           \/ \E order \in {"FIFO", "PRIO"}, us \in Timeouts :
                                 Pend(h, order, us)
    \/ \E e \in Event : \E p \in NewPrios : DJY_SetEventPrio(e, p)
    \/ \E inc \in TickIncs : TickBegin(inc)
    \/ TickAlarm
    \/ TickReturn

Spec == Boot /\ [][Next]_r

-----------------------------------------------------------------------------
(* The first n events from start along ptr; NULL once the ring is broken.  *)
Walk(start, ptr, n) ==
    LET at[i \in 1 .. n] ==
            IF i = 1 THEN start
            ELSE IF at[i - 1] = NULL THEN NULL ELSE ptr[at[i - 1]]
    IN  at

(* ptr is a ring of the events in set, entered at start, and back points   *)
(* the other way.                                                          *)
IsRing(start, ptr, back, set) ==
    IF set = {} THEN start = NULL
    ELSE /\ ToSet(Walk(start, ptr, Cardinality(set))) = set
         /\ \A e \in set : ptr[e] \in set /\ back[ptr[e]] = e

Ready == {e \in Event : r.status[e] = {}}
Alarms == {e \in Event : InDelay(e)}
WaitingFor(h) == {e \in Event : r.head[e] = h}

FirstOfPrio ==
    {e \in Ready : e = r.top \/ r.prio[e] # r.prio[r.prev[e]]}

(* Although the queues share the pointers of the events, each is a ring of *)
(* the events whose status puts them there, in both directions; and no     *)
(* ready event but the first of its priority has a multi_next, which is    *)
(* how __DJY_CutReadyEvent recognises it.                                  *)
RingShape ==
    /\ IsRing(r.top, r.next, r.prev, Ready)
    /\ IsRing(r.top, r.mnext, r.mprev, FirstOfPrio)
    /\ \A e \in Ready \ FirstOfPrio : r.mnext[e] = NULL
    /\ IsRing(r.alarm, r.next, r.prev, Alarms)
    /\ \A h \in SyncHead : IsRing(r.first[h], r.mnext, r.mprev, WaitingFor(h))

(* __DJY_ChangeBlockQueue adjusts the position of an event in its queue    *)
(* (djyos.c:1544), and the queue is still a queue.                         *)
RingSurvivesMoves ==
    \A h \in SyncHead : IsRing(r.first[h], r.mnext, r.mprev, WaitingFor(h))

Kernel ==
    [ready |-> [p \in 1 .. PRIO_SYS_SERVICE |->
                   SelectSeq(Walk(r.top, r.next, Cardinality(Ready)),
                             LAMBDA e : r.prio[e] = p)],
     delay |-> Walk(r.alarm, r.next, Cardinality(Alarms)),
     sync |-> [h \in SyncHead |-> Walk(r.first[h], r.mnext,
                                       Cardinality(WaitingFor(h)))],
     remain |-> r.remain, status |-> r.status, wakeup |-> r.wakeup,
     prio |-> r.prio, base |-> r.base, head |-> r.head, running |-> r.running,
     phase |-> r.phase, lock |-> 0, inISR |-> r.inISR]

Queues == INSTANCE QueueSpec WITH knl <- Kernel

(* The linked lists implement the sequences of DjyKernel: every call,      *)
(* alarm and round robin changes them as the operators of DjyKernel say,   *)
(* which the other modules are built on.                                   *)
ImplementsQueues == Queues!Spec
=============================================================================
