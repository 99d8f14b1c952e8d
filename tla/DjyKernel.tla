----------------------------- MODULE DjyKernel -----------------------------
(***************************************************************************)
(* The event queues of the DJYOS kernel and the functions of core/djyos.c  *)
(* that move event control blocks (ECBs) between them.  A kernel state is  *)
(* one record; every internal C function is an operator from kernel states *)
(* to kernel states, and a system call is the composition of the functions *)
(* it calls between Int_SaveAsynSignal and Int_RestoreAsynSignal, where    *)
(* interrupts are off.                                                     *)
(*                                                                         *)
(*  ready    the ready ring, as one FIFO per priority: the first event of  *)
(*           each FIFO is the one linked in the priority-monotonic list    *)
(*  delay    the alarm ring g_ptEventDelay, first alarm first              *)
(*  remain   delay_end_tick - g_s64OsTicks of the events in delay, else 0  *)
(*  status, wakeup   event_status and wakeup_from, as sets of CN_STS bits; *)
(*           CN_STS_EVENT_READY is the empty set                           *)
(*  prio, base       prio and prio_base                                    *)
(*  sync, head       the blocking queues, and each event's sync_head       *)
(*  running  g_ptEventRunning                                              *)
(*  phase    g_s64OsTicks % s_u32RRS_Slice                                 *)
(*  lock     en_asyn_signal_counter outside system calls: how many         *)
(*           Int_SaveAsynSignal the running event has not yet undone       *)
(*  inISR    the tick interrupt is being served                            *)
(***************************************************************************)
EXTENDS Integers, SequencesExt

CONSTANTS Event,             \* the event control blocks
          Idle,              \* g_tECB_Table[0], the system service event
          PRIO_SYS_SERVICE,  \* CN_PRIO_SYS_SERVICE, the priority of Idle
          SyncHead,          \* the addresses a sync_head may hold
          NoHead,            \* sync_head = NULL
          TICK_US,           \* CN_CFG_TICK_US
          TIMEOUT_FOREVER,   \* CN_TIMEOUT_FOREVER
          RRS_Slice          \* s_u32RRS_Slice in ticks, 0 = no round robin

ASSUME EventAssumption == Idle \in Event
ASSUME PrioAssumption == PRIO_SYS_SERVICE \in Nat \ {0}
ASSUME HeadAssumption == NoHead \notin SyncHead
ASSUME TickAssumption == TICK_US \in Nat \ {0} /\ RRS_Slice \in Nat

Prio == 1 .. PRIO_SYS_SERVICE

Status == {"DELAY", "SYNC_TIMEOUT", "SEMP", "MUTEX", "EVENT_DONE",
           "PRIO_SORT", "NORUN"}

READY == {}

Timeout == Nat \cup {TIMEOUT_FOREVER}

-----------------------------------------------------------------------------
(* Queues.                                                                 *)

Cut(s, e) ==
    IF e \in ToSet(s) THEN RemoveAt(s, CHOOSE i \in 1 .. Len(s) : s[i] = e)
                      ELSE s

(* Where the insertion loops stop: the first place whose key is above v,   *)
(* or the end of the queue.                                                *)
FirstAbove(s, key, v) ==
    CHOOSE i \in 1 .. Len(s) + 1 :
        /\ i <= Len(s) => key[s[i]] > v
        /\ \A j \in 1 .. i - 1 : key[s[j]] <= v

(* Microseconds to ticks, rounded up.                                      *)
Ticks(us) == (us + TICK_US - 1) \div TICK_US

-----------------------------------------------------------------------------
(* Internal functions.                                                     *)

EventReady(k, e) == [k EXCEPT !.ready[k.prio[e]] = Append(@, e)]

CutReadyEvent(k, e) ==
    [k EXCEPT !.ready = [p \in Prio |-> Cut(k.ready[p], e)]]

(* g_ptEventReady: the first event of the highest priority present.        *)
TopPrio(k) ==
    CHOOSE p \in Prio : /\ k.ready[p] # << >>
                        /\ \A q \in Prio : k.ready[q] # << >> => p <= q

ReadyHead(k) == Head(k.ready[TopPrio(k)])

Schedule(k) == [k EXCEPT !.running = ReadyHead(k)]

RestoreAsynSignalLate(k) == IF k.lock = 1 THEN Schedule(k) ELSE k

(* The end of a system call: Int_RestoreAsynSignal reschedules only when   *)
(* it undoes the outermost Int_SaveAsynSignal.                             *)
RestoreAsynSignal(k) == IF k.lock = 0 THEN Schedule(k) ELSE k

QuerySch(k) == k.lock = 0

ResumeDelay(k, e) ==
    [k EXCEPT !.delay = Cut(@, e), !.remain[e] = 0]

AddToDelayLast(k, us) ==
    [k EXCEPT !.delay = Append(@, k.running), !.remain[k.running] = Ticks(us)]

AddToDelay(k, us) ==
    LET e == k.running
        t == Ticks(us)
    IN  [k EXCEPT !.delay = InsertAt(@, FirstAbove(@, k.remain, t), e),
                  !.remain[e] = t]

AddRunningToBlockLast(k, h, order, us, sts) ==
    [CutReadyEvent(k, k.running) EXCEPT !.sync[h] = Append(@, k.running),
                                        !.head[k.running] = h,
                                        !.status[k.running] = sts]

(* The first event to enter an empty queue does not get PRIO_SORT, even in *)
(* a queue sorted by priority.                                             *)
AddRunningToBlock(k, h, order, us, sts) ==
    LET e == k.running
        q == k.sync[h]
        sorted == order = "PRIO" /\ q # << >>
        i == IF sorted THEN FirstAbove(q, k.prio, k.prio[e]) ELSE Len(q) + 1
        bits == sts \cup (IF sorted THEN {"PRIO_SORT"} ELSE {})
                    \cup (IF us # TIMEOUT_FOREVER THEN {"SYNC_TIMEOUT"} ELSE {})
        b == [CutReadyEvent(k, e) EXCEPT !.sync[h] = InsertAt(@, i, e),
                                         !.head[e] = h,
                                         !.status[e] = @ \cup bits]
    IN  IF us # TIMEOUT_FOREVER THEN AddToDelay(b, us) ELSE b

WakeFirstNoReason(k, h, sts) ==
    LET e == Head(k.sync[h])
        r == IF "SYNC_TIMEOUT" \in k.status[e] THEN ResumeDelay(k, e) ELSE k
    IN  [r EXCEPT !.sync[h] = Tail(@), !.head[e] = NoHead,
                  !.status[e] = READY]

(* Wake the first event of queue h because what it waits for happened.     *)
WakeFirst(k, h, sts) ==
    LET e == Head(k.sync[h])
        r == IF "SYNC_TIMEOUT" \in k.status[e] THEN ResumeDelay(k, e) ELSE k
    IN  [r EXCEPT !.sync[h] = Tail(@),
                  !.head[e] = NoHead,
                  !.status[e] = READY,
                  !.wakeup[e] = sts]

ChangePrioInPlace(k, e, p) == [k EXCEPT !.prio[e] = p]

(* What DJY_SetEventPrio, __DJY_FollowUpPrio and __DJY_RestorePrio do once  *)
(* the priority really changes: a ready event goes to the end of its new    *)
(* priority.  An event in a queue sorted by priority may only be given a    *)
(* priority that leaves it in its place (StaysInPlace): what                *)
(* __DJY_ChangeBlockQueue does to the other ones is the subject of          *)
(* EventRings.                                                              *)
ChangePrio(k, e, p) ==
    IF k.status[e] = READY
    THEN EventReady([CutReadyEvent(k, e) EXCEPT !.prio[e] = p], e)
    ELSE [k EXCEPT !.prio[e] = p]

(* The priority does not change, or __DJY_ChangeBlockQueue returns at      *)
(* once; the queue is a ring: the neighbours of its ends are each other.   *)
StaysInPlace(k, e, p) ==
    "PRIO_SORT" \in k.status[e] /\ p # k.prio[e] =>
        LET q == k.sync[k.head[e]]
            n == Len(q)
            i == CHOOSE j \in 1 .. n : q[j] = e
            pr(j) == IF q[j] = e THEN p ELSE k.prio[q[j]]
            nxt == pr((i % n) + 1)
            prv == pr(((i + n - 2) % n) + 1)
        IN  \/ i = 1 /\ p <= nxt
            \/ p >= prv /\ p <= nxt
            \/ i = n /\ p >= prv

SetEventPrio(k, e, p) ==
    LET b == [k EXCEPT !.base[e] = p]
    IN  IF p # k.prio[e] THEN ChangePrio(b, e, p) ELSE b

(* Round robin: the running event goes behind the others of its priority.  *)
Rotate(k) == EventReady(CutReadyEvent(k, k.running), k.running)

HasPeer(k) == Len(k.ready[k.prio[k.running]]) > 1

(* DJY_EventDelay and DJY_EventDelayTo, for an alarm t > 0 ticks away.     *)
DelayRunning(k, t) ==
    LET e == k.running
        c == CutReadyEvent(k, e)
    IN  [c EXCEPT !.status[e] = {"DELAY"},
                  !.delay = InsertAt(@, FirstAbove(@, k.remain, t), e),
                  !.remain[e] = t]

-----------------------------------------------------------------------------
(* The tick interrupt, in three kinds of steps: the clock moves, every     *)
(* event whose alarm is due is woken, and the round robin and the          *)
(* scheduling at the end of the interrupt.  No event runs in between.      *)

TickStartNoWrap(k, inc) ==
    [k EXCEPT !.inISR = TRUE, !.phase = @ + inc,
              !.remain = [e \in Event |-> IF e \in ToSet(k.delay)
                                          THEN k.remain[e] - inc ELSE 0]]

TickStartNoCount(k, inc) ==
    [k EXCEPT !.inISR = TRUE,
              !.phase = IF RRS_Slice = 0 THEN 0 ELSE (@ + inc) % RRS_Slice]

TickStart(k, inc) ==
    [k EXCEPT !.inISR = TRUE,
              !.phase = IF RRS_Slice = 0 THEN 0 ELSE (@ + inc) % RRS_Slice,
              !.remain = [e \in Event |-> IF e \in ToSet(k.delay)
                                          THEN k.remain[e] - inc ELSE 0]]

AlarmDueEarly(k) == k.delay # << >> /\ k.remain[Head(k.delay)] <= 1

AlarmDue(k) == k.delay # << >> /\ k.remain[Head(k.delay)] <= 0

TickWakeStaysQueued(k) ==
    LET e == Head(k.delay)
    IN  EventReady([k EXCEPT !.wakeup[e] = k.status[e], !.status[e] = READY,
                             !.delay = Tail(@), !.remain[e] = 0], e)

TickWake(k) ==
    LET e == Head(k.delay)
        h == k.head[e]
        out == IF h = NoHead THEN k
               ELSE [k EXCEPT !.sync[h] = Cut(@, e), !.head[e] = NoHead]
    IN  EventReady([out EXCEPT !.wakeup[e] = k.status[e],
                               !.status[e] = READY,
                               !.delay = Tail(@),
                               !.remain[e] = 0], e)

TickEndNoSwitch(k) ==
    LET r == IF RRS_Slice # 0 /\ k.phase = 0 /\ HasPeer(k) THEN Rotate(k) ELSE k
    IN  [r EXCEPT !.inISR = FALSE]

TickEnd(k) ==
    LET r == IF RRS_Slice # 0 /\ k.phase = 0 /\ HasPeer(k) THEN Rotate(k) ELSE k
    IN  Schedule([r EXCEPT !.inISR = FALSE])

-----------------------------------------------------------------------------
(* What the queues promise each other.  live is the set of the ECBs in use. *)

Kernel == [ready : [Prio -> Seq(Event)], delay : Seq(Event),
           remain : [Event -> Int], status : [Event -> SUBSET Status],
           wakeup : [Event -> SUBSET Status], prio : [Event -> Prio],
           base : [Event -> Prio], sync : [SyncHead -> Seq(Event)],
           head : [Event -> SyncHead \cup {NoHead}], running : Event,
           phase : 0 .. RRS_Slice, lock : Nat, inISR : BOOLEAN]

NoDuplicates(k) ==
    /\ \A p \in Prio : IsInjective(k.ready[p])
    /\ \A h \in SyncHead : IsInjective(k.sync[h])
    /\ IsInjective(k.delay)

ReadyCoherent(k, live) ==
    \A p \in Prio : \A e \in Event :
        e \in ToSet(k.ready[p]) <=>
            e \in live /\ k.status[e] = READY /\ k.prio[e] = p

SyncCoherent(k, waits) ==
    \A e \in Event :
        /\ \A h \in SyncHead : e \in ToSet(k.sync[h]) <=> k.head[e] = h
        /\ k.head[e] # NoHead <=> k.status[e] \cap waits # {}

DelayCoherent(k) ==
    \A e \in Event : e \in ToSet(k.delay) <=>
                         k.status[e] \cap {"DELAY", "SYNC_TIMEOUT"} # {}

AlarmSorted(k) ==
    /\ \A i, j \in 1 .. Len(k.delay) :
           i < j => k.remain[k.delay[i]] <= k.remain[k.delay[j]]
    /\ ~k.inISR => \A e \in ToSet(k.delay) : k.remain[e] > 0

HighestRuns(k) ==
    k.lock = 0 /\ ~k.inISR => k.running = ReadyHead(k)

(* A booted kernel: every event ready, the highest priority one running.   *)
BootKernel(ready, prio) ==
    LET k == [ready  |-> ready,
              delay  |-> << >>,
              remain |-> [e \in Event |-> 0],
              status |-> [e \in Event |-> READY],
              wakeup |-> [e \in Event |-> {}],
              prio   |-> prio,
              base   |-> prio,
              sync   |-> [h \in SyncHead |-> << >>],
              head   |-> [e \in Event |-> NoHead],
              running |-> Idle,
              phase  |-> 0,
              lock   |-> 0,
              inISR  |-> FALSE]
    IN  Schedule(k)
=============================================================================
