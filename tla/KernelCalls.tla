---------------------------- MODULE KernelCalls ----------------------------
(***************************************************************************)
(* The system calls of core/djyos.c and int/int.c that only touch the      *)
(* kernel's queues, and the tick interrupt, as actions on one variable.    *)
(* The modules of the synchronisation objects extend this one and say when *)
(* the running event is in a position to make a call.                      *)
(***************************************************************************)
EXTENDS DjyKernel

CONSTANTS Delays,              \* the times given to delays, in us
          Timeouts,            \* the timeouts given to pends, in us
          TickIncs,            \* the inc_ticks of DJY_ScheduleIsr
          NewPrios,            \* the priorities given to DJY_SetEventPrio
          MaxLock,             \* bound on nested Int_SaveAsynSignal
          BootReady, BootPrio  \* the ready queue and the priorities at boot

ASSUME CallAssumption ==
    /\ Delays \subseteq Nat
    /\ Timeouts \subseteq Timeout
    /\ TickIncs \subseteq Nat \ {0}
    /\ NewPrios \subseteq Prio
    /\ MaxLock \in Nat

ASSUME BootAssumption ==
    /\ BootPrio \in [Event -> Prio]
    /\ BootReady \in [Prio -> Seq(Event)]
    /\ \A p \in Prio : /\ IsInjective(BootReady[p])
                       /\ ToSet(BootReady[p]) = {e \in Event : BootPrio[e] = p}

VARIABLE knl

Boot == knl = BootKernel(BootReady, BootPrio)

Running == knl.running

(* An asynchronous signal is served when it is not masked.                 *)
IsrAllowed == ~knl.inISR /\ knl.lock = 0

WokenStatusHasTimeout(e) == "SYNC_TIMEOUT" \in knl.status[e]

(* How a pend that was blocked tells a timeout from success.               *)
WokenByTimeout(e) == "SYNC_TIMEOUT" \in knl.wakeup[e]

-----------------------------------------------------------------------------
(* Calls of the running event.                                             *)

(* A delay of 0 gives way to the events of the same priority.  With the    *)
(* scheduler off the call busy-waits and changes nothing.                  *)
DJY_EventDelay(us) ==
    /\ QuerySch(knl)
    /\ knl' = RestoreAsynSignal(
                  IF us # 0 THEN DelayRunning(knl, Ticks(us))
                  ELSE IF HasPeer(knl) THEN Rotate(knl) ELSE knl)

(* The time is absolute; us is how far away it is.                         *)
DJY_EventDelayTo(us) ==
    /\ QuerySch(knl)
    /\ us # 0
    /\ knl' = RestoreAsynSignal(DelayRunning(knl, Ticks(us)))

DJY_SetEventPrio(e, p) ==
    /\ e # Idle /\ p < PRIO_SYS_SERVICE
    /\ StaysInPlace(knl, e, p)
    /\ knl' = RestoreAsynSignal(SetEventPrio(knl, e, p))

Int_SaveAsynSignal ==
    /\ knl.lock < MaxLock
    /\ knl' = [knl EXCEPT !.lock = @ + 1]

Int_RestoreAsynSignal ==
    /\ knl.lock > 0
    /\ knl' = RestoreAsynSignal([knl EXCEPT !.lock = @ - 1])

KernelCall ==
    \/ \E us \in Delays : DJY_EventDelay(us)
    \/ \E us \in Delays : DJY_EventDelayTo(us)
    \/ \E e \in Event : \E p \in NewPrios : DJY_SetEventPrio(e, p)
    \/ Int_SaveAsynSignal
    \/ Int_RestoreAsynSignal

-----------------------------------------------------------------------------
(* DJY_ScheduleIsr.                                                        *)

TickBegin(inc) == IsrAllowed /\ knl' = TickStart(knl, inc)

TickAlarm == knl.inISR /\ AlarmDue(knl) /\ knl' = TickWake(knl)

TickReturn == knl.inISR /\ ~AlarmDue(knl) /\ knl' = TickEnd(knl)

Tick ==
    \/ \E inc \in TickIncs : TickBegin(inc)
    \/ TickAlarm
    \/ TickReturn

-----------------------------------------------------------------------------
(* The alarm queue is sorted by expiry, although alarms are set, cancelled *)
(* by a post and served in any order, and no alarm that is due survives a  *)
(* tick interrupt.                                                         *)
AlarmOrder == AlarmSorted(knl)

(* Whenever scheduling is enabled the CPU runs the first event of the      *)
(* highest priority ready: no call, interrupt or round robin leaves a      *)
(* better event waiting.                                                   *)
HighestPriorityRuns == HighestRuns(knl)

(* Every sleep and every wait with a timeout ends.                         *)
TimeoutsEnd ==
    \A e \in Event : knl.remain[e] > 0 ~> knl.status[e] = READY
=============================================================================
