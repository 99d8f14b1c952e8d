----------------------------- MODULE QueueSpec -----------------------------
(***************************************************************************)
(* The kernel's queues on their own: the calls of KernelCalls, and an      *)
(* object that events block on and that is posted.  EventRings shows that  *)
(* the linked lists of core/djyos.c implement it.                          *)
(***************************************************************************)
EXTENDS KernelCalls

InApplication == ~knl.inISR /\ Running # Idle

Pend(h, order, us) ==
    /\ InApplication
    /\ QuerySch(knl) /\ us # 0
    /\ knl' = RestoreAsynSignal(AddRunningToBlock(knl, h, order, us, {"SEMP"}))

Post(h) ==
    /\ ~knl.inISR
    /\ knl.sync[h] # << >>
    /\ knl' = LET e == Head(knl.sync[h])
              IN  RestoreAsynSignal(EventReady(WakeFirst(knl, h, {"SEMP"}), e))

Next ==
    \/ InApplication /\ KernelCall
    \/ Tick
    \/ \E h \in SyncHead : \/ Post(h)
                           \/ \E order \in {"FIFO", "PRIO"}, us \in Timeouts :
                                 Pend(h, order, us)

Spec == Boot /\ [][Next]_knl
=============================================================================
