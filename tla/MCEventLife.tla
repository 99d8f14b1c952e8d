---------------------------- MODULE MCEventLife ----------------------------
(* EventLife on a small instance: see MCEventLife.cfg for the bounds.      *)
EXTENDS EventLife

CONSTANTS idle, e1, e2, e3, t1, t2

MCSyncHead == LifeHeads
MCDefaultPrio == (t1 :> 1) @@ (t2 :> 2)
MCBaseTimes == {-1, 0, 1, 2}

Symmetry == Permutations(Event \ {Idle})

(* States that differ only in what no later step reads are one: why an     *)
(* event was woken, counters and priorities out of use, the fields of a    *)
(* type that is not registered, and the pops so far, of which only their   *)
(* distance to what is waited for matters.                                 *)
View ==
    LET k == knl
        type(t) == IF ~k.evtt[t].registered THEN NewType(0)
                   ELSE [k.evtt[t] EXCEPT !.popTimes = 0,
                           !.correlativeID = IF t \in Correlative /\ k.evtt[t].inuse
                                             THEN @ ELSE NoEvtt]
        wait(e) == IF frame[e] = NoFrame THEN 0
                   ELSE IF k.head[e] = NoHead THEN 1
                   ELSE LET h == k.head[e] IN
                        << h, k.counter[e],
                           IF h[1] = "pop"
                           THEN (frame[e].goal - k.evtt[h[2]].popTimes) % POP_WRAP
                           ELSE 0 >>
    IN  << k.ready, k.delay, k.remain, k.status, k.sync, k.running, k.lock,
           k.inISR, k.masked, k.stacks, k.waitFree, k.free, k.kind, k.vm,
           [e \in Event |-> IF k.kind[e] = NoEvtt THEN 0 ELSE k.prio[e]],
           [t \in Evtt |-> type(t)], [e \in Event |-> wait(e)] >>
=============================================================================
