---------------------------- MODULE MCSemaphore ----------------------------
(* Semaphore on small instances: see the .cfg files for the bounds.        *)
EXTENDS Semaphore

CONSTANTS idle, e1, e2, e3, s1

MCLimits == {-1, 1, 2}
MCInits == {-1, 0, 2}

MCReady == << << e1 >>, << e2 >>, << idle >> >>
MCPrio == (idle :> 3) @@ (e1 :> 1) @@ (e2 :> 2)

MCReady3 == << << e1 >>, << e2, e3 >>, << idle >> >>
MCPrio3 == (idle :> 3) @@ (e1 :> 1) @@ (e2 :> 2) @@ (e3 :> 2)
=============================================================================
