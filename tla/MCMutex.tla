------------------------------ MODULE MCMutex ------------------------------
(* Mutex on small instances: see the .cfg files for the bounds.            *)
EXTENDS Mutex

CONSTANTS idle, e1, e2, e3, m1

MCReady == << << e1 >>, << e2 >>, << e3 >>, << idle >> >>
MCPrio == (idle :> 4) @@ (e1 :> 1) @@ (e2 :> 2) @@ (e3 :> 3)
=============================================================================
