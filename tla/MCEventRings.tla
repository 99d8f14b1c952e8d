---------------------------- MODULE MCEventRings ----------------------------
(* EventRings on a small instance: see the .cfg files for the bounds.      *)
EXTENDS EventRings

CONSTANTS idle, e1, e2, e3

MCOrder == << e1, e2, e3, idle >>
MCReady == << << e1 >>, << e2, e3 >>, << idle >> >>
MCPrio == (idle :> 3) @@ (e1 :> 1) @@ (e2 :> 2) @@ (e3 :> 2)
=============================================================================
