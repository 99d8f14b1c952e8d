------------------------- MODULE CountingSemaphore -------------------------
(***************************************************************************)
(* What a semaphore of lock/lock.c promises its users.  Semaphore is shown *)
(* to implement it; MsgQueue is built from two of them.                    *)
(*                                                                         *)
(*  limit    the number of lamps, -1 if it is not limited                  *)
(*  lamps    the lamps lit, 0 if their number is not limited               *)
(*  waiting  the events blocked in Lock_SempPend                           *)
(*  passing  the events given a lamp by a post, until their pend returns   *)
(***************************************************************************)
EXTENDS Integers

CONSTANT Event

VARIABLES limit, lamps, waiting, passing

Init ==
    /\ limit = 0
    /\ lamps = 0
    /\ waiting = {}
    /\ passing = {}

Create ==
    /\ waiting = {} /\ passing = {}
    /\ \/ limit' \in Nat /\ lamps' \in 0 .. limit'
       \/ limit' = -1 /\ lamps' = 0
    /\ UNCHANGED << waiting, passing >>

Take ==
    /\ limit # -1 /\ lamps > 0
    /\ lamps' = lamps - 1
    /\ limit' = limit
    /\ UNCHANGED << waiting, passing >>

Wait(e) ==
    /\ limit # -1 /\ lamps = 0
    /\ e \notin waiting \cup passing
    /\ waiting' = waiting \cup {e}
    /\ limit' = limit
    /\ UNCHANGED << lamps, passing >>

(* A lamp is given to an event that waits, else lit.                       *)
Post ==
    /\ limit # -1
    /\ \/ /\ waiting = {}
          /\ lamps' = IF lamps < limit THEN lamps + 1 ELSE lamps
          /\ UNCHANGED << waiting, passing >>
       \/ \E e \in waiting :
             /\ waiting' = waiting \ {e}
             /\ passing' = passing \cup {e}
             /\ lamps' = lamps
    /\ limit' = limit

(* The pend times out, or it returns with the lamp it was given.           *)
GiveUp(e) ==
    /\ e \in waiting
    /\ waiting' = waiting \ {e}
    /\ limit' = limit
    /\ UNCHANGED << lamps, passing >>

Return(e) ==
    /\ e \in passing
    /\ passing' = passing \ {e}
    /\ limit' = limit
    /\ UNCHANGED << lamps, waiting >>

Expand ==
    /\ limit # -1 /\ waiting = {}
    /\ limit' \in Nat /\ limit' > limit
    /\ lamps' = lamps + limit' - limit
    /\ UNCHANGED << waiting, passing >>

Next ==
    \/ Create \/ Take \/ Post \/ Expand
    \/ \E e \in Event : Wait(e) \/ GiveUp(e) \/ Return(e)

Step == [Next]_<< limit, lamps, waiting, passing >>

Spec == Init /\ [][Step]_<< limit, lamps, waiting, passing >>
=============================================================================
