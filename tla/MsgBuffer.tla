----------------------------- MODULE MsgBuffer -----------------------------
(***************************************************************************)
(* What a message queue promises: a bounded sequence of messages.  A       *)
(* normal message goes to its end, an urgent one to its front, and every   *)
(* message is received once, by the one receiver that took it.             *)
(***************************************************************************)
EXTENDS Integers, Sequences

CONSTANTS Event, Msg, MaxMsgs, NoMsg

VARIABLES q, received

vars == << q, received >>

Init ==
    /\ q = << >>
    /\ received = [e \in Event |-> NoMsg]

Send(m) ==
    /\ Len(q) < MaxMsgs
    /\ q' = Append(q, m)
    /\ received' = received

SendUrgent(m) ==
    /\ Len(q) < MaxMsgs
    /\ q' = << m >> \o q
    /\ received' = received

Receive(e) ==
    /\ q # << >>
    /\ received' = [received EXCEPT ![e] = Head(q)]
    /\ q' = Tail(q)

Consume(e) ==
    /\ received' = [received EXCEPT ![e] = NoMsg]
    /\ q' = q

Delete == q' = << >> /\ received' = received

Next ==
    \/ \E m \in Msg : Send(m) \/ SendUrgent(m)
    \/ \E e \in Event : Receive(e) \/ Consume(e)
    \/ Delete

Spec == Init /\ [][Next]_vars
=============================================================================
