------------------------------ MODULE MsgQueue ------------------------------
(***************************************************************************)
(* A message queue of msgqueue/msgqueue.c: a ring of message slots between *)
(* two counting semaphores.  The events interleave between the semaphore   *)
(* calls and the atomic section that moves a message, in any order: this   *)
(* includes what the scheduler and interrupt handlers can produce.         *)
(*                                                                         *)
(*  snd, rcv  MsgSendSemp and MsgRecvSemp, as CountingSemaphore            *)
(*  buf, used, read   buf, MsgUsed and ReadOffset                          *)
(*  at        where each event is in MsgQ_Send or MsgQ_Receive             *)
(*  msg, urgent   the message it sends, and its priority argument          *)
(*  received  the message in the buffer it gave to MsgQ_Receive            *)
(*  exists    the queue was created and not deleted                        *)
(***************************************************************************)
EXTENDS Integers, Sequences, FiniteSets

CONSTANTS Event, Msg, MaxMsgs,
          NoMsg    \* memory that holds no message

ASSUME MaxMsgsAssumption == MaxMsgs \in Nat \ {0}
ASSUME EventAssumption == IsFiniteSet(Event) /\ NoMsg \notin Msg

VARIABLES sndLamps, sndWaiting, sndPassing, rcvLamps, rcvWaiting, rcvPassing,
          buf, used, read, at, msg, urgent, received, exists

snd == << sndLamps, sndWaiting, sndPassing >>
rcv == << rcvLamps, rcvWaiting, rcvPassing >>
ring == << buf, used, read >>
call == << msg, urgent, received >>
vars == << snd, rcv, ring, at, call, exists >>

Snd == INSTANCE CountingSemaphore WITH
    limit <- MaxMsgs, lamps <- sndLamps, waiting <- sndWaiting, passing <- sndPassing
Rcv == INSTANCE CountingSemaphore WITH
    limit <- MaxMsgs, lamps <- rcvLamps, waiting <- rcvWaiting, passing <- rcvPassing

Slot == 0 .. MaxMsgs - 1

Step == {"out", "sndPend", "put", "rcvPost", "rcvPend", "get", "sndPost"}

Init ==
    /\ sndLamps = MaxMsgs /\ sndWaiting = {} /\ sndPassing = {}
    /\ rcvLamps = 0 /\ rcvWaiting = {} /\ rcvPassing = {}
    /\ used = 0 /\ read = 0
    /\ at = [e \in Event |-> "out"] /\ urgent = [e \in Event |-> FALSE]
    /\ buf = [i \in Slot |-> NoMsg]
    /\ msg = [e \in Event |-> NoMsg] /\ received = [e \in Event |-> NoMsg]
    /\ exists = TRUE

Go(e, step) == at' = [at EXCEPT ![e] = step]

-----------------------------------------------------------------------------
(* MsgQ_Send.                                                              *)

(* The pend finds a free slot or blocks.  One that finds none and may not  *)
(* block returns false and changes nothing.                                *)
SendPend(e, m, u) ==
    /\ exists /\ at[e] = "out"
    /\ \/ Snd!Take /\ Go(e, "put")
       \/ Snd!Wait(e) /\ Go(e, "sndPend")
    /\ msg' = [msg EXCEPT ![e] = m]
    /\ urgent' = [urgent EXCEPT ![e] = u]
    /\ UNCHANGED << rcv, ring, received, exists >>

(* The arguments of a send that is over.                                   *)
Forget(e) ==
    /\ msg' = [msg EXCEPT ![e] = NoMsg]
    /\ urgent' = [urgent EXCEPT ![e] = FALSE]

(* The blocked pend returns true, or false after its timeout.              *)
SendPendReturn(e) ==
    /\ \/ Snd!Return(e) /\ Go(e, "put") /\ UNCHANGED << msg, urgent >>
       \/ Snd!GiveUp(e) /\ Go(e, "out") /\ Forget(e)
    /\ UNCHANGED << rcv, ring, received, exists >>

WriteOffsetTooFar(e) ==
    IF urgent[e] THEN (IF read = 0 THEN MaxMsgs ELSE read - 1)
    ELSE IF used + read >= MaxMsgs THEN used + read - MaxMsgs ELSE used + read

WriteOffsetNoWrap(e) ==
    IF urgent[e] THEN (IF read = 0 THEN 0 ELSE read - 1)
    ELSE IF used + read >= MaxMsgs THEN used + read - MaxMsgs ELSE used + read

(* An urgent message is written before the first one, the others after the *)
(* last one.                                                               *)
WriteOffset(e) ==
    IF urgent[e] THEN (IF read = 0 THEN MaxMsgs - 1 ELSE read - 1)
    ELSE IF used + read >= MaxMsgs THEN used + read - MaxMsgs ELSE used + read

Put(e) ==
    /\ at[e] = "put"
    /\ used' = used + 1
    /\ read' = IF urgent[e] THEN WriteOffset(e) ELSE read
    /\ buf' = [buf EXCEPT ![WriteOffset(e)] = msg[e]]
    /\ Go(e, "rcvPost")
    /\ Forget(e)
    /\ UNCHANGED << snd, rcv, received, exists >>

SendPostNothing(e) ==
    /\ at[e] = "rcvPost"
    /\ Go(e, "out")
    /\ UNCHANGED << snd, rcv, ring, call, exists >>

SendPost(e) ==
    /\ at[e] = "rcvPost"
    /\ Rcv!Post
    /\ Go(e, "out")
    /\ UNCHANGED << snd, ring, call, exists >>

-----------------------------------------------------------------------------
(* MsgQ_Receive.                                                           *)

ReceivePend(e) ==
    /\ exists /\ at[e] = "out"
    /\ \/ Rcv!Take /\ Go(e, "get")
       \/ Rcv!Wait(e) /\ Go(e, "rcvPend")
    /\ UNCHANGED << snd, ring, call, exists >>

ReceivePendReturn(e) ==
    /\ \/ Rcv!Return(e) /\ Go(e, "get")
       \/ Rcv!GiveUp(e) /\ Go(e, "out")
    /\ UNCHANGED << snd, ring, call, exists >>

Get(e) ==
    /\ at[e] = "get"
    /\ received' = [received EXCEPT ![e] = buf[read]]
    /\ used' = used - 1
    /\ read' = IF read >= MaxMsgs - 1 THEN 0 ELSE read + 1
    /\ Go(e, "sndPost")
    /\ UNCHANGED << snd, rcv, buf, msg, urgent, exists >>

ReceivePostEarly(e) ==
    /\ at[e] = "get"
    /\ Snd!Post
    /\ Go(e, "out")
    /\ UNCHANGED << rcv, ring, call, exists >>

ReceivePostNothing(e) ==
    /\ at[e] = "sndPost"
    /\ Go(e, "out")
    /\ UNCHANGED << snd, rcv, ring, call, exists >>

(* MsgQ_Receive returns and the caller consumes the message.               *)
ReceivePost(e) ==
    /\ at[e] = "sndPost"
    /\ Snd!Post
    /\ Go(e, "out")
    /\ received' = [received EXCEPT ![e] = NoMsg]
    /\ UNCHANGED << rcv, ring, msg, urgent, exists >>

-----------------------------------------------------------------------------
(* Refused while an event is blocked.  That nobody is past the semaphores  *)
(* either is left to the callers.                                          *)
MsgQ_Delete ==
    /\ exists
    /\ sndWaiting = {} /\ rcvWaiting = {}
    /\ \A e \in Event : at[e] = "out"
    /\ exists' = FALSE
    /\ UNCHANGED << snd, rcv, ring, at, call >>

MsgQ_Create ==
    /\ ~exists
    /\ sndLamps' = MaxMsgs /\ rcvLamps' = 0
    /\ used' = 0 /\ read' = 0
    /\ exists' = TRUE
    /\ UNCHANGED << sndWaiting, sndPassing, rcvWaiting, rcvPassing, buf, at, call >>

MsgQ_Send(e) ==
    \/ \E m \in Msg : \E u \in BOOLEAN : SendPend(e, m, u)
    \/ SendPendReturn(e) \/ Put(e) \/ SendPost(e)

MsgQ_Receive(e) ==
    ReceivePend(e) \/ ReceivePendReturn(e) \/ Get(e) \/ ReceivePost(e)

Next ==
    \/ \E e \in Event : MsgQ_Send(e) \/ MsgQ_Receive(e)
    \/ MsgQ_Delete
    \/ MsgQ_Create

Spec == Init /\ [][Next]_vars

-----------------------------------------------------------------------------
At(step) == {e \in Event : at[e] = step}

(* The types, and that an event inside a pend either waits or was given a  *)
(* lamp.                                                                   *)
TypeOK ==
    /\ sndLamps \in 0 .. MaxMsgs /\ rcvLamps \in 0 .. MaxMsgs
    /\ sndWaiting \cup sndPassing = At("sndPend") /\ sndWaiting \cap sndPassing = {}
    /\ rcvWaiting \cup rcvPassing = At("rcvPend") /\ rcvWaiting \cap rcvPassing = {}
    /\ buf \in [Slot -> Msg \cup {NoMsg}] /\ used \in 0 .. MaxMsgs /\ read \in Slot
    /\ at \in [Event -> Step]
    /\ msg \in [Event -> Msg \cup {NoMsg}] /\ urgent \in [Event -> BOOLEAN]
    /\ received \in [Event -> Msg \cup {NoMsg}]
    /\ exists \in BOOLEAN

(* The semaphores and the ring agree, in whatever order senders and        *)
(* receivers go from one to the other: every message is claimed by a lamp, *)
(* a hand-over, or an event about to take or to announce it, and no two    *)
(* claim the same; so is every free slot.                                  *)
Claimed ==
    /\ used = rcvLamps + Cardinality(rcvPassing)
              + Cardinality(At("get")) + Cardinality(At("rcvPost"))
    /\ MaxMsgs - used = sndLamps + Cardinality(sndPassing)
              + Cardinality(At("put")) + Cardinality(At("sndPost"))

Messages == [i \in 1 .. used |-> buf[(read + i - 1) % MaxMsgs]]

Buffer == INSTANCE MsgBuffer WITH q <- IF exists THEN Messages ELSE << >>

(* The slots, offsets and semaphores implement a bounded sequence: no      *)
(* message is overwritten, lost, received twice or overtaken by another    *)
(* that is not urgent, when several senders and receivers are between      *)
(* their pend and their post.                                              *)
ImplementsBuffer == Buffer!Spec

(* An event that is inside a call goes on, once it is not blocked.         *)
FairSpec ==
    /\ Spec
    /\ \A e \in Event :
          /\ WF_vars(Put(e)) /\ WF_vars(SendPost(e))
          /\ WF_vars(Get(e)) /\ WF_vars(ReceivePost(e))
          /\ WF_vars(Rcv!Return(e) /\ ReceivePendReturn(e))
          /\ WF_vars(Snd!Return(e) /\ SendPendReturn(e))

(* While a receiver waits no message stays in the queue for ever.          *)
MessagesReceived ==
    used > 0 /\ rcvWaiting # {} ~> rcvWaiting = {} \/ At("sndPost") # {}

(* While a sender waits no free slot stays unused for ever.                *)
SlotsFilled ==
    used < MaxMsgs /\ sndWaiting # {} ~> sndWaiting = {} \/ At("rcvPost") # {}
=============================================================================
