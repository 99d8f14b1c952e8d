------------------------- MODULE MsgQueueRefinement -------------------------
(***************************************************************************)
(* The ring of slots between two semaphores implements the bounded         *)
(* sequence of MsgBuffer, for every number of slots and set of events.     *)
(***************************************************************************)
EXTENDS MsgQueueProofs, SequenceTheorems

(* A sender that waits for a slot or has one holds a message.              *)
Sending == \A e \in Event : at[e] \in {"sndPend", "put"} => msg[e] \in Msg

Content == Msg \cup {NoMsg}

(* The place of the i-th message of a ring read from r, without modulus.   *)
Place(r, i) == IF r + i - 1 < MaxMsgs THEN r + i - 1 ELSE r + i - 1 - MaxMsgs

(* The u messages of a ring b read from r.                                 *)
Unrolled(b, r, u) == [i \in 1 .. u |-> b[(r + i - 1) % MaxMsgs]]

-----------------------------------------------------------------------------
(* An offset that is less than a turn past the end of the ring wraps by    *)
(* one subtraction, as MsgQ_Send and MsgQ_Receive compute it.              *)
LEMMA Wrap ==
    ASSUME NEW N \in Nat \ {0}, NEW x \in Nat, x < N + N
    PROVE  x % N = IF x < N THEN x ELSE x - N
<1>1. CASE x < N
  BY <1>1
<1>2. CASE x >= N
  BY <1>2
<1>3. QED
  BY <1>1, <1>2

(* The messages of a ring, as a sequence.                                  *)
LEMMA UnrolledSeq ==
    ASSUME NEW b \in [Slot -> Content], NEW r \in Slot, NEW u \in 0 .. MaxMsgs
    PROVE  /\ Unrolled(b, r, u) \in Seq(Content)
           /\ Len(Unrolled(b, r, u)) = u
           /\ \A i \in 1 .. u : /\ Place(r, i) \in Slot
                                /\ Unrolled(b, r, u)[i] = b[Place(r, i)]
<1> USE MaxMsgsAssumption
<1>1. ASSUME NEW i \in 1 .. u
      PROVE  (r + i - 1) % MaxMsgs = Place(r, i) /\ Place(r, i) \in Slot
  <2> DEFINE x == r + i - 1
  <2>1. x \in Nat /\ x < MaxMsgs + MaxMsgs
    BY DEF Slot
  <2>2. x % MaxMsgs = IF x < MaxMsgs THEN x ELSE x - MaxMsgs
    <3> HIDE DEF x
    <3> QED
      BY <2>1, Wrap
  <2>3. QED
    BY <2>1, <2>2 DEF Place, Slot
<1>2. Unrolled(b, r, u) \in [1 .. u -> Content]
  BY <1>1 DEF Unrolled
<1>3. Unrolled(b, r, u) \in Seq(Content) /\ Len(Unrolled(b, r, u)) = u
  BY <1>2
<1>4. QED
  BY <1>1, <1>3 DEF Unrolled

(* A normal message is written behind the others.                          *)
LEMMA WriteAppends ==
    ASSUME NEW b \in [Slot -> Content], NEW r \in Slot, NEW u \in 0 .. MaxMsgs - 1,
           NEW m \in Content
    PROVE  Unrolled([b EXCEPT ![Place(r, u + 1)] = m], r, u + 1)
               = Append(Unrolled(b, r, u), m)
<1> USE MaxMsgsAssumption
<1> DEFINE w == Place(r, u + 1)
           c == [b EXCEPT ![w] = m]
           s == Unrolled(b, r, u)
           t == Unrolled(c, r, u + 1)
<1>1. w \in Slot /\ \A i \in 1 .. u : Place(r, i) # w
  BY DEF Place, Slot
<1>2. c \in [Slot -> Content] /\ u + 1 \in 0 .. MaxMsgs
  <2>1. c \in [Slot -> Content]
    OBVIOUS
  <2>2. u + 1 \in 0 .. MaxMsgs
    OBVIOUS
  <2>3. QED
    BY <2>1, <2>2
<1>3. /\ s \in Seq(Content) /\ Len(s) = u
      /\ \A i \in 1 .. u : Place(r, i) \in Slot /\ s[i] = b[Place(r, i)]
  BY UnrolledSeq
<1>4. /\ t \in Seq(Content) /\ Len(t) = u + 1
      /\ \A i \in 1 .. u + 1 : Place(r, i) \in Slot /\ t[i] = c[Place(r, i)]
  <2> HIDE DEF c
  <2> QED
    BY <1>2, UnrolledSeq
<1> HIDE DEF s, t
<1>5. \A i \in 1 .. u + 1 : t[i] = Append(s, m)[i]
  BY <1>1, <1>3, <1>4
<1>6. t = Append(s, m)
  BY <1>3, <1>4, <1>5, SeqEqual
<1>7. QED
  BY <1>6 DEF s, t

(* The place MsgQ_Send writes an urgent message to: before the first one.  *)
Before(r) == IF r = 0 THEN MaxMsgs - 1 ELSE r - 1

(* An urgent message is written before the others.                         *)
LEMMA WritePrepends ==
    ASSUME NEW b \in [Slot -> Content], NEW r \in Slot, NEW u \in 0 .. MaxMsgs - 1,
           NEW m \in Content
    PROVE  Unrolled([b EXCEPT ![Before(r)] = m], Before(r), u + 1)
               = << m >> \o Unrolled(b, r, u)
<1> USE MaxMsgsAssumption
<1> DEFINE w == Before(r)
           c == [b EXCEPT ![w] = m]
           s == Unrolled(b, r, u)
           t == Unrolled(c, w, u + 1)
<1>1. /\ w \in Slot /\ Place(w, 1) = w
      /\ \A i \in 1 .. u : Place(r, i) # w /\ Place(w, i + 1) = Place(r, i)
  BY DEF Place, Slot, Before
<1>2. c \in [Slot -> Content] /\ u + 1 \in 0 .. MaxMsgs
  <2>1. c \in [Slot -> Content]
    OBVIOUS
  <2>2. u + 1 \in 0 .. MaxMsgs
    OBVIOUS
  <2>3. QED
    BY <2>1, <2>2
<1>3. /\ s \in Seq(Content) /\ Len(s) = u
      /\ \A i \in 1 .. u : Place(r, i) \in Slot /\ s[i] = b[Place(r, i)]
  BY UnrolledSeq
<1>4. /\ t \in Seq(Content) /\ Len(t) = u + 1
      /\ \A i \in 1 .. u + 1 : Place(w, i) \in Slot /\ t[i] = c[Place(w, i)]
  <2> HIDE DEF c, w
  <2> QED
    BY <1>1, <1>2, UnrolledSeq
<1> HIDE DEF w, s, t
<1>5. t[1] = m
  BY <1>1, <1>4
<1>6. \A i \in 1 .. u : t[i + 1] = s[i]
  BY <1>1, <1>3, <1>4
<1>7. << m >> \o s \in Seq(Content) /\ Len(<< m >> \o s) = u + 1
  BY <1>3
<1>8. \A i \in 1 .. u + 1 : t[i] = (<< m >> \o s)[i]
  BY <1>3, <1>5, <1>6
<1>9. t = << m >> \o s
  BY <1>4, <1>7, <1>8, SeqEqual
<1>10. QED
  BY <1>9 DEF s, t, w

(* Reading takes the first message.                                        *)
LEMMA ReadTakesFirst ==
    ASSUME NEW b \in [Slot -> Content], NEW r \in Slot, NEW u \in 1 .. MaxMsgs
    PROVE  LET n == IF r >= MaxMsgs - 1 THEN 0 ELSE r + 1
           IN  /\ Unrolled(b, r, u) # << >>
               /\ Head(Unrolled(b, r, u)) = b[r]
               /\ Unrolled(b, n, u - 1) = Tail(Unrolled(b, r, u))
<1> USE MaxMsgsAssumption
<1> DEFINE n == IF r >= MaxMsgs - 1 THEN 0 ELSE r + 1
           s == Unrolled(b, r, u)
           t == Unrolled(b, n, u - 1)
<1>1. /\ n \in Slot /\ u - 1 \in 0 .. MaxMsgs /\ Place(r, 1) = r
      /\ \A i \in 1 .. u - 1 : Place(n, i) = Place(r, i + 1)
  BY DEF Place, Slot
<1>2. /\ s \in Seq(Content) /\ Len(s) = u
      /\ \A i \in 1 .. u : Place(r, i) \in Slot /\ s[i] = b[Place(r, i)]
  BY UnrolledSeq
<1>3. /\ t \in Seq(Content) /\ Len(t) = u - 1
      /\ \A i \in 1 .. u - 1 : Place(n, i) \in Slot /\ t[i] = b[Place(n, i)]
  <2> HIDE DEF n
  <2> QED
    BY <1>1, UnrolledSeq
<1> HIDE DEF n, s, t
<1>4. s # << >> /\ Head(s) = b[r]
  BY <1>1, <1>2
<1>5. Tail(s) \in Seq(Content) /\ Len(Tail(s)) = u - 1
  BY <1>2
<1>6. \A i \in 1 .. u - 1 : t[i] = Tail(s)[i]
  BY <1>1, <1>2, <1>3
<1>7. t = Tail(s)
  BY <1>3, <1>5, <1>6, SeqEqual
<1>8. QED
  BY <1>4, <1>7 DEF s, t, n

-----------------------------------------------------------------------------
(* A sender in MsgQ_Send holds its message until it is in the ring.        *)
LEMMA SendingKept == IInv /\ Sending /\ [Next]_vars => Sending'
<1> SUFFICES ASSUME IInv, Sending, [Next]_vars PROVE Sending'
  OBVIOUS
<1> USE DEF IInv, TypeOK, Sending
<1>1. ASSUME NEW e \in Event, NEW m \in Msg, NEW u \in BOOLEAN, SendPend(e, m, u)
      PROVE  Sending'
  BY <1>1 DEF SendPend, Go
<1>2. ASSUME NEW e \in Event, SendPendReturn(e) PROVE Sending'
  <2>1. CASE Snd!Return(e) /\ Go(e, "put") /\ UNCHANGED << msg, urgent >>
    BY <2>1 DEF Go, Snd!Return, At
  <2>2. CASE Snd!GiveUp(e) /\ Go(e, "out") /\ Forget(e)
    BY <2>2 DEF Go, Forget
  <2>3. QED
    BY <1>2, <2>1, <2>2 DEF SendPendReturn
<1>3. ASSUME NEW e \in Event, Put(e) PROVE Sending'
  BY <1>3 DEF Put, Go, Forget
<1>4. ASSUME NEW e \in Event, SendPost(e) PROVE Sending'
  BY <1>4 DEF SendPost, Go, call
<1>5. ASSUME NEW e \in Event, MsgQ_Receive(e) PROVE Sending'
  BY <1>5 DEF MsgQ_Receive, ReceivePend, ReceivePendReturn, Get, ReceivePost, Go, call
<1>6. ASSUME MsgQ_Delete \/ MsgQ_Create \/ UNCHANGED vars PROVE Sending'
  BY <1>6 DEF MsgQ_Delete, MsgQ_Create, vars, call
<1>7. QED
  BY <1>1, <1>2, <1>3, <1>4, <1>5, <1>6 DEF Next, MsgQ_Send

(* Moving a message in the atomic section of MsgQ_Send or MsgQ_Receive is  *)
(* a step of the bounded sequence, and nothing else touches it.            *)
LEMMA StepRefines ==
    IInv /\ Sending /\ [Next]_vars => [Buffer!Next]_Buffer!vars
<1> SUFFICES ASSUME IInv, Sending, [Next]_vars PROVE [Buffer!Next]_Buffer!vars
  OBVIOUS
<1> USE MaxMsgsAssumption
<1>0. /\ Messages = Unrolled(buf, read, used)
      /\ Messages' = Unrolled(buf', read', used')
      /\ buf \in [Slot -> Content] /\ read \in Slot /\ used \in 0 .. MaxMsgs
      /\ Messages \in Seq(Content) /\ Len(Messages) = used
  <2>1. buf \in [Slot -> Content] /\ read \in Slot /\ used \in 0 .. MaxMsgs
    BY DEF IInv, TypeOK, Content
  <2>2. Messages = Unrolled(buf, read, used) /\ Messages' = Unrolled(buf', read', used')
    BY DEF Messages, Unrolled
  <2>3. QED
    BY <2>1, <2>2, UnrolledSeq
<1>1. ASSUME UNCHANGED << ring, received, exists >> PROVE UNCHANGED Buffer!vars
  BY <1>1 DEF ring, Buffer!vars, Messages
<1>2. ASSUME NEW e \in Event, Put(e) PROVE Buffer!Next
  <2>1. exists /\ exists' /\ msg[e] \in Msg /\ received' = received
    BY <1>2 DEF IInv, Unused, Sending, Put
  <2>2. used \in 0 .. MaxMsgs - 1
    <3>1. Cardinality(At("put")) \in Nat \ {0}
      <4>1. At("put") \in SUBSET Event /\ e \in At("put")
        BY <1>2 DEF Put, At
      <4>2. QED
        BY <4>1, CountType, FS_EmptySet
    <3>2. QED
      BY <3>1, Counts DEF IInv, TypeOK, Claimed, Step
  <2>3. CASE ~urgent[e]
    <3>1. WriteOffset(e) = Place(read, used + 1)
      BY <1>0, <2>3 DEF WriteOffset, Place, Slot
    <3>2. Messages' = Append(Messages, msg[e])
      <4>1. /\ used' = used + 1 /\ read' = read
            /\ buf' = [buf EXCEPT ![Place(read, used + 1)] = msg[e]]
        BY <1>2, <2>3, <3>1 DEF Put
      <4>2. msg[e] \in Content
        BY <2>1 DEF Content
      <4>3. QED
        BY <1>0, <2>2, <4>1, <4>2, WriteAppends
    <3>3. Buffer!Send(msg[e])
      BY <1>0, <2>1, <2>2, <3>2 DEF Buffer!Send
    <3>4. QED
      BY <2>1, <3>3 DEF Buffer!Next
  <2>4. CASE urgent[e]
    <3>1. WriteOffset(e) = Before(read)
      BY <2>4 DEF WriteOffset, Before
    <3>2. Messages' = << msg[e] >> \o Messages
      <4>1. /\ used' = used + 1 /\ read' = Before(read)
            /\ buf' = [buf EXCEPT ![Before(read)] = msg[e]]
        BY <1>2, <2>4, <3>1 DEF Put
      <4>2. msg[e] \in Content
        BY <2>1 DEF Content
      <4>3. QED
        BY <1>0, <2>2, <4>1, <4>2, WritePrepends
    <3>3. Buffer!SendUrgent(msg[e])
      BY <1>0, <2>1, <2>2, <3>2 DEF Buffer!SendUrgent
    <3>4. QED
      BY <2>1, <3>3 DEF Buffer!Next
  <2>5. QED
    BY <2>3, <2>4
<1>3. ASSUME NEW e \in Event, Get(e) PROVE Buffer!Next
  <2>1. exists /\ exists'
    BY <1>3 DEF IInv, Unused, Get
  <2>2. used \in 1 .. MaxMsgs
    <3>1. Cardinality(At("get")) \in Nat \ {0}
      <4>1. At("get") \in SUBSET Event /\ e \in At("get")
        BY <1>3 DEF Get, At
      <4>2. QED
        BY <4>1, CountType, FS_EmptySet
    <3>2. QED
      BY <3>1, Counts DEF IInv, TypeOK, Claimed, Step
  <2>3. /\ Messages # << >> /\ Head(Messages) = buf[read]
        /\ Messages' = Tail(Messages)
    BY <1>0, <1>3, <2>2, ReadTakesFirst DEF Get
  <2>4. Buffer!Receive(e)
    BY <1>3, <2>1, <2>3 DEF Get, Buffer!Receive
  <2>5. QED
    BY <2>4 DEF Buffer!Next
<1>4. ASSUME NEW e \in Event, ReceivePost(e) PROVE Buffer!Next
  <2>1. Messages' = Messages
    BY <1>4 DEF ReceivePost, ring, Messages
  <2>2. Buffer!Consume(e)
    BY <1>4, <2>1 DEF ReceivePost, Buffer!Consume
  <2>3. QED
    BY <2>2 DEF Buffer!Next
<1>5. ASSUME MsgQ_Delete PROVE Buffer!Next
  BY <1>5 DEF MsgQ_Delete, Buffer!Next, Buffer!Delete, call
<1>6. ASSUME MsgQ_Create PROVE Buffer!Next
  <2>1. Messages' = << >>
    BY <1>6 DEF MsgQ_Create, Messages
  <2>2. QED
    BY <1>6, <2>1 DEF MsgQ_Create, Buffer!Next, Buffer!Delete, call
<1>7. ASSUME NEW e \in Event,
             \/ \E m \in Msg, u \in BOOLEAN : SendPend(e, m, u)
             \/ SendPendReturn(e) \/ SendPost(e)
             \/ ReceivePend(e) \/ ReceivePendReturn(e)
      PROVE  UNCHANGED << ring, received, exists >>
  BY <1>7 DEF SendPend, SendPendReturn, SendPost, ReceivePend, ReceivePendReturn, call
<1>8. CASE UNCHANGED vars
  BY <1>1, <1>8 DEF vars, call
<1>9. QED
  BY <1>1, <1>2, <1>3, <1>4, <1>5, <1>6, <1>7, <1>8
     DEF Next, MsgQ_Send, MsgQ_Receive

(* No message is overwritten, lost, received twice, or overtaken by one    *)
(* that is not urgent, whatever the number of slots, senders and           *)
(* receivers, and wherever they are preempted in MsgQ_Send and             *)
(* MsgQ_Receive.                                                           *)
THEOREM QueueRefinesBuffer == Spec => ImplementsBuffer
<1>1. Init => Sending
  BY DEF Init, Sending
<1>2. Init => Buffer!Init
  <2>1. Init => Messages = << >>
    BY DEF Init, Messages
  <2>2. QED
    BY <2>1 DEF Init, Buffer!Init
<1>3. QED
  BY <1>1, <1>2, InitInvariant, NextKeeps, SendingKept, StepRefines, PTL
     DEF Spec, ImplementsBuffer, Buffer!Spec
=============================================================================
