--------------------------- MODULE MsgQueueProofs ---------------------------
(***************************************************************************)
(* The semaphores of a message queue agree with its ring, for every number *)
(* of slots and every finite set of events.                                *)
(***************************************************************************)
EXTENDS MsgQueue, FiniteSetTheorems, TLAPS

(* Nobody is inside a call on a queue that was deleted.                    *)
Unused == exists \/ \A e \in Event : at[e] = "out"

IInv == TypeOK /\ Claimed /\ Unused

-----------------------------------------------------------------------------
(* The number of events at each step is a natural number.                  *)
LEMMA CountType ==
    ASSUME NEW S \in SUBSET Event
    PROVE  IsFiniteSet(S) /\ Cardinality(S) \in Nat
BY EventAssumption, FS_Subset, FS_CardinalityType

(* Counting a set of events that an event joins or leaves.                 *)
LEMMA CountJoin ==
    ASSUME NEW S \in SUBSET Event, NEW e \in Event, e \notin S
    PROVE  Cardinality(S \cup {e}) = Cardinality(S) + 1
BY CountType, FS_AddElement

LEMMA CountLeave ==
    ASSUME NEW S \in SUBSET Event, NEW e \in S
    PROVE  Cardinality(S \ {e}) = Cardinality(S) - 1
BY CountType, FS_RemoveElement

(* An event that goes from step s of a call to step t leaves the events at *)
(* s and joins those at t, and nobody else moves.                          *)
LEMMA GoMoves ==
    ASSUME at \in [Event -> Step], NEW e \in Event, NEW s \in Step, NEW t \in Step,
           at[e] = s, s # t, Go(e, t)
    PROVE  /\ at' \in [Event -> Step]
           /\ At(t)' = At(t) \cup {e} /\ e \notin At(t)
           /\ At(s)' = At(s) \ {e} /\ e \in At(s)
           /\ \A u : u # t /\ u # s => At(u)' = At(u)
BY DEF Go, At

(* The same in numbers.                                                    *)
LEMMA GoCounts ==
    ASSUME at \in [Event -> Step], NEW e \in Event, NEW s \in Step, NEW t \in Step,
           at[e] = s, s # t, Go(e, t)
    PROVE  /\ Cardinality(At(t))' = Cardinality(At(t)) + 1
           /\ Cardinality(At(s))' = Cardinality(At(s)) - 1
           /\ \A u : u # t /\ u # s => Cardinality(At(u))' = Cardinality(At(u))
<1>1. \A u : At(u) \in SUBSET Event
  BY DEF At
<1>2. /\ At(t)' = At(t) \cup {e} /\ e \notin At(t)
      /\ At(s)' = At(s) \ {e} /\ e \in At(s)
      /\ \A u : u # t /\ u # s => At(u)' = At(u)
  BY GoMoves
<1>3. QED
  BY <1>1, <1>2, CountJoin, CountLeave

(* The counts of the invariant are natural numbers.                        *)
LEMMA Counts ==
    ASSUME TypeOK
    PROVE  /\ \A s \in Step : Cardinality(At(s)) \in Nat
           /\ Cardinality(sndPassing) \in Nat /\ Cardinality(rcvPassing) \in Nat
           /\ sndPassing \in SUBSET Event /\ rcvPassing \in SUBSET Event
           /\ sndWaiting \in SUBSET Event /\ rcvWaiting \in SUBSET Event
<1>1. \A s \in Step : At(s) \in SUBSET Event
  BY DEF At
<1>2. /\ sndPassing \in SUBSET Event /\ rcvPassing \in SUBSET Event
      /\ sndWaiting \in SUBSET Event /\ rcvWaiting \in SUBSET Event
  BY DEF TypeOK, At
<1>3. QED
  BY <1>1, <1>2, CountType

(* The arguments of a call keep their types.                               *)
LEMMA ArgumentTypes ==
    ASSUME TypeOK, NEW e \in Event, NEW m \in Msg \cup {NoMsg}, NEW u \in BOOLEAN,
           msg' = [msg EXCEPT ![e] = m], urgent' = [urgent EXCEPT ![e] = u]
    PROVE  msg' \in [Event -> Msg \cup {NoMsg}] /\ urgent' \in [Event -> BOOLEAN]
<1>1. msg' \in [Event -> Msg \cup {NoMsg}]
  BY DEF TypeOK
<1>2. urgent' \in [Event -> BOOLEAN]
  BY Zenon DEF TypeOK
<1>3. QED
  BY <1>1, <1>2

-----------------------------------------------------------------------------
(* Every step of MsgQ_Send keeps the invariant.                            *)
LEMMA SendKeeps ==
    ASSUME IInv, NEW e \in Event, MsgQ_Send(e)
    PROVE  IInv'
<1> USE MaxMsgsAssumption
<1>c. /\ \A s \in Step : Cardinality(At(s)) \in Nat
      /\ Cardinality(sndPassing) \in Nat /\ Cardinality(rcvPassing) \in Nat
      /\ sndPassing \in SUBSET Event /\ rcvPassing \in SUBSET Event
      /\ sndWaiting \in SUBSET Event /\ rcvWaiting \in SUBSET Event
  BY Counts DEF IInv
<1>1. ASSUME NEW m \in Msg, NEW u \in BOOLEAN, SendPend(e, m, u)
      PROVE  IInv'
  <2>a. msg' \in [Event -> Msg \cup {NoMsg}] /\ urgent' \in [Event -> BOOLEAN]
    BY <1>1, ArgumentTypes DEF IInv, SendPend
  <2>1. CASE Snd!Take /\ Go(e, "put")
    <3>1. /\ at' \in [Event -> Step]
          /\ At("put")' = At("put") \cup {e}
          /\ \A s : s # "put" /\ s # "out" => At(s)' = At(s)
      BY <1>1, <2>1, GoMoves DEF IInv, TypeOK, SendPend, Step
    <3>2. /\ Cardinality(At("put"))' = Cardinality(At("put")) + 1
          /\ \A s : s # "put" /\ s # "out" => Cardinality(At(s))' = Cardinality(At(s))
      BY <1>1, <2>1, GoCounts DEF IInv, TypeOK, SendPend, Step
    <3>3. TypeOK'
      BY <1>1, <2>a, <2>1, <3>1 DEF IInv, TypeOK, SendPend, Snd!Take, rcv, ring, Slot
    <3>4. Claimed'
      BY <1>1, <1>c, <2>1, <3>2 DEF IInv, TypeOK, Claimed, SendPend, Snd!Take, rcv, ring, Step
    <3>5. QED
      BY <1>1, <3>3, <3>4 DEF IInv, Unused, SendPend
  <2>2. CASE Snd!Wait(e) /\ Go(e, "sndPend")
    <3>1. /\ at' \in [Event -> Step]
          /\ At("sndPend")' = At("sndPend") \cup {e}
          /\ \A s : s # "sndPend" /\ s # "out" => At(s)' = At(s)
      BY <1>1, <2>2, GoMoves DEF IInv, TypeOK, SendPend, Step
    <3>3. TypeOK'
      BY <1>1, <2>a, <2>2, <3>1 DEF IInv, TypeOK, SendPend, Snd!Wait, rcv, ring, Slot
    <3>4. Claimed'
      BY <1>1, <2>2, <3>1 DEF IInv, Claimed, SendPend, Snd!Wait, rcv, ring
    <3>5. QED
      BY <1>1, <3>3, <3>4 DEF IInv, Unused, SendPend
  <2>3. QED
    BY <1>1, <2>1, <2>2 DEF SendPend
<1>2. ASSUME SendPendReturn(e) PROVE IInv'
  <2>0. sndPassing \cup sndWaiting = At("sndPend")
    BY DEF IInv, TypeOK
  <2>1. CASE Snd!Return(e) /\ Go(e, "put") /\ UNCHANGED << msg, urgent >>
    <3>0. at[e] = "sndPend"
      BY <2>0, <2>1 DEF Snd!Return, At
    <3>1. /\ at' \in [Event -> Step]
          /\ At("put")' = At("put") \cup {e} /\ e \notin At("put")
          /\ At("sndPend")' = At("sndPend") \ {e} /\ e \in At("sndPend")
          /\ \A s : s # "put" /\ s # "sndPend" => At(s)' = At(s)
      BY <1>2, <2>1, <3>0, GoMoves DEF IInv, TypeOK, SendPendReturn, Step
    <3>2. /\ Cardinality(At("put"))' = Cardinality(At("put")) + 1
          /\ Cardinality(At("sndPend"))' = Cardinality(At("sndPend")) - 1
          /\ \A s : s # "put" /\ s # "sndPend" => Cardinality(At(s))' = Cardinality(At(s))
      BY <1>2, <2>1, <3>0, GoCounts DEF IInv, TypeOK, SendPendReturn, Step
    <3>3. Cardinality(sndPassing)' = Cardinality(sndPassing) - 1
      BY <1>c, <2>1, CountLeave DEF Snd!Return
    <3>4. TypeOK'
      BY <1>2, <2>1, <3>1 DEF IInv, TypeOK, SendPendReturn, Snd!Return, rcv, ring, Slot
    <3>5. Claimed'
      BY <1>2, <1>c, <2>1, <3>2, <3>3 DEF IInv, TypeOK, Claimed, SendPendReturn, Snd!Return, rcv, ring, Step
    <3>6. QED
      BY <1>2, <3>0, <3>4, <3>5 DEF IInv, Unused, SendPendReturn
  <2>2. CASE Snd!GiveUp(e) /\ Go(e, "out") /\ Forget(e)
    <3>0. at[e] = "sndPend"
      BY <2>0, <2>2 DEF Snd!GiveUp, At
    <3>1. /\ at' \in [Event -> Step]
          /\ At("out")' = At("out") \cup {e} /\ e \notin At("out")
          /\ At("sndPend")' = At("sndPend") \ {e} /\ e \in At("sndPend")
          /\ \A s : s # "out" /\ s # "sndPend" => At(s)' = At(s)
      BY <1>2, <2>2, <3>0, GoMoves DEF IInv, TypeOK, SendPendReturn, Step
    <3>2. /\ Cardinality(At("out"))' = Cardinality(At("out")) + 1
          /\ Cardinality(At("sndPend"))' = Cardinality(At("sndPend")) - 1
          /\ \A s : s # "out" /\ s # "sndPend" => Cardinality(At(s))' = Cardinality(At(s))
      BY <1>2, <2>2, <3>0, GoCounts DEF IInv, TypeOK, SendPendReturn, Step
    <3>3. msg' \in [Event -> Msg \cup {NoMsg}] /\ urgent' \in [Event -> BOOLEAN]
      BY <2>2, ArgumentTypes DEF IInv, Forget
    <3>4. TypeOK'
      BY <1>2, <2>2, <3>1, <3>3 DEF IInv, TypeOK, SendPendReturn, Snd!GiveUp, rcv, ring, Slot
    <3>5. Claimed'
      BY <1>2, <1>c, <2>2, <3>2 DEF IInv, TypeOK, Claimed, SendPendReturn, Snd!GiveUp, rcv, ring, Step
    <3>6. QED
      BY <1>2, <3>0, <3>4, <3>5 DEF IInv, Unused, SendPendReturn
  <2>3. QED
    BY <1>2, <2>1, <2>2 DEF SendPendReturn
<1>3. ASSUME Put(e) PROVE IInv'
  <2>1. /\ at' \in [Event -> Step]
        /\ At("rcvPost")' = At("rcvPost") \cup {e} /\ e \notin At("rcvPost")
        /\ At("put")' = At("put") \ {e} /\ e \in At("put")
        /\ \A s : s # "rcvPost" /\ s # "put" => At(s)' = At(s)
    BY <1>3, GoMoves DEF IInv, TypeOK, Put, Step
  <2>2. /\ Cardinality(At("rcvPost"))' = Cardinality(At("rcvPost")) + 1
        /\ Cardinality(At("put"))' = Cardinality(At("put")) - 1
        /\ \A s : s # "rcvPost" /\ s # "put" => Cardinality(At(s))' = Cardinality(At(s))
    BY <1>3, GoCounts DEF IInv, TypeOK, Put, Step
  <2>3. used \in 0 .. MaxMsgs - 1
    <3>1. Cardinality(At("put"))' \in Nat
      BY <2>1, CountType DEF At
    <3>2. QED
      BY <1>c, <2>2, <3>1 DEF IInv, TypeOK, Claimed, Step
  <2>4. WriteOffset(e) \in Slot
    BY <2>3 DEF IInv, TypeOK, WriteOffset, Slot
  <2>a. msg' \in [Event -> Msg \cup {NoMsg}] /\ urgent' \in [Event -> BOOLEAN]
    BY <1>3, ArgumentTypes DEF IInv, Put, Forget
  <2>5. TypeOK'
    BY <1>3, <2>1, <2>3, <2>4, <2>a DEF IInv, TypeOK, Put, snd, rcv, Slot
  <2>6. Claimed'
    BY <1>3, <1>c, <2>2 DEF IInv, TypeOK, Claimed, Put, snd, rcv, Step
  <2>7. QED
    BY <1>3, <2>5, <2>6 DEF IInv, Unused, Put
<1>4. ASSUME SendPost(e) PROVE IInv'
  <2>1. /\ at' \in [Event -> Step]
        /\ At("out")' = At("out") \cup {e} /\ e \notin At("out")
        /\ At("rcvPost")' = At("rcvPost") \ {e} /\ e \in At("rcvPost")
        /\ \A s : s # "out" /\ s # "rcvPost" => At(s)' = At(s)
    BY <1>4, GoMoves DEF IInv, TypeOK, SendPost, Step
  <2>2. /\ Cardinality(At("out"))' = Cardinality(At("out")) + 1
        /\ Cardinality(At("rcvPost"))' = Cardinality(At("rcvPost")) - 1
        /\ \A s : s # "out" /\ s # "rcvPost" => Cardinality(At(s))' = Cardinality(At(s))
    BY <1>4, GoCounts DEF IInv, TypeOK, SendPost, Step
  <2>3. rcvLamps < MaxMsgs
    <3>1. Cardinality(At("rcvPost"))' \in Nat
      BY <2>1, CountType DEF At
    <3>2. QED
      BY <1>c, <2>2, <3>1 DEF IInv, TypeOK, Claimed, Step
  <2>4. CASE rcvWaiting = {} /\ rcvLamps' = rcvLamps + 1 /\ UNCHANGED << rcvWaiting, rcvPassing >>
    <3>1. TypeOK'
      BY <1>4, <2>1, <2>3, <2>4 DEF IInv, TypeOK, SendPost, snd, ring, call, Slot
    <3>2. Claimed'
      BY <1>4, <1>c, <2>2, <2>4 DEF IInv, TypeOK, Claimed, SendPost, snd, ring, call, Step
    <3>3. QED
      BY <1>4, <3>1, <3>2 DEF IInv, Unused, SendPost
  <2>5. ASSUME NEW f \in rcvWaiting, rcvWaiting' = rcvWaiting \ {f},
               rcvPassing' = rcvPassing \cup {f}, rcvLamps' = rcvLamps
        PROVE  IInv'
    <3>1. Cardinality(rcvPassing)' = Cardinality(rcvPassing) + 1
      BY <1>c, <2>5, CountJoin DEF IInv, TypeOK
    <3>2. TypeOK'
      BY <1>4, <2>1, <2>5 DEF IInv, TypeOK, SendPost, snd, ring, call, Slot
    <3>3. Claimed'
      BY <1>4, <1>c, <2>2, <2>5, <3>1 DEF IInv, TypeOK, Claimed, SendPost, snd, ring, call, Step
    <3>4. QED
      BY <1>4, <3>2, <3>3 DEF IInv, Unused, SendPost
  <2>6. QED
    BY <1>4, <2>3, <2>4, <2>5 DEF SendPost, Rcv!Post
<1>5. QED
  BY <1>1, <1>2, <1>3, <1>4 DEF MsgQ_Send

(* Every step of MsgQ_Receive keeps the invariant.                         *)
LEMMA ReceiveKeeps ==
    ASSUME IInv, NEW e \in Event, MsgQ_Receive(e)
    PROVE  IInv'
<1> USE MaxMsgsAssumption
<1>c. /\ \A s \in Step : Cardinality(At(s)) \in Nat
      /\ Cardinality(sndPassing) \in Nat /\ Cardinality(rcvPassing) \in Nat
      /\ sndPassing \in SUBSET Event /\ rcvPassing \in SUBSET Event
      /\ sndWaiting \in SUBSET Event /\ rcvWaiting \in SUBSET Event
  BY Counts DEF IInv
<1>1. ASSUME ReceivePend(e) PROVE IInv'
  <2>1. CASE Rcv!Take /\ Go(e, "get")
    <3>1. /\ at' \in [Event -> Step]
          /\ At("get")' = At("get") \cup {e} /\ e \notin At("get")
          /\ At("out")' = At("out") \ {e} /\ e \in At("out")
          /\ \A s : s # "get" /\ s # "out" => At(s)' = At(s)
      BY <1>1, <2>1, GoMoves DEF IInv, TypeOK, ReceivePend, Step
    <3>2. /\ Cardinality(At("get"))' = Cardinality(At("get")) + 1
          /\ Cardinality(At("out"))' = Cardinality(At("out")) - 1
          /\ \A s : s # "get" /\ s # "out" => Cardinality(At(s))' = Cardinality(At(s))
      BY <1>1, <2>1, GoCounts DEF IInv, TypeOK, ReceivePend, Step
    <3>3. TypeOK'
      BY <1>1, <2>1, <3>1 DEF IInv, TypeOK, ReceivePend, Rcv!Take, snd, ring, call, Slot
    <3>4. Claimed'
      BY <1>1, <1>c, <2>1, <3>2 DEF IInv, TypeOK, Claimed, ReceivePend, Rcv!Take, snd, ring, Step
    <3>5. QED
      BY <1>1, <3>3, <3>4 DEF IInv, Unused, ReceivePend
  <2>2. CASE Rcv!Wait(e) /\ Go(e, "rcvPend")
    <3>1. /\ at' \in [Event -> Step]
          /\ At("rcvPend")' = At("rcvPend") \cup {e} /\ e \notin At("rcvPend")
          /\ At("out")' = At("out") \ {e} /\ e \in At("out")
          /\ \A s : s # "rcvPend" /\ s # "out" => At(s)' = At(s)
      BY <1>1, <2>2, GoMoves DEF IInv, TypeOK, ReceivePend, Step
    <3>2. /\ Cardinality(At("rcvPend"))' = Cardinality(At("rcvPend")) + 1
          /\ Cardinality(At("out"))' = Cardinality(At("out")) - 1
          /\ \A s : s # "rcvPend" /\ s # "out" => Cardinality(At(s))' = Cardinality(At(s))
      BY <1>1, <2>2, GoCounts DEF IInv, TypeOK, ReceivePend, Step
    <3>3. TypeOK'
      BY <1>1, <2>2, <3>1 DEF IInv, TypeOK, ReceivePend, Rcv!Wait, snd, ring, call, Slot
    <3>4. Claimed'
      BY <1>1, <1>c, <2>2, <3>2 DEF IInv, TypeOK, Claimed, ReceivePend, Rcv!Wait, snd, ring, Step
    <3>5. QED
      BY <1>1, <3>3, <3>4 DEF IInv, Unused, ReceivePend
  <2>3. QED
    BY <1>1, <2>1, <2>2 DEF ReceivePend
<1>2. ASSUME ReceivePendReturn(e) PROVE IInv'
  <2>0. rcvPassing \cup rcvWaiting = At("rcvPend")
    BY DEF IInv, TypeOK
  <2>1. CASE Rcv!Return(e) /\ Go(e, "get")
    <3>0. at[e] = "rcvPend"
      BY <2>0, <2>1 DEF Rcv!Return, At
    <3>1. /\ at' \in [Event -> Step]
          /\ At("get")' = At("get") \cup {e} /\ e \notin At("get")
          /\ At("rcvPend")' = At("rcvPend") \ {e} /\ e \in At("rcvPend")
          /\ \A s : s # "get" /\ s # "rcvPend" => At(s)' = At(s)
      BY <1>2, <2>1, <3>0, GoMoves DEF IInv, TypeOK, ReceivePendReturn, Step
    <3>2. /\ Cardinality(At("get"))' = Cardinality(At("get")) + 1
          /\ Cardinality(At("rcvPend"))' = Cardinality(At("rcvPend")) - 1
          /\ \A s : s # "get" /\ s # "rcvPend" => Cardinality(At(s))' = Cardinality(At(s))
      BY <1>2, <2>1, <3>0, GoCounts DEF IInv, TypeOK, ReceivePendReturn, Step
    <3>3. Cardinality(rcvPassing)' = Cardinality(rcvPassing) - 1
      BY <1>c, <2>1, CountLeave DEF Rcv!Return
    <3>4. TypeOK'
      BY <1>2, <2>1, <3>1 DEF IInv, TypeOK, ReceivePendReturn, Rcv!Return, snd, ring, call, Slot
    <3>5. Claimed'
      BY <1>2, <1>c, <2>1, <3>2, <3>3 DEF IInv, TypeOK, Claimed, ReceivePendReturn, Rcv!Return, snd, ring, Step
    <3>6. QED
      BY <1>2, <3>0, <3>4, <3>5 DEF IInv, Unused, ReceivePendReturn
  <2>2. CASE Rcv!GiveUp(e) /\ Go(e, "out")
    <3>0. at[e] = "rcvPend"
      BY <2>0, <2>2 DEF Rcv!GiveUp, At
    <3>1. /\ at' \in [Event -> Step]
          /\ At("out")' = At("out") \cup {e} /\ e \notin At("out")
          /\ At("rcvPend")' = At("rcvPend") \ {e} /\ e \in At("rcvPend")
          /\ \A s : s # "out" /\ s # "rcvPend" => At(s)' = At(s)
      BY <1>2, <2>2, <3>0, GoMoves DEF IInv, TypeOK, ReceivePendReturn, Step
    <3>2. /\ Cardinality(At("out"))' = Cardinality(At("out")) + 1
          /\ Cardinality(At("rcvPend"))' = Cardinality(At("rcvPend")) - 1
          /\ \A s : s # "out" /\ s # "rcvPend" => Cardinality(At(s))' = Cardinality(At(s))
      BY <1>2, <2>2, <3>0, GoCounts DEF IInv, TypeOK, ReceivePendReturn, Step
    <3>4. TypeOK'
      BY <1>2, <2>2, <3>1 DEF IInv, TypeOK, ReceivePendReturn, Rcv!GiveUp, snd, ring, call, Slot
    <3>5. Claimed'
      BY <1>2, <1>c, <2>2, <3>2 DEF IInv, TypeOK, Claimed, ReceivePendReturn, Rcv!GiveUp, snd, ring, Step
    <3>6. QED
      BY <1>2, <3>0, <3>4, <3>5 DEF IInv, Unused, ReceivePendReturn
  <2>3. QED
    BY <1>2, <2>1, <2>2 DEF ReceivePendReturn
<1>3. ASSUME Get(e) PROVE IInv'
  <2>1. /\ at' \in [Event -> Step]
        /\ At("sndPost")' = At("sndPost") \cup {e} /\ e \notin At("sndPost")
        /\ At("get")' = At("get") \ {e} /\ e \in At("get")
        /\ \A s : s # "sndPost" /\ s # "get" => At(s)' = At(s)
    BY <1>3, GoMoves DEF IInv, TypeOK, Get, Step
  <2>2. /\ Cardinality(At("sndPost"))' = Cardinality(At("sndPost")) + 1
        /\ Cardinality(At("get"))' = Cardinality(At("get")) - 1
        /\ \A s : s # "sndPost" /\ s # "get" => Cardinality(At(s))' = Cardinality(At(s))
    BY <1>3, GoCounts DEF IInv, TypeOK, Get, Step
  <2>3. used \in 1 .. MaxMsgs
    <3>1. Cardinality(At("get"))' \in Nat
      BY <2>1, CountType DEF At
    <3>2. QED
      BY <1>c, <2>2, <3>1 DEF IInv, TypeOK, Claimed, Step
  <2>4. read' \in Slot /\ buf[read] \in Msg \cup {NoMsg}
    BY <1>3 DEF IInv, TypeOK, Get, Slot
  <2>a. received' \in [Event -> Msg \cup {NoMsg}]
    BY <1>3, <2>4 DEF IInv, TypeOK, Get
  <2>5. TypeOK'
    BY <1>3, <2>1, <2>3, <2>4, <2>a DEF IInv, TypeOK, Get, snd, rcv, Slot
  <2>6. Claimed'
    BY <1>3, <1>c, <2>2 DEF IInv, TypeOK, Claimed, Get, snd, rcv, Step
  <2>7. QED
    BY <1>3, <2>5, <2>6 DEF IInv, Unused, Get
<1>4. ASSUME ReceivePost(e) PROVE IInv'
  <2>1. /\ at' \in [Event -> Step]
        /\ At("out")' = At("out") \cup {e} /\ e \notin At("out")
        /\ At("sndPost")' = At("sndPost") \ {e} /\ e \in At("sndPost")
        /\ \A s : s # "out" /\ s # "sndPost" => At(s)' = At(s)
    BY <1>4, GoMoves DEF IInv, TypeOK, ReceivePost, Step
  <2>2. /\ Cardinality(At("out"))' = Cardinality(At("out")) + 1
        /\ Cardinality(At("sndPost"))' = Cardinality(At("sndPost")) - 1
        /\ \A s : s # "out" /\ s # "sndPost" => Cardinality(At(s))' = Cardinality(At(s))
    BY <1>4, GoCounts DEF IInv, TypeOK, ReceivePost, Step
  <2>3. sndLamps < MaxMsgs
    <3>1. Cardinality(At("sndPost"))' \in Nat
      BY <2>1, CountType DEF At
    <3>2. QED
      BY <1>c, <2>2, <3>1 DEF IInv, TypeOK, Claimed, Step
  <2>a. received' \in [Event -> Msg \cup {NoMsg}]
    BY <1>4 DEF IInv, TypeOK, ReceivePost
  <2>4. CASE sndWaiting = {} /\ sndLamps' = sndLamps + 1 /\ UNCHANGED << sndWaiting, sndPassing >>
    <3>1. TypeOK'
      BY <1>4, <2>1, <2>3, <2>4, <2>a DEF IInv, TypeOK, ReceivePost, rcv, ring, Slot
    <3>2. Claimed'
      BY <1>4, <1>c, <2>2, <2>4 DEF IInv, TypeOK, Claimed, ReceivePost, rcv, ring, Step
    <3>3. QED
      BY <1>4, <3>1, <3>2 DEF IInv, Unused, ReceivePost
  <2>5. ASSUME NEW f \in sndWaiting, sndWaiting' = sndWaiting \ {f},
               sndPassing' = sndPassing \cup {f}, sndLamps' = sndLamps
        PROVE  IInv'
    <3>1. Cardinality(sndPassing)' = Cardinality(sndPassing) + 1
      BY <1>c, <2>5, CountJoin DEF IInv, TypeOK
    <3>2. TypeOK'
      BY <1>4, <2>1, <2>5, <2>a DEF IInv, TypeOK, ReceivePost, rcv, ring, Slot
    <3>3. Claimed'
      BY <1>4, <1>c, <2>2, <2>5, <3>1 DEF IInv, TypeOK, Claimed, ReceivePost, rcv, ring, Step
    <3>4. QED
      BY <1>4, <3>2, <3>3 DEF IInv, Unused, ReceivePost
  <2>6. QED
    BY <1>4, <2>3, <2>4, <2>5 DEF ReceivePost, Snd!Post
<1>5. QED
  BY <1>1, <1>2, <1>3, <1>4 DEF MsgQ_Receive

-----------------------------------------------------------------------------
(* A new queue has all its lamps on the senders' side.                     *)
LEMMA InitInvariant == Init => IInv
<1> SUFFICES ASSUME Init PROVE IInv
  OBVIOUS
<1>1. \A s \in Step \ {"out"} : At(s) = {}
  BY DEF Init, At
<1>2. Cardinality({}) = 0
  BY FS_EmptySet
<1>3. TypeOK
  BY <1>1, MaxMsgsAssumption DEF Init, TypeOK, Step, Slot
<1>4. Claimed
  BY <1>1, <1>2, MaxMsgsAssumption DEF Init, Claimed, Step
<1>5. QED
  BY <1>3, <1>4 DEF Init, IInv, Unused

(* So has one that is created again after it was deleted.                  *)
LEMMA CreateKeeps ==
    ASSUME IInv, MsgQ_Create
    PROVE  IInv'
<1>1. \A s \in Step \ {"out"} : At(s) = {} /\ At(s)' = {}
  BY DEF IInv, Unused, MsgQ_Create, At
<1>2. Cardinality({}) = 0
  BY FS_EmptySet
<1>3. sndPassing' = {} /\ rcvPassing' = {}
  BY <1>1 DEF IInv, TypeOK, Step, MsgQ_Create
<1>4. TypeOK'
  BY <1>1, MaxMsgsAssumption DEF IInv, TypeOK, MsgQ_Create, call, Step, Slot
<1>5. Claimed'
  <2>1. /\ At("get")' = {} /\ At("rcvPost")' = {}
        /\ At("put")' = {} /\ At("sndPost")' = {}
    BY <1>1 DEF Step
  <2>2. QED
    BY <2>1, <1>2, <1>3, MaxMsgsAssumption DEF MsgQ_Create, Claimed
<1>6. QED
  BY <1>4, <1>5 DEF MsgQ_Create, IInv, Unused

(* Every step keeps the invariant.                                         *)
LEMMA NextKeeps == IInv /\ [Next]_vars => IInv'
<1> SUFFICES ASSUME IInv, [Next]_vars PROVE IInv'
  OBVIOUS
<1>1. ASSUME MsgQ_Delete PROVE IInv'
  BY <1>1 DEF IInv, TypeOK, Claimed, Unused, At, MsgQ_Delete, snd, rcv, ring, call
<1>2. CASE UNCHANGED vars
  BY <1>2 DEF IInv, TypeOK, Claimed, Unused, At, vars, snd, rcv, ring, call
<1>3. QED
  BY <1>1, <1>2, SendKeeps, ReceiveKeeps, CreateKeeps DEF Next

(* Whatever the number of slots, events and messages, MsgQ_Send writes     *)
(* only inside the ring, MsgUsed stays within 0 .. MaxMsgs, and an event   *)
(* inside a pend either waits or was handed a lamp.                        *)
THEOREM TypeCorrect == Spec => []TypeOK
<1>1. IInv => TypeOK
  BY DEF IInv
<1>2. QED
  BY <1>1, InitInvariant, NextKeeps, PTL DEF Spec

(* Every message in the ring is claimed exactly once, by a lamp of         *)
(* MsgRecvSemp or an event on its way to or from it, and every free slot   *)
(* by MsgSendSemp: neither semaphore can drift from the ring.              *)
THEOREM MessagesClaimed == Spec => []Claimed
<1>1. IInv => Claimed
  BY DEF IInv
<1>2. QED
  BY <1>1, InitInvariant, NextKeeps, PTL DEF Spec
=============================================================================
