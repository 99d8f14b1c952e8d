---------------------------- MODULE KernelProofs ----------------------------
(***************************************************************************)
(* What the functions of core/djyos.c do to the queues, for every set of   *)
(* events, priorities and blocking queues.                                 *)
(***************************************************************************)
EXTENDS KernelCalls, SequenceTheorems, WellFoundedInduction, TLAPS

-----------------------------------------------------------------------------
(* Queues.                                                                 *)

(* A set of natural numbers that is not empty has a least element.         *)
LEMMA LeastNatural ==
    ASSUME NEW T \in SUBSET Nat, T # {}
    PROVE  \E n \in T : \A m \in T : n <= m
<1> DEFINE R == {ss \in Nat \X Nat : ss[1] < ss[2]}
<1>1. IsWellFoundedOn(R, Nat)
  BY NatLessThanWellFounded DEF OpToRel
<1> HIDE DEF R
<1>2. PICK n \in T : \A m \in T : ~ (<<m, n>> \in R)
  BY <1>1, WFMin
<1>3. \A m \in Nat : m < n => <<m, n>> \in R
  BY DEF R
<1>4. \A m \in T : m \in Nat /\ n \in Nat /\ ~(m < n)
  BY <1>2, <1>3
<1>5. QED
  BY <1>4

LEMMA QueueElements ==
    ASSUME NEW S, NEW s \in Seq(S)
    PROVE  /\ ToSet(s) \subseteq S
           /\ \A x : x \in ToSet(s) <=> \E i \in 1 .. Len(s) : s[i] = x
           /\ IsInjective(s) <=>
                 \A i, j \in 1 .. Len(s) : s[i] = s[j] => i = j
BY DEF ToSet, IsInjective

(* An event that enters a queue at its end.                                *)
LEMMA QueueAppend ==
    ASSUME NEW S, NEW s \in Seq(S), NEW e \in S
    PROVE  /\ Append(s, e) \in Seq(S)
           /\ ToSet(Append(s, e)) = ToSet(s) \cup {e}
           /\ IsInjective(s) /\ e \notin ToSet(s) => IsInjective(Append(s, e))
<1> DEFINE t == Append(s, e)
<1>1. /\ t \in Seq(S) /\ Len(t) = Len(s) + 1 /\ t[Len(s) + 1] = e
      /\ \A i \in 1 .. Len(s) : t[i] = s[i]
  OBVIOUS
<1> HIDE DEF t
<1>2. ToSet(t) = ToSet(s) \cup {e}
  <2>1. ASSUME NEW x PROVE x \in ToSet(t) <=> x \in ToSet(s) \/ x = e
    <3>1. x \in ToSet(t) <=> \E i \in 1 .. Len(s) + 1 : t[i] = x
      BY <1>1, QueueElements
    <3>2. x \in ToSet(s) <=> \E i \in 1 .. Len(s) : s[i] = x
      BY QueueElements
    <3>3. QED
      BY <1>1, <3>1, <3>2
  <2>2. QED
    BY <2>1
<1>3. ASSUME IsInjective(s), e \notin ToSet(s) PROVE IsInjective(t)
  <2>1. \A i \in 1 .. Len(s) : s[i] # e
    BY <1>3, QueueElements
  <2>2. \A i, j \in 1 .. Len(s) : s[i] = s[j] => i = j
    BY <1>3, QueueElements
  <2>3. \A i, j \in 1 .. Len(t) : t[i] = t[j] => i = j
    BY <1>1, <2>1, <2>2
  <2>4. QED
    BY <1>1, <2>3, QueueElements
<1>4. QED
  BY <1>1, <1>2, <1>3 DEF t

(* The first event of a queue leaves it.                                   *)
LEMMA QueueTail ==
    ASSUME NEW S, NEW s \in Seq(S), s # << >>
    PROVE  /\ Head(s) \in S /\ Head(s) \in ToSet(s)
           /\ Tail(s) \in Seq(S)
           /\ IsInjective(s) => /\ IsInjective(Tail(s))
                                /\ ToSet(Tail(s)) = ToSet(s) \ {Head(s)}
<1>1. Len(s) >= 1 /\ Head(s) = s[1]
  OBVIOUS
<1>2. /\ Tail(s) \in Seq(S) /\ Len(Tail(s)) = Len(s) - 1
      /\ \A i \in 1 .. Len(s) - 1 : Tail(s)[i] = s[i + 1]
  OBVIOUS
<1>3. Head(s) \in S /\ Head(s) \in ToSet(s)
  BY <1>1 DEF ToSet
<1>4. ASSUME IsInjective(s) PROVE IsInjective(Tail(s))
  BY <1>1, <1>2, <1>4 DEF IsInjective
<1>5. ASSUME IsInjective(s) PROVE ToSet(Tail(s)) = ToSet(s) \ {Head(s)}
  <2>1. ASSUME NEW x \in ToSet(Tail(s)) PROVE x \in ToSet(s) \ {Head(s)}
    BY <1>1, <1>2, <1>5, <2>1 DEF ToSet, IsInjective
  <2>2. ASSUME NEW x \in ToSet(s) \ {Head(s)} PROVE x \in ToSet(Tail(s))
    <3>1. PICK i \in 1 .. Len(s) : s[i] = x
      BY <2>2 DEF ToSet
    <3>2. i - 1 \in 1 .. Len(s) - 1 /\ Tail(s)[i - 1] = x
      BY <1>1, <1>2, <2>2, <3>1
    <3>3. QED
      BY <1>2, <3>2 DEF ToSet
  <2>3. QED
    BY <2>1, <2>2
<1>6. QED
  BY <1>2, <1>3, <1>4, <1>5

(* An event enters a queue at place i.                                     *)
LEMMA InsertPlaces ==
    ASSUME NEW S, NEW s \in Seq(S), NEW e \in S, NEW i \in 1 .. Len(s) + 1
    PROVE  /\ InsertAt(s, i, e) \in Seq(S)
           /\ Len(InsertAt(s, i, e)) = Len(s) + 1
           /\ \A j \in 1 .. Len(s) + 1 :
                 InsertAt(s, i, e)[j] = IF j < i THEN s[j]
                                        ELSE IF j = i THEN e ELSE s[j - 1]
<1> DEFINE a == SubSeq(s, 1, i - 1)
           b == SubSeq(s, i, Len(s))
<1>1. /\ a \in Seq(S) /\ Len(a) = i - 1
      /\ \A j \in 1 .. i - 1 : a[j] = s[j]
  BY SubSeqProperties
<1>2. /\ b \in Seq(S) /\ Len(b) = Len(s) - i + 1
      /\ \A j \in 1 .. Len(s) - i + 1 : b[j] = s[i + j - 1]
  BY SubSeqProperties
<1> HIDE DEF a, b
<1>3. InsertAt(s, i, e) = a \o << e >> \o b
  BY DEF InsertAt, a, b
<1>4. /\ a \o << e >> \in Seq(S) /\ Len(a \o << e >>) = i
      /\ \A j \in 1 .. i - 1 : (a \o << e >>)[j] = s[j]
      /\ (a \o << e >>)[i] = e
  BY <1>1
<1>5. /\ a \o << e >> \o b \in Seq(S)
      /\ Len(a \o << e >> \o b) = Len(s) + 1
      /\ \A j \in 1 .. i : (a \o << e >> \o b)[j] = (a \o << e >>)[j]
      /\ \A j \in i + 1 .. Len(s) + 1 : (a \o << e >> \o b)[j] = b[j - i]
  <2> DEFINE c == a \o << e >>
  <2> HIDE DEF c
  <2>1. c \in Seq(S) /\ Len(c) = i
    BY <1>4 DEF c
  <2>2. /\ c \o b \in Seq(S)
        /\ Len(c \o b) = Len(c) + Len(b)
        /\ \A j \in 1 .. Len(c) + Len(b) :
              (c \o b)[j] = IF j <= Len(c) THEN c[j] ELSE b[j - Len(c)]
    BY <1>2, <2>1, ConcatProperties
  <2> DEFINE d == c \o b
  <2> HIDE DEF d
  <2>3. /\ d \in Seq(S) /\ Len(d) = Len(s) + 1
        /\ \A j \in 1 .. i : d[j] = c[j]
        /\ \A j \in i + 1 .. Len(s) + 1 : d[j] = b[j - i]
    BY <1>2, <2>1, <2>2 DEF d
  <2>4. QED
    BY <2>3 DEF c, d
<1>6. \A j \in i + 1 .. Len(s) + 1 : b[j - i] = s[j - 1]
  BY <1>2
<1> DEFINE t == InsertAt(s, i, e)
<1>7. /\ t \in Seq(S) /\ Len(t) = Len(s) + 1
      /\ \A j \in 1 .. i : t[j] = (a \o << e >>)[j]
      /\ \A j \in i + 1 .. Len(s) + 1 : t[j] = s[j - 1]
  BY <1>3, <1>5, <1>6
<1> HIDE DEF t
<1>8. \A j \in 1 .. Len(s) + 1 :
         t[j] = IF j < i THEN s[j] ELSE IF j = i THEN e ELSE s[j - 1]
  BY <1>4, <1>7
<1>9. QED
  BY <1>7, <1>8 DEF t

LEMMA QueueInsert ==
    ASSUME NEW S, NEW s \in Seq(S), NEW e \in S, NEW i \in 1 .. Len(s) + 1
    PROVE  /\ InsertAt(s, i, e) \in Seq(S)
           /\ ToSet(InsertAt(s, i, e)) = ToSet(s) \cup {e}
           /\ IsInjective(s) /\ e \notin ToSet(s) => IsInjective(InsertAt(s, i, e))
<1> DEFINE t == InsertAt(s, i, e)
<1>1. /\ t \in Seq(S) /\ Len(t) = Len(s) + 1
      /\ \A j \in 1 .. Len(s) + 1 :
            t[j] = IF j < i THEN s[j] ELSE IF j = i THEN e ELSE s[j - 1]
  BY InsertPlaces
<1> HIDE DEF t
<1>2. ToSet(t) = ToSet(s) \cup {e}
  <2>1. ASSUME NEW x PROVE x \in ToSet(t) <=> x \in ToSet(s) \/ x = e
    <3>1. x \in ToSet(t) <=> \E j \in 1 .. Len(s) + 1 : t[j] = x
      BY <1>1, QueueElements
    <3>2. x \in ToSet(s) <=> \E j \in 1 .. Len(s) : s[j] = x
      BY QueueElements
    <3>3. \A j \in 1 .. Len(s) : s[j] = t[j] \/ s[j] = t[j + 1]
      BY <1>1
    <3>4. e = t[i] /\ i \in 1 .. Len(s) + 1
      BY <1>1
    <3>5. \A j \in 1 .. Len(s) : j \in 1 .. Len(s) + 1 /\ j + 1 \in 1 .. Len(s) + 1
      OBVIOUS
    <3>6. x \in ToSet(s) \/ x = e => x \in ToSet(t)
      BY <3>1, <3>2, <3>3, <3>4, <3>5
    <3>7. x \in ToSet(t) => x \in ToSet(s) \/ x = e
      <4>1. \A j \in 1 .. Len(s) + 1 :
               t[j] = e \/ \E l \in 1 .. Len(s) : t[j] = s[l]
        <5>1. ASSUME NEW j \in 1 .. Len(s) + 1, t[j] # e
              PROVE  \E l \in 1 .. Len(s) : t[j] = s[l]
          <6>1. CASE j < i
            BY <1>1, <6>1
          <6>2. CASE j > i
            <7>1. j - 1 \in 1 .. Len(s) /\ t[j] = s[j - 1]
              BY <1>1, <6>2
            <7>2. QED
              BY <7>1
          <6>3. QED
            BY <1>1, <5>1, <6>1, <6>2
        <5>2. QED
          BY <5>1
      <4>2. QED
        BY <3>1, <3>2, <4>1
    <3>8. QED
      BY <3>6, <3>7
  <2>2. QED
    BY <2>1
<1>3. ASSUME IsInjective(s), e \notin ToSet(s) PROVE IsInjective(t)
  <2>1. \A j \in 1 .. Len(s) : s[j] # e
    BY <1>3, QueueElements
  <2>2. \A j, l \in 1 .. Len(s) : s[j] = s[l] => j = l
    BY <1>3, QueueElements
  <2>3. \A j, l \in 1 .. Len(t) : t[j] = t[l] => j = l
    <3> SUFFICES ASSUME NEW j \in 1 .. Len(s) + 1, NEW l \in 1 .. Len(s) + 1,
                        t[j] = t[l], j < l
                 PROVE  FALSE
      <4>1. \A j, l \in 1 .. Len(s) + 1 : j < l \/ l < j \/ j = l
        OBVIOUS
      <4>2. QED
        BY <1>1, <4>1
    <3>1. CASE l < i
      <4>1. j < i /\ j \in 1 .. Len(s) /\ l \in 1 .. Len(s) /\ j # l
        BY <3>1
      <4>2. t[j] = s[j] /\ t[l] = s[l]
        BY <1>1, <3>1, <4>1
      <4>3. QED
        BY <2>2, <4>1, <4>2
    <3>2. CASE l = i
      <4>1. j < i /\ j \in 1 .. Len(s)
        BY <3>2
      <4>2. t[j] = s[j] /\ t[l] = e
        BY <1>1, <3>2, <4>1
      <4>3. QED
        BY <2>1, <4>1, <4>2
    <3>3. CASE l > i
      <4>1. t[l] = s[l - 1] /\ l - 1 \in 1 .. Len(s)
        BY <1>1, <3>3
      <4>2. CASE j < i
        <5>1. t[j] = s[j] /\ j \in 1 .. Len(s) /\ j # l - 1
          BY <1>1, <4>1, <4>2, <3>3
        <5>2. QED
          BY <2>2, <4>1, <5>1
      <4>3. CASE j = i
        BY <1>1, <2>1, <4>1, <4>3
      <4>4. CASE j > i
        <5>1. t[j] = s[j - 1] /\ j - 1 \in 1 .. Len(s) /\ j - 1 # l - 1
          BY <1>1, <4>4
        <5>2. QED
          BY <2>2, <4>1, <5>1
      <4>5. QED
        BY <4>2, <4>3, <4>4
    <3>4. QED
      BY <3>1, <3>2, <3>3
  <2>4. QED
    BY <1>1, <2>3, QueueElements
<1>4. QED
  BY <1>1, <1>2, <1>3 DEF t

(* An event leaves a queue.                                                *)
LEMMA RemovePlaces ==
    ASSUME NEW S, NEW s \in Seq(S), NEW i \in 1 .. Len(s)
    PROVE  /\ RemoveAt(s, i) \in Seq(S)
           /\ Len(RemoveAt(s, i)) = Len(s) - 1
           /\ \A j \in 1 .. Len(s) - 1 :
                 RemoveAt(s, i)[j] = IF j < i THEN s[j] ELSE s[j + 1]
<1> DEFINE a == SubSeq(s, 1, i - 1)
           b == SubSeq(s, i + 1, Len(s))
<1>1. /\ a \in Seq(S) /\ Len(a) = i - 1
      /\ \A j \in 1 .. i - 1 : a[j] = s[j]
  BY SubSeqProperties
<1>2. /\ b \in Seq(S) /\ Len(b) = Len(s) - i
      /\ \A j \in 1 .. Len(s) - i : b[j] = s[i + j]
  BY SubSeqProperties
<1> HIDE DEF a, b
<1>3. RemoveAt(s, i) = a \o b
  BY DEF RemoveAt, a, b
<1>4. /\ a \o b \in Seq(S) /\ Len(a \o b) = Len(s) - 1
      /\ \A j \in 1 .. i - 1 : (a \o b)[j] = a[j]
      /\ \A j \in i .. Len(s) - 1 : (a \o b)[j] = b[j - i + 1]
  <2>1. /\ a \o b \in Seq(S)
        /\ Len(a \o b) = Len(a) + Len(b)
        /\ \A j \in 1 .. Len(a) + Len(b) :
              (a \o b)[j] = IF j <= Len(a) THEN a[j] ELSE b[j - Len(a)]
    BY <1>1, <1>2, ConcatProperties
  <2>2. \A j \in i .. Len(s) - 1 : j - Len(a) = j - i + 1
    BY <1>1
  <2>3. QED
    BY <1>1, <1>2, <2>1, <2>2
<1>5. \A j \in i .. Len(s) - 1 : b[j - i + 1] = s[j + 1]
  BY <1>2
<1>6. QED
  BY <1>1, <1>3, <1>4, <1>5

LEMMA QueueCut ==
    ASSUME NEW S, NEW s \in Seq(S), NEW e, IsInjective(s)
    PROVE  /\ Cut(s, e) \in Seq(S)
           /\ IsInjective(Cut(s, e))
           /\ ToSet(Cut(s, e)) = ToSet(s) \ {e}
<1>1. CASE e \notin ToSet(s)
  BY <1>1 DEF Cut
<1>2. CASE e \in ToSet(s)
  <2> DEFINE i == CHOOSE j \in 1 .. Len(s) : s[j] = e
             t == RemoveAt(s, i)
  <2>1. i \in 1 .. Len(s) /\ s[i] = e
    BY <1>2 DEF ToSet
  <2>2. Cut(s, e) = t
    BY <1>2 DEF Cut
  <2> HIDE DEF i
  <2>3. /\ t \in Seq(S) /\ Len(t) = Len(s) - 1
        /\ \A j \in 1 .. Len(s) - 1 : t[j] = IF j < i THEN s[j] ELSE s[j + 1]
    BY <2>1, RemovePlaces
  <2> HIDE DEF t
  <2>4. IsInjective(t)
    <3>1. \A j, l \in 1 .. Len(s) : s[j] = s[l] => j = l
      BY QueueElements
    <3>2. \A j, l \in 1 .. Len(t) : t[j] = t[l] => j = l
      <4> SUFFICES ASSUME NEW j \in 1 .. Len(s) - 1, NEW l \in 1 .. Len(s) - 1,
                          t[j] = t[l], j < l
                   PROVE  FALSE
        BY <2>3
      <4>1. j \in 1 .. Len(s) /\ l \in 1 .. Len(s)
            /\ j + 1 \in 1 .. Len(s) /\ l + 1 \in 1 .. Len(s)
        OBVIOUS
      <4>2. CASE l < i
        BY <2>1, <2>3, <3>1, <4>1, <4>2
      <4>3. CASE l >= i /\ j < i
        BY <2>1, <2>3, <3>1, <4>1, <4>3
      <4>4. CASE j >= i
        BY <2>1, <2>3, <3>1, <4>1, <4>4
      <4>5. QED
        BY <2>1, <4>2, <4>3, <4>4
    <3>3. QED
      BY <2>3, <3>2, QueueElements
  <2>5. ASSUME NEW x \in ToSet(t) PROVE x \in ToSet(s) \ {e}
    BY <2>1, <2>3, <2>5 DEF ToSet, IsInjective
  <2>6. ASSUME NEW x \in ToSet(s) \ {e} PROVE x \in ToSet(t)
    <3>1. PICK j \in 1 .. Len(s) : s[j] = x
      BY <2>6 DEF ToSet
    <3>2. CASE j < i
      BY <2>1, <2>3, <3>1, <3>2 DEF ToSet
    <3>3. CASE j > i
      <4>1. j - 1 \in 1 .. Len(s) - 1 /\ t[j - 1] = x
        BY <2>1, <2>3, <3>1, <3>3
      <4>2. QED
        BY <2>3, <4>1 DEF ToSet
    <3>4. QED
      BY <2>1, <2>6, <3>1, <3>2, <3>3
  <2>7. QED
    BY <2>2, <2>3, <2>4, <2>5, <2>6
<1>3. QED
  BY <1>1, <1>2

(* The insertion loops stop inside the queue or at its end.                *)
LEMMA FirstAbovePlace ==
    ASSUME NEW S, NEW s \in Seq(S), NEW key \in [S -> Int], NEW v \in Int
    PROVE  /\ FirstAbove(s, key, v) \in 1 .. Len(s) + 1
           /\ FirstAbove(s, key, v) <= Len(s) => key[s[FirstAbove(s, key, v)]] > v
           /\ \A j \in 1 .. FirstAbove(s, key, v) - 1 : key[s[j]] <= v
<1> DEFINE T == {i \in 1 .. Len(s) + 1 : i <= Len(s) => key[s[i]] > v}
<1>1. T \in SUBSET Nat /\ Len(s) + 1 \in T
  OBVIOUS
<1>2. PICK i \in T : \A j \in T : i <= j
  BY <1>1, LeastNatural
<1>3. \A j \in 1 .. i - 1 : key[s[j]] <= v
  <2> SUFFICES ASSUME NEW j \in 1 .. i - 1, ~(key[s[j]] <= v) PROVE FALSE
    OBVIOUS
  <2>1. j \in 1 .. Len(s) /\ s[j] \in S
    BY <1>2
  <2>2. key[s[j]] > v
    BY <2>1
  <2>3. j \in T
    BY <2>1, <2>2
  <2>4. QED
    BY <1>2, <2>3
<1>4. \E n \in 1 .. Len(s) + 1 : /\ n <= Len(s) => key[s[n]] > v
                                /\ \A j \in 1 .. n - 1 : key[s[j]] <= v
  BY <1>2, <1>3
<1>5. QED
  BY <1>4 DEF FirstAbove

-----------------------------------------------------------------------------
(* An event that sleeps waits for nothing else.                            *)
SleepsOnly(k) ==
    \A e \in Event : "DELAY" \in k.status[e] => k.status[e] = {"DELAY"}

(* The queues agree with the control blocks.  live leaves out an event     *)
(* that is between two queues; waits are the statuses of an event in a     *)
(* blocking queue.                                                         *)
Coherent(k, live, waits) ==
    /\ k \in Kernel
    /\ NoDuplicates(k)
    /\ ReadyCoherent(k, live)
    /\ SyncCoherent(k, waits)
    /\ DelayCoherent(k)
    /\ SleepsOnly(k)

(* r differs from k in the ready queue only, or in who runs only.          *)
OnlyReady(r, k) == r = [k EXCEPT !.ready = r.ready]
OnlyRunning(r, k) == r = [k EXCEPT !.running = r.running]

(* e was woken: it is ready and knows why.                                 *)
Woken(r, k, e, why) ==
    /\ r.running = k.running /\ r.lock = k.lock /\ r.inISR = k.inISR
    /\ r.wakeup = [k.wakeup EXCEPT ![e] = why]
    /\ r.head = [k.head EXCEPT ![e] = NoHead]
    /\ r.status = [k.status EXCEPT ![e] = READY]

(* e is in no blocking queue any more, the others are where they were.     *)
LeftQueues(r, k, e) ==
    \A h \in SyncHead : /\ IsInjective(r.sync[h])
                        /\ ToSet(r.sync[h]) = ToSet(k.sync[h]) \ {e}

(* The fields of a kernel state have their types.                          *)
LEMMA KernelFields ==
    ASSUME NEW k \in Kernel
    PROVE  /\ k.ready \in [Prio -> Seq(Event)] /\ k.delay \in Seq(Event)
           /\ k.remain \in [Event -> Int] /\ k.status \in [Event -> SUBSET Status]
           /\ k.wakeup \in [Event -> SUBSET Status] /\ k.prio \in [Event -> Prio]
           /\ k.base \in [Event -> Prio] /\ k.sync \in [SyncHead -> Seq(Event)]
           /\ k.head \in [Event -> SyncHead \cup {NoHead}] /\ k.running \in Event
           /\ k.phase \in 0 .. RRS_Slice /\ k.lock \in Nat /\ k.inISR \in BOOLEAN
BY DEF Kernel

LEMMA OnlyReadyFields ==
    ASSUME NEW k \in Kernel, NEW r, OnlyReady(r, k)
    PROVE  /\ r.delay = k.delay /\ r.remain = k.remain /\ r.status = k.status
           /\ r.wakeup = k.wakeup /\ r.prio = k.prio /\ r.base = k.base
           /\ r.sync = k.sync /\ r.head = k.head /\ r.running = k.running
           /\ r.phase = k.phase /\ r.lock = k.lock /\ r.inISR = k.inISR
BY DEF Kernel, OnlyReady

LEMMA OnlyRunningFields ==
    ASSUME NEW k \in Kernel, NEW r, OnlyRunning(r, k)
    PROVE  /\ r.delay = k.delay /\ r.remain = k.remain /\ r.status = k.status
           /\ r.wakeup = k.wakeup /\ r.prio = k.prio /\ r.base = k.base
           /\ r.sync = k.sync /\ r.head = k.head /\ r.ready = k.ready
           /\ r.phase = k.phase /\ r.lock = k.lock /\ r.inISR = k.inISR
BY DEF Kernel, OnlyRunning

(* __DJY_EventReady puts an event that is READY and in no ready queue at   *)
(* the end of its priority, and changes nothing else.                      *)
LEMMA EventReadyCoherent ==
    ASSUME NEW k, NEW live \in SUBSET Event, NEW waits, Coherent(k, live, waits),
           NEW e \in Event, e \notin live, k.status[e] = READY
    PROVE  LET r == EventReady(k, e)
           IN  /\ Coherent(r, live \cup {e}, waits)
               /\ OnlyReady(r, k)
<1> DEFINE q == Append(k.ready[k.prio[e]], e)
           r == EventReady(k, e)
<1>1. /\ k \in Kernel /\ k.ready \in [Prio -> Seq(Event)] /\ k.prio[e] \in Prio
  BY KernelFields DEF Coherent
<1>2. e \notin ToSet(k.ready[k.prio[e]]) /\ IsInjective(k.ready[k.prio[e]])
  BY <1>1 DEF Coherent, ReadyCoherent, NoDuplicates
<1>3. /\ q \in Seq(Event) /\ IsInjective(q)
      /\ ToSet(q) = ToSet(k.ready[k.prio[e]]) \cup {e}
  BY <1>1, <1>2, QueueAppend
<1>4. r = [k EXCEPT !.ready = [k.ready EXCEPT ![k.prio[e]] = q]]
  BY <1>1 DEF EventReady, Kernel
<1> HIDE DEF q, r
<1>5. r \in Kernel
  BY <1>1, <1>3, <1>4 DEF Kernel
<1>6. r.ready = [k.ready EXCEPT ![k.prio[e]] = q] /\ OnlyReady(r, k)
  BY <1>1, <1>4 DEF Kernel, OnlyReady
<1>7. r.delay = k.delay /\ r.status = k.status /\ r.prio = k.prio
      /\ r.sync = k.sync /\ r.head = k.head
  BY <1>1, <1>4 DEF Kernel
<1>8. NoDuplicates(r)
  BY <1>1, <1>3, <1>6, <1>7 DEF NoDuplicates, Coherent
<1>9. ReadyCoherent(r, live \cup {e})
  BY <1>1, <1>3, <1>6, <1>7 DEF ReadyCoherent, Coherent
<1>10. SyncCoherent(r, waits) /\ DelayCoherent(r) /\ SleepsOnly(r)
  BY <1>7 DEF SyncCoherent, DelayCoherent, SleepsOnly, Coherent
<1>11. QED
  BY <1>5, <1>6, <1>8, <1>9, <1>10 DEF Coherent, r

(* __DJY_CutReadyEvent takes an event out of the ready queue.              *)
LEMMA CutReadyCoherent ==
    ASSUME NEW k, NEW live \in SUBSET Event, NEW waits, Coherent(k, live, waits),
           NEW e \in Event
    PROVE  LET r == CutReadyEvent(k, e)
           IN  /\ Coherent(r, live \ {e}, waits)
               /\ OnlyReady(r, k)
<1> DEFINE q == [p \in Prio |-> Cut(k.ready[p], e)]
           r == CutReadyEvent(k, e)
<1>1. k \in Kernel /\ k.ready \in [Prio -> Seq(Event)]
  BY KernelFields DEF Coherent
<1>2. \A p \in Prio : IsInjective(k.ready[p])
  BY DEF Coherent, NoDuplicates
<1>3. \A p \in Prio : /\ q[p] \in Seq(Event) /\ IsInjective(q[p])
                      /\ ToSet(q[p]) = ToSet(k.ready[p]) \ {e}
  BY <1>1, <1>2, QueueCut
<1>4. r = [k EXCEPT !.ready = q] /\ q = [p \in Prio |-> q[p]]
  BY DEF CutReadyEvent
<1> HIDE DEF q, r
<1>5. q \in [Prio -> Seq(Event)]
  BY <1>3, <1>4
<1>6. r \in Kernel
  BY <1>1, <1>4, <1>5 DEF Kernel
<1>7. r.ready = q /\ OnlyReady(r, k)
  BY <1>1, <1>4 DEF Kernel, OnlyReady
<1>8. r.delay = k.delay /\ r.status = k.status /\ r.prio = k.prio
      /\ r.sync = k.sync /\ r.head = k.head
  BY <1>1, <1>4 DEF Kernel
<1>9. NoDuplicates(r)
  BY <1>3, <1>7, <1>8 DEF NoDuplicates, Coherent
<1>10. ReadyCoherent(r, live \ {e})
  <2>1. ReadyCoherent(k, live)
    BY DEF Coherent
  <2>2. QED
    BY <1>3, <1>7, <1>8, <2>1 DEF ReadyCoherent
<1>11. SyncCoherent(r, waits) /\ DelayCoherent(r) /\ SleepsOnly(r)
  BY <1>8 DEF SyncCoherent, DelayCoherent, SleepsOnly, Coherent
<1>12. QED
  BY <1>6, <1>7, <1>9, <1>10, <1>11 DEF Coherent, r

-----------------------------------------------------------------------------
(* Scheduling.                                                             *)

(* What holds of the kernel whenever no call is being executed: the queues *)
(* agree with the control blocks, the system service event and the running *)
(* event are ready, and the running event is the best one if scheduling is *)
(* enabled.                                                                *)
Settled(k, waits) ==
    /\ Coherent(k, Event, waits)
    /\ k.status[Idle] = READY
    /\ k.status[k.running] = READY
    /\ HighestRuns(k)

(* The ready queue is never empty, because the system service event is     *)
(* always in it: the scheduler finds an event, and it is READY.            *)
LEMMA ReadyHeadExists ==
    ASSUME NEW k, NEW waits, Coherent(k, Event, waits), k.status[Idle] = READY
    PROVE  /\ ReadyHead(k) \in Event /\ k.status[ReadyHead(k)] = READY
           /\ TopPrio(k) \in Prio /\ k.ready[TopPrio(k)] # << >>
           /\ \A p \in Prio : k.ready[p] # << >> => TopPrio(k) <= p
<1> DEFINE T == {p \in Prio : k.ready[p] # << >>}
           P(p) == p \in Prio /\ k.ready[p] # << >>
                   /\ \A q \in Prio : k.ready[q] # << >> => p <= q
<1>1. k.ready \in [Prio -> Seq(Event)] /\ k.prio[Idle] \in Prio
  BY EventAssumption, KernelFields DEF Coherent
<1>2. Idle \in ToSet(k.ready[k.prio[Idle]])
  BY <1>1, EventAssumption DEF Coherent, ReadyCoherent
<1>3. k.ready[k.prio[Idle]] # << >>
  BY <1>2 DEF ToSet
<1>4. T \in SUBSET Nat /\ T # {}
  BY <1>1, <1>3, PrioAssumption DEF Prio
<1>5. PICK p \in T : \A q \in T : p <= q
  BY <1>4, LeastNatural
<1>6. /\ TopPrio(k) \in Prio /\ k.ready[TopPrio(k)] # << >>
      /\ \A q \in Prio : k.ready[q] # << >> => TopPrio(k) <= q
  BY <1>5 DEF TopPrio
<1>7. ReadyHead(k) \in Event /\ ReadyHead(k) \in ToSet(k.ready[TopPrio(k)])
  BY <1>1, <1>6, QueueTail DEF ReadyHead
<1>8. QED
  BY <1>6, <1>7 DEF Coherent, ReadyCoherent

(* The scheduler only changes the running event, and runs the best one.    *)
LEMMA ScheduleSettles ==
    ASSUME NEW k, NEW waits, Coherent(k, Event, waits), k.status[Idle] = READY
    PROVE  LET r == Schedule(k)
           IN  Settled(r, waits) /\ OnlyRunning(r, k)
<1> DEFINE r == Schedule(k)
<1>1. k \in Kernel
  BY DEF Coherent
<1>2. ReadyHead(k) \in Event /\ k.status[ReadyHead(k)] = READY
  BY ReadyHeadExists
<1>3. r = [k EXCEPT !.running = ReadyHead(k)]
  BY DEF Schedule
<1> HIDE DEF r
<1>4. r \in Kernel
  BY <1>1, <1>2, <1>3 DEF Kernel
<1>5. /\ r.running = ReadyHead(k) /\ OnlyRunning(r, k)
      /\ r.delay = k.delay /\ r.status = k.status /\ r.prio = k.prio
      /\ r.sync = k.sync /\ r.head = k.head /\ r.ready = k.ready
  BY <1>1, <1>3 DEF Kernel, OnlyRunning
<1>6. Coherent(r, Event, waits)
  BY <1>4, <1>5
     DEF Coherent, NoDuplicates, ReadyCoherent, SyncCoherent, DelayCoherent,
         SleepsOnly
<1>7. r.status[Idle] = READY /\ r.status[r.running] = READY
  BY <1>2, <1>5
<1>8. TopPrio(r) = TopPrio(k)
  <2>1. /\ TopPrio(k) \in Prio /\ k.ready[TopPrio(k)] # << >>
        /\ \A p \in Prio : k.ready[p] # << >> => TopPrio(k) <= p
    BY ReadyHeadExists
  <2>2. /\ TopPrio(r) \in Prio /\ k.ready[TopPrio(r)] # << >>
        /\ \A p \in Prio : k.ready[p] # << >> => TopPrio(r) <= p
    BY <1>5, <1>6, <1>7, ReadyHeadExists
  <2>3. TopPrio(k) <= TopPrio(r) /\ TopPrio(r) <= TopPrio(k)
    BY <2>1, <2>2
  <2>4. TopPrio(k) \in Int /\ TopPrio(r) \in Int
    BY <2>1, <2>2, PrioAssumption DEF Prio
  <2>5. QED
    BY <2>3, <2>4
<1>9. r.running = ReadyHead(r)
  BY <1>5, <1>8 DEF ReadyHead
<1>10. QED
  BY <1>5, <1>6, <1>7, <1>9 DEF Settled, HighestRuns, r

(* The end of a system call leaves the best event running if scheduling is *)
(* enabled; if not, the running event goes on and must still be ready.     *)
LEMMA RestoreSettles ==
    ASSUME NEW k, NEW waits, Coherent(k, Event, waits), k.status[Idle] = READY,
           k.lock # 0 => k.status[k.running] = READY
    PROVE  LET r == RestoreAsynSignal(k)
           IN  Settled(r, waits) /\ OnlyRunning(r, k)
<1>1. CASE k.lock = 0
  BY <1>1, ScheduleSettles DEF RestoreAsynSignal
<1>2. CASE k.lock # 0
  <2>1. RestoreAsynSignal(k) = k
    BY <1>2 DEF RestoreAsynSignal
  <2>2. OnlyRunning(k, k)
    BY DEF Coherent, Kernel, OnlyRunning
  <2>3. QED
    BY <1>2, <2>1, <2>2 DEF Settled, HighestRuns
<1>3. QED
  BY <1>1, <1>2

-----------------------------------------------------------------------------
(* Blocking.                                                               *)

LEMMA TicksType == ASSUME NEW us \in Nat PROVE Ticks(us) \in Int
<1>1. us + TICK_US - 1 \in Int /\ TICK_US \in Int /\ TICK_US > 0
  BY TickAssumption
<1>2. QED
  BY <1>1 DEF Ticks

(* An event that is ready is in no other queue.                            *)
LEMMA ReadyNowhereElse ==
    ASSUME NEW k, NEW live, NEW waits, Coherent(k, live, waits),
           NEW e \in Event, k.status[e] = READY
    PROVE  /\ k.head[e] = NoHead /\ e \notin ToSet(k.delay)
           /\ \A h \in SyncHead : e \notin ToSet(k.sync[h])
<1>1. k.head[e] = NoHead /\ e \notin ToSet(k.delay)
  BY DEF Coherent, SyncCoherent, DelayCoherent, READY
<1>2. QED
  BY <1>1, HeadAssumption DEF Coherent, SyncCoherent

(* The running event of k waits in queue h.                                *)
Blocked(r, k, h, sts) ==
    /\ r.running = k.running /\ r.lock = k.lock /\ r.inISR = k.inISR
    /\ r.wakeup = k.wakeup
    /\ r.head = [k.head EXCEPT ![k.running] = h]
    /\ \A x \in Event : x # k.running => r.status[x] = k.status[x]
    /\ sts \subseteq r.status[k.running] /\ "DELAY" \notin r.status[k.running]
    /\ \A g \in SyncHead : g # h => r.sync[g] = k.sync[g]

(* __DJY_AddRunningToBlock takes the running event out of the ready queue  *)
(* and puts it into the blocking queue and, with a timeout, into the alarm *)
(* queue.                                                                  *)
LEMMA BlockCoherent ==
    ASSUME NEW k, NEW waits, Coherent(k, Event, waits),
           k.status[k.running] = READY,
           NEW h \in SyncHead, NEW order, NEW us \in Timeout,
           NEW sts \in SUBSET Status, sts \cap waits # {},
           sts \cap {"DELAY", "SYNC_TIMEOUT"} = {}
    PROVE  LET r == AddRunningToBlock(k, h, order, us, sts)
           IN  /\ Coherent(r, Event, waits)
               /\ Blocked(r, k, h, sts)
<1> DEFINE e == k.running
           q == k.sync[h]
           sorted == order = "PRIO" /\ q # << >>
           i == IF sorted THEN FirstAbove(q, k.prio, k.prio[e]) ELSE Len(q) + 1
           bits == sts \cup (IF sorted THEN {"PRIO_SORT"} ELSE {})
                       \cup (IF us # TIMEOUT_FOREVER THEN {"SYNC_TIMEOUT"} ELSE {})
           c == CutReadyEvent(k, e)
           s == InsertAt(q, i, e)
           b == [c EXCEPT !.sync[h] = InsertAt(@, i, e), !.head[e] = h,
                          !.status[e] = @ \cup bits]
           t == Ticks(us)
           d == InsertAt(k.delay, FirstAbove(k.delay, k.remain, t), e)
           r == AddRunningToBlock(k, h, order, us, sts)
<1>1. /\ k.prio \in [Event -> Prio] /\ k.sync \in [SyncHead -> Seq(Event)]
      /\ k.remain \in [Event -> Int] /\ k.delay \in Seq(Event) /\ e \in Event
      /\ k.status \in [Event -> SUBSET Status] /\ k \in Kernel
      /\ k.head \in [Event -> SyncHead \cup {NoHead}]
  BY KernelFields DEF Coherent
<1>2. /\ e \notin ToSet(k.delay) /\ \A g \in SyncHead : e \notin ToSet(k.sync[g])
  BY <1>1, ReadyNowhereElse
<1>3. /\ \A g \in SyncHead : IsInjective(k.sync[g])
      /\ IsInjective(k.delay)
  BY DEF Coherent, NoDuplicates
<1>4. Coherent(c, Event \ {e}, waits) /\ OnlyReady(c, k)
  BY <1>1, CutReadyCoherent
<1>5. i \in 1 .. Len(q) + 1
  <2>1. k.prio \in [Event -> Int] /\ k.prio[e] \in Int /\ q \in Seq(Event)
    BY <1>1, PrioAssumption DEF Prio
  <2>2. FirstAbove(q, k.prio, k.prio[e]) \in 1 .. Len(q) + 1
    BY <2>1, FirstAbovePlace
  <2>3. Len(q) + 1 \in 1 .. Len(q) + 1
    BY <2>1
  <2>4. QED
    BY <2>2, <2>3
<1>6. s \in Seq(Event) /\ IsInjective(s) /\ ToSet(s) = ToSet(q) \cup {e}
  <2> HIDE DEF i
  <2>1. QED
    BY <1>1, <1>2, <1>3, <1>5, QueueInsert
<1>7. bits \in SUBSET Status /\ bits \cap waits # {} /\ bits # {}
      /\ (bits \cap {"DELAY", "SYNC_TIMEOUT"} # {} <=> us # TIMEOUT_FOREVER)
      /\ sts \subseteq bits /\ "DELAY" \notin bits
  BY DEF Status
<1>8. ASSUME us # TIMEOUT_FOREVER
      PROVE  d \in Seq(Event) /\ IsInjective(d) /\ ToSet(d) = ToSet(k.delay) \cup {e}
             /\ t \in Int
  <2>1. t \in Int
    BY <1>8, TicksType DEF Timeout
  <2> HIDE DEF t
  <2>2. FirstAbove(k.delay, k.remain, t) \in 1 .. Len(k.delay) + 1
    BY <1>1, <2>1, FirstAbovePlace
  <2>3. QED
    BY <1>1, <1>2, <1>3, <2>1, <2>2, QueueInsert
<1> DEFINE B == [k EXCEPT !.ready = c.ready, !.sync = [k.sync EXCEPT ![h] = s],
                          !.head = [k.head EXCEPT ![e] = h],
                          !.status = [k.status EXCEPT ![e] = bits]]
<1>9. c.sync = k.sync /\ c.head = k.head /\ c.status = k.status
      /\ c.delay = k.delay /\ c.remain = k.remain /\ c.running = e
  BY <1>1, <1>4, OnlyReadyFields
<1>10. b = B
  <2> HIDE DEF c, i, bits
  <2>1. b = [c EXCEPT !.sync = [c.sync EXCEPT ![h] = InsertAt(c.sync[h], i, e)],
                      !.head = [c.head EXCEPT ![e] = h],
                      !.status = [c.status EXCEPT ![e] = c.status[e] \cup bits]]
    BY <1>1, <1>4, <1>9 DEF Kernel, OnlyReady
  <2>2. c.status[e] \cup bits = bits
    BY <1>9 DEF READY
  <2>3. b = [c EXCEPT !.sync = [k.sync EXCEPT ![h] = s],
                      !.head = [k.head EXCEPT ![e] = h],
                      !.status = [k.status EXCEPT ![e] = bits]]
    BY <2>1, <2>2, <1>9
  <2>4. QED
    BY <1>1, <1>4, <2>3 DEF Kernel, OnlyReady
<1>11. r = IF us # TIMEOUT_FOREVER THEN AddToDelay(b, us) ELSE b
  BY DEF AddRunningToBlock
<1> HIDE DEF b, r, c, s, bits, i, q, sorted, d, t, e
<1>12. /\ B.delay = k.delay /\ B.remain = k.remain /\ B.running = e
  BY <1>1 DEF Kernel, e
<1>13. AddToDelay(b, us) = [B EXCEPT !.delay = d, !.remain = [k.remain EXCEPT ![e] = t]]
  BY <1>1, <1>10, <1>12 DEF AddToDelay, Kernel, d, t
<1>14. r = [k EXCEPT !.ready = c.ready, !.sync = [k.sync EXCEPT ![h] = s],
                     !.head = [k.head EXCEPT ![e] = h],
                     !.status = [k.status EXCEPT ![e] = bits],
                     !.delay = IF us # TIMEOUT_FOREVER THEN d ELSE k.delay,
                     !.remain = IF us # TIMEOUT_FOREVER THEN [k.remain EXCEPT ![e] = t]
                                ELSE k.remain]
  <2>1. CASE us # TIMEOUT_FOREVER
    BY <1>1, <1>11, <1>13, <2>1 DEF Kernel
  <2>2. CASE us = TIMEOUT_FOREVER
    BY <1>1, <1>10, <1>11, <2>2 DEF Kernel
  <2>3. QED
    BY <2>1, <2>2
<1>15. c.ready \in [Prio -> Seq(Event)]
  BY <1>4, KernelFields DEF Coherent
<1>16. r \in Kernel
  <2>1. (IF us # TIMEOUT_FOREVER THEN d ELSE k.delay) \in Seq(Event)
    BY <1>1, <1>8
  <2>2. (IF us # TIMEOUT_FOREVER THEN [k.remain EXCEPT ![e] = t] ELSE k.remain)
            \in [Event -> Int]
    BY <1>1, <1>8
  <2>3. [k.status EXCEPT ![e] = bits] \in [Event -> SUBSET Status]
    BY <1>1, <1>7
  <2>4. /\ [k.sync EXCEPT ![h] = s] \in [SyncHead -> Seq(Event)]
        /\ [k.head EXCEPT ![e] = h] \in [Event -> SyncHead \cup {NoHead}]
    BY <1>1, <1>6
  <2>5. QED
    BY <1>1, <1>14, <1>15, <2>1, <2>2, <2>3, <2>4 DEF Kernel
<1>17. /\ r.ready = c.ready /\ r.sync = [k.sync EXCEPT ![h] = s]
       /\ r.head = [k.head EXCEPT ![e] = h] /\ r.status = [k.status EXCEPT ![e] = bits]
       /\ r.delay = IF us # TIMEOUT_FOREVER THEN d ELSE k.delay
       /\ r.prio = k.prio /\ r.running = k.running /\ r.lock = k.lock
       /\ r.inISR = k.inISR /\ r.wakeup = k.wakeup
  BY <1>1, <1>14 DEF Kernel
<1>18. NoDuplicates(r)
  BY <1>1, <1>3, <1>4, <1>6, <1>8, <1>17 DEF Coherent, NoDuplicates
<1>19. ReadyCoherent(r, Event)
  <2>1. ReadyCoherent(c, Event \ {e}) /\ c.status = k.status /\ c.prio = k.prio
    <3>1. c.status = k.status /\ c.prio = k.prio
      BY <1>1, <1>4, OnlyReadyFields
    <3>2. QED
      BY <1>4, <3>1 DEF Coherent
  <2>2. QED
    BY <1>1, <1>7, <1>17, <2>1 DEF ReadyCoherent, READY
<1>20. SyncCoherent(r, waits)
  <2>1. SyncCoherent(k, waits)
    BY DEF Coherent
  <2>2. \A g \in SyncHead : ToSet(r.sync[g]) = IF g = h THEN ToSet(k.sync[h]) \cup {e}
                                                ELSE ToSet(k.sync[g])
    BY <1>1, <1>6, <1>17 DEF q
  <2>3. k.head[e] = NoHead
    BY <1>1, ReadyNowhereElse DEF e
  <2>4. QED
    BY <1>1, <1>7, <1>17, <2>1, <2>2, <2>3, HeadAssumption DEF SyncCoherent
<1>21. DelayCoherent(r)
  <2>1. DelayCoherent(k)
    BY DEF Coherent
  <2>2. ToSet(r.delay) = IF us # TIMEOUT_FOREVER THEN ToSet(k.delay) \cup {e}
                         ELSE ToSet(k.delay)
    BY <1>8, <1>17
  <2>3. QED
    BY <1>1, <1>2, <1>7, <1>17, <2>1, <2>2 DEF DelayCoherent
<1>22. Coherent(r, Event, waits)
  <2>1. SleepsOnly(r)
    BY <1>1, <1>7, <1>17 DEF SleepsOnly, Coherent
  <2>2. QED
    BY <1>16, <1>18, <1>19, <1>20, <1>21, <2>1 DEF Coherent
<1>23. Blocked(r, k, h, sts)
  BY <1>1, <1>7, <1>17 DEF e, Blocked
<1>24. QED
  BY <1>22, <1>23 DEF r

(* A delay takes the running event out of the ready queue and puts it into *)
(* the alarm queue.                                                        *)
LEMMA DelayRunningCoherent ==
    ASSUME NEW k, NEW waits, Coherent(k, Event, waits), "DELAY" \notin waits,
           k.status[k.running] = READY, NEW t \in Int
    PROVE  LET r == DelayRunning(k, t)
           IN  /\ Coherent(r, Event, waits)
               /\ r.running = k.running /\ r.lock = k.lock /\ r.inISR = k.inISR
               /\ r.wakeup = k.wakeup /\ r.head = k.head /\ r.sync = k.sync
               /\ r.status = [k.status EXCEPT ![k.running] = {"DELAY"}]
<1> DEFINE e == k.running
           c == CutReadyEvent(k, e)
           d == InsertAt(k.delay, FirstAbove(k.delay, k.remain, t), e)
           r == DelayRunning(k, t)
<1>1. /\ k.remain \in [Event -> Int] /\ k.delay \in Seq(Event) /\ e \in Event
      /\ k.status \in [Event -> SUBSET Status] /\ k \in Kernel
  BY KernelFields DEF Coherent
<1>2. /\ e \notin ToSet(k.delay) /\ k.head[e] = NoHead
  BY <1>1, ReadyNowhereElse
<1>3. IsInjective(k.delay)
  BY DEF Coherent, NoDuplicates
<1>4. Coherent(c, Event \ {e}, waits) /\ OnlyReady(c, k)
  BY <1>1, CutReadyCoherent
<1>5. d \in Seq(Event) /\ IsInjective(d) /\ ToSet(d) = ToSet(k.delay) \cup {e}
  <2>1. FirstAbove(k.delay, k.remain, t) \in 1 .. Len(k.delay) + 1
    BY <1>1, FirstAbovePlace
  <2>2. QED
    BY <1>1, <1>2, <1>3, <2>1, QueueInsert
<1>6. r = [k EXCEPT !.ready = c.ready, !.status = [k.status EXCEPT ![e] = {"DELAY"}],
                    !.delay = d, !.remain = [k.remain EXCEPT ![e] = t]]
  <2>1. c.status = k.status /\ c.delay = k.delay /\ c.remain = k.remain
    BY <1>1, <1>4, OnlyReadyFields
  <2>2. r = [c EXCEPT !.status[e] = {"DELAY"}, !.delay = d, !.remain[e] = t]
    <3>1. r = [c EXCEPT !.status[e] = {"DELAY"},
                        !.delay = InsertAt(@, FirstAbove(@, k.remain, t), e),
                        !.remain[e] = t]
      BY DEF DelayRunning
    <3> HIDE DEF c, r
    <3>2. QED
      BY <1>1, <1>4, <2>1, <3>1 DEF Kernel, OnlyReady
  <2> HIDE DEF c, r, d
  <2>3. QED
    BY <1>1, <1>4, <2>1, <2>2 DEF Kernel, OnlyReady
<1> HIDE DEF c, r, d, e
<1>7. c.ready \in [Prio -> Seq(Event)]
  BY <1>4, KernelFields DEF Coherent
<1>8. [k.status EXCEPT ![e] = {"DELAY"}] \in [Event -> SUBSET Status]
  BY <1>1 DEF Status
<1>9. [k.remain EXCEPT ![e] = t] \in [Event -> Int]
  BY <1>1
<1>10. r \in Kernel
  BY <1>1, <1>5, <1>6, <1>7, <1>8, <1>9 DEF Kernel
<1>11. /\ r.ready = c.ready /\ r.sync = k.sync /\ r.head = k.head
       /\ r.status = [k.status EXCEPT ![e] = {"DELAY"}] /\ r.delay = d
       /\ r.prio = k.prio /\ r.running = k.running /\ r.lock = k.lock
       /\ r.inISR = k.inISR /\ r.wakeup = k.wakeup
  BY <1>1, <1>6 DEF Kernel
<1>12. NoDuplicates(r)
  BY <1>4, <1>5, <1>11 DEF Coherent, NoDuplicates
<1>13. ReadyCoherent(r, Event)
  <2>1. c.status = k.status /\ c.prio = k.prio
    BY <1>1, <1>4, OnlyReadyFields
  <2>2. ReadyCoherent(c, Event \ {e})
    BY <1>4 DEF Coherent
  <2>3. ASSUME NEW x \in Event
        PROVE  r.status[x] = READY <=> x # e /\ k.status[x] = READY
    BY <1>1, <1>11 DEF READY, e
  <2>4. QED
    BY <1>1, <1>11, <2>1, <2>2, <2>3 DEF ReadyCoherent
<1>14. SyncCoherent(r, waits)
  BY <1>1, <1>2, <1>11 DEF SyncCoherent, Coherent
<1>15. DelayCoherent(r) /\ SleepsOnly(r)
  BY <1>1, <1>5, <1>11 DEF DelayCoherent, SleepsOnly, Coherent
<1>16. QED
  BY <1>10, <1>11, <1>12, <1>13, <1>14, <1>15 DEF Coherent, r, e

(* Round robin moves the running event within the ready queue.             *)
LEMMA RotateCoherent ==
    ASSUME NEW k, NEW waits, Coherent(k, Event, waits), k.status[k.running] = READY
    PROVE  LET r == Rotate(k)
           IN  Coherent(r, Event, waits) /\ OnlyReady(r, k)
<1> DEFINE e == k.running
           c == CutReadyEvent(k, e)
           r == EventReady(c, e)
<1>1. k \in Kernel /\ e \in Event
  BY KernelFields DEF Coherent
<1>2. Coherent(c, Event \ {e}, waits) /\ OnlyReady(c, k)
  BY <1>1, CutReadyCoherent
<1> HIDE DEF c
<1>3. c.status = k.status
  BY <1>1, <1>2, OnlyReadyFields
<1>4. Coherent(r, (Event \ {e}) \cup {e}, waits) /\ OnlyReady(r, c)
  BY <1>1, <1>2, <1>3, EventReadyCoherent
<1> HIDE DEF r, e
<1>5. (Event \ {e}) \cup {e} = Event
  BY <1>1
<1>6. OnlyReady(r, k)
  BY <1>1, <1>2, <1>4 DEF Kernel, OnlyReady
<1>7. QED
  BY <1>4, <1>5, <1>6 DEF Rotate, r, c, e

-----------------------------------------------------------------------------
(* Waking.                                                                 *)

(* An event e leaves its blocking queue, if it is in one, and the alarm    *)
(* queue, if it is in it, and becomes READY: between two queues.           *)
LEMMA Unblocked ==
    ASSUME NEW k, NEW waits, Coherent(k, Event, waits),
           NEW e \in Event, k.status[e] # READY,
           NEW r \in Kernel,
           r.ready = k.ready, r.prio = k.prio,
           NEW why, Woken(r, k, e, why),
           LeftQueues(r, k, e),
           IsInjective(r.delay), ToSet(r.delay) = ToSet(k.delay) \ {e}
    PROVE  Coherent(r, Event \ {e}, waits)
<1>1. k \in Kernel /\ k.status \in [Event -> SUBSET Status]
      /\ k.head \in [Event -> SyncHead \cup {NoHead}]
      /\ r.status = [k.status EXCEPT ![e] = READY]
      /\ r.head = [k.head EXCEPT ![e] = NoHead]
  BY KernelFields DEF Coherent, Woken
<1>2. NoDuplicates(r)
  BY DEF NoDuplicates, Coherent, LeftQueues
<1>3. ReadyCoherent(r, Event \ {e})
  <2>1. ReadyCoherent(k, Event)
    BY DEF Coherent
  <2>2. ASSUME NEW x \in Event
        PROVE  r.status[x] = IF x = e THEN READY ELSE k.status[x]
    BY <1>1
  <2>3. QED
    BY <2>1, <2>2 DEF ReadyCoherent
<1>4. SyncCoherent(r, waits)
  <2>1. SyncCoherent(k, waits)
    BY DEF Coherent
  <2>2. ASSUME NEW x \in Event
        PROVE  /\ \A h \in SyncHead : x \in ToSet(r.sync[h]) <=> r.head[x] = h
               /\ r.head[x] # NoHead <=> r.status[x] \cap waits # {}
    <3>1. CASE x = e
      <4>1. r.head[e] = NoHead /\ r.status[e] = {}
        BY <1>1 DEF READY
      <4>2. QED
        BY <3>1, <4>1, HeadAssumption DEF LeftQueues
    <3>2. CASE x # e
      <4>1. r.head[x] = k.head[x] /\ r.status[x] = k.status[x]
        BY <1>1, <3>2
      <4>2. QED
        BY <2>1, <3>2, <4>1 DEF SyncCoherent, LeftQueues
    <3>3. QED
      BY <3>1, <3>2
  <2>3. QED
    BY <2>2 DEF SyncCoherent
<1>5. DelayCoherent(r) /\ SleepsOnly(r)
  <2>1. DelayCoherent(k) /\ SleepsOnly(k)
    BY DEF Coherent
  <2>2. ASSUME NEW x \in Event
        PROVE  r.status[x] = IF x = e THEN {} ELSE k.status[x]
    BY <1>1 DEF READY
  <2>3. QED
    BY <2>1, <2>2 DEF DelayCoherent, SleepsOnly
<1>6. QED
  BY <1>2, <1>3, <1>4, <1>5 DEF Coherent

(* Taking an event that is in a queue out of it.                           *)
LEMMA CutOther ==
    ASSUME NEW k, NEW waits, Coherent(k, Event, waits), NEW e \in Event,
           NEW h \in SyncHead, k.head[e] = h \/ k.head[e] = NoHead,
           NEW s, ToSet(s) = ToSet(k.sync[h]) \ {e}, IsInjective(s)
    PROVE  \A g \in SyncHead :
              /\ IsInjective([k.sync EXCEPT ![h] = s][g])
              /\ ToSet([k.sync EXCEPT ![h] = s][g]) = ToSet(k.sync[g]) \ {e}
<1>1. k.sync \in [SyncHead -> Seq(Event)]
  BY KernelFields DEF Coherent
<1>2. SUFFICES ASSUME NEW g \in SyncHead, g # h
               PROVE  IsInjective(k.sync[g]) /\ e \notin ToSet(k.sync[g])
  BY <1>1
<1>3. IsInjective(k.sync[g])
  BY DEF Coherent, NoDuplicates
<1>4. e \notin ToSet(k.sync[g])
  BY <1>2, HeadAssumption DEF Coherent, SyncCoherent
<1>5. QED
  BY <1>3, <1>4

(* The first event of a blocking queue is woken by what it waits for.      *)
LEMMA WakeFirstCoherent ==
    ASSUME NEW k, NEW waits, Coherent(k, Event, waits), "DELAY" \notin waits,
           NEW h \in SyncHead, k.sync[h] # << >>, NEW sts \in SUBSET Status
    PROVE  LET e == Head(k.sync[h])
               r == WakeFirst(k, h, sts)
           IN  /\ e \in Event /\ k.head[e] = h /\ k.status[e] \cap waits # {}
               /\ Coherent(r, Event \ {e}, waits)
               /\ Woken(r, k, e, sts) /\ LeftQueues(r, k, e)
<1> DEFINE e == Head(k.sync[h])
           r == WakeFirst(k, h, sts)
           timed == "SYNC_TIMEOUT" \in k.status[e]
           d == IF timed THEN Cut(k.delay, e) ELSE k.delay
           m == IF timed THEN [k.remain EXCEPT ![e] = 0] ELSE k.remain
           s == Tail(k.sync[h])
<1>1. /\ k \in Kernel /\ k.sync \in [SyncHead -> Seq(Event)]
      /\ k.delay \in Seq(Event) /\ k.remain \in [Event -> Int]
      /\ k.status \in [Event -> SUBSET Status]
      /\ k.wakeup \in [Event -> SUBSET Status]
      /\ k.head \in [Event -> SyncHead \cup {NoHead}]
  BY KernelFields DEF Coherent
<1>2. IsInjective(k.sync[h]) /\ IsInjective(k.delay)
  BY DEF Coherent, NoDuplicates
<1>3. /\ e \in Event /\ e \in ToSet(k.sync[h])
      /\ s \in Seq(Event) /\ IsInjective(s) /\ ToSet(s) = ToSet(k.sync[h]) \ {e}
  BY <1>1, <1>2, QueueTail
<1> HIDE DEF e, s
<1>4. k.head[e] = h /\ k.status[e] \cap waits # {}
  BY <1>3, HeadAssumption DEF Coherent, SyncCoherent
<1>5. "DELAY" \notin k.status[e] /\ k.status[e] # READY
  BY <1>3, <1>4 DEF Coherent, SleepsOnly, READY
<1>6. d \in Seq(Event) /\ IsInjective(d) /\ ToSet(d) = ToSet(k.delay) \ {e}
  <2>1. CASE timed
    BY <1>1, <1>2, <2>1, QueueCut
  <2>2. CASE ~timed
    <3>1. e \notin ToSet(k.delay)
      BY <1>3, <1>5, <2>2 DEF Coherent, DelayCoherent
    <3>2. QED
      BY <1>1, <1>2, <2>2, <3>1
  <2>3. QED
    BY <2>1, <2>2
<1>7. m \in [Event -> Int]
  <2>1. [k.remain EXCEPT ![e] = 0] \in [Event -> Int]
    <3> DEFINE z == 0
    <3>1. z \in Int
      OBVIOUS
    <3> HIDE DEF z
    <3>2. [k.remain EXCEPT ![e] = z] \in [Event -> Int]
      BY <1>1, <3>1
    <3>3. QED
      BY <3>2 DEF z
  <2>2. QED
    BY <1>1, <2>1
<1>8. r = [k EXCEPT !.delay = d, !.remain = m, !.sync = [k.sync EXCEPT ![h] = s],
                    !.head = [k.head EXCEPT ![e] = NoHead],
                    !.status = [k.status EXCEPT ![e] = READY],
                    !.wakeup = [k.wakeup EXCEPT ![e] = sts]]
  <2>1. CASE timed
    BY <1>1, <2>1 DEF WakeFirst, ResumeDelay, Kernel, e, s
  <2>2. CASE ~timed
    BY <1>1, <2>2 DEF WakeFirst, Kernel, e, s
  <2>3. QED
    BY <2>1, <2>2
<1> HIDE DEF r, d, m, timed
<1>9. r \in Kernel
  <2>1. [k.status EXCEPT ![e] = READY] \in [Event -> SUBSET Status]
    BY <1>1 DEF READY
  <2>2. [k.wakeup EXCEPT ![e] = sts] \in [Event -> SUBSET Status]
    BY <1>1
  <2>3. [k.head EXCEPT ![e] = NoHead] \in [Event -> SyncHead \cup {NoHead}]
    BY <1>1
  <2>4. [k.sync EXCEPT ![h] = s] \in [SyncHead -> Seq(Event)]
    BY <1>1, <1>3
  <2>5. QED
    BY <1>1, <1>6, <1>7, <1>8, <2>1, <2>2, <2>3, <2>4 DEF Kernel
<1>10. /\ r.ready = k.ready /\ r.sync = [k.sync EXCEPT ![h] = s]
       /\ Woken(r, k, e, sts) /\ r.delay = d /\ r.prio = k.prio
  BY <1>1, <1>8 DEF Kernel, Woken
<1>11. LeftQueues(r, k, e)
  BY <1>3, <1>4, <1>10, CutOther DEF LeftQueues
<1>12. Coherent(r, Event \ {e}, waits)
  BY <1>3, <1>5, <1>6, <1>9, <1>10, <1>11, Unblocked
<1>13. QED
  BY <1>3, <1>4, <1>10, <1>11, <1>12 DEF r, e

(* It then enters the ready queue.                                         *)
LEMMA ReadyWoken ==
    ASSUME NEW k, NEW waits, Coherent(k, Event, waits), NEW e \in Event,
           NEW w, Coherent(w, Event \ {e}, waits),
           NEW why, Woken(w, k, e, why), LeftQueues(w, k, e)
    PROVE  LET r == EventReady(w, e)
           IN  /\ Coherent(r, Event, waits)
               /\ Woken(r, k, e, why) /\ LeftQueues(r, k, e)
<1> DEFINE r == EventReady(w, e)
<1>1. w \in Kernel /\ k.status \in [Event -> SUBSET Status]
  BY KernelFields DEF Coherent
<1>2. w.status[e] = READY
  BY <1>1 DEF Woken
<1>3. Coherent(r, (Event \ {e}) \cup {e}, waits) /\ OnlyReady(r, w)
  <2>1. Event \ {e} \in SUBSET Event /\ e \notin Event \ {e}
    OBVIOUS
  <2>2. QED
    BY <1>2, <2>1, EventReadyCoherent
<1> HIDE DEF r
<1>4. (Event \ {e}) \cup {e} = Event
  OBVIOUS
<1>5. /\ r.running = w.running /\ r.lock = w.lock /\ r.inISR = w.inISR
      /\ r.wakeup = w.wakeup /\ r.head = w.head /\ r.status = w.status
      /\ r.sync = w.sync
  BY <1>1, <1>3, OnlyReadyFields
<1>6. Woken(r, k, e, why) /\ LeftQueues(r, k, e)
  BY <1>5 DEF Woken, LeftQueues
<1>7. QED
  BY <1>3, <1>4, <1>6 DEF r

LEMMA WakeCoherent ==
    ASSUME NEW k, NEW waits, Coherent(k, Event, waits), "DELAY" \notin waits,
           NEW h \in SyncHead, k.sync[h] # << >>, NEW sts \in SUBSET Status
    PROVE  LET e == Head(k.sync[h])
               r == EventReady(WakeFirst(k, h, sts), e)
           IN  /\ e \in Event /\ k.head[e] = h /\ k.status[e] \cap waits # {}
               /\ Coherent(r, Event, waits)
               /\ Woken(r, k, e, sts) /\ LeftQueues(r, k, e)
<1> DEFINE e == Head(k.sync[h])
           w == WakeFirst(k, h, sts)
           r == EventReady(w, e)
<1>1. /\ e \in Event /\ k.head[e] = h /\ k.status[e] \cap waits # {}
      /\ Coherent(w, Event \ {e}, waits)
      /\ Woken(w, k, e, sts) /\ LeftQueues(w, k, e)
  BY WakeFirstCoherent
<1> HIDE DEF w, e
<1>2. QED
  BY <1>1, ReadyWoken DEF e, w

(* The first event of the alarm queue is woken by its alarm.               *)
LEMMA TickWakeCoherent ==
    ASSUME NEW k, NEW waits, Coherent(k, Event, waits), k.delay # << >>
    PROVE  LET e == Head(k.delay)
               r == TickWake(k)
           IN  /\ e \in Event /\ k.status[e] \cap {"DELAY", "SYNC_TIMEOUT"} # {}
               /\ Coherent(r, Event, waits)
               /\ Woken(r, k, e, k.status[e]) /\ LeftQueues(r, k, e)
<1> DEFINE e == Head(k.delay)
           h == k.head[e]
           s == IF h = NoHead THEN k.sync ELSE [k.sync EXCEPT ![h] = Cut(k.sync[h], e)]
           d == Tail(k.delay)
           w == [k EXCEPT !.sync = s, !.head = [k.head EXCEPT ![e] = NoHead],
                          !.wakeup = [k.wakeup EXCEPT ![e] = k.status[e]],
                          !.status = [k.status EXCEPT ![e] = READY],
                          !.delay = d, !.remain = [k.remain EXCEPT ![e] = 0]]
           r == TickWake(k)
<1>1. /\ k \in Kernel /\ k.sync \in [SyncHead -> Seq(Event)]
      /\ k.delay \in Seq(Event) /\ k.remain \in [Event -> Int]
      /\ k.status \in [Event -> SUBSET Status]
      /\ k.wakeup \in [Event -> SUBSET Status]
      /\ k.head \in [Event -> SyncHead \cup {NoHead}]
  BY KernelFields DEF Coherent
<1>2. IsInjective(k.delay)
  BY DEF Coherent, NoDuplicates
<1>3. /\ e \in Event /\ e \in ToSet(k.delay)
      /\ d \in Seq(Event) /\ IsInjective(d) /\ ToSet(d) = ToSet(k.delay) \ {e}
  BY <1>1, <1>2, QueueTail
<1>4. r = EventReady(w, e)
  <2> HIDE DEF e, d
  <2>1. CASE h = NoHead
    <3>1. k.head = [k.head EXCEPT ![e] = NoHead]
      BY <1>1, <1>3, <2>1
    <3>2. [k EXCEPT !.wakeup[e] = k.status[e], !.status[e] = READY,
                    !.delay = d, !.remain[e] = 0] = w
      BY <1>1, <2>1, <3>1 DEF Kernel
    <3>3. TickWake(k) = EventReady([k EXCEPT !.wakeup[e] = k.status[e],
                             !.status[e] = READY, !.delay = d, !.remain[e] = 0], e)
      BY <2>1 DEF TickWake, e, d
    <3>4. QED
      BY <3>2, <3>3
  <2>2. CASE h # NoHead
    <3> DEFINE o == [k EXCEPT !.sync[h] = Cut(@, e), !.head[e] = NoHead]
    <3>1. [o EXCEPT !.wakeup[e] = k.status[e], !.status[e] = READY,
                    !.delay = Tail(@), !.remain[e] = 0] = w
      BY <1>1, <2>2 DEF Kernel, d
    <3>2. TickWake(k) = EventReady([o EXCEPT !.wakeup[e] = k.status[e],
                       !.status[e] = READY, !.delay = Tail(@), !.remain[e] = 0], e)
      BY <2>2 DEF TickWake, e
    <3>3. QED
      BY <3>1, <3>2
  <2>3. QED
    BY <2>1, <2>2
<1> HIDE DEF e, d
<1>5. k.status[e] \cap {"DELAY", "SYNC_TIMEOUT"} # {} /\ k.status[e] # READY
  BY <1>3 DEF Coherent, DelayCoherent, READY
<1>6. /\ s \in [SyncHead -> Seq(Event)]
      /\ \A g \in SyncHead : /\ IsInjective(s[g])
                             /\ ToSet(s[g]) = ToSet(k.sync[g]) \ {e}
  <2>1. CASE h = NoHead
    <3>1. \A g \in SyncHead : e \notin ToSet(k.sync[g])
      BY <1>3, <2>1, HeadAssumption DEF Coherent, SyncCoherent
    <3>2. \A g \in SyncHead : IsInjective(k.sync[g])
      BY DEF Coherent, NoDuplicates
    <3>3. QED
      BY <1>1, <2>1, <3>1, <3>2
  <2>2. CASE h # NoHead
    <3>1. h \in SyncHead
      BY <1>1, <1>3, <2>2
    <3>2. IsInjective(k.sync[h]) /\ k.sync[h] \in Seq(Event)
      BY <1>1, <3>1 DEF Coherent, NoDuplicates
    <3> DEFINE x == Cut(k.sync[h], e)
    <3>3. x \in Seq(Event) /\ IsInjective(x) /\ ToSet(x) = ToSet(k.sync[h]) \ {e}
      BY <3>2, QueueCut
    <3>4. s = [k.sync EXCEPT ![h] = x]
      BY <2>2
    <3> HIDE DEF x, s
    <3>5. s \in [SyncHead -> Seq(Event)]
      BY <1>1, <3>3, <3>4
    <3>6. QED
      BY <1>3, <3>1, <3>3, <3>4, <3>5, CutOther
  <2>3. QED
    BY <2>1, <2>2
<1> HIDE DEF s
<1>7. w \in Kernel
  <2>1. [k.status EXCEPT ![e] = READY] \in [Event -> SUBSET Status]
    BY <1>1 DEF READY
  <2>2. [k.wakeup EXCEPT ![e] = k.status[e]] \in [Event -> SUBSET Status]
    BY <1>1, <1>3
  <2>3. [k.head EXCEPT ![e] = NoHead] \in [Event -> SyncHead \cup {NoHead}]
    BY <1>1
  <2>4. [k.remain EXCEPT ![e] = 0] \in [Event -> Int]
    <3> DEFINE z == 0
    <3>1. z \in Int
      OBVIOUS
    <3> HIDE DEF z
    <3>2. [k.remain EXCEPT ![e] = z] \in [Event -> Int]
      BY <1>1, <3>1
    <3>3. QED
      BY <3>2 DEF z
  <2>5. QED
    BY <1>1, <1>3, <1>6, <2>1, <2>2, <2>3, <2>4 DEF Kernel
<1>8. /\ w.ready = k.ready /\ w.sync = s /\ w.delay = d /\ w.prio = k.prio
      /\ Woken(w, k, e, k.status[e])
  BY <1>1 DEF Kernel, Woken
<1>9. LeftQueues(w, k, e)
  BY <1>6, <1>8 DEF LeftQueues
<1> HIDE DEF w, r
<1>10. Coherent(w, Event \ {e}, waits)
  BY <1>3, <1>5, <1>7, <1>8, <1>9, Unblocked
<1>11. /\ Coherent(r, Event, waits)
       /\ Woken(r, k, e, k.status[e]) /\ LeftQueues(r, k, e)
  BY <1>3, <1>4, <1>8, <1>9, <1>10, ReadyWoken
<1>12. QED
  BY <1>3, <1>5, <1>11 DEF r, e

-----------------------------------------------------------------------------
(* Priorities and the tick.                                                *)

(* r and k differ in the ready queue and the priorities only.              *)
OnlyPrio(r, k) ==
    /\ r.delay = k.delay /\ r.status = k.status /\ r.wakeup = k.wakeup
    /\ r.sync = k.sync /\ r.head = k.head /\ r.running = k.running
    /\ r.lock = k.lock /\ r.inISR = k.inISR

(* A new priority moves a ready event to the end of its new priority and   *)
(* leaves every other event where it is.                                   *)
LEMMA ChangePrioCoherent ==
    ASSUME NEW k, NEW waits, Coherent(k, Event, waits),
           NEW e \in Event, NEW p \in Prio
    PROVE  LET r == ChangePrio(k, e, p)
           IN  Coherent(r, Event, waits) /\ OnlyPrio(r, k)
<1> DEFINE c == CutReadyEvent(k, e)
           b == [c EXCEPT !.prio[e] = p]
           n == [k EXCEPT !.prio[e] = p]
           r == ChangePrio(k, e, p)
<1>1. k \in Kernel /\ k.prio \in [Event -> Prio]
  BY KernelFields DEF Coherent
<1>2. CASE k.status[e] = READY
  <2>1. Coherent(c, Event \ {e}, waits) /\ OnlyReady(c, k)
    BY CutReadyCoherent
  <2>2. /\ c.delay = k.delay /\ c.status = k.status /\ c.wakeup = k.wakeup
        /\ c.sync = k.sync /\ c.head = k.head /\ c.running = k.running
        /\ c.lock = k.lock /\ c.inISR = k.inISR /\ c.prio = k.prio
    BY <1>1, <2>1, OnlyReadyFields
  <2>3. r = EventReady(b, e)
    BY <1>2 DEF ChangePrio
  <2> HIDE DEF c, r
  <2>4. c \in Kernel
    BY <2>1 DEF Coherent
  <2>5. b \in Kernel
    BY <1>1, <2>2, <2>4 DEF Kernel
  <2>6. /\ b.ready = c.ready /\ b.delay = c.delay /\ b.status = c.status
        /\ b.wakeup = c.wakeup /\ b.sync = c.sync /\ b.head = c.head
        /\ b.running = c.running /\ b.lock = c.lock /\ b.inISR = c.inISR
        /\ b.prio = [k.prio EXCEPT ![e] = p]
    BY <2>2, <2>4 DEF Kernel
  <2> HIDE DEF b
  <2>7. ReadyCoherent(b, Event \ {e})
    <3>1. ReadyCoherent(c, Event \ {e})
      BY <2>1 DEF Coherent
    <3>2. \A x \in Event : x # e => b.prio[x] = c.prio[x]
      BY <1>1, <2>2, <2>6
    <3>3. QED
      BY <2>6, <3>1, <3>2 DEF ReadyCoherent
  <2>8. Coherent(b, Event \ {e}, waits)
    BY <2>1, <2>5, <2>6, <2>7
       DEF Coherent, NoDuplicates, SyncCoherent, DelayCoherent, SleepsOnly
  <2>9. Coherent(r, (Event \ {e}) \cup {e}, waits) /\ OnlyReady(r, b)
    <3>1. Event \ {e} \in SUBSET Event /\ e \notin Event \ {e} /\ b.status[e] = READY
      BY <1>2, <2>2, <2>6
    <3>2. QED
      BY <2>3, <2>8, <3>1, EventReadyCoherent
  <2>10. (Event \ {e}) \cup {e} = Event
    OBVIOUS
  <2>11. /\ r.delay = b.delay /\ r.status = b.status /\ r.wakeup = b.wakeup
         /\ r.sync = b.sync /\ r.head = b.head /\ r.running = b.running
         /\ r.lock = b.lock /\ r.inISR = b.inISR
    BY <2>5, <2>9, OnlyReadyFields
  <2>12. QED
    BY <2>2, <2>6, <2>9, <2>10, <2>11 DEF OnlyPrio, r
<1>3. CASE k.status[e] # READY
  <2>1. r = n
    BY <1>3 DEF ChangePrio
  <2>2. n \in Kernel
    BY <1>1 DEF Kernel
  <2>3. /\ n.ready = k.ready /\ n.prio = [k.prio EXCEPT ![e] = p] /\ OnlyPrio(n, k)
    BY <1>1 DEF Kernel, OnlyPrio
  <2> HIDE DEF n, r
  <2>4. ReadyCoherent(n, Event)
    <3>1. ReadyCoherent(k, Event) /\ n.status = k.status
      BY <2>3 DEF Coherent, OnlyPrio
    <3>2. \A x \in Event : x # e => n.prio[x] = k.prio[x]
      BY <1>1, <2>3
    <3>3. QED
      BY <1>3, <2>3, <3>1, <3>2 DEF ReadyCoherent
  <2>5. Coherent(n, Event, waits)
    BY <2>2, <2>3, <2>4
       DEF Coherent, NoDuplicates, SyncCoherent, DelayCoherent, SleepsOnly, OnlyPrio
  <2>6. QED
    BY <2>1, <2>3, <2>5 DEF r
<1>4. QED
  BY <1>2, <1>3

LEMMA SetEventPrioCoherent ==
    ASSUME NEW k, NEW waits, Coherent(k, Event, waits),
           NEW e \in Event, NEW p \in Prio
    PROVE  LET r == SetEventPrio(k, e, p)
           IN  Coherent(r, Event, waits) /\ OnlyPrio(r, k)
<1> DEFINE b == [k EXCEPT !.base[e] = p]
           c == ChangePrio(b, e, p)
           r == SetEventPrio(k, e, p)
<1>1. k \in Kernel
  BY DEF Coherent
<1>2. b \in Kernel /\ OnlyPrio(b, k) /\ b.ready = k.ready /\ b.prio = k.prio
  BY <1>1 DEF Kernel, OnlyPrio
<1>3. r = IF p # k.prio[e] THEN c ELSE b
  BY DEF SetEventPrio
<1> HIDE DEF b, r
<1>4. Coherent(b, Event, waits)
  BY <1>2 DEF Coherent, NoDuplicates, ReadyCoherent, SyncCoherent, DelayCoherent,
              SleepsOnly, OnlyPrio
<1>5. Coherent(c, Event, waits) /\ OnlyPrio(c, b)
  BY <1>4, ChangePrioCoherent
<1> HIDE DEF c
<1>6. OnlyPrio(c, k)
  BY <1>2, <1>5 DEF OnlyPrio
<1>7. QED
  BY <1>2, <1>3, <1>4, <1>5, <1>6 DEF r

(* The clock moves: no queue changes.                                      *)
LEMMA TickStartCoherent ==
    ASSUME NEW k, NEW waits, Settled(k, waits), NEW inc \in Nat
    PROVE  LET r == TickStart(k, inc)
           IN  /\ Settled(r, waits)
               /\ r.status = k.status /\ r.wakeup = k.wakeup /\ r.head = k.head
               /\ r.sync = k.sync /\ r.running = k.running
<1> DEFINE ph == IF RRS_Slice = 0 THEN 0 ELSE (k.phase + inc) % RRS_Slice
           m == [e \in Event |-> IF e \in ToSet(k.delay) THEN k.remain[e] - inc ELSE 0]
           r == TickStart(k, inc)
<1>1. k \in Kernel /\ k.remain \in [Event -> Int] /\ k.phase \in 0 .. RRS_Slice
  BY KernelFields DEF Settled, Coherent
<1>2. ph \in 0 .. RRS_Slice
  BY <1>1, TickAssumption
<1>3. m \in [Event -> Int]
  BY <1>1
<1>4. r = [k EXCEPT !.inISR = TRUE, !.phase = ph, !.remain = m]
  BY <1>1 DEF TickStart, Kernel
<1> HIDE DEF ph, m, r
<1>5. r \in Kernel
  BY <1>1, <1>2, <1>3, <1>4 DEF Kernel
<1>6. /\ r.ready = k.ready /\ r.delay = k.delay /\ r.status = k.status
      /\ r.wakeup = k.wakeup /\ r.prio = k.prio /\ r.sync = k.sync
      /\ r.head = k.head /\ r.running = k.running /\ r.inISR = TRUE
  BY <1>1, <1>4 DEF Kernel
<1>7. Coherent(r, Event, waits)
  BY <1>5, <1>6 DEF Settled, Coherent, NoDuplicates, ReadyCoherent, SyncCoherent,
                    DelayCoherent, SleepsOnly
<1>8. QED
  BY <1>6, <1>7 DEF Settled, HighestRuns, r

(* The end of the tick interrupt: the running event may go behind its      *)
(* peers, and the best event runs.                                         *)
LEMMA TickEndCoherent ==
    ASSUME NEW k, NEW waits, Settled(k, waits)
    PROVE  LET r == TickEnd(k)
           IN  /\ Settled(r, waits)
               /\ r.status = k.status /\ r.wakeup = k.wakeup /\ r.head = k.head
               /\ r.sync = k.sync
<1> DEFINE a == IF RRS_Slice # 0 /\ k.phase = 0 /\ HasPeer(k) THEN Rotate(k) ELSE k
           b == [a EXCEPT !.inISR = FALSE]
           r == Schedule(b)
<1>1. k \in Kernel
  BY DEF Settled, Coherent
<1>2. /\ Coherent(a, Event, waits) /\ a.status = k.status /\ a.wakeup = k.wakeup
      /\ a.head = k.head /\ a.sync = k.sync
  <2>1. Coherent(Rotate(k), Event, waits) /\ OnlyReady(Rotate(k), k)
    BY RotateCoherent DEF Settled
  <2>2. /\ Rotate(k).status = k.status /\ Rotate(k).wakeup = k.wakeup
        /\ Rotate(k).head = k.head /\ Rotate(k).sync = k.sync
    BY <1>1, <2>1, OnlyReadyFields
  <2>3. QED
    BY <2>1, <2>2 DEF Settled
<1>3. TickEnd(k) = r
  BY DEF TickEnd
<1> HIDE DEF a
<1>4. a \in Kernel
  BY <1>2 DEF Coherent
<1>5. /\ b \in Kernel /\ b.ready = a.ready /\ b.delay = a.delay
      /\ b.status = a.status /\ b.wakeup = a.wakeup /\ b.prio = a.prio
      /\ b.sync = a.sync /\ b.head = a.head
  BY <1>4 DEF Kernel
<1> HIDE DEF b
<1>6. Coherent(b, Event, waits) /\ b.status[Idle] = READY
  BY <1>2, <1>5 DEF Settled, Coherent, NoDuplicates, ReadyCoherent, SyncCoherent,
                    DelayCoherent, SleepsOnly
<1>7. Settled(r, waits) /\ OnlyRunning(r, b)
  BY <1>6, ScheduleSettles
<1> HIDE DEF r
<1>8. r.status = b.status /\ r.wakeup = b.wakeup /\ r.head = b.head /\ r.sync = b.sync
  BY <1>5, <1>7, OnlyRunningFields
<1>9. QED
  BY <1>2, <1>3, <1>5, <1>7, <1>8

-----------------------------------------------------------------------------
(* The calls of KernelCalls.                                               *)

(* At boot every event is ready and nobody waits.                          *)
LEMMA BootSettled ==
    ASSUME NEW waits, Boot
    PROVE  /\ Settled(knl, waits)
           /\ \A h \in SyncHead : knl.sync[h] = << >>
           /\ \A e \in Event : knl.head[e] = NoHead /\ knl.status[e] = READY
<1> DEFINE k == [ready |-> BootReady, delay |-> << >>,
                 remain |-> [e \in Event |-> 0], status |-> [e \in Event |-> READY],
                 wakeup |-> [e \in Event |-> {}], prio |-> BootPrio, base |-> BootPrio,
                 sync |-> [h \in SyncHead |-> << >>],
                 head |-> [e \in Event |-> NoHead],
                 running |-> Idle, phase |-> 0, lock |-> 0, inISR |-> FALSE]
<1>1. knl = Schedule(k)
  BY DEF Boot, BootKernel
<1>2. k \in Kernel
  <2>1. [e \in Event |-> 0] \in [Event -> Int] /\ 0 \in 0 .. RRS_Slice /\ 0 \in Nat
    BY TickAssumption
  <2>2. /\ [e \in Event |-> READY] \in [Event -> SUBSET Status]
        /\ [e \in Event |-> {}] \in [Event -> SUBSET Status]
    BY DEF READY
  <2>3. /\ [h \in SyncHead |-> << >>] \in [SyncHead -> Seq(Event)]
        /\ << >> \in Seq(Event)
    OBVIOUS
  <2>4. [e \in Event |-> NoHead] \in [Event -> SyncHead \cup {NoHead}]
    OBVIOUS
  <2>5. QED
    BY <2>1, <2>2, <2>3, <2>4, BootAssumption, EventAssumption DEF Kernel
<1>3. /\ k.ready = BootReady /\ k.delay = << >> /\ k.prio = BootPrio
      /\ \A e \in Event : k.status[e] = {} /\ k.head[e] = NoHead
      /\ \A h \in SyncHead : k.sync[h] = << >>
  BY DEF READY
<1> HIDE DEF k
<1>4. ToSet(<< >>) = {} /\ IsInjective(<< >>)
  BY DEF ToSet, IsInjective
<1>5. NoDuplicates(k)
  BY <1>3, <1>4, BootAssumption DEF NoDuplicates
<1>6. ReadyCoherent(k, Event)
  BY <1>3, BootAssumption DEF ReadyCoherent, READY
<1>7. SyncCoherent(k, waits)
  BY <1>3, <1>4, HeadAssumption DEF SyncCoherent
<1>8. DelayCoherent(k) /\ SleepsOnly(k)
  BY <1>3, <1>4 DEF DelayCoherent, SleepsOnly
<1>9. Coherent(k, Event, waits) /\ k.status[Idle] = READY
  BY <1>2, <1>3, <1>5, <1>6, <1>7, <1>8, EventAssumption DEF Coherent, READY
<1>10. Settled(knl, waits) /\ OnlyRunning(knl, k)
  BY <1>1, <1>9, ScheduleSettles
<1>11. knl.sync = k.sync /\ knl.head = k.head /\ knl.status = k.status
  BY <1>2, <1>10, OnlyRunningFields
<1>12. QED
  BY <1>3, <1>10, <1>11 DEF READY

(* Nothing a blocked event can see changes between k and r, except that an *)
(* event may have gone to sleep.                                           *)
NobodyWoken(r, k) ==
    /\ r.wakeup = k.wakeup /\ r.head = k.head /\ r.sync = k.sync
    /\ \A e \in Event : \/ r.status[e] = k.status[e]
                        \/ e = k.running /\ r.status[e] = {"DELAY"}

LEMMA KernelCallSettled ==
    ASSUME NEW waits, "DELAY" \notin waits, Settled(knl, waits), Running # Idle,
           KernelCall
    PROVE  Settled(knl', waits) /\ NobodyWoken(knl', knl)
<1>1. /\ knl \in Kernel /\ Coherent(knl, Event, waits)
      /\ knl.status[Idle] = READY /\ knl.status[knl.running] = READY
      /\ knl.lock \in Nat /\ knl.running \in Event
      /\ knl.status \in [Event -> SUBSET Status]
  BY KernelFields DEF Settled, Coherent
<1>2. ASSUME NEW us \in Delays, QuerySch(knl),
             knl' = RestoreAsynSignal(DelayRunning(knl, Ticks(us)))
      PROVE  Settled(knl', waits) /\ NobodyWoken(knl', knl)
  <2> DEFINE d == DelayRunning(knl, Ticks(us))
  <2>1. Ticks(us) \in Int
    BY CallAssumption, TicksType
  <2>2. /\ Coherent(d, Event, waits)
        /\ d.running = knl.running /\ d.lock = knl.lock
        /\ d.wakeup = knl.wakeup /\ d.head = knl.head /\ d.sync = knl.sync
        /\ d.status = [knl.status EXCEPT ![knl.running] = {"DELAY"}]
    BY <1>1, <2>1, DelayRunningCoherent
  <2> HIDE DEF d
  <2>3. d.status[Idle] = READY
    BY <1>1, <2>2, EventAssumption DEF Running
  <2>4. d.lock = 0 /\ d \in Kernel
    BY <1>2, <2>2 DEF QuerySch, Coherent
  <2>5. Settled(knl', waits) /\ OnlyRunning(knl', d)
    BY <1>2, <2>2, <2>3, <2>4, RestoreSettles DEF d
  <2>6. /\ knl'.wakeup = d.wakeup /\ knl'.head = d.head /\ knl'.sync = d.sync
        /\ knl'.status = d.status
    BY <2>4, <2>5, OnlyRunningFields
  <2>7. NobodyWoken(knl', knl)
    BY <1>1, <2>2, <2>6 DEF NobodyWoken
  <2>8. QED
    BY <2>5, <2>7
<1>3. ASSUME NEW k, Coherent(k, Event, waits), k.status = knl.status,
             k.wakeup = knl.wakeup, k.head = knl.head, k.sync = knl.sync,
             k.running = knl.running, knl' = RestoreAsynSignal(k)
      PROVE  Settled(knl', waits) /\ NobodyWoken(knl', knl)
  <2>1. k.status[Idle] = READY /\ k.status[k.running] = READY /\ k \in Kernel
    BY <1>1, <1>3 DEF Coherent
  <2>2. Settled(knl', waits) /\ OnlyRunning(knl', k)
    BY <1>3, <2>1, RestoreSettles
  <2>3. /\ knl'.wakeup = k.wakeup /\ knl'.head = k.head /\ knl'.sync = k.sync
        /\ knl'.status = k.status
    BY <2>1, <2>2, OnlyRunningFields
  <2>4. QED
    BY <1>3, <2>2, <2>3 DEF NobodyWoken
<1>4. ASSUME NEW us \in Delays, DJY_EventDelay(us)
      PROVE  Settled(knl', waits) /\ NobodyWoken(knl', knl)
  <2>1. CASE us # 0
    BY <1>2, <1>4, <2>1 DEF DJY_EventDelay
  <2>2. CASE us = 0 /\ HasPeer(knl)
    <3>1. knl' = RestoreAsynSignal(Rotate(knl))
      BY <1>4, <2>2 DEF DJY_EventDelay
    <3>2. Coherent(Rotate(knl), Event, waits) /\ OnlyReady(Rotate(knl), knl)
      BY <1>1, RotateCoherent
    <3>3. /\ Rotate(knl).status = knl.status /\ Rotate(knl).wakeup = knl.wakeup
          /\ Rotate(knl).head = knl.head /\ Rotate(knl).sync = knl.sync
          /\ Rotate(knl).running = knl.running
      BY <1>1, <3>2, OnlyReadyFields
    <3>4. QED
      BY <1>3, <3>1, <3>2, <3>3
  <2>3. CASE us = 0 /\ ~HasPeer(knl)
    <3>1. knl' = RestoreAsynSignal(knl)
      BY <1>4, <2>3 DEF DJY_EventDelay
    <3>2. QED
      BY <1>1, <1>3, <3>1
  <2>4. QED
    BY <2>1, <2>2, <2>3
<1>5. ASSUME NEW us \in Delays, DJY_EventDelayTo(us)
      PROVE  Settled(knl', waits) /\ NobodyWoken(knl', knl)
  BY <1>2, <1>5 DEF DJY_EventDelayTo
<1>6. ASSUME NEW e \in Event, NEW p \in NewPrios, DJY_SetEventPrio(e, p)
      PROVE  Settled(knl', waits) /\ NobodyWoken(knl', knl)
  <2> DEFINE s == SetEventPrio(knl, e, p)
  <2>1. Coherent(s, Event, waits) /\ OnlyPrio(s, knl)
    BY <1>1, CallAssumption, SetEventPrioCoherent
  <2>2. knl' = RestoreAsynSignal(s)
    BY <1>6 DEF DJY_SetEventPrio
  <2> HIDE DEF s
  <2>3. QED
    BY <1>3, <2>1, <2>2 DEF OnlyPrio
<1>7. ASSUME NEW k, NEW n \in Nat, k = [knl EXCEPT !.lock = n]
      PROVE  /\ Coherent(k, Event, waits) /\ k.status = knl.status
             /\ k.wakeup = knl.wakeup /\ k.head = knl.head /\ k.sync = knl.sync
             /\ k.running = knl.running /\ k.lock = n
  <2>1. /\ k \in Kernel /\ k.ready = knl.ready /\ k.delay = knl.delay
        /\ k.status = knl.status /\ k.prio = knl.prio
        /\ k.wakeup = knl.wakeup /\ k.head = knl.head /\ k.sync = knl.sync
        /\ k.running = knl.running /\ k.lock = n
    BY <1>1, <1>7 DEF Kernel
  <2>2. Coherent(k, Event, waits)
    BY <1>1, <2>1 DEF Coherent, NoDuplicates, ReadyCoherent, SyncCoherent,
                      DelayCoherent, SleepsOnly
  <2>3. QED
    BY <2>1, <2>2
<1>8. ASSUME Int_SaveAsynSignal
      PROVE  Settled(knl', waits) /\ NobodyWoken(knl', knl)
  <2>1. knl.lock + 1 \in Nat /\ knl.lock + 1 # 0
    BY <1>1
  <2>2. knl' = [knl EXCEPT !.lock = knl.lock + 1]
    BY <1>8 DEF Int_SaveAsynSignal
  <2>3. /\ Coherent(knl', Event, waits) /\ knl'.status = knl.status
        /\ knl'.wakeup = knl.wakeup /\ knl'.head = knl.head /\ knl'.sync = knl.sync
        /\ knl'.running = knl.running /\ knl'.lock = knl.lock + 1
    BY <1>7, <2>1, <2>2
  <2>4. QED
    BY <1>1, <2>1, <2>3 DEF Settled, NobodyWoken, HighestRuns
<1>9. ASSUME Int_RestoreAsynSignal
      PROVE  Settled(knl', waits) /\ NobodyWoken(knl', knl)
  <2> DEFINE k == [knl EXCEPT !.lock = knl.lock - 1]
  <2>1. knl.lock - 1 \in Nat
    BY <1>1, <1>9 DEF Int_RestoreAsynSignal
  <2>2. knl' = RestoreAsynSignal(k)
    BY <1>9 DEF Int_RestoreAsynSignal
  <2>3. /\ Coherent(k, Event, waits) /\ k.status = knl.status
        /\ k.wakeup = knl.wakeup /\ k.head = knl.head /\ k.sync = knl.sync
        /\ k.running = knl.running
    BY <1>7, <2>1
  <2> HIDE DEF k
  <2>4. QED
    BY <1>3, <2>2, <2>3
<1>10. QED
  BY <1>4, <1>5, <1>6, <1>8, <1>9 DEF KernelCall

(* Nothing a blocked event can see changes.                                *)
Still(r, k) ==
    r.wakeup = k.wakeup /\ r.head = k.head /\ r.sync = k.sync /\ r.status = k.status

(* A step of the tick interrupt wakes nobody, or the first event of the    *)
(* alarm queue.                                                            *)
LEMMA TickSettled ==
    ASSUME NEW waits, Settled(knl, waits), Tick
    PROVE  /\ Settled(knl', waits)
           /\ \/ Still(knl', knl)
              \/ \E e \in Event : /\ knl.status[e] \cap {"DELAY", "SYNC_TIMEOUT"} # {}
                                  /\ knl.inISR /\ knl.remain[e] <= 0
                                  /\ Woken(knl', knl, e, knl.status[e])
                                  /\ LeftQueues(knl', knl, e)
<1>1. ASSUME NEW inc \in TickIncs, TickBegin(inc)
      PROVE  Settled(knl', waits) /\ Still(knl', knl)
  <2>1. inc \in Nat /\ knl' = TickStart(knl, inc)
    BY <1>1, CallAssumption DEF TickBegin
  <2>2. /\ Settled(knl', waits)
        /\ knl'.status = knl.status /\ knl'.wakeup = knl.wakeup
        /\ knl'.head = knl.head /\ knl'.sync = knl.sync
    BY <2>1, TickStartCoherent
  <2>3. QED
    BY <2>2 DEF Still
<1>2. ASSUME TickReturn
      PROVE  Settled(knl', waits) /\ Still(knl', knl)
  <2>1. knl' = TickEnd(knl)
    BY <1>2 DEF TickReturn
  <2>2. /\ Settled(knl', waits)
        /\ knl'.status = knl.status /\ knl'.wakeup = knl.wakeup
        /\ knl'.head = knl.head /\ knl'.sync = knl.sync
    BY <2>1, TickEndCoherent
  <2>3. QED
    BY <2>2 DEF Still
<1>3. ASSUME TickAlarm
      PROVE  /\ Settled(knl', waits)
             /\ \E e \in Event : /\ knl.status[e] \cap {"DELAY", "SYNC_TIMEOUT"} # {}
                                 /\ knl.inISR /\ knl.remain[e] <= 0
                                 /\ Woken(knl', knl, e, knl.status[e])
                                 /\ LeftQueues(knl', knl, e)
  <2> DEFINE e == Head(knl.delay)
  <2>1. /\ knl.inISR /\ knl.delay # << >> /\ knl' = TickWake(knl)
        /\ knl.remain[e] <= 0
    BY <1>3 DEF TickAlarm, AlarmDue
  <2>2. /\ e \in Event /\ knl.status[e] \cap {"DELAY", "SYNC_TIMEOUT"} # {}
        /\ Coherent(knl', Event, waits)
        /\ Woken(knl', knl, e, knl.status[e]) /\ LeftQueues(knl', knl, e)
    BY <2>1, TickWakeCoherent DEF Settled
  <2> HIDE DEF e
  <2>3. knl.status \in [Event -> SUBSET Status] /\ knl.running \in Event
    BY KernelFields DEF Settled, Coherent
  <2>4. /\ knl'.status[Idle] = READY /\ knl'.status[knl'.running] = READY
        /\ knl'.inISR
    BY <2>1, <2>2, <2>3, EventAssumption DEF Settled, Woken
  <2>5. QED
    BY <2>1, <2>2, <2>4 DEF Settled, HighestRuns
<1>4. QED
  BY <1>1, <1>2, <1>3 DEF Tick

(* The end of a call that changed nothing.                                 *)
LEMMA RestoreStill ==
    ASSUME NEW waits, Settled(knl, waits), knl' = RestoreAsynSignal(knl)
    PROVE  Settled(knl', waits) /\ Still(knl', knl)
<1>1. knl \in Kernel
  BY DEF Settled, Coherent
<1>2. Settled(knl', waits) /\ OnlyRunning(knl', knl)
  BY RestoreSettles DEF Settled
<1>3. QED
  BY <1>1, <1>2, OnlyRunningFields DEF Still
=============================================================================
