----------------------------- MODULE TcpProofs -----------------------------
(***************************************************************************)
(* The two ends of a connection, for every size of the buffers, of the     *)
(* segments and of the sequence numbers, and for any number of bytes, any  *)
(* loss, duplication and reordering, and any timer running out at any      *)
(* tick.                                                                   *)
(*                                                                         *)
(* What a handler may do to a control block is one relation, Does, which   *)
(* composes.  Every operation of Tcp is shown to stay within it, so that   *)
(* the steps only have to combine those lemmas.                            *)
(***************************************************************************)
EXTENDS Tcp, TLAPS

Segment == [flags : SUBSET Flags, seq : Seqno, ack : Seqno, wnd : 0 .. RCVBUF,
            data : Seq(Nat)]

(* The control blocks.                                                     *)
CCB == [state : States, chan : SUBSET Channels, timers : SUBSET Timers,
        sbuf : [0 .. SNDBUF - 1 -> Nat],
        unackno : Seqno, unackoff : 0 .. SNDBUF - 1, unacklen : Nat,
        sndnxtno : Seqno, sndnxtoff : 0 .. SNDBUF - 1,
        dataoff : 0 .. SNDBUF - 1, datalen : Nat, buflenleft : Nat,
        sndlamp : {0, 1}, dupacks : Nat, cwnd : Nat, sndwnd : Nat,
        resndtimes : Nat, rbuf : Seq(Nat), rcvnxt : Seqno, rcvlamp : {0, 1},
        acktimes : Nat, out : SUBSET Segment, hashed : BOOLEAN]

(* SendRing for one control block whose thread has written w bytes.        *)
Ring(c, w) ==
    LET used == c.unacklen + c.datalen
    IN  /\ used + c.buflenleft = SNDBUF
        /\ c.sndnxtoff = (c.unackoff + c.unacklen) % SNDBUF
        /\ c.dataoff = (c.unackoff + used) % SNDBUF
        /\ \A i \in 1 .. used : c.sbuf[(c.unackoff + i - 1) % SNDBUF] = w - used + i

(* The states in which nothing was written and no channel is open.         *)
Early == {"NONE", "CREAT", "SYNSNT"}

(* A control block between two handlers.                                   *)
Good(c, w) ==
    /\ c \in CCB /\ Ring(c, w)
    /\ c.state \in Early => c.datalen = 0 /\ c.chan = {}

(* From c to d no wakeup is lost: a lamp that is off in d was off in c,    *)
(* and what a thread waits for on it has not happened in between. No       *)
(* handler goes back to an early state.                                    *)
Wakes(c, d) ==
    /\ d.state \in Early => d.state = c.state
    /\ d.rcvlamp = 0 => /\ c.rcvlamp = 0 /\ d.rbuf = c.rbuf
                        /\ "KRCV" \in c.chan => "KRCV" \in d.chan
                        /\ c.state = "SYNSNT" => d.state = "SYNSNT"
    /\ d.sndlamp = 0 => /\ c.sndlamp = 0
                        /\ c.buflenleft = 0 => d.buflenleft = 0

(* What a handler may do.                                                  *)
Does(c, d, w) == Good(d, w) /\ Wakes(c, d)

(* The assumptions, one constant at a time.                                *)
LEMMA Constants ==
    /\ SEQ \in Nat \ {0} /\ MSS \in Nat \ {0} /\ SNDBUF \in Nat \ {0}
    /\ RCVBUF \in Nat \ {0} /\ TICK_ACK \in Nat \ {0}
    /\ RSNDMAX \in Nat /\ FASTRETRANS \in Nat
    /\ \A e \in End : ISN[e] \in Seqno
  BY TcpAssumption DEF Seqno, End

(* The fields of a control block.                                          *)
LEMMA CcbFields ==
    ASSUME NEW c \in CCB
    PROVE  /\ c.state \in States /\ c.chan \subseteq Channels /\ c.timers \subseteq Timers
           /\ c.sbuf \in [0 .. SNDBUF - 1 -> Nat]
           /\ c.unackno \in Seqno /\ c.unackoff \in 0 .. SNDBUF - 1
           /\ c.unacklen \in Nat /\ c.sndnxtno \in Seqno
           /\ c.sndnxtoff \in 0 .. SNDBUF - 1 /\ c.dataoff \in 0 .. SNDBUF - 1
           /\ c.datalen \in Nat /\ c.buflenleft \in Nat
           /\ c.sndlamp \in {0, 1} /\ c.rcvlamp \in {0, 1}
           /\ c.dupacks \in Nat /\ c.cwnd \in Nat /\ c.sndwnd \in Nat
           /\ c.resndtimes \in Nat /\ c.acktimes \in Nat
           /\ c.rbuf \in Seq(Nat) /\ c.rcvnxt \in Seqno
           /\ c.out \subseteq Segment
  BY Zenon DEF CCB

(* Steps that lose no wakeup compose.                                      *)
LEMMA WakesTrans ==
    ASSUME NEW c, NEW d, NEW f, Wakes(c, d), Wakes(d, f)
    PROVE  Wakes(c, f)
  BY DEF Wakes

LEMMA NoIsSeqno == ASSUME NEW n \in Int PROVE No(n) \in Seqno
  BY Constants DEF No, Seqno

(* A new control block, also one in the place of a socket that was used.   *)
LEMMA CreateGood ==
    ASSUME NEW e \in End, NEW s \in States, NEW w \in Nat
    PROVE  Good(CreateCCB(e, s), w)
<1>1. CreateCCB(e, s) \in CCB
  <2>1. << >> \in Seq(Nat)
    OBVIOUS
  <2>2. 0 \in Seqno /\ ISN[e] \in Seqno
    BY Constants DEF Seqno
  <2>3. (e = Client) \in BOOLEAN
    OBVIOUS
  <2> QED BY <2>1, <2>2, <2>3, Constants DEF CreateCCB, CCB
<1>2. Ring(CreateCCB(e, s), w)
  BY Constants DEF CreateCCB, Ring
<1>3. CreateCCB(e, s).datalen = 0 /\ CreateCCB(e, s).chan = {}
  BY DEF CreateCCB
<1> QED BY <1>1, <1>2, <1>3 DEF Good

(* __ResetCCB leaves the ring alone and lights both lamps.                 *)
LEMMA ResetDoes ==
    ASSUME NEW c, NEW w \in Nat, Good(c, w), NEW s \in {c.state, "2FREE"}
    PROVE  Does(c, ResetCCB(c, s), w)
<1> DEFINE d == ResetCCB(c, s)
<1>1. d \in CCB
  <2>1. << >> \in Seq(Nat)
    OBVIOUS
  <2>2. s \in States
    BY Zenon DEF Good, CCB, States
  <2> QED BY Zenon, <2>1, <2>2 DEF Good, ResetCCB, CCB
<1>2. Ring(d, w)
  BY DEF Good, ResetCCB, CCB, Ring
<1>3. Wakes(c, d)
  <2>1. d.sndlamp = 1 /\ d.rcvlamp = 1 /\ d.state = s
    BY Zenon DEF Good, ResetCCB, CCB
  <2> HIDE DEF d
  <2> QED BY <2>1 DEF Wakes, Early
<1>4. d.state \in Early => d.datalen = 0 /\ d.chan = {}
  BY Zenon DEF Good, ResetCCB, CCB, Early
<1> QED BY <1>1, <1>2, <1>3, <1>4 DEF Does, Good

-----------------------------------------------------------------------------
(* Arithmetic of the ring.                                                 *)

(* Moving an offset in two steps is moving it in one.                      *)
LEMMA ModAdd ==
    ASSUME NEW a \in 0 .. 2 * SNDBUF - 1, NEW b \in 0 .. SNDBUF
    PROVE  ((a % SNDBUF) + b) % SNDBUF = (a + b) % SNDBUF
<1>1. a % SNDBUF = IF a < SNDBUF THEN a ELSE a - SNDBUF
  BY Constants
<1>2. CASE a < SNDBUF
  BY <1>1, <1>2
<1>3. CASE a >= SNDBUF
  <2>1. (a - SNDBUF + b) % SNDBUF = (a + b) % SNDBUF
    BY <1>3, Constants
  <2> QED BY <1>1, <1>3, <2>1
<1> QED BY <1>2, <1>3, Constants

LEMMA ModOnce ==
    ASSUME NEW a \in 0 .. 2 * SNDBUF - 1
    PROVE  a % SNDBUF = IF a < SNDBUF THEN a ELSE a - SNDBUF
  BY Constants

(* Within one round of the ring, places differ.                            *)
LEMMA ModInjective ==
    ASSUME NEW o \in 0 .. SNDBUF - 1,
           NEW i \in 0 .. SNDBUF - 1, NEW j \in 0 .. SNDBUF - 1
    PROVE  (o + i) % SNDBUF = (o + j) % SNDBUF => i = j
<1>0. SNDBUF \in Nat
  BY Constants
<1>1. o + i \in 0 .. 2 * SNDBUF - 1 /\ o + j \in 0 .. 2 * SNDBUF - 1
  BY <1>0
<1>2. (o + i) % SNDBUF = IF o + i < SNDBUF THEN o + i ELSE o + i - SNDBUF
  BY <1>0, <1>1, ModOnce
<1>3. (o + j) % SNDBUF = IF o + j < SNDBUF THEN o + j ELSE o + j - SNDBUF
  BY <1>0, <1>1, ModOnce
<1> QED BY <1>0, <1>2, <1>3

LEMMA ModInRing == ASSUME NEW n \in Nat PROVE n % SNDBUF \in 0 .. SNDBUF - 1
  BY Constants

-----------------------------------------------------------------------------
(* Sending.                                                                *)

LEMMA BuiltIsSegment ==
    ASSUME NEW c \in CCB, NEW flags \in SUBSET Flags, NEW seq \in Seqno,
           NEW data \in Seq(Nat)
    PROVE  Built(c, flags, seq, data) \in Segment
<1>1. Len(c.rbuf) \in Nat /\ c.rcvnxt \in Seqno
  BY DEF CCB
<1> QED BY <1>1, Constants DEF Built, Segment

LEMMA SendMsgDoes ==
    ASSUME NEW c, NEW w \in Nat, Good(c, w), NEW seg \in Segment, NEW up
    PROVE  Does(c, SendMsg(c, seg, up), w)
<1> DEFINE d == SendMsg(c, seg, up)
<1>1. d \in CCB
  BY ZenonT(60) DEF Good, SendMsg, CCB
<1>2. Ring(d, w)
  BY DEF Good, SendMsg, CCB, Ring
<1>3. Wakes(c, d)
  BY DEF Good, SendMsg, CCB, Wakes
<1>4. d.state \in Early => d.datalen = 0 /\ d.chan = {}
  BY DEF Good, SendMsg, CCB
<1> QED BY <1>1, <1>2, <1>3, <1>4 DEF Does, Good

LEMMA SendFlagDoes ==
    ASSUME NEW c, NEW w \in Nat, Good(c, w), NEW flags \in SUBSET Flags,
           NEW seq \in Seqno, NEW up
    PROVE  Does(c, SendFlag(c, flags, seq, up), w)
<1>1. << >> \in Seq(Nat)
  OBVIOUS
<1>2. Built(c, flags, seq, << >>) \in Segment
  BY Zenon, <1>1, BuiltIsSegment DEF Good
<1> QED BY <1>2, SendMsgDoes DEF SendFlag

LEMMA RingBytesIsSeq ==
    ASSUME NEW c \in CCB, NEW off \in Nat, NEW n \in Nat, off + n <= SNDBUF
    PROVE  RingBytes(c, off, n) \in Seq(Nat)
<1>1. \A i \in 1 .. n : c.sbuf[off + i - 1] \in Nat
  <2>1. c.sbuf \in [0 .. SNDBUF - 1 -> Nat]
    BY CcbFields
  <2> QED BY <2>1, Constants
<1> QED BY <1>1 DEF RingBytes

(* The bytes copied follow the ones in the ring and overwrite none of      *)
(* them.                                                                   *)
LEMMA Cpy2SndBufGood ==
    ASSUME NEW c, NEW w \in Nat, Good(c, w), NEW n \in Nat, n <= c.buflenleft,
           c.state \notin Early
    PROVE  /\ Good(Cpy2SndBuf(c, w, n), w + n)
           /\ Wakes(c, Cpy2SndBuf(c, w, n))
<1> DEFINE d == Cpy2SndBuf(c, w, n)
           place(i) == (c.dataoff + i) % SNDBUF
           used == c.unacklen + c.datalen
<1>0. /\ c \in CCB /\ Ring(c, w) /\ SNDBUF \in Nat \ {0}
      /\ c.unacklen \in Nat /\ c.datalen \in Nat /\ c.buflenleft \in Nat
      /\ c.unackoff \in 0 .. SNDBUF - 1 /\ c.dataoff \in 0 .. SNDBUF - 1
      /\ used + c.buflenleft = SNDBUF /\ c.dataoff = (c.unackoff + used) % SNDBUF
  BY Zenon, Constants DEF Good, CCB, Ring
<1>1. \A i \in 0 .. n : place(i) \in 0 .. SNDBUF - 1
                        /\ place(i) = (c.unackoff + used + i) % SNDBUF
  <2> SUFFICES ASSUME NEW i \in 0 .. n
               PROVE  place(i) \in 0 .. SNDBUF - 1
                      /\ place(i) = (c.unackoff + used + i) % SNDBUF
    OBVIOUS
  <2>1. c.unackoff + used \in 0 .. 2 * SNDBUF - 1 /\ i \in 0 .. SNDBUF
    BY <1>0
  <2>2. (((c.unackoff + used) % SNDBUF) + i) % SNDBUF = (c.unackoff + used + i) % SNDBUF
    BY <2>1, ModAdd
  <2>3. c.dataoff + i \in Nat
    BY <1>0
  <2>4. (c.dataoff + i) % SNDBUF \in 0 .. SNDBUF - 1
    BY <2>3, ModInRing
  <2> QED BY <1>0, <2>2, <2>4
<1>2. \A i, j \in 0 .. SNDBUF - 1 :
         (c.unackoff + i) % SNDBUF = (c.unackoff + j) % SNDBUF => i = j
  BY <1>0, ModInjective
<1> DEFINE sb == [p \in DOMAIN c.sbuf |->
                    IF \E i \in 0 .. n - 1 : place(i) = p
                    THEN w + 1 + CHOOSE i \in 0 .. n - 1 : place(i) = p
                    ELSE c.sbuf[p]]
<1>3. sb \in [0 .. SNDBUF - 1 -> Nat]
  <2>1. DOMAIN c.sbuf = 0 .. SNDBUF - 1 /\ \A p \in 0 .. SNDBUF - 1 : c.sbuf[p] \in Nat
    BY <1>0 DEF CCB
  <2> QED BY <2>1
<1>4. /\ d.sbuf = sb /\ d.unackoff = c.unackoff /\ d.unacklen = c.unacklen
      /\ d.dataoff = place(n) /\ d.datalen = c.datalen + n
      /\ d.buflenleft = c.buflenleft - n /\ d.sndnxtoff = c.sndnxtoff
  BY <1>0 DEF Cpy2SndBuf, CCB
<1>5. d \in CCB
  <2>1. place(n) \in 0 .. SNDBUF - 1 /\ c.buflenleft - n \in Nat /\ c.datalen + n \in Nat
    BY <1>0, <1>1
  <2>2. d = [c EXCEPT !.sbuf = sb, !.dataoff = place(n),
                      !.buflenleft = @ - n, !.datalen = @ + n]
    BY DEF Cpy2SndBuf
  <2> HIDE DEF place, sb, d
  <2> QED BY ZenonT(60), <1>0, <1>3, <2>1, <2>2 DEF CCB
<1>6. ASSUME NEW i \in 1 .. used + n
      PROVE  sb[(c.unackoff + i - 1) % SNDBUF] = w - used + i
  <2>0. DOMAIN c.sbuf = 0 .. SNDBUF - 1
        /\ (c.unackoff + i - 1) % SNDBUF \in 0 .. SNDBUF - 1
    <3>1. c.unackoff + i - 1 \in Nat
      BY <1>0
    <3> QED BY Zenon, <1>0, <3>1, ModInRing DEF CCB
  <2>1. CASE i <= used
    <3>1. ASSUME NEW j \in 0 .. n - 1 PROVE place(j) # (c.unackoff + i - 1) % SNDBUF
      <4>1. used + j \in 0 .. SNDBUF - 1 /\ i - 1 \in 0 .. SNDBUF - 1 /\ used + j # i - 1
        BY <1>0, <2>1
      <4>2. (c.unackoff + (used + j)) % SNDBUF # (c.unackoff + (i - 1)) % SNDBUF
        BY <4>1, <1>2
      <4> QED BY <4>2, <1>1, <1>0
    <3>2. c.sbuf[(c.unackoff + i - 1) % SNDBUF] = w - used + i
      BY <2>1, <1>0 DEF Ring
    <3> QED BY <3>1, <3>2, <2>0
  <2>2. CASE i > used
    <3> DEFINE j == i - used - 1
               p == (c.unackoff + i - 1) % SNDBUF
    <3>1. j \in 0 .. n - 1 /\ place(j) = p
      BY <2>2, <1>0, <1>1
    <3>2. ASSUME NEW k \in 0 .. n - 1, place(k) = p PROVE k = j
      <4>1. used + k \in 0 .. SNDBUF - 1 /\ used + j \in 0 .. SNDBUF - 1
        BY <3>1, <1>0
      <4>2. (c.unackoff + (used + k)) % SNDBUF = (c.unackoff + (used + j)) % SNDBUF
        BY <3>1, <3>2, <1>1, <1>0
      <4>3. used + k = used + j
        BY <4>1, <4>2, <1>2
      <4>4. used \in Int /\ k \in Int /\ j \in Int
        BY <1>0, <3>1
      <4> HIDE DEF used, j
      <4> QED BY <4>3, <4>4
    <3> HIDE DEF j, p, place
    <3>3. (CHOOSE k \in 0 .. n - 1 : place(k) = p) = j
      BY <3>1, <3>2
    <3>4. sb[p] = w + 1 + j
      BY Zenon, <3>1, <3>3, <2>0 DEF p
    <3>5. sb[(c.unackoff + i - 1) % SNDBUF] = w + 1 + (i - used - 1)
      BY <3>4 DEF p, j
    <3>6. used \in Int /\ i \in Int
      BY <1>0
    <3> HIDE DEF sb, used
    <3> QED BY <3>5, <3>6
  <2> QED BY <2>1, <2>2, <1>0
<1>7. Ring(d, w + n)
  <2>1. place(n) = (c.unackoff + (used + n)) % SNDBUF
    BY <1>1, <1>0
  <2>2. c.sndnxtoff = (c.unackoff + c.unacklen) % SNDBUF
    BY <1>0 DEF Ring
  <2> HIDE DEF d, sb, place
  <2> QED BY <1>0, <1>4, <1>6, <2>1, <2>2 DEF Ring
<1>8. Wakes(c, d)
  <2>1. /\ d.state = c.state /\ d.rcvlamp = c.rcvlamp /\ d.rbuf = c.rbuf
        /\ d.chan = c.chan /\ d.sndlamp = c.sndlamp
    BY Zenon, <1>0 DEF Cpy2SndBuf, CCB
  <2> HIDE DEF d
  <2> QED BY <1>0, <1>4, <2>1 DEF Wakes
<1>9. d.state \notin Early
  BY <1>0 DEF Cpy2SndBuf, CCB
<1> QED BY <1>5, <1>7, <1>8, <1>9 DEF Good

LEMMA SendLenInData ==
    ASSUME NEW c \in CCB
    PROVE  ChkChannelSendLen(c) \in 0 .. c.datalen
<1>1. c.datalen \in Nat /\ c.cwnd \in Nat /\ c.sndwnd \in Nat
  BY CcbFields
<1> QED BY <1>1 DEF ChkChannelSendLen, AtMost

LEMMA FinSentDoes ==
    ASSUME NEW c, NEW w \in Nat, Good(c, w), c.state \notin Early
    PROVE  Does(c, FinSent(c), w)
<1> DEFINE d == FinSent(c)
<1>1. d \in CCB
  <2>1. No(c.sndnxtno + 1) \in Seqno
    <3>0. c.sndnxtno \in Seqno
      BY CcbFields DEF Good
    <3>1. c.sndnxtno + 1 \in Int
      BY <3>0, Constants DEF Seqno
    <3> QED BY <3>1, NoIsSeqno
  <2>2. (IF c.state = "CLOSEWAIT" THEN "LASTACK" ELSE "FINWAIT1") \in States
    BY DEF States
  <2>3. c.timers \cup {"FIN"} \subseteq Timers /\ c.chan \ {"KSND"} \subseteq Channels
    BY CcbFields DEF Good, Timers, Resend3
  <2> QED BY Zenon, <2>1, <2>2, <2>3 DEF Good, FinSent, CCB
<1>2. Ring(d, w)
  BY DEF Good, FinSent, CCB, Ring
<1>3. d.state \notin Early
  BY DEF Good, FinSent, CCB, Early
<1>4. Wakes(c, d)
  BY <1>3 DEF Good, FinSent, CCB, Wakes, Early
<1> QED BY <1>1, <1>2, <1>3, <1>4 DEF Does, Good

(* __senddata moves bytes from the unsent part of the ring to the          *)
(* unacknowledged part, and every segment it cuts lies inside the ring.    *)
LEMMA SentDoes ==
    ASSUME NEW c, NEW w \in Nat, Good(c, w), NEW length \in 1 .. c.datalen
    PROVE  Does(c, Sent(c, length), w)
<1> DEFINE first == AtMost(length, SNDBUF - c.sndnxtoff)
           starts == {k \in 0 .. length - 1 :
                         (IF k < first THEN k ELSE k - first) % MSS = 0}
           size(k) == AtMost(MSS, (IF k < first THEN first ELSE length) - k)
           flags(k) == IF "ASND" \notin c.chan /\ k + size(k) = length
                       THEN {"ACK", "FIN"} ELSE {"ACK"}
           seg(k) == Built(c, flags(k), No(c.sndnxtno + k),
                           RingBytes(c, (c.sndnxtoff + k) % SNDBUF, size(k)))
           d == [c EXCEPT !.out = @ \cup {seg(k) : k \in starts}, !.acktimes = 0,
                          !.sndnxtno = No(@ + length),
                          !.sndnxtoff = (@ + length) % SNDBUF,
                          !.unacklen = @ + length, !.datalen = @ - length,
                          !.sndwnd = IF @ > length THEN @ - length ELSE 0]
<1>0. /\ c \in CCB /\ Ring(c, w) /\ SNDBUF \in Nat \ {0} /\ MSS \in Nat \ {0}
      /\ c.unacklen \in Nat /\ c.datalen \in Nat /\ c.buflenleft \in Nat
      /\ c.unackoff \in 0 .. SNDBUF - 1 /\ c.sndnxtoff \in 0 .. SNDBUF - 1
      /\ c.unacklen + c.datalen + c.buflenleft = SNDBUF
      /\ c.sndnxtoff = (c.unackoff + c.unacklen) % SNDBUF
      /\ c.sndnxtno \in Int /\ length \in Nat /\ length <= SNDBUF
      /\ c.unackoff + c.unacklen \in 0 .. 2 * SNDBUF - 1
      /\ c.sndwnd \in Nat
  <2>1. c \in CCB /\ Ring(c, w) /\ SNDBUF \in Nat \ {0} /\ MSS \in Nat \ {0}
    BY Constants DEF Good
  <2>2. /\ c.unacklen \in Nat /\ c.datalen \in Nat /\ c.buflenleft \in Nat
        /\ c.unackoff \in 0 .. SNDBUF - 1 /\ c.sndnxtoff \in 0 .. SNDBUF - 1
        /\ c.sndnxtno \in Seqno /\ c.sndwnd \in Nat
    BY <2>1 DEF CCB
  <2>3. /\ c.unacklen + c.datalen + c.buflenleft = SNDBUF
        /\ c.sndnxtoff = (c.unackoff + c.unacklen) % SNDBUF
    BY <2>1 DEF Ring
  <2>4. length \in Nat /\ length <= SNDBUF
    BY <2>1, <2>2, <2>3
  <2>5. c.unackoff + c.unacklen \in 0 .. 2 * SNDBUF - 1
    BY <2>1, <2>2, <2>3
  <2>6. c.sndnxtno \in Int
    BY <2>2, Constants DEF Seqno
  <2> QED BY <2>1, <2>2, <2>3, <2>4, <2>5, <2>6
<1>1. c.state \notin Early
  BY <1>0 DEF Good
<1>2. ASSUME NEW k \in 0 .. length - 1 PROVE seg(k) \in Segment
  <2> DEFINE at == (c.sndnxtoff + k) % SNDBUF
  <2>1. c.sndnxtoff + k \in 0 .. 2 * SNDBUF - 1
    BY <1>0
  <2>2. at = IF c.sndnxtoff + k < SNDBUF THEN c.sndnxtoff + k
             ELSE c.sndnxtoff + k - SNDBUF
    BY <1>0, <2>1, ModOnce
  <2>3. size(k) \in Nat
    BY <1>0 DEF AtMost
  <2>4. at \in Nat /\ at + size(k) <= SNDBUF
    BY <1>0, <2>2 DEF AtMost
  <2> HIDE DEF at, size
  <2>5. RingBytes(c, at, size(k)) \in Seq(Nat)
    BY <1>0, <2>3, <2>4, RingBytesIsSeq
  <2>6. No(c.sndnxtno + k) \in Seqno
    BY <1>0, NoIsSeqno
  <2>7. flags(k) \in SUBSET Flags
    BY DEF Flags
  <2> HIDE DEF flags
  <2> QED BY <1>0, <2>5, <2>6, <2>7, BuiltIsSegment DEF at
<1> DEFINE segs == {seg(k) : k \in starts}
<1>3. segs \subseteq Segment
  BY <1>2
<1> HIDE DEF segs, seg, starts
<1>4. d \in CCB
  <2>1. No(c.sndnxtno + length) \in Seqno
    BY <1>0, NoIsSeqno
  <2>2. (c.sndnxtoff + length) % SNDBUF \in 0 .. SNDBUF - 1
    BY <1>0, ModInRing
  <2>3. /\ c.unacklen + length \in Nat /\ c.datalen - length \in Nat
        /\ (IF c.sndwnd > length THEN c.sndwnd - length ELSE 0) \in Nat
    BY <1>0
  <2>4. d = [c EXCEPT !.out = @ \cup segs, !.acktimes = 0,
                      !.sndnxtno = No(@ + length),
                      !.sndnxtoff = (@ + length) % SNDBUF,
                      !.unacklen = @ + length, !.datalen = @ - length,
                      !.sndwnd = IF @ > length THEN @ - length ELSE 0]
    BY DEF segs
  <2> DEFINE win == IF c.sndwnd > length THEN c.sndwnd - length ELSE 0
             out == c.out \cup segs
  <2>5. out \subseteq Segment /\ win \in Nat
    BY <1>0, <1>3, <2>3, CcbFields
  <2>6. d = [c EXCEPT !.out = out, !.acktimes = 0, !.sndnxtno = No(@ + length),
                      !.sndnxtoff = (@ + length) % SNDBUF,
                      !.unacklen = @ + length, !.datalen = @ - length,
                      !.sndwnd = win]
    BY Zenon, <2>4
  <2> HIDE DEF d, win, out
  <2> QED BY ZenonT(60), <1>0, <2>1, <2>2, <2>3, <2>5, <2>6 DEF CCB
<1>5. Ring(d, w)
  <2>1. (((c.unackoff + c.unacklen) % SNDBUF) + length) % SNDBUF
           = (c.unackoff + c.unacklen + length) % SNDBUF
    BY <1>0, ModAdd
  <2>2. (c.sndnxtoff + length) % SNDBUF = (c.unackoff + (c.unacklen + length)) % SNDBUF
    BY <1>0, <2>1
  <2>3. /\ d.sbuf = c.sbuf /\ d.unackoff = c.unackoff /\ d.dataoff = c.dataoff
        /\ d.unacklen = c.unacklen + length /\ d.datalen = c.datalen - length
        /\ d.sndnxtoff = (c.sndnxtoff + length) % SNDBUF
        /\ d.buflenleft = c.buflenleft
    BY <1>0 DEF CCB
  <2>4. d.unacklen + d.datalen = c.unacklen + c.datalen
    BY <1>0, <2>3
  <2> HIDE DEF d
  <2> QED BY <1>0, <2>2, <2>3, <2>4 DEF Ring
<1>6. Wakes(c, d) /\ d.state = c.state
  BY <1>0 DEF CCB, Wakes
<1>7. Does(c, d, w)
  BY <1>1, <1>4, <1>5, <1>6 DEF Good, Does
<1>8. Sent(c, length) = IF "ASND" \notin c.chan THEN FinSent(d) ELSE d
  BY DEF Sent, seg, starts
<1> HIDE DEF d
<1>9. Does(d, FinSent(d), w)
  BY <1>1, <1>6, <1>7, FinSentDoes DEF Does
<1> QED BY <1>7, <1>8, <1>9, WakesTrans DEF Does

LEMMA SendDataDoes ==
    ASSUME NEW c, NEW w \in Nat, Good(c, w), NEW length \in 0 .. c.datalen, NEW up
    PROVE  Does(c, SendData(c, length, up), w)
<1> DEFINE d == IF length <= 0 THEN c
                ELSE IF up THEN Sent(c, length)
                ELSE [c EXCEPT !.timers = @ \cup {"PERSIST"}]
<1>0. c \in CCB /\ c.datalen \in Nat
  BY Zenon DEF Good, CCB
<1>1. Does(c, d, w)
  <2>1. CASE length <= 0
    BY <2>1 DEF Does, Wakes
  <2>2. CASE length > 0 /\ up
    <3>1. length \in 1 .. c.datalen
      BY <1>0, <2>2
    <3> QED BY <1>0, <2>2, <3>1, SentDoes
  <2>3. CASE length > 0 /\ ~up
    <3> DEFINE t == [c EXCEPT !.timers = @ \cup {"PERSIST"}]
    <3>1. t \in CCB
      BY Zenon, <1>0 DEF CCB, Timers
    <3>2. Ring(t, w)
      BY <1>0 DEF Good, CCB, Ring
    <3>3. Wakes(c, t) /\ (t.state \in Early => t.datalen = 0 /\ t.chan = {})
      BY <1>0 DEF Good, CCB, Wakes
    <3> QED BY <1>0, <2>3, <3>1, <3>2, <3>3 DEF Does, Good
  <2> QED BY <1>0, <2>1, <2>2, <2>3
<1> DEFINE more == (IF d.unacklen > 0 THEN {"RESEND"} ELSE {})
                   \cup (IF d.datalen > 0 /\ d.sndwnd < MSS THEN {"PERSIST"} ELSE {})
           f == [d EXCEPT !.timers = @ \cup more]
<1>2. more \subseteq Timers
  BY DEF Timers, Resend3
<1>3. f = SendData(c, length, up)
  <2>1. f = [d EXCEPT !.timers =
            @ \cup (IF d.unacklen > 0 THEN {"RESEND"} ELSE {})
              \cup (IF d.datalen > 0 /\ d.sndwnd < MSS THEN {"PERSIST"} ELSE {})]
    <3> HIDE DEF d
    <3> QED OBVIOUS
  <2> QED BY <2>1 DEF SendData
<1> HIDE DEF d, more
<1>4. f \in CCB
  BY Zenon, <1>1, <1>2 DEF Does, Good, CCB
<1>5. Ring(f, w)
  BY <1>1 DEF Does, Good, CCB, Ring
<1>6. Wakes(d, f) /\ (f.state \in Early => f.datalen = 0 /\ f.chan = {})
  BY <1>1 DEF Does, Good, CCB, Wakes
<1>7. Does(c, f, w)
  BY <1>1, <1>4, <1>5, <1>6, WakesTrans DEF Does, Good
<1> QED BY <1>3, <1>7

LEMMA ResendDataDoes ==
    ASSUME NEW c, NEW w \in Nat, Good(c, w), NEW up
    PROVE  Does(c, ResendData(c, up), w)
<1> DEFINE n == AtMost(AtMost(c.unacklen, SNDBUF - c.unackoff), MSS)
           seg == Built(c, {"ACK"}, c.unackno, RingBytes(c, c.unackoff, n))
<1>1. c \in CCB /\ c.unackoff \in Nat /\ n \in Nat /\ c.unackoff + n <= SNDBUF
  <2>1. c \in CCB /\ c.unackoff \in 0 .. SNDBUF - 1 /\ c.unacklen \in Nat
    BY Zenon DEF Good, CCB
  <2>2. SNDBUF \in Nat \ {0} /\ MSS \in Nat \ {0}
    BY Constants
  <2> QED BY <2>1, <2>2 DEF AtMost
<1> HIDE DEF n
<1>2. RingBytes(c, c.unackoff, n) \in Seq(Nat)
  BY <1>1, RingBytesIsSeq
<1>3. seg \in Segment
  BY Zenon, <1>1, <1>2, BuiltIsSegment DEF Flags, CCB
<1> HIDE DEF seg
<1>4. Does(c, SendMsg(c, seg, up), w)
  BY <1>3, SendMsgDoes
<1>5. ResendData(c, up) = IF n > 0 THEN SendMsg(c, seg, up) ELSE c
  BY DEF ResendData, seg, n
<1>6. Does(c, c, w)
  BY DEF Does, Wakes
<1> QED BY <1>4, <1>5, <1>6

-----------------------------------------------------------------------------
(* Receiving.                                                              *)

(* Does is reflexive and transitive.                                       *)
LEMMA DoesRefl == ASSUME NEW c, NEW w \in Nat, Good(c, w) PROVE Does(c, c, w)
  BY DEF Does, Wakes

LEMMA DoesTrans ==
    ASSUME NEW c, NEW d, NEW f, NEW w \in Nat, Does(c, d, w), Does(d, f, w)
    PROVE  Does(c, f, w)
  BY WakesTrans DEF Does

LEMMA CountAckDoes ==
    ASSUME NEW c, NEW w \in Nat, Good(c, w), NEW n \in Nat
    PROVE  Does(c, CountAck(c, n), w) /\ CountAck(c, n).state = c.state
<1>1. AtMost(c.acktimes + n, TICK_ACK) \in Nat
  <2>1. c.acktimes \in Nat
    BY DEF Good, CCB
  <2> QED BY <2>1, Constants DEF AtMost
<1> DEFINE d == CountAck(c, n)
<1>2. d \in CCB
  BY Zenon, <1>1 DEF Good, CountAck, CCB
<1>3. Ring(d, w)
  BY Zenon DEF Good, CountAck, CCB, Ring
<1>4. /\ Wakes(c, d) /\ d.state = c.state
      /\ d.state \in Early => d.datalen = 0 /\ d.chan = {}
  BY Zenon DEF Good, CountAck, CCB, Wakes
<1> QED BY <1>2, <1>3, <1>4 DEF Does, Good

LEMMA DupAckDoes ==
    ASSUME NEW c, NEW w \in Nat, Good(c, w), NEW up
    PROVE  Does(c, DupAck(c, up), w)
<1> DEFINE d == [c EXCEPT !.dupacks = AtMost(@ + 1, FASTRETRANS + 1)]
           f == [d EXCEPT !.cwnd = SNDBUF]
<1>1. AtMost(c.dupacks + 1, FASTRETRANS + 1) \in Nat
  <2>1. c.dupacks \in Nat
    BY DEF Good, CCB
  <2> QED BY <2>1, Constants DEF AtMost
<1>2. Does(c, d, w)
  <2>1. d \in CCB
    BY Zenon, <1>1 DEF Good, CCB
  <2>2. Ring(d, w)
    BY Zenon DEF Good, CCB, Ring
  <2>3. Wakes(c, d) /\ (d.state \in Early => d.datalen = 0 /\ d.chan = {})
    BY Zenon DEF Good, CCB, Wakes
  <2> QED BY <2>1, <2>2, <2>3 DEF Does, Good
<1>3. DupAck(c, up) = IF d.dupacks > FASTRETRANS THEN ResendData(f, up) ELSE d
  BY DEF DupAck
<1> HIDE DEF d
<1>4. Does(d, f, w)
  BY Zenon, <1>2, Constants DEF Does, Good, CCB, Ring, Wakes
<1> HIDE DEF f
<1>5. Does(f, ResendData(f, up), w)
  BY <1>4, ResendDataDoes DEF Does
<1> QED BY <1>2, <1>3, <1>4, <1>5, DoesTrans

(* An acknowledgement frees at most the unacknowledged bytes, whatever     *)
(* number it carries, and lights the lamp if it frees any.                 *)
LEMMA NewAckDoes ==
    ASSUME NEW c, NEW w \in Nat, Good(c, w), NEW ack \in Seqno
    PROVE  Does(c, NewAck(c, ack), w)
<1> DEFINE n == AtMost(No(ack - c.unackno), c.unacklen)
           d == NewAck(c, ack)
           used == c.unacklen + c.datalen
<1>0. /\ c \in CCB /\ Ring(c, w) /\ SNDBUF \in Nat \ {0}
      /\ c.unacklen \in Nat /\ c.datalen \in Nat /\ c.buflenleft \in Nat
      /\ c.unackoff \in 0 .. SNDBUF - 1 /\ c.cwnd \in Nat
      /\ used + c.buflenleft = SNDBUF
      /\ c.sndnxtoff = (c.unackoff + c.unacklen) % SNDBUF
      /\ c.dataoff = (c.unackoff + used) % SNDBUF
  <2>1. c \in CCB /\ Ring(c, w) /\ SNDBUF \in Nat \ {0}
    BY Constants DEF Good
  <2> QED BY Zenon, <2>1 DEF CCB, Ring
<1>1. n \in 0 .. c.unacklen
  <2>0. c.unackno \in Seqno
    BY <1>0 DEF CCB
  <2>1. ack - c.unackno \in Int
    BY <2>0, Constants DEF Seqno
  <2>2. No(ack - c.unackno) \in Nat
    BY <2>1, NoIsSeqno, Constants DEF Seqno
  <2> QED BY <1>0, <2>2 DEF AtMost
<1>2. /\ d.sbuf = c.sbuf /\ d.unackoff = (c.unackoff + n) % SNDBUF
      /\ d.dataoff = c.dataoff /\ d.sndnxtoff = c.sndnxtoff
      /\ d.unacklen = c.unacklen - n /\ d.datalen = c.datalen
      /\ d.buflenleft = c.buflenleft + n
      /\ d.state = c.state /\ d.chan = c.chan /\ d.rbuf = c.rbuf
      /\ d.rcvlamp = c.rcvlamp
      /\ d.sndlamp = IF c.buflenleft + n > 0 \/ "ASND" \notin c.chan
                     THEN 1 ELSE c.sndlamp
  BY <1>0 DEF NewAck, CCB
<1>3. d \in CCB
  <2>1. (c.unackoff + n) % SNDBUF \in 0 .. SNDBUF - 1
    BY <1>0, <1>1, ModInRing
  <2>2. c.unacklen - n \in Nat /\ c.buflenleft + n \in Nat
    BY <1>0, <1>1
  <2>3. AtMost(c.cwnd + MSS, SNDBUF) \in Nat
    BY <1>0, Constants DEF AtMost
  <2> DEFINE lamp == IF c.buflenleft + n > 0 \/ "ASND" \notin c.chan
                     THEN 1 ELSE c.sndlamp
             timers == IF c.sndnxtno = ack THEN c.timers \ {"RESEND"} ELSE c.timers
  <2>4. lamp \in {0, 1} /\ timers \subseteq Timers
    BY Zenon, <1>0 DEF CCB
  <2>5. d = [c EXCEPT !.unackno = ack, !.unackoff = (@ + n) % SNDBUF,
                      !.unacklen = @ - n, !.buflenleft = @ + n, !.dupacks = 0,
                      !.cwnd = AtMost(@ + MSS, SNDBUF), !.resndtimes = 0,
                      !.sndlamp = lamp, !.timers = timers]
    BY DEF NewAck
  <2> HIDE DEF n, d, lamp, timers
  <2> DEFINE win == AtMost(c.cwnd + MSS, SNDBUF)
  <2>6. d = [c EXCEPT !.unackno = ack, !.unackoff = (@ + n) % SNDBUF,
                      !.unacklen = @ - n, !.buflenleft = @ + n, !.dupacks = 0,
                      !.cwnd = win, !.resndtimes = 0,
                      !.sndlamp = lamp, !.timers = timers]
    BY Zenon, <2>5
  <2>7. win \in Nat /\ 0 \in Nat
    BY <2>3
  <2> HIDE DEF win
  <2> QED BY ZenonT(60), <1>0, <2>1, <2>2, <2>4, <2>6, <2>7 DEF CCB
<1> HIDE DEF d, n
<1>4. ASSUME NEW k \in 0 .. SNDBUF, k + n <= SNDBUF
      PROVE  (d.unackoff + k) % SNDBUF = (c.unackoff + (n + k)) % SNDBUF
  <2>1. c.unackoff + n \in 0 .. 2 * SNDBUF - 1
    BY <1>0, <1>1
  <2>2. (((c.unackoff + n) % SNDBUF) + k) % SNDBUF = (c.unackoff + n + k) % SNDBUF
    BY <2>1, ModAdd
  <2> QED BY <1>0, <1>1, <1>2, <2>2
<1>5. Ring(d, w)
  <2>1. d.unacklen + d.datalen = used - n /\ used - n \in 0 .. SNDBUF
    BY <1>0, <1>1, <1>2
  <2>2. used - n + d.buflenleft = SNDBUF
    BY <1>0, <1>1, <1>2
  <2>3. d.sndnxtoff = (d.unackoff + d.unacklen) % SNDBUF
    <3>1. c.unacklen - n \in 0 .. SNDBUF /\ c.unacklen - n + n <= SNDBUF
          /\ n + (c.unacklen - n) = c.unacklen
      BY <1>0, <1>1
    <3> QED BY <1>0, <1>2, <1>4, <3>1
  <2>4. d.dataoff = (d.unackoff + (used - n)) % SNDBUF
    <3>1. used - n + n <= SNDBUF /\ n + (used - n) = used
      BY <1>0, <1>1
    <3> QED BY <1>0, <1>2, <1>4, <2>1, <3>1
  <2>5. ASSUME NEW i \in 1 .. used - n
        PROVE  d.sbuf[(d.unackoff + i - 1) % SNDBUF] = w - (used - n) + i
    <3>1. /\ i - 1 \in 0 .. SNDBUF /\ i - 1 + n <= SNDBUF
          /\ n + i \in 1 .. used
          /\ d.unackoff + (i - 1) = d.unackoff + i - 1
          /\ c.unackoff + (n + (i - 1)) = c.unackoff + (n + i) - 1
          /\ w - used + (n + i) = w - (used - n) + i
      <4>1. d.unackoff \in Int
        BY <1>3, <1>0 DEF CCB
      <4> QED BY <1>0, <1>1, <4>1
    <3>2. (d.unackoff + (i - 1)) % SNDBUF = (c.unackoff + (n + (i - 1))) % SNDBUF
      BY <1>4, <3>1
    <3>3. c.sbuf[(c.unackoff + (n + i) - 1) % SNDBUF] = w - used + (n + i)
      BY <1>0, <3>1 DEF Ring
    <3> QED BY <1>2, <3>1, <3>2, <3>3
  <2> HIDE DEF used
  <2> QED BY <2>1, <2>2, <2>3, <2>4, <2>5 DEF Ring
<1>6. Wakes(c, d)
  BY <1>0, <1>1, <1>2 DEF Wakes
<1>7. d.state \in Early => d.datalen = 0 /\ d.chan = {}
  BY <1>2 DEF Good
<1> QED BY <1>3, <1>5, <1>6, <1>7 DEF Does, Good, d

LEMMA AckDataDoes ==
    ASSUME NEW c, NEW w \in Nat, Good(c, w), NEW seg \in Segment, NEW up
    PROVE  Does(c, AckData(c, seg, up), w)
<1> DEFINE d == IF seg.ack = c.unackno /\ c.unacklen > 0 THEN DupAck(c, up)
                ELSE IF AcksNew(c, seg.ack) THEN NewAck(c, seg.ack)
                ELSE c
           f == [d EXCEPT !.sndwnd = seg.wnd - d.unacklen,
                          !.timers = @ \ {"PERSIST"}]
           g == [d EXCEPT !.sndwnd = 0, !.timers = @ \cup {"PERSIST"}]
<1>1. seg.ack \in Seqno /\ seg.wnd \in Nat
  BY Constants DEF Segment
<1>2. Does(c, d, w)
  BY <1>1, DupAckDoes, NewAckDoes, DoesRefl
<1>3. AckData(c, seg, up) = IF seg.wnd > d.unacklen THEN f ELSE g
  BY DEF AckData
<1> HIDE DEF d
<1>4. ASSUME seg.wnd > d.unacklen PROVE Does(d, f, w)
  <2>1. seg.wnd - d.unacklen \in Nat
    <3>1. d.unacklen \in Nat
      BY <1>2 DEF Does, Good, CCB
    <3> QED BY <1>1, <1>4, <3>1
  <2> QED BY Zenon, <1>2, <2>1 DEF Does, Good, CCB, Ring, Wakes
<1>5. Does(d, g, w)
  BY Zenon, <1>2 DEF Does, Good, CCB, Ring, Wakes, Timers
<1> HIDE DEF f, g
<1> QED BY <1>2, <1>3, <1>4, <1>5, DoesTrans

(* The reader is woken whenever rbuf grows.                                *)
LEMMA RcvDataDoes ==
    ASSUME NEW c, NEW w \in Nat, Good(c, w), NEW seg \in Segment
    PROVE  Does(c, RcvData(c, seg), w)
<1> DEFINE rest == SubSeq(seg.data, No(c.rcvnxt - seg.seq) + 1, Len(seg.data))
           stop == No(seg.seq + Len(seg.data))
           d == [c EXCEPT !.rbuf = @ \o rest, !.rcvnxt = stop, !.rcvlamp = 1]
<1>1. c.rcvnxt \in Seqno /\ c.rbuf \in Seq(Nat)
  BY DEF Good, CCB
<1>2. seg.seq \in Seqno /\ seg.data \in Seq(Nat)
  BY DEF Segment
<1>3. c.rcvnxt - seg.seq \in Int /\ seg.seq + Len(seg.data) \in Int
  BY <1>1, <1>2, Constants DEF Seqno
<1>4. No(c.rcvnxt - seg.seq) \in Seqno /\ stop \in Seqno
  BY <1>3, NoIsSeqno
<1>5. No(c.rcvnxt - seg.seq) + 1 \in Nat \ {0} /\ Len(seg.data) \in Nat
  BY <1>2, <1>4, Constants DEF Seqno
<1>6. rest \in Seq(Nat)
  BY <1>2, <1>5
<1>7. c.rbuf \o rest \in Seq(Nat)
  BY <1>1, <1>6
<1>8. RcvData(c, seg) = IF Expected(c, seg) THEN d ELSE c
  BY DEF RcvData
<1> HIDE DEF rest, stop
<1>9. d \in CCB
  BY Zenon, <1>4, <1>7 DEF Good, CCB
<1>10. Ring(d, w)
  BY DEF Good, CCB, Ring
<1>11. Wakes(c, d) /\ (d.state \in Early => d.datalen = 0 /\ d.chan = {})
  BY DEF Good, CCB, Wakes
<1> HIDE DEF d
<1>12. Does(c, d, w)
  BY <1>9, <1>10, <1>11 DEF Does, Good
<1> QED BY <1>8, <1>12, DoesRefl

LEMMA AckIfDueDoes ==
    ASSUME NEW c, NEW w \in Nat, Good(c, w), NEW up
    PROVE  Does(c, AckIfDue(c, up), w)
<1>1. c.sndnxtno \in Seqno /\ {"ACK"} \in SUBSET Flags
  BY DEF Good, CCB, Flags
<1> QED BY <1>1, SendFlagDoes, DoesRefl DEF AckIfDue

LEMMA CountDataDoes ==
    ASSUME NEW c, NEW w \in Nat, Good(c, w), NEW seg
    PROVE  Does(c, CountData(c, seg), w)
  BY CountAckDoes, DoesRefl DEF CountData

LEMMA TakeSegmentDoes ==
    ASSUME NEW c, NEW w \in Nat, Good(c, w), NEW seg \in Segment, NEW up
    PROVE  Does(c, TakeSegment(c, seg, up), w)
<1> DEFINE a == AckData(c, seg, up)
           r == IF "KRCV" \in a.chan THEN RcvData(a, seg) ELSE a
<1>1. Does(c, a, w)
  BY AckDataDoes
<1>2. TakeSegment(c, seg, up) = IF seg.data = << >> THEN a ELSE CountAck(r, 1)
  BY DEF TakeSegment
<1> HIDE DEF a
<1>3. Does(a, r, w)
  BY <1>1, RcvDataDoes, DoesRefl DEF Does
<1> HIDE DEF r
<1>4. Does(r, CountAck(r, 1), w)
  BY <1>3, CountAckDoes DEF Does
<1> QED BY <1>1, <1>2, <1>3, <1>4, DoesTrans

LEMMA FinSeenDoes ==
    ASSUME NEW c, NEW w \in Nat, Good(c, w), NEW s \in States \ Early
    PROVE  Does(c, FinSeen(c, s), w)
<1> DEFINE d == CountAck(c, TICK_ACK)
           f == [d EXCEPT !.rcvnxt = No(@ + 1), !.state = s,
                          !.chan = @ \ {"KRCV"}, !.rcvlamp = 1]
<1>1. Does(c, d, w)
  BY CountAckDoes, Constants
<1>2. FinSeen(c, s) = f
  BY DEF FinSeen
<1> HIDE DEF d
<1>3. d.rcvnxt \in Seqno
  BY <1>1 DEF Does, Good, CCB
<1>4. d.rcvnxt + 1 \in Int
  BY <1>3, Constants DEF Seqno
<1>5. No(d.rcvnxt + 1) \in Seqno
  BY <1>4, NoIsSeqno
<1>6. Does(d, f, w)
  <2>1. f \in CCB
    BY Zenon, <1>1, <1>5 DEF Does, Good, CCB
  <2>2. Ring(f, w)
    BY <1>1 DEF Does, Good, CCB, Ring
  <2>3. Wakes(d, f) /\ f.state \notin Early
    BY <1>1 DEF Does, Good, CCB, Wakes
  <2> QED BY <2>1, <2>2, <2>3 DEF Does, Good
<1> HIDE DEF f
<1> QED BY <1>1, <1>2, <1>6, DoesTrans

LEMMA SetStateDoes ==
    ASSUME NEW c, NEW w \in Nat, Good(c, w), c.state # "SYNSNT",
           NEW s \in States \ Early, NEW t \in SUBSET Timers
    PROVE  Does(c, [c EXCEPT !.state = s, !.timers = t], w)
<1> DEFINE d == [c EXCEPT !.state = s, !.timers = t]
<1>1. d \in CCB
  BY Zenon DEF Good, CCB
<1>2. Ring(d, w)
  BY Zenon DEF Good, CCB, Ring
<1>3. Wakes(c, d) /\ d.state \notin Early
  BY Zenon DEF Good, CCB, Wakes
<1> QED BY <1>1, <1>2, <1>3 DEF Does, Good

(* Only __tcpconnect enters SYNSNT.                                        *)
LEMMA NotSynSnt ==
    ASSUME NEW c, NEW d, NEW w, Does(c, d, w), c.state # "SYNSNT"
    PROVE  d.state # "SYNSNT"
  BY DEF Does, Wakes, Early

-----------------------------------------------------------------------------
(* The handlers.                                                           *)

LEMMA RcvSynDoes ==
    ASSUME NEW c, NEW w \in Nat, Good(c, w), NEW seg \in Segment, NEW up,
           c.state # "SYNSNT"
    PROVE  Does(c, RcvSyn(c, seg, up), w)
<1> DEFINE a == AckData(c, seg, up)
           s == [SynAcked(a) EXCEPT !.hashed = TRUE]
<1>1. Does(c, a, w)
  BY AckDataDoes
<1>2. RcvSyn(c, seg, up) = IF a.unackno = a.sndnxtno THEN s ELSE a
  BY DEF RcvSyn
<1> HIDE DEF a
<1>3. a.state # "SYNSNT"
  BY <1>1, NotSynSnt
<1>4. s \in CCB
  BY Zenon, <1>1 DEF Does, Good, CCB, SynAcked, States, Channels
<1>5. Ring(s, w)
  BY <1>1 DEF Does, Good, CCB, SynAcked, Ring
<1>6. Wakes(a, s) /\ s.state \notin Early
  BY <1>1, <1>3 DEF Does, Good, CCB, SynAcked, Wakes, Early
<1> HIDE DEF s
<1>7. Does(a, s, w)
  BY <1>4, <1>5, <1>6 DEF Does, Good
<1> QED BY <1>1, <1>2, <1>7, DoesTrans

LEMMA SndSynDoes ==
    ASSUME NEW c, NEW w \in Nat, Good(c, w), NEW seg \in Segment, NEW up
    PROVE  Does(c, SndSyn(c, seg, up), w)
<1> DEFINE a == AckData(c, seg, up)
           s == [SynAcked(a) EXCEPT !.rcvnxt = No(seg.seq + 1), !.rcvlamp = 1]
           t == SendFlag(s, {"ACK"}, a.sndnxtno, up)
<1>1. Does(c, a, w)
  BY AckDataDoes
<1>2. SndSyn(c, seg, up) = IF a.unackno = a.sndnxtno /\ seg.flags = {"SYN", "ACK"}
                           THEN t ELSE a
  BY DEF SndSyn
<1> HIDE DEF a
<1>3. No(seg.seq + 1) \in Seqno
  <2>1. seg.seq \in Seqno
    BY DEF Segment
  <2>2. seg.seq + 1 \in Int
    BY <2>1, Constants DEF Seqno
  <2> QED BY <2>2, NoIsSeqno
<1>4. s \in CCB
  BY Zenon, <1>1, <1>3 DEF Does, Good, CCB, SynAcked, States, Channels
<1>5. Ring(s, w)
  BY <1>1 DEF Does, Good, CCB, SynAcked, Ring
<1>6. Wakes(a, s) /\ s.state \notin Early
  BY <1>1 DEF Does, Good, CCB, SynAcked, Wakes, Early
<1> HIDE DEF s
<1>7. Does(a, s, w)
  BY <1>4, <1>5, <1>6 DEF Does, Good
<1>8. a.sndnxtno \in Seqno /\ {"ACK"} \in SUBSET Flags
  BY <1>1 DEF Does, Good, CCB, Flags
<1>9. Does(s, t, w)
  BY <1>7, <1>8, SendFlagDoes DEF Does
<1> HIDE DEF t
<1> QED BY <1>1, <1>2, <1>7, <1>9, DoesTrans

LEMMA SendMoreDoes ==
    ASSUME NEW c, NEW w \in Nat, Good(c, w), NEW up
    PROVE  /\ Does(c, SendData(c, ChkChannelSendLen(c), up), w)
           /\ Does(c, IF "KSND" \in c.chan
                      THEN SendData(c, ChkChannelSendLen(c), up) ELSE c, w)
<1>1. ChkChannelSendLen(c) \in 0 .. c.datalen
  BY SendLenInData DEF Good
<1> QED BY <1>1, SendDataDoes, DoesRefl

LEMMA StableDoes ==
    ASSUME NEW c, NEW w \in Nat, Good(c, w), NEW seg \in Segment, NEW up
    PROVE  Does(c, Stable(c, seg, up), w)
<1> DEFINE d == TakeSegment(c, seg, up)
           f == IF FinIsNext(c, d, seg) THEN FinSeen(d, "CLOSEWAIT")
                ELSE IF "SYN" \in seg.flags
                THEN SendFlag(d, {"ACK"}, d.sndnxtno, up)
                ELSE d
           s == IF "KSND" \in f.chan
                THEN SendData(f, ChkChannelSendLen(f), up) ELSE f
<1>1. Does(c, d, w)
  BY TakeSegmentDoes
<1>2. Stable(c, seg, up) = AckIfDue(s, up)
  BY DEF Stable
<1> HIDE DEF d
<1>3. d.sndnxtno \in Seqno /\ {"ACK"} \in SUBSET Flags /\ "CLOSEWAIT" \in States \ Early
  BY <1>1 DEF Does, Good, CCB, Flags, States, Early
<1>4. Does(d, f, w)
  BY <1>1, <1>3, FinSeenDoes, SendFlagDoes, DoesRefl DEF Does
<1> HIDE DEF f
<1>5. Does(f, s, w)
  BY <1>4, SendMoreDoes DEF Does
<1> HIDE DEF s
<1>6. Does(s, AckIfDue(s, up), w)
  BY <1>5, AckIfDueDoes DEF Does
<1> QED BY <1>1, <1>2, <1>4, <1>5, <1>6, DoesTrans

LEMMA FinToTimeWaitDoes ==
    ASSUME NEW c, NEW w \in Nat, Good(c, w), c.state # "SYNSNT"
    PROVE  Does(c, ToTimeWait(FinSeen(c, "TIMEWAIT")), w)
<1> DEFINE g == FinSeen(c, "TIMEWAIT")
<1>1. "TIMEWAIT" \in States \ Early /\ {"2MSL"} \in SUBSET Timers
  BY DEF States, Early, Timers
<1>2. Does(c, g, w)
  BY <1>1, FinSeenDoes
<1> HIDE DEF g
<1>3. g.state # "SYNSNT"
  BY <1>2, NotSynSnt
<1>4. Does(g, ToTimeWait(g), w)
  BY Zenon, <1>1, <1>2, <1>3, SetStateDoes DEF Does, ToTimeWait
<1> QED BY <1>2, <1>4, DoesTrans DEF g

LEMMA FinWait1Does ==
    ASSUME NEW c, NEW w \in Nat, Good(c, w), NEW seg \in Segment, NEW up,
           c.state # "SYNSNT"
    PROVE  Does(c, FinWait1(c, seg, up), w)
<1> DEFINE d == TakeSegment(c, seg, up)
           acked == d.unackno = d.sndnxtno
           v == [d EXCEPT !.state = "FINWAIT2",
                          !.timers = (@ \ {"FIN"}) \cup {"2MSL"}]
           x == IF acked THEN v ELSE d
           f == IF ~FinIsNext(c, d, seg) THEN x
                ELSE IF acked THEN ToTimeWait(FinSeen(x, "TIMEWAIT"))
                ELSE FinSeen(x, "CLOSING")
<1>1. Does(c, d, w)
  BY TakeSegmentDoes
<1>2. FinWait1(c, seg, up) = AckIfDue(f, up)
  BY DEF FinWait1
<1> HIDE DEF d
<1>3. Does(d, x, w) /\ x.state # "SYNSNT"
  <2>1. d.state # "SYNSNT"
    BY <1>1, NotSynSnt
  <2>2. (d.timers \ {"FIN"}) \cup {"2MSL"} \in SUBSET Timers
    BY <1>1 DEF Does, Good, CCB, Timers
  <2>3. "FINWAIT2" \in States \ Early
    BY DEF States, Early
  <2>4. Does(d, v, w)
    BY Zenon, <1>1, <2>1, <2>2, <2>3, SetStateDoes DEF Does
  <2> HIDE DEF v
  <2>5. Does(d, x, w)
    BY <1>1, <2>4, DoesRefl DEF Does
  <2> QED BY <2>1, <2>5, NotSynSnt
<1> HIDE DEF x
<1>4. Does(x, f, w)
  <2>1. "CLOSING" \in States \ Early
    BY DEF States, Early
  <2>2. Does(x, FinSeen(x, "CLOSING"), w)
    BY <1>3, <2>1, FinSeenDoes DEF Does
  <2>3. Does(x, ToTimeWait(FinSeen(x, "TIMEWAIT")), w)
    BY <1>3, FinToTimeWaitDoes DEF Does
  <2>4. Does(x, x, w)
    BY <1>3, DoesRefl DEF Does
  <2> QED BY <2>2, <2>3, <2>4
<1> HIDE DEF f
<1>5. Does(f, AckIfDue(f, up), w)
  BY <1>4, AckIfDueDoes DEF Does
<1> QED BY <1>1, <1>2, <1>3, <1>4, <1>5, DoesTrans

LEMMA FinWait2Does ==
    ASSUME NEW c, NEW w \in Nat, Good(c, w), NEW seg \in Segment, NEW up,
           c.state # "SYNSNT"
    PROVE  Does(c, FinWait2(c, seg, up), w)
<1> DEFINE d == TakeSegment(c, seg, up)
           f == IF FinIsNext(c, d, seg)
                THEN ToTimeWait(FinSeen(d, "TIMEWAIT")) ELSE d
<1>1. Does(c, d, w)
  BY TakeSegmentDoes
<1>2. FinWait2(c, seg, up) = AckIfDue(f, up)
  BY DEF FinWait2
<1> HIDE DEF d
<1>3. d.state # "SYNSNT"
  BY <1>1, NotSynSnt
<1>4. Does(d, f, w)
  BY <1>1, <1>3, FinToTimeWaitDoes, DoesRefl DEF Does
<1> HIDE DEF f
<1>5. Does(f, AckIfDue(f, up), w)
  BY <1>4, AckIfDueDoes DEF Does
<1> QED BY <1>1, <1>2, <1>4, <1>5, DoesTrans

LEMMA CountThenAckDoes ==
    ASSUME NEW c, NEW w \in Nat, Good(c, w), NEW seg, NEW up
    PROVE  Does(c, AckIfDue(CountData(c, seg), up), w)
<1> DEFINE d == CountData(c, seg)
<1>1. Does(c, d, w)
  BY CountDataDoes
<1> HIDE DEF d
<1>2. Does(d, AckIfDue(d, up), w)
  BY <1>1, AckIfDueDoes DEF Does
<1> QED BY <1>1, <1>2, DoesTrans DEF d

LEMMA ClosingDoes ==
    ASSUME NEW c, NEW w \in Nat, Good(c, w), NEW seg \in Segment, NEW up,
           c.state # "SYNSNT"
    PROVE  Does(c, Closing(c, seg, up), w)
<1> DEFINE a == AckData(c, seg, up)
           v == [a EXCEPT !.state = "TIMEWAIT",
                          !.timers = (@ \ {"FIN"}) \cup {"2MSL"}]
           x == IF a.unackno = a.sndnxtno THEN v ELSE a
<1>1. Does(c, a, w)
  BY AckDataDoes
<1>2. Closing(c, seg, up) = AckIfDue(CountData(x, seg), up)
  BY DEF Closing
<1> HIDE DEF a
<1>3. a.state # "SYNSNT"
  BY <1>1, NotSynSnt
<1>4. (a.timers \ {"FIN"}) \cup {"2MSL"} \in SUBSET Timers
  BY <1>1 DEF Does, Good, CCB, Timers
<1>5. Does(a, v, w)
  BY Zenon, <1>1, <1>3, <1>4, SetStateDoes DEF Does, States, Early
<1> HIDE DEF v
<1>6. Does(a, x, w)
  BY <1>1, <1>5, DoesRefl DEF Does
<1> HIDE DEF x
<1>7. Does(x, AckIfDue(CountData(x, seg), up), w)
  BY <1>6, CountThenAckDoes DEF Does
<1> QED BY <1>1, <1>2, <1>6, <1>7, DoesTrans

LEMMA LastAckDoes ==
    ASSUME NEW c, NEW w \in Nat, Good(c, w), NEW seg \in Segment, NEW up,
           c.state # "SYNSNT"
    PROVE  Does(c, LastAck(c, seg, up), w)
<1> DEFINE a == AckData(c, seg, up)
           v == [a EXCEPT !.state = "2FREE", !.timers = @ \ {"FIN"}]
           x == IF a.unackno = a.sndnxtno THEN v ELSE a
<1>1. Does(c, a, w)
  BY AckDataDoes
<1>2. LastAck(c, seg, up) = AckIfDue(CountData(x, seg), up)
  BY DEF LastAck
<1> HIDE DEF a
<1>3. a.state # "SYNSNT"
  BY <1>1, NotSynSnt
<1>4. a.timers \ {"FIN"} \in SUBSET Timers
  BY <1>1 DEF Does, Good, CCB
<1>5. Does(a, v, w)
  BY Zenon, <1>1, <1>3, <1>4, SetStateDoes DEF Does, States, Early
<1> HIDE DEF v
<1>6. Does(a, x, w)
  BY <1>1, <1>5, DoesRefl DEF Does
<1> HIDE DEF x
<1>7. Does(x, AckIfDue(CountData(x, seg), up), w)
  BY <1>6, CountThenAckDoes DEF Does
<1> QED BY <1>1, <1>2, <1>6, <1>7, DoesTrans

LEMMA CloseWaitDoes ==
    ASSUME NEW c, NEW w \in Nat, Good(c, w), NEW seg \in Segment, NEW up
    PROVE  Does(c, CloseWait(c, seg, up), w)
<1> DEFINE b == AckData(c, seg, up)
           a == CountData(b, seg)
           s == IF "KSND" \in a.chan
                THEN SendData(a, ChkChannelSendLen(a), up) ELSE a
<1>1. Does(c, b, w)
  BY AckDataDoes
<1>2. CloseWait(c, seg, up) = AckIfDue(s, up)
  BY DEF CloseWait
<1> HIDE DEF b
<1>3. Does(b, a, w)
  BY <1>1, CountDataDoes DEF Does
<1> HIDE DEF a
<1>4. Does(a, s, w)
  BY <1>3, SendMoreDoes DEF Does
<1> HIDE DEF s
<1>5. Does(s, AckIfDue(s, up), w)
  BY <1>4, AckIfDueDoes DEF Does
<1> QED BY <1>1, <1>2, <1>3, <1>4, <1>5, DoesTrans

(* A segment is handled, in any state.                                     *)
LEMMA DealRecvPkgDoes ==
    ASSUME NEW c, NEW w \in Nat, Good(c, w), NEW seg \in Segment, NEW up
    PROVE  Does(c, DealRecvPkg(c, seg, up), w)
<1> DEFINE d == DealRecvPkg(c, seg, up)
           reset == "RST" \in seg.flags /\ c.rcvnxt = seg.seq
<1>1. CASE reset
  BY <1>1, ResetDoes DEF DealRecvPkg
<1>2. CASE ~reset /\ c.state = "SYNSNT"
  <2>1. d = SndSyn(c, seg, up)
    BY <1>2 DEF DealRecvPkg
  <2> QED BY <2>1, SndSynDoes
<1>3. CASE ~reset /\ c.state = "SYNRCV"
  <2>1. d = RcvSyn(c, seg, up)
    BY <1>3 DEF DealRecvPkg
  <2> QED BY <1>3, <2>1, RcvSynDoes
<1>4. CASE ~reset /\ c.state = "ESTABLISH"
  <2>1. d = Stable(c, seg, up)
    BY <1>4 DEF DealRecvPkg
  <2> QED BY <2>1, StableDoes
<1>5. CASE ~reset /\ c.state = "FINWAIT1"
  <2>1. d = FinWait1(c, seg, up)
    BY <1>5 DEF DealRecvPkg
  <2> QED BY <1>5, <2>1, FinWait1Does
<1>6. CASE ~reset /\ c.state = "FINWAIT2"
  <2>1. d = FinWait2(c, seg, up)
    BY <1>6 DEF DealRecvPkg
  <2> QED BY <1>6, <2>1, FinWait2Does
<1>7. CASE ~reset /\ c.state = "CLOSING"
  <2>1. d = Closing(c, seg, up)
    BY <1>7 DEF DealRecvPkg
  <2> QED BY <1>7, <2>1, ClosingDoes
<1>8. CASE ~reset /\ c.state = "TIMEWAIT"
  <2>1. d = AckIfDue(CountData(c, seg), up)
    BY <1>8 DEF DealRecvPkg, TimeWait
  <2> QED BY <2>1, CountThenAckDoes
<1>9. CASE ~reset /\ c.state = "CLOSEWAIT"
  <2>1. d = CloseWait(c, seg, up)
    BY <1>9 DEF DealRecvPkg
  <2> QED BY <2>1, CloseWaitDoes
<1>10. CASE ~reset /\ c.state = "LASTACK"
  <2>1. d = LastAck(c, seg, up)
    BY <1>10 DEF DealRecvPkg
  <2> QED BY <1>10, <2>1, LastAckDoes
<1>11. CASE /\ ~reset
            /\ c.state \notin {"SYNSNT", "SYNRCV", "ESTABLISH", "FINWAIT1",
                               "FINWAIT2", "CLOSING", "TIMEWAIT", "CLOSEWAIT",
                               "LASTACK"}
  <2>1. d = c
    BY <1>11 DEF DealRecvPkg
  <2> QED BY <2>1, DoesRefl
<1> QED BY <1>1, <1>2, <1>3, <1>4, <1>5, <1>6, <1>7, <1>8, <1>9, <1>10, <1>11

-----------------------------------------------------------------------------
(* The timers and the calls of the thread.                                 *)

LEMMA RetransmitDoes ==
    ASSUME NEW c, NEW w \in Nat, Good(c, w), NEW gone, NEW up
    PROVE  Does(c, Retransmit(c, gone, up), w)
<1> DEFINE syn == IF c.state = "SYNRCV" THEN {"SYN", "ACK"} ELSE {"SYN"}
           sent == IF "SYN" \in c.timers THEN SendFlag(c, syn, c.unackno, up)
                   ELSE IF "RESEND" \in c.timers THEN ResendData(c, up)
                   ELSE SendFlag(c, {"FIN", "ACK"}, No(c.sndnxtno - 1), up)
           s == IF gone THEN "2FREE" ELSE c.state
           t == [sent EXCEPT !.cwnd = MSS, !.resndtimes = @ + 1]
<1>1. /\ syn \in SUBSET Flags /\ {"FIN", "ACK"} \in SUBSET Flags
      /\ c.unackno \in Seqno /\ c.sndnxtno \in Seqno
  BY DEF Good, CCB, Flags
<1>2. No(c.sndnxtno - 1) \in Seqno
  <2>1. c.sndnxtno - 1 \in Int
    BY <1>1, Constants DEF Seqno
  <2> QED BY <2>1, NoIsSeqno
<1>3. Retransmit(c, gone, up) = IF c.resndtimes > RSNDMAX THEN ResetCCB(c, s) ELSE t
  BY DEF Retransmit
<1>4. Does(c, ResetCCB(c, s), w)
  BY ResetDoes
<1> HIDE DEF syn
<1>5. Does(c, sent, w)
  BY <1>1, <1>2, SendFlagDoes, ResendDataDoes
<1> HIDE DEF sent
<1>6. Does(sent, t, w)
  <2>1. sent.resndtimes + 1 \in Nat /\ MSS \in Nat
    <3>1. sent.resndtimes \in Nat
      BY <1>5 DEF Does, Good, CCB
    <3> QED BY <3>1, Constants
  <2>2. t \in CCB
    BY Zenon, <1>5, <2>1 DEF Does, Good, CCB
  <2>3. Ring(t, w)
    BY <1>5 DEF Does, Good, CCB, Ring
  <2>4. Wakes(sent, t) /\ (t.state \in Early => t.datalen = 0 /\ t.chan = {})
    BY <1>5 DEF Does, Good, CCB, Wakes
  <2> QED BY <2>2, <2>3, <2>4 DEF Does, Good
<1> HIDE DEF t
<1> QED BY <1>3, <1>4, <1>5, <1>6, DoesTrans

LEMMA DealClientTimerDoes ==
    ASSUME NEW c, NEW w \in Nat, Good(c, w), NEW gone, NEW x, NEW up
    PROVE  Does(c, DealClientTimer(c, gone, x, up), w)
<1> DEFINE m == IF "msl" \in x /\ "2MSL" \in c.timers
                THEN ResetCCB(c, "2FREE") ELSE c
           r == IF "resnd" \in x /\ m.timers \cap Resend3 # {}
                THEN Retransmit(m, gone, up) ELSE m
           p == IF "persist" \in x /\ "PERSIST" \in r.timers /\ r.datalen > 0
                THEN SendData(r, 1, up) ELSE r
           q == IF p.acktimes > 0 THEN SendFlag(p, {"ACK"}, p.sndnxtno, up) ELSE p
<1>1. Does(c, m, w)
  BY ResetDoes, DoesRefl
<1>2. DealClientTimer(c, gone, x, up) = q
  BY Zenon DEF DealClientTimer
<1> HIDE DEF m
<1>3. Does(m, r, w)
  BY <1>1, RetransmitDoes, DoesRefl DEF Does
<1> HIDE DEF r
<1>4. Does(r, p, w)
  <2>1. ASSUME r.datalen > 0 PROVE 1 \in 0 .. r.datalen
    <3>1. r.datalen \in Nat
      BY <1>3 DEF Does, Good, CCB
    <3> QED BY <2>1, <3>1
  <2> QED BY <1>3, <2>1, SendDataDoes, DoesRefl DEF Does
<1> HIDE DEF p
<1>5. p.sndnxtno \in Seqno /\ {"ACK"} \in SUBSET Flags
  BY <1>4 DEF Does, Good, CCB, Flags
<1>6. Does(p, q, w)
  BY <1>4, <1>5, SendFlagDoes, DoesRefl DEF Does
<1> HIDE DEF q
<1> QED BY <1>1, <1>2, <1>3, <1>4, <1>6, DoesTrans

LEMMA ShutdownRDDoes ==
    ASSUME NEW c, NEW w \in Nat, Good(c, w), c.state \notin Early
    PROVE  Does(c, ShutdownRD(c), w)
<1>1. << >> \in Seq(Nat)
  OBVIOUS
<1>2. ShutdownRD(c) \in CCB
  BY Zenon, <1>1 DEF Good, CCB, ShutdownRD
<1>3. Ring(ShutdownRD(c), w)
  BY DEF Good, CCB, ShutdownRD, Ring
<1>4. Wakes(c, ShutdownRD(c)) /\ ShutdownRD(c).state \notin Early
  BY DEF Good, CCB, ShutdownRD, Wakes
<1> QED BY <1>2, <1>3, <1>4 DEF Does, Good

LEMMA NotEarly ==
    ASSUME NEW c, NEW d, NEW w, Does(c, d, w), c.state \notin Early
    PROVE  d.state \notin Early
  BY DEF Does, Wakes

LEMMA ShutdownWRDoes ==
    ASSUME NEW c, NEW w \in Nat, Good(c, w), c.state \notin Early, NEW up
    PROVE  Does(c, ShutdownWR(c, up), w)
<1> DEFINE d == [c EXCEPT !.chan = @ \ {"ASND"}]
           s == SendFlag(d, {"FIN", "ACK"}, d.sndnxtno, up)
<1>1. Does(c, d, w) /\ d.state \notin Early
  <2>1. d \in CCB
    BY Zenon DEF Good, CCB
  <2>2. Ring(d, w)
    BY DEF Good, CCB, Ring
  <2>3. Wakes(c, d) /\ d.state \notin Early
    BY DEF Good, CCB, Wakes
  <2> QED BY <2>1, <2>2, <2>3 DEF Does, Good
<1>2. ShutdownWR(c, up) = IF d.datalen = 0 THEN FinSent(s) ELSE d
  BY DEF ShutdownWR
<1> HIDE DEF d
<1>3. d.sndnxtno \in Seqno /\ {"FIN", "ACK"} \in SUBSET Flags
  BY <1>1 DEF Does, Good, CCB, Flags
<1>4. Does(d, s, w)
  BY <1>1, <1>3, SendFlagDoes DEF Does
<1> HIDE DEF s
<1>5. s.state \notin Early
  BY <1>1, <1>4, NotEarly
<1>6. Does(s, FinSent(s), w)
  BY <1>4, <1>5, FinSentDoes DEF Does
<1> QED BY <1>1, <1>2, <1>4, <1>6, DoesTrans

LEMMA SetSeqDoes ==
    ASSUME NEW c, NEW w \in Nat, Good(c, w), NEW t \in SUBSET Timers
    PROVE  Does(c, [c EXCEPT !.timers = t, !.sndnxtno = No(@ + 1)], w)
<1> DEFINE d == [c EXCEPT !.timers = t, !.sndnxtno = No(@ + 1)]
<1>1. c.sndnxtno \in Seqno
  BY DEF Good, CCB
<1>2. c.sndnxtno + 1 \in Int
  BY <1>1, Constants DEF Seqno
<1>3. No(c.sndnxtno + 1) \in Seqno
  BY <1>2, NoIsSeqno
<1>4. d \in CCB
  BY Zenon, <1>3 DEF Good, CCB
<1>5. Ring(d, w)
  BY DEF Good, CCB, Ring
<1>6. Wakes(c, d) /\ (d.state \in Early => d.datalen = 0 /\ d.chan = {})
  BY DEF Good, CCB, Wakes
<1> QED BY <1>4, <1>5, <1>6 DEF Does, Good

LEMMA NewClientGood ==
    ASSUME NEW e \in End, NEW w \in Nat, NEW seg \in Segment, NEW up
    PROVE  /\ Good(NewClient(e, seg, up), w)
           /\ NewClient(e, seg, up).state \notin Early
           /\ NewClient(e, seg, up).sndlamp # 0
<1> DEFINE b == CreateCCB(e, "SYNRCV")
           c == [b EXCEPT !.rcvnxt = No(seg.seq + 1), !.sndwnd = seg.wnd]
           s == SendFlag(c, {"SYN", "ACK"}, c.sndnxtno, up)
           d == [s EXCEPT !.timers = {"SYN"}, !.sndnxtno = No(@ + 1)]
<1>1. Good(b, w) /\ b.state = "SYNRCV" /\ b.sndlamp = 1
  <2>1. Good(b, w)
    BY CreateGood DEF States
  <2> QED BY <2>1 DEF CreateCCB
<1>2. NewClient(e, seg, up) = d
  BY DEF NewClient
<1> HIDE DEF b
<1>3. No(seg.seq + 1) \in Seqno /\ seg.wnd \in Nat
  <2>1. seg.seq \in Seqno /\ seg.wnd \in 0 .. RCVBUF
    BY DEF Segment
  <2>2. seg.seq + 1 \in Int /\ seg.wnd \in Nat
    BY <2>1, Constants DEF Seqno
  <2> QED BY <2>2, NoIsSeqno
<1>4. Good(c, w) /\ c.state \notin Early /\ c.sndlamp = 1
  <2>1. c \in CCB
    BY Zenon, <1>1, <1>3 DEF Good, CCB
  <2>2. Ring(c, w)
    BY <1>1 DEF Good, CCB, Ring
  <2>3. c.state \notin Early /\ c.sndlamp = 1
    BY Zenon, <1>1 DEF Good, CCB, Early
  <2> QED BY <2>1, <2>2, <2>3 DEF Good
<1> HIDE DEF c
<1>5. c.sndnxtno \in Seqno /\ {"SYN", "ACK"} \in SUBSET Flags /\ {"SYN"} \in SUBSET Timers
  BY <1>4 DEF Good, CCB, Flags, Timers, Resend3
<1>6. Does(c, s, w)
  BY <1>4, <1>5, SendFlagDoes
<1> HIDE DEF s
<1>7. Does(s, d, w)
  BY Zenon, <1>5, <1>6, SetSeqDoes DEF Does
<1> HIDE DEF d
<1>8. Does(c, d, w)
  BY <1>6, <1>7, DoesTrans
<1> QED BY <1>2, <1>4, <1>8 DEF Does, Wakes

-----------------------------------------------------------------------------
(* The inductive invariant.                                                *)

(* The threads.                                                            *)
App == [pc : {"idle", "connect", "send", "recv"}, open : BOOLEAN,
        close : BOOLEAN, calls : SUBSET Calls, written : Nat, read : Seq(Nat)]

(* One end: the ring, what the early states say of the thread, and the     *)
(* three waits. An early state is needed because __senddata of a persist   *)
(* probe would otherwise move a socket that still connects to FINWAIT1     *)
(* without lighting the lamp.                                              *)
EndOK(c, a) ==
    /\ Good(c, a.written) /\ c.out = {}
    /\ c.state = "NONE" => a.open = FALSE /\ a.pc = "idle"
    /\ c.state = "CREAT" => a.open = TRUE /\ a.pc = "idle"
    /\ c.state = "SYNSNT" => a.open = TRUE /\ a.pc = "connect"
    /\ c.state \notin {"NONE", "FREED"} =>
          /\ a.pc = "recv" /\ c.rcvlamp = 0 => c.rbuf = << >> /\ "KRCV" \in c.chan
          /\ a.pc = "connect" /\ c.rcvlamp = 0 => c.state = "SYNSNT"
          /\ a.pc # "send" /\ c.sndlamp = 0 => c.buflenleft = 0

(* SendRing and NoLostWakeup are not inductive without the types of what   *)
(* is under way and without what the early states exclude.                 *)
IInv ==
    /\ plan \in Plans
    /\ ccb \in [End -> CCB] /\ app \in [End -> App]
    /\ net \in [End -> SUBSET Segment]
    /\ \A e \in End : EndOK(ccb[e], app[e])

(* A handler within Does keeps an end as it should be.                     *)
LEMMA HandlerEndOK ==
    ASSUME NEW c, NEW a \in App, NEW d, EndOK(c, a), Does(c, d, a.written),
           d.out = {},
           c.state \notin {"NONE", "FREED"} \/ d.state = c.state
    PROVE  EndOK(d, a)
  BY DEF EndOK, Does, Wakes, Early

LEMMA OutGone ==
    ASSUME NEW c, NEW w \in Nat, Good(c, w)
    PROVE  /\ Does(c, [c EXCEPT !.out = {}], w)
           /\ [c EXCEPT !.out = {}].out = {}
           /\ [c EXCEPT !.out = {}].state = c.state
           /\ [c EXCEPT !.out = {}].sndlamp = c.sndlamp
           /\ [c EXCEPT !.out = {}].buflenleft = c.buflenleft
<1> DEFINE d == [c EXCEPT !.out = {}]
<1>1. d \in CCB
  BY Zenon DEF Good, CCB
<1>2. Ring(d, w)
  BY DEF Good, CCB, Ring
<1>3. Wakes(c, d) /\ (d.state \in Early => d.datalen = 0 /\ d.chan = {})
  BY DEF Good, CCB, Wakes
<1>4. /\ d.out = {} /\ d.state = c.state /\ d.sndlamp = c.sndlamp
      /\ d.buflenleft = c.buflenleft
  BY DEF Good, CCB
<1> QED BY <1>1, <1>2, <1>3, <1>4 DEF Does, Good

(* What Finish leaves.                                                     *)
LEMMA FinishStep ==
    ASSUME IInv, NEW e \in End, NEW c, NEW w \in Nat, Good(c, w),
           NEW arrived \in SUBSET Segment, NEW up, Finish(e, c, arrived, up)
    PROVE  /\ plan' = plan /\ ccb' \in [End -> CCB]
           /\ net' \in [End -> SUBSET Segment]
           /\ ccb'[e] = [c EXCEPT !.out = {}]
           /\ \A x \in End \ {e} : ccb'[x] = ccb[x]
<1> DEFINE d == [c EXCEPT !.out = {}]
<1>1. ccb' = [ccb EXCEPT ![e] = d] /\ plan' = plan
  BY DEF Finish
<1>2. d \in CCB
  BY OutGone DEF Does, Good
<1> HIDE DEF d
<1>3. /\ ccb' \in [End -> CCB] /\ ccb'[e] = d
      /\ \A x \in End \ {e} : ccb'[x] = ccb[x]
  BY <1>1, <1>2 DEF IInv
<1>4. net' \in [End -> SUBSET Segment]
  <2>1. PICK kept \in SUBSET c.out :
           net' = [net EXCEPT ![Peer(e)] = net[Peer(e)] \cup kept, ![e] = arrived]
    BY Zenon DEF Finish
  <2>2. c.out \subseteq Segment
    BY DEF Good, CCB
  <2>3. Peer(e) \in End
    BY DEF Peer, End
  <2>4. net[Peer(e)] \cup kept \in SUBSET Segment
    BY <2>2, <2>3 DEF IInv
  <2> QED BY <2>1, <2>3, <2>4 DEF IInv
<1> QED BY <1>1, <1>3, <1>4 DEF d

(* A step of the network thread or of the tick.                            *)
LEMMA HandlerStep ==
    ASSUME IInv, NEW e \in End, NEW c, Does(ccb[e], c, app[e].written),
           ccb[e].state \notin {"NONE", "FREED"} \/ c.state = ccb[e].state,
           NEW arrived \in SUBSET Segment, NEW up, Finish(e, c, arrived, up),
           UNCHANGED app
    PROVE  IInv'
<1> DEFINE d == [c EXCEPT !.out = {}]
<1>0. app[e] \in App /\ app[e].written \in Nat /\ EndOK(ccb[e], app[e])
  BY DEF IInv, App
<1>1. Good(c, app[e].written)
  BY DEF Does
<1>2. /\ plan' = plan /\ ccb' \in [End -> CCB] /\ net' \in [End -> SUBSET Segment]
      /\ ccb'[e] = d /\ \A x \in End \ {e} : ccb'[x] = ccb[x]
  BY <1>0, <1>1, FinishStep
<1>3. Does(c, d, app[e].written) /\ d.out = {} /\ d.state = c.state
  BY <1>0, <1>1, OutGone
<1> HIDE DEF d
<1>4. Does(ccb[e], d, app[e].written)
  BY <1>0, <1>3, DoesTrans
<1>5. EndOK(d, app[e])
  BY <1>0, <1>3, <1>4, HandlerEndOK
<1> QED BY <1>2, <1>5 DEF IInv

(* A step of a thread.                                                     *)
LEMMA AppStep ==
    ASSUME IInv, NEW e \in End, NEW d \in CCB, NEW a \in App, EndOK(d, a),
           ccb' \in [End -> CCB], ccb'[e] = d, \A x \in End \ {e} : ccb'[x] = ccb[x],
           app' = [app EXCEPT ![e] = a], plan' = plan,
           net' \in [End -> SUBSET Segment]
    PROVE  IInv'
<1>1. app' \in [End -> App] /\ app'[e] = a /\ \A x \in End \ {e} : app'[x] = app[x]
  BY DEF IInv
<1> QED BY <1>1 DEF IInv

LEMMA ConnectStep ==
    ASSUME IInv, NEW e \in End, NEW up, TcpConnect(e, up)
    PROVE  IInv'
<1> DEFINE c == ccb[e]
           a == [app[e] EXCEPT !.pc = "connect"]
           s == SendFlag(c, {"SYN"}, c.sndnxtno, up)
           d == [s EXCEPT !.sndnxtno = No(@ + 1), !.state = "SYNSNT",
                          !.timers = {"SYN"}]
           w == app[e].written
<1>0. /\ app[e] \in App /\ w \in Nat /\ EndOK(c, app[e]) /\ Good(c, w)
      /\ app[e].open = TRUE /\ c.state = "CREAT" /\ app[e].pc = "idle"
      /\ Finish(e, d, net[e], up) /\ app' = [app EXCEPT ![e] = a]
      /\ net[e] \in SUBSET Segment
  BY DEF IInv, App, TcpConnect, SetPc, EndOK
<1>1. c.sndnxtno \in Seqno /\ {"SYN"} \in SUBSET Flags /\ {"SYN"} \in SUBSET Timers
  BY <1>0 DEF Good, CCB, Flags, Timers, Resend3
<1>2. Does(c, s, w)
  BY <1>0, <1>1, SendFlagDoes
<1>3. s.state = "CREAT"
  BY <1>0 DEF SendFlag, SendMsg, Good, CCB
<1> HIDE DEF s
<1>4. s.sndnxtno \in Seqno
  BY <1>2 DEF Does, Good, CCB
<1>5. s.sndnxtno + 1 \in Int
  BY <1>4, Constants DEF Seqno
<1>6. No(s.sndnxtno + 1) \in Seqno /\ "SYNSNT" \in States
  BY <1>5, NoIsSeqno DEF States
<1>7. /\ d \in CCB
      /\ d.state = "SYNSNT" /\ d.sndlamp = s.sndlamp /\ d.buflenleft = s.buflenleft
      /\ d.datalen = s.datalen /\ d.chan = s.chan
  BY Zenon, <1>1, <1>2, <1>6 DEF Does, Good, CCB
<1>8. Ring(d, w)
  BY <1>2 DEF Does, Good, CCB, Ring
<1>9. d.datalen = 0 /\ d.chan = {}
  BY <1>2, <1>3, <1>7 DEF Does, Good, Early
<1> HIDE DEF d
<1>10. Good(d, w)
  BY <1>7, <1>8, <1>9 DEF Good
<1> DEFINE f == [d EXCEPT !.out = {}]
<1>11. /\ plan' = plan /\ ccb' \in [End -> CCB] /\ net' \in [End -> SUBSET Segment]
       /\ ccb'[e] = f /\ \A x \in End \ {e} : ccb'[x] = ccb[x]
  BY Zenon, <1>0, <1>10, FinishStep
<1>12. /\ Good(f, w) /\ f.out = {} /\ f.state = "SYNSNT"
       /\ f.sndlamp = s.sndlamp /\ f.buflenleft = s.buflenleft
  BY <1>0, <1>7, <1>10, OutGone DEF Does
<1> HIDE DEF f
<1>13. s.sndlamp = 0 => s.buflenleft = 0
  BY <1>0, <1>2 DEF Does, Wakes, EndOK
<1>14. a \in App /\ a.pc = "connect" /\ a.open = TRUE /\ a.written = w
  BY Zenon, <1>0 DEF App
<1> HIDE DEF a
<1>15. EndOK(f, a)
  BY <1>12, <1>13, <1>14 DEF EndOK
<1> QED BY Zenon, <1>0, <1>11, <1>12, <1>14, <1>15, AppStep DEF Good

LEMMA ConnectReturnStep ==
    ASSUME IInv, NEW e \in End, TcpConnectReturn(e)
    PROVE  IInv'
<1> DEFINE c == [ccb[e] EXCEPT !.rcvlamp = 0]
           a == [app[e] EXCEPT !.pc = "idle"]
           g == [c EXCEPT !.chan = @ \cup {"ASND", "ARCV"}]
           d == IF c.state = "ESTABLISH" THEN g ELSE ResetCCB(c, "2FREE")
           w == app[e].written
<1>0. /\ app[e] \in App /\ w \in Nat /\ EndOK(ccb[e], app[e]) /\ Good(ccb[e], w)
      /\ app[e].pc = "connect"
      /\ Finish(e, d, net[e], TRUE) /\ app' = [app EXCEPT ![e] = a]
      /\ net[e] \in SUBSET Segment
  BY Zenon DEF IInv, App, TcpConnectReturn, SetPc, EndOK
<1>1. /\ Good(c, w) /\ c.state = ccb[e].state /\ c.sndlamp = ccb[e].sndlamp
      /\ c.buflenleft = ccb[e].buflenleft
  <2>1. c \in CCB
    BY Zenon, <1>0 DEF Good, CCB
  <2>2. Ring(c, w)
    BY <1>0 DEF Good, CCB, Ring
  <2>3. /\ c.state = ccb[e].state /\ c.sndlamp = ccb[e].sndlamp
        /\ c.buflenleft = ccb[e].buflenleft
        /\ c.state \in Early => c.datalen = 0 /\ c.chan = {}
    BY <1>0 DEF Good, CCB
  <2> QED BY <2>1, <2>2, <2>3 DEF Good
<1> HIDE DEF c
<1>2. ASSUME c.state = "ESTABLISH"
      PROVE  Good(g, w) /\ g.state = "ESTABLISH" /\ (g.sndlamp = 0 => g.buflenleft = 0)
  <2>1. g \in CCB
    BY Zenon, <1>1 DEF Good, CCB, Channels
  <2>2. Ring(g, w)
    BY Zenon, <1>1 DEF Good, CCB, Ring
  <2>3. g.state = "ESTABLISH" /\ g.sndlamp = c.sndlamp /\ g.buflenleft = c.buflenleft
    BY Zenon, <1>1, <1>2 DEF Good, CCB
  <2>4. c.sndlamp = 0 => c.buflenleft = 0
    BY <1>0, <1>1, <1>2 DEF EndOK
  <2> QED BY <2>1, <2>2, <2>3, <2>4 DEF Good, Early
<1>3. /\ Good(ResetCCB(c, "2FREE"), w) /\ ResetCCB(c, "2FREE").state = "2FREE"
      /\ ResetCCB(c, "2FREE").sndlamp = 1
  <2>1. Good(ResetCCB(c, "2FREE"), w)
    BY <1>0, <1>1, ResetDoes DEF Does
  <2> QED BY Zenon, <1>1, <2>1 DEF Good, CCB, ResetCCB
<1> HIDE DEF g
<1>4. /\ Good(d, w) /\ d.state \in {"ESTABLISH", "2FREE"}
      /\ d.sndlamp = 0 => d.buflenleft = 0
  BY <1>2, <1>3
<1> HIDE DEF d
<1> DEFINE f == [d EXCEPT !.out = {}]
<1>5. /\ plan' = plan /\ ccb' \in [End -> CCB] /\ net' \in [End -> SUBSET Segment]
      /\ ccb'[e] = f /\ \A x \in End \ {e} : ccb'[x] = ccb[x]
  BY Zenon, <1>0, <1>4, FinishStep
<1>6. /\ Good(f, w) /\ f.out = {} /\ f.state = d.state
      /\ f.sndlamp = d.sndlamp /\ f.buflenleft = d.buflenleft
  BY <1>0, <1>4, OutGone DEF Does
<1> HIDE DEF f
<1>7. a \in App /\ a.pc = "idle" /\ a.written = w
  BY Zenon, <1>0 DEF App
<1> HIDE DEF a
<1>8. EndOK(f, a)
  BY <1>4, <1>6, <1>7 DEF EndOK
<1> QED BY Zenon, <1>0, <1>5, <1>6, <1>7, <1>8, AppStep DEF Good

LEMMA AcceptStep ==
    ASSUME IInv, NEW e \in End, TcpAccept(e)
    PROVE  IInv'
<1> DEFINE c == ccb[e]
           d == [c EXCEPT !.chan = @ \cup {"ASND", "ARCV"}]
           a == [app[e] EXCEPT !.open = TRUE]
           w == app[e].written
<1>0. /\ app[e] \in App /\ EndOK(c, app[e]) /\ Good(c, w)
      /\ c.state \notin {"NONE", "FREED"} /\ app[e].open = FALSE
      /\ ccb' = [ccb EXCEPT ![e] = d] /\ app' = [app EXCEPT ![e] = a]
      /\ net' = net /\ plan' = plan
  BY DEF IInv, App, TcpAccept, Live, EndOK
<1>1. c.state \notin Early
  BY <1>0 DEF EndOK, Early
<1>2. d \in CCB
  BY Zenon, <1>0 DEF Good, CCB, Channels
<1>3. Ring(d, w)
  BY <1>0 DEF Good, CCB, Ring
<1>4. /\ d.state = c.state /\ d.sndlamp = c.sndlamp /\ d.buflenleft = c.buflenleft
      /\ d.rcvlamp = c.rcvlamp /\ d.rbuf = c.rbuf /\ d.out = c.out
      /\ c.chan \subseteq d.chan
  BY <1>0 DEF Good, CCB
<1>5. a \in App /\ a.pc = app[e].pc /\ a.written = w
  BY Zenon, <1>0 DEF App
<1> HIDE DEF a, d
<1>6. EndOK(d, a)
  BY Zenon, <1>0, <1>1, <1>2, <1>3, <1>4, <1>5 DEF EndOK, Good, Early
<1>7. /\ ccb' \in [End -> CCB] /\ ccb'[e] = d
      /\ \A x \in End \ {e} : ccb'[x] = ccb[x]
      /\ net' \in [End -> SUBSET Segment]
  BY <1>0, <1>2 DEF IInv
<1> QED BY Zenon, <1>0, <1>2, <1>5, <1>6, <1>7, AppStep

LEMMA IdleNotEarly ==
    ASSUME IInv, NEW e \in End, Idle(e), ccb[e].state # "CREAT"
    PROVE  ccb[e].state \notin Early
  BY DEF IInv, EndOK, Idle, Live, Early

LEMMA SendStep ==
    ASSUME IInv, NEW e \in End, TcpSend(e)
    PROVE  IInv'
<1> DEFINE c == ccb[e]
           d == [c EXCEPT !.sndlamp = 0]
           a == [app[e] EXCEPT !.pc = "send"]
           w == app[e].written
<1>0. /\ app[e] \in App /\ EndOK(c, app[e]) /\ Good(c, w)
      /\ ccb' = [ccb EXCEPT ![e] = d] /\ app' = [app EXCEPT ![e] = a]
      /\ net' = net /\ plan' = plan
  BY DEF IInv, App, TcpSend, SetPc, EndOK
<1>1. c.state \notin Early
  BY IdleNotEarly DEF TcpSend
<1>2. d \in CCB
  BY Zenon, <1>0 DEF Good, CCB
<1>3. Ring(d, w)
  BY <1>0 DEF Good, CCB, Ring
<1>4. d.state = c.state /\ d.out = c.out
  BY <1>0 DEF Good, CCB
<1>5. a \in App /\ a.pc = "send" /\ a.written = w
  BY Zenon, <1>0 DEF App
<1> HIDE DEF a, d
<1>6. EndOK(d, a)
  BY <1>0, <1>1, <1>2, <1>3, <1>4, <1>5 DEF EndOK, Good, Early
<1>7. /\ ccb' \in [End -> CCB] /\ ccb'[e] = d
      /\ \A x \in End \ {e} : ccb'[x] = ccb[x]
      /\ net' \in [End -> SUBSET Segment]
  BY <1>0, <1>2 DEF IInv
<1> QED BY Zenon, <1>0, <1>2, <1>5, <1>6, <1>7, AppStep

LEMMA SendCopyStep ==
    ASSUME IInv, NEW e \in End, NEW up, TcpSendCopy(e, up)
    PROVE  IInv'
<1> DEFINE c == ccb[e]
           w == app[e].written
<1>0. /\ app[e] \in App /\ w \in Nat /\ EndOK(c, app[e]) /\ Good(c, w)
      /\ app[e].pc = "send" /\ c.state \notin Early /\ c.buflenleft \in Nat
      /\ net[e] \in SUBSET Segment
  BY Zenon DEF IInv, App, TcpSendCopy, EndOK, Early, CCB
<1>1. ASSUME c.buflenleft > 0, NEW len \in 1 .. plan.bytes[e] - w,
             LET n == AtMost(c.buflenleft, len)
                 d == Cpy2SndBuf(c, w, n)
                 s == SendData(d, ChkChannelSendLen(d), up)
                 t == IF ChkChannelSendLen(d) > 0 THEN s ELSE d
             IN  /\ Finish(e, IF t.buflenleft > 0 \/ "ASND" \notin t.chan
                              THEN [t EXCEPT !.sndlamp = 1] ELSE t, net[e], up)
                 /\ app' = [app EXCEPT ![e].pc = "idle", ![e].written = @ + n]
      PROVE  IInv'
  <2> DEFINE n == AtMost(c.buflenleft, len)
             d == Cpy2SndBuf(c, w, n)
             s == SendData(d, ChkChannelSendLen(d), up)
             t == IF ChkChannelSendLen(d) > 0 THEN s ELSE d
             l == [t EXCEPT !.sndlamp = 1]
             u == IF t.buflenleft > 0 \/ "ASND" \notin t.chan THEN l ELSE t
             f == [u EXCEPT !.out = {}]
             a == [app[e] EXCEPT !.pc = "idle", !.written = @ + n]
  <2>1. Finish(e, u, net[e], up) /\ app' = [app EXCEPT ![e] = a]
    BY Zenon, <1>1
  <2>2. n \in Nat /\ n <= c.buflenleft
    <3>1. plan.bytes[e] \in Nat
      BY Zenon, TcpAssumption DEF IInv
    <3>2. len \in Nat /\ c.buflenleft \in Nat
      BY <1>0, <3>1
    <3> QED BY <3>2 DEF AtMost
  <2> HIDE DEF n
  <2>3. Good(d, w + n) /\ d.state \notin Early /\ w + n \in Nat
    BY <1>0, <2>2, Cpy2SndBufGood DEF Wakes
  <2> HIDE DEF d
  <2>4. Does(d, t, w + n) /\ t.state \notin Early
    <3>1. Does(d, t, w + n)
      BY <2>3, SendMoreDoes, DoesRefl
    <3> QED BY <2>3, <3>1, NotEarly
  <2> HIDE DEF t
  <2>5. Good(u, w + n) /\ u.state \notin Early /\ (u.sndlamp = 0 => u.buflenleft = 0)
    <3>1. /\ l \in CCB /\ l.state \notin Early /\ l.sndlamp = 1
          /\ t.buflenleft \in Nat
      BY Zenon, <2>4 DEF Does, Good, CCB
    <3>2. Ring(l, w + n)
      BY <2>4 DEF Does, Good, CCB, Ring
    <3>3. Good(l, w + n) /\ Good(t, w + n)
      BY <2>4, <3>1, <3>2 DEF Good, Does
    <3> HIDE DEF l
    <3> QED BY <2>4, <3>1, <3>3
  <2> HIDE DEF u
  <2>6. /\ plan' = plan /\ ccb' \in [End -> CCB] /\ net' \in [End -> SUBSET Segment]
        /\ ccb'[e] = f /\ \A x \in End \ {e} : ccb'[x] = ccb[x]
    BY Zenon, <1>0, <2>1, <2>3, <2>5, FinishStep
  <2>7. /\ Good(f, w + n) /\ f.out = {} /\ f.state = u.state
        /\ f.sndlamp = u.sndlamp /\ f.buflenleft = u.buflenleft
    BY <2>3, <2>5, OutGone DEF Does
  <2> HIDE DEF f
  <2>8. a \in App /\ a.pc = "idle" /\ a.written = w + n
    BY Zenon, <1>0, <2>3 DEF App
  <2> HIDE DEF a
  <2>9. EndOK(f, a)
    BY <2>5, <2>7, <2>8 DEF EndOK, Early
  <2> QED BY Zenon, <2>1, <2>6, <2>7, <2>8, <2>9, AppStep DEF Good
<1> DEFINE b == [app[e] EXCEPT !.pc = "idle"]
<1>2. b \in App /\ b.pc = "idle" /\ b.written = w
  BY Zenon, <1>0 DEF App
<1>3. CASE /\ c.buflenleft = 0 /\ SetPc(e, "idle")
           /\ UNCHANGED << ccb, net, plan >>
  <2>1. app' = [app EXCEPT ![e] = b]
    BY <1>3 DEF SetPc
  <2> HIDE DEF b
  <2>2. EndOK(c, b)
    BY <1>0, <1>2, <1>3 DEF EndOK, Early
  <2>3. /\ c \in CCB /\ ccb' \in [End -> CCB] /\ ccb'[e] = c
        /\ \A x \in End \ {e} : ccb'[x] = ccb[x]
        /\ plan' = plan /\ net' \in [End -> SUBSET Segment]
    BY <1>3 DEF IInv
  <2> QED BY Zenon, <1>2, <2>1, <2>2, <2>3, AppStep
<1>4. CASE /\ ccb' = [ccb EXCEPT ![e].sndlamp = 1] /\ SetPc(e, "idle")
           /\ UNCHANGED << net, plan >>
  <2> DEFINE d == [c EXCEPT !.sndlamp = 1]
  <2>1. app' = [app EXCEPT ![e] = b] /\ ccb' = [ccb EXCEPT ![e] = d]
    BY <1>4 DEF SetPc
  <2> HIDE DEF b
  <2>2. d \in CCB /\ d.state = c.state /\ d.sndlamp = 1 /\ d.out = c.out
    BY Zenon, <1>0 DEF Good, CCB
  <2>3. Ring(d, w)
    BY <1>0 DEF Good, CCB, Ring
  <2> HIDE DEF d
  <2>4. EndOK(d, b)
    BY <1>0, <1>2, <2>2, <2>3 DEF EndOK, Early, Good
  <2>5. /\ ccb' \in [End -> CCB] /\ ccb'[e] = d
        /\ \A x \in End \ {e} : ccb'[x] = ccb[x]
        /\ plan' = plan /\ net' \in [End -> SUBSET Segment]
    BY <1>4, <2>1, <2>2 DEF IInv
  <2> QED BY Zenon, <1>2, <2>1, <2>2, <2>4, <2>5, AppStep
<1> QED BY Zenon, <1>1, <1>3, <1>4 DEF TcpSendCopy

LEMMA CopyOutStep ==
    ASSUME IInv, NEW e \in End, CpyFromRcvBuf(e), ccb[e].state \notin Early,
           app[e].pc # "send"
    PROVE  IInv'
<1> DEFINE c == ccb[e]
           w == app[e].written
<1>0. /\ app[e] \in App /\ EndOK(c, app[e]) /\ Good(c, w)
      /\ c.rbuf \in Seq(Nat) /\ app[e].read \in Seq(Nat)
  BY Zenon DEF IInv, App, EndOK, CCB
<1>1. PICK len \in ReadLens :
         LET n == AtMost(len, Len(ccb[e].rbuf))
         IN  /\ ccb' = [ccb EXCEPT ![e].rbuf = SubSeq(@, n + 1, Len(@)),
                           ![e].rcvlamp = IF app[e].pc = "recv" THEN 0 ELSE @]
             /\ app' = [app EXCEPT ![e].read = @ \o SubSeq(ccb[e].rbuf, 1, n),
                                   ![e].pc = "idle"]
             /\ UNCHANGED << net, plan >>
  BY Zenon DEF CpyFromRcvBuf
<1> DEFINE n == AtMost(len, Len(c.rbuf))
           rest == SubSeq(c.rbuf, n + 1, Len(c.rbuf))
           lamp == IF app[e].pc = "recv" THEN 0 ELSE c.rcvlamp
           all == app[e].read \o SubSeq(c.rbuf, 1, n)
           d == [c EXCEPT !.rbuf = rest, !.rcvlamp = lamp]
           a == [app[e] EXCEPT !.read = all, !.pc = "idle"]
<1>2. /\ ccb' = [ccb EXCEPT ![e] = d] /\ app' = [app EXCEPT ![e] = a]
      /\ net' = net /\ plan' = plan
  BY Zenon, <1>1
<1>3. n \in 0 .. Len(c.rbuf) /\ Len(c.rbuf) \in Nat
  <2>1. len \in Nat
    BY TcpAssumption
  <2>2. Len(c.rbuf) \in Nat
    BY <1>0
  <2> QED BY <2>1, <2>2 DEF AtMost
<1> HIDE DEF n
<1>4. rest \in Seq(Nat) /\ all \in Seq(Nat) /\ lamp \in {0, 1}
  <2>1. ASSUME NEW q \in Seq(Nat), NEW i \in Nat \ {0}, NEW j \in 0 .. Len(q)
        PROVE  SubSeq(q, i, j) \in Seq(Nat)
    OBVIOUS
  <2>3. SubSeq(c.rbuf, 1, n) \in Seq(Nat)
    BY SMTT(30), <1>0, <1>3, <2>1
  <2>4. n + 1 \in Nat \ {0}
    BY <1>3
  <2>5. rest \in Seq(Nat)
    BY <1>0, <1>3, <2>1, <2>4
  <2>2. lamp \in {0, 1}
    BY <1>0 DEF Good, CCB
  <2> QED BY <1>0, <2>2, <2>3, <2>5
<1> HIDE DEF rest, all, lamp
<1>5. d \in CCB
  BY Zenon, <1>0, <1>4 DEF Good, CCB
<1>6. Ring(d, w)
  BY <1>0 DEF Good, CCB, Ring
<1>7. /\ d.state = c.state /\ d.out = c.out /\ d.sndlamp = c.sndlamp
      /\ d.buflenleft = c.buflenleft
  BY <1>0 DEF Good, CCB
<1>8. a \in App /\ a.pc = "idle" /\ a.written = w
  BY Zenon, <1>0, <1>4 DEF App
<1> HIDE DEF a, d
<1>9. EndOK(d, a)
  BY <1>0, <1>5, <1>6, <1>7, <1>8 DEF EndOK, Good, Early
<1>10. /\ ccb' \in [End -> CCB] /\ ccb'[e] = d
       /\ \A x \in End \ {e} : ccb'[x] = ccb[x]
       /\ net' \in [End -> SUBSET Segment]
  BY <1>2, <1>5 DEF IInv
<1> QED BY Zenon, <1>2, <1>5, <1>8, <1>9, <1>10, AppStep

LEMMA RecvStep ==
    ASSUME IInv, NEW e \in End, TcpRecv(e)
    PROVE  IInv'
<1> DEFINE c == ccb[e]
           d == [c EXCEPT !.rcvlamp = 0]
           a == [app[e] EXCEPT !.pc = "recv"]
           w == app[e].written
<1>0. /\ app[e] \in App /\ EndOK(c, app[e]) /\ Good(c, w)
      /\ "ARCV" \in c.chan /\ app[e].pc = "idle"
  BY DEF IInv, EndOK, TcpRecv, Idle
<1>1. c.state \notin Early
  BY <1>0 DEF Good
<1>2. CASE CpyFromRcvBuf(e)
  BY <1>0, <1>1, <1>2, CopyOutStep
<1>3. CASE /\ c.rbuf = << >> /\ "KRCV" \in c.chan
           /\ ccb' = [ccb EXCEPT ![e].rcvlamp = 0] /\ SetPc(e, "recv")
           /\ UNCHANGED << net, plan >>
  <2>1. /\ ccb' = [ccb EXCEPT ![e] = d] /\ app' = [app EXCEPT ![e] = a]
        /\ net' = net /\ plan' = plan
    BY <1>3 DEF SetPc
  <2>2. d \in CCB
    BY Zenon, <1>0 DEF Good, CCB
  <2>3. Ring(d, w)
    BY <1>0 DEF Good, CCB, Ring
  <2>4. /\ d.state = c.state /\ d.out = c.out /\ d.sndlamp = c.sndlamp
        /\ d.buflenleft = c.buflenleft /\ d.rbuf = c.rbuf /\ d.chan = c.chan
    BY <1>0 DEF Good, CCB
  <2>5. a \in App /\ a.pc = "recv" /\ a.written = w
    BY Zenon, <1>0 DEF App
  <2> HIDE DEF a, d
  <2>6. EndOK(d, a)
    BY <1>0, <1>1, <1>3, <2>2, <2>3, <2>4, <2>5 DEF EndOK, Good, Early
  <2>7. /\ ccb' \in [End -> CCB] /\ ccb'[e] = d
        /\ \A x \in End \ {e} : ccb'[x] = ccb[x]
        /\ net' \in [End -> SUBSET Segment]
    BY <2>1, <2>2 DEF IInv
  <2> QED BY Zenon, <2>1, <2>2, <2>5, <2>6, <2>7, AppStep
<1> QED BY <1>2, <1>3 DEF TcpRecv

LEMMA RecvReturnStep ==
    ASSUME IInv, NEW e \in End, TcpRecvReturn(e)
    PROVE  IInv'
<1>1. ccb[e].state \notin Early /\ app[e].pc # "send"
  BY DEF IInv, EndOK, TcpRecvReturn, Early
<1> QED BY <1>1, CopyOutStep DEF TcpRecvReturn

(* A step of a thread that does not wait.                                  *)
LEMMA CallStep ==
    ASSUME IInv, NEW e \in End, Idle(e), NEW d, Does(ccb[e], d, app[e].written),
           NEW up, Finish(e, d, net[e], up), NEW a \in App,
           a.pc = app[e].pc, a.open = app[e].open, a.written = app[e].written,
           app' = [app EXCEPT ![e] = a]
    PROVE  IInv'
<1> DEFINE w == app[e].written
           f == [d EXCEPT !.out = {}]
<1>0. /\ app[e] \in App /\ w \in Nat /\ EndOK(ccb[e], app[e])
      /\ net[e] \in SUBSET Segment /\ Good(d, w)
      /\ ccb[e].state \notin {"NONE", "FREED"}
  BY DEF IInv, App, Does, Idle, Live
<1>1. /\ plan' = plan /\ ccb' \in [End -> CCB] /\ net' \in [End -> SUBSET Segment]
      /\ ccb'[e] = f /\ \A x \in End \ {e} : ccb'[x] = ccb[x]
  BY Zenon, <1>0, FinishStep
<1>2. Does(d, f, w) /\ f.out = {}
  BY <1>0, OutGone
<1> HIDE DEF f
<1>3. Does(ccb[e], f, w)
  BY <1>0, <1>2, DoesTrans
<1>4. EndOK(f, app[e])
  BY <1>0, <1>2, <1>3, HandlerEndOK
<1>5. EndOK(f, a)
  BY <1>4 DEF EndOK
<1> QED BY Zenon, <1>1, <1>2, <1>5, AppStep DEF Does, Good

LEMMA ShutdownStep ==
    ASSUME IInv, NEW e \in End, NEW up, TcpShutdown(e, up)
    PROVE  IInv'
<1> DEFINE a == [app[e] EXCEPT !.calls = @ \ {"shutdown"}]
<1>0. /\ app[e] \in App /\ app[e].written \in Nat /\ Idle(e)
      /\ Good(ccb[e], app[e].written)
      /\ Finish(e, ShutdownWR(ccb[e], up), net[e], up)
      /\ app' = [app EXCEPT ![e] = a]
  BY DEF IInv, App, EndOK, TcpShutdown
<1>1. ccb[e].state \notin Early
  BY IdleNotEarly DEF TcpShutdown
<1>2. Does(ccb[e], ShutdownWR(ccb[e], up), app[e].written)
  BY <1>0, <1>1, ShutdownWRDoes
<1>3. /\ a \in App /\ a.pc = app[e].pc /\ a.open = app[e].open
      /\ a.written = app[e].written
  BY Zenon, <1>0 DEF App
<1> HIDE DEF a
<1> QED BY Zenon, <1>0, <1>2, <1>3, CallStep

LEMMA CloseStep ==
    ASSUME IInv, NEW e \in End, NEW up, CloseSocket(e, up)
    PROVE  IInv'
<1> DEFINE c == ccb[e]
           w == app[e].written
           a == [app[e] EXCEPT !.close = TRUE, !.calls = @ \ {"close"}]
           r == ShutdownRD(c)
           d == IF c.state = "CREAT" THEN ResetCCB(c, "2FREE") ELSE ShutdownWR(r, up)
<1>0. /\ app[e] \in App /\ w \in Nat /\ Idle(e) /\ Good(c, w)
      /\ Finish(e, d, net[e], up) /\ app' = [app EXCEPT ![e] = a]
  BY Zenon DEF IInv, App, EndOK, CloseSocket
<1>1. ASSUME c.state # "CREAT" PROVE Does(c, ShutdownWR(r, up), w)
  <2>1. c.state \notin Early
    BY <1>0, <1>1, IdleNotEarly
  <2>2. Does(c, r, w)
    BY <1>0, <2>1, ShutdownRDDoes
  <2> HIDE DEF r
  <2>3. r.state \notin Early
    BY <2>1, <2>2, NotEarly
  <2>4. Does(r, ShutdownWR(r, up), w)
    BY <1>0, <2>2, <2>3, ShutdownWRDoes DEF Does
  <2> QED BY <1>0, <2>2, <2>4, DoesTrans
<1>2. Does(c, d, w)
  BY <1>0, <1>1, ResetDoes
<1>3. /\ a \in App /\ a.pc = app[e].pc /\ a.open = app[e].open
      /\ a.written = app[e].written
  BY Zenon, <1>0 DEF App
<1> HIDE DEF a, d
<1> QED BY Zenon, <1>0, <1>2, <1>3, CallStep

LEMMA ReceiveStep ==
    ASSUME IInv, NEW e \in End, NEW up, Receive(e, up)
    PROVE  IInv'
<1>1. PICK seg \in net[e] : \E arrived \in Delivered(e, seg) :
         Finish(e, DealRecvPkg(ccb[e], seg, up), arrived, up)
  BY DEF Receive
<1>2. PICK arrived \in Delivered(e, seg) :
         Finish(e, DealRecvPkg(ccb[e], seg, up), arrived, up)
  BY <1>1
<1>3. seg \in Segment /\ arrived \in SUBSET Segment
  BY DEF IInv, Delivered
<1>4. /\ Good(ccb[e], app[e].written) /\ app[e].written \in Nat
      /\ ccb[e].state \notin {"NONE", "FREED"} /\ UNCHANGED app
  BY DEF IInv, EndOK, App, Receive, Found, Live
<1>5. Does(ccb[e], DealRecvPkg(ccb[e], seg, up), app[e].written)
  BY <1>3, <1>4, DealRecvPkgDoes
<1> QED BY <1>2, <1>3, <1>4, <1>5, HandlerStep

LEMMA ReceiveSynStep ==
    ASSUME IInv, NEW e \in End, NEW up, ReceiveSyn(e, up)
    PROVE  IInv'
<1>1. PICK seg \in net[e] : \E arrived \in Delivered(e, seg) :
         Finish(e, NewClient(e, seg, up), arrived, up)
  BY DEF ReceiveSyn
<1>2. PICK arrived \in Delivered(e, seg) :
         Finish(e, NewClient(e, seg, up), arrived, up)
  BY <1>1
<1>3. seg \in Segment /\ arrived \in SUBSET Segment
  BY DEF IInv, Delivered
<1> DEFINE w == app[e].written
           d == NewClient(e, seg, up)
           f == [d EXCEPT !.out = {}]
<1>4. /\ app[e] \in App /\ w \in Nat /\ app[e].pc = "idle" /\ UNCHANGED app
  BY DEF IInv, EndOK, App, ReceiveSyn
<1>5. Good(d, w) /\ d.state \notin Early /\ d.sndlamp # 0
  BY <1>3, <1>4, NewClientGood
<1> HIDE DEF d
<1>6. /\ plan' = plan /\ ccb' \in [End -> CCB] /\ net' \in [End -> SUBSET Segment]
      /\ ccb'[e] = f /\ \A x \in End \ {e} : ccb'[x] = ccb[x]
  BY <1>2, <1>3, <1>4, <1>5, FinishStep DEF d
<1>7. Good(f, w) /\ f.out = {} /\ f.state = d.state /\ f.sndlamp = d.sndlamp
  BY <1>4, <1>5, OutGone DEF Does
<1> HIDE DEF f
<1>8. EndOK(f, app[e])
  BY <1>4, <1>5, <1>7 DEF EndOK, Early
<1> QED BY <1>4, <1>6, <1>8 DEF IInv

LEMMA ReceiveUnknownStep ==
    ASSUME IInv, NEW e \in End, ReceiveUnknown(e)
    PROVE  IInv'
<1> DEFINE c == ccb[e]
           w == app[e].written
           mute(seg) == \/ e = Client /\ "RST" \in seg.flags
                        \/ e = Server /\ "SYN" \in seg.flags
           d(seg, reset) == IF mute(seg) THEN c ELSE [c EXCEPT !.out = {reset}]
<1>1. PICK seg \in net[e] : \E arrived \in Delivered(e, seg), reset \in ResetRemoteRaw(seg) :
         Finish(e, d(seg, reset), arrived, TRUE)
  BY Zenon DEF ReceiveUnknown
<1>2. PICK arrived \in Delivered(e, seg), reset \in ResetRemoteRaw(seg) :
         Finish(e, d(seg, reset), arrived, TRUE)
  BY Zenon, <1>1
<1>3. seg \in Segment /\ arrived \in SUBSET Segment
  BY DEF IInv, Delivered
<1>4. reset \in Segment
  <2>1. << >> \in Seq(Nat) /\ {0, RCVBUF} \subseteq 0 .. RCVBUF
    BY Constants
  <2>2. seg.ack \in Seqno /\ seg.seq \in Seqno /\ {"RST", "ACK"} \in SUBSET Flags
    BY <1>3 DEF Segment, Flags
  <2>3. PICK v \in {0, RCVBUF} :
           reset = [flags |-> {"RST", "ACK"}, seq |-> seg.ack, ack |-> seg.seq,
                    data |-> << >>, wnd |-> v]
    BY DEF ResetRemoteRaw
  <2> QED BY <2>1, <2>2, <2>3 DEF Segment
<1>5. Good(c, w) /\ w \in Nat /\ UNCHANGED app
  BY DEF IInv, EndOK, App, ReceiveUnknown
<1> DEFINE g == [c EXCEPT !.out = {reset}]
<1>6. Does(c, g, w) /\ g.state = c.state
  <2>1. g \in CCB
    BY Zenon, <1>4, <1>5 DEF Good, CCB
  <2>2. Ring(g, w)
    BY <1>5 DEF Good, CCB, Ring
  <2>3. /\ Wakes(c, g) /\ g.state = c.state
        /\ g.state \in Early => g.datalen = 0 /\ g.chan = {}
    BY <1>5 DEF Good, CCB, Wakes
  <2> QED BY <2>1, <2>2, <2>3 DEF Does, Good
<1> HIDE DEF g
<1>7. Does(c, d(seg, reset), w) /\ d(seg, reset).state = c.state
  BY <1>5, <1>6, DoesRefl DEF g
<1> HIDE DEF d
<1> QED BY Zenon, <1>2, <1>3, <1>5, <1>7, HandlerStep

LEMMA TickStep ==
    ASSUME IInv, NEW e \in End, NEW up, TcpTick(e, up)
    PROVE  IInv'
<1> DEFINE c == ccb[e]
           w == app[e].written
           gone == app[e].close \/ ~app[e].open
           free == app[e].close /\ c.state = "2FREE"
<1>0. /\ app[e] \in App /\ Good(c, w) /\ w \in Nat /\ UNCHANGED app
      /\ net[e] \in SUBSET Segment /\ c.state \notin {"NONE", "FREED"}
  BY DEF IInv, EndOK, App, TcpTick, Live
<1>1. PICK x \in Expired(c) :
         Finish(e, IF free THEN CreateCCB(e, "FREED")
                   ELSE DealClientTimer(c, gone, x, up), net[e], up)
  BY DEF TcpTick
<1> HIDE DEF gone
<1>2. CASE ~free
  <2>1. Does(c, DealClientTimer(c, gone, x, up), w)
    BY <1>0, DealClientTimerDoes
  <2> QED BY <1>0, <1>1, <1>2, <2>1, HandlerStep
<1>3. CASE free
  <2> DEFINE d == CreateCCB(e, "FREED")
             f == [d EXCEPT !.out = {}]
  <2>1. Good(d, w) /\ d.state = "FREED"
    <3>1. Good(d, w)
      BY <1>0, CreateGood DEF States
    <3> QED BY <3>1 DEF CreateCCB
  <2>2. Finish(e, d, net[e], up)
    BY <1>1, <1>3
  <2> HIDE DEF d
  <2>3. /\ plan' = plan /\ ccb' \in [End -> CCB] /\ net' \in [End -> SUBSET Segment]
        /\ ccb'[e] = f /\ \A y \in End \ {e} : ccb'[y] = ccb[y]
    BY Zenon, <1>0, <2>1, <2>2, FinishStep
  <2>4. Good(f, w) /\ f.out = {} /\ f.state = "FREED"
    BY <1>0, <2>1, OutGone DEF Does
  <2> HIDE DEF f
  <2>5. EndOK(f, app[e])
    BY <2>4 DEF EndOK
  <2> QED BY <1>0, <2>3, <2>5 DEF IInv
<1> QED BY <1>2, <1>3

LEMMA TickServerStep ==
    ASSUME IInv, NEW e \in End, NEW up, TcpTickServer(e, up)
    PROVE  IInv'
<1>0. /\ Good(ccb[e], app[e].written) /\ app[e].written \in Nat /\ UNCHANGED app
      /\ net[e] \in SUBSET Segment /\ ccb[e].state \notin {"NONE", "FREED"}
  BY DEF IInv, EndOK, App, TcpTickServer, Live
<1>1. PICK x \in Expired(ccb[e]) :
         LET c == DealClientTimer(ccb[e], TRUE, x, up)
         IN  Finish(e, IF c.state = "CLOSEWAIT" THEN FinSent(c) ELSE c, net[e], up)
  BY Zenon DEF TcpTickServer
<1> DEFINE c == DealClientTimer(ccb[e], TRUE, x, up)
           d == IF c.state = "CLOSEWAIT" THEN FinSent(c) ELSE c
<1>2. Finish(e, d, net[e], up)
  BY Zenon, <1>1
<1>3. Does(ccb[e], c, app[e].written)
  BY Zenon, <1>0, DealClientTimerDoes
<1> HIDE DEF c
<1>4. Does(c, d, app[e].written)
  BY <1>0, <1>3, FinSentDoes, DoesRefl DEF Does, Early
<1> HIDE DEF d
<1>5. Does(ccb[e], d, app[e].written)
  BY <1>0, <1>3, <1>4, DoesTrans
<1> QED BY <1>0, <1>2, <1>5, HandlerStep

-----------------------------------------------------------------------------
LEMMA IInvInit == Init => IInv
<1> SUFFICES ASSUME Init PROVE IInv
  OBVIOUS
<1>1. plan \in Plans /\ plan.calls \in [End -> SUBSET Calls]
  BY Zenon, TcpAssumption DEF Init
<1>2. ASSUME NEW e \in End PROVE ccb[e] \in CCB /\ app[e] \in App /\ EndOK(ccb[e], app[e])
  <2> DEFINE s == IF e = Client THEN "CREAT" ELSE "NONE"
  <2>1. s \in States
    BY DEF States
  <2>2. ccb[e] = CreateCCB(e, s)
    BY DEF Init
  <2>3. Good(ccb[e], 0)
    BY <2>1, <2>2, CreateGood
  <2>4. /\ ccb[e].out = {} /\ ccb[e].state = s /\ ccb[e].sndlamp = 1
    BY <2>2 DEF CreateCCB
  <2>5. /\ app[e].pc = "idle" /\ app[e].written = 0
        /\ app[e].open = IF e = Client THEN TRUE ELSE FALSE
    BY Zenon DEF Init
  <2>6. app[e] \in App
    <3>1. << >> \in Seq(Nat) /\ plan.calls[e] \in SUBSET Calls
      BY <1>1
    <3> QED BY <3>1 DEF Init, App
  <2>7. CASE e = Client
    BY <2>3, <2>4, <2>5, <2>6, <2>7 DEF EndOK, Good
  <2>8. CASE e # Client
    BY <2>3, <2>4, <2>5, <2>6, <2>8 DEF EndOK, Good
  <2> QED BY <2>7, <2>8
<1>3. /\ ccb \in [End -> CCB] /\ app \in [End -> App]
      /\ net \in [End -> SUBSET Segment]
  BY <1>2 DEF Init
<1> QED BY <1>1, <1>2, <1>3 DEF IInv

LEMMA IInvNext == IInv /\ [Next]_vars => IInv'
<1> SUFFICES ASSUME IInv, [Next]_vars PROVE IInv'
  OBVIOUS
<1>1. CASE UNCHANGED vars
  BY <1>1 DEF vars, IInv, EndOK
<1>2. ASSUME NEW e \in End,
             \/ TcpConnectReturn(e) \/ TcpAccept(e) \/ TcpSend(e) \/ TcpRecv(e)
             \/ TcpRecvReturn(e) \/ ReceiveUnknown(e)
      PROVE  IInv'
  BY <1>2, ConnectReturnStep, AcceptStep, SendStep, RecvStep, RecvReturnStep,
     ReceiveUnknownStep
<1>3. ASSUME NEW e \in End, NEW up \in BOOLEAN,
             \/ TcpConnect(e, up) \/ TcpSendCopy(e, up) \/ TcpShutdown(e, up)
             \/ CloseSocket(e, up) \/ Receive(e, up) \/ ReceiveSyn(e, up)
             \/ TcpTick(e, up) \/ TcpTickServer(e, up)
      PROVE  IInv'
  BY <1>3, ConnectStep, SendCopyStep, ShutdownStep, CloseStep, ReceiveStep,
     ReceiveSynStep, TickStep, TickServerStep
<1> QED BY <1>1, <1>2, <1>3 DEF Next

LEMMA IInvAlways == Spec => []IInv
  BY IInvInit, IInvNext, PTL DEF Spec

(* Sequence numbers stay u32 numbers and offsets stay in the ring in every *)
(* state of every connection (tcp.c, all handlers).                        *)
THEOREM TypeCorrect == Spec => []TypeOK
<1>1. IInv => TypeOK
  <2> SUFFICES ASSUME IInv PROVE TypeOK
    OBVIOUS
  <2>1. \A e \in End : ccb[e] \in CCB /\ ccb[e].out = {}
    BY DEF IInv, EndOK
  <2>2. net \in [End -> SUBSET [flags : SUBSET Flags, seq : Seqno, ack : Seqno,
                                 wnd : 0 .. RCVBUF, data : Seq(Nat)]]
    BY Zenon DEF IInv, Segment
  <2>3. ASSUME NEW e \in End
        PROVE  LET c == ccb[e]
               IN  /\ c.state \in States
                   /\ c.chan \subseteq Channels /\ c.timers \subseteq Timers
                   /\ {c.unackno, c.sndnxtno, c.rcvnxt} \subseteq Seqno
                   /\ {c.unackoff, c.sndnxtoff, c.dataoff} \subseteq 0 .. SNDBUF - 1
                   /\ {c.sndlamp, c.rcvlamp} \subseteq {0, 1}
                   /\ c.out = {}
    <3> DEFINE c == ccb[e]
    <3>1. c \in CCB /\ c.out = {}
      BY <2>1
    <3> HIDE DEF c
    <3>2. /\ c.state \in States /\ c.chan \subseteq Channels /\ c.timers \subseteq Timers
          /\ c.unackno \in Seqno /\ c.sndnxtno \in Seqno /\ c.rcvnxt \in Seqno
          /\ c.unackoff \in 0 .. SNDBUF - 1 /\ c.sndnxtoff \in 0 .. SNDBUF - 1
          /\ c.dataoff \in 0 .. SNDBUF - 1
          /\ c.sndlamp \in {0, 1} /\ c.rcvlamp \in {0, 1}
      BY <3>1, CcbFields
    <3> QED BY Zenon, <3>1, <3>2 DEF c
  <2> QED BY Zenon, <2>2, <2>3 DEF TypeOK
<1> QED BY <1>1, IInvAlways, PTL

(* In every state of every connection the send ring holds exactly the last *)
(* bytes written, the unacknowledged ones first: __cpy2sndbuf, __senddata  *)
(* and __ackdata never overwrite or lose a byte that may have to be sent   *)
(* again.                                                                  *)
THEOREM SendRingKept == Spec => []SendRing
<1>1. IInv => SendRing
  <2> SUFFICES ASSUME IInv, NEW e \in End
               PROVE  LET c == ccb[e]
                          used == c.unacklen + c.datalen
                      IN  /\ c.unacklen >= 0 /\ c.datalen >= 0 /\ c.buflenleft >= 0
                          /\ used + c.buflenleft = SNDBUF
                          /\ c.sndnxtoff = (c.unackoff + c.unacklen) % SNDBUF
                          /\ c.dataoff = (c.unackoff + used) % SNDBUF
                          /\ \A i \in 1 .. used :
                                c.sbuf[(c.unackoff + i - 1) % SNDBUF]
                                   = app[e].written - used + i
    BY Zenon DEF SendRing
  <2> DEFINE c == ccb[e]
  <2>1. c \in CCB /\ Ring(c, app[e].written)
    BY Zenon DEF IInv, EndOK, Good
  <2> HIDE DEF c
  <2>2. c.unacklen >= 0 /\ c.datalen >= 0 /\ c.buflenleft >= 0
    BY <2>1, CcbFields
  <2> QED BY Zenon, <2>1, <2>2 DEF Ring, c
<1> QED BY <1>1, IInvAlways, PTL

(* No thread is left asleep in __tcpconnect, __tcprecv or __tcpsend by the *)
(* network thread, the tick or a call of its own, in any connection.       *)
THEOREM ThreadsWoken == Spec => []NoLostWakeup
<1>1. IInv => NoLostWakeup
  BY DEF IInv, EndOK, NoLostWakeup, Live, Receiving
<1> QED BY <1>1, IInvAlways, PTL

-----------------------------------------------------------------------------
(* Sequence numbers.                                                       *)

(* How far b lies after a, on either side of the wrap.                     *)
LEMMA AheadValue ==
    ASSUME NEW a \in Seqno, NEW b \in Seqno
    PROVE  Ahead(a, b) = IF b >= a THEN b - a ELSE b - a + SEQ
<1>0. SEQ \in Nat \ {0} /\ a \in 0 .. SEQ - 1 /\ b \in 0 .. SEQ - 1
  BY Constants DEF Seqno
<1> QED BY <1>0 DEF Ahead, No

LEMMA NoOnce ==
    ASSUME NEW x \in 0 .. 2 * SEQ - 1
    PROVE  No(x) = IF x < SEQ THEN x ELSE x - SEQ
<1>1. SEQ \in Nat \ {0}
  BY Constants
<1> QED BY <1>1 DEF No

(* The comparisons of __ackdata are right for every pair of numbers and    *)
(* every width of the counter: an acknowledgement is new if and only if it *)
(* is one of the numbers after unackno, up to sndnxtno.                    *)
THEOREM AckWindow ==
    ASSUME NEW c, c.unackno \in Seqno, c.sndnxtno \in Seqno, NEW ack \in Seqno
    PROVE  AcksNew(c, ack) <=>
              Ahead(c.unackno, ack) \in 1 .. Ahead(c.unackno, c.sndnxtno)
<1>1. /\ Ahead(c.unackno, ack) = IF ack >= c.unackno THEN ack - c.unackno
                                 ELSE ack - c.unackno + SEQ
      /\ Ahead(c.unackno, c.sndnxtno) =
            IF c.sndnxtno >= c.unackno THEN c.sndnxtno - c.unackno
            ELSE c.sndnxtno - c.unackno + SEQ
  BY AheadValue
<1>2. SEQ \in Nat \ {0} /\ {c.unackno, c.sndnxtno, ack} \subseteq 0 .. SEQ - 1
  BY Constants DEF Seqno
<1> HIDE DEF Ahead
<1> QED BY <1>1, <1>2 DEF AcksNew

(* And those of __rcvdata: of a segment shorter than the counter, at least *)
(* one byte is queued if and only if rcvnxt is the number of one of its    *)
(* bytes, and the bytes skipped are exactly those before it.               *)
THEOREM RcvWindow ==
    ASSUME NEW c, c.rcvnxt \in Seqno, NEW seg, seg.seq \in Seqno,
           seg.data \in Seq(Nat), Len(seg.data) < SEQ
    PROVE  Expected(c, seg) <=> Ahead(seg.seq, c.rcvnxt) < Len(seg.data)
<1> DEFINE n == Len(seg.data)
           stop == No(seg.seq + n)
<1>1. n \in Nat /\ (seg.data = << >> <=> n = 0)
  OBVIOUS
<1>2. SEQ \in Nat \ {0} /\ seg.seq \in 0 .. SEQ - 1 /\ c.rcvnxt \in 0 .. SEQ - 1
  BY Constants DEF Seqno
<1>3. Ahead(seg.seq, c.rcvnxt) = IF c.rcvnxt >= seg.seq THEN c.rcvnxt - seg.seq
                                 ELSE c.rcvnxt - seg.seq + SEQ
  BY AheadValue
<1>4. stop = IF seg.seq + n < SEQ THEN seg.seq + n ELSE seg.seq + n - SEQ
  <2>1. seg.seq + n \in 0 .. 2 * SEQ - 1
    BY <1>1, <1>2
  <2> HIDE DEF n
  <2> QED BY <1>1, <1>2, <2>1, NoOnce
<1>5. Expected(c, seg) <=>
         /\ n # 0
         /\ \/ c.rcvnxt = seg.seq
            \/ stop > seg.seq /\ c.rcvnxt > seg.seq /\ c.rcvnxt < stop
            \/ stop < seg.seq /\ (c.rcvnxt > seg.seq \/ c.rcvnxt < stop)
  BY <1>1 DEF Expected
<1>6. n < SEQ
  OBVIOUS
<1> HIDE DEF n, stop
<1>7. Expected(c, seg) <=> Ahead(seg.seq, c.rcvnxt) < n
  BY <1>1, <1>2, <1>3, <1>4, <1>5, <1>6
<1> QED BY <1>7 DEF n
=============================================================================
