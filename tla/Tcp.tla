-------------------------------- MODULE Tcp --------------------------------
(***************************************************************************)
(* One connection of component/tcpip/tcp/tcp.c: the socket that connects   *)
(* and the socket a listening server makes for it, over a network that     *)
(* loses, duplicates and reorders segments.                                *)
(*                                                                         *)
(* ccb[e] is the struct ClientCB of end e.  sbuf is the ring tcpsendbuf,   *)
(* rbuf the bytes of the packages queued from phead, sndlamp and rcvlamp   *)
(* the lamp of the two bufsync semaphores (limit 1), and out collects what *)
(* the running handler sends.  hashed says that the socket is in           *)
(* TcpHashTab; one the server made is only in its list until the handshake *)
(* is over.  state is also NONE before __newclient and FREED after         *)
(* __tcptick released the socket.                                          *)
(* app[e] is the thread that uses the socket: where it is (pc), what it    *)
(* wrote and read, and the CN_SOCKET_OPEN and CN_SOCKET_CLOSE bits.        *)
(* The k-th byte an end writes is the number k.                            *)
(* plan bounds a behaviour: how many bytes the threads write, the closing  *)
(* calls each makes, whether IpSend may fail, and how many segments the    *)
(* network holds (room) on the way to each end.                            *)
(*                                                                         *)
(* A thread does not shut down a socket it never connected.  IpSend takes  *)
(* all that a handler sends or none of it.                                 *)
(* The timers keep their control bits, not their counters: a timer that is *)
(* on may expire at any tick.  The sockets block without a timeout, have   *)
(* Nagle on, and no keep-alive or linger option, and segments that are     *)
(* ahead of rcvnxt are dropped (CFG_TCP_REORDER is false).                 *)
(***************************************************************************)
EXTENDS Integers, Sequences, FiniteSets

CONSTANTS Client, Server,
          SEQ,               \* 2^32, scaled down: sequence numbers are u32
          ISN,               \* what __computeIsn gives each end
          MSS, SNDBUF, RCVBUF,
          TICK_ACK, RSNDMAX, FASTRETRANS,
          ReadLens,          \* the lengths given to recv
          Plans              \* what the threads and the network may do

VARIABLES ccb, app, net, plan

vars == << ccb, app, net, plan >>

End == {Client, Server}
Peer(e) == IF e = Client THEN Server ELSE Client

Calls == {"shutdown", "close"}

(* A duplicate of the client's SYN carries ackno 0: a server whose first   *)
(* number is SEQ-1 would take it for the answer to its own SYN.            *)
ASSUME TcpAssumption ==
    /\ Client # Server
    /\ SEQ \in Nat /\ ISN \in [End -> 0 .. SEQ - 1] /\ ISN[Server] # SEQ - 1
    /\ {MSS, SNDBUF, RCVBUF, TICK_ACK} \subseteq Nat \ {0}
    /\ {RSNDMAX, FASTRETRANS} \subseteq Nat
    /\ SNDBUF <= 2 * MSS    \* 0x800 and 1460
    /\ ReadLens \subseteq Nat \ {0}
    /\ \A p \in Plans : /\ p.bytes \in [End -> Nat] /\ p.room \in [End -> Nat]
                        /\ p.calls \in [End -> SUBSET Calls]
                        /\ p.up \subseteq BOOLEAN /\ TRUE \in p.up
                        /\ \A e \in End : 2 * p.bytes[e] + 8 < SEQ

States == {"NONE", "CREAT", "SYNRCV", "SYNSNT", "ESTABLISH", "FINWAIT1",
           "FINWAIT2", "CLOSING", "TIMEWAIT", "CLOSEWAIT", "LASTACK",
           "2FREE", "FREED"}
Resend3 == {"SYN", "RESEND", "FIN"}      \* they share resndtimer
Timers == Resend3 \cup {"2MSL", "PERSIST"}
Channels == {"ASND", "ARCV", "KSND", "KRCV"}
Flags == {"SYN", "ACK", "FIN", "RST"}

No(n) == n % SEQ
AtMost(a, b) == IF a < b THEN a ELSE b

-----------------------------------------------------------------------------
(* Control blocks and segments.                                            *)

(* __CreateCCB.                                                            *)
CreateCCB(e, state) ==
    [state |-> state, chan |-> {}, timers |-> {},
     sbuf |-> [i \in 0 .. SNDBUF - 1 |-> 0],
     unackno |-> ISN[e], unackoff |-> 0, unacklen |-> 0,
     sndnxtno |-> ISN[e], sndnxtoff |-> 0,
     dataoff |-> 0, datalen |-> 0, buflenleft |-> SNDBUF, sndlamp |-> 1,
     dupacks |-> 0, cwnd |-> SNDBUF, sndwnd |-> 0, resndtimes |-> 0,
     rbuf |-> << >>, rcvnxt |-> 0, rcvlamp |-> 0, acktimes |-> 0, out |-> {},
     hashed |-> e = Client]

(* __ResetCCB: the send buffer and resndtimes stay as they are.            *)
ResetCCB(c, state) ==
    [c EXCEPT !.state = state, !.chan = {}, !.timers = {}, !.sndlamp = 1,
              !.rbuf = << >>, !.rcvlamp = 1, !.acktimes = 0]

(* __buildhdr.                                                             *)
Built(c, flags, seq, data) ==
    [flags |-> flags, seq |-> seq, ack |-> c.rcvnxt, data |-> data,
     wnd |-> IF RCVBUF > Len(c.rbuf) THEN RCVBUF - Len(c.rbuf) ELSE 0]

(* __sendmsg: up says whether IpSend accepts the segment.                  *)
SendMsg(c, seg, up) ==
    IF up THEN [c EXCEPT !.out = @ \cup {seg}, !.acktimes = 0] ELSE c

SendFlag(c, flags, seq, up) == SendMsg(c, Built(c, flags, seq, << >>), up)

(* The n bytes of the ring from off, which do not go round.                *)
RingBytes(c, off, n) == [i \in 1 .. n |-> c.sbuf[off + i - 1]]

(* __cpy2sndbuf: the bytes after the first `written` ones go in the ring.  *)
Cpy2SndBuf(c, written, n) ==
    LET place(i) == (c.dataoff + i) % SNDBUF
    IN  [c EXCEPT !.sbuf = [p \in DOMAIN @ |->
                      IF \E i \in 0 .. n - 1 : place(i) = p
                      THEN written + 1 + CHOOSE i \in 0 .. n - 1 : place(i) = p
                      ELSE @[p]],
                  !.dataoff = place(n),
                  !.buflenleft = @ - n, !.datalen = @ + n]

-----------------------------------------------------------------------------
(* Sending.                                                                *)

(* __chkchannelsendlen, with Nagle on.                                     *)
ChkChannelSendLen(c) ==
    IF /\ "KSND" \in c.chan
       /\ c.unackno = c.sndnxtno \/ c.datalen > MSS
    THEN AtMost(c.datalen, AtMost(c.cwnd, c.sndwnd))
    ELSE 0

(* A FIN is under way.                                                     *)
FinSent(c) ==
    [c EXCEPT !.sndnxtno = No(@ + 1), !.chan = @ \ {"KSND"},
              !.timers = @ \cup {"FIN"},
              !.state = IF @ = "CLOSEWAIT" THEN "LASTACK" ELSE "FINWAIT1"]

(* What the loop of __senddata does when every IpSend succeeds: `length`   *)
(* bytes go out in segments of at most MSS bytes, the first `first` of     *)
(* which end with the ring; the last segment has the FIN if the thread     *)
(* will not send any more.                                                 *)
Sent(c, length) ==
    LET first == AtMost(length, SNDBUF - c.sndnxtoff)
        starts == {k \in 0 .. length - 1 :
                      (IF k < first THEN k ELSE k - first) % MSS = 0}
        size(k) == AtMost(MSS, (IF k < first THEN first ELSE length) - k)
        flags(k) == IF "ASND" \notin c.chan /\ k + size(k) = length
                    THEN {"ACK", "FIN"} ELSE {"ACK"}
        seg(k) == Built(c, flags(k), No(c.sndnxtno + k),
                        RingBytes(c, (c.sndnxtoff + k) % SNDBUF, size(k)))
        d == [c EXCEPT !.out = @ \cup {seg(k) : k \in starts}, !.acktimes = 0,
                       !.sndnxtno = No(@ + length),
                       !.sndnxtoff = (@ + length) % SNDBUF,
                       !.unacklen = @ + length, !.datalen = @ - length,
                       !.sndwnd = IF @ > length THEN @ - length ELSE 0]
    IN  IF "ASND" \notin c.chan THEN FinSent(d) ELSE d

(* __senddata.                                                             *)
SendData(c, length, up) ==
    LET d == IF length <= 0 THEN c
             ELSE IF up THEN Sent(c, length)
             ELSE [c EXCEPT !.timers = @ \cup {"PERSIST"}]
    IN  [d EXCEPT !.timers =
            @ \cup (IF d.unacklen > 0 THEN {"RESEND"} ELSE {})
              \cup (IF d.datalen > 0 /\ d.sndwnd < MSS THEN {"PERSIST"} ELSE {})]

(* __resenddata.                                                           *)
ResendData(c, up) ==
    LET n == AtMost(AtMost(c.unacklen, SNDBUF - c.unackoff), MSS)
    IN  IF n > 0
        THEN SendMsg(c, Built(c, {"ACK"}, c.unackno,
                              RingBytes(c, c.unackoff, n)), up)
        ELSE c

-----------------------------------------------------------------------------
(* Receiving.                                                              *)

(* Beyond its fast retransmission threshold dupacktims is not told apart.  *)
(* With SNDBUF <= 2 * MSS a window never exceeds ssthresh before it covers *)
(* the whole buffer, so that cwnd only matters up to SNDBUF.               *)
DupAck(c, up) ==
    LET d == [c EXCEPT !.dupacks = AtMost(@ + 1, FASTRETRANS + 1)]
    IN  IF d.dupacks > FASTRETRANS
        THEN ResendData([d EXCEPT !.cwnd = SNDBUF], up)
        ELSE d

(* Mutants of NewAck: unackoff runs off the end of the ring; the number of *)
(* a SYN or FIN is counted as a byte; a partial acknowledgement frees all  *)
(* that is out.                                                            *)
NewAckOffRing(c, ack) ==
    LET n == AtMost(No(ack - c.unackno), c.unacklen)
    IN  [c EXCEPT !.unackno = ack, !.unackoff = @ + n, !.unacklen = @ - n,
                  !.buflenleft = @ + n, !.sndlamp = 1, !.resndtimes = 0,
                  !.timers = IF c.sndnxtno = ack THEN @ \ {"RESEND"} ELSE @]

NewAckCountsFlags(c, ack) ==
    LET n == No(ack - c.unackno)
    IN  [c EXCEPT !.unackno = ack, !.unackoff = (@ + n) % SNDBUF,
                  !.unacklen = @ - n, !.buflenleft = @ + n, !.sndlamp = 1,
                  !.timers = IF c.sndnxtno = ack THEN @ \ {"RESEND"} ELSE @]

NewAckFreesAll(c, ack) ==
    [c EXCEPT !.unackno = ack, !.unackoff = (@ + c.unacklen) % SNDBUF,
              !.unacklen = 0, !.buflenleft = @ + c.unacklen, !.sndlamp = 1,
              !.timers = @ \ {"RESEND"}]

NewAck(c, ack) ==
    LET n == AtMost(No(ack - c.unackno), c.unacklen)
        left == c.buflenleft + n
    IN  [c EXCEPT !.unackno = ack, !.unackoff = (@ + n) % SNDBUF,
                  !.unacklen = @ - n, !.buflenleft = left, !.dupacks = 0,
                  !.cwnd = AtMost(@ + MSS, SNDBUF), !.resndtimes = 0,
                  !.sndlamp = IF left > 0 \/ "ASND" \notin c.chan THEN 1 ELSE @,
                  !.timers = IF c.sndnxtno = ack THEN @ \ {"RESEND"} ELSE @]

(* Mutant: an old acknowledgement is taken for a new one.                  *)
AcksOther(c, ack) == ack # c.unackno

(* ackno lies after unackno and not after sndnxtno, on either side of 0.   *)
AcksNew(c, ack) ==
    \/ c.sndnxtno > c.unackno /\ ack > c.unackno /\ ack <= c.sndnxtno
    \/ c.sndnxtno < c.unackno /\ (ack > c.unackno \/ ack <= c.sndnxtno)

(* __ackdata: every segment comes through it, `flags | ACK` being true.    *)
AckData(c, seg, up) ==
    LET d == IF seg.ack = c.unackno /\ c.unacklen > 0 THEN DupAck(c, up)
             ELSE IF AcksNew(c, seg.ack) THEN NewAck(c, seg.ack)
             ELSE c
    IN  IF seg.wnd > d.unacklen
        THEN [d EXCEPT !.sndwnd = seg.wnd - d.unacklen,
                       !.timers = @ \ {"PERSIST"}]
        ELSE [d EXCEPT !.sndwnd = 0, !.timers = @ \cup {"PERSIST"}]

(* The segment holds the byte rcvnxt.                                      *)
Expected(c, seg) ==
    LET stop == No(seg.seq + Len(seg.data))
    IN  /\ seg.data # << >>
        /\ \/ c.rcvnxt = seg.seq
           \/ stop > seg.seq /\ c.rcvnxt > seg.seq /\ c.rcvnxt < stop
           \/ stop < seg.seq /\ (c.rcvnxt > seg.seq \/ c.rcvnxt < stop)


(* __rcvdata: what rcvnxt has passed is skipped.                           *)
RcvData(c, seg) ==
    IF Expected(c, seg)
    THEN [c EXCEPT !.rbuf = @ \o SubSeq(seg.data, No(c.rcvnxt - seg.seq) + 1,
                                        Len(seg.data)),
                   !.rcvnxt = No(seg.seq + Len(seg.data)), !.rcvlamp = 1]
    ELSE c

CountAck(c, n) == [c EXCEPT !.acktimes = AtMost(@ + n, TICK_ACK)]

AckIfDue(c, up) ==
    IF c.acktimes >= TICK_ACK THEN SendFlag(c, {"ACK"}, c.sndnxtno, up) ELSE c

(* What __stable_ms and the __finwait*_ms begin with.                      *)
TakeSegment(c, seg, up) ==
    LET a == AckData(c, seg, up)
    IN  IF seg.data = << >> THEN a
        ELSE CountAck(IF "KRCV" \in a.chan THEN RcvData(a, seg) ELSE a, 1)

(* The FIN of seg counts once the data before it has been received: c is   *)
(* the block before seg, d the block after TakeSegment.                    *)
FinIsNext(c, d, seg) ==
    /\ "FIN" \in seg.flags
    /\ \/ d.rcvnxt = seg.seq
       \/ "KRCV" \in c.chan /\ Expected(c, seg)

(* Mutant: a FIN does not wake the reader.                                 *)
FinSeenQuiet(c, state) ==
    [CountAck(c, TICK_ACK) EXCEPT !.rcvnxt = No(@ + 1), !.state = state,
                                  !.chan = @ \ {"KRCV"}]

FinSeen(c, state) ==
    [CountAck(c, TICK_ACK) EXCEPT !.rcvnxt = No(@ + 1), !.state = state,
                                  !.chan = @ \ {"KRCV"}, !.rcvlamp = 1]

-----------------------------------------------------------------------------
(* The handlers of __dealrecvpkg, one for each state.                      *)

SynAcked(c) ==
    [c EXCEPT !.state = "ESTABLISH", !.chan = @ \cup {"KRCV", "KSND"},
              !.timers = @ \ {"SYN"}]

RcvSyn(c, seg, up) ==
    LET a == AckData(c, seg, up)
    IN  IF a.unackno = a.sndnxtno
        THEN [SynAcked(a) EXCEPT !.hashed = TRUE] ELSE a

SndSyn(c, seg, up) ==
    LET a == AckData(c, seg, up)
    IN  IF a.unackno = a.sndnxtno /\ seg.flags = {"SYN", "ACK"}
        THEN SendFlag([SynAcked(a) EXCEPT !.rcvnxt = No(seg.seq + 1),
                                          !.rcvlamp = 1],
                      {"ACK"}, a.sndnxtno, up)
        ELSE a

Stable(c, seg, up) ==
    LET d == TakeSegment(c, seg, up)
        f == IF FinIsNext(c, d, seg) THEN FinSeen(d, "CLOSEWAIT")
             ELSE IF "SYN" \in seg.flags
             THEN SendFlag(d, {"ACK"}, d.sndnxtno, up)
             ELSE d
        s == IF "KSND" \in f.chan
             THEN SendData(f, ChkChannelSendLen(f), up) ELSE f
    IN  AckIfDue(s, up)

ToTimeWait(c) == [c EXCEPT !.state = "TIMEWAIT", !.timers = {"2MSL"}]

FinWait1(c, seg, up) ==
    LET d == TakeSegment(c, seg, up)
        acked == d.unackno = d.sndnxtno
        w == IF acked
             THEN [d EXCEPT !.state = "FINWAIT2",
                            !.timers = (@ \ {"FIN"}) \cup {"2MSL"}]
             ELSE d
        f == IF ~FinIsNext(c, d, seg) THEN w
             ELSE IF acked THEN ToTimeWait(FinSeen(w, "TIMEWAIT"))
             ELSE FinSeen(w, "CLOSING")
    IN  AckIfDue(f, up)

FinWait2(c, seg, up) ==
    LET d == TakeSegment(c, seg, up)
    IN  AckIfDue(IF FinIsNext(c, d, seg)
                 THEN ToTimeWait(FinSeen(d, "TIMEWAIT")) ELSE d, up)

CountData(c, seg) == IF seg.data = << >> THEN c ELSE CountAck(c, 1)

Closing(c, seg, up) ==
    LET a == AckData(c, seg, up)
        w == IF a.unackno = a.sndnxtno
             THEN [a EXCEPT !.state = "TIMEWAIT",
                            !.timers = (@ \ {"FIN"}) \cup {"2MSL"}]
             ELSE a
    IN  AckIfDue(CountData(w, seg), up)

TimeWait(c, seg, up) == AckIfDue(CountData(c, seg), up)

CloseWait(c, seg, up) ==
    LET a == CountData(AckData(c, seg, up), seg)
        s == IF "KSND" \in a.chan
             THEN SendData(a, ChkChannelSendLen(a), up) ELSE a
    IN  AckIfDue(s, up)

LastAck(c, seg, up) ==
    LET a == AckData(c, seg, up)
        w == IF a.unackno = a.sndnxtno
             THEN [a EXCEPT !.state = "2FREE", !.timers = @ \ {"FIN"}] ELSE a
    IN  AckIfDue(CountData(w, seg), up)

(* __dealrecvpkg: a reset with another number is handled like an ACK.      *)
DealRecvPkg(c, seg, up) ==
    IF "RST" \in seg.flags /\ c.rcvnxt = seg.seq THEN ResetCCB(c, "2FREE")
    ELSE CASE c.state = "SYNSNT" -> SndSyn(c, seg, up)
           [] c.state = "SYNRCV" -> RcvSyn(c, seg, up)
           [] c.state = "ESTABLISH" -> Stable(c, seg, up)
           [] c.state = "FINWAIT1" -> FinWait1(c, seg, up)
           [] c.state = "FINWAIT2" -> FinWait2(c, seg, up)
           [] c.state = "CLOSING" -> Closing(c, seg, up)
           [] c.state = "TIMEWAIT" -> TimeWait(c, seg, up)
           [] c.state = "CLOSEWAIT" -> CloseWait(c, seg, up)
           [] c.state = "LASTACK" -> LastAck(c, seg, up)
           [] OTHER -> c

-----------------------------------------------------------------------------
(* Steps.  A handler leaves c, and what it sent goes to the network, which *)
(* may lose any of it.                                                     *)
Finish(e, c, arrived, up) ==
    /\ up \in plan.up /\ UNCHANGED plan
    /\ ccb' = [ccb EXCEPT ![e] = [c EXCEPT !.out = {}]]
    /\ \E kept \in SUBSET c.out :
          LET there == net[Peer(e)] \cup kept
          IN  /\ Cardinality(there) <= plan.room[Peer(e)]
              /\ net' = [net EXCEPT ![Peer(e)] = there, ![e] = arrived]

Live(e) == ccb[e].state \notin {"NONE", "FREED"}

(* The thread that uses the socket of e is outside the socket calls.       *)
Idle(e) == Live(e) /\ app[e].open /\ ~app[e].close /\ app[e].pc = "idle"

SetPc(e, pc) == app' = [app EXCEPT ![e].pc = pc]

(* __tcpconnect sends the SYN and waits for rbuf.bufsync.                  *)
TcpConnect(e, up) ==
    LET c == ccb[e]
    IN  /\ Idle(e) /\ c.state = "CREAT"
        /\ Finish(e, [SendFlag(c, {"SYN"}, c.sndnxtno, up) EXCEPT
                         !.sndnxtno = No(@ + 1), !.state = "SYNSNT",
                         !.timers = {"SYN"}], net[e], up)
        /\ SetPc(e, "connect")

TcpConnectReturn(e) ==
    LET c == [ccb[e] EXCEPT !.rcvlamp = 0]
    IN  /\ app[e].pc = "connect" /\ ccb[e].rcvlamp = 1
        /\ Finish(e, IF c.state = "ESTABLISH"
                     THEN [c EXCEPT !.chan = @ \cup {"ASND", "ARCV"}]
                     ELSE ResetCCB(c, "2FREE"), net[e], TRUE)
        /\ SetPc(e, "idle")

(* __acceptclient takes a client that is at least ESTABLISH.               *)
TcpAccept(e) ==
    /\ Live(e) /\ ~app[e].open /\ ccb[e].state # "SYNRCV"
    /\ ccb' = [ccb EXCEPT ![e].chan = @ \cup {"ASND", "ARCV"}]
    /\ app' = [app EXCEPT ![e].open = TRUE]
    /\ UNCHANGED << net, plan >>

(* __tcpsend takes the lamp of sbuf.bufsync, then SockSync; an             *)
(* acknowledgement may be handled in between.                              *)
TcpSend(e) ==
    /\ Idle(e) /\ ccb[e].state # "CREAT" /\ ccb[e].sndlamp = 1
    /\ app[e].written < plan.bytes[e]
    /\ ccb' = [ccb EXCEPT ![e].sndlamp = 0]
    /\ SetPc(e, "send")
    /\ UNCHANGED << net, plan >>

TcpSendCopy(e, up) ==
    /\ app[e].pc = "send"
    /\ \/ /\ "ASND" \in ccb[e].chan /\ ccb[e].buflenleft > 0
          /\ \E len \in 1 .. plan.bytes[e] - app[e].written :
                LET n == AtMost(ccb[e].buflenleft, len)
                    d == Cpy2SndBuf(ccb[e], app[e].written, n)
                    s == SendData(d, ChkChannelSendLen(d), up)
                    t == IF ChkChannelSendLen(d) > 0 THEN s ELSE d
                IN  /\ Finish(e, IF t.buflenleft > 0 \/ "ASND" \notin t.chan
                                 THEN [t EXCEPT !.sndlamp = 1] ELSE t,
                              net[e], up)
                    /\ app' = [app EXCEPT ![e].pc = "idle",
                                          ![e].written = @ + n]
       \/ /\ "ASND" \in ccb[e].chan /\ ccb[e].buflenleft = 0   \* returns -1
          /\ SetPc(e, "idle")
          /\ UNCHANGED << ccb, net, plan >>
       \/ /\ "ASND" \notin ccb[e].chan                         \* returns 0
          /\ ccb' = [ccb EXCEPT ![e].sndlamp = 1]
          /\ SetPc(e, "idle")
          /\ UNCHANGED << net, plan >>

(* __cpyfromrcvbuf.                                                        *)
CpyFromRcvBuf(e) ==
    \E len \in ReadLens :
       LET n == AtMost(len, Len(ccb[e].rbuf))
       IN  /\ ccb' = [ccb EXCEPT ![e].rbuf = SubSeq(@, n + 1, Len(@)),
                         ![e].rcvlamp = IF app[e].pc = "recv" THEN 0 ELSE @]
           /\ app' = [app EXCEPT ![e].read = @ \o SubSeq(ccb[e].rbuf, 1, n),
                                 ![e].pc = "idle"]
           /\ UNCHANGED << net, plan >>

(* __tcprecv copies what there is, or clears rbuf.bufsync and waits on it. *)
TcpRecv(e) ==
    /\ Idle(e) /\ "ARCV" \in ccb[e].chan
    /\ \/ ccb[e].rbuf # << >> /\ CpyFromRcvBuf(e)
       \/ /\ ccb[e].rbuf = << >> /\ "KRCV" \in ccb[e].chan
          /\ ccb' = [ccb EXCEPT ![e].rcvlamp = 0]
          /\ SetPc(e, "recv")
          /\ UNCHANGED << net, plan >>

(* The lamp was lit.  A lamp lit again before SockSync is taken is put out *)
(* by the next wait.                                                       *)
TcpRecvReturn(e) ==
    /\ app[e].pc = "recv" /\ ccb[e].rcvlamp = 1
    /\ CpyFromRcvBuf(e)

(* __shutdownRD.                                                           *)
ShutdownRD(c) ==
    [c EXCEPT !.chan = @ \ {"ARCV", "KRCV"}, !.rbuf = << >>, !.rcvlamp = 1]

(* __shutdownWR: with data still to be sent the FIN is left to __senddata. *)
ShutdownWR(c, up) ==
    LET d == [c EXCEPT !.chan = @ \ {"ASND"}]
    IN  IF d.datalen = 0
        THEN FinSent(SendFlag(d, {"FIN", "ACK"}, d.sndnxtno, up))
        ELSE d

(* __tcpshutdown(SHUT_WR); the thread calls it once.                       *)
TcpShutdown(e, up) ==
    /\ Idle(e) /\ ccb[e].state # "CREAT" /\ "shutdown" \in app[e].calls
    /\ Finish(e, ShutdownWR(ccb[e], up), net[e], up)
    /\ app' = [app EXCEPT ![e].calls = @ \ {"shutdown"}]

(* __closesocket.                                                          *)
CloseSocket(e, up) ==
    /\ Idle(e) /\ "close" \in app[e].calls
    /\ Finish(e, IF ccb[e].state = "CREAT" THEN ResetCCB(ccb[e], "2FREE")
                 ELSE ShutdownWR(ShutdownRD(ccb[e]), up), net[e], up)
    /\ app' = [app EXCEPT ![e].close = TRUE, ![e].calls = @ \ {"close"}]

-----------------------------------------------------------------------------
(* The network thread.                                                     *)

(* What is left of the segments under way once seg was delivered: the      *)
(* network may deliver it again.                                           *)
Delivered(e, seg) == {net[e], net[e] \ {seg}}

(* __newclient.                                                            *)
NewClient(e, seg, up) ==
    LET c == [CreateCCB(e, "SYNRCV") EXCEPT !.rcvnxt = No(seg.seq + 1),
                                            !.sndwnd = seg.wnd]
    IN  [SendFlag(c, {"SYN", "ACK"}, c.sndnxtno, up) EXCEPT
            !.timers = {"SYN"}, !.sndnxtno = No(@ + 1)]

(* __resetremoteraw does not set the window of the reset.                  *)
ResetRemoteRaw(seg) ==
    {[flags |-> {"RST", "ACK"}, seq |-> seg.ack, ack |-> seg.seq,
      data |-> << >>, wnd |-> w] : w \in {0, RCVBUF}}

(* The socket is in TcpHashTab or in the list of the server: one accepted  *)
(* after its handshake failed is in neither.                               *)
Found(e) == Live(e) /\ (ccb[e].hashed \/ ~app[e].open)

(* __tcprcvdealv4: the socket is there.                                    *)
Receive(e, up) ==
    /\ Found(e)
    /\ \E seg \in net[e] : \E arrived \in Delivered(e, seg) :
          Finish(e, DealRecvPkg(ccb[e], seg, up), arrived, up)
    /\ UNCHANGED app

(* The listening socket makes one client.                                  *)
ReceiveSyn(e, up) ==
    /\ ccb[e].state = "NONE"
    /\ \E seg \in net[e] : \E arrived \in Delivered(e, seg) :
          /\ "SYN" \in seg.flags /\ "ACK" \notin seg.flags
          /\ Finish(e, NewClient(e, seg, up), arrived, up)
    /\ UNCHANGED app

(* The socket is gone.  A server answers a reset as well; a SYN, which     *)
(* would make a second client, counts as lost.                             *)
ReceiveUnknown(e) ==
    /\ ccb[e].state # "NONE" /\ ~Found(e)
    /\ \E seg \in net[e] :
       \E arrived \in Delivered(e, seg), reset \in ResetRemoteRaw(seg) :
          Finish(e, IF \/ e = Client /\ "RST" \in seg.flags
                       \/ e = Server /\ "SYN" \in seg.flags
                    THEN ccb[e] ELSE [ccb[e] EXCEPT !.out = {reset}],
                 arrived, TRUE)
    /\ UNCHANGED app

-----------------------------------------------------------------------------
(* The tick.                                                               *)

(* The resend timer of __dealclienttimer has run out.                      *)
Retransmit(c, gone, up) ==
    LET sent == IF "SYN" \in c.timers
                THEN SendFlag(c, IF c.state = "SYNRCV" THEN {"SYN", "ACK"}
                                 ELSE {"SYN"}, c.unackno, up)
                ELSE IF "RESEND" \in c.timers THEN ResendData(c, up)
                ELSE SendFlag(c, {"FIN", "ACK"}, No(c.sndnxtno - 1), up)
    IN  IF c.resndtimes > RSNDMAX
        THEN ResetCCB(c, IF gone THEN "2FREE" ELSE c.state)
        ELSE [sent EXCEPT !.cwnd = MSS, !.resndtimes = @ + 1]

(* __dealclienttimer: x are the counters that have reached 0.              *)
DealClientTimer(c, gone, x, up) ==
    LET m == IF "msl" \in x /\ "2MSL" \in c.timers
             THEN ResetCCB(c, "2FREE") ELSE c
        r == IF "resnd" \in x /\ m.timers \cap Resend3 # {}
             THEN Retransmit(m, gone, up) ELSE m
        p == IF "persist" \in x /\ "PERSIST" \in r.timers /\ r.datalen > 0
             THEN SendData(r, 1, up) ELSE r
    IN  IF p.acktimes > 0 THEN SendFlag(p, {"ACK"}, p.sndnxtno, up) ELSE p

(* The counters that may have: nothing else depends on the others.         *)
Expired(c) ==
    SUBSET ((IF "2MSL" \in c.timers THEN {"msl"} ELSE {})
            \cup (IF c.timers \cap Resend3 # {} THEN {"resnd"} ELSE {})
            \cup (IF "PERSIST" \in c.timers /\ c.datalen > 0 THEN {"persist"} ELSE {}))

(* __tcptick for a socket in TcpHashTab.                                   *)
TcpTick(e, up) ==
    /\ Live(e) /\ ccb[e].hashed
    /\ \E x \in Expired(ccb[e]) :
          Finish(e, IF app[e].close /\ ccb[e].state = "2FREE"
                    THEN CreateCCB(e, "FREED")
                    ELSE DealClientTimer(ccb[e], app[e].close \/ ~app[e].open,
                                         x, up),
                 net[e], up)
    /\ UNCHANGED app

(* And for one in the list of the server, which the hash table may hold as *)
(* well.  The FIN is sent for the listening socket, which has no peer.     *)
TcpTickServer(e, up) ==
    /\ Live(e) /\ ~app[e].open
    /\ \E x \in Expired(ccb[e]) :
          LET c == DealClientTimer(ccb[e], TRUE, x, up)
          IN  Finish(e, IF c.state = "CLOSEWAIT" THEN FinSent(c) ELSE c,
                     net[e], up)
    /\ UNCHANGED app

-----------------------------------------------------------------------------
Init ==
    /\ ccb = [e \in End |-> CreateCCB(e, IF e = Client THEN "CREAT" ELSE "NONE")]
    /\ plan \in Plans
    /\ app = [e \in End |-> [pc |-> "idle", open |-> e = Client,
                             close |-> FALSE, calls |-> plan.calls[e],
                             written |-> 0, read |-> << >>]]
    /\ net = [e \in End |-> {}]

Next ==
    \E e \in End :
       \/ TcpConnectReturn(e)
       \/ TcpAccept(e)
       \/ TcpSend(e)
       \/ TcpRecv(e)
       \/ TcpRecvReturn(e)
       \/ ReceiveUnknown(e)
       \/ \E up \in BOOLEAN :
             \/ TcpConnect(e, up)
             \/ TcpSendCopy(e, up)
             \/ TcpShutdown(e, up)
             \/ CloseSocket(e, up)
             \/ Receive(e, up)
             \/ ReceiveSyn(e, up)
             \/ TcpTick(e, up)
             \/ TcpTickServer(e, up)

Spec == Init /\ [][Next]_vars

-----------------------------------------------------------------------------
(* What is checked.                                                        *)

Seqno == 0 .. SEQ - 1

(* Sequence numbers stay u32 numbers, offsets stay in the ring, the states *)
(* and bits are those of the enumerations, and no handler leaves anything  *)
(* unsent.                                                                 *)
TypeOK ==
    /\ net \in [End -> SUBSET [flags : SUBSET Flags, seq : Seqno, ack : Seqno,
                               wnd : 0 .. RCVBUF, data : Seq(Nat)]]
    /\ \A e \in End :
          LET c == ccb[e]
          IN  /\ c.state \in States
              /\ c.chan \subseteq Channels /\ c.timers \subseteq Timers
              /\ {c.unackno, c.sndnxtno, c.rcvnxt} \subseteq Seqno
              /\ {c.unackoff, c.sndnxtoff, c.dataoff} \subseteq 0 .. SNDBUF - 1
              /\ {c.sndlamp, c.rcvlamp} \subseteq {0, 1}
              /\ c.out = {}

(* The send ring is the unacknowledged bytes, then the unsent ones, then   *)
(* free room, and it still holds exactly the last bytes written: nothing   *)
(* that may have to be sent again is overwritten (__cpy2sndbuf, __senddata *)
(* and __ackdata each move one offset and two lengths).                    *)
SendRing ==
    \A e \in {x \in End : Live(x)} :
       LET c == ccb[e]
           used == c.unacklen + c.datalen
       IN  /\ c.unacklen >= 0 /\ c.datalen >= 0 /\ c.buflenleft >= 0
           /\ used + c.buflenleft = SNDBUF
           /\ c.sndnxtoff = (c.unackoff + c.unacklen) % SNDBUF
           /\ c.dataoff = (c.unackoff + used) % SNDBUF
           /\ \A i \in 1 .. used :
                 c.sbuf[(c.unackoff + i - 1) % SNDBUF] = app[e].written - used + i

Received(e) == app[e].read \o ccb[e].rbuf


Receiving(e) == "KRCV" \in ccb[e].chan

Ahead(a, b) == No(b - a)

(* The receiver never expects a number the sender has not reached, the     *)
(* sender never takes for acknowledged a number the receiver still         *)
(* expects, and between its SYN and its FIN the numbers it has out are     *)
(* exactly the bytes it has out (__ackdata on both sides of the wrap of    *)
(* the numbers, with old acknowledgements and duplicate SYNs arriving).    *)
SeqAgreement ==
    \A e \in End :
       LET c == ccb[e]
           out == Ahead(c.unackno, c.sndnxtno)
       IN  /\ (Live(e) /\ Receiving(Peer(e))) =>
                 Ahead(c.unackno, ccb[Peer(e)].rcvnxt) <= out
           /\ "KSND" \in c.chan => out = c.unacklen

(* Until it has sent its FIN, an end lets go of a byte in its send buffer  *)
(* only when the other end has received it.                                *)
AckedWasReceived ==
    \A e \in End :
       LET c == ccb[e]
       IN  ("KSND" \in c.chan /\ Receiving(Peer(e))) =>
              app[e].written - c.unacklen - c.datalen <= Len(Received(Peer(e)))

(* A thread is not left asleep: one that waits in __tcprecv has nothing to *)
(* read and more to come, one that waits in __tcpconnect has its SYN       *)
(* unanswered, and one that would wait in __tcpsend finds the ring full.   *)
NoLostWakeup ==
    \A e \in {x \in End : Live(x)} :
       LET c == ccb[e]
       IN  /\ (app[e].pc = "recv" /\ c.rcvlamp = 0) =>
                 (c.rbuf = << >> /\ Receiving(e))
           /\ (app[e].pc = "connect" /\ c.rcvlamp = 0) => c.state = "SYNSNT"
           /\ (app[e].pc = "idle" /\ c.sndlamp = 0) => c.buflenleft = 0

(* An end that has seen the other's FIN has received all that was written  *)
(* before the socket was shut down: __shutdownWR leaves the FIN to         *)
(* __senddata when "send buf still has some data to snd".                  *)
FinAfterData ==
    \A e \in End :
       (ccb[e].state = "CLOSEWAIT" /\ "ARCV" \in ccb[e].chan) =>
           Len(Received(e)) = app[Peer(e)].written

=============================================================================
