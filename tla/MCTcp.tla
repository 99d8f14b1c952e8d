------------------------------- MODULE MCTcp -------------------------------
(***************************************************************************)
(* Tcp for TLC.                                                            *)
(***************************************************************************)
EXTENDS Tcp

MCISN == [e \in End |-> IF e = Client THEN SEQ - 3 ELSE 5]

Both(c, s) == [e \in End |-> IF e = Client THEN c ELSE s]

Plan(bytes, calls, up, room) ==
    [bytes |-> bytes, calls |-> calls, up |-> up, room |-> room]

(* The client sends a ring full over a network that reorders; goes round   *)
(* the ring; sends and closes, also over a network that reorders, and with *)
(* IpSend failing; shuts its sending side while the server sends and       *)
(* closes.                                                                 *)
MCPlans ==
    {Plan(Both(3, 0), Both({}, {}), {TRUE}, Both(1, 2)),
     Plan(Both(5, 0), Both({}, {}), {TRUE}, Both(1, 1)),
     Plan(Both(2, 0), Both({"close"}, {}), {TRUE}, Both(1, 1)),
     Plan(Both(1, 0), Both({"close"}, {}), {TRUE}, Both(1, 2)),
     Plan(Both(1, 0), Both({"close"}, {}), BOOLEAN, Both(1, 1)),
     Plan(Both(0, 1), Both({"shutdown"}, {"close"}), {TRUE}, Both(1, 1))}

(* The client closes with data left that the window does not let out.      *)
MCClosePlans == {Plan(Both(4, 0), Both({"close"}, {}), {TRUE}, Both(1, 1))}

(* The loop of __senddata, step by step.                                   *)
RECURSIVE SendLoop(_, _)
SendLoop(c, length) ==
    LET last == length <= MSS
        want == IF last THEN length ELSE MSS
        round == c.sndnxtoff + want > SNDBUF
        n == IF round THEN SNDBUF - c.sndnxtoff ELSE want
        fin == last /\ "ASND" \notin c.chan /\ ~round
        seg == Built(c, IF fin THEN {"ACK", "FIN"} ELSE {"ACK"}, c.sndnxtno,
                     RingBytes(c, c.sndnxtoff, n))
        sent == [SendMsg(c, seg, TRUE) EXCEPT
                    !.sndnxtno = No(@ + n), !.sndnxtoff = (@ + n) % SNDBUF,
                    !.unacklen = @ + n, !.datalen = @ - n,
                    !.sndwnd = IF @ > n THEN @ - n ELSE 0]
    IN  IF length <= 0 THEN c
        ELSE IF fin THEN FinSent(sent)
        ELSE SendLoop(sent, length - n)

(* Sent is what it leaves, for all that a full ring can hold.              *)
ASSUME SentIsSendLoop ==
    \A off \in 0 .. SNDBUF - 1, length \in 1 .. SNDBUF, wnd \in 0 .. SNDBUF,
       no \in 0 .. SEQ - 1, chan \in {{"KSND"}, {"KSND", "ASND"}} :
       LET c == [CreateCCB(Client, "ESTABLISH") EXCEPT
                    !.sbuf = [i \in DOMAIN @ |-> i], !.sndnxtoff = off,
                    !.sndnxtno = no, !.datalen = SNDBUF, !.sndwnd = wnd,
                    !.chan = chan]
       IN  Sent(c, length) = SendLoop(c, length)

(* What no later step depends on: the lamp of rbuf.bufsync is put out      *)
(* before every wait, dupacktims is past its threshold at 1, and an end    *)
(* that will not send any more has no use for the window.                  *)
Drained(e) == /\ app[e].open /\ ccb[e].datalen = 0
              /\ ccb[e].chan \cap {"KSND", "ASND"} = {}

Seen(e) ==
    LET c == ccb[e]
    IN  [c EXCEPT !.dupacks = 0,
                  !.rcvlamp = IF app[e].pc = "idle" THEN 0 ELSE @,
                  !.sndwnd = IF Drained(e) THEN 0 ELSE @,
                  !.timers = IF Drained(e) THEN @ \ {"PERSIST"} ELSE @]

View == << Seen(Client), Seen(Server), app, net, plan >>
=============================================================================
