------------------------------- MODULE LwipTcp ------------------------------
(* One TCP connection of lwIP at the level of sequence numbers, with the Go  *)
(* connection (tcp_conn.go) above it and the local client as its peer.       *)
(*                                                                           *)
(* The state is one record, the pcb, with the Go connection's state in       *)
(* c.conn.  Every action is one entry into lwIP under lwipMutex: a segment   *)
(* from the peer (tcp_input with the callbacks it makes), a timer, or a call *)
(* of the Go side.  The peer sends any part of its stream, in any order and  *)
(* any number of times, inside the window lwIP has announced, and may probe  *)
(* one byte beyond; it acknowledges anything that was sent and announces any *)
(* window.  A step with nomem set is one in which malloc fails.              *)
EXTENDS LwipTcpIn

CONSTANTS ISS,      \* lwIP's initial sequence number
          IRS,      \* the peer's
          Plans     \* what may happen on a connection: records of
                    \*   rx      bytes the peer sends,
                    \*   eof     does the peer send a FIN after them?
                    \*   tx      bytes the Go side writes,
                    \*   wnds    windows the peer announces,
                    \*   shrinks may the peer take back window it has announced?
                    \*   mem     can malloc fail?  a set of BOOLEANs,
                    \*   resets  does the peer send RST and copies of its SYN?
                    \*   aborts  does the Go side abort?

VARIABLES c,        \* the pcb
          plan      \* the plan of this behaviour

vars == <<c, plan>>

Stream(from, n) == [i \in 1 .. n |-> from + i]

\* No pcb.  tcp_free, after the error callback where there is one.
Freed ==
  [state |-> "FREED", failed |-> "", conn |-> "tcpClosed", flags |-> {}, inp |-> FALSE,
   nomem |-> FALSE, rcv_nxt |-> 0, rcv_wnd |-> 0, rcv_ann_wnd |-> 0, rcv_ann_right_edge |-> 0,
   ackOnWire |-> 0, ooseq |-> << >>, refused_data |-> << >>, refused_fin |-> FALSE,
   recv_data |-> << >>, recv_flags |-> {}, recv_acked |-> 0,
   lastack |-> 0, snd_wl1 |-> 0, snd_wl2 |-> 0, snd_wnd |-> 0, snd_wnd_max |-> 0,
   snd_nxt |-> 0, snd_lbb |-> 0, snd_buf |-> 0, snd_queuelen |-> 0, unsent_oversize |-> 0,
   unsent |-> << >>, unacked |-> << >>, cwnd |-> 0, ssthresh |-> 0, bytes_acked |-> 0,
   dupacks |-> 0, nrtx |-> 0, rtime |-> -1, rto_end |-> 0, persist_backoff |-> 0,
   persist_probe |-> 0, delivered |-> << >>, eof |-> FALSE, written |-> 0]

\* The process has ended, in a failed assertion or by using a freed pcb.
Dead(what) == [Freed EXCEPT !.state = "DEAD", !.failed = what]

Gone(d) == d.state = "FREED" \/ d.failed # ""
Then(d, Op(_)) == IF Gone(d) THEN d ELSE Op(d)

\* The end of a step: what the file-scope variables held is forgotten.
Done(d) ==
  IF d.failed # "" THEN Dead(d.failed)
  ELSE [d EXCEPT !.inp = FALSE, !.nomem = FALSE, !.recv_data = << >>, !.recv_flags = {},
                 !.recv_acked = 0]
-----------------------------------------------------------------------------
\* tcp_alloc, with what tcp_listen_input sets: the pcb of a SYN with window wnd.
NewPcb(wnd) ==
  [Freed EXCEPT !.state = "SYN_RCVD", !.conn = "tcpNewConn", !.snd_buf = TCP_SND_BUF,
                !.rcv_wnd = TCP_WND, !.rcv_ann_wnd = TCP_WND,
                !.cwnd = 1, !.ssthresh = TCP_SND_BUF,
                !.rcv_nxt = Add(IRS, 1), !.rcv_ann_right_edge = Add(IRS, 1),
                !.ackOnWire = IRS,
                !.snd_wl2 = ISS, !.snd_nxt = ISS, !.lastack = ISS, !.snd_lbb = ISS,
                !.snd_wl1 = Sub(IRS, 1), !.snd_wnd = wnd, !.snd_wnd_max = wnd]

\* SYN|ACK leaves; without memory for it tcp_abandon frees the pcb again.
tcp_listen_input(wnd, nomem) ==
  IF nomem THEN Freed ELSE tcp_output(tcp_enqueue_flags(NewPcb(wnd), TRUE, FALSE))

tcp_pcb_purge(d) ==
  IF d.state = "TIME_WAIT" THEN d
  ELSE [d EXCEPT !.refused_data = << >>, !.refused_fin = FALSE, !.ooseq = << >>, !.rtime = -1,
                 !.unsent = << >>, !.unacked = << >>, !.unsent_oversize = 0]

tcp_abort(d) == Freed

tcp_close_shutdown_fin(d) ==
  LET next == CASE d.state \in {"SYN_RCVD", "ESTABLISHED"} -> "FIN_WAIT_1"
                [] d.state = "CLOSE_WAIT" -> "LAST_ACK"
                [] OTHER -> d.state
  IN IF next = d.state THEN d
     ELSE IF SendFinFails(d) THEN set_flags(d, {"CLOSEPEND"})
     ELSE tcp_output([tcp_send_fin(d) EXCEPT !.state = next])

\* A pcb with data the application has not received is reset, not closed; it
\* is freed later when tcp_input is still using it.
tcp_close_shutdown(d, rst_on_unacked_data) ==
  IF /\ rst_on_unacked_data /\ d.state \in {"ESTABLISHED", "CLOSE_WAIT"}
     /\ d.refused_data # << >> \/ d.rcv_wnd # TCP_WND
  THEN IF d.inp THEN [tcp_pcb_purge(d) EXCEPT !.recv_flags = @ \cup {"CLOSED"}] ELSE Freed
  ELSE tcp_close_shutdown_fin(d)

tcp_close(d) == tcp_close_shutdown(set_flags(d, {"RXCLOSED"}), TRUE)

\* tcp_shutdown(pcb, 1, 0) and tcp_shutdown(pcb, 0, 1).
tcp_shutdown_rx(d) ==
  [set_flags(d, {"RXCLOSED"}) EXCEPT !.refused_data = << >>, !.refused_fin = FALSE]
tcp_shutdown_tx(d) ==
  IF d.state \in {"SYN_RCVD", "ESTABLISHED", "CLOSE_WAIT"} THEN tcp_close_shutdown(d, FALSE) ELSE d
-----------------------------------------------------------------------------
\* The Go callbacks.  closeInternal clears them: "tcpClosed" stands for that.
checkState(d) ==
  CASE d.conn = "tcpClosing" -> tcp_close([d EXCEPT !.conn = "tcpClosed"])
    [] d.conn = "tcpAborting" -> tcp_abort(d)
    [] OTHER -> d

setLocalClosed(d) ==
  [d EXCEPT !.eof = TRUE,
            !.conn = CASE @ \in {"tcpNewConn", "tcpConnecting", "tcpConnected"} -> "tcpReceiveClosed"
                       [] @ = "tcpWriteClosed" -> "tcpClosing"
                       [] OTHER -> @]

Refuses(d) == d.conn \in {"tcpNewConn", "tcpConnecting"}

\* tcpRecvFn with data it does not refuse; reads says whether the handler still
\* reads the pipe.  A pcb without callbacks drops the data (tcp_recv_null).
Receive(d, data, reads) ==
  CASE d.conn = "tcpClosed" -> tcp_recved(d, Len(data))
    [] d.conn \in {"tcpConnected", "tcpWriteClosed"} /\ reads ->
         tcp_recved([d EXCEPT !.delivered = @ \o data], Len(data))
    [] OTHER -> tcp_shutdown_rx(tcp_recved(d, Len(data)))

\* The FIN: the window gets its sequence number back, the application an EOF.
LocalClosed_KeepsWindow(d) ==
  IF d.conn = "tcpClosed" THEN d ELSE checkState(setLocalClosed(d))
LocalClosed(d) ==
  LET e == [d EXCEPT !.rcv_wnd = MinOf(@ + 1, TCP_WND)]
  IN IF d.conn = "tcpClosed" THEN e ELSE checkState(setLocalClosed(e))

RefusedFin(fin, d) == IF fin THEN LocalClosed(d) ELSE d
tcp_process_refused_data(d, reads) ==
  IF d.refused_data = << >> \/ Refuses(d) THEN d
  ELSE RefusedFin(d.refused_fin,
         Receive([d EXCEPT !.refused_data = << >>, !.refused_fin = FALSE], d.refused_data, reads))
-----------------------------------------------------------------------------
\* LWIP_TCP_CALC_INITIAL_CWND: 4380 bytes are three segments of 1460.
InitialCwnd == 3 * TCP_MSS

FinAcked(d, s) == s.ack /\ s.ackno = d.snd_nxt /\ d.unsent = << >>
TimeWait(d) == [tcp_pcb_purge(d) EXCEPT !.state = "TIME_WAIT"]

\* The last ACK of the handshake: the Go side accepts the connection.
GotFin(e) == "GOT_FIN" \in e.recv_flags
CloseWait(e) == IF GotFin(e) THEN [tcp_ack_now(e) EXCEPT !.state = "CLOSE_WAIT"] ELSE e
Accepted(e) == CloseWait([e EXCEPT !.recv_acked = MaxOf(@ - 1, 0), !.cwnd = InitialCwnd])

ProcessSynRcvd(d, s, accepts) ==
  IF s.ack
  THEN IF TCP_SEQ_BETWEEN(s.ackno, Add(d.lastack, 1), d.snd_nxt)
       THEN IF ~accepts THEN tcp_abort(d)
            ELSE Accepted(tcp_receive([d EXCEPT !.state = "ESTABLISHED",
                                                !.conn = "tcpConnecting"], s))
       ELSE d
  ELSE IF s.syn /\ s.seq = Sub(d.rcv_nxt, 1) THEN tcp_rexmit(d) ELSE d

\* What the other states do once tcp_receive has left the pcb as e.
Received(state, e, s) ==
  CASE state \in {"ESTABLISHED", "CLOSE_WAIT"} -> CloseWait(e)
    [] state = "FIN_WAIT_1" ->
         IF GotFin(e) THEN IF FinAcked(e, s) THEN TimeWait(tcp_ack_now(e))
                           ELSE [tcp_ack_now(e) EXCEPT !.state = "CLOSING"]
         ELSE IF FinAcked(e, s) THEN [e EXCEPT !.state = "FIN_WAIT_2"] ELSE e
    [] state = "FIN_WAIT_2" -> IF GotFin(e) THEN TimeWait(tcp_ack_now(e)) ELSE e
    [] state = "CLOSING" -> IF FinAcked(e, s) THEN TimeWait(e) ELSE e
    [] state = "LAST_ACK" ->
         IF FinAcked(e, s) THEN [e EXCEPT !.recv_flags = @ \cup {"CLOSED"}] ELSE e

ProcessState(d, s, accepts) ==
  IF d.state = "SYN_RCVD" THEN ProcessSynRcvd(d, s, accepts)
  ELSE Received(d.state, tcp_receive(d, s), s)

tcp_process(d, s, accepts) ==
  IF s.rst THEN IF s.seq = d.rcv_nxt THEN [d EXCEPT !.recv_flags = {"RESET"}]
                ELSE IF InWindow(d, s.seq, d.rcv_wnd) THEN tcp_ack_now(d) ELSE d
  ELSE IF s.syn /\ d.state # "SYN_RCVD" THEN tcp_ack_now(d)
  ELSE ProcessState([d EXCEPT !.persist_probe = 0], s, accepts)

\* recv_flags asks for the end of the pcb: reset, or closed in a callback.
DelayedClose(d) == IF d.recv_flags \cap {"RESET", "CLOSED"} # {} THEN Freed ELSE d

DeliverData(d, reads) ==
  CASE d.recv_data = << >> -> d
    [] d.recv_data # << >> /\ d.refused_data # << >> -> Failed(d, "pcb->refused_data == NULL")
    [] d.recv_data # << >> /\ d.refused_data = << >> /\ "RXCLOSED" \in d.flags -> tcp_abort(d)
    [] OTHER -> IF Refuses(d) THEN [d EXCEPT !.refused_data = d.recv_data]
                ELSE Receive(d, d.recv_data, reads)

DeliverFin(d) ==
  CASE "GOT_FIN" \notin d.recv_flags -> d
    [] "GOT_FIN" \in d.recv_flags /\ d.refused_data # << >> -> [d EXCEPT !.refused_fin = TRUE]
    [] OTHER -> LocalClosed(d)

\* tcp_input from the point where the pcb is known.
InputActive(d, s, reads, accepts) ==
  LET p == Then([d EXCEPT !.inp = TRUE], LAMBDA x : tcp_process(x, s, accepts))
      sent == Then(p, LAMBDA x : IF x.recv_acked > 0 THEN checkState(x) ELSE x)
      data == Then(Then(sent, DelayedClose), LAMBDA x : DeliverData(x, reads))
      fin == Then(data, DeliverFin)
      out == Then(fin, LAMBDA x : DelayedClose([x EXCEPT !.inp = FALSE]))
  IN Then(out, tcp_output)

\* Refused data is offered first; while it is refused new data is dropped.  The
\* code reads rcv_ann_wnd of the pcb even when the callback has freed it.
InputOffered(e, s, reads, accepts) ==
  IF e.failed # "" THEN e
  ELSE IF e.state = "FREED" THEN Dead("use after free")
  ELSE IF e.refused_data # << >> /\ TCP_TCPLEN(s) > 0
  THEN IF e.rcv_ann_wnd = 0 THEN tcp_send_empty_ack(e) ELSE e
  ELSE InputActive(e, s, reads, accepts)
tcp_input(d, s, reads, accepts) ==
  InputOffered(tcp_process_refused_data(d, reads), s, reads, accepts)

\* In TIME_WAIT everything but a reset and a SYN in the window is acknowledged.
tcp_timewait_input(d, s) ==
  IF s.rst \/ (s.syn /\ InWindow(d, s.seq, d.rcv_wnd)) \/ TCP_TCPLEN(s) = 0 THEN d
  ELSE tcp_output(tcp_ack_now(d))
-----------------------------------------------------------------------------
\* tcp_slowtmr's retransmission and persist timers.  The result has state
\* "FREED" when the connection is given up.
Persist(d, fires) ==
  CASE d.unacked # << >> -> Failed(d, "persist ticking with in-flight data")
    [] d.unacked = << >> /\ d.unsent = << >> ->
         Failed(d, "persist ticking with empty send buffer")
    [] OTHER ->
         IF d.persist_probe >= TCP_MAXRTX THEN Freed
         ELSE IF ~fires THEN d
         ELSE IF d.snd_wnd = 0 THEN tcp_zero_window_probe(d)
         ELSE IF SplitFails(d, d.snd_wnd) THEN d
         ELSE tcp_output(tcp_split_unsent_seg(d, d.snd_wnd))

Retransmit(d) ==
  LET e == IF d.unacked # << >> THEN tcp_rexmit_rto_prepare(d) ELSE d
      eff_wnd == MinOf(d.cwnd, d.snd_wnd)
  IN IF e.unsent = << >> THEN d
     ELSE tcp_rexmit_rto_commit([e EXCEPT !.rtime = 0, !.bytes_acked = 0, !.cwnd = TCP_MSS,
                                          !.ssthresh = MaxOf(eff_wnd \div 2, 2 * TCP_MSS)])

SendTimers(d, fires) ==
  IF d.nrtx >= TCP_MAXRTX THEN Freed
  ELSE IF d.persist_backoff > 0 THEN Persist(d, fires)
  ELSE IF fires /\ d.rtime >= 0 THEN Retransmit(d) ELSE d

\* A connection that waits too long for the peer is dropped, as is data that
\* waits too long in the ooseq queue.
Stuck(d) ==
  d.state \in {"SYN_RCVD", "LAST_ACK"} \/ (d.state = "FIN_WAIT_2" /\ "RXCLOSED" \in d.flags)
Inactive(d) == IF Stuck(d) THEN Freed ELSE [d EXCEPT !.ooseq = << >>]

\* The poll callback; a pcb it frees is not output (tcp_active_pcbs_changed).
Poll(d) == Then(checkState(d), tcp_output)

tcp_slowtmr(d, fires, inactive, polls) ==
  LET e == SendTimers(d, fires)
      f == Then(e, LAMBDA x : IF inactive THEN Inactive(x) ELSE x)
  IN Then(f, LAMBDA x : IF polls THEN Poll(x) ELSE x)

\* The flags go even when tcp_output could not send.
DelayedAck(d) ==
  IF "ACK_DELAY" \in d.flags
  THEN clear_flags(tcp_output(tcp_ack_now(d)), {"ACK_DELAY", "ACK_NOW"}) ELSE d
ClosePending(d) ==
  IF "CLOSEPEND" \in d.flags THEN tcp_close_shutdown_fin(clear_flags(d, {"CLOSEPEND"})) ELSE d
tcp_fasttmr(d, reads) ==
  Then(ClosePending(DelayedAck(d)), LAMBDA x : tcp_process_refused_data(x, reads))
-----------------------------------------------------------------------------
\* What the peer may send, given what lwIP has announced and sent.
Pos(seq) == Sub(seq, Add(IRS, 1))

PeerPieces ==
  { <<k, n, fin>> \in (0 .. plan.rx + 1) \X (0 .. TCP_MSS) \X BOOLEAN :
      LET len == n + (IF fin THEN 1 ELSE 0)
          edge == Pos(c.rcv_ann_right_edge)
      IN /\ k + n <= plan.rx \/ n = 0
         /\ fin => k + n = plan.rx /\ plan.eof
         /\ k = plan.rx + 1 => plan.eof
         /\ k + len <= edge \/ (len = 1 /\ k = edge) }

PeerAcks == { Add(ISS, a) : a \in MaxOf(Sub(c.lastack, ISS) - 1, 1) .. Sub(c.snd_nxt, ISS) }

\* A peer should not shrink its window (RFC 9293, 3.8.6): the right edge lwIP
\* has taken from it stays where it is or advances.
KeepsEdge(s) ==
  LET d == UpdateWindow(c, s)
  IN TCP_SEQ_GEQ(Add(d.snd_wl2, d.snd_wnd), Add(c.snd_wl2, c.snd_wnd))

PeerSegments ==
  { s \in { [seq |-> Add(IRS, 1 + p[1]), data |-> Stream(p[1], p[2]), syn |-> FALSE, fin |-> p[3],
     rst |-> FALSE, ack |-> TRUE, ackno |-> a, wnd |-> w] :
      p \in PeerPieces, a \in PeerAcks, w \in plan.wnds } : plan.shrinks \/ KeepsEdge(s) }

\* A copy of the SYN, or a reset somewhere in the stream.
PeerResets ==
  { [seq |-> Add(IRS, k), data |-> << >>, syn |-> k = 0, fin |-> FALSE, rst |-> k # 0,
     ack |-> FALSE, ackno |-> 0, wnd |-> 0] : k \in 0 .. Pos(c.rcv_nxt) + 2 }

\* The choices of the Go side and of time, each where it matters: does the
\* handler still read, does the listener accept, has a timer run out?
Choice(matters) == IF matters THEN BOOLEAN ELSE {TRUE}
Reads == Choice(c.conn \in {"tcpConnected", "tcpWriteClosed"})
Accepts == Choice(c.state = "SYN_RCVD")
Fires == Choice(c.rtime >= 0 \/ c.persist_backoff > 0)
Inactivity == Choice(Stuck(c) \/ c.ooseq # << >>)

Live == c.state \notin {"FREED", "DEAD"}
Pcb(nomem) == [c EXCEPT !.nomem = nomem]

ListenInput ==
  /\ c.state = "FREED"
  /\ \E wnd \in plan.wnds, nomem \in plan.mem : c' = Done(tcp_listen_input(wnd, nomem))

Input ==
  /\ Live /\ c.state # "TIME_WAIT"
  /\ \E s \in PeerSegments, reads \in Reads, accepts \in Accepts, nomem \in plan.mem :
       c' = Done(tcp_input(Pcb(nomem), s, reads, accepts))

InputReset ==
  /\ Live /\ c.state # "TIME_WAIT" /\ plan.resets
  /\ \E s \in PeerResets, reads \in Reads, nomem \in plan.mem :
       c' = Done(tcp_input(Pcb(nomem), s, reads, TRUE))

InputTimeWait ==
  /\ c.state = "TIME_WAIT"
  /\ \E s \in PeerSegments \cup PeerResets, nomem \in plan.mem :
       c' = Done(tcp_timewait_input(Pcb(nomem), s))

SlowTimer ==
  /\ Live /\ c.state # "TIME_WAIT"
  /\ \E fires \in Fires, inactive \in Inactivity, polls \in BOOLEAN, nomem \in plan.mem :
       c' = Done(tcp_slowtmr(Pcb(nomem), fires, inactive, polls))

TimeWaitOver == c.state = "TIME_WAIT" /\ c' = Freed

FastTimer ==
  /\ Live /\ c.state # "TIME_WAIT"
  /\ \E reads \in Reads, nomem \in plan.mem : c' = Done(tcp_fasttmr(Pcb(nomem), reads))

\* The handler has connected: the conn opens and takes what was refused.
Connected == Live /\ c.conn = "tcpConnecting" /\ c' = [c EXCEPT !.conn = "tcpConnected"]
TakeRefused ==
  /\ Live /\ c.refused_data # << >> /\ ~Refuses(c)
  /\ \E reads \in Reads, nomem \in plan.mem :
       c' = Done(tcp_process_refused_data(Pcb(nomem), reads))

\* Write: as much as fits into snd_buf goes to tcp_write, then tcp_output.
\* c.written counts the bytes.
Written(d, n) ==
  IF d.snd_lbb = c.snd_lbb THEN d ELSE tcp_output([d EXCEPT !.written = @ + n])
Write ==
  /\ Live /\ c.conn \in {"tcpConnecting", "tcpConnected", "tcpReceiveClosed"}
  /\ c.state \in {"ESTABLISHED", "CLOSE_WAIT"}
  /\ \E n \in 1 .. MinOf(c.snd_buf, plan.tx - c.written), nomem \in plan.mem :
       c' = Done(Written(tcp_write(Pcb(nomem), Stream(c.written, n)), n))

CloseWrite ==
  /\ Live /\ c.conn \in {"tcpConnecting", "tcpConnected", "tcpReceiveClosed"}
  /\ \E nomem \in plan.mem :
       c' = Done(tcp_shutdown_tx([Pcb(nomem) EXCEPT
              !.conn = IF @ = "tcpReceiveClosed" THEN "tcpClosing" ELSE "tcpWriteClosed"]))

\* Abort marks the conn, then calls checkState under lwipMutex.
Abort ==
  /\ plan.aborts /\ Live /\ c.conn \notin {"tcpNewConn", "tcpAborting", "tcpClosed"}
  /\ c' = [c EXCEPT !.conn = "tcpAborting"]
AbortCheck == Live /\ c.conn = "tcpAborting" /\ c' = Done(checkState(c))

Init == c = Freed /\ plan \in Plans
Next ==
  /\ UNCHANGED plan
  /\ \/ ListenInput \/ Input \/ InputReset \/ InputTimeWait
     \/ SlowTimer \/ TimeWaitOver \/ FastTimer
     \/ Connected \/ TakeRefused \/ Write \/ CloseWrite \/ Abort \/ AbortCheck

Spec == Init /\ [][Next]_vars
-----------------------------------------------------------------------------
\* The Go side gets the peer's bytes in order, none twice and none left out,
\* however the segments arrive: what was delivered and what waits in
\* refused_data is the stream up to rcv_nxt.  The EOF comes after all of it.
DeliveredInOrder ==
  (Live /\ "RXCLOSED" \notin c.flags) =>
     /\ c.delivered \o c.refused_data = Stream(0, MinOf(Pos(c.rcv_nxt), plan.rx))
     /\ c.eof => Len(c.delivered) = plan.rx

\* The ooseq queue is sorted, its segments do not overlap, lie above rcv_nxt and
\* inside the window, hold the right bytes, and only the last can have the FIN.
OoseqSane ==
  LET q == c.ooseq IN
  \A i \in DOMAIN q :
     /\ q[i].data = Stream(Pos(q[i].seq), Len(q[i].data)) /\ TCP_TCPLEN(q[i]) > 0
     /\ TCP_SEQ_GT(q[i].seq, c.rcv_nxt)
     /\ TCP_SEQ_LEQ(SegEnd(q[i]), Add(c.rcv_nxt, c.rcv_wnd))
     /\ q[i].fin => i = Len(q)
     /\ i > 1 => TCP_SEQ_LEQ(DataEnd(q[i - 1]), q[i].seq)

(* What tcp_receive hands on and what it keeps out of sequence are the peer's *)
(* bytes, each once and each at its place.                                    *)
ReceiveInOrder == DeliveredInOrder /\ OoseqSane

\* Receive window: what is missing from it is what the Go side has refused.
\* Every path that takes data gives its bytes, and the FIN's number, back.
WindowConserved ==
  Live => c.rcv_wnd = TCP_WND - Len(c.refused_data) - (IF c.refused_fin THEN 1 ELSE 0)

\* The right edge of the announced window never moves to the left.
RightEdgeAdvances ==
  [][(Live /\ Live') => TCP_SEQ_GEQ(c.rcv_ann_right_edge', c.rcv_ann_right_edge)]_vars

Queued == c.unacked \o c.unsent
Purged == c.state \in {"FREED", "DEAD", "TIME_WAIT"}

\* Every byte the Go side has written and the peer has not acknowledged is in
\* exactly one queued segment, with its number, whatever was retransmitted or
\* split; snd_buf and snd_queuelen count what is queued.
SendQueueConserved ==
  ~Purged =>
     /\ \A k \in Sub(c.lastack, ISS) + (IF c.lastack = ISS THEN 1 ELSE 0) .. c.written :
           Cardinality({i \in DOMAIN Queued : k \in Range(Queued[i].data)}) = 1
     /\ \A i \in DOMAIN Queued :
           Queued[i].data = Stream(Sub(Queued[i].seq, Add(ISS, 1)), Len(Queued[i].data))
     /\ c.snd_buf + FoldLeft(LAMBDA t, s : t + Len(s.data), 0, Queued) = TCP_SND_BUF
     /\ c.snd_queuelen = FoldLeft(LAMBDA t, s : t + pbuf_clen(s), 0, Queued)

\* Something is always armed for data that has not been acknowledged: the
\* retransmission timer or, with nothing in flight, possibly the persist timer.
TimerArmed ==
  ~Purged => /\ c.unacked # << >> => c.rtime >= 0
             /\ c.unsent # << >> => c.rtime >= 0 \/ c.persist_backoff > 0

\* An acknowledgement that is owed leaves with a queued segment, or tcp_fasttmr
\* or the next tcp_output will send it: "let tcp_fasttmr retry sending this ACK"
\* (tcp_send_empty_ack).  That is so while malloc succeeds and the Go side has
\* written nothing.
AckOwed ==
  (plan.mem = {FALSE} /\ c.written = 0 /\ Live /\ c.ackOnWire # c.rcv_nxt) =>
     c.flags \cap {"ACK_DELAY", "ACK_NOW"} # {} \/ Queued # << >>

\* A pcb the Go side has closed does not stay for ever when the peer falls
\* silent: one of tcp_slowtmr's timeouts is running for it, or tcp_fasttmr will
\* try its FIN again.
OrphanEnds ==
  (Live /\ c.conn = "tcpClosed") =>
     \/ c.state = "TIME_WAIT" \/ Stuck(c)
     \/ c.rtime >= 0 \/ c.persist_backoff > 0
     \/ "CLOSEPEND" \in c.flags

(* Whatever lwIP still has to do has something that will do it: a timer for       *)
(* queued segments, a flag or a segment for an ACK, and for a pcb the Go side has *)
(* forgotten whatever frees it.                                                   *)
NothingForgotten == TimerArmed /\ AckOwed /\ OrphanEnds
=============================================================================
