----------------------------- MODULE LwipTcpIn ------------------------------
(* The receive side of lwIP's TCP (core/tcp_in.c), as operators on the       *)
(* protocol control block c, and the part of core/tcp.c it calls.            *)
(*                                                                           *)
(* An incoming segment s is a record: seq, data, syn, fin, rst, ack (is the  *)
(* ACK flag set), ackno and wnd.  A segment on the ooseq queue keeps seq,    *)
(* data, syn (never set) and fin.  The file-scope variables recv_acked,      *)
(* recv_data and recv_flags are fields of c that are empty between segments. *)
(* refused_data is the data the application has refused, with refused_fin    *)
(* for PBUF_FLAG_TCP_FIN.                                                    *)
EXTENDS LwipTcpOut

tcp_ack_now(c) == set_flags(c, {"ACK_NOW"})

\* Every second segment is acknowledged at once.
tcp_ack(c) ==
  IF "ACK_DELAY" \in c.flags THEN tcp_ack_now(clear_flags(c, {"ACK_DELAY"}))
  ELSE set_flags(c, {"ACK_DELAY"})

DataEnd(s) == Add(s.seq, Len(s.data))

\* The first n bytes of a segment, without its FIN.
Cut(s, n) == [s EXCEPT !.data = SubSeq(@, 1, n), !.fin = FALSE]

\* How much of a queue, from its head on, satisfies P.
Prefix(q, P(_)) == Max({n \in 0 .. Len(q) : \A i \in 1 .. n : P(q[i])})
After(q, n) == SubSeq(q, n + 1, Len(q))
-----------------------------------------------------------------------------
\* tcp_update_rcv_ann_wnd, and the window inflation it returns.  The window
\* grows in steps that are worth announcing and its right edge never retreats.
WorthAnnouncing(c) ==
  TCP_SEQ_GEQ(Add(c.rcv_nxt, c.rcv_wnd), Add(c.rcv_ann_right_edge, MinOf(TCP_WND \div 2, TCP_MSS)))
Inflation(c) ==
  IF WorthAnnouncing(c) THEN Sub(Add(c.rcv_nxt, c.rcv_wnd), c.rcv_ann_right_edge) ELSE 0
tcp_update_rcv_ann_wnd_Retreats(c) ==
  [c EXCEPT !.rcv_ann_wnd = IF WorthAnnouncing(c) THEN c.rcv_wnd ELSE 0]
tcp_update_rcv_ann_wnd(c) ==
  [c EXCEPT !.rcv_ann_wnd =
     CASE WorthAnnouncing(c) -> c.rcv_wnd
       [] ~WorthAnnouncing(c) /\ TCP_SEQ_GT(c.rcv_nxt, c.rcv_ann_right_edge) -> 0
       [] OTHER -> Sub(c.rcv_ann_right_edge, c.rcv_nxt)]

TCP_WND_UPDATE_THRESHOLD == MinOf(TCP_WND \div 4, 4 * TCP_MSS)

tcp_recved(c, len) ==
  LET d == tcp_update_rcv_ann_wnd([c EXCEPT !.rcv_wnd = MinOf(@ + len, TCP_WND)])
  IN IF Inflation(d) >= TCP_WND_UPDATE_THRESHOLD THEN tcp_output(tcp_ack_now(d)) ELSE d
-----------------------------------------------------------------------------
\* tcp_receive, first part: the acknowledgement.  A window update is taken
\* from a segment that is not older than the one of the last update.
UpdateWindow(c, s) ==
  IF \/ TCP_SEQ_LT(c.snd_wl1, s.seq)
     \/ c.snd_wl1 = s.seq /\ TCP_SEQ_LT(c.snd_wl2, s.ackno)
     \/ c.snd_wl2 = s.ackno /\ s.wnd > c.snd_wnd
  THEN [c EXCEPT !.snd_wnd = s.wnd, !.snd_wnd_max = MaxOf(@, s.wnd),
                 !.snd_wl1 = s.seq, !.snd_wl2 = s.ackno]
  ELSE c

\* Is s a duplicate acknowledgement?  c is the pcb before the window update.
IsDupAck(c, s) ==
  /\ TCP_TCPLEN(s) = 0
  /\ LET d == UpdateWindow(c, s)
     IN Add(d.snd_wl2, d.snd_wnd) = Add(c.snd_wl2, c.snd_wnd)
  /\ c.rtime >= 0
  /\ c.lastack = s.ackno

\* dupacks is only compared with 3: it stops at 4 (at 255 in the code).
DupAck(c) ==
  LET d == [c EXCEPT !.dupacks = MinOf(@ + 1, 4)]
  IN CASE c.dupacks < 2 -> d
       [] c.dupacks = 2 -> tcp_rexmit_fast(d)
       [] OTHER -> tcp_rexmit_fast([d EXCEPT !.cwnd = TCP_WND_INC(@, TCP_MSS)])

\* The acknowledged segments of q leave it: their pbufs and bytes are counted.
tcp_free_acked_segments(c, q, other, ackno) ==
  LET n == Prefix(q, LAMBDA s : TCP_SEQ_LEQ(SegEnd(s), ackno))
      freed == SubSeq(q, 1, n)
      clen == FoldLeft(LAMBDA t, s : t + pbuf_clen(s), 0, freed)
      left == c.snd_queuelen - clen
  IN CASE left < 0 -> Failed(c, "pcb->snd_queuelen >= pbuf_clen(next->p)")
       [] left > 0 /\ n > 0 /\ n = Len(q) /\ other = << >> ->
            Failed(c, "tcp_receive: valid queue length")
       [] OTHER ->
            [c EXCEPT !.snd_queuelen = left,
                      !.recv_acked = FoldLeft(LAMBDA t, s : t + Len(s.data), @, freed)]
Unacknowledged(q, ackno) == After(q, Prefix(q, LAMBDA s : TCP_SEQ_LEQ(SegEnd(s), ackno)))

\* Slow start below ssthresh, congestion avoidance above.
Congestion(c, acked) ==
  LET counted == TCP_WND_INC(c.bytes_acked, acked)
  IN CASE c.cwnd < c.ssthresh ->
            [c EXCEPT !.cwnd = TCP_WND_INC(@, MinOf(acked,
                                 (IF "RTO" \in c.flags THEN 1 ELSE 2) * TCP_MSS))]
       [] c.cwnd >= c.ssthresh /\ counted >= c.cwnd ->
            [c EXCEPT !.bytes_acked = counted - c.cwnd, !.cwnd = TCP_WND_INC(@, TCP_MSS)]
       [] OTHER -> [c EXCEPT !.bytes_acked = counted]

\* Has the retransmission after a timeout been acknowledged?
RtoDone(c) ==
  \/ c.unacked = << >> /\ c.unsent = << >>
  \/ c.unacked = << >> /\ c.unsent # << >> /\ TCP_SEQ_LEQ(c.rto_end, Head(c.unsent).seq)
  \/ c.unacked # << >> /\ TCP_SEQ_LEQ(c.rto_end, Head(c.unacked).seq)

\* A fast recovery ends with the acknowledgement of new data.
Recovered(c) ==
  IF "INFR" \in c.flags
  THEN [clear_flags(c, {"INFR"}) EXCEPT !.cwnd = c.ssthresh, !.bytes_acked = 0] ELSE c

FreeUnacked(c, ackno) ==
  [tcp_free_acked_segments(c, c.unacked, c.unsent, ackno)
     EXCEPT !.unacked = Unacknowledged(@, ackno)]
FreeUnsent(c, ackno) ==
  [tcp_free_acked_segments(c, c.unsent, c.unacked, ackno)
     EXCEPT !.unsent = Unacknowledged(@, ackno)]

\* With the queues freed: the timer, the spare room and the send buffer.
QueuesFreed(c) ==
  [c EXCEPT !.rtime = IF c.unacked = << >> THEN -1 ELSE 0,
            !.unsent_oversize = IF c.unsent = << >> THEN 0 ELSE @,
            !.snd_buf = @ + c.recv_acked,
            !.flags = IF RtoDone(c) THEN @ \ {"RTO"} ELSE @]

NewAck(c, s) ==
  QueuesFreed(FreeUnsent(FreeUnacked(
    Congestion([Recovered(c) EXCEPT !.nrtx = 0, !.dupacks = 0, !.lastack = s.ackno],
               Sub(s.ackno, c.lastack)),
    s.ackno), s.ackno))

\* d is the pcb after the window update, c before it.
AckWith(c, d, s) ==
  CASE TCP_SEQ_LEQ(s.ackno, c.lastack) ->
         IF IsDupAck(c, s) THEN DupAck(d) ELSE [d EXCEPT !.dupacks = 0]
    [] TCP_SEQ_BETWEEN(s.ackno, Add(c.lastack, 1), c.snd_nxt) -> NewAck(d, s)
    [] OTHER -> tcp_send_empty_ack(d)

ReceiveAck(c, s) == IF s.ack THEN AckWith(c, UpdateWindow(c, s), s) ELSE c
-----------------------------------------------------------------------------
\* The second part: the data, when it is next in sequence.
Inseg(s) == [seq |-> s.seq, data |-> s.data, syn |-> s.syn, fin |-> s.fin]

\* What reaches beyond the window is cut off, with the FIN.
TrimToWindow(c, s) ==
  IF TCP_TCPLEN(s) > c.rcv_wnd THEN Cut(s, c.rcv_wnd) ELSE s

\* Queued segments that s covers are dropped, a FIN among them moves to s, and
\* s is trimmed to the first one that is left.
MergeOoseq(s, q) ==
  LET n == Prefix(q, LAMBDA t : TCP_SEQ_GEQ(SegEnd(s), DataEnd(t)))
      t == [s EXCEPT !.fin = \E i \in 1 .. n : q[i].fin]
      rest == After(q, n)
      cut == rest # << >> /\ TCP_SEQ_GT(SegEnd(t), Head(rest).seq)
  IN IF s.fin THEN [seg |-> s, rest |-> << >>]
     ELSE [seg |-> IF cut THEN Cut(t, Sub(Head(rest).seq, t.seq)) ELSE t, rest |-> rest]

\* seg is received: the window moves and the data goes to recv_data.
Take_Overwrites(c, seg) ==
  LET n == TCP_TCPLEN(seg)
  IN tcp_update_rcv_ann_wnd(
       [c EXCEPT !.rcv_nxt = Add(@, n), !.rcv_wnd = @ - n, !.recv_data = seg.data,
                 !.recv_flags = IF seg.fin THEN @ \cup {"GOT_FIN"} ELSE @])
Take(c, seg) ==
  LET n == TCP_TCPLEN(seg)
      d == [c EXCEPT !.rcv_nxt = Add(@, n), !.rcv_wnd = @ - n,
                     !.recv_data = @ \o seg.data,
                     !.recv_flags = IF seg.fin THEN @ \cup {"GOT_FIN"} ELSE @]
  IN IF n > c.rcv_wnd THEN Failed(c, "tcp_receive: tcplen > rcv_wnd")
     ELSE tcp_update_rcv_ann_wnd(d)

\* Queued segments that are now in sequence follow it.
Dequeue(c, seg) ==
  IF c.failed # "" \/ seg.seq # c.rcv_nxt THEN c
  ELSE [Take(c, seg) EXCEPT
          !.ooseq = Tail(@),
          !.state = IF seg.fin /\ @ = "ESTABLISHED" THEN "CLOSE_WAIT" ELSE @]

TakeMerged(c, m) == FoldLeft(Dequeue, [Take(c, m.seg) EXCEPT !.ooseq = m.rest], m.rest)
ReceiveInSequence(c, s) == tcp_ack(TakeMerged(c, MergeOoseq(TrimToWindow(c, s), c.ooseq)))
-----------------------------------------------------------------------------
\* Out of sequence: cseg is linked in front of next.
tcp_oos_insert_segment(cseg, next) ==
  LET n == Prefix(next, LAMBDA t : TCP_SEQ_GEQ(DataEnd(cseg), DataEnd(t)))
      rest == After(next, n)
      fin == \E i \in 1 .. n : next[i].fin
      cut == rest # << >> /\ TCP_SEQ_GT(DataEnd(cseg), Head(rest).seq)
      seg == [cseg EXCEPT !.data = IF cut THEN SubSeq(@, 1, Sub(Head(rest).seq, cseg.seq)) ELSE @,
                          !.fin = fin]
  IN IF cseg.fin THEN <<cseg>> ELSE <<seg>> \o rest

\* prev, cut where s starts.
TrimPrev(prev, s) ==
  IF TCP_SEQ_GT(DataEnd(prev), s.seq)
  THEN [prev EXCEPT !.data = SubSeq(@, 1, Sub(s.seq, prev.seq))] ELSE prev

\* s behind the last segment of the queue, cut to the window.
AppendOoseq(c, s) ==
  LET edge == Add(c.rcv_nxt, c.rcv_wnd)
      over == TCP_SEQ_GT(SegEnd(s), edge)
  IN IF Last(c.ooseq).fin THEN c.ooseq
     ELSE Front(c.ooseq) \o <<TrimPrev(Last(c.ooseq), s),
                              IF over THEN Cut(s, Sub(edge, s.seq)) ELSE s>>

\* The queue with s in its place; of two that start together the longer stays.
EnqueueOoseq(c, s) ==
  LET q == c.ooseq
      k == Prefix(q, LAMBDA t : TCP_SEQ_LT(t.seq, s.seq))
      same == k < Len(q) /\ q[k + 1].seq = s.seq
  IN CASE q = << >> -> <<s>>
       [] same /\ Len(s.data) <= Len(q[k + 1].data) -> q
       [] same /\ Len(s.data) > Len(q[k + 1].data) ->
            SubSeq(q, 1, k) \o tcp_oos_insert_segment(s, After(q, k))
       [] q # << >> /\ ~same /\ k = 0 -> tcp_oos_insert_segment(s, q)
       [] ~same /\ 0 < k /\ k < Len(q) ->
            SubSeq(q, 1, k - 1) \o <<TrimPrev(q[k], s)>> \o tcp_oos_insert_segment(s, After(q, k))
       [] OTHER -> AppendOoseq(c, s)

ReceiveOutOfSequence(c, s) ==
  tcp_send_empty_ack(IF c.nomem THEN c ELSE [c EXCEPT !.ooseq = EnqueueOoseq(c, s)])

InWindow(c, seq, n) == TCP_SEQ_BETWEEN(seq, c.rcv_nxt, Add(c.rcv_nxt, n))

ReceiveData(c, s) ==
  LET old == TCP_SEQ_BETWEEN(c.rcv_nxt, Add(s.seq, 1), Add(s.seq, TCP_TCPLEN(s) - 1))
      off == Sub(c.rcv_nxt, s.seq)
      seg == IF old THEN [Inseg(s) EXCEPT !.seq = c.rcv_nxt, !.data = After(@, off)] ELSE Inseg(s)
      d == IF ~old /\ TCP_SEQ_LT(s.seq, c.rcv_nxt) THEN tcp_ack_now(c) ELSE c
  IN IF TCP_TCPLEN(s) = 0 \/ c.state \notin {"ESTABLISHED", "FIN_WAIT_1", "FIN_WAIT_2"}
     THEN IF InWindow(c, s.seq, c.rcv_wnd - 1) THEN c ELSE tcp_ack_now(c)
     ELSE IF ~InWindow(c, seg.seq, c.rcv_wnd - 1) THEN tcp_send_empty_ack(d)
     ELSE IF seg.seq = c.rcv_nxt THEN ReceiveInSequence(d, seg)
     ELSE ReceiveOutOfSequence(d, seg)

Unfailed(c, Op(_)) == IF c.failed # "" THEN c ELSE Op(c)
tcp_receive(c, s) == Unfailed(ReceiveAck(c, s), LAMBDA d : ReceiveData(d, s))
=============================================================================
