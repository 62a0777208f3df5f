----------------------------- MODULE LwipTcpOut -----------------------------
(* The send side of lwIP's TCP (core/tcp_out.c): operators that take the     *)
(* protocol control block c and return it as the function leaves it.         *)
(*                                                                           *)
(* A segment on a queue is a record: seq, data (the bytes, each named by its *)
(* place in the stream), syn, fin, bufs (the bytes in each pbuf of its       *)
(* chain) and oversize_left.  The flags of the pcb are a set.  c.inp stands  *)
(* for tcp_input_pcb == pcb, c.nomem for a step in which every allocation    *)
(* fails.  The ghost c.ackOnWire is the last acknowledgement sent.           *)
EXTENDS Integers, Sequences, SequencesExt

CONSTANTS SeqSpace,          \* 2^32: sequence numbers are 0 .. SeqSpace - 1
          TCP_MSS,           \* maximum segment size, also the peer's
          TCP_WND,           \* receive window
          TCP_SND_BUF,       \* send buffer in bytes
          TCP_SND_QUEUELEN,  \* pbufs the send queues may hold
          TCPWND_MAX,        \* largest value of a tcpwnd_size_t
          TCP_MAXRTX         \* retransmissions and probes before giving up

ASSUME SeqSpaceAssumption == SeqSpace \in Nat /\ SeqSpace > 0 /\ SeqSpace % 2 = 0

ASSUME TcpSizes ==
  /\ {TCP_MSS, TCP_WND, TCP_SND_BUF, TCP_SND_QUEUELEN, TCPWND_MAX, TCP_MAXRTX}
       \subseteq Nat \ {0}
  /\ TCP_WND <= TCPWND_MAX /\ TCP_SND_BUF <= TCPWND_MAX /\ 2 * TCPWND_MAX < SeqSpace

-----------------------------------------------------------------------------
\* Sequence numbers are unsigned and wrap; they are compared by the sign of
\* their difference.
\* (u32_t)(a + n) and (u32_t)(a - b).
Add(a, n) == (a + n) % SeqSpace
Sub(a, b) == (a - b) % SeqSpace

\* (s32_t)((u32_t)a - (u32_t)b).
Diff(a, b) == IF 2 * Sub(a, b) >= SeqSpace THEN Sub(a, b) - SeqSpace ELSE Sub(a, b)

TCP_SEQ_LT(a, b)  == Diff(a, b) < 0
TCP_SEQ_LEQ(a, b) == Diff(a, b) <= 0
TCP_SEQ_GT(a, b)  == Diff(a, b) > 0
TCP_SEQ_GEQ(a, b) == Diff(a, b) >= 0

TCP_SEQ_BETWEEN(a, b, c) == TCP_SEQ_GEQ(a, b) /\ TCP_SEQ_LEQ(a, c)
-----------------------------------------------------------------------------
MinOf(a, b) == IF a <= b THEN a ELSE b
MaxOf(a, b) == IF a >= b THEN a ELSE b

set_flags(c, F)   == [c EXCEPT !.flags = @ \cup F]
clear_flags(c, F) == [c EXCEPT !.flags = @ \ F]

\* A failed LWIP_ASSERT calls abort(): the process ends in this state.
Failed(c, what) == [c EXCEPT !.state = "ASSERT", !.failed = what]

pbuf_clen(s) == Len(s.bufs)

\* pbuf_realloc: the chain cut to its first n bytes.
Realloc(bufs, n) ==
  LET total(k) == FoldLeft(+, 0, SubSeq(bufs, 1, k))
      k == Min({j \in DOMAIN bufs : total(j) >= n})
  IN SubSeq(bufs, 1, k - 1) \o <<n - total(k - 1)>>

TCP_TCPLEN(s) == Len(s.data) + (IF s.syn \/ s.fin THEN 1 ELSE 0)
SegEnd(s) == Add(s.seq, TCP_TCPLEN(s))

\* TCP_WND_INC: a saturating addition.
TCP_WND_INC(wnd, inc) == MinOf(wnd + inc, TCPWND_MAX)

\* Every segment that leaves carries rcv_nxt and the announced window.
Announce(c) ==
  [c EXCEPT !.rcv_ann_right_edge = Add(c.rcv_nxt, c.rcv_ann_wnd),
            !.ackOnWire = c.rcv_nxt]

tcp_send_empty_ack(c) ==
  IF c.nomem THEN set_flags(c, {"ACK_DELAY", "ACK_NOW"})
  ELSE clear_flags(Announce(c), {"ACK_DELAY", "ACK_NOW"})

\* Does s fit into wnd?  The subtraction is unsigned.
Fits(c, s, wnd) == (s.seq - c.lastack + Len(s.data)) % SeqSpace <= wnd

\* The Nagle test of the i-th unsent segment, when those before it have left.
tcp_do_output_nagle(c, i) ==
  \/ i = 1 /\ c.unacked = << >>
  \/ "INFR" \in c.flags
  \/ i < Len(c.unsent)
  \/ Len(c.unsent[i].data) >= TCP_MSS
  \/ c.snd_buf = 0
  \/ c.snd_queuelen >= TCP_SND_QUEUELEN

\* How many unsent segments one tcp_output sends.
Sendable(c, wnd) ==
  Max({n \in 0 .. Len(c.unsent) : \A i \in 1 .. n :
         /\ Fits(c, c.unsent[i], wnd)
         /\ tcp_do_output_nagle(c, i) \/ c.flags \cap {"NAGLEMEMERR", "FIN"} # {}})

\* Before the first segment of q that does not lie below s.
InsertSorted(q, s) ==
  LET k == Len(SelectSeq(q, LAMBDA t : TCP_SEQ_LT(t.seq, s.seq)))
  IN SubSeq(q, 1, k) \o <<s>> \o SubSeq(q, k + 1, Len(q))

\* The unacked list: at its tail, or further up after a fast retransmit.
Unacked(q, s) ==
  IF q # << >> /\ TCP_SEQ_LT(s.seq, Last(q).seq) THEN InsertSorted(q, s)
  ELSE Append(q, s)

\* What sending a segment leaves in the pcb: the peer has the newest ackno and
\* window, and the retransmission timer runs.
tcp_output_segment(c) == [Announce(c) EXCEPT !.rtime = MaxOf(@, 0)]

\* tcp_output's loop over the n segments that may leave.
SendSegments(c, n) ==
  LET sent == [i \in 1 .. n |-> [c.unsent[i] EXCEPT !.oversize_left = 0]]
      rest == SubSeq(c.unsent, n + 1, Len(c.unsent))
      top(nxt, s) == IF TCP_SEQ_LT(nxt, SegEnd(s)) THEN SegEnd(s) ELSE nxt
      d == [c EXCEPT !.unsent = rest,
                     !.unacked = FoldLeft(Unacked, @, sent),
                     !.snd_nxt = FoldLeft(top, @, sent),
                     !.persist_backoff = 0,
                     !.unsent_oversize = IF rest = << >> THEN 0 ELSE @]
  IN IF n = 0 THEN d ELSE clear_flags(tcp_output_segment(d), {"ACK_DELAY", "ACK_NOW"})

tcp_output_NoPersist(c) ==
  LET wnd == MinOf(c.snd_wnd, c.cwnd)
      ackOr(d) == IF "ACK_NOW" \in d.flags THEN tcp_send_empty_ack(d)
                  ELSE clear_flags(d, {"NAGLEMEMERR"})
  IN IF c.inp THEN c
     ELSE IF c.unsent = << >> \/ ~Fits(c, Head(c.unsent), wnd) THEN ackOr(c)
     ELSE clear_flags(SendSegments(c, Sendable(c, wnd)), {"NAGLEMEMERR"})
tcp_output(c) ==
  LET wnd == MinOf(c.snd_wnd, c.cwnd)
      ackOr(d) == IF "ACK_NOW" \in d.flags THEN tcp_send_empty_ack(d)
                  ELSE clear_flags(d, {"NAGLEMEMERR"})
      persist == [c EXCEPT !.persist_backoff = 1, !.persist_probe = 0]
  IN CASE c.inp -> c
       [] ~c.inp /\ c.unsent = << >> -> ackOr(c)
       [] ~c.inp /\ c.unsent # << >> /\ ~Fits(c, Head(c.unsent), wnd) ->
            ackOr(IF wnd = c.snd_wnd /\ c.unacked = << >> /\ c.persist_backoff = 0
                  THEN persist ELSE c)
       [] OTHER -> clear_flags(SendSegments(c, Sendable(c, wnd)), {"NAGLEMEMERR"})
-----------------------------------------------------------------------------
Segment(seq, data, syn, fin, over) ==
  [seq |-> seq, data |-> data, syn |-> syn, fin |-> fin, bufs |-> <<Len(data)>>,
   oversize_left |-> over]

\* tcp_enqueue_flags for SYN or FIN; not called when memory is short.
tcp_enqueue_flags(c, syn, fin) ==
  [c EXCEPT !.unsent = Append(@, Segment(c.snd_lbb, << >>, syn, fin, 0)),
            !.unsent_oversize = 0,
            !.snd_lbb = Add(@, 1),
            !.flags = IF fin THEN @ \cup {"FIN"} ELSE @,
            !.snd_queuelen = @ + 1]

FinOnLast(c) == c.unsent # << >> /\ ~Last(c.unsent).syn /\ ~Last(c.unsent).fin

\* tcp_send_fin; its error is ERR_MEM of tcp_enqueue_flags.
SendFinFails(c) == ~FinOnLast(c) /\ c.nomem
tcp_send_fin(c) ==
  IF FinOnLast(c)
  THEN set_flags([c EXCEPT !.unsent = Front(@) \o <<[Last(@) EXCEPT !.fin = TRUE]>>], {"FIN"})
  ELSE tcp_enqueue_flags(c, FALSE, TRUE)
-----------------------------------------------------------------------------
\* tcp_write with TCP_WRITE_FLAG_COPY.  Segments are at most half the largest
\* window ever announced by the peer.
mss_local(c) ==
  LET m == MinOf(TCP_MSS, c.snd_wnd_max \div 2) IN IF m = 0 THEN TCP_MSS ELSE m

\* tcp_pbuf_prealloc: the spare room of a pbuf of len bytes, at most max.
Oversize(c, len, max, first) ==
  IF len < max /\ (~first \/ c.unsent # << >> \/ c.unacked # << >>) THEN max - len ELSE 0

\* Phase 3: data cut into new segments of at most m bytes, from seq on.
NewSegments(c, seq, data, m) ==
  LET n == (Len(data) + m - 1) \div m
      piece(i) == SubSeq(data, (i - 1) * m + 1, MinOf(i * m, Len(data)))
  IN [i \in 1 .. n |->
        Segment(Add(seq, (i - 1) * m), piece(i), FALSE, FALSE,
                Oversize(c, Len(piece(i)), m, i = 1))]

\* Phases 1 and 2: what goes into the room behind the last unsent segment, as
\* [used, more]: bytes into its spare room, and bytes into a pbuf chained to it.
Room(c, len) ==
  IF c.unsent = << >> THEN [used |-> 0, more |-> 0]
  ELSE LET last == Last(c.unsent)
           space == mss_local(c) - Len(last.data)
           used == MinOf(space, MinOf(c.unsent_oversize, len))
       IN [used |-> used,
           more |-> IF used < len /\ space > used /\ last.data # << >>
                    THEN MinOf(space - used, len - used) ELSE 0]

\* The asserts at the top of tcp_write.
WriteAssert(c) ==
  IF c.unsent = << >> THEN IF c.unsent_oversize = 0 THEN "" ELSE "unsent_oversize mismatch"
  ELSE LET last == Last(c.unsent) IN
       CASE mss_local(c) < Len(last.data) -> "mss_local is too small"
         [] c.unsent_oversize # last.oversize_left -> "unsent_oversize mismatch"
         [] c.unsent_oversize > mss_local(c) - Len(last.data) -> "inconsistent oversize vs. space"
         [] OTHER -> ""

\* The last unsent segment s, m at most, with data put into its room.
Grown(s, data, m, room) ==
  LET pos == room.used + room.more
      tail == Front(s.bufs) \o <<Last(s.bufs) + room.used>>
  IN [s EXCEPT !.data = @ \o SubSeq(data, 1, pos),
               !.bufs = IF room.more > 0 THEN Append(tail, room.more) ELSE tail,
               !.oversize_left = IF room.more > 0 THEN @ - room.used + m - Len(s.data) - pos
                                 ELSE @ - room.used]

\* data goes into room and the new segments of queue, or nowhere with ERR_MEM.
WriteInto(c, data, room, queue) ==
  LET queuelen == c.snd_queuelen + Len(queue) + (IF room.more > 0 THEN 1 ELSE 0)
      unsent == IF c.unsent = << >> THEN queue
                ELSE Front(c.unsent) \o <<Grown(Last(c.unsent), data, mss_local(c), room)>> \o queue
  IN IF \/ queue # << >> /\ queuelen > TCP_SND_QUEUELEN
        \/ c.nomem /\ room.used < Len(data) THEN set_flags(c, {"NAGLEMEMERR"})
     ELSE [c EXCEPT !.unsent = unsent,
                    !.unsent_oversize = Last(unsent).oversize_left,
                    !.snd_lbb = Add(@, Len(data)),
                    !.snd_buf = @ - Len(data),
                    !.snd_queuelen = queuelen]
WriteBehind(c, data, room) ==
  LET pos == room.used + room.more
  IN WriteInto(c, data, room,
       NewSegments(c, Add(c.snd_lbb, pos), SubSeq(data, pos + 1, Len(data)), mss_local(c)))

tcp_write(c, data) ==
  CASE c.snd_queuelen >= TCP_SND_QUEUELEN -> set_flags(c, {"NAGLEMEMERR"})
    [] c.snd_queuelen < TCP_SND_QUEUELEN /\ WriteAssert(c) # "" -> Failed(c, WriteAssert(c))
    [] OTHER -> WriteBehind(c, data, Room(c, Len(data)))
-----------------------------------------------------------------------------
\* tcp_split_unsent_seg: the head keeps split bytes, a new segment the rest.
\* TCPH_SET_FLAG only adds flags, so a FIN of the head stays on the head.
SplitFails(c, split) ==
  c.unsent = << >> \/ (c.nomem /\ Len(Head(c.unsent).data) > split)
tcp_split_unsent_seg(c, split) ==
  LET u == Head(c.unsent)
      rest == Segment(Add(u.seq, split), SubSeq(u.data, split + 1, Len(u.data)), FALSE, u.fin, 0)
      head == [u EXCEPT !.data = SubSeq(@, 1, split), !.bufs = Realloc(@, split),
                        !.oversize_left = 0]
  IN IF Len(u.data) <= split THEN c
     ELSE [c EXCEPT !.unsent = <<head, rest>> \o Tail(@),
                    !.unsent_oversize = IF Len(c.unsent) = 1 THEN 0 ELSE @,
                    !.snd_queuelen = @ - pbuf_clen(u) + pbuf_clen(head) + 1]

\* Requeue everything in flight for retransmission.
tcp_rexmit_rto_prepare(c) ==
  [c EXCEPT !.unsent = c.unacked \o @,
            !.unacked = << >>,
            !.unsent_oversize = IF c.unsent = << >> THEN Last(c.unacked).oversize_left ELSE @,
            !.flags = @ \cup {"RTO"},
            !.rto_end = SegEnd(Last(c.unacked))]

\* Only the comparison with TCP_MAXRTX looks at the counters: they stop there.
Count(n) == MinOf(n + 1, TCP_MAXRTX)

tcp_rexmit_rto_commit(c) == tcp_output([c EXCEPT !.nrtx = Count(@)])

\* Requeue the first segment in flight.
tcp_rexmit_Copies(c) ==
  LET q == InsertSorted(c.unsent, Head(c.unacked))
  IN IF c.unacked = << >> THEN c
     ELSE [c EXCEPT !.unsent = q, !.nrtx = Count(@),
                    !.unsent_oversize = IF Len(q) = 1 THEN 0 ELSE @]
tcp_rexmit(c) ==
  LET s == Head(c.unacked)
      q == InsertSorted(c.unsent, s)
  IN IF c.unacked = << >> THEN c
     ELSE [c EXCEPT !.unacked = Tail(@), !.unsent = q, !.nrtx = Count(@),
                    !.unsent_oversize = IF Last(q) = s THEN 0 ELSE @]

HalfWindow(c) == MaxOf(MinOf(c.cwnd, c.snd_wnd) \div 2, 2 * TCP_MSS)

tcp_rexmit_fast(c) ==
  IF c.unacked = << >> \/ "INFR" \in c.flags THEN c
  ELSE [tcp_rexmit(c) EXCEPT !.ssthresh = HalfWindow(c),
                             !.cwnd = HalfWindow(c) + 3 * TCP_MSS,
                             !.flags = @ \cup {"INFR"},
                             !.rtime = 0]

\* One byte, or the FIN, of the unsent head, whatever the window says.
tcp_zero_window_probe(c) ==
  IF c.unsent = << >> THEN c
  ELSE LET d == [c EXCEPT !.persist_probe = Count(@)]
           nxt == Add(Head(c.unsent).seq, 1)
       IN IF c.nomem THEN d
          ELSE [Announce(d) EXCEPT !.snd_nxt = IF TCP_SEQ_LT(@, nxt) THEN nxt ELSE @]
=============================================================================
