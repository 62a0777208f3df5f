------------------------------ MODULE LwipSack ------------------------------
(* Selective acknowledgement in core/tcp_in.c and tcp_out.c: rcv_sacks, the    *)
(* ranges of the ooseq queue that are announced with an ACK, and the limits of *)
(* that queue.  This build has LWIP_TCP_SACK_OUT and both limits switched off; *)
(* here they are on, over the receive side of LwipTcpIn.                       *)
(*                                                                             *)
(* rcv_sacks is an array of <<left, right>>, and <<0, 0>> where it is unused.  *)
(* The peer sends the bytes 1 .. SackWnd + 1, cut anyhow, and the application  *)
(* reads none of them: the window is what bounds a behaviour.                  *)
EXTENDS LwipTcpIn

CONSTANTS LWIP_TCP_MAX_SACK_NUM,   \* ranges that a pcb remembers
          SackWnd,                 \* its receive window
          SackIrs,                 \* sequence number of the first byte
          OoseqLimits,             \* TCP_OOSEQ_BYTES_LIMIT and TCP_OOSEQ_PBUFS_LIMIT
          SackSegs,                \* bytes of a segment
          TCP_MAX_OPTION_BYTES     \* room for options in a header, 40 in the code

VARIABLE sk   \* the pcb, with rcv_sacks, its limits, and ghosts: did an allocation fail, and the byte that came last

LWIP_TCP_SACK_VALID(r) == r[1] # r[2]
Unused == <<0, 0>>
NoSacks == [i \in 1 .. LWIP_TCP_MAX_SACK_NUM |-> Unused]
\* The entries up to the first that is not valid, and an array that starts with q.
ValidSacks(c) == SubSeq(c.rcv_sacks, 1, Prefix(c.rcv_sacks, LWIP_TCP_SACK_VALID))
SackArray(q) == [i \in 1 .. LWIP_TCP_MAX_SACK_NUM |-> IF i <= Len(q) THEN q[i] ELSE Unused]

tcp_add_sack(c, left, right) ==
  LET Apart(r) == TCP_SEQ_LEQ(r[2], left) \/ TCP_SEQ_LEQ(right, r[1])
  IN IF ~TCP_SEQ_LT(left, right) THEN c
     ELSE [c EXCEPT !.rcv_sacks = SackArray(<<<<left, right>>>> \o SelectSeq(ValidSacks(c), Apart))]

\* Nothing below seq is announced any more, or nothing from it on.
tcp_remove_sacks_lt(c, seq) ==
  LET Stays(r) == TCP_SEQ_GT(r[2], seq)
      From(r) == <<IF TCP_SEQ_LT(r[1], seq) THEN seq ELSE r[1], r[2]>>
      left == SelectSeq(ValidSacks(c), Stays)
  IN [c EXCEPT !.rcv_sacks = SackArray([i \in DOMAIN left |-> From(left[i])])]
tcp_remove_sacks_gt(c, seq) ==
  LET Stays(r) == TCP_SEQ_LT(r[1], seq)
      UpTo(r) == <<r[1], IF TCP_SEQ_GT(r[2], seq) THEN seq ELSE r[2]>>
      left == SelectSeq(ValidSacks(c), Stays)
  IN [c EXCEPT !.rcv_sacks = SackArray([i \in DOMAIN left |-> UpTo(left[i])])]

\* In a header with optlen bytes of other options.
tcp_get_num_sacks(c, optlen) ==
  Cardinality({i \in 1 .. Len(ValidSacks(c)) : optlen + 12 + 8 * (i - 1) <= TCP_MAX_OPTION_BYTES})
tcp_build_sack_option(c, num_sacks) == SubSeq(c.rcv_sacks, 1, num_sacks)

tcp_free_ooseq(c) == IF c.ooseq = << >> THEN c ELSE [c EXCEPT !.ooseq = << >>, !.rcv_sacks = NoSacks]
-----------------------------------------------------------------------------
\* tcp_receive with data in sequence: what was dequeued is not announced again.
SackInSequence(c, s) ==
  LET d == TakeMerged(c, MergeOoseq(TrimToWindow(c, s), c.ooseq))
  IN IF d.ooseq # << >> THEN tcp_remove_sacks_lt(d, Head(d.ooseq).seq)
     ELSE [d EXCEPT !.rcv_sacks = NoSacks]

\* Where the range around a new segment begins: k segments of the queue q lie
\* in front of it, and a hole between two of them moves it on.
SackBeg(q, k, s) ==
  LET holes == {j \in 2 .. k : DataEnd(q[j - 1]) # q[j].seq}
  IN IF holes # {} THEN q[Max(holes)].seq
     ELSE IF TCP_SEQ_LT(s.seq, Head(q).seq) THEN s.seq ELSE Head(q).seq
\* The end of the data that follows q[n] without a hole.
SackEnd(q, n) ==
  DataEnd(q[Max({m \in n .. Len(q) : \A j \in n + 1 .. m : DataEnd(q[j - 1]) = q[j].seq})])

\* The range of the queue after the new segment was put into it, or was not.
SackQueued(c, old, s) ==
  LET q == c.ooseq
      k == Prefix(old, LAMBDA t : TCP_SEQ_LT(t.seq, s.seq))
      hole == k > 0 /\ DataEnd(q[k]) # q[k + 1].seq
  IN IF k = Len(q) THEN c
     ELSE tcp_add_sack(c, IF hole THEN q[k + 1].seq ELSE SackBeg(old, k, s), SackEnd(q, k + 1))

\* What is above a limit is thrown away, with everything behind it.
Within(q, limit, n) ==
  n <= limit.pbufs /\ FoldLeft(LAMBDA t, s : t + Len(s.data), 0, SubSeq(q, 1, n)) <= limit.bytes
LimitOoseq(c) ==
  LET n == Max({m \in 0 .. Len(c.ooseq) : \A j \in 1 .. m : Within(c.ooseq, c.limit, j)})
  IN IF n = Len(c.ooseq) THEN c
     ELSE [tcp_remove_sacks_gt(c, c.ooseq[n + 1].seq) EXCEPT !.ooseq = SubSeq(@, 1, n)]

SackOutOfSequence(c, s) ==
  LET d == [c EXCEPT !.ooseq = IF c.nomem THEN @ ELSE EnqueueOoseq(c, s)]
  IN LimitOoseq(IF c.ooseq = << >> THEN [d EXCEPT !.rcv_sacks[1] = <<s.seq, DataEnd(s)>>] ELSE SackQueued(d, c.ooseq, s))
-----------------------------------------------------------------------------
SackInit ==
  \E limit \in OoseqLimits :
    sk = [rcv_nxt |-> SackIrs, rcv_wnd |-> SackWnd, rcv_ann_wnd |-> SackWnd, rcv_ann_right_edge |-> Add(SackIrs, SackWnd),
          ooseq |-> << >>, recv_data |-> << >>, recv_flags |-> {}, state |-> "ESTABLISHED", failed |-> "", nomem |-> FALSE,
          rcv_sacks |-> NoSacks, limit |-> limit, short |-> FALSE, newest |-> 0]

\* A segment of the peer: bytes i + 1 .. i + n of its stream, at their place.
PeerSegment(i, n, fin) ==
  [seq |-> Add(SackIrs, i), data |-> [j \in 1 .. n |-> i + j], syn |-> FALSE, fin |-> fin]

\* tcp_receive, for a segment in the window of which what was there before is
\* cut off already.
SackReceive ==
  \E i \in 0 .. SackWnd, n \in SackSegs, fin, nomem \in BOOLEAN :
    LET s == PeerSegment(i, n, fin)
        c == [sk EXCEPT !.nomem = nomem]
        d == IF s.seq = c.rcv_nxt THEN SackInSequence(c, s) ELSE SackOutOfSequence(c, s)
    IN /\ sk.state = "ESTABLISHED" /\ sk.rcv_wnd > 0
       /\ i + n <= SackWnd + 1 /\ (fin => i + n = SackWnd + 1) /\ TCP_TCPLEN(s) > 0
       /\ InWindow(sk, s.seq, sk.rcv_wnd - 1)
       /\ sk' = [d EXCEPT !.nomem = FALSE, !.short = @ \/ (nomem /\ s.seq # sk.rcv_nxt), !.newest = i + 1]

\* The pool of pbufs is empty (pbuf_free_ooseq).
SackFree == sk.ooseq # << >> /\ sk' = [tcp_free_ooseq(sk) EXCEPT !.newest = 0]

SackNext == SackReceive \/ SackFree
-----------------------------------------------------------------------------
Offset(seq) == Sub(seq, SackIrs)
BytesOf(r) == Offset(r[1]) + 1 .. Offset(r[2])
OoseqBytes == UNION {ToSet(t.data) : t \in ToSet(sk.ooseq)}

InLastSegment == LET t == Last(sk.ooseq) IN t.fin /\ sk.newest > Offset(t.seq) + 1

(* tcp_receive announces with rcv_sacks only what it has: every byte of a      *)
(* range is on the ooseq queue, however segments overlapped, were merged,      *)
(* taken or thrown away above a limit; what is already acknowledged is not     *)
(* announced.  Where an allocation failed a range may be of a segment that is  *)
(* not there.                                                                  *)
SacksHonest ==
  \A i \in 1 .. Len(ValidSacks(sk)) :
    LET r == sk.rcv_sacks[i]
    IN (~sk.short => BytesOf(r) \subseteq OoseqBytes) /\ TCP_SEQ_LT(r[1], r[2]) /\ TCP_SEQ_GT(r[1], sk.rcv_nxt)

(* The ranges of tcp_add_sack are disjoint and stand together at the front of  *)
(* the array, and the first is about the segment that came last when its data  *)
(* was kept, unless it lies in the last segment of the stream, where           *)
(* tcp_receive stops looking.                                                  *)
SacksInOrder ==
  LET v == ValidSacks(sk)
  IN /\ \A i \in 1 .. LWIP_TCP_MAX_SACK_NUM : LWIP_TCP_SACK_VALID(sk.rcv_sacks[i]) <=> i <= Len(v)
     /\ \A i, j \in DOMAIN v : i # j => BytesOf(v[i]) \cap BytesOf(v[j]) = {}
     /\ ~sk.short /\ sk.newest \in OoseqBytes /\ ~InLastSegment => v # << >> /\ sk.newest \in BytesOf(v[1])

(* The option that tcp_build_sack_option writes into an ACK, with its padding  *)
(* and header, has room beside optlen bytes of others, and it leaves nothing   *)
(* out that would fit.                                                         *)
SackOptionFits ==
  \A optlen \in {0, 12} :
    LET n == Len(tcp_build_sack_option(sk, tcp_get_num_sacks(sk, optlen)))
    IN /\ n > 0 => optlen + 4 + 8 * n <= TCP_MAX_OPTION_BYTES
       /\ n < Len(ValidSacks(sk)) => optlen + 4 + 8 * (n + 1) > TCP_MAX_OPTION_BYTES

(* What SACK adds to a receiver is right.                                      *)
SackSound == SacksHonest /\ SacksInOrder /\ SackOptionFits
=============================================================================
