------------------------------ MODULE MCLwipTcp -----------------------------
(* The connection of LwipTcp on small streams; and selective acknowledgement,  *)
(* of which a behaviour shows one connection instead, in the plan "sack".      *)
EXTENDS LwipTcp, LwipSack

VARIABLE focus

Plan ==
  [rx |-> 0, eof |-> FALSE, tx |-> 0, wnds |-> {4}, shrinks |-> FALSE, mem |-> {FALSE},
   resets |-> FALSE, aborts |-> FALSE]

\* The peer fills the window: reordering, overlaps, refusals.
RxPlan == [Plan EXCEPT !.rx = 4]
\* The same with a FIN, in order or not.
EofPlan == [Plan EXCEPT !.rx = 2, !.eof = TRUE]
\* The Go side sends: segmentation, retransmission, zero windows and probes.
TxPlan == [Plan EXCEPT !.tx = 3, !.wnds = {0, 1, 4}]
\* A little of both, with resets and aborts; and the peer's end of stream.
EndPlans == {[Plan EXCEPT !.rx = 1, !.tx = 1, !.resets = TRUE, !.aborts = TRUE],
             [Plan EXCEPT !.rx = 1, !.eof = TRUE, !.resets = TRUE, !.aborts = TRUE]}
\* Allocations fail, on the receiving and on the sending side.
MemPlans == {[Plan EXCEPT !.rx = 1, !.eof = TRUE, !.mem = BOOLEAN],
             [Plan EXCEPT !.tx = 2, !.mem = BOOLEAN]}

AllPlans == {RxPlan, EofPlan, TxPlan} \union EndPlans \union MemPlans
\* Limits of the ooseq queue: none, in bytes, in pbufs.
NoLimit == 99
OoseqPlans == {[bytes |-> NoLimit, pbufs |-> NoLimit], [bytes |-> 3, pbufs |-> NoLimit], [bytes |-> NoLimit, pbufs |-> 2]}

MCInit ==
  /\ focus \in {"tcp", "sack"} /\ Init /\ SackInit
  /\ focus = "tcp" \/ plan = RxPlan
  /\ focus = "sack" \/ sk.limit.bytes = sk.limit.pbufs
MCNext ==
  \/ focus = "tcp" /\ Next /\ UNCHANGED <<focus, sk>>
  \/ focus = "sack" /\ SackNext /\ UNCHANGED <<focus, vars>>
MCSpec == MCInit /\ [][MCNext]_<<focus, vars, sk>>

(* What a receiver has and what it says it has: the stream reaches the Go side *)
(* in order, and selective acknowledgements name only what is queued.          *)
ReceptionSound == ReceiveInOrder /\ SackSound
=============================================================================
