------------------------------ MODULE LwipDemux -------------------------------
(* Between IP and the pcbs (tcp_in.c, udp.c, tcp_out.c): how tcp_input takes  *)
(* a TCP header with its options apart when the segment is a chain of pbufs,  *)
(* which pcb a segment goes to, the segments lwIP sends without one, and how  *)
(* UDP datagrams come in and go out. In this build (TUN2SOCKS) one listening  *)
(* TCP pcb and one UDP pcb, opened by NewLWIPStack, take what is addressed to *)
(* any host.                                                                  *)
EXTENDS Integers, Sequences, FiniteSets, SequencesExt

CONSTANTS
  DmConns,     \* connections: pairs of a client's and a server's address and port
  DmOptions,   \* the TCP options tried, each the bytes of one option
  DmMss        \* TCP_MSS

ASSUME DemuxAssumption == DmMss \in Nat \ {0}

VARIABLE dm
\* dm.active  tcp_active_pcbs, dm.tw  tcp_tw_pcbs: sequences of connections
\* dm.listen  whether a pcb listens
\* dm.out     the last segment or datagram sent without one of those lists
\* dm.refs    pbufs left behind: references to the application's, lwIP's own
\* dm.hdr     the segment whose header is looked at

-------------------------------------------------------------------------------
(* The header. A segment is TCP_HLEN bytes, the options (a multiple of four)  *)
(* and data; its pbufs have the lengths lens. Header is what is left: whether *)
(* it is dropped, where the options are, and the lengths behind the header.   *)
TCP_HLEN == 20
Total(lens) == FoldLeft(LAMBDA a, b : a + b, 0, lens)

SplitHeader(optlen, lens) ==
  LET opt1 == lens[1] - TCP_HLEN
      opt2 == optlen - opt1
  IN  [drop |-> opt2 > lens[2],             \* the options go on in a third pbuf
       opt1len |-> opt1,
       lens |-> [lens EXCEPT ![1] = 0, ![2] = @ - opt2],
       tot |-> Total(lens) - TCP_HLEN - opt1 - opt2]

Header(optlen, lens) ==
  LET hdrlen == TCP_HLEN + optlen IN
  CASE lens[1] < TCP_HLEN \/ hdrlen > Total(lens) ->
         [drop |-> TRUE, opt1len |-> 0, lens |-> lens, tot |-> Total(lens)]
    [] lens[1] >= hdrlen ->
         [drop |-> FALSE, opt1len |-> optlen, lens |-> [lens EXCEPT ![1] = @ - hdrlen],
          tot |-> Total(lens) - hdrlen]
    [] OTHER -> SplitHeader(optlen, lens)

(* tcp_get_next_optbyte: byte i (from 0) of the options, in the first pbuf or *)
(* from the beginning of the second. bytes are the bytes of the segment       *)
(* behind TCP_HLEN: what follows the options is data.                         *)
tcp_get_next_optbyte(opt1len, first, second, i) ==
  IF i < opt1len \/ second = <<>> THEN first[i + 1] ELSE second[i - opt1len + 1]

(* One turn of the loop of tcp_parseopt: o.i is tcp_optidx, o.mss pcb->mss.   *)

OptStep(Byte(_), optlen, o) ==
  LET op == Byte(o.i)
      len == Byte(o.i + 1)
      mss == 256 * Byte(o.i + 2) + Byte(o.i + 3)
      stop == [o EXCEPT !.i = optlen]
  IN
  CASE o.i >= optlen -> o
    [] o.i < optlen /\ op = 0 -> stop                              \* LWIP_TCP_OPT_EOL
    [] o.i < optlen /\ op = 1 -> [o EXCEPT !.i = @ + 1]            \* LWIP_TCP_OPT_NOP
    [] o.i < optlen /\ op = 2 ->                                   \* LWIP_TCP_OPT_MSS
         IF len # 4 \/ o.i + 4 > optlen THEN stop
         ELSE [i |-> o.i + 4, mss |-> IF mss > DmMss \/ mss = 0 THEN DmMss ELSE mss]
    [] OTHER -> IF len < 2 THEN stop ELSE [o EXCEPT !.i = @ + len]

tcp_parseopt(opt1len, first, second, optlen, mss) ==
  FoldLeft(LAMBDA o, k : OptStep(LAMBDA i : tcp_get_next_optbyte(opt1len, first, second, i), optlen, o),
           [i |-> 0, mss |-> mss], [k \in 1 .. optlen |-> k]).mss

(* The bytes of a list of options, filled up to a multiple of four. *)
OptBytes(opts) ==
  LET b == FlattenSeq(opts) IN b \o [i \in 1 .. (4 - (Len(b) % 4)) % 4 |-> 0]

HeaderArrives ==
  \E n \in 0 .. 2 : \E opts \in [1 .. n -> DmOptions], data \in {0, 3} :
    LET all == TCP_HLEN + Len(OptBytes(opts)) + data IN
    \E cut \in {0} \cup TCP_HLEN .. all, third \in 0 .. 2 :
      /\ third <= all - cut
      /\ cut = 0 => third = 0
      /\ dm' = [dm EXCEPT !.hdr = [opts |-> opts, data |-> data,
                  lens |-> IF cut = 0 THEN <<all>>
                           ELSE <<cut, all - cut - third>>
                                \o (IF third > 0 THEN <<third>> ELSE <<>>)]]

-------------------------------------------------------------------------------
(* Which pcb. The first match of the active list, then of the list of TIME-   *)
(* WAIT pcbs, then the listening one, whatever it is bound to.                *)
Matching(list, c) == {i \in DOMAIN list : list[i] = c}
FirstMatch(list, c) == CHOOSE i \in Matching(list, c) : \A j \in Matching(list, c) : i <= j
ToFront(list, i) == <<list[i]>> \o RemoveAt(list, i)

(* tcp_output_control_segment and its callers (tcp_rst, tcp_send_empty_ack):  *)
(* a pbuf for the header, which is freed whether or not there is a route. env *)
(* says what fails: [mem, route].                                             *)
NoOut == [kind |-> "none"]

Control(d, kind, c, env) ==
  IF env.mem /\ env.route THEN [d EXCEPT !.out = [kind |-> kind, conn |-> c]] ELSE d

tcp_rst(d, c, env) == Control(d, "RST", c, env)

(* tcp_timewait_input; a SYN may lie in the receive window. *)
TimewaitInput(d, c, seg, env) ==
  CASE seg = "RST" -> d
    [] seg = "SYN" /\ env.window -> tcp_rst(d, c, env)
    [] seg = "ACK" -> d
    [] OTHER -> Control(d, "ACK", c, env)

(* tcp_listen_input: a SYN makes a pcb unless memory or the backlog is        *)
(* exhausted.                                                                 *)
DmListenInput(d, c, seg, env) ==
  CASE seg = "SYN" /\ env.accepts -> [d EXCEPT !.active = <<c>> \o @]
    [] seg \in {"ACK", "DATA"} -> tcp_rst(d, c, env)
    [] OTHER -> d

(* tcp_process and what follows it, as far as the lists see it: the pcb comes *)
(* to the front, and it may be moved to the TIME-WAIT list or freed.          *)
ActiveInput(d, i, fate) ==
  LET f == ToFront(d.active, i) IN
  CASE fate = "stays" -> [d EXCEPT !.active = f]
    [] fate = "time-wait" -> [d EXCEPT !.active = Tail(f), !.tw = <<Head(f)>> \o @]
    [] OTHER -> [d EXCEPT !.active = Tail(f)]

Demux(d, c, seg, env) ==
  LET a == Matching(d.active, c) # {}
      t == Matching(d.tw, c) # {}
  IN
  CASE a -> ActiveInput(d, FirstMatch(d.active, c), env.fate)
    [] ~a /\ t -> TimewaitInput(d, c, seg, env)
    [] ~a /\ ~t /\ d.listen -> DmListenInput(d, c, seg, env)
    [] OTHER -> IF seg = "RST" THEN d ELSE tcp_rst(d, c, env)

TcpArrives ==
  \E c \in DmConns, seg \in {"SYN", "ACK", "DATA", "RST"} :
    \E env \in [fate : {"stays", "time-wait", "freed"}, accepts : BOOLEAN, window : BOOLEAN,
                mem : BOOLEAN, route : BOOLEAN] :
      dm' = Demux([dm EXCEPT !.out = NoOut], c, seg, env)

(* The slow timer frees a TIME-WAIT pcb; the application closes the listener. *)
TwExpires == \E i \in DOMAIN dm.tw : dm' = [dm EXCEPT !.tw = RemoveAt(@, i), !.out = NoOut]
ListenerCloses == dm.listen /\ dm' = [dm EXCEPT !.listen = FALSE, !.out = NoOut]

-------------------------------------------------------------------------------
(* UDP output. The application's pbuf has its one reference; where the header *)
(* does not fit in front of its data, it is chained behind a new pbuf, which  *)
(* is freed when ip_output has returned.                                      *)
UdpOutput(d, c, len, env) ==
  [d EXCEPT !.out = IF env.sent THEN [kind |-> "UDP", conn |-> c, len |-> len + 8] ELSE NoOut]

udp_sendto_if_src_chksum_KeepsHeader(d, c, len, env) ==
  CASE env.headroom -> UdpOutput(d, c, len, env)
    [] ~env.headroom /\ ~env.mem -> d
    [] OTHER -> [UdpOutput(d, c, len, env) EXCEPT
                   !.refs = [app |-> @.app + (IF len # 0 THEN 1 ELSE 0), own |-> @.own + 1]]

udp_sendto_if_src_chksum(d, c, len, env) ==
  CASE env.headroom -> UdpOutput(d, c, len, env)
    [] ~env.headroom /\ ~env.mem -> d                                  \* ERR_MEM
    [] OTHER ->
         LET chained == [d EXCEPT !.refs = [app |-> @.app + (IF len # 0 THEN 1 ELSE 0),
                                            own |-> @.own + 1]]
             Freed(e) == [e EXCEPT !.refs = [app |-> @.app - (IF len # 0 THEN 1 ELSE 0),
                                             own |-> @.own - 1]]
         IN  Freed(UdpOutput(chained, c, len, env))

(* udp_sendto_if_chksum: the source address is the caller's in this build, so *)
(* that none has to be found.                                                 *)
udp_sendto_if(d, c, len, env) == udp_sendto_if_src_chksum(d, c, len, env)

(* udp_sendto_chksum: without a route nothing happens to the pbuf. *)
udp_sendto(d, c, len, env) ==
  IF env.route THEN udp_sendto_if(d, c, len, env) ELSE d           \* ERR_RTE

(* The caller allocates the pbuf, sends it and frees its reference. *)
UdpSends ==
  \E c \in DmConns, len \in {0, 3} :
    \E env \in [headroom : BOOLEAN, mem : BOOLEAN, route : BOOLEAN, sent : BOOLEAN] :
      LET d == udp_sendto([dm EXCEPT !.refs.app = @ + 1, !.out = NoOut], c, len, env) IN
      dm' = [d EXCEPT !.refs.app = @ - 1]

-------------------------------------------------------------------------------
NoHeader == [opts |-> <<>>, data |-> 0, lens |-> <<TCP_HLEN>>]

DemuxInit == dm = [active |-> <<>>, tw |-> <<>>, listen |-> TRUE, out |-> NoOut,
                   refs |-> [app |-> 0, own |-> 0], hdr |-> NoHeader]

DemuxIdle == dm.active = <<>> /\ dm.tw = <<>> /\ dm.listen /\ dm.out = NoOut
DemuxNext ==
  /\ dm.hdr = NoHeader
  /\ \/ DemuxIdle /\ HeaderArrives
     \/ TcpArrives \/ TwExpires \/ ListenerCloses \/ UdpSends

(* However a segment is cut into pbufs, tcp_input drops it or leaves exactly  *)
(* its data: the total lengths agree with the pbufs, as its assertions say,   *)
(* and the header is dropped only when its options go into a third pbuf.      *)
PayloadKept ==
  LET optlen == Len(OptBytes(dm.hdr.opts))
      h == Header(optlen, dm.hdr.lens)
  IN  /\ h.drop => Len(dm.hdr.lens) = 3 /\ dm.hdr.lens[1] + dm.hdr.lens[2] < TCP_HLEN + optlen
      /\ ~h.drop => h.tot = dm.hdr.data /\ Total(h.lens) = dm.hdr.data

(* The segment size taken from the options is that of the last MSS option in  *)
(* front of the end of the list, whatever pbufs its bytes are in.             *)
OptionsRead ==
  LET opts == dm.hdr.opts
      bytes == OptBytes(opts)
      all == bytes \o [i \in 1 .. dm.hdr.data |-> 77]
      h == Header(Len(bytes), dm.hdr.lens)
      first == SubSeq(all, 1, dm.hdr.lens[1] - TCP_HLEN)
      second == SubSeq(all, Len(first) + 1, Len(all))
      Ends(o) == o[1] = 0 \/ (o[1] # 1 /\ o[2] < 2)
      read == {i \in DOMAIN opts : \A j \in 1 .. i : ~Ends(opts[j])}
      sizes == {i \in read : opts[i][1] = 2}
      Size(o) == LET m == 256 * o[3] + o[4] IN IF m = 0 \/ m > DmMss THEN DmMss ELSE m
      last == CHOOSE i \in sizes : \A j \in sizes : j <= i
  IN  ~h.drop =>
        tcp_parseopt(h.opt1len, IF h.opt1len = Len(bytes) THEN all ELSE first,
                     IF h.opt1len = Len(bytes) THEN <<>> ELSE second, Len(bytes), 0)
          = IF sizes = {} THEN 0 ELSE Size(opts[last])

(* A connection has one pcb: the lists of active and TIME-WAIT pcbs never     *)
(* hold the same connection twice, so that a segment has one place to go to.  *)
OneConnOnePcb == LET all == dm.active \o dm.tw IN \A i, j \in DOMAIN all : all[i] = all[j] => i = j

(* No call leaves a pbuf behind, whatever fails on the way: the application's *)
(* datagram has the reference it came with, and lwIP frees its own.           *)
PbufsReturned == dm.refs = [app |-> 0, own |-> 0]

(* From the segment's pbufs to its pcb and from a datagram to its pbufs: bytes, *)
(* options, the pcb and the references are the right ones.                      *)
DemuxSound == PayloadKept /\ OptionsRead /\ OneConnOnePcb /\ PbufsReturned
===============================================================================
