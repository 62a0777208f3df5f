------------------------------- MODULE LwipIp -------------------------------
(* The way of one packet through ip_input, ip4_input and ip6_input to the    *)
(* transport protocols and of the ICMP answers it causes (ip.c, ipv4/ip4.c,  *)
(* ipv4/icmp.c, ipv6/ip6.c, ipv6/icmp6.c, udp_input of udp.c).               *)
(*                                                                           *)
(* The one interface is the loop interface: 127.0.0.1 and ::1, up, without   *)
(* NETIF_FLAG_BROADCAST.  With TUN2SOCKS it accepts every unicast packet.    *)
(* Addresses are classes: "own" is the interface's, "host" any other.        *)
(*                                                                           *)
(* What became of the packet is [frees, to, sent, off, tot, ref]: how often  *)
(* its pbuf was freed, whom it was handed to, the ICMP messages it caused,   *)
(* when a transport got it how many header bytes had been taken off the pbuf *)
(* and how many the code believes were, and whether input.go lent the bytes  *)
(* of the writer instead of copying them.                                    *)
EXTENDS Integers, Sequences, FiniteSets, SequencesExt

CONSTANT MaxExt                \* extension headers per IPv6 packet

VARIABLE ip                    \* [upcb, out]: the UDP pcb and the last packet

IP6_HLEN == 5                  \* in units of 8 bytes
New == [frees |-> 0, to |-> << >>, sent |-> << >>, off |-> 0, tot |-> 0, ref |-> FALSE]
Freed(r) == [r EXCEPT !.frees = @ + 1]
HandTo(r, who) == [r EXCEPT !.to = Append(@, who)]

\* An answer to p: about which bytes of p it is (quote is the offset of the
\* quoted bytes from the IP header), from where, to where and how it leaves.
\* Packets to the interface's own address go to the loop queue.
Output(r, p, type, src, quote) ==
  [r EXCEPT !.sent = Append(@, [type |-> type, src |-> src, dst |-> p.src, quote |-> quote,
                                about |-> p.dst, via |-> IF p.src = "own" THEN "loop" ELSE "tun"])]
-----------------------------------------------------------------------------
\* The messages about a packet.  Source addresses are left to ip4_output_if
\* (it takes the interface's) or to ip6_select_source_address, which finds
\* ::1, the loop interface's only one.
icmp_send_response(r, p, type, quote) ==
  IF p.mem THEN Output(r, p, type, "own", quote) ELSE r
icmp_dest_unreach(r, p, type, quote) == icmp_send_response(r, p, type, quote)

icmp6_send_response_with_addrs_and_netif(r, p, type, src, quote) ==
  IF p.mem THEN Output(r, p, type, src, quote) ELSE r
icmp6_send_response(r, p, type, quote) ==
  icmp6_send_response_with_addrs_and_netif(r, p, type, "own", quote)
icmp6_dest_unreach(r, p, type, quote) == icmp6_send_response(r, p, type, quote)
icmp6_param_problem(r, p, quote) == icmp6_send_response(r, p, "param", quote)

icmp_port_unreach(r, p, quote) ==
  IF p.ver = 6 THEN icmp6_dest_unreach(r, p, "port", quote)
  ELSE icmp_dest_unreach(r, p, "port", quote)

\* udp_input: the first pcb takes everything and its callback frees the pbuf;
\* without a pcb a packet is for us when it is for the interface's address.
ForUs(p, upcb) == upcb # "none" \/ p.dst = "own"
UdpDeliver(r, p, upcb) ==
  CASE upcb = "open" -> Freed(HandTo(r, "udp"))
    [] upcb = "deaf" -> Freed(r)
    [] upcb = "none" -> Freed(icmp_port_unreach(r, p, r.off - r.tot))
udp_input(r, p, upcb) ==
  IF p.short \/ ~ForUs(p, upcb) THEN Freed(r) ELSE UdpDeliver(r, p, upcb)

Broadcast(p) == p.dst = "bcast"
Multicast(p) == p.dst \in {"mcast", "allnodes", "solicited"}

\* icmp_input answers echo requests; mem says whether the copy with room for
\* the link header, or the answer, could be allocated.
icmp_input(r, p) ==
  IF p.short \/ p.type # "echo" \/ Multicast(p) \/ Broadcast(p) \/ ~p.mem THEN Freed(r)
  ELSE Freed(Output(r, p, "reply", p.dst, 0))

\* ip4_reass frees fragments with options, so the datagram it returns has a
\* header as long as the fragment's; ip4_input goes on with the fragment's.
IP_HLEN == 5                   \* in units of 4 bytes
iphdr_hlen(p) == IF p.opts THEN IP_HLEN + 1 ELSE IP_HLEN
ReassDrops(p) == p.frag = "dropped" \/ (p.frag # "whole" /\ p.opts)

\* raw_input sees the packet with its IP header, the protocols without it.
Deliver4(p, upcb, raw) ==
  LET r == [New EXCEPT !.off = iphdr_hlen(p),
                       !.tot = IF p.frag = "whole" THEN iphdr_hlen(p) ELSE IP_HLEN] IN
  IF raw = "eaten" THEN HandTo(New, "raw")
  ELSE CASE p.proto = "udp" -> udp_input(r, p, upcb)
         [] p.proto = "tcp" -> HandTo(r, "tcp")
         [] p.proto = "icmp" -> icmp_input(r, p)
         [] p.proto = "other" ->
              Freed(IF raw = "delivered" \/ Broadcast(p) \/ Multicast(p) THEN r
                    ELSE icmp_dest_unreach(r, p, "proto", 0))

\* ip4_input: version, lengths and source address are checked, fragments go
\* to ip4_reass (which frees or keeps them, or returns the whole datagram),
\* and what is left is delivered.
SourceRefused(p) == p.src \in {"bcast", "mcast"}
ip4_input(p, upcb, raw) ==
  IF p.bad \/ SourceRefused(p) \/ ReassDrops(p) THEN Freed(New)
  ELSE IF p.frag = "kept" THEN HandTo(New, "reass")
  ELSE Deliver4(p, upcb, raw)
-----------------------------------------------------------------------------
icmp6_input(r, p) ==
  IF p.short THEN Freed(r)
  ELSE IF p.type = "nd" THEN HandTo(r, "nd6")
  ELSE IF p.type = "echo" /\ ~Multicast(p) /\ p.mem THEN Freed(Output(r, p, "reply", p.dst, 0))
  ELSE Freed(r)

\* raw_input and the transports see p behind its headers; off is what was
\* really taken off, tot what hlen_tot says.
Deliver6_FreesRaw(p, upcb, raw, off, tot) ==
  LET r == [New EXCEPT !.off = off, !.tot = tot] IN
  IF raw = "eaten" THEN Freed(HandTo(r, "raw")) ELSE Freed(r)
Deliver6(p, upcb, raw, off, tot) ==
  LET r == [New EXCEPT !.off = off, !.tot = tot] IN
  IF raw = "eaten" THEN HandTo(r, "raw")
  ELSE CASE p.proto = "none" -> Freed(r)
         [] p.proto = "udp" -> udp_input(r, p, upcb)
         [] p.proto = "tcp" -> HandTo(r, "tcp")
         [] p.proto = "icmp6" -> icmp6_input(r, p)
         [] p.proto = "other" ->
              Freed(IF raw = "delivered" \/ Multicast(p) THEN r
                    ELSE icmp6_param_problem(r, p, off - tot))

\* A header that cannot be skipped: the packet is freed, with or without a
\* parameter problem, which quotes from where the pbuf's payload now is.
Reject(p, off, report) ==
  Freed(IF report THEN icmp6_param_problem(New, p, off) ELSE New)

\* Options of a hop-by-hop or a destination options header: what becomes of
\* the packet is in the two highest bits of an unknown option.
OptionRejects(h) == h.kind \in {"hbh", "dest"} /\ h.opt \in {"drop", "report", "unicast"}
OptionReports(h, p) == h.opt = "report" \/ (h.opt = "unicast" /\ ~Multicast(p))
RoutingRejects(h) == h.kind = "rout" /\ h.left /\ (h.odd \/ h.opt = "unknown")

\* The headers from the i-th on.  A complete fragment header is skipped; any
\* other goes to ip6_reass, which keeps or frees the packet or returns the
\* datagram without its fragment header, and the walk starts over at its
\* first header.
Hlen(h) == h.len
RECURSIVE Headers(_, _, _, _, _, _)
Headers(p, upcb, raw, i, off, tot) ==
  IF i > Len(p.ext) THEN Deliver6(p, upcb, raw, off, tot)
  ELSE
  LET h == p.ext[i]
      whole == [p EXCEPT !.ext = RemoveAt(@, i)]
      again == h.kind = "frag" /\ ~h.atomic
      q == IF again THEN whole ELSE p
      j == IF again THEN 1 ELSE i + 1
      o == IF again THEN IP6_HLEN ELSE off + h.len
      t == IF again THEN IP6_HLEN ELSE tot + Hlen(h)
  IN IF h.short THEN Freed(New)
     ELSE IF OptionRejects(h) THEN Reject(p, off, OptionReports(h, p))
     ELSE IF RoutingRejects(h) THEN Reject(p, off, TRUE)
     ELSE IF again /\ h.opt = "misaligned" THEN Reject(p, off, TRUE)
     ELSE IF again /\ h.opt = "kept" THEN HandTo(New, "reass")
     ELSE IF again /\ h.opt = "dropped" THEN Freed(New)
     ELSE IF j <= Len(q.ext) /\ q.ext[j].kind = "hbh" THEN Reject(q, o, TRUE)
     ELSE Headers(q, upcb, raw, j, o, t)

\* The multicast groups the interface is in; ::1 has a solicited-node group.
\* With TUN2SOCKS, ip6_input_accept takes every unicast packet.
ip6_input_accept(p) == TRUE
Accepts6(p) ==
  IF Multicast(p) THEN p.dst \in {"allnodes", "solicited"} ELSE ip6_input_accept(p)
HeaderRefused(p) == p.bad \/ p.src = "mcast"

ip6_input(p, upcb, raw) ==
  IF HeaderRefused(p) \/ (p.src = "any" /\ p.dst # "solicited") \/ ~Accepts6(p)
  THEN Freed(New)
  ELSE Headers(p, upcb, raw, 1, IP6_HLEN, IP6_HLEN)

ip_input(p, upcb, raw) ==
  IF p.ver = 6 THEN ip6_input(p, upcb, raw) ELSE ip4_input(p, upcb, raw)

\* input.go: an unfragmented IPv4 UDP packet is lent to lwIP as a PBUF_REF,
\* everything else is copied into PBUF_POOL pbufs.
moreFrags(p) == p.ver = 6 \/ p.mf
fragOffset(p) == IF p.ver = 6 THEN 1 ELSE p.offset
Lent(p) == p.proto = "udp" /\ ~(moreFrags(p) \/ fragOffset(p) > 0)
input(p, upcb, raw) == [ip_input(p, upcb, raw) EXCEPT !.ref = Lent(p)]
-----------------------------------------------------------------------------
\* The packets: bad stands for a wrong version or wrong lengths (and, in IPv6,
\* for IPv4-mapped addresses), short for a truncated transport header.
\* frag is what ip4_reass makes of a fragment, which has MF set or an offset.
Packets4 ==
  { p \in [ver : {4}, bad : BOOLEAN, opts : BOOLEAN, short : BOOLEAN, mem : BOOLEAN,
           src : {"own", "host", "bcast", "mcast"}, dst : {"own", "host", "bcast", "mcast"},
           mf : BOOLEAN, offset : {0, 1}, frag : {"whole", "kept", "dropped", "complete"},
           proto : {"udp", "tcp", "icmp", "other"}, type : {"echo", "error"}] :
      p.frag = "whole" <=> ~p.mf /\ p.offset = 0 }

Ext(kind, opts) ==
  { [kind |-> kind, opt |-> o, len |-> 1, short |-> FALSE, left |-> kind = "rout", odd |-> FALSE,
     atomic |-> o = "atomic"] : o \in opts }
Exts ==
  Ext("hbh", {"known", "drop", "report", "unicast"}) \cup Ext("dest", {"known", "unicast"})
  \cup Ext("rout", {"known", "unknown"})
  \cup { [e EXCEPT !.short = TRUE] : e \in Ext("rout", {"known"}) }
  \cup { [e EXCEPT !.odd = TRUE, !.len = 2] : e \in Ext("rout", {"known"}) }
  \cup Ext("frag", {"atomic", "misaligned", "kept", "dropped", "complete"})

\* A fragment of a datagram has its own fragment header once.
Packets6 ==
  [ver : {6}, bad : BOOLEAN, short : BOOLEAN, mem : BOOLEAN,
   src : {"own", "host", "mcast", "any"}, dst : {"own", "host", "mcast", "allnodes", "solicited"},
   ext : {<< >>}, proto : {"udp", "tcp", "icmp6", "other", "none"}, type : {"echo", "nd", "error"}]
  \cup
  [ver : {6}, bad : {FALSE}, short : {FALSE}, mem : {TRUE}, src : {"host", "any"}, dst : {"own", "solicited"},
   ext : {s \in SeqOf(Exts, MaxExt) : Cardinality({i \in DOMAIN s : s[i].kind = "frag"}) <= 1},
   proto : {"udp", "tcp", "other", "none"}, type : {"echo"}]

IpInit == ip = [upcb |-> "none", out |-> New]

\* Write; raw is what raw_input returns for the raw pcbs there are.
IpInput ==
  /\ ip.out = New
  /\ \E p \in Packets4 \cup Packets6, raw \in {"none", "delivered", "eaten"} :
       ip' = [ip EXCEPT !.out = input(p, ip.upcb, raw)]

\* It returns, and ip_data is cleared for the next packet.
IpReturn == ip.out # New /\ ip' = [ip EXCEPT !.out = New]

\* NewLWIPStack: udp_new, and later udp_recv, without the lock: packets that
\* were written to an earlier stack may come in between.  Close calls
\* udp_recv(upcb, NULL) and udp_remove under it.
UdpStack ==
  /\ ip.out = New
  /\ ip' = [ip EXCEPT !.upcb = CASE @ = "none" -> "deaf" [] @ = "deaf" -> "open" [] @ = "open" -> "none"]

IpNext == IpInput \/ IpReturn \/ UdpStack
-----------------------------------------------------------------------------
\* ip_input always returns ERR_OK, so input.go never frees: every packet is
\* freed exactly once, here or by the UDP callback, or has one new owner.
PbufHasOneEnd ==
  ip.out # New =>
    IF "udp" \in Range(ip.out.to) THEN ip.out.to = <<"udp">> /\ ip.out.frees = 1
    ELSE Len(ip.out.to) + ip.out.frees = 1

\* hlen_tot counts the headers ip6_input has taken off: raw_input is shown the
\* IP header, and "port unreachable" quotes from it.
HeadersCounted == ip.out.to # << >> \/ ip.out.sent # << >> => ip.out.off = ip.out.tot

\* A packet causes at most one answer and none goes to a group.  About a
\* packet to a group there is none but the parameter problem that an option
\* of action 2, or a bad header, asks for.
OneAnswer ==
  /\ Len(ip.out.sent) <= 1
  /\ \A m \in Range(ip.out.sent) :
       /\ m.dst \in {"own", "host", "any"}
       /\ m.about \in {"mcast", "bcast", "allnodes", "solicited"} => m.type = "param"
       /\ m.via = "loop" <=> m.dst = "own"

\* input.go: "Copying data is not necessary for unfragmented UDP packets".  The
\* writer uses its buffer again when Write returns, so nothing that was lent to
\* lwIP may stay with the reassembly queue or a TCP connection.
LentNotKept == ip.out.ref => Range(ip.out.to) \subseteq {"udp", "raw"}

(* IP input as a whole: whatever headers a packet has, its pbuf ends once, its  *)
(* headers are counted, at most one ICMP message answers it, and memory lent by *)
(* Write is not kept.                                                           *)
PacketsEndOnce == PbufHasOneEnd /\ HeadersCounted /\ OneAnswer /\ LentNotKept
=============================================================================
