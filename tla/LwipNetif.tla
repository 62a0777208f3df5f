------------------------------ MODULE LwipNetif ------------------------------
(* Network interfaces: netif.c, and the way a datagram takes through an      *)
(* interface: the route, the source address, the IP header and the loopback  *)
(* queue (ip4.c, ip6.c, udp.c and raw.c below the pcbs).                     *)
(*                                                                           *)
(* A behaviour is about one of: the list and the numbers of interfaces, the  *)
(* addresses of one interface and the connections that use them, the         *)
(* loopback queue, or what one call to send makes of a datagram.             *)
EXTENDS Integers, Sequences, FiniteSets

CONSTANTS NetifIds,         \* the interfaces there can be: 1 .. n
          NetifNums,        \* how many numbers there are for interfaces (255)
          NetifAddrs,       \* IPv4 addresses
          NetifAddrs6,      \* IPv6 addresses
          NUM_ADDRESSES,    \* LWIP_IPV6_NUM_ADDRESSES
          LoopPackets,      \* bound on the packets that are looped back
          LenSpace,         \* a length is a number modulo LenSpace
          UdpHlen, IpHlen, Ip6Hlen,  \* the lengths of headers
          NetifMtu,         \* the MTU that lwip.go sets
          LinkMtus,         \* the MTUs that routers announce
          PathMtus          \* the MTUs that Packet Too Big messages report

VARIABLE nt

ASSUME NetifAssumption ==
  /\ NetifNums \in Nat \ {0} /\ Cardinality(NetifIds) <= NetifNums
  /\ {NUM_ADDRESSES, LoopPackets, LenSpace, UdpHlen, IpHlen, Ip6Hlen, NetifMtu} \subseteq Nat \ {0}
  /\ LinkMtus \cup PathMtus \subseteq Nat

NoAddr == "none"
Slots6 == 1 .. NUM_ADDRESSES
NetifFlags == [up |-> FALSE, link |-> FALSE]
Unset6 == [a |-> NoAddr, st |-> "INVALID"]
Valid6(st) == st \in {"PREFERRED", "DEPRECATED"}
Unseen == <<NoAddr, NoAddr, NoAddr>>
Listed(s) == {s.list[k] : k \in DOMAIN s.list}
-----------------------------------------------------------------------------
\* The number of a new interface: the next one that no listed interface has.
\* 0 is the number after the last.
FreeNum(s) ==
  LET Nth(k) == (s.next + k) % NetifNums
      free == {k \in 0 .. NetifNums - 1 : \A i \in Listed(s) : s.num[i] # Nth(k)}
  IN Nth(CHOOSE k \in free : \A j \in free : k <= j)

\* Connections of an address end when it goes; those are all that are told apart.
netif_do_ip_addr_changed(s, old, new) == [s EXCEPT !.conns = @ \ {old}]

\* The status callback comes with every change of the address, and sees the mask
\* and the gateway of that moment.
netif_do_set_ipaddr(s, a) ==
  IF a = s.a4 THEN s
  ELSE [netif_do_ip_addr_changed(s, s.a4, a) EXCEPT !.a4 = a, !.seen = <<a, s.nm, s.gw>>]
netif_do_set_netmask(s, nm) == [s EXCEPT !.nm = nm]
netif_do_set_gw(s, gw) == [s EXCEPT !.gw = gw]

\* The calls that set one of them; what the callback sees is then up to the caller.
netif_set_ipaddr(s, a) == [netif_do_set_ipaddr(s, a) EXCEPT !.seen = Unseen]
netif_set_netmask(s, nm) == [netif_do_set_netmask(s, nm) EXCEPT !.seen = Unseen]
netif_set_gw(s, gw) == [netif_do_set_gw(s, gw) EXCEPT !.seen = Unseen]

\* An address that goes, goes first; one that comes, comes last.
netif_set_addr(s, a, nm, gw) ==
  LET t == IF a = NoAddr THEN netif_do_set_ipaddr(s, a) ELSE s
      u == netif_do_set_gw(netif_do_set_netmask(t, nm), gw)
  IN IF a = NoAddr THEN u ELSE netif_do_set_ipaddr(u, a)

\* ok: the driver's init function succeeds.
netif_add(s, i, c, ok) ==
  LET reset == [s EXCEPT !.a4 = NoAddr, !.nm = NoAddr, !.gw = NoAddr, !.a6 = [k \in Slots6 |-> Unset6], !.flags = NetifFlags,
                         !.q = <<>>, !.last = 0]
      t == netif_set_addr(reset, c[1], c[2], c[3])
      num == FreeNum(s)
  IN IF ~ok THEN t
     ELSE [t EXCEPT !.num[i] = num, !.next = (num + 1) % NetifNums, !.list = <<i>> \o @]

netif_set_default(s, i) == [s EXCEPT !.dflt = i]
netif_set_down(s) == [s EXCEPT !.flags.up = FALSE]
Ip6Changed(s, K) == [s EXCEPT !.conns = @ \ {s.a6[k].a : k \in {j \in K : Valid6(s.a6[j].st)}}]
netif_remove(s, i) ==
  LET t == netif_set_down(Ip6Changed(netif_do_ip_addr_changed(s, s.a4, NoAddr), Slots6))
      u == IF s.dflt = i THEN netif_set_default(t, 0) ELSE t
  IN [u EXCEPT !.list = SelectSeq(@, LAMBDA j : j # i)]

netif_set_up(s) == [s EXCEPT !.flags.up = TRUE]
netif_set_link_up(s) == [s EXCEPT !.flags.link = TRUE]
netif_set_link_down(s) == [s EXCEPT !.flags.link = FALSE]

netif_get_by_index(s, idx) == {i \in Listed(s) : s.num[i] + 1 = idx}
-----------------------------------------------------------------------------
\* IPv6 addresses of the interface.
netif_ip6_addr_set_state_Silent(s, k, st) == [s EXCEPT !.a6[k].st = st]
netif_ip6_addr_set_state(s, k, st) ==
  LET t == IF Valid6(s.a6[k].st) /\ ~Valid6(st) THEN netif_do_ip_addr_changed(s, s.a6[k].a, NoAddr) ELSE s
  IN [t EXCEPT !.a6[k].st = st]
netif_ip6_addr_set_parts(s, k, a) ==
  LET t == IF Valid6(s.a6[k].st) THEN netif_do_ip_addr_changed(s, s.a6[k].a, a) ELSE s
  IN IF a = s.a6[k].a THEN s ELSE [t EXCEPT !.a6[k].a = a]
netif_get_ip6_addr_match(s, a) == {k \in Slots6 : s.a6[k].st # "INVALID" /\ s.a6[k].a = a}
netif_create_ip6_linklocal_address(s, a) ==
  netif_ip6_addr_set_state([s EXCEPT !.a6[1].a = a], 1, "TENTATIVE")
\* Slot 1 is for link-local addresses.
netif_add_ip6_address(s, a) ==
  LET free == {k \in Slots6 \ {1} : s.a6[k].st = "INVALID"}
      k == CHOOSE j \in free : \A l \in free : j <= l
  IN IF netif_get_ip6_addr_match(s, a) # {} \/ free = {} THEN s
     ELSE netif_ip6_addr_set_state([s EXCEPT !.a6[k].a = a], k, "TENTATIVE")
-----------------------------------------------------------------------------
\* The loopback queue: the pbufs in one chain, and the last of them.
netif_loop_output(s, p) == [s EXCEPT !.q = Append(@, p), !.last = p]
\* One turn of the loop of netif_poll, before ip_input gets the packet.
netif_poll_turn(s) ==
  [s EXCEPT !.q = IF Head(@) = s.last THEN <<>> ELSE Tail(@), !.last = IF Head(s.q) = @ THEN 0 ELSE @,
            !.got = Append(@, Head(s.q))]
-----------------------------------------------------------------------------
\* The source address for a destination of scope dest: cands is a sequence of
\* candidates [scope, pref, net, host]; net: it has the prefix of the destination,
\* host: it is the destination.  The result is an index, 0 if there is none.
Better(c, b, dest) ==
  \/ c.scope < b.scope /\ c.scope >= dest
  \/ c.scope > b.scope /\ b.scope < dest
  \/ c.scope = b.scope /\ ((c.pref /\ ~b.pref) \/ (c.pref = b.pref /\ c.net /\ ~b.net))
ip6_select_source_address(cands, dest) ==
  LET best[n \in 0 .. Len(cands)] ==
        IF n = 0 THEN 0
        ELSE LET b == best[n - 1] IN
             IF b # 0 /\ cands[b].net /\ cands[b].host THEN b
             ELSE IF cands[n].net /\ cands[n].host THEN n
             ELSE IF b = 0 \/ Better(cands[n], cands[b], dest) THEN n ELSE b
  IN best[Len(cands)]

\* ip4_route and ip6_route in this build: the first interface.
ip_route(s) == IF s.list = <<>> THEN 0 ELSE s.list[1]

\* A buffer of tot bytes with room in front of it gets a header, unless tot wraps.
AddHeader(b, h) == [b EXCEPT !.tot = (@ + h) % LenSpace, !.true = @ + h, !.bad = (b.tot + h) % LenSpace < h]

RawHlen(v6) == IF v6 THEN Ip6Hlen ELSE IpHlen

\* IPv6 keeps an MTU of its own for the interface, which a router may lower, and
\* one for each destination: here for the one that the datagrams are sent to.
RaMtu(s, mtu) == [s EXCEPT !.mtu6 = IF s.mtu # 0 /\ s.mtu < mtu THEN s.mtu ELSE mtu]
InputPTB(s, pmtu) == [s EXCEPT !.pmtu = pmtu]
nd6_get_destination_mtu(s) == IF s.pmtu > 0 THEN s.pmtu ELSE s.mtu6

\* own: the destination is an address of the interface, so that the packet is
\* looped back.  Neither protocol sends more than its MTU in one packet; an MTU
\* of 0 is none.
ip4_output_if_src(b, own, mtu) ==
  LET p == AddHeader(b, IpHlen)
  IN CASE p.bad -> [b EXCEPT !.end = "ERR_BUF"]
       [] ~p.bad /\ own -> [p EXCEPT !.end = "loop"]
       [] ~p.bad /\ ~own /\ mtu # 0 /\ p.tot > mtu -> [p EXCEPT !.end = "frag"]
       [] OTHER -> [p EXCEPT !.end = "out"]
ip6_output_if_src(s, b, own) ==
  LET p == AddHeader(b, Ip6Hlen)
  IN CASE p.bad -> [b EXCEPT !.end = "ERR_BUF"]
       [] ~p.bad /\ own -> [p EXCEPT !.end = "loop"]
       [] ~p.bad /\ ~own /\ s.mtu6 # 0 /\ p.tot > nd6_get_destination_mtu(s) -> [p EXCEPT !.end = "frag"]
       [] OTHER -> [p EXCEPT !.end = "out"]
ip_output_if_src(s, b, c) ==
  IF c.v6 THEN ip6_output_if_src(s, b, c.own) ELSE ip4_output_if_src(b, c.own, s.mtu)

\* An unspecified IPv6 source is replaced.
ip6_output_if(s, b, c) ==
  IF c.anysrc /\ ip6_select_source_address(c.cands, 14) = 0 THEN [b EXCEPT !.end = "ERR_RTE"]
  ELSE ip6_output_if_src(s, b, c.own)
ip_output_if(s, b, c) == IF c.v6 THEN ip6_output_if(s, b, c) ELSE ip4_output_if_src(b, c.own, s.mtu)

\* A datagram with no room for the UDP header (a reference) gets a buffer for it
\* chained in front, if there is memory: the lengths are the same.
udp_sendto_if_src_chksum(s, b, c) ==
  CASE (b.tot + UdpHlen) % LenSpace < b.tot \/ (~c.room /\ ~c.mem) -> [b EXCEPT !.end = "ERR_MEM"]
    [] OTHER -> ip_output_if_src(s, AddHeader(b, UdpHlen), c)
udp_sendto_chksum(s, b, c) ==
  IF ip_route(s) = 0 THEN [b EXCEPT !.end = "ERR_RTE"] ELSE udp_sendto_if_src_chksum(s, b, c)

\* RAW: the room for the IP header is tried out first.
raw_sendto_if_src(s, b, c) ==
  CASE (b.tot + RawHlen(c.v6)) % LenSpace < b.tot \/ (~c.room /\ ~c.mem) -> [b EXCEPT !.end = "ERR_MEM"]
    [] OTHER -> ip_output_if(s, b, c)
raw_sendto(s, b, c) ==
  IF ip_route(s) = 0 \/ (c.anysrc /\ c.v6 /\ ip6_select_source_address(c.cands, 14) = 0)
  THEN [b EXCEPT !.end = "ERR_RTE"]
  ELSE raw_sendto_if_src(s, b, [c EXCEPT !.anysrc = FALSE])
-----------------------------------------------------------------------------
\* netif_init adds the loop interface and lwip.go sets its MTU: mtu6 keeps the
\* value it got in netif_add.
NetifInit ==
  nt \in [plan : {"list", "addr", "cfg", "loop", "send"}, list : {<<>>}, num : {[i \in NetifIds |-> 0]}, next : {0},
          dflt : {0}, flags : {NetifFlags}, a4 : {NoAddr}, nm : {NoAddr}, gw : {NoAddr}, seen : {Unseen}, a6 : {[k \in Slots6 |-> Unset6]}, conns : {{}},
          q : {<<>>}, last : {0}, sent : {0}, got : {<<>>}, mtu : {NetifMtu}, mtu6 : {0}, pmtu : {0},
          out : {[end |-> "none"]}]

\* Configurations callers set: an address, its mask and its gateway.
NetifConfigs == {Unseen} \cup {<<a, m, a>> : a \in NetifAddrs, m \in {"wide", "narrow"}}

NtAdd ==
  \E i \in NetifIds, c \in NetifConfigs, ok \in BOOLEAN :
    /\ \/ nt.plan = "list" /\ i \notin Listed(nt) /\ c = Unseen
       \/ nt.plan \in {"addr", "cfg"} /\ Listed(nt) = {} /\ i = 1 /\ (nt.plan = "addr" => c = Unseen)
    /\ nt' = netif_add(nt, i, c, ok)
NtConfigure ==
  /\ nt.plan = "cfg" /\ Listed(nt) # {}
  /\ \/ \E c \in NetifConfigs : nt' = netif_set_addr(nt, c[1], c[2], c[3])
     \/ \E c \in NetifConfigs :
          nt' \in {netif_set_ipaddr(nt, c[1]), netif_set_netmask(nt, c[2]), netif_set_gw(nt, c[3])}
NtRemove ==
  nt.plan \in {"list", "addr", "cfg"} /\ \E i \in Listed(nt) : nt' = netif_remove(nt, i)
NtDefault == nt.plan = "list" /\ \E i \in Listed(nt) \cup {0} : nt' = netif_set_default(nt, i)
Configured == nt.plan = "addr" /\ Listed(nt) # {}
NtFlags ==
  Configured /\ nt' \in {netif_set_up(nt), netif_set_down(nt), netif_set_link_up(nt), netif_set_link_down(nt)}
NtAddr == Configured /\ \E a \in {NoAddr} \cup NetifAddrs : nt' = netif_set_ipaddr(nt, a)
NtAddr6 ==
  /\ Configured
  /\ \/ \E a \in NetifAddrs6 : nt' = netif_add_ip6_address(nt, a)
     \/ \E k \in Slots6, a \in NetifAddrs6 : nt' = netif_ip6_addr_set_parts(nt, k, a)
     \/ ~Valid6(nt.a6[1].st) /\ \E a \in NetifAddrs6 : nt' = netif_create_ip6_linklocal_address(nt, a)
     \/ \E k \in Slots6, st \in {"INVALID", "TENTATIVE", "PREFERRED", "DEPRECATED"} :
          nt.a6[k].a # NoAddr /\ nt' = netif_ip6_addr_set_state(nt, k, st)
Addrs(s) == ({s.a4} \cup {s.a6[k].a : k \in {j \in Slots6 : Valid6(s.a6[j].st)}}) \ {NoAddr}
NtConnect == Configured /\ nt.flags.up /\ \E a \in Addrs(nt) : nt' = [nt EXCEPT !.conns = @ \cup {a}]

\* A packet for the interface itself; one comes as well from ip_input during a poll.
NtLoop ==
  /\ nt.plan = "loop" /\ nt.sent < LoopPackets
  /\ nt' = [netif_loop_output(nt, nt.sent + 1) EXCEPT !.sent = @ + 1]
NtPoll == nt.plan = "loop" /\ nt.q # <<>> /\ nt' = netif_poll_turn(nt)

Cand == [scope : {2, 8, 14}, pref : BOOLEAN, net : BOOLEAN, host : {FALSE}]
        \cup [scope : {14}, pref : {TRUE}, net : {TRUE}, host : {TRUE}]
Cands == UNION {[1 .. n -> Cand] : n \in 0 .. NUM_ADDRESSES}
Datagram(len) == [tot |-> len, true |-> len, bad |-> FALSE, end |-> "none"]
NtSend ==
  /\ nt.plan = "send" /\ nt.out.end = "none"
  /\ \E len \in 0 .. LenSpace - 1, v6, own, anysrc, some, room, mem, routed \in BOOLEAN :
       LET cands == IF some THEN <<[scope |-> 14, pref |-> TRUE, net |-> FALSE, host |-> FALSE]>> ELSE <<>>
           c == [v6 |-> v6, own |-> own, anysrc |-> anysrc, cands |-> cands, room |-> room, mem |-> mem]
           s == [nt EXCEPT !.list = IF routed THEN <<1>> ELSE <<>>]
           b == Datagram(len)
       IN \E o \in {udp_sendto_chksum(s, b, c), raw_sendto(s, b, c), raw_sendto_if_src(s, b, c)} :
            nt' = [nt EXCEPT !.out = [end |-> o.end, v6 |-> v6, tot |-> o.tot, true |-> o.true]]
\* A router announces an MTU for the link, or one on the way reports that a packet
\* is too big.
NtMtu ==
  /\ nt.plan = "send" /\ nt.out.end = "none"
  /\ \/ \E mtu \in LinkMtus : nt' = RaMtu(nt, mtu)
     \/ \E pmtu \in PathMtus : nt' = InputPTB(nt, pmtu)
NtSelect ==
  /\ nt.plan = "send" /\ nt.out.end = "none"
  /\ \E cands \in Cands, dest \in {2, 8, 14} :
       nt' = [nt EXCEPT !.out = [end |-> "source", cands |-> cands, dest |-> dest,
                                 best |-> ip6_select_source_address(cands, dest)]]

NetifNext ==
  \/ NtAdd \/ NtConfigure \/ NtRemove \/ NtDefault \/ NtFlags \/ NtAddr \/ NtAddr6 \/ NtConnect \/ NtLoop \/ NtPoll
  \/ NtSend \/ NtMtu \/ NtSelect

NetifSpec == NetifInit /\ [][NetifNext]_nt
-----------------------------------------------------------------------------
\* The numbers of interfaces in use are different and in range, also when they
\* wrapped, so that an index names one interface and none has NETIF_NO_INDEX.
\* The default interface is one of the list or none: netif_remove leaves no
\* pointer to the interface it removes.
NetifsNamed ==
  /\ \A idx \in 0 .. NetifNums + 1 : Cardinality(netif_get_by_index(nt, idx)) <= 1
  /\ \A i \in Listed(nt) : nt.num[i] < NetifNums
  /\ nt.dflt # 0 => nt.dflt \in Listed(nt)

\* A connection's local address is one that its interface has and may use: every
\* way to take an address away, or to change it, ends the connections of it.
ConnectionsAddressed == nt.conns \subseteq IF Listed(nt) = {} THEN {} ELSE Addrs(nt)

\* The status callback of netif_set_addr never sees the new address with the mask
\* or the gateway of the old one, whatever single fields were set before.
ConfigSeenWhole == nt.seen[1] # NoAddr => nt.seen \in NetifConfigs

\* Packets sent to the interface itself are received once and in order; what is
\* not received yet waits in the queue.
LoopInOrder == nt.got \o nt.q = [k \in 1 .. nt.sent |-> k]

\* A datagram that is sent has the length its headers say: a length that does not
\* fit its field is refused.  A packet given to the driver fits the MTU of the
\* interface, an IPv6 packet from the moment a router announced one, and then also
\* the last MTU that was reported for its path.
LengthsFit ==
  nt.out.end \in {"loop", "frag", "out"} =>
    /\ nt.out.tot = nt.out.true
    /\ nt.out.end = "out" /\ ~nt.out.v6 => nt.out.true <= nt.mtu
    /\ nt.out.end = "out" /\ nt.out.v6 /\ nt.mtu6 # 0 =>
         nt.out.true <= IF nt.pmtu # 0 THEN nt.pmtu ELSE nt.mtu

\* The source address is the best by the rules of RFC 6724 that
\* ip6_select_source_address names: the destination itself, then the smallest scope
\* that reaches it or else the largest, then a preferred one, then the same prefix.
SourceIsBest ==
  nt.out.end = "source" =>
    LET o == nt.out
        Rank(c) == << IF c.host THEN 1 ELSE 0, IF c.scope >= o.dest THEN 20 - c.scope ELSE c.scope - 20,
                      IF c.pref THEN 1 ELSE 0, IF c.net THEN 1 ELSE 0 >>
        Above(r, t) == \E k \in 1 .. 4 : r[k] > t[k] /\ \A j \in 1 .. k - 1 : r[j] = t[j]
    IN /\ o.best = 0 <=> o.cands = <<>>
       /\ \A k \in DOMAIN o.cands : ~Above(Rank(o.cands[k]), Rank(o.cands[o.best]))

(* The interfaces: names and indexes, the configuration that callbacks see,       *)
(* connections of lost addresses, the loop queue, lengths and MTUs on output, and *)
(* the chosen source address.                                                     *)
NetifSound == NetifsNamed /\ ConfigSeenWhole /\ ConnectionsAddressed /\ LoopInOrder /\ LengthsFit /\ SourceIsBest

\* lwip.go sets the MTU of the interface ("Set MTU.") and every packet given to
\* the driver fits it, of either protocol.
MtuRespected == nt.out.end = "out" => nt.out.true <= nt.mtu
=============================================================================
