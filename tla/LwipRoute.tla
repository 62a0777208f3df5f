------------------------------ MODULE LwipRoute ------------------------------
(* Routing, and forwarding between interfaces (ip4.c, ip6.c).  This build has  *)
(* one interface and takes the first of the list (ip_route of LwipNetif): here *)
(* is what the same functions do when built without TUN2SOCKS and with         *)
(* IP_FORWARD and LWIP_IPV6_FORWARD, LWIP_NETIF_LOOPBACK being off as it is    *)
(* here, between interfaces that have no loopback address.                     *)
(*                                                                             *)
(* An address is <<what, i>>: "own" and "net" are the address of interface i   *)
(* and another of its subnet, "gw" its gateway outside the subnet, "subnet"    *)
(* the broadcast address of it, and "linklocal" the IPv6 address it gave       *)
(* itself; i = 0 for those of no interface.                                    *)
EXTENDS Integers, FiniteSets

CONSTANTS RtNums,          \* how many interfaces there may be, at most 2
          RtByte           \* values of a byte of the IPv4 header

ASSUME RtAssumption == RtNums \subseteq 1 .. 2 /\ RtByte \in Nat \ {0, 1, 2}

VARIABLE rt   \* [ver, nif, dflt, mdflt, onlink, router, out]; 0 where there is no interface

Ifs(s) == DOMAIN s.nif
FirstIf(S) == IF S = {} THEN 0 ELSE CHOOSE i \in S : \A j \in S : i <= j
Live(s, i) == s.nif[i].up /\ s.nif[i].link
-----------------------------------------------------------------------------
\* IPv4.  The address of an interface is set or 0.0.0.0; bcast is its flag,
\* which the driver sets.
SameNet(d, i) == d[2] = i /\ d[1] \in {"own", "net", "subnet"}
Usable(s, i) == Live(s, i) /\ s.nif[i].addr

\* "bcast" is 255.255.255.255 and 0.0.0.0.
ip4_addr_isbroadcast(s, i, d) ==
  d[1] = "bcast" \/ (s.nif[i].bcast /\ s.nif[i].addr /\ d = <<"subnet", i>>)

ip4_route(s, d) ==
  LET near == {i \in Ifs(s) : Usable(s, i) /\ (SameNet(d, i) \/ (~s.nif[i].bcast /\ d = <<"gw", i>>))}
      default == {i \in Ifs(s) : i = s.dflt /\ Usable(s, i) /\ d[1] # "loop"}
  IN IF d[1] = "mcast" /\ s.mdflt # 0 THEN s.mdflt
     ELSE FirstIf(IF near # {} THEN near ELSE default)

AcceptsOn4(s, i, d) ==
  s.nif[i].up /\ s.nif[i].addr /\ (d = <<"own", i>> \/ ip4_addr_isbroadcast(s, i, d))

\* The interface a packet from inp is for: not another one for 127.0.0.0/8.
InterfaceFor4(s, inp, d) ==
  IF d[1] = "mcast" THEN FirstIf({i \in {inp} : s.nif[i].up /\ s.nif[i].addr})
  ELSE IF AcceptsOn4(s, inp, d) THEN inp
  ELSE FirstIf({i \in Ifs(s) \ {inp} : AcceptsOn4(s, i, d) /\ d[1] # "loop"})

ip4_canforward(p) ==
  p.ll = "unicast" /\ p.dst[1] \notin {"mcast", "experimental", "bcast", "zeronet", "loop"}

\* A word of two bytes as this machine has it.
WordSpace == RtByte * RtByte
PP_HTONS(x, little) == IF little THEN (x % RtByte) * RtByte + x \div RtByte ELSE x

\* The header checksum once the TTL, the upper byte of a word, is one less.
NextChksum(hc, little) ==
  LET one == PP_HTONS(RtByte, little)
      carry == IF hc >= PP_HTONS(WordSpace - 1 - RtByte, little) THEN 1 ELSE 0
  IN (hc + one + carry) % WordSpace

\* The sender's checksum and the next receiver's check: the sum of all words,
\* of which p.rest stands for those without TTL, protocol and checksum.
AddWords(x, y) == IF x + y >= WordSpace THEN x + y - WordSpace + 1 ELSE x + y
WordsOf(p, ttl) == AddWords(ttl * RtByte + p.proto, p.rest)
Chksum(p) == WordSpace - 1 - WordsOf(p, p.ttl)
Verifies(p, ttl, hc) == AddWords(WordsOf(p, ttl), hc) = WordSpace - 1

ICMP == 1
\* What became of a packet that was not for this host: the interface it left
\* by, what its TTL was and is, whether its checksum is right, and the ICMP
\* message about it.
Kept == [what |-> "kept"]
Routed(p, inp, i, ttl) ==
  [what |-> "routed", inp |-> inp, via |-> i, was |-> p.ttl, ttl |-> ttl, right |-> TRUE, size |-> p.size, frag |-> FALSE,
   icmp |-> "none", proto |-> p.proto, scoped |-> FALSE]
Refused(r, icmp) == [r EXCEPT !.via = 0, !.icmp = icmp]
Unless(p, icmp) == IF p.proto = ICMP THEN "none" ELSE icmp

ip4_forward(s, p, inp) ==
  LET i == ip4_route(s, p.dst)
      ttl == (p.ttl - 1) % RtByte
      hc == NextChksum(PP_HTONS(Chksum(p), p.little), p.little)
      r == [Routed(p, inp, i, ttl) EXCEPT !.right = Verifies(p, ttl, PP_HTONS(hc, p.little))]
  IN IF ~ip4_canforward(p) \/ p.dst[1] = "linklocal" \/ i \in {0, inp} THEN Kept
     ELSE IF ttl = 0 THEN Refused(r, Unless(p, "time_exceeded"))
     ELSE IF p.size = "big_df" THEN Refused(r, "frag_needed")
     ELSE [r EXCEPT !.frag = p.size = "big"]

\* The part of ip4_input that finds the interface and forwards the rest.
RouteInput4(s, p, inp) ==
  IF InterfaceFor4(s, inp, p.dst) # 0 \/ ip4_addr_isbroadcast(s, inp, p.dst) THEN Kept
  ELSE ip4_forward(s, p, inp)
-----------------------------------------------------------------------------
\* IPv6.  An interface has no valid address, or its link-local one and one
\* more, which is static or not.  The zone of an address is an interface or 0.
Scoped(a) == a[1] \in {"linklocal", "mlocal"}
HasAddr(s, i, a) == s.nif[i].a6 # "none" /\ a \in {<<"own", i>>, <<"linklocal", i>>}

\* onlink: the interface of the announced prefix, which is its subnet; router:
\* that of a router, which nd6_select_router (LwipNd6) takes for any address.
nd6_find_route(s, d) ==
  LET prefix == {i \in Ifs(s) : i = s.onlink /\ Live(s, i) /\ d \in {<<"own", i>>, <<"net", i>>}}
      routers == {i \in Ifs(s) : i = s.router /\ Live(s, i)}
  IN FirstIf(IF prefix # {} THEN prefix ELSE routers)

ip6_route(s, src, srczone, d, zone) ==
  LET live == {i \in Ifs(s) : Live(s, i)}
      near == {i \in live : s.nif[i].a6 # "none" /\ (d = <<"own", i>> \/ (d = <<"net", i>> /\ s.nif[i].a6 = "static"))}
      ours == {i \in live : HasAddr(s, i, src)}
      ways == <<FirstIf(near), nd6_find_route(s, d), FirstIf(ours), FirstIf({i \in live : i = s.dflt})>>
      way == FirstIf({k \in DOMAIN ways : ways[k] # 0})
  IN IF Cardinality(Ifs(s)) = 1 THEN FirstIf({i \in live : zone \in {0, i}})
     ELSE IF zone # 0 THEN FirstIf(live \cap {zone})
     ELSE IF Scoped(d) \/ src[1] \in {"linklocal", "loop"}
          THEN FirstIf(IF srczone # 0 THEN live \cap {srczone} ELSE ours)
     ELSE IF way = 0 THEN 0 ELSE ways[way]

AcceptsOn6(s, i, d) == s.nif[i].up /\ HasAddr(s, i, d)
InterfaceFor6(s, inp, src, d) ==
  IF AcceptsOn6(s, inp, d) THEN inp
  ELSE FirstIf({i \in Ifs(s) \ {inp} : AcceptsOn6(s, i, d) /\ {d[1], src[1]} \cap {"linklocal", "loop"} = {}})

\* A scoped source has the zone of inp here.
ip6_forward(s, p, inp) ==
  LET i == ip6_route(s, <<"any", 0>>, 0, p.dst, 0)
      hl == (p.ttl - 1) % RtByte
      r == [Routed(p, inp, i, hl) EXCEPT !.scoped = p.src[1] \in {"linklocal", "loop"}]
  IN IF p.dst[1] \in {"linklocal", "loop"} THEN Kept
     ELSE IF i = 0 THEN Refused([r EXCEPT !.ttl = p.ttl], Unless(p, "no_route"))
     ELSE IF (p.src[1] = "linklocal" /\ i # inp) \/ p.src[1] = "loop" \/ i = inp THEN Kept
     ELSE IF hl = 0 THEN Refused(r, Unless(p, "time_exceeded"))
     ELSE IF p.size = "big" THEN Refused(r, Unless(p, "too_big"))
     ELSE r

\* The part of ip6_input that finds the interface and forwards the rest.
RouteInput6(s, p, inp) ==
  IF p.dst[1] = "mlocal" \/ p.src[1] = "any" \/ InterfaceFor6(s, inp, p.src, p.dst) # 0 THEN Kept
  ELSE ip6_forward(s, p, inp)
-----------------------------------------------------------------------------
NoPacket == [what |-> "none"]
Idle == rt.out = NoPacket

\* The first interface is up; every other starts without anything.
RtInit ==
  \E v \in {4, 6}, n \in RtNums, line \in BOOLEAN :
    /\ line => v = 4 /\ n = 2
    /\ rt = [ver |-> v,
             nif |-> [i \in 1 .. n |-> [up |-> i = 1, link |-> i = 1, addr |-> i = 1, bcast |-> i = 1 \/ ~line, a6 |-> "none"]],
             dflt |-> 0, mdflt |-> 0, onlink |-> 0, router |-> 0, out |-> NoPacket]

\* What netif.c and nd6.c change between packets; the first interface stays up,
\* and the announced prefix and the router are on different links.
SetFlags ==
  Idle /\ \E i \in Ifs(rt), b \in BOOLEAN :
            \/ i # 1 /\ rt' = [rt EXCEPT !.nif[i].up = b]
            \/ rt' = [rt EXCEPT !.nif[i].link = b]
SetAddress ==
  /\ Idle
  /\ \/ rt.ver = 4 /\ \E i \in Ifs(rt), b \in BOOLEAN : rt' = [rt EXCEPT !.nif[i].addr = b]
     \/ rt.ver = 6 /\ \E i \in Ifs(rt), a \in {"none", "static", "dynamic"} : rt' = [rt EXCEPT !.nif[i].a6 = a]
SetDefault == Idle /\ \E i \in Ifs(rt) \cup {0} : rt' = [rt EXCEPT !.dflt = i]
ip4_set_default_multicast_netif ==
  Idle /\ rt.ver = 4 /\ \E i \in Ifs(rt) \cup {0} : rt' = [rt EXCEPT !.mdflt = i]
Announced ==
  /\ Idle /\ rt.ver = 6
  /\ \/ \E i \in {0, 1} : rt' = [rt EXCEPT !.onlink = i]
     \/ \E i \in {0, 2} \cap (Ifs(rt) \cup {0}) : rt' = [rt EXCEPT !.router = i]
-----------------------------------------------------------------------------
Dests4 ==
  ({"own", "net", "gw", "subnet"} \X Ifs(rt))
  \cup ({"far", "loop", "linklocal", "mcast", "experimental", "zeronet", "bcast"} \X {0})
\* Packets for everyone, and packets with every checksum there is.
Packets4 ==
  [dst : Dests4, ll : {"unicast", "broadcast"}, ttl : 0 .. 2, proto : {ICMP, 2}, rest : {0},
   size : {"small", "big", "big_df"}, little : {TRUE}]
  \cup [dst : {<<"net", i>> : i \in Ifs(rt)}, ll : {"unicast"}, ttl : 0 .. RtByte - 1, proto : {2}, rest : 0 .. WordSpace - 1,
        size : {"small"}, little : BOOLEAN]
Dests6 == ({"own", "net", "linklocal"} \X Ifs(rt)) \cup ({"far", "loop", "mlocal"} \X {0})
Packets6 ==
  [dst : Dests6, src : {"far", "linklocal", "loop", "any"} \X {0}, ttl : 0 .. 2, proto : {ICMP, 2}, size : {"small", "big"}]

Receive4 == Idle /\ rt.ver = 4 /\ \E p \in Packets4, inp \in Ifs(rt) : rt' = [rt EXCEPT !.out = RouteInput4(rt, p, inp)]
Receive6 == Idle /\ rt.ver = 6 /\ \E p \in Packets6, inp \in Ifs(rt) : rt' = [rt EXCEPT !.out = RouteInput6(rt, p, inp)]

\* Something of this host is to be sent; only scoped addresses have a zone.
Zones(a) == IF Scoped(a) THEN Ifs(rt) \cup {0} ELSE {0}
Send4 ==
  Idle /\ rt.ver = 4 /\ \E d \in Dests4 : rt' = [rt EXCEPT !.out = [what |-> "sent", dst |-> d, via |-> ip4_route(rt, d)]]
Send6 ==
  /\ Idle /\ rt.ver = 6
  /\ \E d \in Dests6, src \in ({"own", "linklocal"} \X Ifs(rt)) \cup {<<"any", 0>>, <<"loop", 0>>} :
       \E z \in Zones(d), sz \in Zones(src) :
         rt' = [rt EXCEPT !.out = [what |-> "sent", dst |-> d, zone |-> z, src |-> src, srczone |-> sz,
                                   via |-> ip6_route(rt, src, sz, d, z)]]
PacketDone == ~Idle /\ rt' = [rt EXCEPT !.out = NoPacket]

RtNext ==
  \/ SetFlags \/ SetAddress \/ SetDefault \/ ip4_set_default_multicast_netif \/ Announced
  \/ Receive4 \/ Receive6 \/ Send4 \/ Send6 \/ PacketDone
-----------------------------------------------------------------------------
(* A packet that ip4_forward or ip6_forward sends on goes to another interface *)
(* than it came from, one that can send (in IPv4 with an address), one hop     *)
(* older but not at its end, in pieces if it does not fit and may be cut, with *)
(* a header checksum that the next host finds right although only its TTL byte *)
(* was looked at, and never out of the zone of a scoped source.  One that came *)
(* with a TTL of 0 is the exception the code makes: it leaves with 255.        *)
ForwardedRight ==
  rt.out.what = "routed" =>
    LET o == rt.out
    IN IF o.via # 0
       THEN /\ o.via # o.inp /\ Live(rt, o.via) /\ (rt.ver = 4 => rt.nif[o.via].addr)
            /\ o.was # 0 => (o.ttl = o.was - 1 /\ o.right)
            /\ o.ttl > 0 /\ ~o.scoped /\ o.icmp = "none"
            /\ o.size = "small" \/ (rt.ver = 4 /\ o.size = "big" /\ o.frag)
       ELSE o.icmp # "none" => o.proto # ICMP \/ (rt.ver = 4 /\ o.icmp = "frag_needed")

(* A route leads to an interface that can send, or to the one that was chosen  *)
(* for multicasts.  It never leaves the zone of the destination, or without    *)
(* one that of the source; an address that is an interface's own is not        *)
(* looked for elsewhere while that one is usable.                              *)
RoutesInZone ==
  rt.out.what = "sent" =>
    LET o == rt.out
    IN /\ o.via # 0 /\ ~(o.dst[1] = "mcast" /\ o.via = rt.mdflt) => Live(rt, o.via) /\ (rt.ver = 4 => rt.nif[o.via].addr)
       /\ rt.ver = 6 /\ o.via # 0 =>
            /\ o.zone \in {0, o.via}
            /\ o.zone = 0 /\ o.srczone # 0 /\ Cardinality(Ifs(rt)) > 1 => o.via = o.srczone
       /\ o.dst[1] = "own" /\ Live(rt, o.dst[2]) /\ (IF rt.ver = 4 THEN rt.nif[o.dst[2]].addr ELSE rt.nif[o.dst[2]].a6 # "none") =>
            o.via = o.dst[2] \/ (rt.ver = 6 /\ o.src[1] \in {"linklocal", "loop"})

(* What the tables of interfaces promise to the packets that go through.       *)
RoutesSound == ForwardedRight /\ RoutesInZone
=============================================================================
