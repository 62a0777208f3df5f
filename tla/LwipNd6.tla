------------------------------- MODULE LwipNd6 ------------------------------
(* Neighbour discovery and stateless address configuration of IPv6           *)
(* (ipv6/nd6.c, with the address states of netif.c).                         *)
(*                                                                           *)
(* One interface with the tables of nd6.c: neighbour cache, destination      *)
(* cache, default routers, on-link prefixes, and the interface's addresses.  *)
(* The loop interface of this build only receives messages and runs the      *)
(* timer; sending through the caches (NextHop) is what an Ethernet interface *)
(* adds.  A behaviour exercises either the caches or the addresses: they     *)
(* share no state but the router advertisement that carries both.            *)
EXTENDS Integers, Sequences, FiniteSets, FiniteSetsExt

CONSTANTS NdNeighbors, NdDestinations, NdRouters,  \* slots: 1 .. n
          NdNodes,             \* hosts on the link
          NdGateways,          \* routers on the link
          NdFar,               \* destinations behind routers
          NdTicks,             \* reachable time, in timer ticks
          NdSolicits,          \* LWIP_ND6_MAX_MULTICAST_SOLICIT
          NdMaxAge,            \* bound on destination ages
          NdLives,             \* lifetimes an advertisement may give
          ND6_2HRS, NdInfinite \* lifetimes

VARIABLE nd

Any6 == "any"                   \* the unspecified address

ASSUME NdAssumption ==
  /\ \A S \in {NdNeighbors, NdDestinations, NdRouters} :
       Cardinality(S) \in Nat \ {0} /\ S = 1 .. Cardinality(S)
  /\ Any6 \notin NdNodes \cup NdGateways \cup NdFar
  /\ NdTicks \in Nat \ {0} /\ NdSolicits \in Nat \ {0} /\ NdMaxAge \in Nat
  /\ {ND6_2HRS, NdInfinite} \subseteq Nat \ {0} /\ ND6_2HRS < NdInfinite
  /\ \A l \in NdLives : l \in 0 .. NdInfinite

NoNeighbor == [addr |-> Any6, state |-> "NO_ENTRY", cnt |-> 0, router |-> FALSE, q |-> FALSE]
NoDestination == [dst |-> Any6, hop |-> Any6, how |-> "none", age |-> 0]
NoRouter == [n |-> 0, life |-> 0]
LowestOf(S) == IF S = {} THEN 0 ELSE Min(S)
-----------------------------------------------------------------------------
\* The neighbour cache.
nd6_find_neighbor_cache_entry(s, a) == LowestOf({i \in NdNeighbors : s.nbr[i].addr = a})

\* The entry of a router is not freed.
nd6_free_neighbor_cache_entry(e) == IF e.router THEN e ELSE NoNeighbor

\* The entry to take for a new neighbour, 0 when only routers are left: a free
\* one, or a stale, probed or delayed one, the one soonest to be stale, or the
\* most often probed without, or else with, packets waiting for it.
Recyclable(s, st) == {i \in NdNeighbors : s.nbr[i].state = st /\ ~s.nbr[i].router}
Soonest(s, S) == {i \in S : \A j \in S : s.nbr[i].cnt <= s.nbr[j].cnt}
MostProbed(s, S) == {i \in S : \A j \in S : s.nbr[i].cnt >= s.nbr[j].cnt}
HighestOf(S) == IF S = {} THEN 0 ELSE Max(S)
nd6_new_neighbor_cache_entry(s) ==
  LET incomplete == Recyclable(s, "INCOMPLETE")
      idle == {i \in incomplete : ~s.nbr[i].q}
      choices == << LowestOf({i \in NdNeighbors : s.nbr[i].state = "NO_ENTRY"}),
                    LowestOf(Recyclable(s, "STALE")), LowestOf(Recyclable(s, "PROBE")),
                    LowestOf(Recyclable(s, "DELAY")),
                    LowestOf(Soonest(s, Recyclable(s, "REACHABLE"))),
                    HighestOf(MostProbed(s, idle)), HighestOf(MostProbed(s, incomplete)) >>
      found == {k \in DOMAIN choices : choices[k] # 0}
  IN IF found = {} THEN 0 ELSE choices[Min(found)]

\* s with entry i for the new neighbour a; what was there is freed before.
EnterNeighbor(s, i, a, st, cnt) ==
  [s EXCEPT !.nbr[i] = [addr |-> a, state |-> st, cnt |-> cnt, router |-> FALSE, q |-> FALSE]]
SetState(s, i, st, cnt) == [s EXCEPT !.nbr[i].state = st, !.nbr[i].cnt = cnt]
nd6_send_q(s, i) == [s EXCEPT !.nbr[i].q = FALSE]
-----------------------------------------------------------------------------
\* Default routers, destinations and prefixes.
nd6_get_router(s, a) ==
  LowestOf({k \in NdRouters : s.rtr[k].n # 0 /\ s.nbr[s.rtr[k].n].addr = a})

\* <<k, s>>: the slot for router a, 0 when there is no neighbour entry or no
\* slot left for it.
nd6_new_router(s, a) ==
  LET known == nd6_find_neighbor_cache_entry(s, a)
      i == IF known # 0 THEN known ELSE nd6_new_neighbor_cache_entry(s)
      t == IF known # 0 THEN s ELSE EnterNeighbor(s, i, a, "INCOMPLETE", 1)
      spare == LowestOf({k \in NdRouters : t.rtr[k].n = 0})
  IN IF i = 0 THEN <<0, s>>
     ELSE IF spare # 0 THEN <<spare, [t EXCEPT !.nbr[i].router = TRUE, !.rtr[spare].n = i]>>
     ELSE <<0, [t EXCEPT !.nbr[i].router = FALSE]>>

\* <<k, s>>: a reachable router, else one that is not incomplete, else the next
\* in turn; only routing (not sending) moves the turn on.
nd6_select_router(s, routing) ==
  LET listed == {k \in NdRouters : s.rtr[k].n # 0}
      of(st) == {k \in listed : s.nbr[s.rtr[k].n].state = st}
      valid == listed \ of("INCOMPLETE")
      n == Cardinality(NdRouters)
      turn == IF routing THEN (s.last % n) + 1 ELSE s.last
      inTurn == {j \in 0 .. n - 1 : ((turn - 1 + j) % n) + 1 \in listed}
  IN IF of("REACHABLE") # {} THEN <<Min(of("REACHABLE")), s>>
     ELSE IF valid # {} THEN <<Min(valid), s>>
     ELSE <<IF inTurn = {} THEN 0 ELSE ((turn - 1 + Min(inTurn)) % n) + 1, [s EXCEPT !.last = turn]>>

nd6_find_destination_cache_entry(s, d) == LowestOf({j \in NdDestinations : s.dst[j].dst = d})

\* A free entry, else the last one of age above 0, else the last one.
nd6_new_destination_cache_entry(s) ==
  LET free == {j \in NdDestinations : s.dst[j].dst = Any6}
      aged == {j \in NdDestinations : s.dst[j].age > 0}
  IN IF free # {} THEN Min(free) ELSE IF aged # {} THEN Max(aged) ELSE Max(NdDestinations)

\* onlink is what is left of the lifetime of the prefix of all of NdFar.
nd6_is_prefix_in_netif(s, d) == d \in NdFar /\ s.onlink > 0

\* <<i, s>>: the neighbour entry through which d is reached, 0 for an error.
nd6_get_next_hop_entry(s, d) ==
  LET known == nd6_find_destination_cache_entry(s, d)
      j == IF known # 0 THEN known ELSE nd6_new_destination_cache_entry(s)
      direct == d \notin NdFar \/ nd6_is_prefix_in_netif(s, d)
      k == nd6_select_router(s, FALSE)
      entry == IF direct THEN [dst |-> d, hop |-> d, how |-> "self", age |-> 0]
               ELSE [dst |-> d, hop |-> s.nbr[s.rtr[k[1]].n].addr, how |-> "router", age |-> 0]
      t == IF known # 0 THEN [s EXCEPT !.dst[j].age = 0] ELSE [k[2] EXCEPT !.dst[j] = entry]
      a == t.dst[j].hop
      i == IF nd6_find_neighbor_cache_entry(t, a) # 0 THEN nd6_find_neighbor_cache_entry(t, a)
           ELSE nd6_new_neighbor_cache_entry(t)
  IN IF known = 0 /\ ~direct /\ k[1] = 0 THEN <<0, [s EXCEPT !.dst[j] = NoDestination]>>
     ELSE IF i = 0 THEN <<0, [t EXCEPT !.dst[j].age = s.dst[j].age]>>
     ELSE IF t.nbr[i].addr = a THEN <<i, t>>
     ELSE <<i, EnterNeighbor(t, i, a, "INCOMPLETE", 1)>>

\* q is TRUE when packets wait.  room: is there memory for the packet and its
\* queue entry, in the end?  What is queued is dropped before it is refused.
nd6_queue_packet(s, i, room) == [s EXCEPT !.nbr[i].q = room]

nd6_get_next_hop_addr_or_queue(s, d, room) ==
  LET h == nd6_get_next_hop_entry(s, d)
      i == h[1]
  IN IF i = 0 THEN h[2]
     ELSE IF h[2].nbr[i].state = "STALE" THEN SetState(h[2], i, "DELAY", 1)
     ELSE IF h[2].nbr[i].state = "INCOMPLETE" THEN nd6_queue_packet(h[2], i, room)
     ELSE h[2]

\* TCP makes progress with d.
nd6_reachability_hint(s, d) ==
  LET j == nd6_find_destination_cache_entry(s, d)
      i == IF j = 0 THEN 0 ELSE nd6_find_neighbor_cache_entry(s, s.dst[j].hop)
  IN IF i = 0 THEN s
     ELSE IF s.nbr[i].state \in {"INCOMPLETE", "NO_ENTRY"} THEN s
     ELSE SetState(s, i, "REACHABLE", NdTicks)
-----------------------------------------------------------------------------
\* nd6_input.  A neighbour advertisement for a, sent to us or to all nodes.
InputNA(s, a, toAll, override, option) ==
  LET i == nd6_find_neighbor_cache_entry(s, a)
  IN IF toAll \/ i = 0 THEN s
     ELSE IF (override \/ s.nbr[i].state = "INCOMPLETE") /\ ~option THEN s
     ELSE nd6_send_q(SetState(s, i, "REACHABLE", NdTicks), i)

\* a solicits an address of ours, with its link-layer address.
InputNS(s, a) ==
  LET known == nd6_find_neighbor_cache_entry(s, a)
      i == IF known # 0 THEN known ELSE nd6_new_neighbor_cache_entry(s)
  IN IF i = 0 THEN s
     ELSE IF known = 0 THEN EnterNeighbor(s, i, a, "DELAY", 1)
     ELSE IF s.nbr[i].state = "INCOMPLETE" THEN SetState(s, i, "DELAY", 1) ELSE s

\* Router a advertises itself for life seconds, and the prefix for onlink
\* seconds if that is not negative.
InputRA(s, a, life, option, onlink) ==
  LET known == nd6_get_router(s, a)
      r == IF known # 0 THEN <<known, s>> ELSE nd6_new_router(s, a)
      t == [r[2] EXCEPT !.rtr[r[1]].life = life, !.onlink = IF onlink < 0 THEN @ ELSE onlink]
      i == t.rtr[r[1]].n
  IN IF r[1] = 0 THEN r[2]
     ELSE IF option /\ t.nbr[i].state = "INCOMPLETE" THEN SetState(t, i, "REACHABLE", NdTicks)
     ELSE t

\* A redirect: d is reached through a.
InputRD(s, d, a, option) ==
  LET j == nd6_find_destination_cache_entry(s, d)
      t == [s EXCEPT !.dst[j].hop = a, !.dst[j].how = "redirect"]
      known == nd6_find_neighbor_cache_entry(t, a)
      i == IF known # 0 THEN known ELSE nd6_new_neighbor_cache_entry(t)
  IN IF j = 0 THEN s
     ELSE IF ~option \/ i = 0 THEN t
     ELSE IF known = 0 THEN EnterNeighbor(t, i, a, "DELAY", 1)
     ELSE IF t.nbr[i].state = "INCOMPLETE" THEN SetState(t, i, "DELAY", 1) ELSE t
-----------------------------------------------------------------------------
\* nd6_tmr on one neighbour entry.
TmrNeighbor(e) ==
  CASE e.state \in {"INCOMPLETE", "PROBE"} ->
         IF e.cnt < NdSolicits THEN [e EXCEPT !.cnt = @ + 1]
         ELSE nd6_free_neighbor_cache_entry(e)     \* counted to NdSolicits
    [] e.state = "REACHABLE" ->
         [e EXCEPT !.q = FALSE, !.state = IF e.cnt <= 1 THEN "STALE" ELSE @, !.cnt = @ - 1]
    [] e.state = "DELAY" ->
         IF e.cnt <= 1 THEN [e EXCEPT !.state = "PROBE", !.cnt = 0] ELSE [e EXCEPT !.cnt = @ - 1]
    [] OTHER -> e

\* The routers whose time is over go, and the destinations behind them.
TmrRouters_KeepsDestinations(s) ==
  LET over == {k \in NdRouters : s.rtr[k].n # 0 /\ s.rtr[k].life <= 1}
  IN [s EXCEPT !.nbr = [i \in NdNeighbors |->
                          [s.nbr[i] EXCEPT !.router = @ /\ i \notin {s.rtr[k].n : k \in over}]],
               !.rtr = [k \in NdRouters |-> IF k \in over THEN NoRouter
                                            ELSE [s.rtr[k] EXCEPT !.life = IF @ > 0 THEN @ - 1 ELSE 0]]]
TmrRouters(s) ==
  LET over == {k \in NdRouters : s.rtr[k].n # 0 /\ s.rtr[k].life <= 1}
      gone == {s.nbr[s.rtr[k].n].addr : k \in over}
  IN [s EXCEPT !.nbr = [i \in NdNeighbors |->
                          [s.nbr[i] EXCEPT !.router = @ /\ i \notin {s.rtr[k].n : k \in over}]],
               !.dst = [j \in NdDestinations |->
                          IF s.dst[j].hop \in gone THEN NoDestination ELSE s.dst[j]],
               !.rtr = [k \in NdRouters |-> IF k \in over THEN NoRouter
                                            ELSE [s.rtr[k] EXCEPT !.life = IF @ > 0 THEN @ - 1 ELSE 0]]]

Older(e) == IF e.dst = Any6 THEN e ELSE [e EXCEPT !.age = Min({@ + 1, NdMaxAge})]
TmrCaches(s) ==
  TmrRouters([s EXCEPT !.nbr = [i \in NdNeighbors |-> TmrNeighbor(s.nbr[i])],
                       !.dst = [j \in NdDestinations |-> Older(s.dst[j])],
                       !.onlink = IF @ > 0 THEN @ - 1 ELSE 0])

\* nd6_cleanup_netif, when the interface goes down.
nd6_cleanup_netif(s) ==
  [s EXCEPT !.nbr = [i \in NdNeighbors |-> NoNeighbor], !.onlink = 0,
            !.rtr = [k \in NdRouters |-> NoRouter],
            !.dst = [j \in NdDestinations |-> NoDestination]]
-----------------------------------------------------------------------------
\* The addresses of the interface: slot 1 has the link-local address the
\* others are made from; a valid lifetime of 0 means that the address was
\* assigned by hand.  net is the prefix.
NoAddress == [st |-> "INVALID", n |-> 0, valid |-> 0, pref |-> 0, net |-> "none"]
Slots == 1 .. 3                \* LWIP_IPV6_NUM_ADDRESSES
IsStatic(a) == a.valid = 0
IsUsable(a) == a.st \in {"PREFERRED", "DEPRECATED"}

\* Duplicate address detection failed for slot i; the addresses made from a
\* duplicate link-local address are not to be used either.
nd6_duplicate_addr_detected_One(s, i) == [s EXCEPT !.adr[i].st = "DUPLICATED"]
nd6_duplicate_addr_detected(s, i) ==
  [s EXCEPT !.adr = [k \in Slots |->
     IF k = i \/ (i = 1 /\ s.adr[k].st # "INVALID" /\ ~IsStatic(s.adr[k]))
     THEN [s.adr[k] EXCEPT !.st = "DUPLICATED"] ELSE s.adr[k]]]

\* The two-hour rule of RFC 4862 5.5.3 (e).
ValidLife(old, valid) ==
  IF valid > ND6_2HRS \/ valid > old THEN valid ELSE IF old > ND6_2HRS THEN ND6_2HRS ELSE old

Renew(a, valid, pref) ==
  [a EXCEPT !.valid = ValidLife(@, valid), !.pref = pref,
            !.st = IF pref > 0 /\ @ = "DEPRECATED" THEN "PREFERRED" ELSE @]

nd6_process_autoconfig_prefix(s, net, valid, pref) ==
  LET same == {i \in Slots \ {1} : s.adr[i].st # "INVALID" /\ ~IsStatic(s.adr[i]) /\ s.adr[i].net = net}
      byHand == \E i \in Slots \ {1} : s.adr[i].st # "INVALID" /\ s.adr[i].net = net
      free == {i \in Slots \ {1} : s.adr[i].st = "INVALID"}
  IN IF pref > valid THEN s
     ELSE IF same # {}
     THEN [s EXCEPT !.adr[Min(same)] = Renew(@, valid, pref)]
     ELSE IF ~s.autoconfig \/ valid = 0 \/ s.adr[1].st \in {"INVALID", "DUPLICATED"} THEN s
     ELSE IF byHand \/ free = {} THEN s
     ELSE [s EXCEPT !.adr[Min(free)] =
             [st |-> "TENTATIVE", n |-> 0, valid |-> valid, pref |-> pref, net |-> net]]

\* An advertisement ends the solicitations, unless none was sent yet and none
\* can be sent now.
Advertised(s, mem) == [s EXCEPT !.rs = IF @ < NdSolicits \/ mem THEN 0 ELSE 1]

netif_add_ip6_address(s, net) ==
  LET free == {i \in Slots \ {1} : s.adr[i].st = "INVALID"}
  IN IF free = {} \/ \E i \in Slots : s.adr[i].st # "INVALID" /\ s.adr[i].net = net THEN s
     ELSE [s EXCEPT !.adr[Min(free)] = [NoAddress EXCEPT !.st = "TENTATIVE", !.net = net]]

\* An advertisement sent to all nodes for an address of ours, or the
\* solicitation of another node that tests the same address.
InputConflict(s, i, solicited) ==
  IF s.adr[i].st \in {"INVALID", "DUPLICATED"} \/ (solicited /\ s.adr[i].st # "TENTATIVE") THEN s
  ELSE nd6_duplicate_addr_detected(s, i)

\* nd6_tmr on one address: the lifetimes, then duplicate address detection.
Tick(life) == IF life = NdInfinite THEN life ELSE life - 1
TmrLife(a) ==
  IF a.st = "INVALID" \/ IsStatic(a) THEN a
  ELSE IF a.valid <= 1 THEN [a EXCEPT !.valid = 0, !.pref = 0, !.st = "INVALID"]
  ELSE IF a.pref <= 1
  THEN [a EXCEPT !.valid = Tick(@), !.pref = 0, !.st = IF @ = "PREFERRED" THEN "DEPRECATED" ELSE @]
  ELSE [a EXCEPT !.valid = Tick(@), !.pref = Tick(@)]
TmrDad(a, up) ==
  IF a.st # "TENTATIVE" THEN a
  ELSE IF a.n >= 1             \* LWIP_IPV6_DUP_DETECT_ATTEMPTS
  THEN [a EXCEPT !.n = 0, !.st = IF ~IsStatic(a) /\ a.pref = 0 THEN "DEPRECATED" ELSE "PREFERRED"]
  ELSE IF up THEN [a EXCEPT !.n = @ + 1] ELSE a

\* Every second time a solicitation for routers is sent, as long as some are
\* left; mem: the packet could be built.
TmrAddresses(s, mem) ==
  LET t == [s EXCEPT !.adr = [i \in Slots |-> TmrDad(TmrLife(s.adr[i]), s.up)]]
      solicit == s.red = 0 /\ s.rs > 0 /\ s.up /\ t.adr[1].st \notin {"INVALID", "DUPLICATED"}
  IN [t EXCEPT !.red = 1 - @, !.rs = IF solicit /\ mem THEN @ - 1 ELSE @]
-----------------------------------------------------------------------------
NdInit ==
  /\ nd \in [plan : {"caches", "addresses"}, autoconfig : BOOLEAN, onlink : {0}, last : {1},
             nbr : {[i \in NdNeighbors |-> NoNeighbor]},
             dst : {[j \in NdDestinations |-> NoDestination]},
             rtr : {[k \in NdRouters |-> NoRouter]}, up : {TRUE}, rs : {NdSolicits}, red : {0},
             adr : {[i \in Slots |-> IF i = 1 THEN [NoAddress EXCEPT !.st = "TENTATIVE", !.net = "link"]
                                     ELSE NoAddress]}]
  /\ nd.autoconfig => nd.plan = "addresses"

Caches == nd.plan = "caches"
Addresses == nd.plan = "addresses"
Neighbors == NdNodes \cup NdGateways

NdAdvertised ==
  Caches /\ \E a \in Neighbors, form \in {<<TRUE, FALSE, FALSE>>} \cup ({FALSE} \X BOOLEAN \X BOOLEAN) :
              nd' = InputNA(nd, a, form[1], form[2], form[3])
NdSolicited == Caches /\ \E a \in Neighbors : nd' = InputNS(nd, a)
NdRouter ==
  Caches /\ \E a \in NdGateways, life \in {0, NdTicks + 1},
               form \in {<<FALSE, -1>>, <<FALSE, NdTicks>>, <<TRUE, -1>>, <<TRUE, 0>>} :
              nd' = InputRA(nd, a, life, form[1], form[2])
NdRedirect ==
  Caches /\ \E d \in NdFar, a \in Neighbors, option \in BOOLEAN : nd' = InputRD(nd, d, a, option)
NdNextHop ==
  Caches /\ \E d \in NdNodes \cup NdFar, room \in BOOLEAN :
              nd' = nd6_get_next_hop_addr_or_queue(nd, d, room)
NdHint == Caches /\ \E d \in NdNodes \cup NdFar : nd' = nd6_reachability_hint(nd, d)
NdRoute == Caches /\ nd' = nd6_select_router(nd, TRUE)[2]
NdDown == Caches /\ nd' = nd6_cleanup_netif(nd)
NdTmrCaches == Caches /\ nd' = TmrCaches(nd)

NdPrefix ==
  Addresses /\ \E net \in {"p", "q"}, mem \in IF nd.rs < NdSolicits THEN {TRUE} ELSE BOOLEAN,
                  l \in {lf \in NdLives \X NdLives : lf[2] <= lf[1] \/ lf[1] = 0} :
                 nd' = nd6_process_autoconfig_prefix(Advertised(nd, mem), net, l[1], l[2])
NdConflict == Addresses /\ \E i \in Slots, solicited \in BOOLEAN : nd' = InputConflict(nd, i, solicited)
NdAddAddress == Addresses /\ nd' = netif_add_ip6_address(nd, "p")
NdTmrAddresses == Addresses /\ \E mem \in BOOLEAN : nd' = TmrAddresses(nd, mem)
\* nd6_restart_netif, when the interface or its link comes up.
NdUpDown == Addresses /\ nd' = [nd EXCEPT !.up = ~@, !.rs = IF nd.up THEN @ ELSE NdSolicits]

NdNext ==
  \/ NdAdvertised \/ NdSolicited \/ NdRouter \/ NdRedirect \/ NdNextHop \/ NdHint \/ NdRoute
  \/ NdDown \/ NdTmrCaches
  \/ NdPrefix \/ NdConflict \/ NdAddAddress \/ NdTmrAddresses \/ NdUpDown

NdSpec == NdInit /\ [][NdNext]_nd
-----------------------------------------------------------------------------
\* A default router points to a live neighbour entry that is marked, so that it
\* is never recycled under it, and a marked entry has a default router: it
\* could not be freed otherwise.
RoutersPinned ==
  /\ \A k \in NdRouters : nd.rtr[k].n # 0 =>
       /\ nd.nbr[nd.rtr[k].n].router /\ nd.nbr[nd.rtr[k].n].state # "NO_ENTRY"
       /\ \A l \in NdRouters : nd.rtr[l].n = nd.rtr[k].n => k = l
  /\ \A i \in NdNeighbors : nd.nbr[i].router => \E k \in NdRouters : nd.rtr[k].n = i

\* No address has two neighbour entries and no destination two entries, and a
\* free neighbour entry has no packets.
CachesSound ==
  /\ \A i, j \in NdNeighbors : nd.nbr[i].addr = nd.nbr[j].addr /\ i # j => nd.nbr[i].addr = Any6
  /\ \A i, j \in NdDestinations : nd.dst[i].dst = nd.dst[j].dst /\ i # j => nd.dst[i].dst = Any6
  /\ \A i \in NdNeighbors : nd.nbr[i].state = "NO_ENTRY" <=> nd.nbr[i].addr = Any6
  /\ \A i \in NdNeighbors : nd.nbr[i].state = "NO_ENTRY" => ~nd.nbr[i].q

\* Packets that wait for a neighbour are on their way: its entry is still being
\* resolved or is tested, or the next tick sends them.  A stale entry has none.
NoStuckQueue == \A i \in NdNeighbors : nd.nbr[i].state = "STALE" => ~nd.nbr[i].q

\* A destination for which a default router was chosen is reached through a
\* router that still is one.
NoGoneRouter ==
  \A j \in NdDestinations : nd.dst[j].how = "router" =>
     nd6_get_router(nd, nd.dst[j].hop) # 0

(* The caches that point to each other by index agree after every message and *)
(* every tick: neighbors, routers, destinations and the packets that wait.    *)
NdCachesSound == RoutersPinned /\ CachesSound /\ NoStuckQueue /\ NoGoneRouter

\* The lifetimes of an address that was not assigned by hand stay in order, and
\* no prefix gives the interface two addresses.
LifetimesInOrder ==
  \A i \in Slots : nd.adr[i].st # "INVALID" /\ ~IsStatic(nd.adr[i]) =>
     /\ nd.adr[i].pref <= nd.adr[i].valid
     /\ \A k \in Slots : nd.adr[k].st # "INVALID" /\ nd.adr[k].net = nd.adr[i].net => i = k

\* The comment in nd6_duplicate_addr_detected: when the link-local address is
\* a duplicate, "we should not continue to use those derived addresses either".
DerivedFollow ==
  nd.adr[1].st = "DUPLICATED" =>
    \A i \in Slots : IsUsable(nd.adr[i]) => IsStatic(nd.adr[i])

(* The addresses made from advertised prefixes: their lifetimes, and the      *)
(* duplicate link-local address that takes the others with it.                *)
AddressesSound == LifetimesInOrder /\ DerivedFollow
=============================================================================
