------------------------------ MODULE LwipPcbs ------------------------------
(* The lists of protocol control blocks: udp.c, raw.c and the part of tcp.c  *)
(* that allocates, binds, listens, kills and frees.  LwipTcp models what one *)
(* TCP connection does; here a connection is its state and its lists.        *)
(*                                                                           *)
(* Addresses are of one family; PcbAny is the wildcard.  The lists are       *)
(* sequences, newest first.  Memory is a set of places: a pcb is allocated   *)
(* when one of the ids is free.  A behaviour uses UDP, raw or TCP pcbs, the  *)
(* last to bind and listen only, or with one port for connections that are   *)
(* accepted ("conn"), or accepted and opened ("dial").                       *)
EXTENDS Integers, Sequences, FiniteSets, SequencesExt

CONSTANTS PcbIds,              \* places for pcbs: 1 .. n
          PcbPool,             \* how many of them each plan has (MEMP_NUM_*_PCB)
          PcbAddrs,            \* addresses an interface can have
          PORT_START, PORT_END,\* the range of ephemeral ports
          Backlog,             \* of a listening pcb
          MaxPcbAge,           \* bound on the inactivity that is told apart
          MaxAddrChanges       \* bound on the changes of the interface's address

VARIABLE pc

ASSUME PcbsAssumption ==
  /\ PORT_START \in Nat \ {0, 1} /\ PORT_END \in Nat /\ PORT_START < PORT_END
  /\ PcbPool \in [{"udp", "raw", "tcp", "conn", "dial"} -> Nat]
  /\ Backlog \in Nat \ {0} /\ MaxPcbAge \in Nat /\ MaxAddrChanges \in Nat

PcbAny == "any"
BindAddrs == PcbAddrs \cup {PcbAny}
Ports == {0, 1, PORT_START}    \* 0 asks for an ephemeral port
NoPcb == [st |-> "FREE", la |-> PcbAny, lp |-> 0, con |-> FALSE, ra |-> PcbAny, prio |-> 0, age |-> 0,
          lst |-> 0, pend |-> FALSE, n |-> 0]
Free(s) == {i \in PcbIds : i <= PcbPool[s.plan] /\ s.pcb[i].st = "FREE"}
LeastOf(S) == CHOOSE i \in S : \A j \in S : i <= j
Without(list, i) == SelectSeq(list, LAMBDA j : j # i)
In(i, list) == \E k \in DOMAIN list : list[k] = i
-----------------------------------------------------------------------------
\* The search for a port goes on from the one given last, through ports that are
\* used, n times at most: <<the port or 0, where the search ended>>.
NewPort(port, used, range, n) ==
  LET Nth(k) == LeastOf(range) + ((port - LeastOf(range) + k) % Cardinality(range))
      free == {k \in 1 .. n : Nth(k) \notin used}
  IN IF free = {} THEN <<0, Nth(n)>> ELSE <<Nth(LeastOf(free)), Nth(LeastOf(free))>>
udp_new_port(s) ==
  NewPort(s.port, {s.pcb[s.list[k]].lp : k \in DOMAIN s.list}, PORT_START .. PORT_END,
          PORT_END - PORT_START + 1)
TcpListed(s) == {s.bound[k] : k \in DOMAIN s.bound} \cup {s.listen[k] : k \in DOMAIN s.listen}
                \cup {s.active[k] : k \in DOMAIN s.active} \cup {s.tw[k] : k \in DOMAIN s.tw}
tcp_new_port(s) ==
  NewPort(s.port, {s.pcb[i].lp : i \in TcpListed(s)}, PORT_START .. PORT_END - 1, PORT_END - PORT_START + 1)

SameLocal(a, b) == a = b \/ a = PcbAny \/ b = PcbAny
-----------------------------------------------------------------------------
\* UDP.
udp_new(s) ==
  IF Free(s) = {} THEN s ELSE [s EXCEPT !.pcb[LeastOf(Free(s))] = [NoPcb EXCEPT !.st = "UDP"]]

UdpTaken(s, i, a, port) ==
  \E k \in DOMAIN s.list : s.list[k] # i /\ s.pcb[s.list[k]].lp = port /\ SameLocal(s.pcb[s.list[k]].la, a)
udp_bind(s, i, a, port) ==
  LET new == udp_new_port(s)
      t == IF port = 0 THEN [s EXCEPT !.port = new[2]] ELSE s
  IN IF (port = 0 /\ new[1] = 0) \/ (port # 0 /\ UdpTaken(s, i, a, port)) THEN t
     ELSE [t EXCEPT !.pcb[i].la = a, !.pcb[i].lp = IF port = 0 THEN new[1] ELSE port,
                    !.list = IF In(i, @) THEN @ ELSE <<i>> \o @]

udp_connect(s, i, a) ==
  LET t == IF s.pcb[i].lp = 0 THEN udp_bind(s, i, s.pcb[i].la, 0) ELSE s
  IN IF t.pcb[i].lp = 0 THEN t ELSE [t EXCEPT !.pcb[i].ra = a, !.pcb[i].con = TRUE]
udp_disconnect(s, i) == [s EXCEPT !.pcb[i].ra = PcbAny, !.pcb[i].con = FALSE]
udp_remove(s, i) == [s EXCEPT !.pcb[i] = NoPcb, !.list = Without(@, i)]

\* The address of an interface changes; pcbs bound to it follow.
Rebind(s, i, old, new) == IF s.pcb[i].la = old THEN [s.pcb[i] EXCEPT !.la = new] ELSE s.pcb[i]
udp_netif_ip_addr_changed(s, old, new) ==
  IF old = PcbAny \/ new = PcbAny THEN s
  ELSE [s EXCEPT !.pcb = [i \in PcbIds |-> IF In(i, s.list) THEN Rebind(s, i, old, new) ELSE s.pcb[i]]]
\* The search of udp_input for the pcb of datagram d, in the build without
\* TUN2SOCKS (with it the first pcb has them all).  dst is the interface's address,
\* the broadcast address of its net, "subnet", or that of all nets, "all".
PeerPort == 7
RemotePort(p) == IF p.con THEN PeerPort ELSE 0
IsBroadcast(d) == d.dst \in {"subnet", "all"}
udp_input_local_match(s, p, d) ==
  IF IsBroadcast(d) THEN p.la = PcbAny \/ d.dst = "all" \/ p.la = s.addr ELSE p.la \in {PcbAny, d.dst}
LocalMatches(s, d) ==
  {k \in DOMAIN s.list : s.pcb[s.list[k]].lp = d.dport /\ udp_input_local_match(s, s.pcb[s.list[k]], d)}
Connected(s, d) ==
  {k \in LocalMatches(s, d) : /\ RemotePort(s.pcb[s.list[k]]) = d.sport
                          /\ s.pcb[s.list[k]].ra \in {PcbAny, d.src}}
\* For the broadcast to all nets a pcb with the interface's address comes first.
Unconnected(s, d) ==
  LET free == {k \in LocalMatches(s, d) : ~s.pcb[s.list[k]].con}
      own == {k \in free : s.pcb[s.list[k]].la = s.addr}
  IN IF d.dst = "all" /\ own # {} THEN own ELSE free
\* The pcb, or 0.
UdpReceiver(s, d) ==
  IF Connected(s, d) # {} THEN s.list[LeastOf(Connected(s, d))]
  ELSE IF Unconnected(s, d) # {} THEN s.list[LeastOf(Unconnected(s, d))] ELSE 0
MoveToFront(list, k) == <<list[k]>> \o RemoveAt(list, k)
UdpSearch(s, d) ==
  IF Connected(s, d) = {} THEN s ELSE [s EXCEPT !.list = MoveToFront(@, LeastOf(Connected(s, d)))]
-----------------------------------------------------------------------------
\* Raw pcbs: one protocol; st is "RAW" with a receive function, "MUTE" without.
raw_new(s, mute) ==
  IF Free(s) = {} THEN s
  ELSE [s EXCEPT !.pcb[LeastOf(Free(s))] = [NoPcb EXCEPT !.st = IF mute THEN "MUTE" ELSE "RAW"],
                 !.list = <<LeastOf(Free(s))>> \o @]
raw_bind(s, i, a) == [s EXCEPT !.pcb[i].la = a]
raw_connect(s, i, a) == [s EXCEPT !.pcb[i].ra = a, !.pcb[i].con = TRUE]
raw_disconnect(s, i) == [s EXCEPT !.pcb[i].ra = PcbAny, !.pcb[i].con = FALSE]
raw_remove(s, i) == [s EXCEPT !.pcb[i] = NoPcb, !.list = Without(@, i)]
raw_netif_ip_addr_changed(s, old, new) ==
  IF old = PcbAny \/ new = PcbAny THEN s
  ELSE [s EXCEPT !.pcb = [i \in PcbIds |-> IF In(i, s.list) THEN Rebind(s, i, old, new) ELSE s.pcb[i]]]

raw_input_local_match(p, dst) == p.la \in {PcbAny, dst}
RawMatches(p, src, dst) == raw_input_local_match(p, dst) /\ (p.con => p.ra = src)

\* <<who was called, who ate the packet, s>>: eaters is the set of pcbs that
\* would eat it.  The one that does is moved to the front.
raw_input(s, src, dst, eaters) ==
  LET called == {k \in DOMAIN s.list : s.pcb[s.list[k]].st = "RAW" /\ RawMatches(s.pcb[s.list[k]], src, dst)}
      eating == {k \in called : s.list[k] \in eaters}
      last == IF eating = {} THEN Len(s.list) ELSE LeastOf(eating)
  IN << {s.list[k] : k \in {j \in called : j <= last}}, {s.list[k] : k \in eating \cap {last}},
        IF eating = {} THEN s ELSE [s EXCEPT !.list = MoveToFront(@, last)] >>
-----------------------------------------------------------------------------
\* TCP: the list a pcb is in by its state.
ListOf(p) ==
  CASE p.st = "LISTEN" -> "listen"
    [] p.st = "TIME_WAIT" -> "tw"
    [] p.st = "CLOSED" -> IF p.lp = 0 THEN "none" ELSE "bound"
    [] p.st = "FREE" -> "none"
    [] OTHER -> "active"
TCP_REG(s, l, i) == [s EXCEPT ![l] = <<i>> \o @]
TCP_RMV(s, l, i) == [s EXCEPT ![l] = Without(@, i)]

tcp_backlog_accepted(s, i) ==
  IF s.pcb[i].pend /\ s.pcb[i].lst # 0
  THEN [s EXCEPT !.pcb[s.pcb[i].lst].n = @ - 1, !.pcb[i].pend = FALSE] ELSE s

tcp_free(s, i) == [s EXCEPT !.pcb[i] = NoPcb, !.stray = @ \ {i}]
tcp_pcb_purge(s, i) ==
  IF s.pcb[i].st \in {"CLOSED", "TIME_WAIT", "LISTEN"} THEN s ELSE tcp_backlog_accepted(s, i)
tcp_pcb_remove(s, i) ==
  [tcp_pcb_purge(TCP_RMV(s, ListOf(s.pcb[i]), i), i) EXCEPT !.pcb[i].st = "CLOSED", !.pcb[i].lp = 0]
tcp_abandon(s, i) ==
  LET p == s.pcb[i]
  IN IF p.st = "CLOSED" THEN tcp_free(IF p.lp # 0 THEN TCP_RMV(s, "bound", i) ELSE s, i)
     ELSE IF p.st = "TIME_WAIT" THEN tcp_free(tcp_pcb_remove(s, i), i)
     ELSE tcp_free(tcp_backlog_accepted(tcp_pcb_remove(s, i), i), i)

tcp_listen_closed_Active(s, l) ==
  [s EXCEPT !.pcb = [i \in PcbIds |-> IF In(i, s.active) /\ s.pcb[i].lst = l
                                      THEN [s.pcb[i] EXCEPT !.lst = 0] ELSE s.pcb[i]]]
tcp_listen_closed(s, l) ==
  [s EXCEPT !.pcb = [i \in PcbIds |-> IF i \in TcpListed(s) /\ s.pcb[i].lst = l
                                      THEN [s.pcb[i] EXCEPT !.lst = 0] ELSE s.pcb[i]]]
\* tcp_close of a pcb that is closed (bound or not) or listens.
tcp_close_closed(s, i) == tcp_abandon(s, i)
tcp_close_listen(s, i) == tcp_free(tcp_pcb_remove(tcp_listen_closed(s, i), i), i)

\* The oldest of the pcbs at places K of list, the last one of several, or 0.
Inactive(s, list, K) ==
  LET oldest == {k \in K : \A j \in K : s.pcb[list[j]].age < s.pcb[list[k]].age
                                        \/ (s.pcb[list[j]].age = s.pcb[list[k]].age /\ j <= k)}
  IN IF K = {} THEN 0 ELSE list[CHOOSE k \in oldest : TRUE]
KillPcb(s, i) == IF i = 0 THEN s ELSE tcp_abandon(s, i)
tcp_kill_timewait(s) == KillPcb(s, Inactive(s, s.tw, DOMAIN s.tw))
tcp_kill_state(s, st) ==
  KillPcb(s, Inactive(s, s.active, {k \in DOMAIN s.active : s.pcb[s.active[k]].st = st}))
\* Of the lowest priority below prio, the oldest.
tcp_kill_prio(s, prio) ==
  LET lower == {s.pcb[s.active[k]].prio : k \in DOMAIN s.active} \cap (0 .. prio - 1)
      lowest == {k \in DOMAIN s.active : lower # {} /\ s.pcb[s.active[k]].prio = LeastOf(lower)}
  IN KillPcb(s, Inactive(s, s.active, lowest))

\* s with room for a pcb of priority prio, if it can be made (the FINs that
\* tcp_handle_closepend sends first change no list).
tcp_alloc(s, prio) ==
  LET timewait == tcp_kill_timewait(s)
      lastack == tcp_kill_state(timewait, "LAST_ACK")
      closing == tcp_kill_state(lastack, "CLOSING")
  IN IF Free(s) # {} THEN s
     ELSE IF Free(timewait) # {} THEN timewait
     ELSE IF Free(lastack) # {} THEN lastack
     ELSE IF Free(closing) # {} THEN closing ELSE tcp_kill_prio(closing, prio)

tcp_new(s, prio) ==
  LET t == tcp_alloc(s, prio)
  IN IF Free(t) = {} THEN t
     ELSE [t EXCEPT !.pcb[LeastOf(Free(t))] = [NoPcb EXCEPT !.st = "CLOSED", !.prio = prio]]

TcpTaken(s, a, port) == \E j \in TcpListed(s) : s.pcb[j].lp = port /\ SameLocal(s.pcb[j].la, a)
tcp_bind(s, i, a, port) ==
  LET new == tcp_new_port(s)
      t == IF port = 0 THEN [s EXCEPT !.port = new[2]] ELSE s
  IN IF s.pcb[i].st # "CLOSED" THEN s
     ELSE IF (port = 0 /\ new[1] = 0) \/ (port # 0 /\ TcpTaken(s, a, port)) THEN t
     ELSE TCP_REG([t EXCEPT !.pcb[i].la = IF a = PcbAny THEN @ ELSE a,
                            !.pcb[i].lp = IF port = 0 THEN new[1] ELSE port, !.stray = @ \ {i}], "bound", i)

\* The SYN can be queued or not, and there is a route or not.  A port that was
\* taken for a connection whose SYN is not queued stays in the pcb, which is in
\* no list then; stray holds the pcbs that have such a port.
tcp_connect(s, i, routed, ok) ==
  LET p == s.pcb[i]
      new == tcp_new_port(s)
      t == [s EXCEPT !.pcb[i].ra = "peer", !.pcb[i].la = IF @ = PcbAny /\ routed THEN s.addr ELSE @]
      u == IF p.lp # 0 THEN t ELSE [t EXCEPT !.port = new[2], !.pcb[i].lp = new[1]]
  IN IF p.st # "CLOSED" THEN s
     ELSE IF ~routed THEN t
     ELSE IF u.pcb[i].lp = 0 THEN u
     ELSE IF ~ok THEN [u EXCEPT !.stray = IF p.lp = 0 THEN @ \cup {i} ELSE @]
     ELSE TCP_REG([TCP_RMV(u, "bound", i) EXCEPT !.pcb[i].st = "SYN_SENT", !.stray = @ \ {i}], "active", i)

\* The listening pcb takes the place of pcb i in memory.
tcp_listen_with_backlog_and_err(s, i) ==
  IF s.pcb[i].st # "CLOSED" THEN s
  ELSE LET t == IF s.pcb[i].lp # 0 THEN TCP_RMV(s, "bound", i) ELSE s
       IN TCP_REG([t EXCEPT !.pcb[i].st = "LISTEN", !.pcb[i].n = 0], "listen", i)

\* A SYN for the listening pcb l; the SYN in answer can be queued or not.  With
\* TUN2SOCKS the new pcb has the packet's address and port for its own.
tcp_listen_input_syn(s, l, a, port, ok) ==
  LET t == tcp_alloc(s, s.pcb[l].prio)
      i == LeastOf(Free(t))
      n == TCP_REG([t EXCEPT !.pcb[i] = [NoPcb EXCEPT !.st = "SYN_RCVD", !.la = a, !.lp = port, !.lst = l,
                                                      !.prio = t.pcb[l].prio, !.pend = TRUE],
                             !.pcb[l].n = @ + 1], "active", i)
  IN IF s.pcb[l].n >= Backlog THEN s
     ELSE IF Free(t) = {} THEN t
     ELSE IF ok THEN n ELSE tcp_abandon(n, i)

tcp_netif_ip_addr_changed(s, old, new) ==
  LET bound == {i \in TcpListed(s) : s.pcb[i].la = old}
      doomed == {i \in bound : ListOf(s.pcb[i]) \in {"active", "bound"}}
      t == FoldSet(LAMBDA i, u : tcp_abandon(u, i), s, doomed)
  IN IF old = PcbAny THEN s
     ELSE IF new = PcbAny THEN t
     ELSE [t EXCEPT !.pcb = [i \in PcbIds |-> IF t.pcb[i].st = "LISTEN" THEN Rebind(t, i, old, new)
                                              ELSE t.pcb[i]]]
-----------------------------------------------------------------------------
PcbsInit ==
  pc \in [plan : DOMAIN PcbPool, pcb : {[i \in PcbIds |-> NoPcb]}, list : {<<>>}, bound : {<<>>},
          listen : {<<>>}, active : {<<>>}, tw : {<<>>}, port : {PORT_START}, addr : {CHOOSE a \in PcbAddrs : TRUE},
          moved : {FALSE}, changes : {0}, stray : {{}}]

Udp == pc.plan = "udp"
Raw == pc.plan = "raw"
Tcp == pc.plan \in {"tcp", "conn", "dial"}
Conn == pc.plan \in {"conn", "dial"}
Used == {i \in PcbIds : pc.pcb[i].st # "FREE"}

UdpNew == Udp /\ pc' = udp_new(pc)
UdpBind == Udp /\ \E i \in Used, a \in BindAddrs, port \in Ports : pc' = udp_bind(pc, i, a, port)
UdpConnect == Udp /\ \E i \in Used : pc' = udp_connect(pc, i, "peer")
\* Sending from a pcb without a port binds it.
udp_sendto_if_src(s, i) == IF s.pcb[i].lp = 0 THEN udp_bind(s, i, s.pcb[i].la, 0) ELSE s
UdpSend == Udp /\ \E i \in Used : pc' = udp_sendto_if_src(pc, i)
UdpDisconnect == Udp /\ \E i \in Used : pc' = udp_disconnect(pc, i)
Datagrams(s) ==
  [src : {"peer", "other"}, sport : {0, PeerPort}, dport : {1, PORT_START},
   dst : {"all"} \cup IF s.addr = PcbAny THEN {} ELSE {s.addr, "subnet"}]
UdpInput == Udp /\ \E d \in Datagrams(pc) : pc' = UdpSearch(pc, d)
UdpRemove == Udp /\ \E i \in Used : pc' = udp_remove(pc, i)

RawNew == Raw /\ \E mute \in BOOLEAN : pc' = raw_new(pc, mute)
RawBind == Raw /\ \E i \in Used, a \in BindAddrs : pc' = raw_bind(pc, i, a)
RawConnect == Raw /\ \E i \in Used : pc' = raw_connect(pc, i, "peer")
RawDisconnect == Raw /\ \E i \in Used : pc' = raw_disconnect(pc, i)
RawRemove == Raw /\ \E i \in Used : pc' = raw_remove(pc, i)
RawInput ==
  Raw /\ \E src \in {"peer", "other"}, dst \in PcbAddrs, eaters \in SUBSET Used : pc' = raw_input(pc, src, dst, eaters)[3]

\* tcp_bind takes a pcb that is bound already into the list once more: that
\* it is not called so is its callers' part.
TcpNew == Tcp /\ \E prio \in 1 .. 2 : (prio = 1 \/ Conn) /\ pc' = tcp_new(pc, prio)
TcpBind == Tcp /\ \E i \in Used, a \in BindAddrs, port \in {0, 1} :
                    /\ Conn => a = PcbAny /\ port = 1
                    /\ ~In(i, pc.bound) /\ pc' = tcp_bind(pc, i, a, port)
TcpListen == Tcp /\ \E i \in Used : (Conn => pc.pcb[i].lp # 0) /\ pc' = tcp_listen_with_backlog_and_err(pc, i)
SynDest == CHOOSE a \in PcbAddrs : TRUE
TcpSyn ==
  Tcp /\ \E ok \in BOOLEAN :
           /\ Conn /\ pc.listen # << >>
           /\ pc' = tcp_listen_input_syn(pc, Head(pc.listen), SynDest, PORT_START, ok)
TcpConnect == pc.plan = "dial" /\ \E i \in Used, routed, ok \in BOOLEAN : pc' = tcp_connect(pc, i, routed, ok)
\* The peer answers the SYN of tcp_connect.
TcpConnected ==
  Tcp /\ \E i \in Used : pc.pcb[i].st = "SYN_SENT" /\ pc' = [pc EXCEPT !.pcb[i].st = "ESTABLISHED"]
\* The SYN in answer is acknowledged; without its listener the connection is aborted.
TcpEstablished ==
  Tcp /\ \E i \in Used :
        /\ pc.pcb[i].st = "SYN_RCVD"
        /\ pc' = IF pc.pcb[i].lst = 0 THEN tcp_abandon(pc, i)
                 ELSE [tcp_backlog_accepted(pc, i) EXCEPT !.pcb[i].st = "ESTABLISHED"]
\* What LwipTcp models: the connection is closed by both, in either order.
TcpEnding ==
  Tcp /\ \E i \in Used, st \in {"LAST_ACK", "CLOSING"} :
           pc.pcb[i].st = "ESTABLISHED" /\ pc' = [pc EXCEPT !.pcb[i].st = st]
TcpTimeWait ==
  Tcp /\ \E i \in Used : /\ pc.pcb[i].st = "CLOSING"
                         /\ pc' = TCP_REG([TCP_RMV(tcp_pcb_purge(pc, i), "active", i)
                                             EXCEPT !.pcb[i].st = "TIME_WAIT"], "tw", i)
TcpAbort == Tcp /\ \E i \in Used : pc.pcb[i].st # "LISTEN" /\ pc' = tcp_abandon(pc, i)
TcpClose ==
  Tcp /\ \E i \in Used : \/ pc.pcb[i].st = "CLOSED" /\ pc' = tcp_close_closed(pc, i)
                         \/ pc.pcb[i].st = "LISTEN" /\ pc' = tcp_close_listen(pc, i)
TcpTick ==
  Tcp /\ pc' = [pc EXCEPT !.pcb = [i \in PcbIds |->
                  IF ListOf(pc.pcb[i]) \in {"active", "tw"} /\ pc.pcb[i].age < MaxPcbAge
                  THEN [pc.pcb[i] EXCEPT !.age = @ + 1] ELSE pc.pcb[i]]]

\* netif_do_ip_addr_changed, for the lists of the plan.
netif_do_ip_addr_changed(s, old, new) ==
  CASE s.plan \in {"tcp", "conn", "dial"} -> tcp_netif_ip_addr_changed(s, old, new)
    [] s.plan = "udp" -> udp_netif_ip_addr_changed(s, old, new)
    [] s.plan = "raw" -> raw_netif_ip_addr_changed(s, old, new)
AddrChanged ==
  \E new \in BindAddrs \ {pc.addr} :
    /\ pc.changes < MaxAddrChanges /\ (Conn => new = PcbAny)
    /\ pc' = [netif_do_ip_addr_changed(pc, pc.addr, new) EXCEPT !.addr = new, !.changes = @ + 1,
                !.moved = @ \/ (pc.addr # PcbAny /\ new # PcbAny)]

PcbsNext ==
  \/ UdpNew \/ UdpBind \/ UdpConnect \/ UdpSend \/ UdpDisconnect \/ UdpInput \/ UdpRemove
  \/ RawNew \/ RawBind \/ RawConnect \/ RawDisconnect \/ RawRemove \/ RawInput
  \/ TcpNew \/ TcpBind \/ TcpListen \/ TcpConnect \/ TcpSyn \/ TcpConnected \/ TcpEstablished
  \/ TcpEnding \/ TcpTimeWait \/ TcpAbort \/ TcpClose \/ TcpTick \/ AddrChanged
-----------------------------------------------------------------------------
\* A pcb is in the list of its state, once, and in no other: UDP pcbs with a
\* port, all raw pcbs, and what tcp_pcbs_sane says of TCP's; only a closed pcb
\* with the port of a tcp_connect that failed has a port and no list.
PcbListsSound ==
  /\ Udp => \A i \in PcbIds : In(i, pc.list) <=> pc.pcb[i].lp # 0
  /\ Raw => \A i \in PcbIds : In(i, pc.list) <=> pc.pcb[i].st # "FREE"
  /\ Tcp => \A i \in PcbIds, l \in {"bound", "listen", "active", "tw"} : 
       In(i, pc[l]) <=> (ListOf(pc.pcb[i]) = l /\ ~(i \in pc.stray /\ pc.pcb[i].st = "CLOSED"))
  /\ \A l \in {"list", "bound", "listen", "active", "tw"} : \A j, k \in DOMAIN pc[l] : pc[l][j] = pc[l][k] => j = k

\* As long as no pcb followed its interface to another address, no two pcbs
\* that wait for packets wait for the same port of the same address, but for one
\* with the port of a tcp_connect that failed: tcp_new_port and tcp_bind do not
\* see that port, so it may be given out again, and both may listen on it.
PortsDistinct ==
  ~pc.moved =>
    \A i, j \in PcbIds :
      /\ i # j /\ {i, j} \cap pc.stray = {} /\ pc.pcb[i].lp # 0 /\ pc.pcb[i].lp = pc.pcb[j].lp
      /\ pc.pcb[i].st \in {"UDP", "CLOSED", "LISTEN"} /\ pc.pcb[j].st \in {"UDP", "CLOSED", "LISTEN"}
      => ~SameLocal(pc.pcb[i].la, pc.pcb[j].la)

\* udp_input finds a pcb when there is one that waits for the datagram, and only
\* such a one: one that is connected to its sender before one that is not connected,
\* never one that is connected to somebody else.  Moving pcbs to the front does not
\* change who gets a datagram that is not broadcast, unless pcbs followed their
\* interface to one address.
WaitsFor(s, i, d) ==
  LET p == s.pcb[i]
  IN /\ p.st = "UDP" /\ p.lp = d.dport /\ (IsBroadcast(d) \/ p.la \in {PcbAny, d.dst})
     /\ d.dst = "subnet" => p.la \in {PcbAny, s.addr}
     /\ p.con => p.ra = d.src /\ d.sport = PeerPort
DatagramsFound ==
  Udp =>
    \A d \in Datagrams(pc) :
      LET i == UdpReceiver(pc, d)
          waiting == {j \in PcbIds : WaitsFor(pc, j, d)}
      IN /\ IF waiting = {} THEN i = 0 ELSE i \in waiting
         /\ (\E j \in waiting : pc.pcb[j].con) => pc.pcb[i].con
         /\ ~IsBroadcast(d) /\ ~pc.moved => i = UdpReceiver([pc EXCEPT !.list = Reverse(@)], d)

\* The listener of a connection is a listening pcb: it was not freed under it.
\* The count of connections it has not accepted yet is exact and within its
\* backlog, so that it neither stops listening nor is flooded.
BacklogExact ==
  \A l \in PcbIds :
    /\ pc.pcb[l].lst # 0 => pc.pcb[pc.pcb[l].lst].st = "LISTEN"
    /\ pc.pcb[l].st = "LISTEN" =>
         /\ pc.pcb[l].n = Cardinality({i \in PcbIds : pc.pcb[i].lst = l /\ pc.pcb[i].pend})
         /\ pc.pcb[l].n <= Backlog

\* tcp_alloc frees a live connection for a new one only when there is no memory,
\* and only if it is of lower priority; else the one that goes was closing.
KillsLower ==
  Conn =>
    \A prio \in 1 .. 2 : \A i \in PcbIds :
      pc.pcb[i].st \in {"ESTABLISHED", "SYN_RCVD", "SYN_SENT"} /\ tcp_alloc(pc, prio).pcb[i].st = "FREE" =>
        /\ Free(pc) = {} /\ pc.pcb[i].prio < prio
        /\ \A j \in PcbIds : pc.pcb[j].st \notin {"TIME_WAIT", "LAST_ACK", "CLOSING"}

(* The lists of pcbs, over bind, connect, listen, accept, close, timers and   *)
(* changed addresses: places, ports, the backlog, and who is killed for whom. *)
PcbsSound == PcbListsSound /\ PortsDistinct /\ DatagramsFound /\ BacklogExact /\ KillsLower
=============================================================================
