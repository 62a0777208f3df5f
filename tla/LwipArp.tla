----------------------------- MODULE LwipArp -----------------------------
(* The ARP table of lwIP (ipv4/etharp.c) and the link-local address         *)
(* configuration that listens on it (ipv4/autoip.c), on one interface.      *)
(* IP and hardware addresses are names; a packet is a number, held from     *)
(* when the table queues it until it is sent or dropped.  Both parts are    *)
(* switched off in this build (LWIP_ARP 0, LWIP_AUTOIP 0): the tunnel       *)
(* interface has no link layer.                                             *)
EXTENDS Integers, Sequences, FiniteSets, SequencesExt

CONSTANTS ARP_TABLE_SIZE, ARP_MAXAGE, ARP_MAXPENDING, ARP_QUEUE_LEN,
          ArpHosts,       \* the on-link IP addresses of other nodes
          ArpGw,          \* the one of them that is the gateway
          ArpHws,         \* the hardware addresses of other nodes
          ArpPackets,     \* the packets
          AutoSpace,      \* the number of link-local candidates
          PROBE_NUM, ANNOUNCE_NUM, DEFEND_INTERVAL, MAX_CONFLICTS,
          RATE_LIMIT_INTERVAL

ASSUME ArpAssumption ==
    /\ ARP_TABLE_SIZE \in Nat \ {0} /\ ARP_MAXPENDING \in 1..ARP_MAXAGE
    /\ ARP_QUEUE_LEN \in Nat \ {0}
    /\ ArpGw \in ArpHosts
    /\ {PROBE_NUM, ANNOUNCE_NUM, DEFEND_INTERVAL, AutoSpace} \subseteq Nat \ {0}
    /\ MAX_CONFLICTS \in Nat /\ RATE_LIMIT_INTERVAL \in Nat \ {0}

\* tab the table, cached etharp_cached_entry, held the packets the table has a
\* reference to, said[h] the hardware address host h last spoke from since it
\* has an entry, astray whether a packet ever went to another one; plan the build options; au the
\* autoip client.
VARIABLE ar

ArpPlans == {p \in [queueing : BOOLEAN, static : BOOLEAN, auto : BOOLEAN] :
               Cardinality({f \in DOMAIN p : p[f]}) = 1}

NoEntry == [st |-> "EMPTY", ip |-> "none", hw |-> "none", age |-> 0, q |-> <<>>]

AutoOff == [st |-> "OFF", ttw |-> 0, sent |-> 0, ip |-> 0, last |-> 0, tried |-> 0,
            addr |-> "none", probes |-> 0, claims |-> 0]

ArpInit ==
    \E p \in ArpPlans :
      ar = [plan |-> p, tab |-> [i \in 1..ARP_TABLE_SIZE |-> NoEntry], cached |-> 1, held |-> {},
            said |-> [h \in ArpHosts |-> "none"], astray |-> FALSE, au |-> AutoOff]

----------------------------------------------------------------------------
Stable == {"STABLE", "REREQUESTING_1", "REREQUESTING_2", "STATIC"}

\* Free an entry with the packets it queues.

etharp_free_entry(a, i) ==
    [a EXCEPT !.tab[i] = NoEntry, !.held = @ \ ToSet(a.tab[i].q), !.said[a.tab[i].ip] = "none"]

\* The oldest of a set of entries, the last of them when several are.
OldestArp(a, I) ==
    CHOOSE i \in I : \A j \in I : a.tab[j].age < a.tab[i].age \/ (a.tab[j].age = a.tab[i].age /\ j <= i)

\* The entry to recycle: stable before pending before pending with packets.
Recycled(a) ==
    LET stable == {i \in 1..ARP_TABLE_SIZE : a.tab[i].st \in Stable \ {"STATIC"}}
        pending == {i \in 1..ARP_TABLE_SIZE : a.tab[i].st = "PENDING" /\ a.tab[i].q = <<>>}
        queue == {i \in 1..ARP_TABLE_SIZE : a.tab[i].st = "PENDING" /\ a.tab[i].q # <<>>}
    IN  CASE stable # {} -> OldestArp(a, stable)
          [] stable = {} /\ pending # {} -> OldestArp(a, pending)
          [] stable = {} /\ pending = {} /\ queue # {} -> OldestArp(a, queue)
          [] OTHER -> 0

\* etharp_find_entry: the entry of ip, or (unless only finding) a new one; the
\* result is the table and the index, 0 for ERR_MEM.
etharp_find_entry(a, ip, findOnly) ==
    LET has == {i \in 1..ARP_TABLE_SIZE : a.tab[i].st # "EMPTY" /\ a.tab[i].ip = ip}
        empty == {i \in 1..ARP_TABLE_SIZE : a.tab[i].st = "EMPTY"}
        slot == IF empty # {} THEN CHOOSE i \in empty : \A j \in empty : i <= j ELSE Recycled(a)
        freed == IF empty # {} THEN a ELSE etharp_free_entry(a, slot)
    IN  CASE has # {} -> [a |-> a, i |-> CHOOSE i \in has : \A j \in has : i <= j]
          [] has = {} /\ (findOnly \/ slot = 0) -> [a |-> a, i |-> 0]
          [] OTHER -> [a |-> [freed EXCEPT !.tab[slot].ip = ip, !.tab[slot].age = 0], i |-> slot]

\* A packet for next hop ip leaves for the hardware address of entry i.
ethernet_output(a, i, ip) ==
    [a EXCEPT !.astray = \/ @
                         \/ a.tab[i].ip # ip
                         \/ a.tab[i].st # "STATIC" /\ a.tab[i].hw # a.said[ip]]

\* etharp_update_arp_entry: what an ARP packet or a static entry says of ip.
etharp_update_arp_entry(a, ip, hw, findOnly, static) ==
    LET f == etharp_find_entry(a, ip, findOnly)
        e == f.a.tab[f.i]
        set == [f.a EXCEPT !.tab[f.i] = [e EXCEPT !.st = IF static THEN "STATIC" ELSE "STABLE",
                                                  !.hw = hw, !.age = 0, !.q = <<>>],
                           !.held = @ \ ToSet(e.q)]
    IN  CASE f.i = 0 -> a
          [] f.i # 0 /\ ~static /\ e.st = "STATIC" -> f.a
          [] f.i # 0 /\ (static \/ e.st # "STATIC") /\ e.q = <<>> -> set
          [] OTHER -> ethernet_output(set, f.i, ip)

\* 30 seconds before its end, scaled.
ARP_AGE_REREQUEST_USED_UNICAST == ARP_MAXAGE - 2

\* An entry in use near its end is asked for again; ok is FALSE when there is
\* no memory for the request.
etharp_output_to_arp_index(a, i, ip, ok) ==
    LET e == a.tab[i]
    IN  ethernet_output(
          IF e.st = "STABLE" /\ e.age >= ARP_AGE_REREQUEST_USED_UNICAST /\ ok
          THEN [a EXCEPT !.tab[i].st = "REREQUESTING_1"] ELSE a, i, ip)

\* etharp_query: queue packet p until ip is resolved; ok: memory for the copy
\* and for the queue element.
etharp_query(a, ip, p, ok) ==
    LET f == etharp_find_entry(a, ip, FALSE)
        b == [f.a EXCEPT !.tab[f.i].st = IF @ = "EMPTY" THEN "PENDING" ELSE @]
        old == b.tab[f.i].q
        grown == Append(old, p)
        q == CASE ~a.plan.queueing -> <<p>>
               [] a.plan.queueing /\ Len(old) >= ARP_QUEUE_LEN -> Tail(grown)
               [] OTHER -> grown
    IN  CASE f.i = 0 -> a
          [] f.i # 0 /\ b.tab[f.i].st \in Stable -> ethernet_output([b EXCEPT !.cached = f.i], f.i, ip)
          [] f.i # 0 /\ b.tab[f.i].st = "PENDING" /\ ~ok -> b
          [] OTHER -> [b EXCEPT !.tab[f.i].q = q, !.held = (@ \ ToSet(old)) \cup ToSet(q)]

\* The next hop of a destination: the gateway for the far ones.
NextHop(dst) == IF dst \in ArpHosts THEN dst ELSE ArpGw

\* The cached entry is tried before the table.
ArpEntryOf_Hint(a, ip) == IF a.tab[a.cached].st \in Stable THEN a.cached ELSE 0

ArpEntryOf(a, ip) ==
    LET fits(i) == a.tab[i].st \in Stable /\ a.tab[i].ip = ip
        found == {i \in 1..ARP_TABLE_SIZE : fits(i)}
    IN  CASE fits(a.cached) -> a.cached
          [] ~fits(a.cached) /\ found # {} -> CHOOSE i \in found : \A j \in found : i <= j
          [] OTHER -> 0

etharp_output(p, dst, ok) ==
    LET ip == NextHop(dst)
        i == ArpEntryOf(ar, ip)
    IN  /\ p \notin ar.held
        /\ ar' = IF i # 0 THEN etharp_output_to_arp_index([ar EXCEPT !.cached = i], i, ip, ok)
                 ELSE etharp_query(ar, ip, p, ok)

\* etharp_tmr ages every entry in turn.
Aged(a, i) ==
    LET e == a.tab[i]
        old == e.age + 1 >= ARP_MAXAGE \/ (e.st = "PENDING" /\ e.age + 1 >= ARP_MAXPENDING)
        next == CASE e.st = "REREQUESTING_1" -> "REREQUESTING_2"
                  [] e.st = "REREQUESTING_2" -> "STABLE"
                  [] OTHER -> e.st
    IN  CASE e.st \in {"EMPTY", "STATIC"} -> a
          [] e.st \notin {"EMPTY", "STATIC"} /\ old -> etharp_free_entry(a, i)
          [] OTHER -> [a EXCEPT !.tab[i].age = @ + 1, !.tab[i].st = next]

etharp_tmr == ar' = FoldLeft(Aged, ar, [i \in 1..ARP_TABLE_SIZE |-> i])

etharp_cleanup_netif ==
    ar' = FoldLeft(LAMBDA a, i : IF a.tab[i].st # "EMPTY" THEN etharp_free_entry(a, i) ELSE a,
                   ar, [i \in 1..ARP_TABLE_SIZE |-> i])

etharp_add_static_entry(ip, hw) ==
    /\ ar.plan.static
    /\ ar' = etharp_update_arp_entry(ar, ip, hw, FALSE, TRUE)

etharp_remove_static_entry(ip) ==
    LET f == etharp_find_entry(ar, ip, TRUE)
    IN  /\ f.i # 0
        /\ ar.tab[f.i].st = "STATIC"
        /\ ar' = etharp_free_entry(ar, f.i)

----------------------------------------------------------------------------
\* autoip: candidates are numbered; tried counts the conflicts (as a u8, whose
\* end is beyond the bound) and picks the next candidate.
autoip_create_addr(u) == u.tried % AutoSpace

autoip_start_probing(u) ==
    [u EXCEPT !.st = "PROBING", !.sent = 0, !.probes = 0,
              !.ttw = IF u.tried > MAX_CONFLICTS THEN RATE_LIMIT_INTERVAL ELSE 0]

autoip_start(u) ==
    autoip_start_probing([u EXCEPT !.ip = autoip_create_addr(u), !.last = 0, !.addr = "none",
                                   !.claims = 0])

autoip_restart(u) == autoip_start([u EXCEPT !.tried = @ + 1])

\* A second claim within the defence interval takes the address away.

autoip_handle_arp_conflict(u) ==
    IF u.last > 0 THEN autoip_restart(u)
    ELSE [u EXCEPT !.last = DEFEND_INTERVAL, !.claims = 1]

\* An ARP packet that names the candidate: its sender claims it (sender), or
\* probes for it with no address of its own.
autoip_arp_reply(u, sender) ==
    CASE u.st = "OFF" -> u
      [] u.st = "PROBING" -> autoip_restart(u)
      [] u.st \notin {"OFF", "PROBING"} /\ sender -> autoip_handle_arp_conflict(u)
      [] OTHER -> u

\* Claims remembers the rivals heard since the last defence interval began.
Passed(u) ==
    LET last == IF u.last > 0 THEN u.last - 1 ELSE 0
    IN  [u EXCEPT !.last = last, !.ttw = IF @ > 0 THEN @ - 1 ELSE 0,
                  !.claims = IF last = 0 THEN 0 ELSE @]

autoip_tmr(u) ==
    LET v == Passed(u)
    IN  CASE v.st = "PROBING" /\ v.ttw = 0 /\ v.sent >= PROBE_NUM ->
               [v EXCEPT !.st = "ANNOUNCING", !.addr = v.ip, !.sent = 1, !.ttw = 2]
          [] v.st = "PROBING" /\ v.ttw = 0 /\ v.sent < PROBE_NUM ->
               [v EXCEPT !.sent = @ + 1, !.probes = @ + 1, !.ttw = IF v.sent + 1 = PROBE_NUM THEN 2 ELSE 1]
          [] v.st = "ANNOUNCING" /\ v.ttw = 0 /\ v.sent + 1 >= ANNOUNCE_NUM ->
               [v EXCEPT !.st = "BOUND", !.sent = 0]
          [] v.st = "ANNOUNCING" /\ v.ttw = 0 /\ v.sent + 1 < ANNOUNCE_NUM ->
               [v EXCEPT !.sent = @ + 1, !.ttw = 2]
          [] OTHER -> v

AutoipStep ==
    LET u == ar.au
    IN  /\ ar.plan.auto
        /\ \/ u.st = "OFF" /\ ar' = [ar EXCEPT !.au = autoip_start(@)]
           \/ u.st # "OFF" /\ ar' = [ar EXCEPT !.au = autoip_start_probing(@)]
           \/ u.st # "OFF" /\ ar' = [ar EXCEPT !.au.st = "OFF", !.au.addr = "none"]
           \/ u.st # "OFF" /\ ar' = [ar EXCEPT !.au = autoip_tmr(@)]
           \/ \E sender \in BOOLEAN :
                 u.tried <= MAX_CONFLICTS + 1 /\ ar' = [ar EXCEPT !.au = autoip_arp_reply(@, sender)]

----------------------------------------------------------------------------
\* etharp_input of a packet in which host ip speaks from hw; only one that is
\* for this node makes a new entry.
etharp_input(ip, hw, forUs) ==
    LET b == etharp_update_arp_entry([ar EXCEPT !.said[ip] = hw], ip, hw, ~forUs, FALSE)
        known == \E i \in 1..ARP_TABLE_SIZE : b.tab[i].ip = ip
    IN  ar' = IF known THEN b ELSE [b EXCEPT !.said[ip] = "none"]

ArpStep ==
    \/ \E p \in ArpPackets, dst \in ArpHosts \cup {"far"}, ok \in BOOLEAN : etharp_output(p, dst, ok)
    \/ \E ip \in ArpHosts, hw \in ArpHws, forUs \in BOOLEAN : etharp_input(ip, hw, forUs)
    \/ etharp_tmr
    \/ etharp_cleanup_netif
    \/ \E ip \in ArpHosts, hw \in ArpHws : etharp_add_static_entry(ip, hw)
    \/ \E ip \in ArpHosts : etharp_remove_static_entry(ip)

ArpNext == (~ar.plan.auto /\ ArpStep) \/ AutoipStep

----------------------------------------------------------------------------
\* Every packet the table holds a reference to is queued on exactly one entry,
\* a pending one, and its reference is given back when the entry is resolved,
\* recycled, aged out or removed.
ArpQueuesSound ==
    LET tab == ar.tab
        queued == UNION {ToSet(tab[i].q) : i \in 1..ARP_TABLE_SIZE}
    IN  /\ ar.held = queued
        /\ \A i \in 1..ARP_TABLE_SIZE :
             /\ tab[i].q # <<>> => tab[i].st = "PENDING"
             /\ IsInjective(tab[i].q) /\ Len(tab[i].q) <= ARP_QUEUE_LEN
             /\ \A j \in 1..ARP_TABLE_SIZE :
                  i # j => /\ ToSet(tab[i].q) \cap ToSet(tab[j].q) = {}
                           /\ tab[i].st # "EMPTY" /\ tab[j].st # "EMPTY" => tab[i].ip # tab[j].ip

\* No packet goes to a hardware address other than the one its next hop last
\* spoke from, through the cached index, recycled entries and late replies.
NotAstray == ~ar.astray

\* A link-local address is on the interface only after PROBE_NUM probes for it
\* that nobody answered.
ProbedFirst == ar.au.st \in {"ANNOUNCING", "BOUND"} => ar.au.addr = ar.au.ip /\ ar.au.probes >= PROBE_NUM

\* The client defends its address once: a second rival within the defence
\* interval makes it give the address up.
DefendsOnce == ar.au.claims <= 1

(* ARP and the addresses AUTOIP claims: packets wait in one queue and leave to *)
(* the right station; an address is probed for first and defended once.        *)
ArpSound == ArpQueuesSound /\ NotAstray /\ ProbedFirst /\ DefendsOnce
=============================================================================
