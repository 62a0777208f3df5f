------------------------------ MODULE LwipDhcp6 ------------------------------
(* The stateless DHCPv6 client of dhcp6.c (LWIP_IPV6_DHCP6, off in this       *)
(* build): information requests triggered by router advertisements, their     *)
(* retransmission, and the name servers taken from the reply. The interfaces  *)
(* share one UDP pcb, counted by dhcp6_pcb_refcount.                          *)
EXTENDS Integers, FiniteSets, Sequences, SequencesExt

CONSTANTS
  Dhcp6Netifs,        \* interfaces
  Dhcp6Xids,          \* transaction ids LWIP_RAND() draws from
  DHCP6_TIMER_MSECS,  \* period of dhcp6_tmr
  Dhcp6Calls,         \* bound: times a request is started, once when memory is short
  Dhcp6Tries,         \* bound: tries is a u8_t that stops at 255
  Dhcp6Replies,       \* option lists of replies: sequences of <<code, length>>
  PROVIDE_DNS_SERVERS \* LWIP_DHCP6_PROVIDE_DNS_SERVERS

ASSUME Dhcp6Assumption ==
  {DHCP6_TIMER_MSECS, Dhcp6Calls, Dhcp6Tries, PROVIDE_DNS_SERVERS} \subseteq Nat \ {0}

VARIABLE d6
\* d6.cl[n]  the struct dhcp6 of interface n, NoClient when there is none
\* d6.refs   dhcp6_pcb_refcount
\* d6.pcb    dhcp6_pcb is not NULL
\* d6.net    requests on the network and the replies to come: [netif, xid, round]
\* d6.round  how often interface n started to ask (bounded by Dhcp6Calls)
\* d6.dns    what the last reply set: the offsets the servers were read from
\* d6.fresh  every accepted reply answered the current round
\* d6.mem    allocations may fail

NoClient == [state |-> "none"]
ZeroClient == [state |-> "OFF", xid |-> 0, pcb |-> FALSE, tries |-> 0, timeout |-> 0]

Dhcp6Init ==
  \E mem \in BOOLEAN :
    d6 = [cl |-> [n \in Dhcp6Netifs |-> NoClient], refs |-> 0, pcb |-> FALSE, net |-> {},
          round |-> [n \in Dhcp6Netifs |-> 0], dns |-> <<>>, fresh |-> TRUE, mem |-> mem]

(* Outcomes of an allocation. *)
Allocated6 == IF d6.mem THEN BOOLEAN ELSE {TRUE}

Has(n) == d6.cl[n].state # "none"

(* dhcp6_inc_pcb_refcount: the first user makes the pcb; got says whether     *)
(* udp_new_ip6 found memory.                                                  *)
dhcp6_inc_pcb_refcount(s, got) ==
  IF s.refs = 0 /\ ~got THEN s ELSE [s EXCEPT !.refs = @ + 1, !.pcb = TRUE]

(* dhcp6_dec_pcb_refcount: the last user removes it. *)
dhcp6_dec_pcb_refcount(s) == [s EXCEPT !.refs = @ - 1, !.pcb = s.refs # 1]

(* dhcp6_set_state: only a change of the state resets the retries. *)
dhcp6_set_state(c, new) ==
  IF c.state = new THEN c ELSE [c EXCEPT !.state = new, !.tries = 0, !.timeout = 0]

(* dhcp6_get_struct: allocate the struct and take a share in the pcb; without *)
(* a pcb the struct is given back.                                            *)

dhcp6_get_struct(s, n, heap, got) ==
  LET c == IF s.cl[n].state = "none" THEN ZeroClient ELSE s.cl[n]
      t == dhcp6_inc_pcb_refcount(s, got)
  IN
  CASE s.cl[n].state = "none" /\ ~heap -> s
    [] c.pcb -> s
    [] OTHER -> IF t.refs = s.refs THEN [s EXCEPT !.cl[n] = NoClient]
                                   ELSE [t EXCEPT !.cl[n] = [c EXCEPT !.pcb = TRUE]]

dhcp6_stateless_enabled(c) == c.state \in {"STATELESS_IDLE", "REQUESTING_CONFIG"}

dhcp6_enable_stateless ==
  \E n \in Dhcp6Netifs, heap \in Allocated6, got \in Allocated6 :
    LET s == dhcp6_get_struct(d6, n, heap, got) IN
    d6' = IF s.cl[n].state = "none" \/ dhcp6_stateless_enabled(s.cl[n]) THEN s
          ELSE [s EXCEPT !.cl[n] = dhcp6_set_state(@, "STATELESS_IDLE")]

(* dhcp6_disable gives the share in the pcb back; the struct stays. *)
dhcp6_disable ==
  \E n \in Dhcp6Netifs :
    /\ Has(n) /\ d6.cl[n].state # "OFF"
    /\ LET s == [d6 EXCEPT !.cl[n] = dhcp6_set_state(@, "OFF")] IN
       d6' = IF s.cl[n].pcb
             THEN [dhcp6_dec_pcb_refcount(s) EXCEPT !.cl[n].pcb = FALSE]
             ELSE s

(* dhcp6_cleanup of a disabled client: the struct goes back to the heap. *)
dhcp6_cleanup ==
  \E n \in Dhcp6Netifs :
    /\ Has(n) /\ d6.cl[n].state = "OFF"
    /\ d6' = [d6 EXCEPT !.cl[n] = NoClient]

(* The time to the next retry, in ticks, rounded up. *)
Backoff(tries) ==
  LET msecs == (IF tries < 6 THEN 2 ^ tries ELSE 60) * 1000 IN
  (msecs + DHCP6_TIMER_MSECS - 1) \div DHCP6_TIMER_MSECS

SmallerOfTwo(a, b) == IF a < b THEN a ELSE b

(* dhcp6_create_msg and dhcp6_information_request: a new transaction id on    *)
(* the first try only, drawn when the message can be allocated; the timer     *)
(* runs whether it could or not. The random ids are taken to be unused; one   *)
(* is as good as another, and the least is used again the soonest.            *)
dhcp6_create_msg(c, sent, xid) == IF sent /\ c.tries = 0 THEN [c EXCEPT !.xid = xid] ELSE c

dhcp6_information_request(s, n, sent, xid) ==
  LET c == dhcp6_create_msg(s.cl[n], sent, xid)
      d == dhcp6_set_state(c, "REQUESTING_CONFIG")
      tries == SmallerOfTwo(d.tries + 1, Dhcp6Tries)
      req == [netif |-> n, xid |-> c.xid, round |-> s.round[n]]
  IN
  [s EXCEPT !.cl[n] = [d EXCEPT !.tries = tries, !.timeout = Backoff(tries)],
            !.net = IF sent THEN @ \cup {req} ELSE @]

UnusedXids == Dhcp6Xids \ {r.xid : r \in d6.net}
LeastUnused == {x \in UnusedXids : \A y \in UnusedXids : x <= y}

(* dhcp6_nd6_ra_trigger: the O flag of a router advertisement starts a        *)
(* request (dhcp6_request_config), its absence ends one                       *)
(* (dhcp6_abort_config_request).                                              *)
dhcp6_nd6_ra_trigger ==
  \E n \in Dhcp6Netifs, other_config \in BOOLEAN :
    /\ Has(n) /\ dhcp6_stateless_enabled(d6.cl[n])
    /\ \/ /\ other_config
          /\ d6.cl[n].state = "STATELESS_IDLE"
          /\ d6.round[n] < (IF d6.mem THEN 1 ELSE Dhcp6Calls)
          /\ \E sent \in Allocated6, xid \in LeastUnused :
               d6' = dhcp6_information_request([d6 EXCEPT !.round[n] = @ + 1], n, sent, xid)
       \/ /\ ~other_config
          /\ d6.cl[n].state = "REQUESTING_CONFIG"
          /\ d6' = [d6 EXCEPT !.cl[n] = dhcp6_set_state(@, "STATELESS_IDLE")]

(* dhcp6_tmr: interface after interface, the one whose time has run out asks  *)
(* again (dhcp6_timeout).                                                     *)
Ticked6(s, n, sent) ==
  LET c == s.cl[n]
      t == [s EXCEPT !.cl[n].timeout = @ - 1]
  IN
  CASE c.state = "none" \/ c.timeout = 0 -> s
    [] c.state # "none" /\ c.timeout > 1 -> t
    [] OTHER -> IF c.state = "REQUESTING_CONFIG"
                THEN dhcp6_information_request(t, n, sent, c.xid) ELSE t

dhcp6_tmr ==
  \E sent \in Allocated6 :
    d6' = FoldLeft(LAMBDA s, n : Ticked6(s, n, sent), d6, SetToSeq(Dhcp6Netifs))

(* dhcp6_parse_reply: walk over the options behind the message header (one    *)
(* that would wrap a u16_t offset is refused); the last of a kind counts.     *)
MsgHeader == 4
Addr6Len == 16

OptionStart(opts, i) ==
  FoldLeft(LAMBDA o, k : o + 4 + opts[k][2], MsgHeader, [k \in 1 .. i - 1 |-> k]) + 4

dhcp6_parse_reply(opts, code) ==
  LET found == {i \in DOMAIN opts : opts[i][1] = code} IN
  IF found = {} THEN <<0, 0>>
  ELSE LET i == CHOOSE k \in found : \A j \in found : j <= k IN
       <<OptionStart(opts, i), opts[i][2]>>

(* dhcp6_handle_config_reply: one server per address of the option, as many   *)
(* as there is room for.                                                      *)

dhcp6_handle_config_reply(opts) ==
  LET o == dhcp6_parse_reply(opts, "DNS_SERVERS") IN
  [n \in 1 .. SmallerOfTwo(PROVIDE_DNS_SERVERS, (o[2] + Addr6Len - 1) \div Addr6Len)
     |-> o[1] + (n - 1) * Addr6Len]

(* dhcp6_recv: a reply counts for an enabled client whose id it carries, and  *)
(* while a request is outstanding.                                            *)

Accepts(n, r) ==
  /\ d6.cl[n].pcb
  /\ r.xid = d6.cl[n].xid
  /\ d6.cl[n].state = "REQUESTING_CONFIG"

dhcp6_recv ==
  \E r \in d6.net, opts \in Dhcp6Replies :
    LET n == r.netif IN
    /\ Has(n)
    /\ d6' = IF Accepts(n, r)
             THEN [d6 EXCEPT !.cl[n] = dhcp6_set_state(@, "STATELESS_IDLE"),
                             !.dns = [opts |-> opts, at |-> dhcp6_handle_config_reply(opts)],
                             !.fresh = @ /\ r.round = d6.round[n],
                             !.net = @ \ {r}]
             ELSE [d6 EXCEPT !.net = @ \ {r}]

(* A request or its reply is lost. *)
Lost6 == \E r \in d6.net : d6' = [d6 EXCEPT !.net = @ \ {r}]

Dhcp6Next ==
  \/ dhcp6_enable_stateless \/ dhcp6_disable \/ dhcp6_cleanup
  \/ dhcp6_nd6_ra_trigger \/ dhcp6_tmr \/ dhcp6_recv \/ Lost6

-------------------------------------------------------------------------------
(* dhcp6_pcb exists exactly while some interface has a share in it, and the   *)
(* count is the number of those interfaces, also after failed allocations.    *)
Dhcp6PcbCounted ==
  /\ d6.refs = Cardinality({n \in Dhcp6Netifs : Has(n) /\ d6.cl[n].pcb})
  /\ d6.pcb <=> d6.refs > 0
  /\ \A n \in Dhcp6Netifs : Has(n) /\ d6.cl[n].state # "OFF" => d6.cl[n].pcb

(* A client that waits for a reply has a retry ahead of it, so that a lost    *)
(* request, a lost reply or a failed allocation does not end the exchange;    *)
(* one that does not wait has no timer running.                               *)
Dhcp6KeepsAsking ==
  \A n \in Dhcp6Netifs : Has(n) =>
    (d6.cl[n].state = "REQUESTING_CONFIG" <=> d6.cl[n].timeout > 0)

(* As long as messages can be allocated, a reply is accepted only for the     *)
(* exchange it belongs to: one sent before the client was told to stop or was *)
(* disabled does not answer the next exchange.                                *)
Dhcp6AnswersFresh == ~d6.mem => d6.fresh

(* The servers that dhcp6_handle_config_reply sets are the first addresses of *)
(* the DNS option, each read where the option has it.                         *)
ServersFromOption ==
  d6.dns # <<>> =>
    LET opts == d6.dns.opts
        Within(i) == {OptionStart(opts, i) + k * Addr6Len :
                        k \in 0 .. (opts[i][2] \div Addr6Len) - 1}
    IN  \E i \in DOMAIN opts \cup {0} :
          /\ i = 0 => d6.dns.at = <<>> /\ \A j \in DOMAIN opts : opts[j][1] # "DNS_SERVERS"
          /\ i # 0 =>
               /\ opts[i][1] = "DNS_SERVERS"
               /\ IsInjective(d6.dns.at)
               /\ ToSet(d6.dns.at) \subseteq Within(i)
               /\ Len(d6.dns.at) = SmallerOfTwo(PROVIDE_DNS_SERVERS, Cardinality(Within(i)))

(* The DHCPv6 client, over lost and late replies: the shared pcb is counted, it *)
(* asks again until answered, takes fresh answers only, and reads them right.   *)
Dhcp6Sound == Dhcp6PcbCounted /\ Dhcp6KeepsAsking /\ Dhcp6AnswersFresh /\ ServersFromOption
===============================================================================
