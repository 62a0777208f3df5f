---------------------------- MODULE LwipDhcp ----------------------------
(* The DHCP client of lwIP (ipv4/dhcp.c): one client per interface, all of  *)
(* them sharing one reference-counted UDP pcb and one transaction counter.  *)
(* Addresses are names, "none" is 0.0.0.0.  Lease times are seconds, timer  *)
(* values are coarse ticks, both scaled down; how long a request timeout    *)
(* lasts is left out (armed or not), so it may fire at any moment.  A       *)
(* transaction identifier is kept as what it decides: the replies that may  *)
(* still arrive with the client's current one (asked, disc), and whether    *)
(* that is also the last one drawn (fresh).  The protocol is switched off   *)
(* in this build (LWIP_DHCP 0); DHCP_DOES_ARP_CHECK is on where it is used. *)
EXTENDS Integers, Sequences, FiniteSets

CONSTANTS DhcpNetifs,      \* the interfaces
          DhcpAddrs,       \* the addresses the servers hand out
          DhcpLeases,      \* lease times in seconds a server may grant
          DhcpTimes,       \* T1 and T2 values in seconds a server may give
          DhcpInfinite,    \* 0xffffffff
          DHCP_COARSE_TIMER_SECS,
          SelectTries,     \* REQUESTs sent before the client starts over
          MaxTries         \* the 255 at which tries saturates

REBOOT_TRIES == 2

ASSUME DhcpAssumption ==
    /\ IsFiniteSet(DhcpNetifs) /\ "none" \notin DhcpAddrs
    /\ DhcpLeases \subseteq 0..DhcpInfinite /\ DhcpTimes \subseteq 0..DhcpInfinite
    /\ DHCP_COARSE_TIMER_SECS \in Nat \ {0}
    /\ SelectTries \in Nat /\ MaxTries > SelectTries /\ MaxTries > REBOOT_TRIES

\* The state of the clients: c[n] the one of interface n, refs and open the
\* shared pcb, fresh the clients whose xid is the last one drawn.
VARIABLE dh

\* One client with every kind of lease ("lease"), one that is offered several
\* addresses ("addrs"), one under failing memory ("mem"), "two" clients
\* without lease timers.
DhcpPlans == {"lease", "addrs", "mem", "two"}

\* struct dhcp after memset(dhcp, 0, ...), with what belongs to the interface
\* (its address and link), and two records of history: left, the ticks the
\* granted lease still runs, and bad, the addresses declined (while not
\* already in use) and not offered again since.
Cleared(addr, link, left, bad) ==
    [st |-> "OFF", tries |-> 0, armed |-> FALSE, t0 |-> 0, t1 |-> 0, t2 |-> 0,
     r1 |-> 0, r2 |-> 0, used |-> 0, ip |-> "none", l0 |-> 0, l1 |-> 0, l2 |-> 0,
     pcb |-> FALSE, asked |-> {}, disc |-> FALSE,
     addr |-> addr, link |-> link, left |-> left, bad |-> bad]

DhcpInit ==
    \E p \in DhcpPlans :
      dh = [plan |-> p, refs |-> 0, open |-> FALSE, fresh |-> {},
            c |-> [n \in DhcpNetifs |-> Cleared("none", TRUE, DhcpInfinite, {})]]

dhcp_supplied_address(c) == c.st \in {"BOUND", "RENEWING", "REBINDING"}

dhcp_inc_pcb_refcount(d) == [d EXCEPT !.refs = @ + 1, !.open = TRUE]

dhcp_dec_pcb_refcount(d) == [d EXCEPT !.refs = @ - 1, !.open = (d.refs # 1)]

dhcp_set_state(c, st) ==
    IF c.st = st THEN c ELSE [c EXCEPT !.st = st, !.tries = 0, !.armed = FALSE]

\* What every sender does after its message: count the try, set the timeout.
Tried(c) == [c EXCEPT !.tries = IF @ < MaxTries THEN @ + 1 ELSE @, !.armed = TRUE]

\* The address a REQUEST names: ciaddr when the client is bound to it.
Wanted(c) == IF c.st \in {"RENEWING", "REBINDING"} THEN c.addr ELSE c.ip

Sent(c, type) ==
    [c EXCEPT !.asked = IF type = "REQUEST" THEN (@ \cup {Wanted(c)}) \ {"none"} ELSE @,
              !.disc = @ \/ type = "DISCOVER"]

\* dhcp_create_msg draws a new xid for a new exchange and sends the message;
\* ok is FALSE when there is no memory for it.
dhcp_create_msg_SameXid(d, n, type, ok) ==
    IF ok THEN [d EXCEPT !.c[n] = Sent(@, type)] ELSE d

dhcp_create_msg(d, n, type, ok) ==
    LET c == d.c[n]
        draws == type # "REQUEST" \/ c.st = "REBOOTING"
        other == draws /\ (c.tries = 0 \/ n \notin d.fresh)
        then == IF other THEN [c EXCEPT !.asked = {}, !.disc = FALSE] ELSE c
    IN  IF ~ok THEN d
        ELSE [d EXCEPT !.c[n] = Sent(then, type),
                       !.fresh = CASE draws /\ c.tries = 0 -> {n}
                                   [] draws -> @ \cup {n}
                                   [] OTHER -> @]

\* Enter a state, send its message, count the try.
Send(d, n, st, type, ok) ==
    LET e == dhcp_create_msg([d EXCEPT !.c[n] = dhcp_set_state(@, st)], n, type, ok)
    IN  [e EXCEPT !.c[n] = Tried(@)]

dhcp_discover(d, n, ok) ==
    Send([d EXCEPT !.c[n].ip = "none"], n, "SELECTING", "DISCOVER", ok)

dhcp_select(d, n, ok) == Send(d, n, "REQUESTING", "REQUEST", ok)

dhcp_renew(d, n, ok) == Send(d, n, "RENEWING", "REQUEST", ok)

dhcp_rebind(d, n, ok) == Send(d, n, "REBINDING", "REQUEST", ok)

dhcp_reboot(d, n, ok) == Send(d, n, "REBOOTING", "REQUEST", ok)

dhcp_decline(d, n, ok) ==
    Send([d EXCEPT !.c[n].bad = @ \cup ({d.c[n].ip} \ {d.c[n].addr})], n, "BACKING_OFF", "DECLINE", ok)

dhcp_check(d, n) == [d EXCEPT !.c[n] = Tried(dhcp_set_state(@, "CHECKING"))]

\* Seconds to coarse ticks, rounded, at least one.
Ticks(secs) ==
    LET t == (secs + DHCP_COARSE_TIMER_SECS \div 2) \div DHCP_COARSE_TIMER_SECS
    IN  IF t = 0 THEN 1 ELSE t

\* The timers an infinite value leaves alone keep their old value.
Bound(c, used) ==
    LET Set(l, old) == IF l # DhcpInfinite THEN Ticks(l) ELSE old
        t1 == Set(c.l1, c.t1)
        t2 == Set(c.l2, c.t2)
    IN  [dhcp_set_state(c, "BOUND") EXCEPT
            !.used = used, !.t0 = Set(c.l0, @),
            !.t1 = IF t1 >= t2 /\ t2 > 0 THEN 0 ELSE t1, !.r1 = Set(c.l1, @),
            !.t2 = t2, !.r2 = Set(c.l2, @),
            !.addr = c.ip,
            !.left = Set(c.l0, DhcpInfinite)]

dhcp_bind(d, n) == [d EXCEPT !.c[n] = Bound(@, 0)]

dhcp_release_and_stop(d, n, ok) ==
    LET c == d.c[n]
        cleared == [c EXCEPT !.ip = "none", !.l0 = 0, !.l1 = 0, !.l2 = 0, !.r1 = 0, !.r2 = 0,
                             !.used = 0, !.t0 = 0]
        e == [d EXCEPT !.c[n] = cleared]
        told == IF dhcp_supplied_address(c) THEN dhcp_create_msg(e, n, "RELEASE", ok) ELSE e
        off == [told EXCEPT !.c[n] = [dhcp_set_state(@, "OFF")
                                        EXCEPT !.addr = "none", !.left = DhcpInfinite,
                                               !.pcb = FALSE]]
    IN  CASE c.st = "OFF" -> d
          [] c.pcb        -> dhcp_dec_pcb_refcount(off)
          [] OTHER        -> off

\* dhcp_start: pcbOk is FALSE when udp_new has no memory, which leaves the
\* client off with ERR_MEM.
dhcp_start(d, n, ok, pcbOk) ==
    LET c == d.c[n]
        let == IF c.pcb THEN dhcp_dec_pcb_refcount(d) ELSE d
        reset == [let EXCEPT !.c[n] = Cleared(c.addr, c.link, c.left, c.bad)]
        up == [dhcp_inc_pcb_refcount(reset) EXCEPT !.c[n].pcb = TRUE]
    IN  CASE reset.refs = 0 /\ ~pcbOk -> reset
          [] ~c.link -> [up EXCEPT !.c[n] = dhcp_set_state(@, "INIT")]
          [] OTHER   -> dhcp_discover(up, n, ok)

Restart(d, n, ok) == dhcp_start(dhcp_release_and_stop(d, n, ok), n, ok, ok)

----------------------------------------------------------------------------
\* Memory may fail only under a plan that says so, and does so for the whole
\* handler.
Memory == IF dh.plan = "mem" THEN BOOLEAN ELSE {TRUE}

Running == IF dh.plan = "two" THEN DhcpNetifs ELSE {CHOOSE n \in DhcpNetifs : TRUE}

\* The application starts the client; a running one is restarted only while
\* the interface has no address from it.
DhcpStart(n, ok) ==
    /\ dh.c[n].addr = "none"
    /\ dh' = dhcp_start(dh, n, ok, ok)

DhcpStop(n, ok) == dh.c[n].st # "OFF" /\ dh' = dhcp_release_and_stop(dh, n, ok)

\* dhcp_inform borrows the pcb for one message of a client of its own.
dhcp_inform(n, ok) ==
    /\ dh.refs = 0 => ok
    /\ dh' = [dhcp_dec_pcb_refcount(dhcp_inc_pcb_refcount(dh)) EXCEPT !.fresh = {}]

DhcpRenew(n, ok) ==
    /\ dhcp_supplied_address(dh.c[n])
    /\ dh' = dhcp_renew(dh, n, ok)

\* The link goes down silently and comes back with dhcp_network_changed.
LinkDown(n) == dh.plan # "two" /\ dh.c[n].link /\ dh' = [dh EXCEPT !.c[n].link = FALSE]

dhcp_network_changed(n, ok) ==
    LET d == [dh EXCEPT !.c[n].link = TRUE, !.c[n].tries = 0]
    IN  /\ ~dh.c[n].link
        /\ dh' = CASE dh.c[n].st \in {"REBINDING", "RENEWING", "BOUND", "REBOOTING"} ->
                        dhcp_reboot(d, n, ok)
                   [] dh.c[n].st = "OFF" -> [dh EXCEPT !.c[n].link = TRUE]
                   [] OTHER -> dhcp_discover(d, n, ok)

\* Another node answers the ARP query for the offered address.
dhcp_arp_reply(n, ok) ==
    /\ dh.c[n].st = "CHECKING"
    /\ dh' = dhcp_decline(dh, n, ok)

dhcp_handle_ack(d, n, a, m) ==
    LET l0 == IF m.lease = -1 THEN d.c[n].l0 ELSE m.lease
    IN  [d EXCEPT !.c[n] = [@ EXCEPT
            !.l0 = l0, !.ip = a,
            !.l1 = IF m.t1 = -1 THEN l0 \div 2 ELSE m.t1,
            !.l2 = IF m.t2 = -1 THEN (l0 * 7) \div 8 ELSE m.t2]]

dhcp_handle_nak(d, n, ok) ==
    dhcp_discover([d EXCEPT !.c[n] = [dhcp_set_state(@, "BACKING_OFF") EXCEPT !.addr = "none",
                                                                            !.left = DhcpInfinite]],
                  n, ok)

dhcp_handle_offer(d, n, a, ok) ==
    dhcp_select([d EXCEPT !.c[n].armed = FALSE, !.c[n].ip = a, !.c[n].bad = @ \ {a}], n, ok)

\* What a server may answer: an offer to a DISCOVER, a NAK or an ACK of an
\* address asked for, each to the client's current transaction and possibly
\* late or twice (-1: the option is not in the message).
Options ==
    LET finite == DhcpLeases \ {DhcpInfinite}
        Plain(ls) == [lease : ls, t1 : {-1}, t2 : {-1}]
    IN  CASE dh.plan = "lease" -> Plain(DhcpLeases \cup {-1}) \cup [lease : finite, t1 : DhcpTimes, t2 : DhcpTimes]
          [] dh.plan = "mem" -> Plain(finite)
          [] OTHER -> Plain({DhcpInfinite})

Offered == IF dh.plan = "addrs" THEN DhcpAddrs ELSE {CHOOSE a \in DhcpAddrs : TRUE}

RecvAck(n, a, m) ==
    LET acked == dhcp_handle_ack(dh, n, a, m)
    IN  /\ dh.c[n].pcb
        /\ a \in dh.c[n].asked
        /\ \/ dh.c[n].st = "REQUESTING" /\ dh' = dhcp_check(acked, n)
           \/ dh.c[n].st \in {"REBOOTING", "REBINDING", "RENEWING"} /\ dh' = dhcp_bind(acked, n)

RecvNak(n, ok) ==
    /\ dh.c[n].pcb /\ dh.c[n].asked # {}
    /\ dh.c[n].st \in {"REBOOTING", "REQUESTING", "REBINDING", "RENEWING"}
    /\ dh' = dhcp_handle_nak(dh, n, ok)

RecvOffer(n, a, ok) ==
    /\ dh.c[n].pcb /\ dh.c[n].disc
    /\ dh.c[n].st = "SELECTING"
    /\ dh' = dhcp_handle_offer(dh, n, a, ok)

dhcp_recv(n, ok) ==
    \/ \E a \in DhcpAddrs, m \in Options : RecvAck(n, a, m)
    \/ RecvNak(n, ok)
    \/ \E a \in Offered : RecvOffer(n, a, ok)

dhcp_timeout(d, n, ok) ==
    LET c == d.c[n]
    IN  CASE c.st \in {"BACKING_OFF", "SELECTING"} -> dhcp_discover(d, n, ok)
          [] c.st = "REQUESTING" /\ c.tries <= SelectTries -> dhcp_select(d, n, ok)
          [] c.st = "REQUESTING" -> Restart(d, n, ok)
          [] c.st = "CHECKING" /\ c.tries <= 1 -> dhcp_check(d, n)
          [] c.st = "CHECKING" -> dhcp_bind(d, n)
          [] c.st = "REBOOTING" /\ c.tries < REBOOT_TRIES -> dhcp_reboot(d, n, ok)
          [] c.st = "REBOOTING" -> dhcp_discover(d, n, ok)
          [] OTHER -> d

\* dhcp_fine_tmr at the tick at which the timeout of interface n ends.
dhcp_fine_tmr(n, ok) ==
    /\ dh.c[n].armed
    /\ dh' = dhcp_timeout([dh EXCEPT !.c[n].armed = FALSE], n, ok)

\* Half of what is left until the next deadline, when that is a tick or more.
Half(deadline, c, old) == IF deadline - c.used >= 2 THEN (deadline - c.used) \div 2 ELSE old

dhcp_t1_timeout(d, n, ok) ==
    LET e == dhcp_renew(d, n, ok)
    IN  IF d.c[n].st \in {"REQUESTING", "BOUND", "RENEWING"}
        THEN [e EXCEPT !.c[n].r1 = Half(e.c[n].t2, e.c[n], @)] ELSE d

dhcp_t2_timeout(d, n, ok) ==
    LET e == dhcp_rebind(d, n, ok)
    IN  IF d.c[n].st \in {"REQUESTING", "BOUND", "RENEWING", "REBINDING"}
        THEN [e EXCEPT !.c[n].r2 = Half(e.c[n].t0, e.c[n], @)] ELSE d

Decreased(t) == IF t > 0 THEN t - 1 ELSE 0

\* One coarse tick of one client: the lease, else T2, else T1.
CoarseTick(d, n, ok) ==
    LET c == d.c[n]
        aged == [c EXCEPT !.used = IF c.t0 > 0 THEN @ + 1 ELSE @,
                          !.left = IF @ = DhcpInfinite THEN @ ELSE Decreased(@)]
        a == [d EXCEPT !.c[n] = aged]
        b == [a EXCEPT !.c[n].r2 = Decreased(@)]
        e == [b EXCEPT !.c[n].r1 = Decreased(@)]
    IN  CASE c.st = "OFF" -> d
          [] c.st # "OFF" /\ c.t0 > 0 /\ aged.used = c.t0 -> Restart(a, n, ok)
          [] c.st # "OFF" /\ ~(c.t0 > 0 /\ aged.used = c.t0) /\ c.r2 = 1 -> dhcp_t2_timeout(b, n, ok)
          [] c.st # "OFF" /\ ~(c.t0 > 0 /\ aged.used = c.t0) /\ c.r2 # 1 /\ c.r1 = 1 ->
               dhcp_t1_timeout(e, n, ok)
          [] OTHER -> e

\* dhcp_coarse_tmr visits the interfaces one after the other; no client's
\* visit depends on another's, so each is a step of its own.
dhcp_coarse_tmr(n, ok) ==
    /\ dh.plan # "two"
    /\ dh' = CoarseTick(dh, n, ok)

DhcpNext ==
    \E n \in Running, ok \in Memory :
        \/ DhcpStart(n, ok)
        \/ DhcpStop(n, ok)
        \/ dhcp_inform(n, ok)
        \/ DhcpRenew(n, ok)
        \/ LinkDown(n)
        \/ dhcp_network_changed(n, ok)
        \/ dhcp_arp_reply(n, ok)
        \/ dhcp_recv(n, ok)
        \/ dhcp_fine_tmr(n, ok)
        \/ dhcp_coarse_tmr(n, ok)

----------------------------------------------------------------------------
\* The shared pcb is open exactly while some client uses it, and its count is
\* the number of clients that do, through restarts, failed starts and stops.
DhcpPcbCounted ==
    /\ dh.refs = Cardinality({n \in DhcpNetifs : dh.c[n].pcb})
    /\ dh.open = (dh.refs > 0)
    /\ \A n \in DhcpNetifs : dh.c[n].st # "OFF" => dh.c[n].pcb

\* An address is never used longer than the lease the last ACK granted for it,
\* whatever state the client is in when the lease ends.
LeaseHonoured == \A n \in DhcpNetifs : dh.c[n].addr # "none" => dh.c[n].left > 0

\* A client that waits for an answer has its timeout armed: no lost message,
\* and no failed allocation of one, stops it for good.
DhcpKeepsTrying ==
    \A n \in DhcpNetifs :
        dh.c[n].st \in {"SELECTING", "REQUESTING", "CHECKING", "REBOOTING", "BACKING_OFF"} =>
            dh.c[n].armed

\* An address the client declined is not taken again unless a server offered
\* it anew: a late ACK of the declined exchange carries an old xid.
DeclinedNotBound ==
    dh.plan # "mem" => \A n \in DhcpNetifs : dh.c[n].addr \notin dh.c[n].bad

(* The DHCP client, over lost and late messages and conflicts: the shared pcb is *)
(* counted, no address outlives its lease or its refusal, and it keeps trying.   *)
DhcpSound == DhcpPcbCounted /\ LeaseHonoured /\ DhcpKeepsTrying /\ DeclinedNotBound
=============================================================================
