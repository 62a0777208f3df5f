---------------------------- MODULE LwipGroups ---------------------------
(* Multicast group membership in lwIP: IGMPv2 (ipv4/igmp.c) and MLDv1       *)
(* (ipv6/mld6.c).  The two keep the same kind of list per interface and run *)
(* the same delaying-member machine; proto says which one a behaviour runs. *)
(* IGMP keeps the all-systems group at the head of its list from igmp_start *)
(* on.  Groups are names, delays are timer ticks.  Both are switched off in *)
(* this build (LWIP_IGMP 0, LWIP_IPV6_MLD 0).                               *)
EXTENDS Integers, Sequences, FiniteSets, SequencesExt

CONSTANTS GroupNetifs,    \* the interfaces
          GroupAddrs,     \* the groups applications join
          JoinDelay,      \* IGMP_JOIN_DELAYING_MEMBER_TMR
          V1Delay,        \* IGMP_V1_DELAYING_MEMBER_TMR
          GroupDelays,    \* the response delays queries carry
          MaxJoins        \* bound on the joins of one group at a time

ASSUME GroupAssumption ==
    /\ "allsystems" \notin GroupAddrs
    /\ JoinDelay \in Nat \ {0} /\ V1Delay \in Nat \ {0} /\ GroupDelays \subseteq Nat
    /\ MaxJoins \in 1..255

\* list[n] the groups of interface n; joins, reporter and due are history: the
\* joins not yet left, whether this node's report is the last the routers
\* heard, and the ticks within which a query must still be answered.
VARIABLE gr

Group(a, st) == [addr |-> a, st |-> st, timer |-> 0, last |-> FALSE, use |-> 0]

\* igmp_start puts the all-systems group on the list; MLD starts with none.
GroupInit ==
    \E p \in {"igmp", "mld"}, N \in {{CHOOSE n \in GroupNetifs : TRUE}, GroupNetifs} :
      LET head == IF p = "igmp" THEN <<[Group("allsystems", "IDLE") EXCEPT !.use = 1]>> ELSE <<>>
          zero == [n \in N |-> [a \in GroupAddrs |-> 0]]
      IN  gr = [proto |-> p, nets |-> N, list |-> [n \in N |-> head], joins |-> zero, due |-> zero,
                reporter |-> [n \in N |-> [a \in GroupAddrs |-> FALSE]]]

\* One interface runs with every group, several with one.
AddrsOf == IF Cardinality(DOMAIN gr.list) = 1 THEN GroupAddrs ELSE {CHOOSE a \in GroupAddrs : TRUE}

----------------------------------------------------------------------------
lookfor_group(g, n, a) == {i \in DOMAIN g.list[n] : g.list[n][i].addr = a}
The(g, n, a) == CHOOSE i \in lookfor_group(g, n, a) : TRUE

\* A report goes out, if there is memory for it; so does a leave message, when
\* this node was the last to report the group.
Report(g, n, i, ok) ==
    IF ok THEN [g EXCEPT !.list[n][i].last = TRUE, !.reporter[n][g.list[n][i].addr] = TRUE] ELSE g

LeaveSent(g, n, e) == IF e.last THEN [g EXCEPT !.reporter[n][e.addr] = FALSE] ELSE g

Used(g, n, a) == [g EXCEPT !.list[n][The(g, n, a)].use = @ + 1, !.joins[n][a] = @ + 1]
Unused(g, n, a) == [g EXCEPT !.list[n][The(g, n, a)].use = @ - 1, !.joins[n][a] = @ - 1]

\* The group goes off the list.
RemoveGroup(g, n, a) ==
    [g EXCEPT !.list[n] = RemoveAt(@, The(g, n, a)), !.joins[n][a] = @ - 1, !.due[n][a] = 0]

----------------------------------------------------------------------------
\* igmp.c.  The timer of a report within max ticks: a random one, never 0.
start_timer_MayBeZero(max) == 0..(IF max > 2 THEN max - 1 ELSE 1)

start_timer(max) == 1..(IF max > 2 THEN max - 1 ELSE 1)

\* A query with delay max: the group answers within it, and sooner if it was
\* already going to; t is the timer drawn.
igmp_delaying_member(e, max, t) ==
    IF e.st = "IDLE" \/ (e.st = "DELAYING" /\ (e.timer = 0 \/ max < e.timer))
    THEN [e EXCEPT !.timer = t, !.st = "DELAYING"] ELSE e

\* igmp_lookup_group adds a group behind the head of the list.
igmp_lookup_group(g, n, a) ==
    IF lookfor_group(g, n, a) # {} THEN g
    ELSE [g EXCEPT !.list[n] = <<Head(@), Group(a, "NON_MEMBER")>> \o Tail(@)]

\* Join a on interface n: the first join reports and delays a second report.

igmp_joingroup_netif(g, n, a, ok, t) ==
    LET b == igmp_lookup_group(g, n, a)
        i == The(b, n, a)
    IN  Used(IF b.list[n][i].st # "NON_MEMBER" THEN b
             ELSE [Report(b, n, i, ok) EXCEPT !.list[n][i].st = "DELAYING", !.list[n][i].timer = t],
             n, a)

\* Leave a on interface n: the last leave takes the group off the list.

igmp_leavegroup_netif(g, n, a) ==
    LET e == g.list[n][The(g, n, a)]
    IN  IF e.use <= 1 THEN LeaveSent(RemoveGroup(g, n, a), n, e) ELSE Unused(g, n, a)

\* A query to all systems is for every other group; an IGMPv1 query carries no
\* delay.
igmp_query_delay(general, max) == IF general /\ max = 0 THEN V1Delay ELSE max

igmp_asked(n, general, a) ==
    {i \in DOMAIN gr.list[n] : IF general THEN i > 1 ELSE gr.list[n][i].addr = a}

\* One tick of a group; ok: memory for the report.
igmp_timeout(g, n, i, ok) ==
    IF g.list[n][i].st = "DELAYING" /\ g.list[n][i].addr # "allsystems"
    THEN [Report([g EXCEPT !.list[n][i].st = "IDLE"], n, i, ok) EXCEPT !.due[n][g.list[n][i].addr] = 0]
    ELSE g

igmp_tick(g, n, i, ok) ==
    LET b == [g EXCEPT !.list[n][i].timer = @ - 1]
    IN  CASE g.list[n][i].timer = 0 -> g
          [] g.list[n][i].timer = 1 -> igmp_timeout(b, n, i, ok)
          [] OTHER -> b

----------------------------------------------------------------------------
\* mld6.c.  mld6_delayed_report draws first and compares what it drew.
mld6_delayed_report(e, t) ==
    IF e.st = "IDLE" \/ (e.st = "DELAYING" /\ (e.timer = 0 \/ t < e.timer))
    THEN [e EXCEPT !.timer = t, !.st = "DELAYING"] ELSE e

mld6_new_group(g, n, a) == [g EXCEPT !.list[n] = <<Group(a, "IDLE")>> \o @]

mld6_joingroup_netif(g, n, a, ok, t) ==
    IF lookfor_group(g, n, a) # {} THEN Used(g, n, a)
    ELSE LET b == Report(mld6_new_group(g, n, a), n, 1, ok)
         IN  Used([b EXCEPT !.list[n][1] = mld6_delayed_report(@, t)], n, a)

\* The group is off the list when the message that it is left goes out.
mld6_leavegroup_netif(g, n, a) ==
    LET e == g.list[n][The(g, n, a)]
    IN  IF e.use > 1 THEN Unused(g, n, a) ELSE LeaveSent(RemoveGroup(g, n, a), n, e)

mld6_asked(n, general, a) == {i \in DOMAIN gr.list[n] : general \/ gr.list[n][i].addr = a}

mld6_tick(g, n, i, ok) ==
    LET e == g.list[n][i]
        b == [g EXCEPT !.list[n][i].timer = @ - 1]
    IN  CASE e.timer = 0 -> g
          [] e.timer = 1 /\ e.st = "DELAYING" ->
               [Report(b, n, i, ok) EXCEPT !.list[n][i].st = "IDLE", !.due[n][e.addr] = 0]
          [] OTHER -> b

----------------------------------------------------------------------------
\* The two protocols side by side.
IsIgmp == gr.proto = "igmp"
JoinNetif(g, n, a, ok, t) ==
    IF IsIgmp THEN igmp_joingroup_netif(g, n, a, ok, t) ELSE mld6_joingroup_netif(g, n, a, ok, t)
LeaveNetif(g, n, a) ==
    CASE lookfor_group(g, n, a) = {} -> g
      [] lookfor_group(g, n, a) # {} /\ IsIgmp -> igmp_leavegroup_netif(g, n, a)
      [] OTHER -> mld6_leavegroup_netif(g, n, a)
Delayed(e, max, t) == IF IsIgmp THEN igmp_delaying_member(e, max, t) ELSE mld6_delayed_report(e, t)
Tick(g, n, i, ok) == IF IsIgmp THEN igmp_tick(g, n, i, ok) ELSE mld6_tick(g, n, i, ok)

\* igmp_joingroup and mld6_joingroup go over the interfaces, and so do the
\* leaves; a join stops at the first one with no memory for a new group, after
\* k of them, and keeps the groups it joined so far.
JoinGroup(a, ok, t, k) ==
    LET order == SetToSeq(gr.nets)
    IN  /\ \A n \in gr.nets : gr.joins[n][a] < MaxJoins
        /\ k < Len(order) => lookfor_group(gr, order[k + 1], a) = {}
        /\ gr' = FoldLeft(LAMBDA g, n : JoinNetif(g, n, a, ok, t), gr, SubSeq(order, 1, k))

LeaveGroup(a) ==
    /\ \E n \in gr.nets : gr.joins[n][a] > 0
    /\ gr' = FoldLeft(LAMBDA g, n : LeaveNetif(g, n, a), gr, SetToSeq(gr.nets))

\* The answer to a query is due within its delay, or the one before it.
Due(old, max) ==
    LET d == IF max = 0 THEN 1 ELSE max
    IN  IF old = 0 \/ d < old THEN d ELSE old

\* igmp_input, mld6_input: a query for every group (general) or for group a.
Query(n, general, a, max) ==
    LET delay == IF IsIgmp THEN igmp_query_delay(general, max) ELSE max
        asked == IF IsIgmp THEN igmp_asked(n, general, a) ELSE mld6_asked(n, general, a)
    IN  \E t \in [GroupAddrs -> start_timer(delay)] :
          gr' = [gr EXCEPT
            !.list[n] = [i \in DOMAIN @ |-> IF i \in asked THEN Delayed(@[i], delay, t[@[i].addr]) ELSE @[i]],
            !.due[n] = [b \in GroupAddrs |->
                          IF \E i \in asked : gr.list[n][i].addr = b THEN Due(@[b], delay) ELSE @[b]]]

\* Another member reports group a: this one need not any more.
HeardReport(n, a) ==
    LET i == The(gr, n, a)
    IN  /\ lookfor_group(gr, n, a) # {}
        /\ gr.list[n][i].st = "DELAYING"
        /\ gr' = [gr EXCEPT !.list[n][i].timer = 0, !.list[n][i].st = "IDLE",
                            !.list[n][i].last = FALSE,
                            !.due[n][a] = 0, !.reporter[n][a] = FALSE]

\* igmp_tmr, mld6_tmr.
GroupTmr(ok) ==
    LET aged == [gr EXCEPT !.due = [n \in DOMAIN gr.due |-> [a \in GroupAddrs |->
                                      IF gr.due[n][a] > 0 THEN gr.due[n][a] - 1 ELSE 0]]]
    IN  gr' = FoldLeft(LAMBDA g, n :
                          FoldLeft(LAMBDA h, i : Tick(h, n, i, ok), g, [i \in DOMAIN g.list[n] |-> i]),
                       aged, SetToSeq(gr.nets))

\* igmp_report_groups, mld6_report_groups: the link is back, every group is
\* reported again.
report_groups(n, t) ==
    gr' = [gr EXCEPT !.list[n] = [i \in DOMAIN @ |->
              IF @[i].addr = "allsystems" THEN @[i] ELSE Delayed(@[i], JoinDelay, t[@[i].addr])]]

\* igmp_stop, mld6_stop: the interface is removed and its groups are freed.
Stop(n) ==
    LET none == [a \in GroupAddrs |-> 0]
    IN  gr' = [gr EXCEPT !.nets = @ \ {n}, !.list[n] = <<>>, !.joins[n] = none, !.due[n] = none,
                         !.reporter[n] = [a \in GroupAddrs |-> FALSE]]

GroupNext ==
    \/ \E a \in AddrsOf, ok \in BOOLEAN, t \in start_timer(JoinDelay), k \in 0..Cardinality(gr.nets) :
         JoinGroup(a, ok, t, k)
    \/ \E a \in AddrsOf : LeaveGroup(a)
    \/ \E n \in gr.nets, general \in BOOLEAN, a \in AddrsOf, max \in GroupDelays :
         Query(n, general, a, max)
    \/ \E n \in gr.nets, a \in AddrsOf : HeardReport(n, a)
    \/ \E ok \in BOOLEAN : GroupTmr(ok)
    \/ \E n \in gr.nets, t \in [GroupAddrs -> start_timer(JoinDelay)] : report_groups(n, t)
    \/ \E n \in gr.nets : Stop(n)

----------------------------------------------------------------------------
\* An interface listens to a group exactly while it was joined more often than
\* left, each group once, the all-systems group first where there is one.
GroupsCounted ==
    \A n \in gr.nets :
        LET list == gr.list[n]
            own == IF gr.proto = "igmp" THEN 1 ELSE 0
        IN  /\ \A a \in GroupAddrs :
                 /\ gr.joins[n][a] > 0 <=> lookfor_group(gr, n, a) # {}
                 /\ \A i \in lookfor_group(gr, n, a) : list[i].use = gr.joins[n][a]
            /\ \A i, j \in DOMAIN list : list[i].addr = list[j].addr => i = j
            /\ own = 1 => list[1].addr = "allsystems"

\* The routers are told of every group this node was the last to report when
\* it leaves it: none keeps forwarding to a link without listeners.
LeaveAnnounced ==
    \A n \in gr.nets, a \in GroupAddrs : lookfor_group(gr, n, a) = {} => ~gr.reporter[n][a]

\* A query is answered in time: while an answer is due the group has a timer
\* that runs and ends no later.
AnswersInTime ==
    \A n \in gr.nets, a \in GroupAddrs :
        gr.due[n][a] > 0 =>
            \E i \in lookfor_group(gr, n, a) :
                gr.list[n][i].st = "DELAYING" /\ gr.list[n][i].timer \in 1..gr.due[n][a]

(* Group membership: joins are counted, the last leave is announced, and queries *)
(* are answered within the time they allow.                                      *)
GroupsSound == GroupsCounted /\ LeaveAnnounced /\ AnswersInTime
=============================================================================
