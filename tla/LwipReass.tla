------------------------------ MODULE LwipReass -----------------------------
(* Fragmentation and reassembly of IP datagrams (ipv4/ip4_frag.c and         *)
(* ipv6/ip6_frag.c).                                                         *)
(*                                                                           *)
(* A fragment is [id, s, e, last, n]: the datagram it belongs to, the bytes  *)
(* s .. e - 1 of its payload, whether the more-fragments bit is clear, and   *)
(* the pbufs it takes.  An entry of the reassembly list (ip_reassdata) is    *)
(* [id, timer, hdr, len, frags]: hdr is the offset of the fragment whose IP  *)
(* header it keeps, len the datagram length or 0 before the last fragment    *)
(* has come.  The list has the newest entry first.  reass.out is what the    *)
(* last call returned.  Datagrams are cut by one of several path MTUs, and   *)
(* their fragments come in any order, more than once or never.               *)
EXTENDS Integers, Sequences, SequencesExt

CONSTANTS ReassIds,            \* datagrams (addresses and identification)
          ReassLen,            \* their payload in bytes
          ReassMtus,           \* payload bytes an MTU leaves for a fragment
          ReassClens,          \* pbufs per fragment
          OffsetUnit,          \* bytes per fragment offset: 8
          IP_REASS_MAX_PBUFS,
          IP_REASS_MAXAGE      \* for both versions here

VARIABLE reass                 \* [ver, list, count, out]

\* The MTU of 1500 leaves 1480 bytes: whole offset units, as 4 and 6 need.
ASSUME ReassAssumption ==
  /\ OffsetUnit \in Nat \ {0} /\ ReassLen \in Nat \ {0} /\ IP_REASS_MAXAGE \in Nat
  /\ \A m \in ReassMtus : m \in Nat \ {0} /\ m % OffsetUnit = 0
  /\ \A n \in ReassClens : n \in 1 .. IP_REASS_MAX_PBUFS
-----------------------------------------------------------------------------
\* The fragments of a payload of len bytes when m bytes fit into one.
CutUp(len, m, isLast(_)) ==
  LET nfb == (m \div OffsetUnit) * OffsetUnit
      left(i) == len - (i - 1) * nfb
  IN [i \in 1 .. (len + nfb - 1) \div nfb |->
        [s |-> (i - 1) * nfb, e |-> (i - 1) * nfb + Min({left(i), nfb}), last |-> isLast(left(i))]]

\* ip4_frag compares what is left with the MTU, ip6_frag with what it sends.
ip4_frag(len, m) == CutUp(len, m, LAMBDA left : left <= m)
ip6_frag(len, m) == CutUp(len, m, LAMBDA left : left <= (m \div OffsetUnit) * OffsetUnit)

Fragments(ver) ==
  { [id |-> id, s |-> f.s, e |-> f.e, last |-> f.last, n |-> n] :
      id \in ReassIds, n \in ReassClens,
      f \in UNION { Range(IF ver = 4 THEN ip4_frag(ReassLen, m) ELSE ip6_frag(ReassLen, m)) :
                      m \in ReassMtus } }
-----------------------------------------------------------------------------
PbufsOf(ipr) == FoldLeft(LAMBDA t, f : t + f.n, 0, ipr.frags)

\* The index of the entry of datagram id, 0 when there is none.
EntryOf(list, id) ==
  LET at == {i \in DOMAIN list : list[i].id = id} IN IF at = {} THEN 0 ELSE Min(at)

\* The entry and its fragments are freed.
ip_reass_dequeue_datagram(r, i) == [r EXCEPT !.list = RemoveAt(@, i)]
ip_reass_free_complete_datagram(r, i) ==
  [ip_reass_dequeue_datagram(r, i) EXCEPT !.count = @ - PbufsOf(r.list[i])]
ip6_reass_free_complete_datagram(r, i) ==
  [r EXCEPT !.list = RemoveAt(@, i), !.count = @ - PbufsOf(r.list[i])]

\* The entry with the lowest timer among those not of datagram id, the last of
\* several; 0 when there is none.
Oldest(list, id) ==
  LET others == {i \in DOMAIN list : list[i].id # id}
      low == {i \in others : \A j \in others : list[i].timer <= list[j].timer}
  IN IF others = {} THEN 0 ELSE Max(low)

\* Free other datagrams, the oldest first, until needed pbufs are free.
RECURSIVE ip_reass_remove_oldest_datagram(_, _, _)
ip_reass_remove_oldest_datagram(r, id, needed) ==
  LET i == Oldest(r.list, id) IN
  IF i = 0 THEN r
  ELSE IF PbufsOf(r.list[i]) >= needed THEN ip_reass_free_complete_datagram(r, i)
  ELSE ip_reass_remove_oldest_datagram(ip_reass_free_complete_datagram(r, i), id, needed - PbufsOf(r.list[i]))

RECURSIVE ip6_reass_remove_oldest_datagram(_, _, _)
ip6_reass_remove_oldest_datagram(r, id, needed) ==
  LET i == Oldest(r.list, id) IN
  IF i = 0 THEN r
  ELSE LET a == ip6_reass_free_complete_datagram(r, i)
       IN IF a.count + needed <= IP_REASS_MAX_PBUFS THEN a
          ELSE ip6_reass_remove_oldest_datagram(a, id, needed)

\* A new entry at the front of the list.
NewEntry(r, f) ==
  [r EXCEPT !.list = <<[id |-> f.id, timer |-> IP_REASS_MAXAGE, hdr |-> f.s, len |-> 0,
                        frags |-> << >>]>> \o @]

\* Does f repeat or overlap a fragment that is there?
Unusable_StartsOnly(frags, f) == \E i \in DOMAIN frags : f.s = frags[i].s
Unusable(frags, f) ==
  \E i \in DOMAIN frags : f.s = frags[i].s \/ (f.s < frags[i].e /\ frags[i].s < f.e)

Before(frags, f) == SelectSeq(frags, LAMBDA g : g.s < f.s)
Behind(frags, f) == SelectSeq(frags, LAMBDA g : g.s > f.s)
NoGaps(frags) == \A i \in 1 .. Len(frags) - 1 : frags[i].e = frags[i + 1].s

\* The entry with f chained in.
ChainIn(ipr, f) ==
  [ipr EXCEPT !.frags = Before(@, f) \o <<f>> \o Behind(@, f),
              !.len = IF f.last THEN f.e ELSE @,
              !.hdr = IF f.s = 0 THEN 0 ELSE @]

\* ip_reass_chain_frag_into_datagram_and_validate: first, last and no holes.
Finished4(ipr, f) == ipr.len # 0 /\ Head(ipr.frags).s = 0 /\ NoGaps(ipr.frags)

\* ip6_reass looks for gaps in front of f's place and from f on, and in front
\* of f itself only when f goes to the end.
Finished6(ipr, f) ==
  /\ ipr.len # 0 /\ Head(ipr.frags).s = 0
  /\ NoGaps(Before(ipr.frags, f))
  /\ NoGaps(<<f>> \o Behind(ipr.frags, f))
  /\ Behind(ipr.frags, f) = << >> => NoGaps(ipr.frags)

\* f goes into the i-th entry, unless it is dropped; a finished datagram leaves
\* the list.  IPv4 takes over the header of the first fragment before it looks.
Chain4(r, i, f) ==
  LET h == [r EXCEPT !.list[i].hdr = IF f.s = 0 THEN 0 ELSE @]
      q == [h EXCEPT !.list[i] = ChainIn(@, f), !.count = @ + f.n]
  IN CASE Unusable(r.list[i].frags, f) -> h
       [] ~Unusable(r.list[i].frags, f) /\ Finished4(q.list[i], f) ->
            [ip_reass_free_complete_datagram(q, i) EXCEPT !.out = <<q.list[i]>>]
       [] OTHER -> q
Chain6(r, i, f) ==
  LET q == [r EXCEPT !.list[i] = ChainIn(@, f), !.count = @ + f.n]
  IN CASE Unusable(r.list[i].frags, f) -> r
       [] ~Unusable(r.list[i].frags, f) /\ Finished6(q.list[i], f) ->
            [ip6_reass_free_complete_datagram(q, i) EXCEPT !.out = <<q.list[i]>>]
       [] OTHER -> q

\* malloc says whether the first and the second allocation succeed.
ip4_reass(r, f, malloc) ==
  LET full == r.count + f.n > IP_REASS_MAX_PBUFS
      a == IF full THEN ip_reass_remove_oldest_datagram(r, f.id, f.n) ELSE r
      b == IF malloc[1] THEN a ELSE ip_reass_remove_oldest_datagram(a, f.id, f.n)
  IN IF full /\ a.count + f.n > IP_REASS_MAX_PBUFS THEN a
     ELSE IF EntryOf(a.list, f.id) # 0 THEN Chain4(a, EntryOf(a.list, f.id), f)
     ELSE IF malloc[1] \/ (malloc[2] /\ a.count - b.count >= f.n)
     THEN Chain4(NewEntry(b, f), 1, f) ELSE b

\* IPv6 makes the entry first and looks for room then.
ip6_reass(r, f, malloc) ==
  LET known == EntryOf(r.list, f.id) # 0
      a == IF known \/ malloc[1] THEN r ELSE ip6_reass_remove_oldest_datagram(r, f.id, f.n)
      b == IF known THEN a ELSE NewEntry(a, f)
      c == IF b.count + f.n > IP_REASS_MAX_PBUFS
           THEN ip6_reass_remove_oldest_datagram(b, f.id, f.n) ELSE b
  IN IF ~known /\ ~malloc[1] /\ ~malloc[2] THEN a
     ELSE IF c.count + f.n > IP_REASS_MAX_PBUFS THEN c
     ELSE Chain6(c, EntryOf(c.list, f.id), f)

\* ip_reass_tmr and ip6_reass_tmr.
ip_reass_tmr(r) ==
  LET kept == SelectSeq(r.list, LAMBDA ipr : ipr.timer > 0)
  IN [r EXCEPT !.list = [i \in DOMAIN kept |-> [kept[i] EXCEPT !.timer = @ - 1]],
               !.count = FoldLeft(LAMBDA t, ipr : t + PbufsOf(ipr), 0, kept)]
-----------------------------------------------------------------------------
ReassInit == reass \in { [ver |-> v, list |-> << >>, count |-> 0, out |-> << >>] : v \in {4, 6} }

Fresh == [reass EXCEPT !.out = << >>]

Reass4 ==
  /\ reass.ver = 4
  /\ \E f \in Fragments(4), malloc \in BOOLEAN \X BOOLEAN : reass' = ip4_reass(Fresh, f, malloc)
Reass6 ==
  /\ reass.ver = 6
  /\ \E f \in Fragments(6), malloc \in BOOLEAN \X BOOLEAN : reass' = ip6_reass(Fresh, f, malloc)
ReassTmr == reass' = ip_reass_tmr(Fresh)

ReassNext == Reass4 \/ Reass6 \/ ReassTmr
-----------------------------------------------------------------------------
\* ip_reass_pbufcount is what the queued fragments take, and at most the limit.
PbufCountExact ==
  /\ reass.count = FoldLeft(LAMBDA t, ipr : t + PbufsOf(ipr), 0, reass.list)
  /\ reass.count <= IP_REASS_MAX_PBUFS

\* There is one entry per datagram, each with at least one fragment (the timer
\* reads the first one's helper without a test), sorted and without overlaps.
EntriesSound ==
  \A i \in DOMAIN reass.list :
     LET ipr == reass.list[i] IN
     /\ ipr.frags # << >>
     /\ \A j \in DOMAIN reass.list : reass.list[j].id = ipr.id => i = j
     /\ \A k \in 1 .. Len(ipr.frags) - 1 : ipr.frags[k].e <= ipr.frags[k + 1].s

\* A complete datagram: every byte once, under the header of the first fragment.
WholeDatagram(ipr) ==
  /\ Head(ipr.frags).s = 0 /\ NoGaps(ipr.frags) /\ Last(ipr.frags).e = ReassLen
  /\ ipr.len = ReassLen /\ ipr.hdr = 0

\* What ip4_reass hands on is a whole datagram, however its fragments came.
Reassembled4 == (reass.ver = 4 /\ reass.out # << >>) => WholeDatagram(reass.out[1])

(* Reassembly, over fragments in any order, repeated, overlapping, lost and timed *)
(* out: the count is exact, queues are in order, and whole means whole.           *)
ReassSound == PbufCountExact /\ EntriesSound /\ Reassembled4
=============================================================================
