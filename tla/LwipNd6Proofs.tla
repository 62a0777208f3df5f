--------------------------- MODULE LwipNd6Proofs ---------------------------
(***************************************************************************)
(* Proof of the invariants of LwipNd6, for tables of any size, any set of  *)
(* neighbours, routers and destinations, and any lifetimes.                *)
(*                                                                         *)
(* Every operator of nd6.c is a function from states to states, so there   *)
(* is one lemma for each: it keeps the tables sound (Cached) and leaves    *)
(* the addresses alone (SameRest), or the other way round (AdrSound).  The *)
(* neighbour, router and destination tables need to be sound together: a   *)
(* neighbour entry may be recycled only because no router points to it.    *)
(***************************************************************************)
EXTENDS LwipNd6, WellFoundedInduction, TLAPS

\* Most leaves are first-order; the ones with arithmetic or records ask for SMT.
USE Zenon

\* A set of natural numbers has a least element, which Min returns.
LEMMA Least ==
  ASSUME NEW S, S \subseteq Nat, S # {}
  PROVE  Min(S) \in S /\ \A y \in S : Min(S) <= y
<1> DEFINE R == OpToRel(<, Nat)
<1>1. IsWellFoundedOn(R, Nat)
  BY NatLessThanWellFounded
<1>2. PICK x \in S : \A y \in S : ~(<<y, x>> \in R)
  <2> HIDE DEF R
  <2> QED BY <1>1, WFMin
<1>3. R = {ss \in Nat \X Nat : ss[1] < ss[2]}
  BY DEF OpToRel
<1>4. \A y \in S : y < x => <<y, x>> \in R
  <2> HIDE DEF R
  <2> QED BY <1>3
<1>5. \A y \in S : ~(y < x)
  <2> HIDE DEF R
  <2> QED BY <1>2, <1>4
<1>6. \A y \in S : x <= y
  BY <1>5, SMTT(30)
<1> QED
  BY <1>6 DEF Min

\* A bounded set of natural numbers has a greatest element, which Max returns.
LEMMA Greatest ==
  ASSUME NEW n \in Nat, NEW S, S \subseteq 1 .. n, S # {}
  PROVE  Max(S) \in S
<1> DEFINE T == {n - x : x \in S}
<1>1. T \subseteq Nat /\ T # {}
  <2>1. \A x \in S : n - x \in Nat
    BY SMTT(30)
  <2> QED BY <2>1
<1>2. Min(T) \in T /\ \A y \in T : Min(T) <= y
  <2> HIDE DEF T
  <2> QED BY <1>1, Least
<1>3. PICK x \in S : Min(T) = n - x
  BY <1>2
<1>4. \A y \in S : n - y \in T
  OBVIOUS
<1>5. \A y \in S : n - x <= n - y
  <2> HIDE DEF T
  <2> QED BY <1>2, <1>3, <1>4
<1>6. \A y \in S : x >= y
  BY <1>5, SMTT(30)
<1> QED
  BY <1>6 DEF Max

-----------------------------------------------------------------------------
\* The ranges of the tables of nd6.c.
NdAddrs == Neighbors \cup NdFar \cup {Any6}
NbrStates == {"NO_ENTRY", "INCOMPLETE", "REACHABLE", "STALE", "DELAY", "PROBE"}
Nbr == [addr : NdAddrs, state : NbrStates, cnt : Int, router : BOOLEAN, q : BOOLEAN]
NbrTab == [NdNeighbors -> Nbr]
Rtr == [n : NdNeighbors \cup {0}, life : Int]
RtrTab == [NdRouters -> Rtr]
Dst == [dst : NdAddrs, hop : NdAddrs, how : {"none", "self", "router", "redirect"}, age : Int]
DstTab == [NdDestinations -> Dst]
AdrStates == {"INVALID", "TENTATIVE", "PREFERRED", "DEPRECATED", "DUPLICATED"}
AdrLives == 0 .. NdInfinite
AdrNets == {"none", "link", "p", "q"}
Adr == [st : AdrStates, n : Int, valid : AdrLives, pref : AdrLives, net : AdrNets]
AdrTab == [Slots -> Adr]
Plans6 == {"caches", "addresses"}
NdState ==
  [plan : Plans6, autoconfig : BOOLEAN, onlink : Int, last : Int, nbr : NbrTab, dst : DstTab,
   rtr : RtrTab, up : BOOLEAN, rs : Int, red : Int, adr : AdrTab]

\* The neighbour cache by itself: CachesSound and NoStuckQueue.
NbrSound(nbr) ==
  /\ \A i, j \in NdNeighbors : nbr[i].addr = nbr[j].addr /\ i # j => nbr[i].addr = Any6
  /\ \A i \in NdNeighbors : nbr[i].state = "NO_ENTRY" <=> nbr[i].addr = Any6
  /\ \A i \in NdNeighbors : nbr[i].state \in {"NO_ENTRY", "STALE"} => ~nbr[i].q

\* The default routers and the neighbours they point to.
Pinned(nbr, rtr) ==
  /\ \A k \in NdRouters : rtr[k].n # 0 =>
       nbr[rtr[k].n].router /\ nbr[rtr[k].n].state # "NO_ENTRY"
  /\ \A k, l \in NdRouters : rtr[k].n # 0 /\ rtr[l].n = rtr[k].n => k = l
  /\ \A i \in NdNeighbors : nbr[i].router => \E k \in NdRouters : rtr[k].n = i

\* The destination cache by itself; a destination in use has a next hop.
DstSound(dst) ==
  /\ \A i, j \in NdDestinations : dst[i].dst = dst[j].dst /\ i # j => dst[i].dst = Any6
  /\ \A j \in NdDestinations : dst[j].dst # Any6 => dst[j].hop # Any6

\* A router that was chosen for a destination is still a default router.
Routed(nbr, rtr, dst) ==
  \A j \in NdDestinations : dst[j].how = "router" =>
    \E k \in NdRouters : rtr[k].n # 0 /\ nbr[rtr[k].n].addr = dst[j].hop

TablesSound(nbr, rtr, dst) ==
  NbrSound(nbr) /\ Pinned(nbr, rtr) /\ DstSound(dst) /\ Routed(nbr, rtr, dst)

\* The inductive invariant of the caches, of a state s.
Cached(s) == s \in NdState /\ TablesSound(s.nbr, s.rtr, s.dst)

\* What nd6.c does with the tables leaves the addresses and the rest alone.
SameRest(s, t) ==
  /\ t.plan = s.plan /\ t.autoconfig = s.autoconfig /\ t.up = s.up /\ t.rs = s.rs
  /\ t.red = s.red /\ t.adr = s.adr

\* The slots are numbered from 1, and there is one of each kind.
LEMMA NdSlots ==
  /\ NdNeighbors \subseteq Nat \ {0} /\ NdDestinations \subseteq Nat \ {0}
  /\ NdRouters \subseteq Nat \ {0}
  /\ \E n \in Nat : NdNeighbors = 1 .. n
  /\ \E n \in Nat : NdDestinations = 1 .. n
  /\ Cardinality(NdRouters) \in Nat \ {0} /\ NdRouters = 1 .. Cardinality(NdRouters)
<1>1. \A S \in {NdNeighbors, NdDestinations, NdRouters} : Cardinality(S) \in Nat
  BY NdAssumption
<1>2. NdNeighbors = 1 .. Cardinality(NdNeighbors)
      /\ NdDestinations = 1 .. Cardinality(NdDestinations)
      /\ NdRouters = 1 .. Cardinality(NdRouters) /\ NdRouters # {}
  BY NdAssumption, SMTT(30)
<1> QED
  BY <1>1, <1>2, SMTT(30)

\* LowestOf and HighestOf return a member of the set, or 0 when it is empty.
LEMMA LowestFacts ==
  ASSUME NEW S, S \subseteq Nat \ {0}
  PROVE  /\ LowestOf(S) # 0 => LowestOf(S) \in S
         /\ LowestOf(S) = 0 => S = {}
         /\ S # {} => LowestOf(S) # 0
<1>1. S # {} => Min(S) \in S
  BY Least
<1> QED
  BY <1>1 DEF LowestOf

\* What HighestOf returns is one of the entries.
LEMMA HighestFacts ==
  ASSUME NEW S, S \subseteq NdNeighbors
  PROVE  HighestOf(S) # 0 => HighestOf(S) \in S
<1>1. S # {} => Max(S) \in S
  BY Greatest, NdSlots
<1> QED
  BY <1>1 DEF HighestOf

\* An entry that nd6_new_neighbor_cache_entry returns is not a router's.
LEMMA NewNeighbor ==
  ASSUME NEW s \in NdState, NbrSound(s.nbr), Pinned(s.nbr, s.rtr),
         nd6_new_neighbor_cache_entry(s) # 0
  PROVE  /\ nd6_new_neighbor_cache_entry(s) \in NdNeighbors
         /\ ~s.nbr[nd6_new_neighbor_cache_entry(s)].router
<1> DEFINE incomplete == Recyclable(s, "INCOMPLETE")
           idle == {i \in incomplete : ~s.nbr[i].q}
           free == {i \in NdNeighbors : s.nbr[i].state = "NO_ENTRY"}
           choices == << LowestOf(free),
                    LowestOf(Recyclable(s, "STALE")), LowestOf(Recyclable(s, "PROBE")),
                    LowestOf(Recyclable(s, "DELAY")),
                    LowestOf(Soonest(s, Recyclable(s, "REACHABLE"))),
                    HighestOf(MostProbed(s, idle)), HighestOf(MostProbed(s, incomplete)) >>
           found == {k \in DOMAIN choices : choices[k] # 0}
           Fine(i) == i \in NdNeighbors /\ ~s.nbr[i].router
<1>1. \A i \in free : Fine(i)
  BY NdSlots, SMTT(30) DEF Pinned, NbrSound
<1>2. \A st \in NbrStates : \A i \in Recyclable(s, st) : Fine(i)
  BY DEF Recyclable
<1>3. \A S : (\A i \in S : Fine(i)) => LowestOf(S) = 0 \/ Fine(LowestOf(S))
  <2> SUFFICES ASSUME NEW S, \A i \in S : Fine(i) PROVE LowestOf(S) = 0 \/ LowestOf(S) \in S
    OBVIOUS
  <2> QED BY NdSlots, LowestFacts
<1>4. \A S : (\A i \in S : Fine(i)) => HighestOf(S) = 0 \/ Fine(HighestOf(S))
  <2> SUFFICES ASSUME NEW S, \A i \in S : Fine(i) PROVE HighestOf(S) = 0 \/ HighestOf(S) \in S
    OBVIOUS
  <2> QED BY HighestFacts
<1>5. \A S : Soonest(s, S) \subseteq S /\ MostProbed(s, S) \subseteq S
  BY DEF Soonest, MostProbed
<1>6. idle \subseteq incomplete
  OBVIOUS
<1> HIDE DEF Fine, free, incomplete, idle
<1>7. \A k \in 1 .. 7 : choices[k] = 0 \/ Fine(choices[k])
  <2>1. "INCOMPLETE" \in NbrStates /\ "STALE" \in NbrStates /\ "PROBE" \in NbrStates
        /\ "DELAY" \in NbrStates /\ "REACHABLE" \in NbrStates
    BY DEF NbrStates
  <2>2. \A i \in incomplete : Fine(i)
    BY <1>2, <2>1 DEF incomplete
  <2>3. choices[1] = 0 \/ Fine(choices[1])
    BY <1>1, <1>3
  <2>4. choices[2] = 0 \/ Fine(choices[2])
    BY <1>2, <1>3, <2>1
  <2>5. choices[3] = 0 \/ Fine(choices[3])
    BY <1>2, <1>3, <2>1
  <2>6. choices[4] = 0 \/ Fine(choices[4])
    BY <1>2, <1>3, <2>1
  <2>7. choices[5] = 0 \/ Fine(choices[5])
    BY <1>2, <1>3, <1>5, <2>1
  <2>8. choices[6] = 0 \/ Fine(choices[6])
    BY <2>2, <1>4, <1>5, <1>6
  <2>9. choices[7] = 0 \/ Fine(choices[7])
    BY <2>2, <1>4, <1>5
  <2> HIDE DEF choices
  <2> QED BY <2>3, <2>4, <2>5, <2>6, <2>7, <2>8, <2>9, SMTT(30)
<1>8. DOMAIN choices = 1 .. 7
  BY SMTT(30)
<1>9. nd6_new_neighbor_cache_entry(s) = IF found = {} THEN 0 ELSE choices[Min(found)]
  BY DEF nd6_new_neighbor_cache_entry, free, idle, incomplete
<1> HIDE DEF choices
<1>10. found \subseteq Nat
  BY <1>8, SMTT(30)
<1>11. found # {} => Min(found) \in found
  <2> HIDE DEF found
  <2> QED BY <1>10, Least
<1> QED
  BY <1>7, <1>8, <1>9, <1>11 DEF Fine

\* Neighbour entries that keep their addresses, and are free as before, keep
\* the tables sound.
LEMMA NbrUpdate ==
  ASSUME NEW nbr \in NbrTab, NEW rtr \in RtrTab, NEW dst \in DstTab, TablesSound(nbr, rtr, dst),
         NEW m \in NbrTab,
         \A i \in NdNeighbors :
            /\ m[i].addr = nbr[i].addr /\ m[i].router = nbr[i].router
            /\ m[i].state = "NO_ENTRY" <=> nbr[i].state = "NO_ENTRY"
            /\ m[i].state \in {"NO_ENTRY", "STALE"} => ~m[i].q
  PROVE  TablesSound(m, rtr, dst)
<1>0. \A k \in NdRouters : rtr[k].n # 0 => rtr[k].n \in NdNeighbors
  BY DEF RtrTab, Rtr
<1>1. NbrSound(m)
  BY SMTT(30) DEF TablesSound, NbrSound
<1>2. Pinned(m, rtr)
  BY <1>0 DEF TablesSound, Pinned
<1>3. Routed(m, rtr, dst)
  BY <1>0 DEF TablesSound, Routed
<1> QED
  BY <1>1, <1>2, <1>3 DEF TablesSound

\* A new neighbour takes an entry that is no router's, once there is no other.
LEMMA NbrEnter ==
  ASSUME NEW nbr \in NbrTab, NEW rtr \in RtrTab, NEW dst \in DstTab, TablesSound(nbr, rtr, dst),
         NEW m \in NbrTab, NEW i \in NdNeighbors, ~nbr[i].router,
         \A j \in NdNeighbors : j # i => m[j] = nbr[j] /\ nbr[j].addr # m[i].addr,
         m[i].addr # Any6, ~m[i].router, m[i].state \notin {"NO_ENTRY", "STALE"}
  PROVE  TablesSound(m, rtr, dst)
<1>0. \A k \in NdRouters : rtr[k].n # 0 =>
        rtr[k].n \in NdNeighbors /\ rtr[k].n # i /\ m[rtr[k].n] = nbr[rtr[k].n]
  BY SMTT(30) DEF RtrTab, Rtr, TablesSound, Pinned
<1>1. NbrSound(m)
  BY SMTT(30) DEF TablesSound, NbrSound
<1>2. Pinned(m, rtr)
  BY <1>0 DEF TablesSound, Pinned
<1>3. Routed(m, rtr, dst)
  BY <1>0 DEF TablesSound, Routed
<1> QED
  BY <1>1, <1>2, <1>3 DEF TablesSound

\* A state with another neighbour cache.
LEMMA WithNbr ==
  ASSUME NEW s \in NdState, NEW m \in NbrTab
  PROVE  /\ [s EXCEPT !.nbr = m] \in NdState
         /\ [s EXCEPT !.nbr = m].nbr = m
         /\ [s EXCEPT !.nbr = m].rtr = s.rtr
         /\ [s EXCEPT !.nbr = m].dst = s.dst
         /\ SameRest(s, [s EXCEPT !.nbr = m])
BY DEF NdState, SameRest

\* SetState, on an entry in use.
LEMMA SetStateKeeps ==
  ASSUME NEW s, Cached(s), NEW i \in NdNeighbors, s.nbr[i].state # "NO_ENTRY",
         NEW st \in {"REACHABLE", "DELAY"}, NEW cnt \in Int
  PROVE  /\ Cached(SetState(s, i, st, cnt)) /\ SameRest(s, SetState(s, i, st, cnt))
         /\ SetState(s, i, st, cnt).nbr[i].state = st
<1> DEFINE e == [s.nbr[i] EXCEPT !.state = st, !.cnt = cnt]
           m == [s.nbr EXCEPT ![i] = e]
<1>1. s \in NdState /\ s.nbr \in NbrTab /\ s.rtr \in RtrTab /\ s.dst \in DstTab
  BY DEF Cached, NdState
<1>2. s.nbr[i] \in Nbr /\ st \in NbrStates
  BY <1>1 DEF NbrTab, NbrStates
<1>3. e \in Nbr /\ e.addr = s.nbr[i].addr /\ e.router = s.nbr[i].router /\ e.state = st
  BY <1>2 DEF Nbr
<1>4. SetState(s, i, st, cnt) = [s EXCEPT !.nbr = m]
  BY <1>1, <1>2 DEF SetState, NdState, NbrTab, Nbr
<1> HIDE DEF e
<1>5. m \in NbrTab /\ m[i] = e /\ \A j \in NdNeighbors : j # i => m[j] = s.nbr[j]
  BY <1>1, <1>3 DEF NbrTab
<1> HIDE DEF m
<1>6. TablesSound(m, s.rtr, s.dst)
  <2>1. \A j \in NdNeighbors :
            /\ m[j].addr = s.nbr[j].addr /\ m[j].router = s.nbr[j].router
            /\ m[j].state = "NO_ENTRY" <=> s.nbr[j].state = "NO_ENTRY"
            /\ m[j].state \in {"NO_ENTRY", "STALE"} => ~m[j].q
    BY <1>3, <1>5 DEF Cached, TablesSound, NbrSound
  <2> QED BY <1>1, <1>5, <2>1, NbrUpdate DEF Cached
<1> QED
  BY <1>1, <1>3, <1>4, <1>5, <1>6, WithNbr, SMTT(30) DEF Cached

\* What the lookups of nd6.c return.
LEMMA FindNeighbor ==
  ASSUME NEW s, NEW a
  PROVE  LET i == nd6_find_neighbor_cache_entry(s, a) IN
         /\ i = 0 => \A j \in NdNeighbors : s.nbr[j].addr # a
         /\ i # 0 => i \in NdNeighbors /\ s.nbr[i].addr = a
<1> DEFINE S == {i \in NdNeighbors : s.nbr[i].addr = a}
<1>1. S \subseteq Nat \ {0}
  BY NdSlots
<1>2. (LowestOf(S) # 0 => LowestOf(S) \in S) /\ (LowestOf(S) = 0 => S = {})
  <2> HIDE DEF S
  <2> QED BY <1>1, LowestFacts
<1> QED
  BY <1>2 DEF nd6_find_neighbor_cache_entry

\* The destination entry that is found is the one of d, and none is overlooked.
LEMMA FindDestination ==
  ASSUME NEW s, NEW d
  PROVE  LET j == nd6_find_destination_cache_entry(s, d) IN
         /\ j = 0 => \A i \in NdDestinations : s.dst[i].dst # d
         /\ j # 0 => j \in NdDestinations /\ s.dst[j].dst = d
<1> DEFINE S == {j \in NdDestinations : s.dst[j].dst = d}
<1>1. S \subseteq Nat \ {0}
  BY NdSlots
<1>2. (LowestOf(S) # 0 => LowestOf(S) \in S) /\ (LowestOf(S) = 0 => S = {})
  <2> HIDE DEF S
  <2> QED BY <1>1, LowestFacts
<1> QED
  BY <1>2 DEF nd6_find_destination_cache_entry

\* The default router that is found is the one of a, and none is overlooked.
LEMMA GetRouter ==
  ASSUME NEW s, NEW a
  PROVE  LET k == nd6_get_router(s, a) IN
         /\ k = 0 <=> \A l \in NdRouters : ~(s.rtr[l].n # 0 /\ s.nbr[s.rtr[l].n].addr = a)
         /\ k # 0 => k \in NdRouters /\ s.rtr[k].n # 0 /\ s.nbr[s.rtr[k].n].addr = a
<1> DEFINE S == {k \in NdRouters : s.rtr[k].n # 0 /\ s.nbr[s.rtr[k].n].addr = a}
<1>1. S \subseteq Nat \ {0}
  BY NdSlots
<1>2. /\ (LowestOf(S) # 0 => LowestOf(S) \in S) /\ (LowestOf(S) = 0 => S = {})
      /\ S # {} => LowestOf(S) # 0
  <2> HIDE DEF S
  <2> QED BY <1>1, LowestFacts
<1> QED
  BY <1>2 DEF nd6_get_router

\* A free entry of the destination cache, or one to recycle.
LEMMA NewDestination ==
  ASSUME NEW s
  PROVE  nd6_new_destination_cache_entry(s) \in NdDestinations
<1> DEFINE free == {j \in NdDestinations : s.dst[j].dst = Any6}
           aged == {j \in NdDestinations : s.dst[j].age > 0}
<1>1. PICK n \in Nat : NdDestinations = 1 .. n
  BY NdSlots
<1>2. NdDestinations # {}
  <2>1. Cardinality(NdDestinations) \in Nat \ {0} /\ NdDestinations = 1 .. Cardinality(NdDestinations)
    BY NdAssumption
  <2>2. 1 \in 1 .. Cardinality(NdDestinations)
    BY <2>1, SMTT(30)
  <2> QED BY <2>1, <2>2
<1>3. free # {} => Min(free) \in free
  <2>1. free \subseteq Nat
    BY NdSlots
  <2> HIDE DEF free
  <2> QED BY <2>1, Least
<1>4. aged # {} => Max(aged) \in aged
  <2>1. aged \subseteq 1 .. n
    BY <1>1
  <2> HIDE DEF aged
  <2> QED BY <2>1, Greatest
<1>5. Max(NdDestinations) \in NdDestinations
  BY <1>1, <1>2, Greatest
<1> QED
  BY <1>3, <1>4, <1>5 DEF nd6_new_destination_cache_entry

\* EnterNeighbor, into the entry nd6_new_neighbor_cache_entry returns.
LEMMA EnterKeeps ==
  ASSUME NEW s, Cached(s), NEW i \in NdNeighbors, ~s.nbr[i].router,
         NEW a \in NdAddrs, a # Any6, \A j \in NdNeighbors : s.nbr[j].addr # a,
         NEW st \in {"INCOMPLETE", "DELAY"}, NEW cnt \in Int
  PROVE  LET t == EnterNeighbor(s, i, a, st, cnt) IN
         /\ Cached(t) /\ SameRest(s, t) /\ t.rtr = s.rtr /\ t.dst = s.dst
         /\ t.nbr[i].addr = a /\ t.nbr[i].state = st /\ ~t.nbr[i].router
         /\ \A j \in NdNeighbors : j # i => t.nbr[j] = s.nbr[j]
<1> DEFINE e == [addr |-> a, state |-> st, cnt |-> cnt, router |-> FALSE, q |-> FALSE]
           m == [s.nbr EXCEPT ![i] = e]
<1>1. s \in NdState /\ s.nbr \in NbrTab /\ s.rtr \in RtrTab /\ s.dst \in DstTab
  BY DEF Cached, NdState
<1>2. e \in Nbr /\ e.addr = a /\ ~e.router /\ e.state = st
  BY DEF Nbr, NbrStates
<1>3. EnterNeighbor(s, i, a, st, cnt) = [s EXCEPT !.nbr = m]
  BY <1>1 DEF EnterNeighbor, NdState
<1> HIDE DEF e
<1>4. m \in NbrTab /\ m[i] = e /\ \A j \in NdNeighbors : j # i => m[j] = s.nbr[j]
  BY <1>1, <1>2 DEF NbrTab
<1> HIDE DEF m
<1>5. TablesSound(m, s.rtr, s.dst)
  <2>1. \A j \in NdNeighbors : j # i => m[j] = s.nbr[j] /\ s.nbr[j].addr # m[i].addr
    BY <1>2, <1>4
  <2>2. m[i].addr # Any6 /\ ~m[i].router /\ m[i].state \notin {"NO_ENTRY", "STALE"}
    BY <1>2, <1>4
  <2> QED BY <1>1, <1>4, <2>1, <2>2, NbrEnter DEF Cached
<1> QED
  BY <1>1, <1>2, <1>3, <1>4, <1>5, WithNbr, SMTT(30) DEF Cached

\* Queueing for, and sending to, an entry that is neither free nor stale.
LEMMA QueueKeeps ==
  ASSUME NEW s, Cached(s), NEW i \in NdNeighbors, NEW room \in BOOLEAN,
         room => s.nbr[i].state \notin {"NO_ENTRY", "STALE"}
  PROVE  /\ Cached([s EXCEPT !.nbr[i].q = room]) /\ SameRest(s, [s EXCEPT !.nbr[i].q = room])
<1> DEFINE e == [s.nbr[i] EXCEPT !.q = room]
           m == [s.nbr EXCEPT ![i] = e]
<1>1. s \in NdState /\ s.nbr \in NbrTab /\ s.rtr \in RtrTab /\ s.dst \in DstTab
  BY DEF Cached, NdState
<1>2. s.nbr[i] \in Nbr
  BY <1>1 DEF NbrTab
<1>3. /\ e \in Nbr /\ e.addr = s.nbr[i].addr /\ e.router = s.nbr[i].router
      /\ e.state = s.nbr[i].state /\ e.q = room
  BY <1>2 DEF Nbr
<1>4. [s EXCEPT !.nbr[i].q = room] = [s EXCEPT !.nbr = m]
  BY <1>1, <1>2 DEF NdState, NbrTab, Nbr
<1> HIDE DEF e
<1>5. m \in NbrTab /\ m[i] = e /\ \A j \in NdNeighbors : j # i => m[j] = s.nbr[j]
  BY <1>1, <1>3 DEF NbrTab
<1> HIDE DEF m
<1>6. TablesSound(m, s.rtr, s.dst)
  <2>1. \A j \in NdNeighbors :
            /\ m[j].addr = s.nbr[j].addr /\ m[j].router = s.nbr[j].router
            /\ m[j].state = "NO_ENTRY" <=> s.nbr[j].state = "NO_ENTRY"
            /\ m[j].state \in {"NO_ENTRY", "STALE"} => ~m[j].q
    BY <1>3, <1>5 DEF Cached, TablesSound, NbrSound
  <2> QED BY <1>1, <1>5, <2>1, NbrUpdate DEF Cached
<1>7. Cached([s EXCEPT !.nbr = m]) /\ SameRest(s, [s EXCEPT !.nbr = m])
  BY <1>1, <1>5, <1>6, WithNbr DEF Cached
<1> QED
  BY <1>4, <1>7

\* One step after another leaves the rest alone.
LEMMA SameRestTrans ==
  ASSUME NEW s, NEW t, NEW u, SameRest(s, t), SameRest(t, u)
  PROVE  SameRest(s, u)
BY DEF SameRest

\* An entry with an address is in use.
LEMMA EntryInUse ==
  ASSUME NEW s, Cached(s), NEW i \in NdNeighbors, s.nbr[i].addr # Any6
  PROVE  s.nbr[i].state # "NO_ENTRY"
BY DEF Cached, TablesSound, NbrSound

\* The addresses of nodes are addresses.
LEMMA NodeAddrs ==
  /\ \A a \in Neighbors : a \in NdAddrs /\ a # Any6
  /\ \A d \in NdNodes \cup NdFar : d \in NdAddrs /\ d # Any6
BY NdAssumption DEF NdAddrs, Neighbors

\* nd6_input of a neighbour advertisement.
LEMMA InputNAKeeps ==
  ASSUME NEW s, Cached(s), NEW a \in Neighbors,
         NEW toAll \in BOOLEAN, NEW override \in BOOLEAN, NEW option \in BOOLEAN
  PROVE  /\ Cached(InputNA(s, a, toAll, override, option))
         /\ SameRest(s, InputNA(s, a, toAll, override, option))
<1> DEFINE i == nd6_find_neighbor_cache_entry(s, a)
           t == SetState(s, i, "REACHABLE", NdTicks)
<1>1. i # 0 => i \in NdNeighbors /\ s.nbr[i].addr = a
  BY FindNeighbor
<1>2. CASE InputNA(s, a, toAll, override, option) = s
  BY <1>2 DEF SameRest
<1>3. CASE i # 0 /\ InputNA(s, a, toAll, override, option) = nd6_send_q(t, i)
  <2> HIDE DEF i
  <2>1. s.nbr[i].state # "NO_ENTRY"
    BY <1>1, <1>3, EntryInUse, NodeAddrs
  <2>2. Cached(t) /\ SameRest(s, t)
    BY <1>1, <1>3, <2>1, SetStateKeeps, NdAssumption, SMTT(30)
  <2> HIDE DEF t
  <2>3. Cached([t EXCEPT !.nbr[i].q = FALSE]) /\ SameRest(t, [t EXCEPT !.nbr[i].q = FALSE])
    BY <1>1, <1>3, <2>2, QueueKeeps
  <2> QED BY <1>3, <2>2, <2>3, SameRestTrans DEF nd6_send_q
<1>4. \/ InputNA(s, a, toAll, override, option) = s
      \/ i # 0 /\ InputNA(s, a, toAll, override, option) = nd6_send_q(t, i)
  BY DEF InputNA
<1> QED
  BY <1>2, <1>3, <1>4

\* A message from a, with its link-layer address, on the neighbour cache.
HeardFrom(s, a) ==
  LET known == nd6_find_neighbor_cache_entry(s, a)
      i == IF known # 0 THEN known ELSE nd6_new_neighbor_cache_entry(s)
  IN IF i = 0 THEN s
     ELSE IF known = 0 THEN EnterNeighbor(s, i, a, "DELAY", 1)
     ELSE IF s.nbr[i].state = "INCOMPLETE" THEN SetState(s, i, "DELAY", 1) ELSE s

\* Hearing of a neighbour keeps the tables sound.
LEMMA HeardKeeps ==
  ASSUME NEW s, Cached(s), NEW a \in Neighbors
  PROVE  Cached(HeardFrom(s, a)) /\ SameRest(s, HeardFrom(s, a))
<1> DEFINE known == nd6_find_neighbor_cache_entry(s, a)
           new == nd6_new_neighbor_cache_entry(s)
<1>0. a \in NdAddrs /\ a # Any6
  BY NodeAddrs
<1>1. (known = 0 => \A j \in NdNeighbors : s.nbr[j].addr # a)
      /\ (known # 0 => known \in NdNeighbors /\ s.nbr[known].addr = a)
  BY FindNeighbor
<1>2. new # 0 => new \in NdNeighbors /\ ~s.nbr[new].router
  BY NewNeighbor DEF Cached, TablesSound
<1>3. \/ HeardFrom(s, a) = s
      \/ known = 0 /\ new # 0 /\ HeardFrom(s, a) = EnterNeighbor(s, new, a, "DELAY", 1)
      \/ known # 0 /\ HeardFrom(s, a) = SetState(s, known, "DELAY", 1)
  BY DEF HeardFrom
<1> HIDE DEF known, new
<1>4. CASE HeardFrom(s, a) = s
  BY <1>4 DEF SameRest
<1>5. CASE known = 0 /\ new # 0 /\ HeardFrom(s, a) = EnterNeighbor(s, new, a, "DELAY", 1)
  BY <1>0, <1>1, <1>2, <1>5, EnterKeeps, SMTT(30)
<1>6. CASE known # 0 /\ HeardFrom(s, a) = SetState(s, known, "DELAY", 1)
  BY <1>0, <1>1, <1>6, SetStateKeeps, EntryInUse, SMTT(30)
<1> QED
  BY <1>3, <1>4, <1>5, <1>6

\* nd6_input of a neighbour solicitation.
LEMMA InputNSKeeps ==
  ASSUME NEW s, Cached(s), NEW a \in Neighbors
  PROVE  Cached(InputNS(s, a)) /\ SameRest(s, InputNS(s, a))
<1>1. InputNS(s, a) = HeardFrom(s, a)
  BY DEF InputNS, HeardFrom
<1> QED
  BY <1>1, HeardKeeps

\* nd6_reachability_hint.
LEMMA HintKeeps ==
  ASSUME NEW s, Cached(s), NEW d \in NdNodes \cup NdFar
  PROVE  Cached(nd6_reachability_hint(s, d)) /\ SameRest(s, nd6_reachability_hint(s, d))
<1> DEFINE j == nd6_find_destination_cache_entry(s, d)
           i == IF j = 0 THEN 0 ELSE nd6_find_neighbor_cache_entry(s, s.dst[j].hop)
<1>1. i # 0 => i \in NdNeighbors
  BY FindNeighbor
<1>2. \/ nd6_reachability_hint(s, d) = s
      \/ /\ i # 0 /\ s.nbr[i].state # "NO_ENTRY"
         /\ nd6_reachability_hint(s, d) = SetState(s, i, "REACHABLE", NdTicks)
  BY DEF nd6_reachability_hint
<1> HIDE DEF i
<1> QED
  BY <1>1, <1>2, SetStateKeeps, NdAssumption, SMTT(30) DEF SameRest

\* A neighbour becomes a default router: it is marked and a slot points to it.
LEMMA RouterEnter ==
  ASSUME NEW nbr \in NbrTab, NEW rtr \in RtrTab, NEW dst \in DstTab, TablesSound(nbr, rtr, dst),
         NEW m \in NbrTab, NEW r \in RtrTab, NEW i \in NdNeighbors, NEW k \in NdRouters,
         nbr[i].state # "NO_ENTRY", \A l \in NdRouters : rtr[l].n # i,
         rtr[k].n = 0, r[k].n = i, \A l \in NdRouters : l # k => r[l] = rtr[l],
         \A j \in NdNeighbors : j # i => m[j] = nbr[j],
         m[i].addr = nbr[i].addr, m[i].state = nbr[i].state, m[i].q = nbr[i].q, m[i].router
  PROVE  TablesSound(m, r, dst)
<1>0. \A l \in NdRouters : rtr[l].n # 0 =>
        l # k /\ rtr[l].n \in NdNeighbors /\ r[l].n = rtr[l].n /\ m[rtr[l].n] = nbr[rtr[l].n]
  BY DEF RtrTab, Rtr
<1>1. NbrSound(m)
  BY SMTT(30) DEF TablesSound, NbrSound
<1>2. Pinned(m, r)
  <2>1. \A l \in NdRouters : r[l].n # 0 => m[r[l].n].router /\ m[r[l].n].state # "NO_ENTRY"
    BY <1>0, SMTT(30) DEF TablesSound, Pinned
  <2>2. \A x, y \in NdRouters : r[x].n # 0 /\ r[y].n = r[x].n => x = y
    BY <1>0, SMTT(30) DEF TablesSound, Pinned
  <2>3. ASSUME NEW j \in NdNeighbors, m[j].router PROVE \E l \in NdRouters : r[l].n = j
    <3>1. CASE j = i
      BY <3>1
    <3>2. CASE j # i
      <4>1. PICK l \in NdRouters : rtr[l].n = j
        BY <2>3, <3>2 DEF TablesSound, Pinned
      <4>2. rtr[l].n # 0
        BY <4>1, NdSlots
      <4> QED BY <1>0, <4>1, <4>2
    <3> QED BY <3>1, <3>2
  <2> QED BY <2>1, <2>2, <2>3 DEF Pinned
<1>3. Routed(m, r, dst)
  BY <1>0, SMTT(30) DEF TablesSound, Routed
<1> QED
  BY <1>1, <1>2, <1>3 DEF TablesSound

\* Only the lifetimes of the routers change.
LEMMA RouterLife ==
  ASSUME NEW nbr \in NbrTab, NEW rtr \in RtrTab, NEW dst \in DstTab, TablesSound(nbr, rtr, dst),
         NEW r \in RtrTab, \A l \in NdRouters : r[l].n = rtr[l].n
  PROVE  TablesSound(nbr, r, dst)
BY SMTT(30) DEF TablesSound, Pinned, Routed

\* A state with other tables.
Tables(s, m, r) == [s EXCEPT !.nbr = m, !.rtr = r]

\* Other tables leave the destinations and the rest alone.
LEMMA WithTables ==
  ASSUME NEW s \in NdState, NEW m \in NbrTab, NEW r \in RtrTab
  PROVE  /\ Tables(s, m, r) \in NdState /\ Tables(s, m, r).nbr = m /\ Tables(s, m, r).rtr = r
         /\ Tables(s, m, r).dst = s.dst /\ SameRest(s, Tables(s, m, r))
BY DEF NdState, SameRest, Tables

\* nd6_new_router, for an address no default router has.
Marked(t, i, k) == [t EXCEPT !.nbr[i].router = TRUE, !.rtr[k].n = i]

\* A neighbour that becomes a default router is marked.
LEMMA MarkRouter ==
  ASSUME NEW t, Cached(t), NEW i \in NdNeighbors, t.nbr[i].addr # Any6,
         \A l \in NdRouters : t.rtr[l].n # i,
         NEW k \in NdRouters, t.rtr[k].n = 0
  PROVE  Cached(Marked(t, i, k)) /\ SameRest(t, Marked(t, i, k)) /\ Marked(t, i, k).rtr[k].n = i
<1> DEFINE e == [t.nbr[i] EXCEPT !.router = TRUE]
           m == [t.nbr EXCEPT ![i] = e]
           f == [t.rtr[k] EXCEPT !.n = i]
           r == [t.rtr EXCEPT ![k] = f]
<1>1. t \in NdState /\ t.nbr \in NbrTab /\ t.rtr \in RtrTab /\ t.dst \in DstTab
  BY DEF Cached, NdState
<1>2. t.nbr[i] \in Nbr /\ t.rtr[k] \in Rtr
  BY <1>1 DEF NbrTab, RtrTab
<1>3. /\ e \in Nbr /\ e.addr = t.nbr[i].addr /\ e.router
      /\ e.state = t.nbr[i].state /\ e.q = t.nbr[i].q
  BY <1>2 DEF Nbr
<1>4. f \in Rtr /\ f.n = i
  BY <1>2 DEF Rtr
<1>5. Marked(t, i, k) = Tables(t, m, r)
  BY <1>1, <1>2 DEF Marked, Tables, NdState, NbrTab, Nbr, RtrTab, Rtr
<1> HIDE DEF e, f
<1>6. m \in NbrTab /\ m[i] = e /\ \A j \in NdNeighbors : j # i => m[j] = t.nbr[j]
  BY <1>1, <1>3 DEF NbrTab
<1>7. r \in RtrTab /\ r[k] = f /\ \A l \in NdRouters : l # k => r[l] = t.rtr[l]
  BY <1>1, <1>4 DEF RtrTab
<1> HIDE DEF m, r
<1>8. TablesSound(m, r, t.dst)
  <2>1. t.nbr[i].state # "NO_ENTRY"
    BY EntryInUse
  <2>2. m[i].addr = t.nbr[i].addr /\ m[i].state = t.nbr[i].state /\ m[i].q = t.nbr[i].q
        /\ m[i].router /\ r[k].n = i
    BY <1>3, <1>4, <1>6, <1>7
  <2> QED BY <1>1, <1>6, <1>7, <2>1, <2>2, RouterEnter, SMTT(30) DEF Cached
<1> DEFINE u == Tables(t, m, r)
<1>9. u \in NdState /\ u.nbr = m /\ u.rtr = r /\ u.dst = t.dst /\ SameRest(t, u)
  BY <1>1, <1>6, <1>7, WithTables, SMTT(30)
<1> HIDE DEF u
<1>10. Cached(u) /\ SameRest(t, u) /\ u.rtr[k].n = i
  BY <1>4, <1>7, <1>8, <1>9 DEF Cached
<1> QED
  BY <1>5, <1>10 DEF u

\* Without a slot for the router the mark goes, which was not there.
LEMMA UnmarkRouter ==
  ASSUME NEW t, Cached(t), NEW i \in NdNeighbors, ~t.nbr[i].router
  PROVE  LET u == [t EXCEPT !.nbr[i].router = FALSE] IN Cached(u) /\ SameRest(t, u)
<1> DEFINE e == [t.nbr[i] EXCEPT !.router = FALSE]
           m == [t.nbr EXCEPT ![i] = e]
<1>1. t \in NdState /\ t.nbr \in NbrTab /\ t.rtr \in RtrTab /\ t.dst \in DstTab
  BY DEF Cached, NdState
<1>2. t.nbr[i] \in Nbr
  BY <1>1 DEF NbrTab
<1>3. /\ e \in Nbr /\ e.addr = t.nbr[i].addr /\ ~e.router
      /\ e.state = t.nbr[i].state /\ e.q = t.nbr[i].q
  BY <1>2 DEF Nbr
<1>4. e.router = t.nbr[i].router
  BY <1>2, <1>3 DEF Nbr
<1>5. [t EXCEPT !.nbr[i].router = FALSE] = [t EXCEPT !.nbr = m]
  BY <1>1, <1>2 DEF NdState, NbrTab, Nbr
<1> HIDE DEF e
<1>6. m \in NbrTab /\ m[i] = e /\ \A j \in NdNeighbors : j # i => m[j] = t.nbr[j]
  BY <1>1, <1>3 DEF NbrTab
<1> HIDE DEF m
<1>7. TablesSound(m, t.rtr, t.dst)
  <2>1. \A j \in NdNeighbors :
            /\ m[j].addr = t.nbr[j].addr /\ m[j].router = t.nbr[j].router
            /\ m[j].state = "NO_ENTRY" <=> t.nbr[j].state = "NO_ENTRY"
            /\ m[j].state \in {"NO_ENTRY", "STALE"} => ~m[j].q
    BY <1>3, <1>4, <1>6 DEF Cached, TablesSound, NbrSound
  <2> QED BY <1>1, <1>6, <2>1, NbrUpdate DEF Cached
<1>8. LET u == [t EXCEPT !.nbr = m] IN Cached(u) /\ SameRest(t, u)
  BY <1>1, <1>6, <1>7, WithNbr DEF Cached
<1> QED
  BY <1>5, <1>8

\* nd6_new_router keeps the tables sound, with or without a slot for the router.
LEMMA NewRouterKeeps ==
  ASSUME NEW s, Cached(s), NEW a \in Neighbors, nd6_get_router(s, a) = 0
  PROVE  LET r == nd6_new_router(s, a) IN
         /\ Cached(r[2]) /\ SameRest(s, r[2])
         /\ r[1] # 0 => r[1] \in NdRouters /\ r[2].rtr[r[1]].n # 0
<1> DEFINE known == nd6_find_neighbor_cache_entry(s, a)
           new == nd6_new_neighbor_cache_entry(s)
           i == IF known # 0 THEN known ELSE new
           t == IF known # 0 THEN s ELSE EnterNeighbor(s, i, a, "INCOMPLETE", 1)
           spare == LowestOf({k \in NdRouters : t.rtr[k].n = 0})
<1>0. a \in NdAddrs /\ a # Any6
  BY NodeAddrs
<1>1. (known = 0 => \A j \in NdNeighbors : s.nbr[j].addr # a)
      /\ (known # 0 => known \in NdNeighbors /\ s.nbr[known].addr = a)
  BY FindNeighbor
<1>2. new # 0 => new \in NdNeighbors /\ ~s.nbr[new].router
  BY NewNeighbor DEF Cached, TablesSound
<1>3. i # 0 => i \in NdNeighbors
  BY <1>1, <1>2
<1>4. i # 0 => Cached(t) /\ SameRest(s, t) /\ t.rtr = s.rtr /\ t.nbr[i].addr = a
  <2>1. CASE known # 0
    BY <1>1, <2>1 DEF SameRest
  <2>2. CASE known = 0 /\ i # 0
    <3>1. i = new /\ t = EnterNeighbor(s, new, a, "INCOMPLETE", 1)
      BY <2>2
    <3> HIDE DEF known, new, i, t
    <3> QED BY <1>0, <1>1, <1>2, <2>2, <3>1, EnterKeeps, SMTT(30)
  <2> QED BY <2>1, <2>2
<1>5. i # 0 => \A l \in NdRouters : t.rtr[l].n # i
  <2> SUFFICES ASSUME i # 0, NEW l \in NdRouters, s.rtr[l].n = i PROVE FALSE
    BY <1>4
  <2>1. i \in NdNeighbors
    BY <1>3
  <2>2. s.nbr[i].router
    BY DEF Cached, TablesSound, Pinned
  <2>3. known # 0
    BY <1>2, <2>2
  <2>4. s.nbr[s.rtr[l].n].addr = a
    BY <1>1, <2>3
  <2> QED BY <2>4, GetRouter, SMTT(30)
<1>6. i # 0 => ~t.nbr[i].router
  <2> HIDE DEF i, t
  <2> QED BY <1>3, <1>4, <1>5 DEF Cached, TablesSound, Pinned
<1>7. spare # 0 => spare \in NdRouters /\ t.rtr[spare].n = 0
  <2> DEFINE S == {k \in NdRouters : t.rtr[k].n = 0}
  <2>1. S \subseteq Nat \ {0}
    BY NdSlots
  <2>2. LowestOf(S) # 0 => LowestOf(S) \in S
    <3> HIDE DEF S
    <3> QED BY <2>1, LowestFacts
  <2> HIDE DEF t
  <2> QED BY <2>2
<1>8. nd6_new_router(s, a) =
        IF i = 0 THEN <<0, s>>
        ELSE IF spare # 0 THEN <<spare, [t EXCEPT !.nbr[i].router = TRUE, !.rtr[spare].n = i]>>
        ELSE <<0, [t EXCEPT !.nbr[i].router = FALSE]>>
  BY DEF nd6_new_router
<1> DEFINE u == Marked(t, i, spare)
           v == [t EXCEPT !.nbr[i].router = FALSE]
<1>9. i # 0 /\ spare # 0 => Cached(u) /\ SameRest(t, u) /\ u.rtr[spare].n = i
  <2> HIDE DEF i, t, spare
  <2> SUFFICES ASSUME i # 0, spare # 0
               PROVE  Cached(u) /\ SameRest(t, u) /\ u.rtr[spare].n = i
    OBVIOUS
  <2>1. i \in NdNeighbors /\ Cached(t) /\ t.nbr[i].addr # Any6
    BY <1>0, <1>3, <1>4
  <2>2. spare \in NdRouters /\ t.rtr[spare].n = 0 /\ \A l \in NdRouters : t.rtr[l].n # i
    BY <1>5, <1>7
  <2> QED BY <2>1, <2>2, MarkRouter
<1>10. i # 0 => Cached(v) /\ SameRest(t, v)
  <2> HIDE DEF i, t, spare
  <2> QED BY <1>3, <1>4, <1>6, UnmarkRouter
<1> HIDE DEF i, t, spare, u, v
<1>11. \/ i = 0 /\ nd6_new_router(s, a) = <<0, s>>
       \/ i # 0 /\ spare # 0 /\ nd6_new_router(s, a) = <<spare, u>>
       \/ i # 0 /\ nd6_new_router(s, a) = <<0, v>>
  BY <1>8 DEF u, v, Marked
<1>12. CASE i = 0 /\ nd6_new_router(s, a) = <<0, s>>
  BY <1>12, SMTT(30) DEF SameRest
<1>13. CASE i # 0 /\ spare # 0 /\ nd6_new_router(s, a) = <<spare, u>>
  BY <1>4, <1>7, <1>9, <1>13, SameRestTrans, SMTT(30)
<1>14. CASE i # 0 /\ nd6_new_router(s, a) = <<0, v>>
  BY <1>4, <1>10, <1>14, SameRestTrans, SMTT(30)
<1> QED
  BY <1>11, <1>12, <1>13, <1>14

\* The lifetime of a router, and of the prefix on the link.
Lives(s, k, life, onlink) == [s EXCEPT !.rtr[k].life = life, !.onlink = onlink]

\* New lifetimes keep the tables sound.
LEMMA LivesKeep ==
  ASSUME NEW s, Cached(s), NEW k \in NdRouters, NEW life \in Int, NEW onlink \in Int
  PROVE  LET t == Lives(s, k, life, onlink) IN
         /\ Cached(t) /\ SameRest(s, t) /\ t.nbr = s.nbr /\ t.rtr[k].n = s.rtr[k].n
<1> DEFINE f == [s.rtr[k] EXCEPT !.life = life]
           r == [s.rtr EXCEPT ![k] = f]
           t == Lives(s, k, life, onlink)
<1>1. s \in NdState /\ s.nbr \in NbrTab /\ s.rtr \in RtrTab /\ s.dst \in DstTab
  BY DEF Cached, NdState
<1>2. s.rtr[k] \in Rtr
  BY <1>1 DEF RtrTab
<1>3. f \in Rtr /\ f.n = s.rtr[k].n
  BY <1>2 DEF Rtr
<1> HIDE DEF f
<1>4. r \in RtrTab /\ \A l \in NdRouters : r[l].n = s.rtr[l].n
  BY <1>1, <1>3 DEF RtrTab
<1>5. t = [s EXCEPT !.rtr = r, !.onlink = onlink]
  BY <1>1 DEF Lives, NdState, f
<1> HIDE DEF r
<1>6. t \in NdState /\ t.nbr = s.nbr /\ t.rtr = r /\ t.dst = s.dst /\ SameRest(s, t)
  BY <1>1, <1>4, <1>5 DEF NdState, SameRest
<1> HIDE DEF t
<1>7. TablesSound(t.nbr, t.rtr, t.dst)
  BY <1>1, <1>4, <1>6, RouterLife DEF Cached
<1> QED
  BY <1>4, <1>6, <1>7 DEF Cached, t

\* nd6_input of a router advertisement.
LEMMA InputRAKeeps ==
  ASSUME NEW s, Cached(s), NEW a \in Neighbors, NEW life \in Int, NEW option \in BOOLEAN,
         NEW onlink \in Int
  PROVE  /\ Cached(InputRA(s, a, life, option, onlink))
         /\ SameRest(s, InputRA(s, a, life, option, onlink))
<1> DEFINE known == nd6_get_router(s, a)
           r == IF known # 0 THEN <<known, s>> ELSE nd6_new_router(s, a)
           k == r[1]
           v == r[2]
           on == IF onlink < 0 THEN v.onlink ELSE onlink
           t == Lives(v, k, life, on)
           i == t.rtr[k].n
<1>1. Cached(v) /\ SameRest(s, v) /\ (k # 0 => k \in NdRouters /\ v.rtr[k].n # 0)
  <2>1. CASE known # 0
    <3>1. k = known /\ v = s
      BY <2>1
    <3>2. known \in NdRouters /\ s.rtr[known].n # 0
      BY <2>1, GetRouter
    <3> HIDE DEF known, k, v
    <3> QED BY <3>1, <3>2 DEF SameRest
  <2>2. CASE known = 0
    <3>1. k = nd6_new_router(s, a)[1] /\ v = nd6_new_router(s, a)[2]
      BY <2>2
    <3> HIDE DEF k, v
    <3> QED BY <2>2, <3>1, NewRouterKeeps
  <2> QED BY <2>1, <2>2
<1>2. InputRA(s, a, life, option, onlink) =
        IF k = 0 THEN v
        ELSE IF option /\ t.nbr[i].state = "INCOMPLETE" THEN SetState(t, i, "REACHABLE", NdTicks)
        ELSE t
  BY DEF InputRA, Lives
<1> HIDE DEF k, v
<1>3. CASE k = 0
  BY <1>1, <1>2, <1>3
<1>4. CASE k # 0
  <2>1. on \in Int
    BY <1>1 DEF Cached, NdState
  <2> HIDE DEF on
  <2>2. Cached(t) /\ SameRest(v, t) /\ t.nbr = v.nbr /\ t.rtr[k].n = v.rtr[k].n
    BY <1>1, <1>4, <2>1, LivesKeep
  <2> HIDE DEF t
  <2>3. i \in NdNeighbors
    BY <1>1, <1>4, <2>2 DEF Cached, NdState, RtrTab, Rtr
  <2> HIDE DEF i
  <2>4. CASE InputRA(s, a, life, option, onlink) = t
    BY <1>1, <2>2, <2>4, SameRestTrans
  <2>5. CASE InputRA(s, a, life, option, onlink) = SetState(t, i, "REACHABLE", NdTicks)
             /\ t.nbr[i].state = "INCOMPLETE"
    <3>1. LET u == SetState(t, i, "REACHABLE", NdTicks) IN Cached(u) /\ SameRest(t, u)
      BY <2>2, <2>3, <2>5, SetStateKeeps, NdAssumption, SMTT(30)
    <3> QED BY <1>1, <2>2, <2>5, <3>1, SameRestTrans
  <2> QED BY <1>2, <1>4, <2>4, <2>5
<1> QED
  BY <1>3, <1>4

\* A state with another destination cache.
DstSet(s, j, e) == [s EXCEPT !.dst[j] = e]

\* A new destination entry needs a hop, no other entry for its address, and its router.
LEMMA DstUpdate ==
  ASSUME NEW s, Cached(s), NEW j \in NdDestinations, NEW e \in Dst,
         e.dst # Any6 => e.hop # Any6 /\ \A i \in NdDestinations : i # j => s.dst[i].dst # e.dst,
         e.how = "router" => \E k \in NdRouters : s.rtr[k].n # 0 /\ s.nbr[s.rtr[k].n].addr = e.hop
  PROVE  LET t == DstSet(s, j, e) IN
         /\ Cached(t) /\ SameRest(s, t) /\ t.nbr = s.nbr /\ t.rtr = s.rtr /\ t.dst[j] = e
         /\ \A i \in NdDestinations : i # j => t.dst[i] = s.dst[i]
<1> DEFINE m == [s.dst EXCEPT ![j] = e]
           t == DstSet(s, j, e)
<1>1. s \in NdState /\ s.nbr \in NbrTab /\ s.rtr \in RtrTab /\ s.dst \in DstTab
  BY DEF Cached, NdState
<1>2. m \in DstTab /\ m[j] = e /\ \A i \in NdDestinations : i # j => m[i] = s.dst[i]
  BY <1>1 DEF DstTab
<1>3. t = [s EXCEPT !.dst = m]
  BY <1>1 DEF DstSet, NdState
<1> HIDE DEF m
<1>4. t \in NdState /\ t.nbr = s.nbr /\ t.rtr = s.rtr /\ t.dst = m /\ SameRest(s, t)
  BY <1>1, <1>2, <1>3 DEF NdState, SameRest
<1>5. DstSound(m)
  <2>1. ASSUME NEW x \in NdDestinations, NEW y \in NdDestinations, m[x].dst = m[y].dst, x # y
        PROVE  m[x].dst = Any6
    <3>1. CASE x = j
      BY <1>2, <2>1, <3>1
    <3>2. CASE y = j
      BY <1>2, <2>1, <3>2
    <3>3. CASE x # j /\ y # j
      BY <1>2, <2>1, <3>3, SMTT(30) DEF Cached, TablesSound, DstSound
    <3> QED BY <3>1, <3>2, <3>3
  <2>2. \A x \in NdDestinations : m[x].dst # Any6 => m[x].hop # Any6
    BY <1>2 DEF Cached, TablesSound, DstSound
  <2> QED BY <2>1, <2>2 DEF DstSound
<1>6. Routed(s.nbr, s.rtr, m)
  BY <1>2 DEF Cached, TablesSound, Routed
<1> HIDE DEF t
<1>7. Cached(t)
  BY <1>4, <1>5, <1>6 DEF Cached, TablesSound
<1> QED
  BY <1>2, <1>4, <1>7 DEF t

\* nd6_input of a redirect.
LEMMA InputRDKeeps ==
  ASSUME NEW s, Cached(s), NEW d \in NdFar, NEW a \in Neighbors, NEW option \in BOOLEAN
  PROVE  Cached(InputRD(s, d, a, option)) /\ SameRest(s, InputRD(s, d, a, option))
<1> DEFINE j == nd6_find_destination_cache_entry(s, d)
           e == [s.dst[j] EXCEPT !.hop = a, !.how = "redirect"]
           t == [s EXCEPT !.dst[j].hop = a, !.dst[j].how = "redirect"]
<1>0. a \in NdAddrs /\ a # Any6
  BY NodeAddrs
<1>1. j # 0 => j \in NdDestinations
  BY FindDestination
<1>2. InputRD(s, d, a, option) = IF j = 0 THEN s ELSE IF ~option THEN t ELSE HeardFrom(t, a)
  BY SMTT(120) DEF InputRD, HeardFrom
<1> HIDE DEF j
<1>3. CASE j = 0
  BY <1>2, <1>3 DEF SameRest
<1>4. CASE j # 0
  <2>1. s \in NdState /\ s.dst \in DstTab /\ j \in NdDestinations
    BY <1>1, <1>4 DEF Cached, NdState
  <2>2. s.dst[j] \in Dst
    BY <2>1 DEF DstTab
  <2>3. e \in Dst /\ e.hop = a /\ e.how = "redirect" /\ e.dst = s.dst[j].dst
    BY <1>0, <2>2 DEF Dst
  <2>4. t = DstSet(s, j, e)
    BY <2>1, <2>2 DEF DstSet, NdState, DstTab, Dst
  <2> HIDE DEF e, t
  <2>5. e.dst # Any6 => e.hop # Any6 /\ \A i \in NdDestinations : i # j => s.dst[i].dst # e.dst
    BY <1>0, <2>1, <2>3 DEF Cached, TablesSound, DstSound
  <2>6. Cached(t) /\ SameRest(s, t)
    BY <2>1, <2>3, <2>4, <2>5, DstUpdate
  <2>7. Cached(HeardFrom(t, a)) /\ SameRest(s, HeardFrom(t, a))
    BY <2>6, HeardKeeps, SameRestTrans
  <2> QED BY <1>2, <1>4, <2>6, <2>7
<1> QED
  BY <1>3, <1>4

\* nd6_select_router: a default router or none; only the turn moves.
LEMMA SelectRouter ==
  ASSUME NEW s, Cached(s), NEW routing \in BOOLEAN
  PROVE  LET k == nd6_select_router(s, routing) IN
         /\ Cached(k[2]) /\ SameRest(s, k[2])
         /\ k[2].nbr = s.nbr /\ k[2].rtr = s.rtr /\ k[2].dst = s.dst
         /\ k[1] # 0 => k[1] \in NdRouters /\ s.rtr[k[1]].n # 0
<1> DEFINE listed == {k \in NdRouters : s.rtr[k].n # 0}
           of(st) == {k \in listed : s.nbr[s.rtr[k].n].state = st}
           valid == listed \ of("INCOMPLETE")
           n == Cardinality(NdRouters)
           turn == IF routing THEN (s.last % n) + 1 ELSE s.last
           inTurn == {j \in 0 .. n - 1 : ((turn - 1 + j) % n) + 1 \in listed}
           reach == of("REACHABLE")
           moved == [s EXCEPT !.last = turn]
           pick == IF inTurn = {} THEN 0 ELSE ((turn - 1 + Min(inTurn)) % n) + 1
<1>1. s \in NdState /\ s.last \in Int /\ n \in Nat \ {0}
  BY NdSlots DEF Cached, NdState
<1>2. turn \in Int
  <2> HIDE DEF n
  <2> QED BY <1>1, SMTT(30)
<1>3. reach # {} => Min(reach) \in listed
  <2>1. reach \subseteq Nat /\ reach \subseteq listed
    BY NdSlots
  <2> HIDE DEF reach, listed
  <2> QED BY <2>1, Least
<1>4. valid # {} => Min(valid) \in listed
  <2>1. valid \subseteq Nat /\ valid \subseteq listed
    BY NdSlots
  <2> HIDE DEF valid, listed
  <2> QED BY <2>1, Least
<1>5. pick # 0 => pick \in listed
  <2>1. inTurn \subseteq Nat
    <3> HIDE DEF n
    <3> QED BY <1>1, SMTT(30)
  <2>2. inTurn # {} => Min(inTurn) \in inTurn
    <3> HIDE DEF inTurn
    <3> QED BY <2>1, Least
  <2> HIDE DEF turn, n, listed
  <2> QED BY <2>2
<1>6. \/ nd6_select_router(s, routing) = <<Min(reach), s>> /\ reach # {}
      \/ nd6_select_router(s, routing) = <<Min(valid), s>> /\ valid # {}
      \/ nd6_select_router(s, routing) = <<pick, moved>>
  BY DEF nd6_select_router
<1> HIDE DEF turn
<1>7. /\ moved \in NdState /\ moved.nbr = s.nbr /\ moved.rtr = s.rtr /\ moved.dst = s.dst
      /\ SameRest(s, moved)
  BY <1>1, <1>2 DEF NdState, SameRest
<1> HIDE DEF moved, pick, reach, valid
<1>8. Cached(moved)
  BY <1>7 DEF Cached
<1>9. \A k \in listed : k \in NdRouters /\ s.rtr[k].n # 0
  OBVIOUS
<1> HIDE DEF listed
<1>10. SameRest(s, s)
  BY DEF SameRest
<1>11. CASE nd6_select_router(s, routing) = <<Min(reach), s>> /\ reach # {}
  BY <1>3, <1>9, <1>10, <1>11, SMTT(30)
<1>12. CASE nd6_select_router(s, routing) = <<Min(valid), s>> /\ valid # {}
  BY <1>4, <1>9, <1>10, <1>12, SMTT(30)
<1>13. CASE nd6_select_router(s, routing) = <<pick, moved>>
  BY <1>5, <1>7, <1>8, <1>9, <1>13, SMTT(30)
<1> QED
  BY <1>6, <1>11, <1>12, <1>13

\* A destination that no entry is for gets one, and none when it has no route.
HopEntry(d, hop, how) == [dst |-> d, hop |-> hop, how |-> how, age |-> 0]

\* The entry for a destination that had none keeps the tables sound.
LEMMA NewHopKeeps ==
  ASSUME NEW s, Cached(s), NEW d \in NdNodes \cup NdFar, NEW j \in NdDestinations,
         \A i \in NdDestinations : s.dst[i].dst # d,
         NEW hop \in NdAddrs, hop # Any6, NEW how \in {"self", "router"},
         how = "router" => \E k \in NdRouters : s.rtr[k].n # 0 /\ s.nbr[s.rtr[k].n].addr = hop
  PROVE  LET t == DstSet(s, j, HopEntry(d, hop, how)) IN
         Cached(t) /\ SameRest(s, t) /\ t.dst[j].hop = hop
<1> DEFINE e == HopEntry(d, hop, how)
<1>1. e \in Dst /\ e.dst = d /\ e.hop = hop /\ e.how = how
  BY NodeAddrs, SMTT(30) DEF Dst, HopEntry
<1> HIDE DEF e
<1>2. e.dst # Any6 => e.hop # Any6 /\ \A i \in NdDestinations : i # j => s.dst[i].dst # e.dst
  BY <1>1
<1>3. e.how = "router" => \E k \in NdRouters : s.rtr[k].n # 0 /\ s.nbr[s.rtr[k].n].addr = e.hop
  BY <1>1
<1>4. Cached(DstSet(s, j, e)) /\ SameRest(s, DstSet(s, j, e)) /\ DstSet(s, j, e).dst[j] = e
  BY <1>1, <1>2, <1>3, DstUpdate, SMTT(120)
<1> QED
  BY <1>1, <1>4 DEF e

\* The age of a destination, and the entry of one without a route.
LEMMA AgeKeeps ==
  ASSUME NEW s, Cached(s), NEW j \in NdDestinations, NEW age \in Int
  PROVE  LET t == [s EXCEPT !.dst[j].age = age] IN
         /\ Cached(t) /\ SameRest(s, t) /\ t.nbr = s.nbr /\ t.dst[j].hop = s.dst[j].hop
<1> DEFINE e == [s.dst[j] EXCEPT !.age = age]
           t == [s EXCEPT !.dst[j].age = age]
<1>1. s \in NdState /\ s.dst \in DstTab
  BY DEF Cached, NdState
<1>2. s.dst[j] \in Dst
  BY <1>1 DEF DstTab
<1>3. e \in Dst /\ e.hop = s.dst[j].hop /\ e.how = s.dst[j].how /\ e.dst = s.dst[j].dst
  BY <1>2 DEF Dst
<1>4. t = DstSet(s, j, e)
  BY <1>1, <1>2 DEF DstSet, NdState, DstTab, Dst
<1> HIDE DEF e, t
<1>5. e.dst # Any6 => e.hop # Any6 /\ \A i \in NdDestinations : i # j => s.dst[i].dst # e.dst
  BY <1>3 DEF Cached, TablesSound, DstSound
<1>6. e.how = "router" => \E k \in NdRouters : s.rtr[k].n # 0 /\ s.nbr[s.rtr[k].n].addr = e.hop
  BY <1>3 DEF Cached, TablesSound, Routed
<1>7. Cached(t) /\ SameRest(s, t) /\ t.nbr = s.nbr /\ t.dst[j].hop = s.dst[j].hop
  BY <1>3, <1>4, <1>5, <1>6, DstUpdate, SMTT(30)
<1> QED
  BY <1>7 DEF t

\* So does clearing an entry when there is no route.
LEMMA NoRouteKeeps ==
  ASSUME NEW s, Cached(s), NEW j \in NdDestinations
  PROVE  /\ Cached([s EXCEPT !.dst[j] = NoDestination])
         /\ SameRest(s, [s EXCEPT !.dst[j] = NoDestination])
<1>1. NoDestination \in Dst /\ NoDestination.dst = Any6 /\ NoDestination.how = "none"
  BY SMTT(30) DEF NoDestination, Dst, NdAddrs
<1>2. Cached(DstSet(s, j, NoDestination)) /\ SameRest(s, DstSet(s, j, NoDestination))
  BY <1>1, DstUpdate
<1> QED
  BY <1>2 DEF DstSet

\* nd6_get_next_hop_entry: the entry it returns is in use.
LEMMA NextHopEntry ==
  ASSUME NEW s, Cached(s), NEW d \in NdNodes \cup NdFar
  PROVE  LET h == nd6_get_next_hop_entry(s, d) IN
         /\ Cached(h[2]) /\ SameRest(s, h[2])
         /\ h[1] # 0 => h[1] \in NdNeighbors /\ h[2].nbr[h[1]].state # "NO_ENTRY"
<1> DEFINE known == nd6_find_destination_cache_entry(s, d)
           j == IF known # 0 THEN known ELSE nd6_new_destination_cache_entry(s)
           direct == d \notin NdFar \/ nd6_is_prefix_in_netif(s, d)
           k == nd6_select_router(s, FALSE)
           self == [dst |-> d, hop |-> d, how |-> "self", age |-> 0]
           via == [dst |-> d, hop |-> s.nbr[s.rtr[k[1]].n].addr, how |-> "router", age |-> 0]
           entry == IF direct THEN self ELSE via
           t == IF known # 0 THEN [s EXCEPT !.dst[j].age = 0] ELSE [k[2] EXCEPT !.dst[j] = entry]
           a == t.dst[j].hop
           found == nd6_find_neighbor_cache_entry(t, a)
           i == IF found # 0 THEN found ELSE nd6_new_neighbor_cache_entry(t)
           none == [s EXCEPT !.dst[j] = NoDestination]
           back == [t EXCEPT !.dst[j].age = s.dst[j].age]
           enter == EnterNeighbor(t, i, a, "INCOMPLETE", 1)
           lost == known = 0 /\ ~direct /\ k[1] = 0
<1>0. d \in NdAddrs /\ d # Any6
  BY NodeAddrs
<1>1. j \in NdDestinations /\ (known # 0 => s.dst[j].dst = d)
      /\ (known = 0 => \A x \in NdDestinations : s.dst[x].dst # d)
  BY FindDestination, NewDestination
<1>2. /\ Cached(k[2]) /\ SameRest(s, k[2])
      /\ k[2].nbr = s.nbr /\ k[2].rtr = s.rtr /\ k[2].dst = s.dst
      /\ k[1] # 0 => k[1] \in NdRouters /\ s.rtr[k[1]].n # 0
  BY SelectRouter
<1>3. nd6_get_next_hop_entry(s, d) =
        IF lost THEN <<0, none>>
        ELSE IF i = 0 THEN <<0, back>>
        ELSE IF t.nbr[i].addr = a THEN <<i, t>>
        ELSE <<i, enter>>
  BY DEF nd6_get_next_hop_entry
<1> DEFINE v == k[2]
<1> HIDE DEF known, j, k, direct, v
<1>4. CASE lost
  <2>1. nd6_get_next_hop_entry(s, d) = <<0, none>>
    BY <1>3, <1>4
  <2>2. Cached(none) /\ SameRest(s, none)
    BY <1>1, NoRouteKeeps
  <2> HIDE DEF none
  <2> QED BY <2>1, <2>2, SMTT(30)
<1>5. CASE ~lost
  <2>1. Cached(t) /\ SameRest(s, t) /\ a \in NdAddrs /\ a # Any6
    <3>1. CASE known # 0
      <4>1. t = [s EXCEPT !.dst[j].age = 0]
        BY <3>1
      <4> HIDE DEF t
      <4>2. Cached(t) /\ SameRest(s, t) /\ t.dst[j].hop = s.dst[j].hop
        BY <1>1, <4>1, AgeKeeps, SMTT(30)
      <4>3. s.dst[j] \in Dst
        BY <1>1 DEF Cached, NdState, DstTab
      <4>4. s.dst[j].hop \in NdAddrs
        BY <4>3 DEF Dst
      <4>5. s.dst[j].hop # Any6
        BY <1>0, <1>1, <3>1 DEF Cached, TablesSound, DstSound
      <4> QED BY <4>2, <4>4, <4>5
    <3>2. CASE known = 0 /\ direct
      <4>1. t = DstSet(v, j, HopEntry(d, d, "self"))
        BY <3>2 DEF DstSet, HopEntry, v
      <4> HIDE DEF t
      <4>2. \A x \in NdDestinations : v.dst[x].dst # d
        BY <1>1, <1>2, <3>2 DEF v
      <4>3. Cached(t) /\ SameRest(v, t) /\ t.dst[j].hop = d
        BY <1>0, <1>1, <1>2, <4>1, <4>2, NewHopKeeps, SMTT(30) DEF v
      <4> QED BY <1>0, <1>2, <4>3, SameRestTrans DEF v
    <3>3. CASE known = 0 /\ ~direct
      <4> DEFINE r == s.rtr[k[1]].n
                 hop == s.nbr[r].addr
      <4>1. t = DstSet(v, j, HopEntry(d, hop, "router"))
        BY <3>3 DEF DstSet, HopEntry, v
      <4>2. k[1] \in NdRouters /\ r # 0
        BY <1>2, <1>5, <3>3
      <4>3. r \in NdNeighbors /\ s.nbr[r] \in Nbr
        BY <4>2 DEF Cached, NdState, RtrTab, Rtr, NbrTab
      <4>4. hop \in NdAddrs
        BY <4>3 DEF Nbr
      <4>5. hop # Any6
        BY <4>2, <4>3 DEF Cached, TablesSound, Pinned, NbrSound
      <4>6. \E x \in NdRouters : v.rtr[x].n # 0 /\ v.nbr[v.rtr[x].n].addr = hop
        BY <1>2, <4>2 DEF v
      <4>7. \A x \in NdDestinations : v.dst[x].dst # d
        BY <1>1, <1>2, <3>3 DEF v
      <4>8. Cached(v) /\ SameRest(s, v)
        BY <1>2 DEF v
      <4> HIDE DEF t, hop
      <4>9. Cached(t) /\ SameRest(v, t) /\ t.dst[j].hop = hop
        BY <1>1, <4>1, <4>4, <4>5, <4>6, <4>7, <4>8, NewHopKeeps, SMTT(120)
      <4> QED BY <4>4, <4>5, <4>8, <4>9, SameRestTrans
    <3> QED BY <3>1, <3>2, <3>3
  <2> HIDE DEF t, a
  <2>2. (found = 0 => \A x \in NdNeighbors : t.nbr[x].addr # a)
        /\ (found # 0 => found \in NdNeighbors /\ t.nbr[found].addr = a)
    BY FindNeighbor
  <2>3. i # 0 => i \in NdNeighbors /\ (found = 0 => ~t.nbr[i].router)
    <3>1. LET n == nd6_new_neighbor_cache_entry(t) IN n # 0 => n \in NdNeighbors /\ ~t.nbr[n].router
      BY <2>1, NewNeighbor DEF Cached, TablesSound
    <3> QED BY <2>2, <3>1
  <2>4. found # 0 => t.nbr[i].addr = a
    BY <2>2
  <2> HIDE DEF found, i
  <2>5. CASE i = 0
    <3>1. nd6_get_next_hop_entry(s, d) = <<0, back>>
      BY <1>3, <1>5, <2>5
    <3>2. s.dst[j].age \in Int
      BY <1>1 DEF Cached, NdState, DstTab, Dst
    <3>3. Cached(back) /\ SameRest(t, back)
      BY <1>1, <2>1, <3>2, AgeKeeps
    <3> HIDE DEF back
    <3> QED BY <2>1, <3>1, <3>3, SameRestTrans, SMTT(30)
  <2>6. CASE i # 0 /\ t.nbr[i].addr = a
    <3>1. nd6_get_next_hop_entry(s, d) = <<i, t>>
      BY <1>3, <1>5, <2>6
    <3> QED BY <2>1, <2>3, <2>6, <3>1, EntryInUse, SMTT(30)
  <2>7. CASE i # 0 /\ t.nbr[i].addr # a
    <3>1. nd6_get_next_hop_entry(s, d) = <<i, enter>>
      BY <1>3, <1>5, <2>7
    <3>2. Cached(enter) /\ SameRest(t, enter) /\ enter.nbr[i].state = "INCOMPLETE"
      BY <2>1, <2>2, <2>3, <2>4, <2>7, EnterKeeps, SMTT(30)
    <3> HIDE DEF enter
    <3> QED BY <2>1, <2>3, <2>7, <3>1, <3>2, SameRestTrans, SMTT(30)
  <2> QED BY <2>5, <2>6, <2>7
<1> QED
  BY <1>4, <1>5

\* nd6_get_next_hop_addr_or_queue.
LEMMA NextHopKeeps ==
  ASSUME NEW s, Cached(s), NEW d \in NdNodes \cup NdFar, NEW room \in BOOLEAN
  PROVE  /\ Cached(nd6_get_next_hop_addr_or_queue(s, d, room))
         /\ SameRest(s, nd6_get_next_hop_addr_or_queue(s, d, room))
<1> DEFINE h == nd6_get_next_hop_entry(s, d)
           i == h[1]
           t == h[2]
           u == nd6_get_next_hop_addr_or_queue(s, d, room)
<1>1. Cached(t) /\ SameRest(s, t) /\ (i # 0 => i \in NdNeighbors /\ t.nbr[i].state # "NO_ENTRY")
  BY NextHopEntry
<1>2. \/ u = t
      \/ i # 0 /\ u = SetState(t, i, "DELAY", 1)
      \/ i # 0 /\ t.nbr[i].state = "INCOMPLETE" /\ u = nd6_queue_packet(t, i, room)
  BY DEF nd6_get_next_hop_addr_or_queue
<1> HIDE DEF i, t, u
<1>3. CASE u = t
  BY <1>1, <1>3 DEF u
<1>4. CASE i # 0 /\ u = SetState(t, i, "DELAY", 1)
  BY <1>1, <1>4, SetStateKeeps, SameRestTrans, SMTT(30) DEF u
<1>5. CASE i # 0 /\ t.nbr[i].state = "INCOMPLETE" /\ u = nd6_queue_packet(t, i, room)
  <2>1. u = [t EXCEPT !.nbr[i].q = room]
    BY <1>5 DEF nd6_queue_packet
  <2>2. Cached(u) /\ SameRest(t, u)
    BY <1>1, <1>5, <2>1, QueueKeeps, SMTT(30)
  <2> QED BY <1>1, <2>2, SameRestTrans DEF u
<1> QED
  BY <1>2, <1>3, <1>4, <1>5

\* s with other tables, and another lifetime of the prefix.
WithAll(s, m, r, e, life) == [s EXCEPT !.nbr = m, !.onlink = life, !.rtr = r, !.dst = e]

\* Only the tables change.
LEMMA WithAllKeeps ==
  ASSUME NEW s \in NdState, NEW m \in NbrTab, NEW r \in RtrTab, NEW e \in DstTab, NEW life \in Int
  PROVE  LET t == WithAll(s, m, r, e, life) IN
         t \in NdState /\ t.nbr = m /\ t.rtr = r /\ t.dst = e /\ t.onlink = life /\ SameRest(s, t)
BY DEF NdState, SameRest, WithAll

\* nd6_cleanup_netif.
LEMMA CleanupKeeps ==
  ASSUME NEW s, Cached(s)
  PROVE  Cached(nd6_cleanup_netif(s)) /\ SameRest(s, nd6_cleanup_netif(s))
<1> DEFINE m == [i \in NdNeighbors |-> NoNeighbor]
           r == [k \in NdRouters |-> NoRouter]
           e == [j \in NdDestinations |-> NoDestination]
           t == nd6_cleanup_netif(s)
<1>1. s \in NdState
  BY DEF Cached
<1>2. /\ NoNeighbor \in Nbr /\ NoNeighbor.addr = Any6 /\ NoNeighbor.state = "NO_ENTRY"
      /\ ~NoNeighbor.router /\ ~NoNeighbor.q
      /\ NoRouter \in Rtr /\ NoRouter.n = 0
      /\ NoDestination \in Dst /\ NoDestination.dst = Any6 /\ NoDestination.how = "none"
  BY SMTT(30) DEF NoNeighbor, NoRouter, NoDestination, Nbr, Rtr, Dst, NdAddrs, NbrStates
<1>3. m \in NbrTab /\ r \in RtrTab /\ e \in DstTab
  BY <1>2 DEF NbrTab, RtrTab, DstTab
<1>4. TablesSound(m, r, e)
  BY <1>2 DEF TablesSound, NbrSound, Pinned, DstSound, Routed
<1> HIDE DEF m, r, e
<1>5. t = WithAll(s, m, r, e, 0)
  BY DEF nd6_cleanup_netif, m, r, e, WithAll
<1>6. t \in NdState /\ t.nbr = m /\ t.rtr = r /\ t.dst = e /\ SameRest(s, t)
  BY <1>1, <1>3, <1>5, WithAllKeeps, SMTT(30)
<1> HIDE DEF t
<1> QED
  BY <1>4, <1>6 DEF Cached, t

\* A neighbour entry with another state, its packets kept or sent.
Updated(e, st, c) == [e EXCEPT !.state = st, !.cnt = c]
Sent(e, st, c) == [e EXCEPT !.q = FALSE, !.state = st, !.cnt = c]

\* An update of the queue, the state and the counter leaves the rest alone.
LEMMA EntryFields ==
  ASSUME NEW e \in Nbr, NEW st \in NbrStates, NEW c \in Int
  PROVE  /\ Updated(e, st, c) \in Nbr
         /\ Updated(e, st, c).addr = e.addr /\ Updated(e, st, c).router = e.router
         /\ Updated(e, st, c).state = st
         /\ Sent(e, st, c) \in Nbr
         /\ Sent(e, st, c).addr = e.addr /\ Sent(e, st, c).router = e.router
         /\ Sent(e, st, c).state = st /\ ~Sent(e, st, c).q
BY DEF Nbr, Updated, Sent

\* An entry that ages keeps its address and its mark, or is freed; the one of a
\* router is not freed.
LEMMA TmrNeighborFacts ==
  ASSUME NEW e \in Nbr, e.state \in {"NO_ENTRY", "STALE"} => ~e.q
  PROVE  LET f == TmrNeighbor(e) IN
         /\ f \in Nbr
         /\ \/ f = NoNeighbor /\ ~e.router
            \/ /\ f.addr = e.addr /\ f.router = e.router
               /\ f.state = "NO_ENTRY" <=> e.state = "NO_ENTRY"
               /\ f.state \in {"NO_ENTRY", "STALE"} => ~f.q
<1> DEFINE f == TmrNeighbor(e)
<1>0. NoNeighbor \in Nbr
  BY SMTT(30) DEF NoNeighbor, Nbr, NdAddrs, NbrStates
<1>1. e.state \in NbrStates /\ e.cnt \in Int /\ NdSolicits \in Int
  BY NdAssumption, SMTT(30) DEF Nbr
<1>a. {"STALE", "PROBE"} \subseteq NbrStates
  BY DEF NbrStates
<1>2. CASE e.state \in {"INCOMPLETE", "PROBE"} /\ e.cnt < NdSolicits
  <2>1. f = [e EXCEPT !.cnt = @ + 1]
    BY <1>2 DEF TmrNeighbor
  <2> QED BY <1>1, <1>2, <2>1, SMTT(30) DEF Nbr
<1>3. CASE e.state \in {"INCOMPLETE", "PROBE"} /\ ~(e.cnt < NdSolicits)
  <2>1. f = IF e.router THEN e ELSE NoNeighbor
    BY <1>3 DEF TmrNeighbor, nd6_free_neighbor_cache_entry
  <2> QED BY <1>0, <1>3, <2>1
<1>4. CASE e.state = "REACHABLE"
  <2>1. f = [e EXCEPT !.q = FALSE, !.state = IF e.cnt <= 1 THEN "STALE" ELSE @, !.cnt = @ - 1]
    BY <1>4 DEF TmrNeighbor
  <2>2. CASE e.cnt <= 1
    <3>1. f = Sent(e, "STALE", e.cnt - 1)
      BY <2>1, <2>2 DEF Sent
    <3>2. f \in Nbr /\ f.addr = e.addr /\ f.router = e.router /\ f.state = "STALE" /\ ~f.q
      <4>1. PICK c \in Int : c = e.cnt - 1
        BY <1>1, SMTT(30)
      <4>2. PICK st \in NbrStates : st = "STALE"
        BY <1>1, <1>a
      <4>3. f = Sent(e, st, c)
        BY <3>1, <4>1, <4>2
      <4> QED BY <4>2, <4>3, EntryFields, SMTT(30)
    <3> QED BY <1>4, <3>2
  <2>3. CASE ~(e.cnt <= 1)
    <3>1. f = Sent(e, e.state, e.cnt - 1)
      BY <2>1, <2>3 DEF Sent
    <3>2. f \in Nbr /\ f.addr = e.addr /\ f.router = e.router /\ f.state = e.state /\ ~f.q
      <4>1. PICK c \in Int : c = e.cnt - 1
        BY <1>1, SMTT(30)
      <4>2. PICK st \in NbrStates : st = e.state
        BY <1>1, <1>a
      <4>3. f = Sent(e, st, c)
        BY <3>1, <4>1, <4>2
      <4> QED BY <4>2, <4>3, EntryFields, SMTT(30)
    <3> QED BY <1>4, <3>2
  <2> QED BY <2>2, <2>3
<1>5. CASE e.state = "DELAY" /\ e.cnt <= 1
  <2>1. f = [e EXCEPT !.state = "PROBE", !.cnt = 0]
    BY <1>5 DEF TmrNeighbor
  <2>2. f \in Nbr /\ f.addr = e.addr /\ f.router = e.router /\ f.state = "PROBE"
    <3>1. f = Updated(e, "PROBE", 0)
      BY <2>1 DEF Nbr, Updated
    <3> QED BY <1>1, <1>a, <3>1, EntryFields, SMTT(30) DEF Nbr
  <2> QED BY <1>5, <2>2
<1>6. CASE e.state = "DELAY" /\ ~(e.cnt <= 1)
  <2>1. f = [e EXCEPT !.cnt = @ - 1]
    BY <1>6 DEF TmrNeighbor
  <2> QED BY <1>1, <1>6, <2>1, SMTT(30) DEF Nbr
<1>7. CASE e.state \in {"NO_ENTRY", "STALE"}
  <2>1. f = e
    BY <1>7 DEF TmrNeighbor
  <2> QED BY <1>7, <2>1
<1> QED
  BY <1>1, <1>2, <1>3, <1>4, <1>5, <1>6, <1>7 DEF NbrStates

\* The tables after the neighbours and the destinations have aged.
LEMMA AgeTables ==
  ASSUME NEW nbr \in NbrTab, NEW rtr \in RtrTab, NEW dst \in DstTab, TablesSound(nbr, rtr, dst),
         NEW m \in NbrTab, NEW e \in DstTab,
         \A i \in NdNeighbors :
            \/ m[i] = NoNeighbor /\ ~nbr[i].router
            \/ /\ m[i].addr = nbr[i].addr /\ m[i].router = nbr[i].router
               /\ m[i].state = "NO_ENTRY" <=> nbr[i].state = "NO_ENTRY"
               /\ m[i].state \in {"NO_ENTRY", "STALE"} => ~m[i].q,
         \A j \in NdDestinations :
            e[j].dst = dst[j].dst /\ e[j].hop = dst[j].hop /\ e[j].how = dst[j].how
  PROVE  TablesSound(m, rtr, e)
<1>0. /\ NoNeighbor.addr = Any6 /\ NoNeighbor.state = "NO_ENTRY"
      /\ ~NoNeighbor.router /\ ~NoNeighbor.q
  BY DEF NoNeighbor
<1>1. \A k \in NdRouters : rtr[k].n # 0 =>
        LET i == rtr[k].n IN
        /\ i \in NdNeighbors /\ m[i].addr = nbr[i].addr /\ m[i].router /\ m[i].state # "NO_ENTRY"
  <2> SUFFICES ASSUME NEW k \in NdRouters, rtr[k].n # 0
               PROVE  LET i == rtr[k].n IN
                      /\ i \in NdNeighbors /\ m[i].addr = nbr[i].addr
                      /\ m[i].router /\ m[i].state # "NO_ENTRY"
    OBVIOUS
  <2>1. rtr[k].n \in NdNeighbors
    BY DEF RtrTab, Rtr
  <2>2. nbr[rtr[k].n].router /\ nbr[rtr[k].n].state # "NO_ENTRY"
    BY DEF TablesSound, Pinned
  <2> QED BY <2>1, <2>2
<1>2. NbrSound(m)
  <2>1. \A i \in NdNeighbors : m[i].addr = Any6 \/ m[i].addr = nbr[i].addr
    BY <1>0
  <2>2. \A i, j \in NdNeighbors : m[i].addr = m[j].addr /\ i # j => m[i].addr = Any6
    BY <2>1, SMTT(30) DEF TablesSound, NbrSound
  <2>3. \A i \in NdNeighbors : m[i].state = "NO_ENTRY" <=> m[i].addr = Any6
    BY <1>0 DEF TablesSound, NbrSound
  <2>4. \A i \in NdNeighbors : m[i].state \in {"NO_ENTRY", "STALE"} => ~m[i].q
    BY <1>0
  <2> QED BY <2>2, <2>3, <2>4 DEF NbrSound
<1>3. Pinned(m, rtr)
  <2>1. \A i \in NdNeighbors : m[i].router => nbr[i].router
    BY <1>0
  <2> QED BY <1>1, <2>1 DEF TablesSound, Pinned
<1>4. DstSound(e)
  BY SMTT(30) DEF TablesSound, DstSound
<1>5. Routed(m, rtr, e)
  BY <1>1, SMTT(30) DEF TablesSound, Routed
<1> QED
  BY <1>2, <1>3, <1>4, <1>5 DEF TablesSound

\* A destination that ages stays the same destination.
LEMMA OlderFacts ==
  ASSUME NEW e \in Dst
  PROVE  Older(e) \in Dst /\ Older(e).dst = e.dst /\ Older(e).hop = e.hop /\ Older(e).how = e.how
<1>1. e.age \in Int /\ NdMaxAge \in Int
  BY NdAssumption, SMTT(30) DEF Dst
<1> DEFINE a == Min({e.age + 1, NdMaxAge})
<1>2. a \in {e.age + 1, NdMaxAge}
  <2>1. \E x \in {e.age + 1, NdMaxAge} : \A y \in {e.age + 1, NdMaxAge} : x <= y
    <3>1. CASE e.age + 1 <= NdMaxAge
      BY <1>1, <3>1, SMTT(30)
    <3>2. CASE ~(e.age + 1 <= NdMaxAge)
      BY <1>1, <3>2, SMTT(30)
    <3> QED BY <3>1, <3>2
  <2> QED BY <2>1 DEF Min
<1>3. a \in Int
  BY <1>1, <1>2, SMTT(30)
<1> HIDE DEF a
<1>4. Older(e) = IF e.dst = Any6 THEN e ELSE [e EXCEPT !.age = a]
  BY DEF Older, a
<1> QED
  BY <1>3, <1>4 DEF Dst

\* The routers whose time is over, and the tables without them.
Over(s) == {k \in NdRouters : s.rtr[k].n # 0 /\ s.rtr[k].life <= 1}
Unmarked(e, keep) == [e EXCEPT !.router = @ /\ keep]
Aged(r) == [r EXCEPT !.life = IF @ > 0 THEN @ - 1 ELSE 0]

\* Taking the mark away leaves the rest of the entry alone.
LEMMA UnmarkedFields ==
  ASSUME NEW e \in Nbr, NEW keep \in BOOLEAN
  PROVE  /\ Unmarked(e, keep) \in Nbr /\ Unmarked(e, keep).addr = e.addr
         /\ Unmarked(e, keep).state = e.state /\ Unmarked(e, keep).q = e.q
         /\ Unmarked(e, keep).router <=> (e.router /\ keep)
<1>1. e.router \in BOOLEAN
  BY DEF Nbr
<1>2. PICK b \in BOOLEAN : b = (e.router /\ keep)
  BY <1>1
<1>3. Unmarked(e, keep) = [e EXCEPT !.router = b]
  BY <1>2 DEF Unmarked
<1> QED
  BY <1>2, <1>3 DEF Nbr

\* An older router is still the same router.
LEMMA AgedFields ==
  ASSUME NEW r \in Rtr
  PROVE  Aged(r) \in Rtr /\ Aged(r).n = r.n
BY SMTT(30) DEF Aged, Rtr

\* TmrRouters.
LEMMA TmrRoutersKeeps ==
  ASSUME NEW s, Cached(s)
  PROVE  Cached(TmrRouters(s)) /\ SameRest(s, TmrRouters(s))
<1> DEFINE gone == {s.nbr[s.rtr[k].n].addr : k \in Over(s)}
           ended == {s.rtr[k].n : k \in Over(s)}
           m == [i \in NdNeighbors |-> Unmarked(s.nbr[i], i \notin ended)]
           e == [j \in NdDestinations |-> IF s.dst[j].hop \in gone THEN NoDestination ELSE s.dst[j]]
           r == [k \in NdRouters |-> IF k \in Over(s) THEN NoRouter ELSE Aged(s.rtr[k])]
           t == TmrRouters(s)
<1>1. /\ s \in NdState /\ s.nbr \in NbrTab /\ s.rtr \in RtrTab /\ s.dst \in DstTab
      /\ s.onlink \in Int /\ TablesSound(s.nbr, s.rtr, s.dst)
  BY DEF Cached, NdState
<1>2. /\ NoRouter \in Rtr /\ NoRouter.n = 0
      /\ NoDestination \in Dst /\ NoDestination.dst = Any6 /\ NoDestination.how = "none"
  BY SMTT(30) DEF NoRouter, NoDestination, Rtr, Dst, NdAddrs
<1>3. \A i \in NdNeighbors :
        /\ m[i] \in Nbr /\ m[i].addr = s.nbr[i].addr /\ m[i].state = s.nbr[i].state
        /\ m[i].q = s.nbr[i].q /\ (m[i].router <=> (s.nbr[i].router /\ i \notin ended))
  <2> SUFFICES ASSUME NEW i \in NdNeighbors
               PROVE  /\ m[i] \in Nbr /\ m[i].addr = s.nbr[i].addr /\ m[i].state = s.nbr[i].state
                      /\ m[i].q = s.nbr[i].q /\ (m[i].router <=> (s.nbr[i].router /\ i \notin ended))
    OBVIOUS
  <2>1. s.nbr[i] \in Nbr
    BY <1>1 DEF NbrTab
  <2>2. PICK keep \in BOOLEAN : keep = (i \notin ended)
    OBVIOUS
  <2>3. m[i] = Unmarked(s.nbr[i], keep)
    BY <2>2
  <2> QED BY <2>1, <2>2, <2>3, UnmarkedFields
<1>4. \A k \in NdRouters : /\ r[k] \in Rtr
                           /\ k \in Over(s) => r[k].n = 0
                           /\ k \notin Over(s) => r[k].n = s.rtr[k].n
  BY <1>1, <1>2, AgedFields DEF RtrTab
<1>5. \A j \in NdDestinations : \/ e[j] = NoDestination
                                \/ e[j] = s.dst[j] /\ s.dst[j].hop \notin gone
  OBVIOUS
<1>6. m \in NbrTab /\ r \in RtrTab /\ e \in DstTab
  <2>1. m \in NbrTab
    BY <1>3 DEF NbrTab
  <2>2. r \in RtrTab
    BY <1>4 DEF RtrTab
  <2>3. e \in DstTab
    BY <1>1, <1>2 DEF DstTab
  <2> QED BY <2>1, <2>2, <2>3
<1>7. t = WithAll(s, m, r, e, s.onlink)
  BY <1>1 DEF TmrRouters, WithAll, Unmarked, Aged, Over, NdState
<1>8. \A k \in Over(s) : s.rtr[k].n \in ended /\ s.nbr[s.rtr[k].n].addr \in gone
  OBVIOUS
<1>9. \A i \in ended : \E k \in Over(s) : s.rtr[k].n = i
  OBVIOUS
<1> HIDE DEF m, e, r, t, gone, ended
<1>10. NbrSound(m)
  BY <1>1, <1>3, SMTT(30) DEF TablesSound, NbrSound
<1>11. Pinned(m, r)
  <2>1. ASSUME NEW k \in NdRouters, r[k].n # 0
        PROVE  /\ m[r[k].n].router /\ m[r[k].n].state # "NO_ENTRY"
               /\ \A l \in NdRouters : r[l].n = r[k].n => k = l
    <3>1. k \notin Over(s) /\ r[k].n = s.rtr[k].n
      BY <1>4, <2>1
    <3>2. s.rtr[k].n \in NdNeighbors
      BY <1>1, <2>1, <3>1 DEF RtrTab, Rtr
    <3>3. /\ s.nbr[s.rtr[k].n].router /\ s.nbr[s.rtr[k].n].state # "NO_ENTRY"
          /\ \A l \in NdRouters : s.rtr[l].n = s.rtr[k].n => k = l
      BY <1>1, <2>1, <3>1 DEF TablesSound, Pinned
    <3>4. s.rtr[k].n \notin ended
      BY <1>9, <3>1, <3>3 DEF Over
    <3>5. \A l \in NdRouters : r[l].n = r[k].n => r[l].n = s.rtr[l].n
      BY <1>4, <2>1
    <3> QED BY <1>3, <3>1, <3>2, <3>3, <3>4, <3>5
  <2>2. ASSUME NEW i \in NdNeighbors, m[i].router
        PROVE  \E k \in NdRouters : r[k].n = i
    <3>1. s.nbr[i].router /\ i \notin ended
      BY <1>3, <2>2
    <3>2. PICK k \in NdRouters : s.rtr[k].n = i
      BY <1>1, <3>1 DEF TablesSound, Pinned
    <3>3. k \notin Over(s)
      BY <1>8, <3>1, <3>2
    <3> QED BY <1>4, <3>2, <3>3
  <2> QED BY <2>1, <2>2 DEF Pinned
<1>12. DstSound(e)
  BY <1>1, <1>2, <1>5 DEF TablesSound, DstSound
<1>13. Routed(m, r, e)
  <2> SUFFICES ASSUME NEW j \in NdDestinations, e[j].how = "router"
               PROVE  \E k \in NdRouters : r[k].n # 0 /\ m[r[k].n].addr = e[j].hop
    BY DEF Routed
  <2>1. e[j] = s.dst[j] /\ s.dst[j].hop \notin gone
    BY <1>2, <1>5
  <2>2. PICK k \in NdRouters : s.rtr[k].n # 0 /\ s.nbr[s.rtr[k].n].addr = s.dst[j].hop
    BY <1>1, <2>1 DEF TablesSound, Routed
  <2>3. k \notin Over(s) /\ s.rtr[k].n \in NdNeighbors
    BY <1>1, <1>8, <2>1, <2>2 DEF RtrTab, Rtr
  <2> QED BY <1>3, <1>4, <2>1, <2>2, <2>3, ZenonT(120)
<1>14. t \in NdState /\ t.nbr = m /\ t.rtr = r /\ t.dst = e /\ SameRest(s, t)
  BY <1>1, <1>6, <1>7, WithAllKeeps, SMTT(30)
<1> QED
  BY <1>10, <1>11, <1>12, <1>13, <1>14 DEF Cached, TablesSound, t

\* The caches in nd6_tmr.
LEMMA TmrCachesKeeps ==
  ASSUME NEW s, Cached(s)
  PROVE  Cached(TmrCaches(s)) /\ SameRest(s, TmrCaches(s))
<1> DEFINE m == [i \in NdNeighbors |-> TmrNeighbor(s.nbr[i])]
           e == [j \in NdDestinations |-> Older(s.dst[j])]
           life == IF s.onlink > 0 THEN s.onlink - 1 ELSE 0
           t == WithAll(s, m, s.rtr, e, life)
<1>1. /\ s \in NdState /\ s.nbr \in NbrTab /\ s.rtr \in RtrTab /\ s.dst \in DstTab
      /\ s.onlink \in Int /\ TablesSound(s.nbr, s.rtr, s.dst)
  BY DEF Cached, NdState
<1>2. \A i \in NdNeighbors :
        /\ TmrNeighbor(s.nbr[i]) \in Nbr
        /\ \/ TmrNeighbor(s.nbr[i]) = NoNeighbor /\ ~s.nbr[i].router
           \/ /\ TmrNeighbor(s.nbr[i]).addr = s.nbr[i].addr
              /\ TmrNeighbor(s.nbr[i]).router = s.nbr[i].router
              /\ TmrNeighbor(s.nbr[i]).state = "NO_ENTRY" <=> s.nbr[i].state = "NO_ENTRY"
              /\ TmrNeighbor(s.nbr[i]).state \in {"NO_ENTRY", "STALE"} => ~TmrNeighbor(s.nbr[i]).q
  <2> SUFFICES ASSUME NEW i \in NdNeighbors
               PROVE  /\ TmrNeighbor(s.nbr[i]) \in Nbr
                      /\ \/ TmrNeighbor(s.nbr[i]) = NoNeighbor /\ ~s.nbr[i].router
                         \/ /\ TmrNeighbor(s.nbr[i]).addr = s.nbr[i].addr
                            /\ TmrNeighbor(s.nbr[i]).router = s.nbr[i].router
                            /\ TmrNeighbor(s.nbr[i]).state = "NO_ENTRY"
                                 <=> s.nbr[i].state = "NO_ENTRY"
                            /\ TmrNeighbor(s.nbr[i]).state \in {"NO_ENTRY", "STALE"}
                                 => ~TmrNeighbor(s.nbr[i]).q
    OBVIOUS
  <2>1. s.nbr[i] \in Nbr
    BY <1>1 DEF NbrTab
  <2>2. s.nbr[i].state \in {"NO_ENTRY", "STALE"} => ~s.nbr[i].q
    BY <1>1 DEF TablesSound, NbrSound
  <2> QED BY <2>1, <2>2, TmrNeighborFacts
<1>3. m \in NbrTab
  BY <1>2 DEF NbrTab
<1>4. \A j \in NdDestinations :
        /\ e[j] \in Dst
        /\ e[j].dst = s.dst[j].dst /\ e[j].hop = s.dst[j].hop /\ e[j].how = s.dst[j].how
  BY <1>1, OlderFacts DEF DstTab
<1>5. e \in DstTab
  BY <1>4 DEF DstTab
<1>6. \A i \in NdNeighbors : m[i] = TmrNeighbor(s.nbr[i])
  OBVIOUS
<1>7. life \in Int
  BY <1>1, SMTT(30)
<1>8. TmrCaches(s) = TmrRouters(t)
  BY <1>1 DEF TmrCaches, WithAll, NdState
<1> HIDE DEF m, e, life
<1>9. TablesSound(m, s.rtr, e)
  <2>1. \A i \in NdNeighbors :
          \/ m[i] = NoNeighbor /\ ~s.nbr[i].router
          \/ /\ m[i].addr = s.nbr[i].addr /\ m[i].router = s.nbr[i].router
             /\ m[i].state = "NO_ENTRY" <=> s.nbr[i].state = "NO_ENTRY"
             /\ m[i].state \in {"NO_ENTRY", "STALE"} => ~m[i].q
    BY <1>2, <1>6
  <2> QED BY <1>1, <1>3, <1>4, <1>5, <2>1, AgeTables, SMTT(30)
<1>10. t \in NdState /\ t.nbr = m /\ t.rtr = s.rtr /\ t.dst = e /\ SameRest(s, t)
  BY <1>1, <1>3, <1>5, <1>7, WithAllKeeps, SMTT(30)
<1> HIDE DEF t
<1>11. Cached(t)
  BY <1>9, <1>10 DEF Cached
<1> QED
  BY <1>8, <1>10, <1>11, TmrRoutersKeeps, SameRestTrans

-----------------------------------------------------------------------------
\* The addresses.  Held: the address is used, or will be once it is tested.
Held(a) == a.st \in {"TENTATIVE", "PREFERRED", "DEPRECATED"}
InOrder(a) == a.st # "INVALID" /\ a.valid # 0 => a.pref <= a.valid

\* The inductive invariant of the addresses.  The link-local address is never
\* renewed, the others have an advertised prefix, and a duplicate link-local
\* address leaves no derived one that could come into use: a tentative one would.
AdrSound(adr) ==
  /\ adr \in AdrTab /\ \A i \in Slots : InOrder(adr[i])
  /\ adr[1].valid = 0 /\ adr[1].net = "link"
  /\ \A i \in Slots \ {1} : adr[i].st # "INVALID" => adr[i].net \in {"p", "q"}
  /\ \A i, k \in Slots :
       (adr[i].st # "INVALID" /\ adr[i].valid # 0 /\ adr[k].st # "INVALID" /\ adr[k].net = adr[i].net)
         => i = k
  /\ adr[1].st = "DUPLICATED" => \A i \in Slots : Held(adr[i]) => adr[i].valid = 0

\* The inductive invariant of nd6.c.
NdInv == Cached(nd) /\ AdrSound(nd.adr)

\* s with other addresses.
WithAdr(s, b) == [s EXCEPT !.adr = b]

\* Other addresses leave the caches alone.
LEMMA WithAdrKeeps ==
  ASSUME NEW s, Cached(s), NEW b \in AdrTab
  PROVE  Cached(WithAdr(s, b)) /\ WithAdr(s, b).adr = b
<1>1. /\ WithAdr(s, b) \in NdState /\ WithAdr(s, b).nbr = s.nbr /\ WithAdr(s, b).rtr = s.rtr
      /\ WithAdr(s, b).dst = s.dst /\ WithAdr(s, b).adr = b
  BY DEF Cached, NdState, WithAdr
<1> QED
  BY <1>1 DEF Cached

\* One address changes.
LEMMA AdrUpdate ==
  ASSUME NEW adr, AdrSound(adr), NEW i \in Slots \ {1}, NEW a \in Adr,
         InOrder(a), a.net \in {"p", "q"},
         \A k \in Slots \ {i} : adr[k].st # "INVALID" => adr[k].net # a.net,
         adr[1].st = "DUPLICATED" => (Held(a) => a.valid = 0)
  PROVE  AdrSound([adr EXCEPT ![i] = a])
<1> DEFINE b == [adr EXCEPT ![i] = a]
<1>1. adr \in AdrTab /\ 1 \in Slots
  BY SMTT(30) DEF AdrSound, Slots
<1>2. b \in AdrTab /\ b[i] = a /\ \A k \in Slots : k # i => b[k] = adr[k]
  BY <1>1 DEF AdrTab
<1> HIDE DEF b
<1>3. b[1] = adr[1]
  BY <1>1, <1>2
<1>4. \A k \in Slots : InOrder(b[k])
  BY <1>2 DEF AdrSound
<1>5. \A k \in Slots \ {1} : b[k].st # "INVALID" => b[k].net \in {"p", "q"}
  BY <1>2 DEF AdrSound
<1>6. ASSUME NEW j \in Slots, NEW k \in Slots, b[j].st # "INVALID", b[j].valid # 0,
             b[k].st # "INVALID", b[k].net = b[j].net
      PROVE  j = k
  <2>1. CASE j = i
    BY <1>2, <1>6, <2>1
  <2>2. CASE k = i
    BY <1>2, <1>6, <2>2
  <2>3. CASE j # i /\ k # i
    BY <1>2, <1>6, <2>3, SMTT(30) DEF AdrSound
  <2> QED BY <2>1, <2>2, <2>3
<1>7. b[1].st = "DUPLICATED" => \A k \in Slots : Held(b[k]) => b[k].valid = 0
  BY <1>2, <1>3 DEF AdrSound
<1>8. b[1].valid = 0 /\ b[1].net = "link"
  BY <1>3 DEF AdrSound
<1> QED
  BY <1>2, <1>4, <1>5, <1>6, <1>7, <1>8 DEF AdrSound, b

\* Every address changes; none gets another prefix, comes to life or becomes one
\* that is not assigned by hand.
LEMMA AdrMap ==
  ASSUME NEW adr, AdrSound(adr), NEW b \in AdrTab, \A i \in Slots : InOrder(b[i]),
         \A i \in Slots : /\ b[i].net = adr[i].net
                          /\ b[i].st # "INVALID" => adr[i].st # "INVALID"
                          /\ b[i].st # "INVALID" /\ b[i].valid # 0 => adr[i].valid # 0,
         b[1].valid = 0,
         b[1].st = "DUPLICATED" => \A i \in Slots : Held(b[i]) => b[i].valid = 0
  PROVE  AdrSound(b)
<1>1. 1 \in Slots
  BY SMTT(30) DEF Slots
<1>2. b[1].net = "link" /\ \A i \in Slots \ {1} : b[i].st # "INVALID" => b[i].net \in {"p", "q"}
  BY <1>1 DEF AdrSound
<1>3. \A i, k \in Slots :
        (b[i].st # "INVALID" /\ b[i].valid # 0 /\ b[k].st # "INVALID" /\ b[k].net = b[i].net) => i = k
  BY SMTT(30) DEF AdrSound
<1> QED
  BY <1>2, <1>3 DEF AdrSound

\* The lowest of some of the slots after the first.
LEMMA FreeSlot ==
  ASSUME NEW S, S \subseteq Slots \ {1}, S # {}
  PROVE  Min(S) \in S
<1>1. S \subseteq Nat
  BY SMTT(30) DEF Slots
<1> QED
  BY <1>1, Least

\* The two-hour rule keeps the valid lifetime above the preferred one, and an
\* address that was not assigned by hand stays one.
LEMMA ValidLifeFacts ==
  ASSUME NEW old \in 1 .. NdInfinite, NEW valid \in 0 .. NdInfinite, NEW pref \in 0 .. valid
  PROVE  ValidLife(old, valid) \in 1 .. NdInfinite /\ pref <= ValidLife(old, valid)
BY NdAssumption, SMTT(30) DEF ValidLife

\* An address with other lifetimes.
Renewed(a, v, st, p) == [a EXCEPT !.valid = v, !.pref = p, !.st = st]

\* Other lifetimes leave the prefix alone.
LEMMA RenewedFields ==
  ASSUME NEW a \in Adr, NEW v \in AdrLives, NEW p \in AdrLives, NEW st \in AdrStates
  PROVE  /\ Renewed(a, v, st, p) \in Adr /\ Renewed(a, v, st, p).valid = v
         /\ Renewed(a, v, st, p).st = st /\ Renewed(a, v, st, p).pref = p
         /\ Renewed(a, v, st, p).net = a.net
BY DEF Adr, Renewed

\* nd6_process_autoconfig_prefix.
LEMMA PrefixKeeps ==
  ASSUME NEW s, Cached(s), AdrSound(s.adr), NEW net \in {"p", "q"},
         NEW valid \in AdrLives, NEW pref \in AdrLives
  PROVE  /\ Cached(nd6_process_autoconfig_prefix(s, net, valid, pref))
         /\ AdrSound(nd6_process_autoconfig_prefix(s, net, valid, pref).adr)
<1> DEFINE same == {i \in Slots \ {1} :
                      s.adr[i].st # "INVALID" /\ ~IsStatic(s.adr[i]) /\ s.adr[i].net = net}
           byHand == \E i \in Slots \ {1} : s.adr[i].st # "INVALID" /\ s.adr[i].net = net
           free == {i \in Slots \ {1} : s.adr[i].st = "INVALID"}
           t == nd6_process_autoconfig_prefix(s, net, valid, pref)
<1>1. s \in NdState /\ s.adr \in AdrTab
  BY DEF Cached, NdState
<1>2. CASE ~(pref > valid) /\ same # {}
  <2>1. PICK i \in Slots \ {1} : i = Min(same) /\ i \in same
    BY <1>2, FreeSlot
  <2>2. /\ s.adr[i] \in Adr /\ s.adr[i].valid \in 1 .. NdInfinite
        /\ s.adr[i].st # "INVALID" /\ s.adr[i].net = net
    <3>1. s.adr[i] \in Adr /\ s.adr[i].valid \in AdrLives
      BY <1>1 DEF AdrTab, Adr
    <3>2. s.adr[i].valid # 0 /\ s.adr[i].st # "INVALID" /\ s.adr[i].net = net
      BY <2>1 DEF IsStatic
    <3> QED BY <3>1, <3>2, NdAssumption, SMTT(30) DEF AdrLives
  <2>3. PICK v \in 1 .. NdInfinite : v = ValidLife(s.adr[i].valid, valid) /\ pref <= v
    BY <1>2, <2>2, ValidLifeFacts, SMTT(30) DEF AdrLives
  <2>4. PICK st \in {"TENTATIVE", "PREFERRED", "DEPRECATED", "DUPLICATED"} :
          /\ st = (IF pref > 0 /\ s.adr[i].st = "DEPRECATED" THEN "PREFERRED" ELSE s.adr[i].st)
          /\ st # s.adr[i].st => s.adr[i].st = "DEPRECATED"
    BY <2>2 DEF Adr, AdrStates
  <2> DEFINE a == Renewed(s.adr[i], v, st, pref)
             b == [s.adr EXCEPT ![i] = a]
  <2>5. t = WithAdr(s, b)
    <3>1. t = [s EXCEPT !.adr[i] = Renew(s.adr[i], valid, pref)]
      BY <1>2, <2>1 DEF nd6_process_autoconfig_prefix
    <3>2. a = Renew(s.adr[i], valid, pref)
      BY <2>3, <2>4 DEF Renewed, Renew
    <3>3. t = [s EXCEPT !.adr[i] = a]
      BY <3>1, <3>2
    <3> QED BY <3>3 DEF WithAdr
  <2>6. a \in Adr /\ a.valid = v /\ a.st = st /\ a.pref = pref /\ a.net = net
    <3>1. v \in AdrLives /\ st \in AdrStates
      BY SMTT(30) DEF AdrLives, AdrStates
    <3> QED BY <2>2, <3>1, RenewedFields, SMTT(30)
  <2> HIDE DEF a
  <2>7. InOrder(a)
    BY <2>3, <2>6 DEF InOrder, AdrLives
  <2>8. \A k \in Slots \ {i} : s.adr[k].st # "INVALID" => s.adr[k].net # net
    BY <2>2, SMTT(30) DEF AdrSound
  <2>9. s.adr[1].st = "DUPLICATED" => ~Held(a)
    <3> SUFFICES ASSUME s.adr[1].st = "DUPLICATED" PROVE ~Held(a)
      OBVIOUS
    <3>1. ~Held(s.adr[i])
      BY <2>2, SMTT(30) DEF AdrSound
    <3> QED BY <2>4, <2>6, <3>1 DEF Held
  <2>10. AdrSound(b)
    BY <2>6, <2>7, <2>8, <2>9, AdrUpdate
  <2> HIDE DEF b
  <2>11. b \in AdrTab
    BY <2>10 DEF AdrSound
  <2> QED BY <2>5, <2>10, <2>11, WithAdrKeeps
<1>3. CASE /\ ~(pref > valid) /\ same = {} /\ s.autoconfig /\ valid # 0
           /\ s.adr[1].st \notin {"INVALID", "DUPLICATED"} /\ ~byHand /\ free # {}
  <2>1. PICK i \in Slots \ {1} : i = Min(free) /\ i \in free
    BY <1>3, FreeSlot
  <2> DEFINE a == [st |-> "TENTATIVE", n |-> 0, valid |-> valid, pref |-> pref, net |-> net]
             b == [s.adr EXCEPT ![i] = a]
  <2>2. t = WithAdr(s, b)
    BY <1>1, <1>3, <2>1 DEF nd6_process_autoconfig_prefix, WithAdr
  <2>3. a \in Adr /\ a.valid = valid /\ a.st = "TENTATIVE" /\ a.pref = pref /\ a.net = net
    BY SMTT(30) DEF Adr, AdrStates, AdrNets
  <2> HIDE DEF a
  <2>4. InOrder(a)
    BY <1>3, <2>3, SMTT(30) DEF InOrder, AdrLives
  <2>5. \A k \in Slots \ {i} : s.adr[k].st # "INVALID" => s.adr[k].net # net
    BY <1>3 DEF AdrSound
  <2>6. AdrSound(b)
    BY <1>3, <2>3, <2>4, <2>5, AdrUpdate
  <2> HIDE DEF b
  <2>7. b \in AdrTab
    BY <2>6 DEF AdrSound
  <2> QED BY <2>2, <2>6, <2>7, WithAdrKeeps
<1>4. CASE t = s
  BY <1>4
<1>5. ASSUME ~(/\ ~(pref > valid) /\ same = {} /\ s.autoconfig /\ valid # 0
               /\ s.adr[1].st \notin {"INVALID", "DUPLICATED"} /\ ~byHand /\ free # {}),
             ~(~(pref > valid) /\ same # {})
      PROVE  t = s
  BY <1>5 DEF nd6_process_autoconfig_prefix
<1> QED
  BY <1>2, <1>3, <1>4, <1>5

\* netif_add_ip6_address.
LEMMA AddKeeps ==
  ASSUME NEW s, Cached(s), AdrSound(s.adr), NEW net \in {"p", "q"}
  PROVE  Cached(netif_add_ip6_address(s, net)) /\ AdrSound(netif_add_ip6_address(s, net).adr)
<1> DEFINE free == {i \in Slots \ {1} : s.adr[i].st = "INVALID"}
           taken == \E i \in Slots : s.adr[i].st # "INVALID" /\ s.adr[i].net = net
           t == netif_add_ip6_address(s, net)
<1>1. s \in NdState /\ s.adr \in AdrTab
  BY DEF Cached, NdState
<1>2. CASE free = {} \/ taken
  BY <1>2 DEF netif_add_ip6_address
<1>3. CASE free # {} /\ ~taken
  <2>1. PICK i \in Slots \ {1} : i = Min(free) /\ i \in free
    BY <1>3, FreeSlot
  <2> DEFINE a == [NoAddress EXCEPT !.st = "TENTATIVE", !.net = net]
             b == [s.adr EXCEPT ![i] = a]
  <2>2. t = WithAdr(s, b)
    BY <1>1, <1>3, <2>1 DEF netif_add_ip6_address, WithAdr
  <2>3. a \in Adr /\ a.valid = 0 /\ a.st = "TENTATIVE" /\ a.net = net
    <3>1. 0 \in AdrLives /\ "TENTATIVE" \in AdrStates /\ net \in AdrNets
      BY NdAssumption, SMTT(30) DEF AdrLives, AdrStates, AdrNets
    <3>2. NoAddress \in Adr /\ NoAddress.valid = 0
      BY <3>1, SMTT(30) DEF Adr, NoAddress, AdrStates, AdrNets
    <3> QED BY <3>1, <3>2 DEF Adr
  <2> HIDE DEF a
  <2>4. InOrder(a)
    BY <2>3 DEF InOrder
  <2>5. \A k \in Slots \ {i} : s.adr[k].st # "INVALID" => s.adr[k].net # net
    BY <1>3
  <2>6. AdrSound(b)
    BY <2>3, <2>4, <2>5, AdrUpdate
  <2> HIDE DEF b
  <2>7. b \in AdrTab
    BY <2>6 DEF AdrSound
  <2> QED BY <2>2, <2>6, <2>7, WithAdrKeeps
<1> QED
  BY <1>2, <1>3

\* An address that is a duplicate.
Duplicate(a) == [a EXCEPT !.st = "DUPLICATED"]

\* Only the state of a duplicate changes.
LEMMA DuplicateFields ==
  ASSUME NEW a \in Adr
  PROVE  /\ Duplicate(a) \in Adr /\ Duplicate(a).st = "DUPLICATED" /\ Duplicate(a).net = a.net
         /\ Duplicate(a).valid = a.valid /\ Duplicate(a).pref = a.pref
<1>1. "DUPLICATED" \in AdrStates
  BY DEF AdrStates
<1> QED
  BY <1>1 DEF Adr, Duplicate

\* A conflict about address i.
LEMMA ConflictKeeps ==
  ASSUME NEW s, Cached(s), AdrSound(s.adr), NEW i \in Slots, NEW solicited \in BOOLEAN
  PROVE  Cached(InputConflict(s, i, solicited)) /\ AdrSound(InputConflict(s, i, solicited).adr)
<1> DEFINE adr == s.adr
           hit(k) == k = i \/ (i = 1 /\ adr[k].st # "INVALID" /\ ~IsStatic(adr[k]))
           b == [k \in Slots |-> IF hit(k) THEN Duplicate(adr[k]) ELSE adr[k]]
<1>1. CASE InputConflict(s, i, solicited) = s
  BY <1>1
<1>2. CASE adr[i].st # "INVALID" /\ InputConflict(s, i, solicited) = nd6_duplicate_addr_detected(s, i)
  <2>1. nd6_duplicate_addr_detected(s, i) = WithAdr(s, b)
    BY DEF nd6_duplicate_addr_detected, WithAdr, Duplicate
  <2>2. adr \in AdrTab /\ 1 \in Slots /\ \A k \in Slots : adr[k] \in Adr
    BY SMTT(30) DEF AdrSound, AdrTab, Slots
  <2>3. \A k \in Slots : (hit(k) /\ b[k] = Duplicate(adr[k])) \/ (~hit(k) /\ b[k] = adr[k])
    OBVIOUS
  <2>4. b \in AdrTab
    BY <2>2, DuplicateFields DEF AdrTab
  <2>5. \A k \in Slots : hit(k) => adr[k].st # "INVALID"
    BY <1>2
  <2>6. i = 1 => \A k \in Slots : ~hit(k) => (adr[k].st = "INVALID" \/ adr[k].valid = 0)
    BY DEF IsStatic
  <2>7. i # 1 => ~hit(1)
    OBVIOUS
  <2> HIDE DEF hit, b, adr
  <2>8. \A k \in Slots : /\ b[k].net = adr[k].net /\ b[k].valid = adr[k].valid
                         /\ b[k].pref = adr[k].pref
                         /\ b[k].st = adr[k].st \/ (b[k].st = "DUPLICATED" /\ adr[k].st # "INVALID")
    BY <2>2, <2>3, <2>5, DuplicateFields, SMTT(30)
  <2>9. \A k \in Slots : InOrder(b[k])
    BY <2>8 DEF AdrSound, InOrder, adr
  <2>10. b[1].st = "DUPLICATED" => \A k \in Slots : Held(b[k]) => b[k].valid = 0
    <3>1. CASE i = 1
      <4> SUFFICES ASSUME NEW k \in Slots, Held(b[k]) PROVE b[k].valid = 0
        OBVIOUS
      <4>1. ~hit(k) /\ b[k] = adr[k]
        BY <2>2, <2>3, DuplicateFields DEF Held
      <4> QED BY <2>6, <3>1, <4>1 DEF Held
    <3>2. CASE i # 1
      <4> SUFFICES ASSUME b[1].st = "DUPLICATED", NEW k \in Slots, Held(b[k])
                   PROVE  b[k].valid = 0
        OBVIOUS
      <4>1. adr[1].st = "DUPLICATED"
        BY <2>2, <2>3, <2>7, <3>2
      <4>2. b[k] = adr[k]
        BY <2>2, <2>3, DuplicateFields DEF Held
      <4> QED BY <4>1, <4>2 DEF AdrSound, adr
    <3> QED BY <3>1, <3>2
  <2>11. AdrSound(adr) /\ adr[1].valid = 0
    BY DEF adr, AdrSound
  <2>12. AdrSound(b)
    BY <2>2, <2>4, <2>8, <2>9, <2>10, <2>11, AdrMap, SMTT(30)
  <2> QED BY <1>2, <2>1, <2>4, <2>12, WithAdrKeeps, SMTT(30)
<1> QED
  BY <1>1, <1>2 DEF InputConflict

\* One tick of the lifetimes.
LEMMA TickFacts ==
  ASSUME NEW v \in AdrLives, NEW p \in AdrLives, p <= v, v > 1, p > 1
  PROVE  /\ Tick(v) \in AdrLives /\ Tick(p) \in AdrLives /\ Tick(p) <= Tick(v) /\ Tick(v) # 0
BY NdAssumption, SMTT(30) DEF AdrLives, Tick

\* One tick of an address: its lifetimes stay in order, and it is not revived.
LEMMA TmrLifeFacts ==
  ASSUME NEW a \in Adr, InOrder(a)
  PROVE  /\ TmrLife(a) \in Adr /\ InOrder(TmrLife(a)) /\ TmrLife(a).net = a.net
         /\ TmrLife(a).st # "INVALID" => a.st # "INVALID"
         /\ TmrLife(a).st # "INVALID" /\ TmrLife(a).valid # 0 => a.valid # 0
         /\ a.valid = 0 => TmrLife(a) = a
         /\ Held(TmrLife(a)) => Held(a)
<1>1. a.valid \in AdrLives /\ a.pref \in AdrLives /\ a.st \in AdrStates
  BY DEF Adr
<1>2. CASE a.st = "INVALID" \/ a.valid = 0
  <2>1. TmrLife(a) = a
    BY <1>2 DEF TmrLife, IsStatic
  <2> QED BY <2>1
<1>3. CASE a.st # "INVALID" /\ a.valid # 0 /\ a.valid <= 1
  <2>1. TmrLife(a) = [a EXCEPT !.valid = 0, !.pref = 0, !.st = "INVALID"]
    BY <1>3 DEF TmrLife, IsStatic
  <2>2. 0 \in AdrLives /\ "INVALID" \in AdrStates
    BY NdAssumption, SMTT(30) DEF AdrLives, AdrStates
  <2>3. /\ TmrLife(a) \in Adr /\ TmrLife(a).st = "INVALID" /\ TmrLife(a).net = a.net
    BY <2>1, <2>2 DEF Adr
  <2> QED BY <1>3, <2>3 DEF InOrder, Held
<1>4. CASE a.st # "INVALID" /\ a.valid # 0 /\ ~(a.valid <= 1) /\ a.pref <= 1
  <2>1. PICK v \in AdrLives : v = Tick(a.valid) /\ v # 0 /\ 0 \in AdrLives
    BY <1>1, <1>4, NdAssumption, SMTT(30) DEF AdrLives, Tick
  <2>2. PICK st \in AdrStates : /\ st = (IF a.st = "PREFERRED" THEN "DEPRECATED" ELSE a.st)
                                /\ st = a.st \/ (a.st = "PREFERRED" /\ st = "DEPRECATED")
    BY <1>1 DEF AdrStates
  <2>3. TmrLife(a) = [a EXCEPT !.valid = v, !.pref = 0, !.st = st]
    BY <1>4, <2>1, <2>2 DEF TmrLife, IsStatic
  <2>4. TmrLife(a) = Renewed(a, v, st, 0)
    BY <2>3 DEF Renewed
  <2>5. /\ TmrLife(a) \in Adr /\ TmrLife(a).valid = v /\ TmrLife(a).st = st /\ TmrLife(a).pref = 0
        /\ TmrLife(a).net = a.net
    BY <2>1, <2>4, RenewedFields, SMTT(30)
  <2>6. 0 <= v
    BY SMTT(30) DEF AdrLives
  <2> QED BY <1>4, <2>2, <2>5, <2>6 DEF InOrder, Held
<1>5. CASE a.st # "INVALID" /\ a.valid # 0 /\ ~(a.valid <= 1) /\ ~(a.pref <= 1)
  <2>1. a.pref <= a.valid
    BY <1>5 DEF InOrder
  <2>2. PICK v \in AdrLives, p \in AdrLives : v = Tick(a.valid) /\ p = Tick(a.pref) /\ p <= v
    BY <1>1, <1>5, <2>1, TickFacts, SMTT(30) DEF AdrLives
  <2>3. TmrLife(a) = [a EXCEPT !.valid = v, !.pref = p]
    BY <1>5, <2>2 DEF TmrLife, IsStatic
  <2> DEFINE st == a.st
  <2>4. TmrLife(a) = Renewed(a, v, st, p) /\ st \in AdrStates
    BY <1>1, <2>3 DEF Renewed, Adr
  <2> HIDE DEF st
  <2>5. /\ TmrLife(a) \in Adr /\ TmrLife(a).valid = v /\ TmrLife(a).st = st
        /\ TmrLife(a).pref = p /\ TmrLife(a).net = a.net
    BY <2>4, RenewedFields, SMTT(30)
  <2> QED BY <1>5, <2>2, <2>5 DEF InOrder, Held, st
<1> QED
  BY <1>2, <1>3, <1>4, <1>5

\* One tick of duplicate address detection.
LEMMA TmrDadFacts ==
  ASSUME NEW a \in Adr, InOrder(a), NEW up \in BOOLEAN
  PROVE  /\ TmrDad(a, up) \in Adr /\ InOrder(TmrDad(a, up)) /\ TmrDad(a, up).net = a.net
         /\ TmrDad(a, up).valid = a.valid
         /\ TmrDad(a, up).st # "INVALID" => a.st # "INVALID"
         /\ Held(TmrDad(a, up)) => Held(a)
         /\ TmrDad(a, up).st = "DUPLICATED" => a.st = "DUPLICATED"
<1>1. a.n \in Int /\ a.st \in AdrStates
  BY DEF Adr
<1>2. CASE a.st # "TENTATIVE" \/ (~(a.n >= 1) /\ ~up)
  <2>1. TmrDad(a, up) = a
    BY <1>2 DEF TmrDad
  <2> QED BY <2>1
<1>3. CASE a.st = "TENTATIVE" /\ a.n >= 1
  <2>1. PICK st \in AdrStates :
          /\ st = (IF ~IsStatic(a) /\ a.pref = 0 THEN "DEPRECATED" ELSE "PREFERRED")
          /\ st \in {"DEPRECATED", "PREFERRED"}
    BY DEF AdrStates
  <2>a. PICK n \in Int : n = 0
    BY SMTT(30)
  <2>2. TmrDad(a, up) = [a EXCEPT !.n = n, !.st = st]
    BY <1>3, <2>1, <2>a DEF TmrDad
  <2>3. /\ TmrDad(a, up) \in Adr /\ TmrDad(a, up).st = st /\ TmrDad(a, up).net = a.net
        /\ TmrDad(a, up).valid = a.valid /\ TmrDad(a, up).pref = a.pref
    BY <2>2 DEF Adr
  <2> QED BY <1>3, <2>1, <2>3 DEF InOrder, Held
<1>4. CASE a.st = "TENTATIVE" /\ ~(a.n >= 1) /\ up
  <2>1. PICK n \in Int : n = a.n + 1
    BY <1>1, SMTT(30)
  <2>2. TmrDad(a, up) = [a EXCEPT !.n = n]
    BY <1>4, <2>1 DEF TmrDad
  <2>3. /\ TmrDad(a, up) \in Adr /\ TmrDad(a, up).st = a.st /\ TmrDad(a, up).net = a.net
        /\ TmrDad(a, up).valid = a.valid /\ TmrDad(a, up).pref = a.pref
    BY <2>2 DEF Adr
  <2> QED BY <2>3 DEF InOrder, Held
<1> QED
  BY <1>2, <1>3, <1>4

\* s with other counters of the router solicitations.
Solicits(s, red, rs) == [s EXCEPT !.red = red, !.rs = rs]

\* The counters leave the caches and the addresses alone.
LEMMA SolicitsKeep ==
  ASSUME NEW s, Cached(s), NEW red \in Int, NEW rs \in Int
  PROVE  Cached(Solicits(s, red, rs)) /\ Solicits(s, red, rs).adr = s.adr
<1>1. /\ Solicits(s, red, rs) \in NdState /\ Solicits(s, red, rs).nbr = s.nbr
      /\ Solicits(s, red, rs).rtr = s.rtr /\ Solicits(s, red, rs).dst = s.dst
      /\ Solicits(s, red, rs).adr = s.adr
  BY DEF Cached, NdState, Solicits
<1> QED
  BY <1>1 DEF Cached

\* The addresses in nd6_tmr.
LEMMA TmrAddressesKeeps ==
  ASSUME NEW s, Cached(s), AdrSound(s.adr), NEW mem \in BOOLEAN
  PROVE  Cached(TmrAddresses(s, mem)) /\ AdrSound(TmrAddresses(s, mem).adr)
<1> DEFINE adr == s.adr
           b == [i \in Slots |-> TmrDad(TmrLife(s.adr[i]), s.up)]
           t == WithAdr(s, b)
           solicit == s.red = 0 /\ s.rs > 0 /\ s.up /\ t.adr[1].st \notin {"INVALID", "DUPLICATED"}
<1>1. s \in NdState /\ s.up \in BOOLEAN /\ s.red \in Int /\ s.rs \in Int
  BY DEF Cached, NdState
<1>2. 1 \in Slots /\ \A i \in Slots : adr[i] \in Adr /\ InOrder(adr[i])
  BY SMTT(30) DEF AdrSound, AdrTab, Slots
<1>3. adr[1].valid = 0 /\ (adr[1].st = "DUPLICATED" => \A i \in Slots : Held(adr[i]) => adr[i].valid = 0)
  BY DEF AdrSound
<1>4. \A i \in Slots : b[i] = TmrDad(TmrLife(adr[i]), s.up)
  OBVIOUS
<1> HIDE DEF adr
<1>5. \A i \in Slots :
        /\ b[i] \in Adr /\ InOrder(b[i]) /\ b[i].net = adr[i].net
        /\ b[i].st # "INVALID" => adr[i].st # "INVALID"
        /\ b[i].st # "INVALID" /\ b[i].valid # 0 => adr[i].valid # 0
        /\ Held(b[i]) => Held(adr[i])
        /\ adr[i].valid = 0 => b[i].valid = 0 /\ (b[i].st = "DUPLICATED" => adr[i].st = "DUPLICATED")
  <2> SUFFICES ASSUME NEW i \in Slots
               PROVE  /\ b[i] \in Adr /\ InOrder(b[i]) /\ b[i].net = adr[i].net
                      /\ b[i].st # "INVALID" => adr[i].st # "INVALID"
                      /\ b[i].st # "INVALID" /\ b[i].valid # 0 => adr[i].valid # 0
                      /\ Held(b[i]) => Held(adr[i])
                      /\ adr[i].valid = 0 =>
                           b[i].valid = 0 /\ (b[i].st = "DUPLICATED" => adr[i].st = "DUPLICATED")
    OBVIOUS
  <2> DEFINE c == TmrLife(adr[i])
  <2>1. /\ c \in Adr /\ InOrder(c) /\ c.net = adr[i].net
        /\ c.st # "INVALID" => adr[i].st # "INVALID"
        /\ c.st # "INVALID" /\ c.valid # 0 => adr[i].valid # 0
        /\ adr[i].valid = 0 => c = adr[i]
        /\ Held(c) => Held(adr[i])
    BY <1>2, TmrLifeFacts
  <2>2. b[i] = TmrDad(c, s.up)
    BY <1>4
  <2> HIDE DEF b, c
  <2>3. /\ b[i] \in Adr /\ InOrder(b[i]) /\ b[i].net = c.net /\ b[i].valid = c.valid
        /\ b[i].st # "INVALID" => c.st # "INVALID"
        /\ Held(b[i]) => Held(c)
        /\ b[i].st = "DUPLICATED" => c.st = "DUPLICATED"
    BY <1>1, <2>1, <2>2, TmrDadFacts, SMTT(30)
  <2> QED BY <2>1, <2>3
<1>6. b \in AdrTab
  BY <1>5 DEF AdrTab
<1> HIDE DEF b
<1>7. b[1].st = "DUPLICATED" => \A i \in Slots : Held(b[i]) => b[i].valid = 0
  BY <1>2, <1>3, <1>5
<1>8. AdrSound(b)
  <2>1. AdrSound(adr) /\ b[1].valid = 0
    BY <1>2, <1>3, <1>5 DEF adr
  <2> QED BY <1>5, <1>6, <1>7, <2>1, AdrMap
<1>9. Cached(t) /\ t.adr = b
  BY <1>6, WithAdrKeeps
<1>10. PICK red \in Int, rs \in Int : red = 1 - s.red /\ rs = (IF solicit /\ mem THEN s.rs - 1 ELSE s.rs)
  BY <1>1, SMTT(30)
<1>11. t.red = s.red /\ t.rs = s.rs
  BY <1>1 DEF WithAdr, NdState
<1>12. TmrAddresses(s, mem) = Solicits(t, red, rs)
  BY <1>10, <1>11 DEF TmrAddresses, Solicits, WithAdr, b
<1> QED
  BY <1>8, <1>9, <1>12, SolicitsKeep

-----------------------------------------------------------------------------
\* At the start the tables are empty and the link-local address is tested.
LEMMA NdInvInit ==
  NdInit => NdInv
<1> SUFFICES ASSUME NdInit PROVE NdInv
  OBVIOUS
<1> DEFINE m == [i \in NdNeighbors |-> NoNeighbor]
           r == [k \in NdRouters |-> NoRouter]
           e == [j \in NdDestinations |-> NoDestination]
           first == [NoAddress EXCEPT !.st = "TENTATIVE", !.net = "link"]
           b == [i \in Slots |-> IF i = 1 THEN first ELSE NoAddress]
<1>1. /\ NoNeighbor \in Nbr /\ NoNeighbor.addr = Any6 /\ NoNeighbor.state = "NO_ENTRY"
      /\ ~NoNeighbor.router /\ ~NoNeighbor.q
      /\ NoRouter \in Rtr /\ NoRouter.n = 0
      /\ NoDestination \in Dst /\ NoDestination.dst = Any6 /\ NoDestination.how = "none"
  BY SMTT(30) DEF NoNeighbor, NoRouter, NoDestination, Nbr, Rtr, Dst, NdAddrs, NbrStates
<1>2. m \in NbrTab /\ r \in RtrTab /\ e \in DstTab
  BY <1>1 DEF NbrTab, RtrTab, DstTab
<1>3. TablesSound(m, r, e)
  BY <1>1 DEF TablesSound, NbrSound, Pinned, DstSound, Routed
<1>4. 0 \in AdrLives /\ "TENTATIVE" \in AdrStates /\ "link" \in AdrNets
  BY NdAssumption, SMTT(30) DEF AdrLives, AdrStates, AdrNets
<1>5. NoAddress \in Adr /\ NoAddress.valid = 0 /\ NoAddress.st = "INVALID"
  BY <1>4, SMTT(30) DEF Adr, NoAddress, AdrStates, AdrNets
<1>6. /\ first \in Adr /\ first.valid = 0 /\ first.st = "TENTATIVE" /\ first.net = "link"
  BY <1>4, <1>5 DEF Adr
<1> HIDE DEF first
<1>7. b \in AdrTab /\ 1 \in Slots /\ b[1] = first /\ \A i \in Slots \ {1} : b[i] = NoAddress
  BY <1>5, <1>6, SMTT(30) DEF AdrTab, Slots
<1>8. /\ nd.plan \in Plans6 /\ nd.autoconfig \in BOOLEAN /\ nd.onlink = 0 /\ nd.last = 1
      /\ nd.nbr = m /\ nd.dst = e /\ nd.rtr = r /\ nd.up = TRUE /\ nd.rs = NdSolicits
      /\ nd.red = 0 /\ nd.adr = b
      /\ nd = [plan |-> nd.plan, autoconfig |-> nd.autoconfig, onlink |-> nd.onlink,
               last |-> nd.last, nbr |-> nd.nbr, dst |-> nd.dst, rtr |-> nd.rtr, up |-> nd.up,
               rs |-> nd.rs, red |-> nd.red, adr |-> nd.adr]
  BY DEF NdInit, Plans6, first
<1> HIDE DEF m, r, e, b
<1>9. nd \in NdState
  <2>1. /\ nd.plan \in Plans6 /\ nd.autoconfig \in BOOLEAN /\ nd.adr \in AdrTab
        /\ nd.nbr \in NbrTab /\ nd.dst \in DstTab /\ nd.rtr \in RtrTab /\ nd.up \in BOOLEAN
    BY <1>2, <1>7, <1>8
  <2>2. nd.onlink \in Int /\ nd.last \in Int /\ nd.rs \in Int /\ nd.red \in Int
    <3>1. 0 \in Int /\ 1 \in Int /\ NdSolicits \in Int
      BY NdAssumption, SMTT(30)
    <3> QED BY <1>8, <3>1
  <2> QED BY <1>8, <2>1, <2>2 DEF NdState
<1>10. Cached(nd)
  BY <1>3, <1>8, <1>9 DEF Cached
<1>11. AdrSound(b)
  <2>1. \A i \in Slots : b[i].valid = 0
    BY <1>5, <1>6, <1>7
  <2> QED BY <1>5, <1>6, <1>7, <2>1 DEF AdrSound, InOrder
<1> QED
  BY <1>8, <1>10, <1>11 DEF NdInv

\* A message, a tick or a call about the caches.
LEMMA CachesNext ==
  ASSUME NdInv, NEW t, Cached(t) /\ SameRest(nd, t), nd' = t
  PROVE  NdInv'
<1>1. t.adr = nd.adr
  BY DEF SameRest
<1>2. Cached(t) /\ AdrSound(t.adr)
  BY <1>1 DEF NdInv
<1> QED
  BY <1>2, Zenon DEF NdInv

\* Every step keeps the invariant.
LEMMA NdInvNext ==
  NdInv /\ [NdNext]_nd => NdInv'
<1> SUFFICES ASSUME NdInv, [NdNext]_nd PROVE NdInv'
  OBVIOUS
<1>0. Cached(nd) /\ AdrSound(nd.adr)
  BY DEF NdInv
<1>a. NdGateways \subseteq Neighbors
  BY DEF Neighbors
<1>b. NdLives \subseteq AdrLives /\ NdTicks \in Int /\ NdSolicits \in Int
  BY NdAssumption, SMTT(30) DEF AdrLives
<1>1. CASE NdAdvertised
  <2>1. PICK a \in Neighbors, toAll \in BOOLEAN, override \in BOOLEAN, option \in BOOLEAN :
          nd' = InputNA(nd, a, toAll, override, option)
    <3>1. PICK a \in Neighbors,
               form \in {<<TRUE, FALSE, FALSE>>} \cup ({FALSE} \X BOOLEAN \X BOOLEAN) :
            nd' = InputNA(nd, a, form[1], form[2], form[3])
      BY <1>1 DEF NdAdvertised
    <3>2. form[1] \in BOOLEAN /\ form[2] \in BOOLEAN /\ form[3] \in BOOLEAN
      <4>1. CASE form = <<TRUE, FALSE, FALSE>>
        BY <4>1
      <4>2. CASE form \in {FALSE} \X BOOLEAN \X BOOLEAN
        BY <4>2
      <4> QED BY <4>1, <4>2
    <3> QED BY <3>1, <3>2
  <2> QED BY <1>0, <2>1, InputNAKeeps, CachesNext
<1>2. CASE NdSolicited
  BY <1>0, <1>2, InputNSKeeps, CachesNext DEF NdSolicited
<1>3. CASE NdRouter
  <2>1. PICK a \in NdGateways, life \in {0, NdTicks + 1},
             form \in {<<FALSE, -1>>, <<FALSE, NdTicks>>, <<TRUE, -1>>, <<TRUE, 0>>} :
          nd' = InputRA(nd, a, life, form[1], form[2])
    BY <1>3 DEF NdRouter
  <2>2. PICK option \in BOOLEAN, onlink \in Int : option = form[1] /\ onlink = form[2]
    <3>0. -1 \in Int /\ 0 \in Int
      BY SMTT(30)
    <3>1. PICK on \in BOOLEAN, l \in Int : form = <<on, l>>
      BY <1>b, <3>0
    <3> QED BY <3>1
  <2>3. life \in Int /\ a \in Neighbors
    BY <1>a, <1>b, SMTT(30)
  <2> QED BY <1>0, <2>1, <2>2, <2>3, InputRAKeeps, CachesNext
<1>4. CASE NdRedirect
  BY <1>0, <1>4, InputRDKeeps, CachesNext DEF NdRedirect
<1>5. CASE NdNextHop
  BY <1>0, <1>5, NextHopKeeps, CachesNext DEF NdNextHop
<1>6. CASE NdHint
  BY <1>0, <1>6, HintKeeps, CachesNext DEF NdHint
<1>7. CASE NdRoute
  <2>1. Cached(nd6_select_router(nd, TRUE)[2]) /\ SameRest(nd, nd6_select_router(nd, TRUE)[2])
    BY <1>0, SelectRouter
  <2> QED BY <1>7, <2>1, CachesNext DEF NdRoute
<1>8. CASE NdDown
  BY <1>0, <1>8, CleanupKeeps, CachesNext DEF NdDown
<1>9. CASE NdTmrCaches
  BY <1>0, <1>9, TmrCachesKeeps, CachesNext DEF NdTmrCaches
<1>10. CASE NdPrefix
  <2>1. PICK net \in {"p", "q"}, mem \in BOOLEAN, valid \in AdrLives, pref \in AdrLives :
          nd' = nd6_process_autoconfig_prefix(Advertised(nd, mem), net, valid, pref)
    BY <1>b, <1>10 DEF NdPrefix
  <2> DEFINE s == Advertised(nd, mem)
  <2>2. nd \in NdState /\ nd.red \in Int /\ nd.rs \in Int
    BY <1>0 DEF Cached, NdState
  <2>3. PICK rs \in Int : rs = (IF nd.rs < NdSolicits \/ mem THEN 0 ELSE 1)
    BY SMTT(30)
  <2>4. s = Solicits(nd, nd.red, rs)
    BY <2>2, <2>3 DEF Advertised, Solicits, NdState
  <2>5. Cached(s) /\ s.adr = nd.adr
    BY <1>0, <2>2, <2>4, SolicitsKeep, SMTT(30)
  <2> HIDE DEF s
  <2>6. nd' = nd6_process_autoconfig_prefix(s, net, valid, pref)
    BY <2>1 DEF s
  <2>7. Cached(nd') /\ AdrSound(nd'.adr)
    BY <1>0, <2>5, <2>6, PrefixKeeps
  <2> QED BY <2>7 DEF NdInv, Cached, TablesSound, AdrSound
<1>11. CASE NdConflict
  <2>1. Cached(nd') /\ AdrSound(nd'.adr)
    BY <1>0, <1>11, ConflictKeeps DEF NdConflict
  <2> QED BY <2>1 DEF NdInv, Cached, TablesSound, AdrSound
<1>12. CASE NdAddAddress
  <2>1. Cached(nd') /\ AdrSound(nd'.adr)
    BY <1>0, <1>12, AddKeeps DEF NdAddAddress
  <2> QED BY <2>1 DEF NdInv, Cached, TablesSound, AdrSound
<1>13. CASE NdTmrAddresses
  <2>1. Cached(nd') /\ AdrSound(nd'.adr)
    BY <1>0, <1>13, TmrAddressesKeeps DEF NdTmrAddresses
  <2> QED BY <2>1 DEF NdInv, Cached, TablesSound, AdrSound
<1>14. CASE NdUpDown
  <2>1. nd \in NdState /\ nd.up \in BOOLEAN /\ nd.rs \in Int
    BY <1>0 DEF Cached, NdState
  <2>2. PICK up \in BOOLEAN, rs \in Int : nd' = [nd EXCEPT !.up = up, !.rs = rs]
    BY <1>b, <1>14, <2>1 DEF NdUpDown
  <2>3. nd' \in NdState /\ nd'.nbr = nd.nbr /\ nd'.rtr = nd.rtr /\ nd'.dst = nd.dst /\ nd'.adr = nd.adr
    BY <2>1, <2>2 DEF NdState
  <2>4. Cached(nd') /\ AdrSound(nd'.adr)
    BY <1>0, <2>3 DEF Cached
  <2> QED BY <2>4 DEF NdInv, Cached, TablesSound, AdrSound
<1>15. CASE nd' = nd
  BY <1>15 DEF NdInv, Cached, TablesSound, AdrSound
<1> QED
  BY <1>1, <1>2, <1>3, <1>4, <1>5, <1>6, <1>7, <1>8, <1>9, <1>10, <1>11, <1>12, <1>13, <1>14,
     <1>15 DEF NdNext

\* The tables and the addresses of nd6.c stay consistent, whatever their sizes
\* and whatever the neighbours and routers send.
THEOREM NdInvariant == NdSpec => []NdInv
BY NdInvInit, NdInvNext, PTL DEF NdSpec

\* The caches of nd6.c that point to each other by index agree: no default
\* router loses its neighbour entry, no address has two entries, no packet waits
\* in a stale entry, and no destination is sent through a router that is gone.
THEOREM NdCachesSoundTheorem == NdSpec => []NdCachesSound
<1>1. NdInv => NdCachesSound
  <2> SUFFICES ASSUME NdInv PROVE NdCachesSound
    OBVIOUS
  <2>1. NbrSound(nd.nbr) /\ Pinned(nd.nbr, nd.rtr) /\ DstSound(nd.dst) /\ Routed(nd.nbr, nd.rtr, nd.dst)
    BY DEF NdInv, Cached, TablesSound
  <2>2. RoutersPinned
    BY <2>1 DEF RoutersPinned, Pinned
  <2>3. CachesSound
    BY <2>1 DEF CachesSound, NbrSound, DstSound
  <2>4. NoStuckQueue
    BY <2>1 DEF NoStuckQueue, NbrSound
  <2>5. NoGoneRouter
    BY <2>1, GetRouter, SMTT(120) DEF NoGoneRouter, Routed
  <2> QED BY <2>2, <2>3, <2>4, <2>5 DEF NdCachesSound
<1> QED
  BY <1>1, NdInvariant, PTL

\* The lifetimes of the addresses of an interface stay in order, no prefix gives
\* it two, and a duplicate link-local address takes the derived ones with it.
THEOREM AddressesSoundTheorem == NdSpec => []AddressesSound
<1>1. NdInv => AddressesSound
  BY DEF NdInv, AdrSound, AddressesSound, LifetimesInOrder, DerivedFollow, IsStatic, IsUsable,
     InOrder, Held
<1> QED
  BY <1>1, NdInvariant, PTL
=============================================================================
