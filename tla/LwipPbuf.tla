------------------------------ MODULE LwipPbuf ------------------------------
(* Packet buffers (core/pbuf.c).                                             *)
(*                                                                           *)
(* A pbuf is [mem, off, len, tot, next, ref, type]: its memory, where its    *)
(* payload starts and how long it is, the length of the payload from here to *)
(* the end of the chain, the next pbuf or 0, the reference count (0: not     *)
(* allocated) and the kind of memory.  The users of the library keep the     *)
(* contract pbuf.c states: they work on pbufs they hold a reference to, and  *)
(* change lengths only where no other chain sees it.                         *)
EXTENDS Integers, Sequences, FiniteSets, SequencesExt

CONSTANTS PbufIds,             \* 1 .. n, what memp and the heap can give out
          PoolSize,            \* PBUF_POOL_BUFSIZE
          U16,                 \* 2^16
          PbufLens,            \* lengths asked for
          MaxRefs,             \* references a user takes to one pbuf
          PbufCalls            \* calls in a behaviour

VARIABLE pb                    \* [heap, held, calls, asSaid]

ASSUME PbufAssumption ==
  /\ PoolSize \in Nat \ {0} /\ U16 \in Nat /\ MaxRefs \in Nat /\ PbufCalls \in Nat
  /\ PbufIds = 1 .. Cardinality(PbufIds) /\ PbufLens \subseteq 0 .. U16 - 1

pbuf_layers == {0, 1}          \* room for headers; below PoolSize
NoPbuf == [mem |-> << >>, off |-> 0, len |-> 0, tot |-> 0, next |-> 0, ref |-> 0, type |-> "none"]
Allocated(heap) == {p \in PbufIds : heap[p].ref > 0}
Spare(heap) == PbufIds \ Allocated(heap)
Payload(heap, p) == SubSeq(heap[p].mem, heap[p].off + 1, heap[p].off + heap[p].len)

\* The pbufs of the chain that starts with p, and the bytes in them.
RECURSIVE ChainOf(_, _)
ChainOf(heap, p) == IF p = 0 THEN << >> ELSE <<p>> \o ChainOf(heap, heap[p].next)
Bytes(heap, p) == FoldLeft(LAMBDA s, q : s \o Payload(heap, q), << >>, ChainOf(heap, p))
pbuf_clen(heap, p) == Len(ChainOf(heap, p))
-----------------------------------------------------------------------------
pbuf_init_alloced_pbuf(heap, p, offset, tot, len, type) ==
  [heap EXCEPT ![p] = [mem |-> [i \in 1 .. offset + len |-> 0], off |-> offset, len |-> len,
                       tot |-> tot, next |-> 0, ref |-> 1, type |-> type]]

\* One pool buffer after the other, each linked to the one before.
RECURSIVE AllocPool(_, _, _, _)
AllocPool(heap, last, offset, rem) ==
  LET q == CHOOSE i \in Spare(heap) : \A j \in Spare(heap) : i <= j
      qlen == Min({rem, PoolSize - offset})
      a == pbuf_init_alloced_pbuf(heap, q, offset, rem, qlen, "pool")
      b == IF last = 0 THEN a ELSE [a EXCEPT ![last].next = q]
  IN IF rem - qlen = 0 THEN b ELSE AllocPool(b, q, 0, rem - qlen)

PoolBuffers(offset, length) ==
  IF length <= PoolSize - offset THEN 1
  ELSE 1 + (length - (PoolSize - offset) + PoolSize - 1) \div PoolSize

\* <<p, heap>>; p is 0 when there is no memory or the length overflows.  The
\* pbufs got before memory ran out are freed again.
pbuf_alloc(heap, layer, length, type) ==
  LET n == Cardinality(Spare(heap))
      p == CHOOSE i \in Spare(heap) : \A j \in Spare(heap) : i <= j
  IN CASE type = "pool" ->
            IF n < PoolBuffers(layer, length) THEN <<0, heap>>
            ELSE <<p, AllocPool(heap, 0, layer, length)>>
       [] type = "ram" ->
            IF n = 0 \/ (layer + length) % U16 < length THEN <<0, heap>>
            ELSE <<p, pbuf_init_alloced_pbuf(heap, p, layer, length, length, "ram")>>
       [] type = "ref" ->
            IF n = 0 THEN <<0, heap>>
            ELSE <<p, pbuf_init_alloced_pbuf(heap, p, 0, length, length, "ref")>>

\* <<count, heap>>: references are given back along the chain up to the first
\* pbuf somebody else holds too; count is the number of pbufs freed.
RECURSIVE FreeFrom(_, _, _)
FreeFrom(heap, p, count) ==
  IF p = 0 THEN <<count, heap>>
  ELSE IF heap[p].ref > 1 THEN <<count, [heap EXCEPT ![p].ref = @ - 1]>>
  ELSE FreeFrom([heap EXCEPT ![p] = NoPbuf], heap[p].next, count + 1)
pbuf_free(heap, p) == FreeFrom(heap, p, 0)

pbuf_ref(heap, p) == [heap EXCEPT ![p].ref = @ + 1]

\* The chain is cut in the pbuf where the new length ends.
RECURSIVE ShrinkTo(_, _, _, _)
ShrinkTo(heap, q, rem, shrink) ==
  IF rem > heap[q].len
  THEN ShrinkTo([heap EXCEPT ![q].tot = @ - shrink], heap[q].next, rem - heap[q].len, shrink)
  ELSE LET cut == [heap EXCEPT ![q].len = rem, ![q].tot = rem, ![q].next = 0]
       IN IF heap[q].next = 0 THEN cut ELSE pbuf_free(cut, heap[q].next)[2]
pbuf_realloc(heap, p, new_len) ==
  IF new_len >= heap[p].tot THEN heap ELSE ShrinkTo(heap, p, new_len, heap[p].tot - new_len)

\* <<failed, heap>>.  Memory that is not behind the pbuf struct is only given
\* back by force: the caller knows that the header is there.
pbuf_add_header_impl(heap, p, n, force) ==
  IF n = 0 THEN <<0, heap>>
  ELSE IF (n + heap[p].tot) % U16 < n \/ n > heap[p].off \/ (heap[p].type = "ref" /\ ~force)
  THEN <<1, heap>>
  ELSE <<0, [heap EXCEPT ![p].off = @ - n, ![p].len = @ + n, ![p].tot = @ + n]>>

pbuf_remove_header(heap, p, n) ==
  IF n > heap[p].len THEN <<1, heap>>
  ELSE <<0, [heap EXCEPT ![p].off = @ + n, ![p].len = @ - n, ![p].tot = @ - n]>>

\* <<p, heap>>: whole pbufs are freed from the front, the next one shortened.
RECURSIVE pbuf_free_header(_, _, _)
pbuf_free_header(heap, p, n) ==
  IF n = 0 \/ p = 0 THEN <<p, heap>>
  ELSE IF n < heap[p].len THEN <<p, pbuf_remove_header(heap, p, n)[2]>>
  ELSE pbuf_free_header(pbuf_free([heap EXCEPT ![p].next = 0], p)[2], heap[p].next, n - heap[p].len)

\* t's reference goes over to the chain.
pbuf_cat_LastOnly(heap, h, t) ==
  LET l == Last(ChainOf(heap, h)) IN [heap EXCEPT ![l].tot = @ + heap[t].tot, ![l].next = t]
pbuf_cat(heap, h, t) ==
  [q \in PbufIds |->
     IF q \notin Range(ChainOf(heap, h)) THEN heap[q]
     ELSE [heap[q] EXCEPT !.tot = @ + heap[t].tot, !.next = IF @ = 0 THEN t ELSE @]]

pbuf_chain(heap, h, t) == pbuf_ref(pbuf_cat(heap, h, t), t)

\* <<q, heap>>: the rest of the chain, when somebody else holds it.
pbuf_dechain(heap, p) ==
  LET q == heap[p].next
      a == [heap EXCEPT ![p].next = 0, ![p].tot = heap[p].len, ![q].tot = heap[p].tot - heap[p].len]
      freed == pbuf_free(a, q)
  IN IF q = 0 THEN <<0, heap>> ELSE <<IF freed[1] > 0 THEN 0 ELSE q, freed[2]>>
-----------------------------------------------------------------------------
\* len bytes of data to p's payload from offset at on.
Store(heap, p, at, data) ==
  [heap EXCEPT ![p].mem = [i \in DOMAIN @ |->
     LET k == i - heap[p].off - at IN IF k \in DOMAIN data THEN data[k] ELSE @[i]]]

\* <<q, offset>>: the pbuf in which byte offset is, and where; 0 past the end.
RECURSIVE pbuf_skip(_, _, _)
pbuf_skip(heap, p, offset) ==
  IF p # 0 /\ heap[p].len <= offset THEN pbuf_skip(heap, heap[p].next, offset - heap[p].len)
  ELSE <<p, offset>>

\* The copying loop of pbuf_take.
RECURSIVE TakeFrom(_, _, _)
TakeFrom(heap, p, data) ==
  IF data = << >> THEN heap
  ELSE LET n == Min({Len(data), heap[p].len})
       IN TakeFrom(Store(heap, p, 0, SubSeq(data, 1, n)), heap[p].next,
                   SubSeq(data, n + 1, Len(data)))
\* <<ok, heap>>
pbuf_take(heap, p, data) ==
  IF heap[p].tot < Len(data) THEN <<FALSE, heap>> ELSE <<TRUE, TakeFrom(heap, p, data)>>

pbuf_take_at(heap, p, data, offset) ==
  LET s == pbuf_skip(heap, p, offset)
      q == s[1]
      first == Min({heap[q].len - s[2], Len(data)})
      a == Store(heap, q, s[2], SubSeq(data, 1, first))
  IN IF q = 0 THEN <<FALSE, heap>>
     ELSE IF heap[q].tot < s[2] + Len(data) THEN <<FALSE, heap>>
     ELSE IF Len(data) > first THEN pbuf_take(a, a[q].next, SubSeq(data, first + 1, Len(data)))
     ELSE <<TRUE, a>>

\* A chain with a pbuf whose len is tot_len and which has a successor is taken
\* for a packet queue, which cannot be copied.
Queue(heap, p) == p # 0 /\ heap[p].len = heap[p].tot /\ heap[p].next # 0

\* The copying loop of pbuf_copy: to and from with the offsets in them.
RECURSIVE CopyFrom(_, _, _, _, _)
CopyFrom(heap, to, ot, from, of) ==
  LET n == Min({heap[to].len - ot, heap[from].len - of})
      a == Store(heap, to, ot, SubSeq(Payload(heap, from), of + 1, of + n))
      fromDone == of + n >= heap[from].len
      toDone == ot + n = heap[to].len
      f == IF fromDone THEN heap[from].next ELSE from
      t == IF toDone THEN heap[to].next ELSE to
  IN IF (t = 0 /\ f # 0) \/ Queue(heap, f) \/ Queue(heap, t) THEN <<FALSE, a>>
     ELSE IF f = 0 THEN <<TRUE, a>>
     ELSE CopyFrom(a, t, IF toDone THEN 0 ELSE ot + n, f, IF fromDone THEN 0 ELSE of + n)
pbuf_copy(heap, to, from) ==
  IF heap[to].tot < heap[from].tot THEN <<FALSE, heap>> ELSE CopyFrom(heap, to, 0, from, 0)

\* <<q, heap>>; an empty heap leaves everything as it is.
pbuf_clone(heap, layer, type, p) ==
  LET a == pbuf_alloc(heap, layer, heap[p].tot, type)
  IN IF a[1] = 0 THEN a ELSE <<a[1], pbuf_copy(a[2], a[1], p)[2]>>
pbuf_coalesce(heap, layer, p) ==
  LET a == pbuf_clone(heap, layer, "ram", p)
  IN IF heap[p].next = 0 \/ a[1] = 0 THEN <<p, heap>> ELSE <<a[1], pbuf_free(a[2], p)[2]>>

\* The bytes pbuf_copy_partial copies.
RECURSIVE pbuf_copy_partial(_, _, _, _)
pbuf_copy_partial(heap, p, len, offset) ==
  IF len = 0 \/ p = 0 THEN << >>
  ELSE IF offset # 0 /\ offset >= heap[p].len
  THEN pbuf_copy_partial(heap, heap[p].next, len, offset - heap[p].len)
  ELSE LET n == Min({heap[p].len - offset, len})
       IN SubSeq(Payload(heap, p), offset + 1, offset + n)
          \o pbuf_copy_partial(heap, heap[p].next, len - n, 0)

\* The byte at offset, -1 past the end.
pbuf_try_get_at(heap, p, offset) ==
  LET s == pbuf_skip(heap, p, offset)
  IN IF s[1] # 0 /\ heap[s[1]].len > s[2] THEN Payload(heap, s[1])[s[2] + 1] ELSE -1

\* 0: equal; otherwise the place of the first difference, or "none".
pbuf_memcmp(heap, p, offset, s) ==
  LET q == pbuf_skip(heap, p, offset)
      diff == {i \in DOMAIN s : pbuf_try_get_at(heap, q[1], q[2] + i - 1) # s[i]}
  IN IF heap[p].tot < offset + Len(s) THEN U16 - 1
     ELSE IF diff = {} THEN 0 ELSE Min(diff)

pbuf_memfind(heap, p, s, start) ==
  LET at == {i \in start .. heap[p].tot - Len(s) : pbuf_memcmp(heap, p, i, s) = 0}
  IN IF at = {} THEN U16 - 1 ELSE Min(at)
-----------------------------------------------------------------------------
\* held[p] references to p are the users'.  asSaid: from the pbuf at that the
\* last call was about, the bytes are want, what its documentation promises.
PbufInit ==
  pb = [heap |-> [p \in PbufIds |-> NoPbuf], held |-> [p \in PbufIds |-> 0], calls |-> 0, asSaid |-> TRUE]

Users == {p \in PbufIds : pb.held[p] > 0}
Predecessors(heap, p) == {q \in Allocated(heap) : heap[q].next = p}

\* Nobody else sees p's length; nobody else sees any of its chain.
Own(p) == Predecessors(pb.heap, p) = {}
OwnChain(p) == \A q \in Range(ChainOf(pb.heap, p)) : pb.heap[q].ref = 1
Step(heap, held, at, want) ==
  /\ pb.calls < PbufCalls
  /\ pb' = [heap |-> heap, held |-> held, calls |-> pb.calls + 1,
            asSaid |-> at # 0 => Bytes(heap, at) = want]
More(p) == [pb.held EXCEPT ![p] = @ + 1]
Less(p) == [pb.held EXCEPT ![p] = @ - 1]
Written(n) == [i \in 1 .. n |-> i]

PbufAlloc ==
  \E layer \in pbuf_layers, n \in PbufLens, type \in {"pool", "ram", "ref"} :
     LET a == pbuf_alloc(pb.heap, layer, n, type) IN
     IF a[1] = 0 THEN Step(a[2], pb.held, 0, << >>)
     ELSE Step(a[2], More(a[1]), a[1], [i \in 1 .. n |-> 0])
PbufFree ==
  \E p \in Users : Step(pbuf_free(pb.heap, p)[2], Less(p), 0, << >>)
PbufRef ==
  \E p \in Users : pb.held[p] < MaxRefs /\ Step(pbuf_ref(pb.heap, p), More(p), p, Bytes(pb.heap, p))
PbufRealloc ==
  \E p \in Users, n \in PbufLens :
     /\ OwnChain(p)
     /\ Step(pbuf_realloc(pb.heap, p, n), pb.held, p,
             SubSeq(Bytes(pb.heap, p), 1, Min({n, pb.heap[p].tot})))
PbufRemoveHeader ==
  \E p \in Users, n \in {1, 2} :
     LET a == pbuf_remove_header(pb.heap, p, n) IN
     /\ Own(p)
     /\ Step(a[2], pb.held, p, SubSeq(Bytes(pb.heap, p), IF a[1] = 1 THEN 1 ELSE n + 1, pb.heap[p].tot))
PbufAddHeader ==
  \E p \in Users, n \in {1, 2}, force \in BOOLEAN :
     LET a == pbuf_add_header_impl(pb.heap, p, n, force) IN
     /\ Own(p)
     /\ Step(a[2], pb.held, p,
             (IF a[1] = 1 THEN << >>
              ELSE SubSeq(pb.heap[p].mem, pb.heap[p].off - n + 1, pb.heap[p].off))
             \o Bytes(pb.heap, p))
PbufFreeHeader ==
  \E p \in Users, n \in PbufLens :
     LET a == pbuf_free_header(pb.heap, p, n)
         held == IF a[1] = p THEN pb.held ELSE Less(p)
     IN /\ OwnChain(p)
        /\ Step(a[2], IF a[1] \in {0, p} THEN held ELSE [held EXCEPT ![a[1]] = 1], a[1],
                SubSeq(Bytes(pb.heap, p), n + 1, pb.heap[p].tot))
\* Two chains apart from each other, and together shorter than 2^16.
Joinable(h, t) ==
  /\ Own(h) /\ pb.heap[h].tot + pb.heap[t].tot < U16 /\ pb.heap[t].tot > 0
  /\ Range(ChainOf(pb.heap, h)) \cap Range(ChainOf(pb.heap, t)) = {}
  /\ \A q \in Range(ChainOf(pb.heap, h)) : Cardinality(Predecessors(pb.heap, q)) <= 1
  /\ \A q \in Range(ChainOf(pb.heap, h)) \ {h} : pb.held[q] = 0
PbufCat ==
  \E h, t \in Users :
     Joinable(h, t) /\ Step(pbuf_cat(pb.heap, h, t), Less(t), h, Bytes(pb.heap, h) \o Bytes(pb.heap, t))
PbufChain ==
  \E h, t \in Users :
     Joinable(h, t) /\ Step(pbuf_chain(pb.heap, h, t), pb.held, h, Bytes(pb.heap, h) \o Bytes(pb.heap, t))
PbufDechain ==
  \E p \in Users : Own(p) /\ Step(pbuf_dechain(pb.heap, p)[2], pb.held, p, Payload(pb.heap, p))
PbufTake ==
  \E p \in Users, n \in PbufLens, offset \in {0, 1} :
     LET a == IF offset = 0 THEN pbuf_take(pb.heap, p, Written(n))
              ELSE pbuf_take_at(pb.heap, p, Written(n), offset)
         b == Bytes(pb.heap, p)
     IN Step(a[2], pb.held, p,
             IF ~a[1] THEN b ELSE SubSeq(b, 1, offset) \o Written(n) \o SubSeq(b, offset + n + 1, Len(b)))
PbufCopy ==
  \E to, from \in Users :
     LET a == pbuf_copy(pb.heap, to, from) IN
     /\ Range(ChainOf(pb.heap, to)) \cap Range(ChainOf(pb.heap, from)) = {}
     /\ a[1]
     /\ Step(a[2], pb.held, to, Bytes(pb.heap, from)
                                \o SubSeq(Bytes(pb.heap, to), pb.heap[from].tot + 1, pb.heap[to].tot))
PbufCoalesce ==
  \E p \in Users :
     LET a == pbuf_coalesce(pb.heap, 0, p)
     IN Step(a[2], [Less(p) EXCEPT ![a[1]] = @ + 1], a[1], Bytes(pb.heap, p))

PbufNext ==
  \/ PbufAlloc \/ PbufFree \/ PbufRef \/ PbufRealloc \/ PbufRemoveHeader \/ PbufAddHeader
  \/ PbufFreeHeader \/ PbufCat \/ PbufChain \/ PbufDechain \/ PbufTake \/ PbufCopy \/ PbufCoalesce
-----------------------------------------------------------------------------
\* pbuf.h: tot_len is the length of this buffer and of all next buffers in the
\* chain, through every legal sequence of calls and with shared tails.
TotLens ==
  \A p \in Allocated(pb.heap) :
     LET b == pb.heap[p] IN b.tot = b.len + (IF b.next = 0 THEN 0 ELSE pb.heap[b.next].tot)

\* ref counts the users' references and the chains' pointers: a pbuf is freed
\* exactly when the last of them is gone.
RefsExact ==
  \A p \in PbufIds :
     pb.heap[p].ref = pb.held[p] + Cardinality(Predecessors(pb.heap, p))

\* The bytes from the returned pbuf on are those the documentation promises:
\* shortened, joined, copied or moved, never lost or mixed.
AsDocumented == pb.asSaid

\* Reading a chain at an offset sees the bytes of the chain laid end to end,
\* wherever the borders of its pbufs are.
ReadsAgree ==
  \A p \in Allocated(pb.heap) :
     LET b == Bytes(pb.heap, p)
         n == Len(b)
     IN /\ \A o \in 0 .. n : pbuf_try_get_at(pb.heap, p, o) = (IF o < n THEN b[o + 1] ELSE -1)
        /\ \A o \in 0 .. n, l \in 0 .. n :
             /\ pbuf_copy_partial(pb.heap, p, l, o) = SubSeq(b, o + 1, Min({o + l, n}))
             /\ l > 0 /\ o + l <= n => pbuf_memcmp(pb.heap, p, o, SubSeq(b, o + 1, o + l)) = 0
             /\ l > 0 /\ o + l <= n => pbuf_memfind(pb.heap, p, SubSeq(b, o + 1, o + l), 0) <= o

(* Chains of pbufs, over every sequence of calls: lengths, references, contents *)
(* and what the readers return agree.                                           *)
PbufsSound == TotLens /\ RefsExact /\ AsDocumented /\ ReadsAgree
=============================================================================
