------------------------------- MODULE LwipMem -------------------------------
(* The heap of mem.c and the pools of memp.c. The build takes its memory from *)
(* libc (MEM_LIBC_MALLOC, MEMP_MEM_MALLOC), so this is the allocator lwIP     *)
(* falls back to when those switches are off, with                            *)
(* LWIP_ALLOW_MEM_FREE_FROM_OTHER_CONTEXT: mem_malloc lets mem_free and       *)
(* mem_trim of another context run between two steps of its search.           *)
(* A block is named by the offset of its header. The heap maps the offsets at *)
(* which there is a header now to that header, so that following a stale link *)
(* is an error of the model. Offsets count units of MEM_ALIGNMENT.            *)
EXTENDS Integers, FiniteSets, Sequences, SequencesExt

CONSTANTS
  MEM_SIZE,        \* MEM_SIZE_ALIGNED: the offset of ram_end
  HDR,             \* SIZEOF_STRUCT_MEM
  MIN_SIZE,        \* MIN_SIZE_ALIGNED
  MemRequests,     \* sizes asked for
  MaxOwned,        \* blocks the clients hold at most
  PoolSizes,       \* sizes of the elements of the pools, in increasing order
  PoolNum          \* elements in each pool

ASSUME MemAssumption ==
  /\ {MEM_SIZE, HDR, MIN_SIZE, PoolNum} \subseteq Nat \ {0}
  /\ MemRequests \subseteq Nat

VARIABLE hp
\* hp.blk   the headers: offset -> [next, prev, used]
\* hp.lfree lfree
\* hp.count mem_free_count
\* hp.call  the mem_malloc call in progress: where it stands in the code, the
\*          size it looks for, its ptr (and cur while it moves lfree)
\* hp.own   the blocks clients hold: offset -> the size they asked for
\* hp.full  a call returned NULL although a free block would have done
\* hp.pool  free list (tab) of each pool
\* hp.held  elements clients hold: <<pool, element>> -> the size they asked for

NoCall == [at |-> "idle", size |-> 0, ptr |-> 0]

(* mem_init: one free block, and ram_end, which always counts as used. *)
mem_init ==
  (0 :> [next |-> MEM_SIZE, prev |-> 0, used |-> FALSE]) @@
  (MEM_SIZE :> [next |-> MEM_SIZE, prev |-> MEM_SIZE, used |-> TRUE])

(* memp_init_pool pushes the elements in order, so that the last is on top. *)
memp_init_pool == [i \in 1 .. PoolNum |-> PoolNum + 1 - i]

MemInit ==
  hp = [blk |-> mem_init, lfree |-> 0, count |-> 0, call |-> NoCall,
        own |-> <<>>, full |-> FALSE,
        pool |-> [p \in DOMAIN PoolSizes |-> memp_init_pool], held |-> <<>>]

Without(f, S) == [x \in DOMAIN f \ S |-> f[x]]

(* The part of a header write that all of mem.c repeats: the block after b    *)
(* learns that its predecessor is b, unless it is ram_end.                    *)
LinkBack(blk, b) ==
  IF blk[b].next = MEM_SIZE THEN blk ELSE [blk EXCEPT ![blk[b].next].prev = b]

Capacity(blk, b) == blk[b].next - (b + HDR)

LargerOf(a, b) == IF a < b THEN b ELSE a
SmallerOf(a, b) == IF a < b THEN a ELSE b

(* Size as the code rounds it: at least MIN_SIZE_ALIGNED. *)
Rounded(size) == LargerOf(size, MIN_SIZE)

(* plug_holes: merge a free block with a free block behind it, then with a    *)
(* free block in front of it; lfree moves to the merged block.                *)
MergeNext(h, b) ==
  LET n == h.blk[b].next IN
  IF b # n /\ n # MEM_SIZE /\ ~h.blk[n].used
  THEN [h EXCEPT !.blk = LinkBack(Without([h.blk EXCEPT ![b].next = h.blk[n].next], {n}), b),
                 !.lfree = IF @ = n THEN b ELSE @]
  ELSE h

MergePrev(h, b) ==
  LET p == h.blk[b].prev IN
  IF p # b /\ ~h.blk[p].used
  THEN [h EXCEPT !.blk = LinkBack(Without([h.blk EXCEPT ![p].next = h.blk[b].next], {b}), p),
                 !.lfree = IF @ = b THEN p ELSE @]
  ELSE h

plug_holes(h, b) == MergePrev(MergeNext(h, b), b)

(* mem_free of a block a client holds. *)
mem_free(h, b) ==
  plug_holes([h EXCEPT !.blk[b].used = FALSE, !.lfree = SmallerOf(@, b), !.count = 1], b)

(* The offset behind block b when size is all it has to hold. *)

BlockBehind(b, size) == b + HDR + size

(* mem_trim: the tail goes to the free block behind, or becomes a free block  *)
(* of its own when it is large enough; it never grows a block.                *)
mem_trim(h, b, size) ==
  LET new == Rounded(size)
      n == h.blk[b].next
      at == BlockBehind(b, new)
      Free(next) == [next |-> next, prev |-> b, used |-> FALSE]
      Cut(blk, next) == LinkBack([(at :> Free(next)) @@ blk EXCEPT ![b].next = at], at)
  IN
  CASE new >= Capacity(h.blk, b) -> h                                  \* before the protection
    [] new < Capacity(h.blk, b) /\ ~h.blk[n].used ->
         [h EXCEPT !.blk = Cut(Without(@, {n}), h.blk[n].next),
                   !.lfree = IF @ = n THEN at ELSE @, !.count = 1]
    [] new < Capacity(h.blk, b) /\ h.blk[n].used /\ new + HDR + MIN_SIZE <= Capacity(h.blk, b) ->
         [h EXCEPT !.blk = Cut(@, n), !.lfree = SmallerOf(@, at), !.count = 1]
    [] OTHER -> [h EXCEPT !.count = 1]

(* A free block large enough for size. *)
Fits(blk, b, size) == ~blk[b].used /\ Capacity(blk, b) >= size

(* Take block b for size: split off what is left over when it can hold a      *)
(* block, otherwise hand out the whole.                                       *)
Take(blk, b, size) ==
  LET at == BlockBehind(b, size) IN
  IF Capacity(blk, b) >= size + HDR + MIN_SIZE
  THEN LinkBack((at :> [next |-> blk[b].next, prev |-> b, used |-> FALSE]) @@
                [blk EXCEPT ![b].used = TRUE, ![b].next = at], at)
  ELSE [blk EXCEPT ![b].used = TRUE]

(* Where mem_malloc goes when it has not found a block yet and would look at  *)
(* ptr next: into the window in which frees may run, or back with NULL.       *)
LookAt(h, ptr) ==
  IF ptr < MEM_SIZE - h.call.size
  THEN [h EXCEPT !.call.at = "search", !.call.ptr = ptr, !.count = 0]
  ELSE [h EXCEPT !.call = NoCall, !.count = 0,
                 !.full = @ \/ \E b \in DOMAIN h.blk : Fits(h.blk, b, h.call.size)]

(* The block goes to the caller. *)
Return(h, b) ==
  [h EXCEPT !.call = NoCall, !.count = 0, !.own = (b :> h.call.size) @@ @]

(* mem_malloc_adjust_lfree: the caller's block is the lowest free one no      *)
(* more; lfree moves over used blocks, with a window after each.              *)
MoveLfree(h, b, cur) ==
  IF h.blk[cur].used /\ cur # MEM_SIZE
  THEN [h EXCEPT !.call.at = "adjust", !.call.ptr = b, !.call.cur = cur, !.count = 0]
  ELSE Return([h EXCEPT !.lfree = cur], b)

Adjust(h, b) == IF b = h.lfree THEN MoveLfree(h, b, h.lfree) ELSE Return(h, b)

(* The step after the window of the search: start over if a block was freed   *)
(* meanwhile, take the block, or go on to the next.                           *)
SearchStep(h) ==
  LET b == h.call.ptr IN
  CASE h.count # 0 -> LookAt(h, h.lfree)
    [] h.count = 0 /\ Fits(h.blk, b, h.call.size) ->
         Adjust([h EXCEPT !.blk = Take(@, b, h.call.size),
                          !.call = [cur |-> 0] @@ @], b)
    [] OTHER -> LookAt(h, h.blk[b].next)

(* The step after the window of the lfree adjustment. *)
AdjustStep_NoRestart(h) == MoveLfree(h, h.call.ptr, h.blk[h.call.cur].next)

AdjustStep(h) ==
  IF h.count # 0 THEN Adjust(h, h.call.ptr)
                 ELSE MoveLfree(h, h.call.ptr, h.blk[h.call.cur].next)

(* mem_malloc: zero and sizes beyond the heap are refused; one call at a time *)
(* holds mem_mutex.                                                           *)
mem_malloc ==
  \E size \in MemRequests :
    /\ hp.call.at = "idle"
    /\ Cardinality(DOMAIN hp.own) < MaxOwned
    /\ size # 0 /\ Rounded(size) <= MEM_SIZE
    /\ hp' = LookAt([hp EXCEPT !.call.size = Rounded(size)], hp.lfree)

MallocContinues ==
  \/ /\ hp.call.at = "search"
     /\ hp' = SearchStep(hp)
  \/ /\ hp.call.at = "adjust"
     /\ hp' = AdjustStep(hp)

Free ==
  \E b \in DOMAIN hp.own :
    hp' = [mem_free(hp, b) EXCEPT !.own = Without(@, {b})]

Trim ==
  \E b \in DOMAIN hp.own, size \in MemRequests \ {0} :
    /\ size < hp.own[b]
    /\ hp' = [mem_trim(hp, b, size) EXCEPT !.own[b] = Rounded(size)]

(* mem_malloc over pools (MEM_USE_POOLS_TRY_BIGGER_POOL): the first pool      *)
(* whose elements are large enough and that has one left; HDR is the room of  *)
(* the memp_malloc_helper that remembers the pool.                            *)

PoolFits(p, size) == size + HDR <= PoolSizes[p]

FirstPool(size) ==
  {p \in DOMAIN PoolSizes :
     /\ PoolFits(p, size) /\ hp.pool[p] # <<>>
     /\ \A q \in 1 .. p - 1 : PoolFits(q, size) => hp.pool[q] = <<>>}

(* do_memp_malloc_pool pops the free list. *)
memp_malloc ==
  \E size \in MemRequests : \E p \in FirstPool(size) :
    hp' = [hp EXCEPT !.pool[p] = Tail(@),
                     !.held = (<<p, Head(hp.pool[p])>> :> size) @@ @]

(* do_memp_free_pool pushes the element on the list of the pool its helper    *)
(* names.                                                                     *)
memp_free(e) == [hp EXCEPT !.pool[e[1]] = <<e[2]>> \o @]

PoolFree ==
  \E e \in DOMAIN hp.held :
    hp' = [memp_free(e) EXCEPT !.held = Without(@, {e})]

HeapNext == mem_malloc \/ MallocContinues \/ Free \/ Trim
PoolNext == memp_malloc \/ PoolFree

(* Heap and pools share nothing: the pools are used while the heap is as      *)
(* mem_init left it, so that their states add up.                             *)
MemNext ==
  \/ HeapNext /\ hp.held = <<>>
  \/ PoolNext /\ hp.own = <<>> /\ hp.call = NoCall /\ hp.blk = mem_init

-------------------------------------------------------------------------------
(* The blocks other than ram_end, and the ones a client or the call in        *)
(* progress has.                                                              *)
Blocks == DOMAIN hp.blk \ {MEM_SIZE}
Taken == DOMAIN hp.own \cup (IF hp.call.at = "adjust" THEN {hp.call.ptr} ELSE {})

(* mem_sanity, between any two protected sections of mem.c: the links chain   *)
(* the blocks in order of their offsets, forward and back, two free blocks    *)
(* are never neighbours, and the search in progress stands on a block unless  *)
(* mem_free_count tells it to start over.                                     *)
HeapChained ==
  /\ \A b \in Blocks :
       /\ hp.blk[b].next \in DOMAIN hp.blk
       /\ ~\E x \in DOMAIN hp.blk : b < x /\ x < hp.blk[b].next
       /\ hp.blk[b].next \in Blocks => hp.blk[hp.blk[b].next].prev = b
       /\ ~hp.blk[b].used => hp.blk[hp.blk[b].next].used
  /\ hp.lfree \in DOMAIN hp.blk
  /\ hp.call.at # "idle" /\ hp.count = 0 => hp.call.ptr \in Blocks

(* mem_malloc hands out a block that nobody else has and that holds what was  *)
(* asked for; the used blocks are exactly the ones somebody has, and no block *)
(* is ever cut shorter than MIN_SIZE_ALIGNED.                                 *)
BlocksOwned ==
  /\ {b \in Blocks : hp.blk[b].used} = Taken
  /\ \A b \in Blocks : Capacity(hp.blk, b) >= MIN_SIZE
  /\ \A b \in DOMAIN hp.own : Capacity(hp.blk, b) >= hp.own[b]

(* lfree never lies behind a free block, and mem_malloc returns NULL only     *)
(* when no free block is large enough, whatever was freed while it searched.  *)
NoneOverlooked ==
  /\ ~hp.full
  /\ hp.call.at = "idle" => hp.lfree = MEM_SIZE \/ ~hp.blk[hp.lfree].used

(* An element of a pool is on the free list of its own pool once, or with one *)
(* client whose request it holds.                                             *)
PoolsConserved ==
  \A p \in DOMAIN PoolSizes :
    /\ IsInjective(hp.pool[p])
    /\ \A i \in 1 .. PoolNum :
         i \in ToSet(hp.pool[p]) <=> <<p, i>> \notin DOMAIN hp.held
    /\ \A e \in DOMAIN hp.held : hp.held[e] + HDR <= PoolSizes[e[1]]

(* The heap and the pools, while a search is interrupted by frees: the chain of *)
(* blocks, their owners, their sizes, and no free block overlooked.             *)
HeapSound == HeapChained /\ BlocksOwned /\ NoneOverlooked /\ PoolsConserved
===============================================================================
