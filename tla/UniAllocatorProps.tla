------------------------- MODULE UniAllocatorProps --------------------------
(***************************************************************************)
(* What makes UniAllocator correct: the shape of its segment, the exact    *)
(* agreement of bins, tags and headers, the fit it chooses, the promise to *)
(* its clients (Heap), and the claims of the source that do not hold.      *)
(***************************************************************************)
EXTENDS UniAllocator

(* A call that threw or crashed stops half-way: the shape of the segment is *)
(* claimed of the states between complete calls.                            *)
Running == gm.status = "ok" /\ DOMAIN gm.chunk # {}

Chunks     == DOMAIN gm.chunk
FreeChunks == {p \in Chunks : ~gm.chunk[p].cinuse}
Binned     == FreeChunks \ {gm.dv, gm.top}

FirstChunk == gm.least_addr + align_offset(chunk2mem(gm.least_addr))
ArenaEnd   == gm.least_addr + (IncreasingSize - TOP_FOOT_SIZE)

ChunkHeader == [size : Nat, pinuse : BOOLEAN, cinuse : BOOLEAN, foot : Nat]

(* The MallocState, the headers and the clients' pointers have the types of *)
(* their declarations (uni_allocator.h:69-92, chunk.h:70-76).               *)
TypeOK ==
  /\ gm.smallmap \subseteq BinIndex /\ gm.treemap \subseteq BinIndex
  /\ {gm.dvsize, gm.topsize, gm.least_addr, gm.dv, gm.top} \subseteq Nat
  /\ gm.smallbins \in [BinIndex -> Seq(Nat)]
  /\ gm.treebins \in [BinIndex -> Seq(Nat)]
  /\ Chunks \subseteq Nat /\ \A p \in Chunks : gm.chunk[p] \in ChunkHeader
  /\ gm.status \in {"ok", "corrupted", "abort", "crashed", "stale", "undefined"}
  /\ live \subseteq [mem : Nat, bytes : Requests]
  /\ call \in Requests \cup {NoCall}
  /\ segments \in 0 .. MaxSegments

(* The chunks tile the segment: they start at its first aligned address, do *)
(* not overlap, leave no gap, and the last one is top.  Splitting in Alloc  *)
(* and consolidating in Free must both compute every size right.            *)
HeapTiled == Running =>
  /\ FirstChunk \in Chunks
  /\ gm.top \in Chunks /\ NextChunk(gm.top) = ArenaEnd
  /\ \A p \in Chunks \ {gm.top} : NextChunk(p) \in Chunks
  /\ \A p, q \in Chunks : p < q => NextChunk(p) <= q

(* Boundary tags agree with the chunk before them: the pinuse bit is that   *)
(* chunk's cinuse, and while it is free its size is repeated in prev_foot.  *)
(* Free finds the previous chunk by these two fields alone.                 *)
BoundaryTags == Running =>
  /\ gm.chunk[FirstChunk].pinuse
  /\ \A p \in Chunks \ {gm.top} :
       LET next == gm.chunk[NextChunk(p)] IN
       /\ next.pinuse = gm.chunk[p].cinuse
       /\ ~gm.chunk[p].cinuse => next.foot = gm.chunk[p].size

(* Free always consolidates: two neighbours are never both free, whatever   *)
(* mixture of bins, dv and top they belong to (uni_allocator.cc:143).       *)
NoAdjacentFree == Running =>
  \A p \in FreeChunks \ {gm.top} : gm.chunk[NextChunk(p)].cinuse

(* A free chunk that is neither dv nor top is in exactly one bin, the one   *)
(* of its size, exactly once; nothing else is in a bin; a bin's bit is set  *)
(* exactly when the bin is not empty; the chunks of a tree ring are of one  *)
(* size.  A chunk in no bin is lost, one in two bins is handed out twice.   *)
BinsExact == Running =>
  /\ gm.smallmap = {i \in BinIndex : gm.smallbins[i] # << >>}
  /\ gm.treemap  = {i \in BinIndex : gm.treebins[i] # << >>}
  /\ \A i \in BinIndex :
       /\ ToSet(gm.smallbins[i]) =
            {p \in Binned : is_small(gm.chunk[p].size) /\ small_index(gm.chunk[p].size) = i}
       /\ ToSet(gm.treebins[i]) =
            {p \in Binned : ~is_small(gm.chunk[p].size) /\ compute_tree_index(gm.chunk[p].size) = i}
       /\ IsInjective(gm.smallbins[i]) /\ IsInjective(gm.treebins[i])
       /\ \A p, q \in ToSet(gm.treebins[i]) : gm.chunk[p].size = gm.chunk[q].size

(* dv and top are free chunks of the sizes the MallocState caches for them; *)
(* a stale dvsize or topsize makes Alloc hand out memory in use.            *)
CachedSizes == Running =>
  /\ gm.topsize = gm.chunk[gm.top].size /\ gm.top \in FreeChunks
  /\ IF gm.dv = NULL THEN gm.dvsize = 0
     ELSE gm.dv \in FreeChunks \ {gm.top} /\ gm.dvsize = gm.chunk[gm.dv].size

(* The chunks in use are those clients hold, one each, aligned, large       *)
(* enough for the padded request and less than MIN_CHUNK_SIZE larger        *)
(* (do_check_malloced_chunk, uni_allocator.h:221-234).                      *)
LiveExact == Running =>
  /\ {mem2chunk(m.mem) : m \in live} = {p \in Chunks : gm.chunk[p].cinuse}
  /\ \A m, n \in live : m.mem = n.mem => m = n
  /\ \A m \in live :
       LET s == gm.chunk[mem2chunk(m.mem)].size
           nb == request2size(m.bytes)
       IN nb <= s /\ s < nb + MIN_CHUNK_SIZE /\ s % MALLOC_ALIGNMENT = 0

(* Every check passes: Free's tests of its argument, for every pointer a    *)
(* client holds, so that no legal Free is silently ignored                  *)
(* (uni_allocator.cc:160, 183); and the assertions of insert_small_chunk    *)
(* and replace_dv (uni_allocator.h:241, 318) whenever they are reached.     *)
ChecksPass ==
  /\ gm.status # "abort"
  /\ gm.status = "ok" => \A m \in live : Accepted(m.mem)
  /\ Running => \A p \in Binned : gm.chunk[p].size >= MIN_CHUNK_SIZE

(* When every allocation was handed back, the segment is one top chunk      *)
(* again, as init_top left it: no sequence of calls fragments it for good.  *)
AtRestOneTop == Running /\ live = {} => Chunks = {gm.top}
-----------------------------------------------------------------------------
(* An allocation a client keeps over a step keeps its chunk and its size:   *)
(* no other Alloc or Free splits, merges or moves it.                       *)
LiveUntouched == [][
  \A m \in live \cap live' :
    LET p == mem2chunk(m.mem) IN
    gm'.status = "ok" =>
      p \in DOMAIN gm'.chunk /\ gm'.chunk[p].size = gm.chunk[p].size]_vars

Chosen(m) == mem2chunk(m.mem)
Fitting(m) ==
  {p \in FreeChunks \ {gm.top} : gm.chunk[p].size >= request2size(m.bytes)}

(* Alloc splits top only when no other free chunk is large enough: the bin  *)
(* searches miss nothing, in a segment that an unsigned int can index       *)
(* (uni_allocator.cc:44-121).                                               *)
TopIsLastResort == [][
  \A m \in live' \ live : Chosen(m) = gm.top => Fitting(m) = {}]_vars

(* A large request gets the smallest free chunk that can hold it ("allocate *)
(* a large request from the best fitting chunk", uni_allocator.h:457).  It  *)
(* takes bins in the order of sizes: a segment that an unsigned int can     *)
(* index.                                                                   *)
BestFitLarge == [][
  \A m \in live' \ live : ~Small(m.bytes) =>
    \A p \in Fitting(m) : gm.chunk[Chosen(m)].size <= gm.chunk[p].size]_vars

(* The allocator keeps the promise of an Allocator: memory handed out is    *)
(* aligned and shared with no live allocation.                              *)
Promise == INSTANCE Heap WITH Alignment <- MALLOC_ALIGNMENT
ImplementsHeap == Promise!Spec

(* A request the empty segment can hold, made while nothing is live, is     *)
(* served: the recursion of Alloc through InitOrExpand ends.                *)
FittingAllocReturns ==
  \A bytes \in Requests :
    ChunkFor(bytes) + MALLOC_ALIGNMENT + TOP_FOOT_SIZE < IncreasingSize =>
      (call = bytes /\ live = {}) ~> (call = NoCall)
-----------------------------------------------------------------------------
(* Claims of the source that the code does not satisfy.                     *)

(* Every call of Alloc ends, with a pointer or with a failure               *)
(* (uni_allocator.cc:95 "Too big to allocate. Force failure").              *)
AllocReturns == \A bytes \in Requests : (call = bytes) ~> (call = NoCall)

(* No exception leaves Alloc or Free of a client that respects the          *)
(* interface: a free chunk can always be inserted into its tree             *)
(* (uni_allocator.h:255 "Insert chunk into tree").                          *)
NeverCorrupted == gm.status # "corrupted"

(* The bytes asked for lie inside the chunk (chunk.h:116 "pad request bytes *)
(* into a usable size").                                                    *)
PayloadInChunk == Running =>
  \A m \in live : m.mem + m.bytes <= NextChunk(mem2chunk(m.mem)) + SIZE_T_SIZE
=============================================================================
