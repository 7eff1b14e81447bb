---------------------------- MODULE UniAllocator ----------------------------
(***************************************************************************)
(* UniAllocator (uni_allocator.h, uni_allocator.cc): the dlmalloc-derived  *)
(* allocator of unimem, over one segment of memory obtained from an        *)
(* underlying Allocator.                                                   *)
(*                                                                         *)
(* gm is the MallocState together with the chunk headers that live in the  *)
(* segment.  Doubly linked bin lists are sequences (first element: what    *)
(* bin->fd points to); a tree bin is the ring of its root, in fd order.    *)
(* No tree bin ever has a child: the only store of a non-null child link   *)
(* in insert_large_chunk is guarded by ok_address of the empty slot's own  *)
(* content, the null pointer, which lies below least_addr, so the call     *)
(* throws instead (see insert_large_chunk).                                *)
(*                                                                         *)
(* The allocator has no lock (USE_LOCKS is never defined): calls do not    *)
(* overlap, and a call is one step except where Alloc calls itself.        *)
(***************************************************************************)
EXTENDS ChunkSizes, SequencesExt

CONSTANTS
  IncreasingSize,  \* increasing_size_, bytes asked of the underlying allocator
  Bases,           \* addresses the underlying allocator may return
  MaxSegments,     \* bound: segments the underlying allocator can supply
  Requests,        \* sizes clients pass to Alloc
  MaxLive,         \* bound: allocations clients hold at once
  FreshStatus      \* what `new MallocState` may find in the memory it gets:
                   \* zeros ("ok"), or anything else ("stale")

(* head keeps two flags in the low bits of a size: the segment and its      *)
(* address must leave them free.                                            *)
ASSUME UniConstants ==
  /\ Bases \subseteq Nat /\ \A b \in Bases : b % 8 = 0
  /\ IncreasingSize \in 64 .. SizeModulus - 1 /\ IncreasingSize % 8 = 0
  /\ MaxSegments \in Nat \ {0}
  /\ Requests \subseteq 0 .. SizeModulus - 1
  /\ MaxLive \in Nat \ {0}
  /\ FreshStatus \subseteq {"ok", "stale"}

NULL   == 0
NoCall == -1

VARIABLES
  gm,        \* *gm_ and the chunk headers in the segment
  live,      \* what clients hold: [mem |-> pointer, bytes |-> size asked for]
  call,      \* the argument of an Alloc that called itself, or NoCall
  segments   \* number of segments obtained from the underlying allocator

vars == <<gm, live, call, segments>>

-----------------------------------------------------------------------------
(* Chunk headers: a function from the addresses of the chunks of the        *)
(* segment to their fields.  foot is prev_foot, meaningful only while the   *)
(* previous chunk is free (it is payload of that chunk otherwise, and 0     *)
(* here).  The header of a chunk absorbed by another one is dropped.        *)

chunk2mem(p) == p + TWO_SIZE_T_SIZES
mem2chunk(m) == m - TWO_SIZE_T_SIZES

PutHead(c, p, s, cin) ==
  [x \in DOMAIN c \cup {p} |->
     IF x = p THEN [size |-> s, pinuse |-> TRUE, cinuse |-> cin,
                    foot |-> IF p \in DOMAIN c THEN c[p].foot ELSE 0]
              ELSE c[x]]

Absorb(c, p) == [x \in DOMAIN c \ {p} |-> c[x]]

(* Mutant of set_inuse_and_pinuse: the next chunk keeps a clear pinuse.     *)
set_inuse_and_pinuse_Half(c, p, s) == PutHead(c, p, s, TRUE)

set_inuse_and_pinuse(c, p, s) ==
  [PutHead(c, p, s, TRUE) EXCEPT ![p + s].pinuse = TRUE, ![p + s].foot = 0]

set_size_and_pinuse_of_inuse_chunk(c, p, s) == PutHead(c, p, s, TRUE)

set_size_and_pinuse_of_free_chunk(c, p, s) ==
  [PutHead(c, p, s, FALSE) EXCEPT ![p + s].foot = s]

set_free_with_pinuse(c, p, s, next) ==
  set_size_and_pinuse_of_free_chunk([c EXCEPT ![next].pinuse = FALSE], p, s)

(* (head & INUSE_BITS) # PINUSE_BIT *)
is_inuse(c, p) == c[p].cinuse \/ ~c[p].pinuse

ok_address(h, a) == a >= h.least_addr

Throw(h) == [h EXCEPT !.status = "corrupted"]   \* MemoryCorruptedException

-----------------------------------------------------------------------------
(* Bins.                                                                    *)

insert_small_chunk(h, P, S) ==
  LET I == small_index(S)
      F == IF I \in h.smallmap THEN h.smallbins[I] ELSE << >>
  IN [h EXCEPT !.smallmap = @ \cup {I}, !.smallbins[I] = <<P>> \o F]

(* Mutant of unlink_small_chunk: the bit of a bin that empties stays set.   *)
unlink_small_chunk_Bit(h, P, S) ==
  [h EXCEPT !.smallbins[small_index(S)] = RemoveFirst(@, P)]

unlink_small_chunk(h, P, S) ==
  LET I == small_index(S)
      rest == RemoveFirst(h.smallbins[I], P)
  IN IF P \in ToSet(h.smallbins[I])
     THEN [h EXCEPT !.smallbins[I] = rest,
                    !.smallmap = IF rest = << >> THEN @ \ {I} ELSE @]
     ELSE Throw(h)

unlink_first_small_chunk(h, I) ==
  LET rest == Tail(h.smallbins[I])
  IN [h EXCEPT !.smallbins[I] = rest,
               !.smallmap = IF rest = << >> THEN @ \ {I} ELSE @]

(* A chunk of the root's size joins its ring right after the root.  A chunk *)
(* of another size descends to a child slot; every slot is null, and        *)
(* ok_address of its content, the null pointer, fails.                      *)
insert_large_chunk(h, X, S) ==
  LET I == compute_tree_index(S)
      ring == h.treebins[I]
  IN CASE I \notin h.treemap ->
            [h EXCEPT !.treemap = @ \cup {I}, !.treebins[I] = <<X>>]
       [] I \in h.treemap /\ h.chunk[Head(ring)].size = S ->
            [h EXCEPT !.treebins[I] = <<Head(ring), X>> \o Tail(ring)]
       [] I \in h.treemap /\ h.chunk[Head(ring)].size # S /\ ~ok_address(h, NULL) ->
            Throw(h)

(* When the root leaves, its predecessor in the ring (bk) becomes the root. *)
unlink_large_chunk(h, X, S) ==
  LET I == compute_tree_index(S)
      ring == h.treebins[I]
      n == Len(ring)
      rest == IF X = Head(ring) /\ n > 1
              THEN <<ring[n]>> \o SubSeq(ring, 2, n - 1)
              ELSE RemoveFirst(ring, X)
  IN [h EXCEPT !.treebins[I] = rest,
               !.treemap = IF rest = << >> THEN @ \ {I} ELSE @]

insert_chunk(h, P, S) ==
  IF is_small(S) THEN insert_small_chunk(h, P, S) ELSE insert_large_chunk(h, P, S)

unlink_chunk(h, P, S) ==
  IF is_small(S) THEN unlink_small_chunk(h, P, S) ELSE unlink_large_chunk(h, P, S)

(* The old designated victim is binned; assert(is_small(DVS)) stops the     *)
(* program when it fails.                                                   *)
replace_dv(h, P, S) ==
  IF ~is_small(h.dvsize)
  THEN [h EXCEPT !.status = "abort"]
  ELSE [(IF h.dvsize # 0 THEN insert_small_chunk(h, h.dv, h.dvsize) ELSE h)
          EXCEPT !.dvsize = S, !.dv = P]

(* Mutants of Splits: any remainder is split off; a remainder of exactly    *)
(* MIN_CHUNK_SIZE is not.                                                   *)
Splits_Always(s, nb) == s > nb
Splits_Strict(s, nb) == s - nb > MIN_CHUNK_SIZE

(* The first nb bytes of the free chunk p of size s go in use: all of it    *)
(* when the remainder would be below MIN_CHUNK_SIZE.                        *)
Splits(s, nb) == s - nb >= MIN_CHUNK_SIZE

Carve(h, p, s, nb) ==
  [h EXCEPT !.chunk =
     IF Splits(s, nb)
     THEN set_size_and_pinuse_of_free_chunk(
            set_size_and_pinuse_of_inuse_chunk(@, p, nb), p + nb, s - nb)
     ELSE set_inuse_and_pinuse(@, p, s)]

(* Mutants of DropDv: dv is still there; only its pointer is.               *)
DropDv_Nothing(h) == h
DropDv_Pointer(h) == [h EXCEPT !.dvsize = 0]

DropDv(h) == [h EXCEPT !.dv = NULL, !.dvsize = 0]
-----------------------------------------------------------------------------
(* Alloc.                                                                   *)

Small(bytes) == bytes <= MAX_SMALL_REQUEST
ChunkFor(bytes) ==
  IF bytes >= MAX_REQUEST /\ ~Small(bytes) THEN MAX_SIZE_T ELSE request2size(bytes)

(* A client calls Alloc(bytes), or Alloc(bytes) has called itself.          *)
Calling(bytes) ==
  /\ gm.status = "ok"
  /\ \/ call = NoCall /\ Cardinality(live) < MaxLive
     \/ call = bytes

(* The call returns chunk p, leaving the allocator in state h; no pointer   *)
(* is returned when an exception or an assertion left it first.             *)
Return(bytes, p, h) ==
  /\ gm' = h
  /\ call' = NoCall
  /\ live' = IF h.status = "ok"
             THEN live \cup {[mem |-> chunk2mem(p), bytes |-> bytes]} ELSE live
  /\ UNCHANGED segments

(* Lines 49-52: the request's bin or the one after it; lines 64-71: a bin   *)
(* to the left of it.  BinSearchExact is about the bit arithmetic itself.   *)
ExactBins(nb) == gm.smallmap \cap {small_index(nb), small_index(nb) + 1}

(* Mutant of LargerBins: the mask starts one chunk size too far left.       *)
LargerBins_Mask(nb) == {i \in gm.smallmap : i > small_index(nb) + 2}

LargerBins(nb) == {i \in gm.smallmap : i > small_index(nb)}

UsesExactBin(bytes)  == Small(bytes) /\ ExactBins(ChunkFor(bytes)) # {}
UsesLargerBin(bytes) ==
  /\ Small(bytes) /\ ~UsesExactBin(bytes)
  /\ ChunkFor(bytes) > gm.dvsize
  /\ LargerBins(ChunkFor(bytes)) # {}
UsesSmallestTree(bytes) ==
  /\ Small(bytes) /\ ~UsesExactBin(bytes) /\ ~UsesLargerBin(bytes)
  /\ ChunkFor(bytes) > gm.dvsize
  /\ gm.treemap # {}

AllocExactBin(bytes) ==
  LET i == Min(ExactBins(ChunkFor(bytes)))
      p == Head(gm.smallbins[i])
      h == unlink_first_small_chunk(gm, i)
  IN /\ Calling(bytes)
     /\ UsesExactBin(bytes)
     /\ Return(bytes, p,
          [h EXCEPT !.chunk = set_inuse_and_pinuse(@, p, small_index2size(i))])

AllocLargerBin(bytes) ==
  LET nb == ChunkFor(bytes)
      i  == Min(LargerBins(nb))
      s  == small_index2size(i)
      p  == Head(gm.smallbins[i])
      h  == Carve(unlink_first_small_chunk(gm, i), p, s, nb)
  IN /\ Calling(bytes)
     /\ UsesLargerBin(bytes)
     /\ Return(bytes, p, IF Splits(s, nb) THEN replace_dv(h, p + nb, s - nb) ELSE h)

(* tmalloc_small: the root of the first tree bin.                           *)
AllocSmallFromTree(bytes) ==
  LET nb == ChunkFor(bytes)
      v  == Head(gm.treebins[Min(gm.treemap)])
      s  == gm.chunk[v].size
      h  == Carve(unlink_large_chunk(gm, v, s), v, s, nb)
  IN /\ Calling(bytes)
     /\ UsesSmallestTree(bytes)
     /\ Return(bytes, v, IF Splits(s, nb) THEN replace_dv(h, v + nb, s - nb) ELSE h)

(* tmalloc_large, lines 458-504: the root of the request's own bin when it  *)
(* is large enough, else that of the next non-empty bin when it is.         *)
(* Remainders are compared as size_t values, so that a chunk too small      *)
(* looks enormous.                                                          *)
RootFits(i, nb) == Wrap(gm.chunk[Head(gm.treebins[i])].size - nb) < Wrap(-nb)

OwnBin(nb)  == {i \in gm.treemap : i = compute_tree_index(nb) /\ RootFits(i, nb)}
NextBin(nb) ==
  LET right == {i \in gm.treemap : i > compute_tree_index(nb)}
  IN {i \in right : RootFits(i, nb) /\ \A j \in right : i <= j}

RootIn(bins) == IF bins = {} THEN NULL ELSE Head(gm.treebins[Min(bins)])

(* Mutant of LargeFit: the root of the request's own bin is never looked at. *)
LargeFit_Right(nb) == RootIn(NextBin(nb))

LargeFit(nb) == RootIn(IF OwnBin(nb) # {} THEN OwnBin(nb) ELSE NextBin(nb))

(* Line 507: nothing is taken from the tree when dv is the better fit.      *)
UsesTree(bytes) ==
  /\ ~Small(bytes) /\ bytes < MAX_REQUEST
  /\ LET nb == ChunkFor(bytes)
         v  == LargeFit(nb)
     IN v # NULL /\ Wrap(gm.chunk[v].size - nb) < Wrap(gm.dvsize - nb)

AllocLargeFromTree(bytes) ==
  LET nb == ChunkFor(bytes)
      v  == LargeFit(nb)
      s  == gm.chunk[v].size
      h  == Carve(unlink_large_chunk(gm, v, s), v, s, nb)
  IN /\ Calling(bytes)
     /\ UsesTree(bytes)
     /\ Return(bytes, v, IF Splits(s, nb) THEN insert_chunk(h, v + nb, s - nb) ELSE h)

NoBinServes(bytes) ==
  ~(UsesExactBin(bytes) \/ UsesLargerBin(bytes) \/ UsesSmallestTree(bytes) \/ UsesTree(bytes))

AllocFromDv(bytes) ==
  LET nb == ChunkFor(bytes)
      p  == gm.dv
      h  == Carve(gm, p, gm.dvsize, nb)
  IN /\ Calling(bytes)
     /\ NoBinServes(bytes)
     /\ nb <= gm.dvsize
     /\ Return(bytes, p,
          IF Splits(gm.dvsize, nb)
          THEN [h EXCEPT !.dv = p + nb, !.dvsize = gm.dvsize - nb]
          ELSE DropDv(h))

(* Mutant of FitsTop: top is taken to be always large enough.               *)
FitsTop_Always(nb) == gm.top # NULL

(* Top never becomes empty.                                                 *)
FitsTop(nb) == nb < gm.topsize

AllocFromTop(bytes) ==
  LET nb == ChunkFor(bytes)
      p  == gm.top
      rsize == gm.topsize - nb
  IN /\ Calling(bytes)
     /\ NoBinServes(bytes)
     /\ nb > gm.dvsize /\ FitsTop(nb)
     /\ Return(bytes, p,
          [gm EXCEPT !.top = p + nb, !.topsize = rsize,
                     !.chunk = PutHead(PutHead(@, p + nb, rsize, FALSE), p, nb, TRUE)])

(* Mutant of init_top: topsize is forgotten.                                *)
init_top_NoSize(h, base) ==
  LET p == base + align_offset(chunk2mem(base))
      psize == (IncreasingSize - TOP_FOOT_SIZE) - align_offset(chunk2mem(base))
  IN [h EXCEPT !.top = p, !.chunk = PutHead(@, p, psize, FALSE)]

(* Mutant of init_top: the size is not reduced by the alignment offset.     *)
init_top_Offset(h, base) ==
  LET p == base + align_offset(chunk2mem(base))
      psize == IncreasingSize - TOP_FOOT_SIZE
  IN [h EXCEPT !.top = p, !.topsize = psize, !.chunk = PutHead(@, p, psize, FALSE)]

(* init_top: the top chunk starts at the first address whose payload is     *)
(* aligned; TOP_FOOT_SIZE bytes are kept for the fake trailing chunk.       *)
init_top(h, base) ==
  LET p == base + align_offset(chunk2mem(base))
      psize == (IncreasingSize - TOP_FOOT_SIZE) - align_offset(chunk2mem(base))
  IN [h EXCEPT !.top = p, !.topsize = psize, !.chunk = PutHead(@, p, psize, FALSE)]

is_initialized == gm.top # NULL

(* Nothing serves the request: Alloc calls InitOrExpand and then itself.    *)
(* The first segment becomes the top chunk; a null one is written through   *)
(* by init_top.  A later segment is obtained and dropped.                   *)
InitOrExpand(bytes) ==
  /\ Calling(bytes)
  /\ NoBinServes(bytes)
  /\ ChunkFor(bytes) > gm.dvsize /\ ~FitsTop(ChunkFor(bytes))
  /\ call' = bytes
  /\ \E base \in IF segments < MaxSegments THEN Bases ELSE {NULL} :
       /\ segments' = IF base # NULL THEN segments + 1 ELSE segments
       /\ gm' = IF is_initialized THEN gm
                ELSE IF base = NULL THEN [gm EXCEPT !.status = "crashed"]
                ELSE init_top([gm EXCEPT !.least_addr = base], base)
  /\ UNCHANGED live
-----------------------------------------------------------------------------
(* Free.                                                                    *)

(* Mutant of Backward: the previous chunk is never consolidated.            *)
Backward_Never(h, p) == [h |-> h, p |-> p, size |-> h.chunk[p].size]

(* Lines 163-181: a free previous chunk absorbs p; it leaves its bin unless *)
(* it is dv.                                                                *)
Backward(h, p) ==
  LET c == h.chunk[p]
      prev == p - c.foot
  IN IF c.pinuse THEN [h |-> h, p |-> p, size |-> c.size]
     ELSE [h |-> [(IF prev # h.dv THEN unlink_chunk(h, prev, c.foot) ELSE h)
                    EXCEPT !.chunk = Absorb(@, p)],
           p |-> prev, size |-> c.size + c.foot]

NextChunk(p) == p + gm.chunk[p].size

(* The tests Free makes of a pointer; one that fails them is ignored.       *)
Accepted(mem) ==
  LET p == mem2chunk(mem) IN
  /\ ok_address(gm, p) /\ p \in DOMAIN gm.chunk /\ is_inuse(gm.chunk, p)
  /\ NextChunk(p) > p /\ gm.chunk[NextChunk(p)].pinuse

(* A client hands back m.                                                   *)
Freeing(m) == gm.status = "ok" /\ call = NoCall /\ Accepted(m.mem)

Freed(m, h) ==
  /\ gm' = h
  /\ live' = live \ {m}
  /\ UNCHANGED <<call, segments>>

(* Lines 172-176: dv swallows the chunk after it.                           *)
JoinsDvBefore(p) ==
  /\ ~gm.chunk[p].pinuse
  /\ p - gm.chunk[p].foot = gm.dv
  /\ gm.chunk[NextChunk(p)].cinuse /\ gm.chunk[NextChunk(p)].pinuse

FreeIntoDvBefore(m) ==
  LET p == mem2chunk(m.mem)
      b == Backward(gm, p)
  IN /\ Freeing(m)
     /\ JoinsDvBefore(p)
     /\ Freed(m, [b.h EXCEPT !.dvsize = b.size,
                             !.chunk = set_free_with_pinuse(@, b.p, b.size, NextChunk(p))])

FreeIntoTop(m) ==
  LET p == mem2chunk(m.mem)
      b == Backward(gm, p)
      tsize == gm.topsize + b.size
      h == [b.h EXCEPT !.top = b.p, !.topsize = tsize,
                       !.chunk = PutHead(Absorb(@, gm.top), b.p, tsize, FALSE)]
  IN /\ Freeing(m)
     /\ ~JoinsDvBefore(p)
     /\ NextChunk(p) = gm.top
     /\ Freed(m, IF b.p = gm.dv THEN DropDv(h) ELSE h)

FreeIntoDvAfter(m) ==
  LET p == mem2chunk(m.mem)
      b == Backward(gm, p)
      dsize == gm.dvsize + b.size
  IN /\ Freeing(m)
     /\ NextChunk(p) = gm.dv
     /\ Freed(m, [b.h EXCEPT !.dv = b.p, !.dvsize = dsize,
                             !.chunk = set_size_and_pinuse_of_free_chunk(
                                         Absorb(@, gm.dv), b.p, dsize)])

(* The next chunk is free and binned: it leaves its bin and is absorbed.    *)
FreeForward(m) ==
  LET p == mem2chunk(m.mem)
      next == NextChunk(p)
      b == Backward(gm, p)
      size == b.size + gm.chunk[next].size
      h == [unlink_chunk(b.h, next, gm.chunk[next].size) EXCEPT !.chunk =
              set_size_and_pinuse_of_free_chunk(Absorb(@, next), b.p, size)]
  IN /\ Freeing(m)
     /\ ~gm.chunk[next].cinuse
     /\ next \notin {gm.top, gm.dv}
     /\ Freed(m, IF b.p = gm.dv THEN [h EXCEPT !.dvsize = size]
                 ELSE insert_chunk(h, b.p, size))

(* The next chunk is in use: the freed chunk goes to a bin.                 *)
FreeToBin(m) ==
  LET p == mem2chunk(m.mem)
      b == Backward(gm, p)
      h == [b.h EXCEPT !.chunk = set_free_with_pinuse(@, b.p, b.size, NextChunk(p))]
  IN /\ Freeing(m)
     /\ ~JoinsDvBefore(p)
     /\ gm.chunk[NextChunk(p)].cinuse
     /\ Freed(m, insert_chunk(h, b.p, b.size))
-----------------------------------------------------------------------------
FreshState(status) ==
  [smallmap |-> {}, treemap |-> {}, dvsize |-> 0, topsize |-> 0,
   least_addr |-> NULL, dv |-> NULL, top |-> NULL,
   smallbins |-> [i \in BinIndex |-> << >>],
   treebins  |-> [i \in BinIndex |-> << >>],
   chunk |-> [x \in {} |-> NULL],
   status |-> status]

(* The constructor clears no field of the MallocState it allocates, and     *)
(* InitOrExpand only some: the allocator works on memory that is zero.      *)
Init ==
  /\ \E status \in FreshStatus : gm = FreshState(status)
  /\ live = {}
  /\ call = NoCall
  /\ segments = 0

(* On other memory the first Alloc takes bitmaps, sizes and pointers for    *)
(* what they are not; nothing is claimed of the allocator from then on.     *)
AllocStale(bytes) ==
  /\ gm.status = "stale"
  /\ gm' = [gm EXCEPT !.status = "undefined"]
  /\ UNCHANGED <<live, call, segments>>

Alloc(bytes) ==
  \/ AllocExactBin(bytes)
  \/ AllocLargerBin(bytes)
  \/ AllocSmallFromTree(bytes)
  \/ AllocLargeFromTree(bytes)
  \/ AllocFromDv(bytes)
  \/ AllocFromTop(bytes)
  \/ InitOrExpand(bytes)
  \/ AllocStale(bytes)

Free ==
  \/ \E m \in live : FreeIntoDvBefore(m)
  \/ \E m \in live : FreeIntoTop(m)
  \/ \E m \in live : FreeIntoDvAfter(m)
  \/ \E m \in live : FreeForward(m)
  \/ \E m \in live : FreeToBin(m)

Next == Free \/ \E bytes \in Requests : Alloc(bytes)

Spec == Init /\ [][Next]_vars

(* A call in progress keeps running: Alloc is one thread's straight code.   *)
Fairness == WF_vars(\E bytes \in Requests : call = bytes /\ Alloc(bytes))

FairSpec == Spec /\ Fairness
=============================================================================
