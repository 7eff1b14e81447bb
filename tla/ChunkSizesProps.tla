-------------------------- MODULE ChunkSizesProps ---------------------------
(***************************************************************************)
(* The size arithmetic of the uni_allocator against what it stands for.    *)
(*                                                                         *)
(* The only state is a size; a step goes on to any larger one.             *)
(***************************************************************************)
EXTENDS ChunkSizes

CONSTANT
  Sizes   \* sizes examined, requests and chunk sizes alike

ASSUME SizesAssumption == Sizes \subseteq 0 .. SizeModulus - 1

VARIABLE size

Init == size \in Sizes

Next == \E s \in Sizes : s > size /\ size' = s

Spec == Init /\ [][Next]_size

(* request2size gives the least chunk there is for a request: a multiple of *)
(* the alignment, not below MIN_CHUNK_SIZE, with room for the head; below   *)
(* MAX_REQUEST nothing wraps (chunk.h:90-92, 112-122).  The requests Alloc  *)
(* treats as small are those whose chunk belongs in a small bin, and all    *)
(* chunks of that bin have its size (uni_allocator.h:23-30,                 *)
(* uni_allocator.cc:44-59).                                                 *)
Holds(chunk, req) ==
  /\ chunk % MALLOC_ALIGNMENT = 0
  /\ chunk >= MIN_CHUNK_SIZE
  /\ chunk >= req + CHUNK_OVERHEAD

RequestsPadded ==
  size < MAX_REQUEST =>
    LET s == request2size(size) IN
    /\ Holds(s, size)
    /\ ~Holds(s - MALLOC_ALIGNMENT, size)
    /\ (size <= MAX_SMALL_REQUEST) = is_small(s)
    /\ is_small(s) => small_index(s) \in BinIndex /\ small_index2size(small_index(s)) = s

(* Two tree bins to each power of two: bin i starts at FirstOf(i) and ends  *)
(* where the next one starts, the last one with the sizes that an unsigned  *)
(* int can index; a size beyond, 2^40 in the program, gets one of the bins, *)
(* but any of them (uni_allocator.h:440-450).                               *)
FirstOf(i) == (2 + (i % 2)) * 2^(i \div 2) * (MIN_LARGE_SIZE \div 2)

TreeBinsPartition ==
  ~is_small(size) =>
    LET i == compute_tree_index(size) IN
    /\ i \in BinIndex
    /\ Indexed(size) => /\ FirstOf(i) <= size
                        /\ i < NBINS - 1 => size < FirstOf(i + 1)

(* The bit arithmetic on smallmap and treemap finds, for the bin of a       *)
(* request, the nearest marked bin whose chunks are large enough: it skips  *)
(* none, and never returns to a bin already looked at; among the tree bins  *)
(* for sizes that an unsigned int can index (uni_allocator.cc:49-71,        *)
(* uni_allocator.h:155-168, 487-495).                                       *)
Maps == {{}} \cup {{i, j} : i, j \in BinIndex}

Nearest(i, S) == i \in S /\ \A j \in S : i <= j

BinSearchExact ==
  \A map \in Maps :
    /\ size <= MAX_SMALL_REQUEST =>
         LET nb  == request2size(size)
             fit == {i \in map : small_index2size(i) >= nb}
         IN IF HasExactBin(map, small_index(nb))
            THEN Nearest(ExactBin(map, small_index(nb)), fit)
            ELSE fit # {} => Nearest(LargerBin(map, small_index(nb)), fit)
    /\ ~is_small(size) /\ Indexed(size) =>
         LET larger == {i \in map : FirstOf(i) > size} IN
         IF TreesToTheLeft(map, compute_tree_index(size)) = {} THEN larger = {}
         ELSE Nearest(LargerTree(map, compute_tree_index(size)), larger)
=============================================================================
