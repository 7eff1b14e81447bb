------------------------ MODULE BuddyAllocatorProps -------------------------
(***************************************************************************)
(* What makes BuddyAllocator correct: the lists of buddies that cut every  *)
(* segment, the agreement of pool, descriptors and counters, and what is   *)
(* handed back to the system allocator.                                    *)
(***************************************************************************)
EXTENDS BuddyAllocator, FiniteSetsExt

Blocks == {b \in DOMAIN desc : desc[b].type # "INVALID"}
End(b) == b + desc[b].total_size

Of(t) == {b \in DOMAIN desc : desc[b].type = t}

Descriptor ==
  [type : {"FREE", "ARENA", "HUGE", "INVALID"}, index : Nat, size : Nat,
   total_size : Nat, left : Nat, right : Nat]

(* Descriptors, pool, counters and clients' pointers have the types of      *)
(* their declarations (memory_block.h, buddy_allocator.h:86-105); in        *)
(* particular no size ever goes below zero.                                 *)
TypeOK ==
  /\ DOMAIN desc \subseteq Nat \ {NULL}
  /\ \A b \in DOMAIN desc : desc[b] \in Descriptor
  /\ pool \subseteq Nat \X Nat \X Nat
  /\ total_used \in 0 .. SizeModulus - 1
  /\ total_free \in 0 .. SizeModulus - 1
  /\ fallback \in Nat
  /\ DOMAIN held \subseteq Nat \ {NULL}
  /\ \A h \in DOMAIN held : held[h] \in [size : Nat, index : Nat]
  /\ live \subseteq [mem : Nat, bytes : Requests]
  /\ state \in {"up", "destroyed", "aborted", "misfreed"}

(* The buddies of a segment form one doubly linked list in address order    *)
(* without gaps: a block ends where its right buddy starts, and the links   *)
(* of both agree (memory_block.cc:62-129).  A link to memory that was       *)
(* merged away or returned would be followed by the next Free.              *)
Links ==
  \A b \in Blocks :
    /\ desc[b].right # NULL =>
         /\ desc[b].right \in Blocks /\ desc[b].right = End(b)
         /\ desc[desc[b].right].left = b
         /\ desc[desc[b].right].index = desc[b].index
    /\ desc[b].left # NULL =>
         desc[b].left \in Blocks /\ desc[desc[b].left].right = b

(* Blocks have room for their descriptor, do not overlap, and cover each    *)
(* piece of system memory from its first byte to its last.                  *)
BlocksTile ==
  /\ \A a, b \in Blocks : a < b => End(a) <= b
  /\ \A b \in Blocks :
       /\ desc[b].total_size >= DescSize
       /\ desc[b].size = desc[b].total_size - DescSize
       /\ desc[b].left = NULL => b \in DOMAIN held
       /\ \E h \in DOMAIN held :
            /\ held[h].index = desc[b].index
            /\ h <= b /\ End(b) <= h + held[h].size
            /\ desc[b].right = NULL => End(b) = h + held[h].size

(* The pool holds exactly the free blocks, under their present size         *)
(* (buddy_allocator.h:96 "Only store free chunk memory in pool"): an entry  *)
(* under an old size could never be erased again.                           *)
PoolExact == pool = {Entry(desc, b) : b \in Of("FREE")}

(* Free merges with both buddies: no two neighbours are free.               *)
NoFreeBuddies ==
  \A b \in Of("FREE") : desc[b].right # NULL => desc[desc[b].right].type = "ARENA"

(* Clients hold exactly the arena and huge blocks, one pointer each, and    *)
(* every request fits between its pointer and the end of its block.         *)
LiveExact ==
  /\ {metadata(m.mem) : m \in live} = Of("ARENA") \cup Of("HUGE")
  /\ \A m, n \in live : m.mem = n.mem => m = n
  /\ \A m \in live : m.mem + m.bytes <= End(metadata(m.mem))

TotalSize(S) == SumFunction([b \in S |-> desc[b].total_size])

(* Every counter agrees with the blocks: total_free_ and total_used_ are    *)
(* the sizes of the free and the arena blocks (buddy_allocator.h:86-87).    *)
CountersExact ==
  state = "up" => /\ total_used = TotalSize(Of("ARENA"))
                  /\ total_free = TotalSize(Of("FREE"))

(* No assertion of split, merge or mark_as_free fails                       *)
(* (memory_block.cc:65, 106-107, 133-134), and the system allocator is      *)
(* given back only what it gave out, whole, with its index                  *)
(* (buddy_allocator.cc:24, 86).                                             *)
NoMisuse == state \in {"up", "destroyed"}

(* When every allocation was handed back, only whole segments are left.     *)
AtRestWhole ==
  state = "up" /\ live = {} =>
    /\ Blocks = DOMAIN held
    /\ \A h \in DOMAIN held : desc[h].total_size = held[h].size

(* The destructor leaves nothing of the system's memory behind.             *)
DestroyReturnsAll == state = "destroyed" => DOMAIN held = {}

(* The allocator keeps the promise of an Allocator.  Pointers are as        *)
(* aligned as what AlignedMalloc returns (system_allocator.cc:48), provided *)
(* min_chunk_size_ is a multiple of that.                                   *)
SystemAlignment == 32
Promise == INSTANCE Heap WITH Alignment <- SystemAlignment
ImplementsHeap == Promise!Spec

-----------------------------------------------------------------------------
(* Claims of the source that the code does not satisfy for some sizes.      *)

(* total_used_ is "the total size of used memory" (buddy_allocator.h:86):   *)
(* of the arena blocks at least.                                            *)
UsedIsLiveMemory == state = "up" => total_used = TotalSize(Of("ARENA"))

(* "if the allocation is huge, send directly to the system allocator"       *)
(* (buddy_allocator.cc:46): what exceeds max_chunk_size_ is a huge block.   *)
HugeGoesToSystem ==
  \A m \in live : m.bytes > MaxChunk => metadata(m.mem) \in Of("HUGE")
=============================================================================
