--------------------------- MODULE BuddyAllocator ---------------------------
(***************************************************************************)
(* BuddyAllocator (bestfit_allocator/buddy_allocator.cc) with the          *)
(* MemoryBlock, MemoryBlock::Desc and MetadataCache it is built on.        *)
(*                                                                         *)
(* desc is what MetadataCache::load can return: the descriptor of every    *)
(* block, kept in the block itself (CPU) or in a map (GPU).  An absorbed   *)
(* block's descriptor is payload of the block that absorbed it on a CPU,   *)
(* and stays in the map as INVALID_CHUNK on a GPU.                         *)
(*                                                                         *)
(* Alloc and Free hold mutex_ for all they read and write (what they do    *)
(* before taking it uses only their argument), so each call is one step.   *)
(* The actions take max_chunk_size_ as an argument, max: it is MaxChunk    *)
(* here, and changes in BuddySystem.                                       *)
(***************************************************************************)
EXTENDS Integers

CONSTANTS
  SizeModulus,   \* number of values of a size_t: 2^64 in the program
  DescSize,      \* sizeof(MemoryBlock::Desc)
  MinChunk,      \* min_chunk_size_
  MaxChunk,      \* max_chunk_size_ given to the constructor
  UseGpu,        \* what system_allocator_->UseGpu() returns
  Indices,       \* indices the system allocator may report: 0, 1 (fallback)
  Addresses,     \* addresses the system allocator may return
  Requests       \* sizes clients pass to Alloc

NULL == 0

ASSUME BuddyConstants ==
  /\ SizeModulus \in Nat \ {0}
  /\ DescSize \in Nat \ {0} /\ MinChunk \in Nat \ {0} /\ MaxChunk \in Nat
  /\ DescSize < MaxChunk /\ MaxChunk < SizeModulus
  /\ UseGpu \in BOOLEAN
  /\ Indices \subseteq Nat
  /\ Addresses \subseteq Nat \ {NULL}
  /\ Requests \subseteq 0 .. SizeModulus - 1

VARIABLES
  desc,         \* descriptors: a function on the addresses of blocks
  pool,         \* pool_: free blocks as <<index, total size, address>>
  total_used,   \* total_used_
  total_free,   \* total_free_
  fallback,     \* fallback_alloc_count_
  held,         \* memory obtained from the system allocator and not returned:
                \* a function from addresses to [size, index]
  live,         \* what clients hold: [mem |-> pointer, bytes |-> size asked for]
  state         \* "up"; "destroyed"; "aborted" by an assertion; "misfreed" when
                \* the system allocator was handed memory it never gave out

vars == <<desc, pool, total_used, total_free, fallback, held, live, state>>

Wrap(n) == n % SizeModulus

-----------------------------------------------------------------------------
(* MetadataCache: save, invalidate.                                         *)

Save(d, b, rec) == [x \in DOMAIN d \cup {b} |-> IF x = b THEN rec ELSE d[x]]
Drop(d, b)      == [x \in DOMAIN d \ {b} |-> d[x]]

Desc(t, i, ts, l, r) ==
  [type |-> t, index |-> i, size |-> ts - DescSize, total_size |-> ts,
   left |-> l, right |-> r]

InvalidDesc ==
  [type |-> "INVALID", index |-> 0, size |-> 0, total_size |-> 0,
   left |-> NULL, right |-> NULL]

set_type(d, b, t) == [d EXCEPT ![b].type = t]

(* Mutant of Leaves: whatever remains is split off, even nothing.           *)
Leaves_Always(d, b, size) == d[b].total_size >= size

(* The assertions of MemoryBlock::split and MemoryBlock::merge.             *)
split_asserts(d, b, size) == d[b].total_size >= size
merge_asserts(d, b, r)    == d[b].type = "FREE" /\ d[r].type = "FREE"

(* MemoryBlock::split: what exceeds size becomes a new free block on the    *)
(* right, unless a descriptor would not fit into it.                        *)
Leaves(d, b, size) == d[b].total_size - size > DescSize

(* Mutant of split: the next block still names b as its left buddy.         *)
split_Left(d, b, size) ==
  LET right == b + size IN
  IF ~Leaves(d, b, size) THEN d
  ELSE Save(Save(d, right, Desc("FREE", d[b].index, d[b].total_size - size, b, d[b].right)),
            b, [d[b] EXCEPT !.right = right, !.size = Wrap(size - DescSize),
                            !.total_size = size])

split(d, b, size) ==
  LET right == b + size
      next  == d[b].right
      both  == Save(Save(d, right, Desc("FREE", d[b].index, d[b].total_size - size, b, next)),
                    b, [d[b] EXCEPT !.right = right,
                                    !.size = Wrap(size - DescSize),
                                    !.total_size = size])
  IN IF ~Leaves(d, b, size) THEN d
     ELSE IF next = NULL THEN both
     ELSE [both EXCEPT ![next].left = right]

(* Mutant of merge: b does not grow.                                        *)
merge_Size(d, b, r) ==
  LET next == d[r].right
      joined == [x \in DOMAIN d |-> IF x = b THEN [d[x] EXCEPT !.right = next]
                                    ELSE IF x = next THEN [d[x] EXCEPT !.left = b]
                                    ELSE d[x]]
  IN IF UseGpu THEN Save(joined, r, InvalidDesc) ELSE Drop(joined, r)

(* MemoryBlock::merge: b absorbs its right buddy r.                         *)
merge(d, b, r) ==
  LET next == d[r].right
      grown == [d[b] EXCEPT !.right = next, !.size = @ + d[r].total_size,
                            !.total_size = @ + d[r].total_size]
      joined == [x \in DOMAIN d |-> IF x = b THEN grown
                                    ELSE IF x = next THEN [d[x] EXCEPT !.left = b]
                                    ELSE d[x]]
  IN IF UseGpu THEN Save(joined, r, InvalidDesc) ELSE Drop(joined, r)

data(b)     == b + DescSize
metadata(m) == m - DescSize

-----------------------------------------------------------------------------
(* The system allocator: it returns memory that overlaps nothing it has     *)
(* already given out, or fails.                                             *)

Apart(p, s, q, t) == p + s <= q \/ q + t <= p

Available(p, size) ==
  /\ p \in Addresses
  /\ \A h \in DOMAIN held : Apart(p, size, h, held[h].size)

Hold(h, p, size, index) == Save(h, p, [size |-> size, index |-> index])

(* system_allocator_->Free is given the pointer, size and index it returned *)
Returnable(h, p, size, index) ==
  p \in DOMAIN h /\ h[p] = [size |-> size, index |-> index]

-----------------------------------------------------------------------------
(* The pool.                                                                *)

Entry(d, b) == <<d[b].index, d[b].total_size, b>>

Precedes(s, t) ==
  \/ s[1] < t[1]
  \/ s[1] = t[1] /\ s[2] < t[2]
  \/ s[1] = t[1] /\ s[2] = t[2] /\ s[3] <= t[3]

(* Mutant of Fits: what a block has for its client is enough for the        *)
(* request with a descriptor.                                               *)
Fits_Payload(size) == {t \in pool : t[2] + DescSize >= size}

Fits(size) == {t \in pool : t[2] >= size}

(* The entry FindExistChunk stops at: the first one, in the order of the    *)
(* set, that is large enough.                                               *)
FindExistChunk(size, t) == t \in Fits(size) /\ \A s \in Fits(size) : Precedes(t, s)

(* align(unaligned_size + sizeof(Desc), min_chunk_size_), in size_t.        *)
align(size) ==
  IF size % MinChunk = 0 THEN size ELSE Wrap(size + (MinChunk - (size % MinChunk)))

(* Mutant of ChunkSize: no room is kept for the descriptor.                 *)
ChunkSize_NoDesc(bytes) == align(bytes)

ChunkSize(bytes) == align(Wrap(bytes + DescSize))

IsHuge(bytes, max) == ChunkSize(bytes) > max

(* An assertion that fails ends the process.                                *)
Asserts(holds) == state' = IF holds THEN "up" ELSE "aborted"

(* SplitToAlloc on the pool entry of block b, in descriptors d and pool p.  *)
SplitDesc(d, b, size) == set_type(split(d, b, size), b, "ARENA")

RemainderEntry(d, b) ==
  IF d[b].right # NULL /\ d[d[b].right].type = "FREE"
  THEN {Entry(d, d[b].right)} ELSE {}

(* Mutant of SplitToAlloc: the block's entry stays in the pool.             *)
SplitToAlloc_Kept(bytes, d, p, b) ==
  LET after == SplitDesc(d, b, ChunkSize(bytes))
  IN /\ Asserts(split_asserts(d, b, ChunkSize(bytes)))
     /\ desc' = after
     /\ pool' = p \cup RemainderEntry(after, b)
     /\ total_used' = Wrap(total_used + ChunkSize(bytes))
     /\ live' = live \cup {[mem |-> data(b), bytes |-> bytes]}

(* The allocation is served by block b of descriptors d, entry t of pool p. *)
SplitToAlloc(bytes, d, p, b) ==
  LET size == ChunkSize(bytes)
      after == SplitDesc(d, b, size)
  IN /\ Asserts(split_asserts(d, b, size))
     /\ desc' = after
     /\ pool' = (p \ {Entry(d, b)}) \cup RemainderEntry(after, b)
     /\ total_used' = Wrap(total_used + size)
     /\ live' = live \cup {[mem |-> data(b), bytes |-> bytes]}

AllocHuge(bytes, max) ==
  /\ state = "up" /\ IsHuge(bytes, max)
  /\ \E p \in Addresses, i \in Indices :
       /\ Available(p, ChunkSize(bytes))
       /\ held' = Hold(held, p, ChunkSize(bytes), i)
       /\ desc' = Save(desc, p, Desc("HUGE", i, ChunkSize(bytes), NULL, NULL))
       /\ live' = live \cup {[mem |-> data(p), bytes |-> bytes]}
  /\ UNCHANGED <<pool, total_used, total_free, fallback, state>>

AllocExisting(bytes, max) ==
  /\ state = "up" /\ ~IsHuge(bytes, max)
  /\ \E t \in pool :
       /\ FindExistChunk(ChunkSize(bytes), t)
       /\ SplitToAlloc(bytes, desc, pool, t[3])
  /\ total_free' = Wrap(total_free - ChunkSize(bytes))
  /\ UNCHANGED <<fallback, held>>

CountFallback(i) == IF UseGpu /\ i = 1 THEN fallback + 1 ELSE fallback

(* RefillPool: a block of the maximum size.  When the system allocator has  *)
(* none, Alloc returns a null pointer and nothing changes.                  *)
AllocRefill(bytes, max) ==
  /\ state = "up" /\ ~IsHuge(bytes, max) /\ Fits(ChunkSize(bytes)) = {}
  /\ \E p \in Addresses, i \in Indices :
       LET fresh == Save(desc, p, Desc("FREE", i, max, NULL, NULL)) IN
       /\ Available(p, max)
       /\ held' = Hold(held, p, max, i)
       /\ fallback' = CountFallback(i)
       /\ SplitToAlloc(bytes, fresh, pool \cup {Entry(fresh, p)}, p)
  /\ total_free' = Wrap((total_free + max) - ChunkSize(bytes))

-----------------------------------------------------------------------------
(* Mutant of FreeHuge: the system allocator is not called.                  *)
FreeHuge_Leak(m) ==
  LET b == metadata(m.mem) IN
  /\ state = "up" /\ desc[b].type = "HUGE"
  /\ desc' = Drop(desc, b)
  /\ live' = live \ {m}
  /\ UNCHANGED <<pool, total_used, total_free, fallback, held, state>>

FreeHuge(m) ==
  LET b == metadata(m.mem) IN
  /\ state = "up" /\ desc[b].type = "HUGE"
  /\ IF Returnable(held, b, desc[b].total_size, desc[b].index)
     THEN held' = Drop(held, b) /\ state' = state
     ELSE held' = held /\ state' = "misfreed"
  /\ desc' = Drop(desc, b)
  /\ live' = live \ {m}
  /\ UNCHANGED <<pool, total_used, total_free, fallback>>

(* The right buddy leaves the pool and joins b, then b joins its left one;  *)
(* a stage is the descriptors, the pool, the block they leave, and whether  *)
(* the assertions of merge held.                                            *)
Stage(d, p, b, ok) == [desc |-> d, pool |-> p, block |-> b, ok |-> ok]

(* Mutants: buddies are never joined; the left buddy keeps its entry.       *)
JoinRight_Never(s) == s
JoinLeft_Never(s)  == s
JoinLeft_Stale(s) ==
  LET l == s.desc[s.block].left IN
  IF l # NULL /\ s.desc[l].type = "FREE"
  THEN Stage(merge(s.desc, l, s.block), s.pool, l, s.ok /\ merge_asserts(s.desc, l, s.block))
  ELSE s

JoinRight(s) ==
  LET r == s.desc[s.block].right IN
  IF r # NULL /\ s.desc[r].type = "FREE"
  THEN Stage(merge(s.desc, s.block, r), s.pool \ {Entry(s.desc, r)}, s.block,
             s.ok /\ merge_asserts(s.desc, s.block, r))
  ELSE s

JoinLeft(s) ==
  LET l == s.desc[s.block].left IN
  IF l # NULL /\ s.desc[l].type = "FREE"
  THEN Stage(merge(s.desc, l, s.block), s.pool \ {Entry(s.desc, l)}, l,
             s.ok /\ merge_asserts(s.desc, l, s.block))
  ELSE s

mark_asserts(d, b) == d[b].type \notin {"FREE", "INVALID"}

FreeArena(m) ==
  LET b == metadata(m.mem)
      joined == JoinLeft(JoinRight(
                  Stage(set_type(desc, b, "FREE"), pool, b, mark_asserts(desc, b))))
  IN /\ state = "up" /\ desc[b].type # "HUGE"
     /\ Asserts(joined.ok)
     /\ desc' = joined.desc
     /\ pool' = joined.pool \cup {Entry(joined.desc, joined.block)}
     /\ total_used' = Wrap(total_used - desc[b].total_size)
     /\ total_free' = Wrap(total_free + desc[b].total_size)
     /\ live' = live \ {m}
     /\ UNCHANGED <<fallback, held>>

(* The destructor returns every block of the pool as a block of the maximum *)
(* size.  A client destroys the allocator when it holds nothing any more.   *)
Destroy(max) ==
  /\ state = "up" /\ live = {}
  /\ state' = IF \A t \in pool : Returnable(held, t[3], max, desc[t[3]].index)
              THEN "destroyed" ELSE "misfreed"
  /\ held' = [h \in DOMAIN held \ {t[3] : t \in pool} |-> held[h]]
  /\ desc' = [b \in DOMAIN desc \ {t[3] : t \in pool} |-> desc[b]]
  /\ pool' = {}
  /\ UNCHANGED <<total_used, total_free, fallback, live>>

-----------------------------------------------------------------------------
Init ==
  /\ desc = [b \in {} |-> InvalidDesc]
  /\ pool = {}
  /\ total_used = 0 /\ total_free = 0 /\ fallback = 0
  /\ held = [h \in {} |-> [size |-> 0, index |-> 0]]
  /\ live = {}
  /\ state = "up"

Alloc(bytes, max) ==
  AllocHuge(bytes, max) \/ AllocExisting(bytes, max) \/ AllocRefill(bytes, max)

Next ==
  \/ \E bytes \in Requests : Alloc(bytes, MaxChunk)
  \/ \E m \in live : FreeHuge(m)
  \/ \E m \in live : FreeArena(m)
  \/ Destroy(MaxChunk)

Spec == Init /\ [][Next]_vars
=============================================================================
