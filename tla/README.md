# A TLA+ model of unimem

unimem holds two memory allocators and a reader-writer lock:

- `UniAllocator` (`src/src/cpp/allocators/uni_allocator`), derived from dlmalloc;
- `BuddyAllocator` (`src/src/cpp/allocators/bestfit_allocator`), derived from
  PaddlePaddle's, over a `SystemAllocator`;
- `RWLock` (`src/src/cpp/rw_lock`).

The program's own interface (`unimem.h`) is declared and implemented nowhere;
nothing in the repository calls the allocators but their tests. What follows
models both allocators, the system allocators and the lock, checks them with
TLC, and proves with TLAPS the safety of both allocators, of `BuddyAllocator`
over its system allocators and of `RWLock`, that both allocators keep the promise
of an `Allocator`, that the calls of `BuddyAllocator` are atomic for threads, and
what the size arithmetic returns.

Line numbers below are of the files under `src/src/cpp/`.

## Inventory

| part | state | operations | hard behaviour | what makes it correct |
|---|---|---|---|---|
| size arithmetic (`size_bits.h`, `chunk.h:83-122`, bins and bitmaps of `uni_allocator.h`) | none | padding, alignment, bin indices, searches of bitmaps | wrap-around of `size_t`, boundaries of bins, shifts and masks | least sufficient chunk; bins partition the sizes; the nearest sufficient bin is found |
| `UniAllocator` | `MallocState` (bitmaps, small bins, tree bins, `dv`, `top`) and the chunk headers in the segment | `Alloc` (seven ways to be served), `Free` (five ways to consolidate), `InitOrExpand` | long sequences of legal calls; redundant state (tags, bins, cached sizes); recursion of `Alloc`; an underlying allocator that fails | chunks tile the segment, tags and bins agree with them, no free neighbours, clients' chunks are never touched |
| `BuddyAllocator` | `pool_`, `total_used_`, `total_free_`, `max_chunk_size_`, `fallback_alloc_count_`, under `mutex_` | `Alloc`, `Free`, destructor, `Used` (no lock); `CleanIdle...` (nothing calls them: not modelled) | pool entries keyed by a size that changes; merging on both sides; return of whole segments; threads; a maximum size computed anew | pool = free blocks, linked lists of buddies tile the segments, system memory goes back whole, calls are atomic |
| `MemoryBlock`, `MetadataCache` | a descriptor for each block, in the block (CPU) or in a map (GPU) | `init`, `split`, `merge`, `set_type`, `mark_as_free`; `load`, `save`, `invalidate` | descriptors overwritten or left behind by merges | doubly linked list in address order |
| `SystemAllocator` (CPU, GPU, pinned) | sizes given out (GPU, pinned) | `Alloc`, `Free`, `UseGpu` | failure, fallback index | what is counted is what is held; never above the limit, never below zero; nothing stays behind |
| allocators underneath `UniAllocator` (`posix_alloc.h`, `allocator_backends`) | none | `Alloc`, `Free` | failure | external |
| `RWLock`, `AutoRDLock`, `AutoWRLock` | a `pthread_rwlock_t` | lock, unlock | threads that nest guards, exceptions out of a constructor, upgrades | a writer is alone; a guard owns one lock for its life; only upgrades block |
| `unimem.h`, `device.h`, `memblock.h` | - | declared only | - | - |

Clients call an allocator; `UniAllocator` calls the `Allocator` underneath from
`InitOrExpand`, `BuddyAllocator` calls its `SystemAllocator` from
`SystemAlloc`, `RefillPool`, `Free` and the destructor. There are no callbacks,
no persistence and no messages. `UniAllocator` has no lock (`USE_LOCKS` is
defined nowhere), so its calls do not overlap; `BuddyAllocator` holds `mutex_`
for everything `Alloc` and `Free` read and write.

The hazards of this code, each at its line, with the properties that cover it
or the reason why none does, are in `PROJECT.json`.

## Modules

| module | what it is |
|---|---|
| `ChunkSizes` | the macros and `compute_tree_index`, over a `size_t` of `SizeModulus` values and an `unsigned int` of `UIntModulus` |
| `ChunkSizesProps` | their reference definitions, on a size that only grows |
| `ChunkSizes_lemmas` | lemmas about the macros and the bins of a size |
| `ChunkSizes_proofs` | what padding, bin indices and the search of bitmaps return |
| `Heap` | abstract: what an `Allocator` promises (aligned memory, shared with no live allocation, which stays until freed) |
| `UniAllocator` | `UniAllocator` with its `MallocState` and chunk headers |
| `UniAllocatorProps` | its properties, and the refinement of `Heap` |
| `UniAllocator_proofs` | theorems about `UniAllocator`, which implements `Heap` |
| `BuddyAllocator` | `BuddyAllocator`, `MemoryBlock`, `MetadataCache` |
| `BuddyAllocatorProps` | its properties, and the refinement of `Heap` |
| `BuddyAllocator_proofs` | theorems about `BuddyAllocator`, which implements `Heap` |
| `BuddyCounters_proofs` | the counters of `BuddyAllocator` |
| `BuddySystem` | `BuddyAllocator` composed with each `SystemAllocator`, the recomputed maximum size |
| `BuddySystemProps` | what the two keep true together |
| `BuddySystem_proofs` | theorems about `BuddyAllocator` over a `SystemAllocator` |
| `BuddyThreads` | threads that call one `BuddyAllocator`, a step for each piece of work under `mutex_` |
| `BuddyThreadsProps` | its properties, and the refinement of `BuddyAllocator` |
| `BuddyThreads_proofs` | `BuddyThreads` implements `BuddyAllocator`; what the search of the pool skips and what `Used()` returns during a call |
| `RWLock` | `RWLock` and its two guards on the stacks of threads |
| `RWLockProps` | what guards are for, and who can block whom |
| `RWLock_proofs` | theorems about `RWLock` |
| `MC...` | constants for TLC |

### UniAllocator

`gm` is `*gm_` together with `chunk`, a function from the address of each chunk
of the segment to its header (`size`, `pinuse`, `cinuse`, and `foot` for
`prev_foot`). A header absorbed by a neighbour leaves the function's domain. A
bin is the sequence of its chunks from `bin->fd` on; a tree bin is the ring of
its root. No tree ever has a child: `insert_large_chunk` tests the content of
the empty slot instead of the slot (`uni_allocator.h:279`) and throws, so the
walks over children in `tmalloc_small`, `tmalloc_large` and
`unlink_large_chunk` are modelled by what they do on a root alone. `live` is
what clients hold; `call` is the argument of an `Alloc` that called itself.

`Alloc` has one action for each way to serve a request (`AllocExactBin`,
`AllocLargerBin`, `AllocSmallFromTree`, `AllocLargeFromTree`, `AllocFromDv`,
`AllocFromTop`), guarded in the order of the code by `UsesExactBin` ..
`NoBinServes`, and `InitOrExpand` for none of them; `Free` has one action for
each way it ends, all after `Backward`. A call that throws, fails an assertion
or writes through a null pointer ends in a `status` other than `"ok"`, after
which nothing happens; `Running` restricts the shape invariants to the states
between complete calls.

Clients do not write into memory in the model. In the program, writing all the
bytes asked for overwrites the next header (run `uni_payload`); every other
property says what holds when they do not.

The constructor leaves every field of the `MallocState` indeterminate
(`uni_allocator.h:46`), and `Alloc` reads `smallmap`, `dvsize` and `treemap`
before `top`, on which `InitOrExpand` decides whether to set up bins and `top`.
`FreshStatus` is what may be found: zeros (`"ok"`), as in fresh pages of the
system, or anything else (`"stale"`). On the latter the first `Alloc` takes
bitmaps and pointers for what they are not (`AllocStale`), the `status` is
`"undefined"`, and nothing is claimed from then on: everything below is about
an allocator on zeroed memory. Another thing the runs do not show: `init_top`
writes the head of the trailing chunk (`uni_allocator.h:110-111`), whose size
word begins where the `TOP_FOOT_SIZE` bytes left for it end.

Sizes and flags share a word in the code (`chunk.h:41`) and are two fields
here, which is the same as long as sizes are multiples of 8: `UniConstants` asks
that of the segment's size and address, from which all other sizes follow.

The bins that serve a request are sets in this module (`ExactBins`,
`LargerBins`, `LargeFit`); that the code's shifts and masks find their least
elements is `BinSearchExact` of `ChunkSizesProps`. `compute_tree_index` keeps the
low bits of the size that an `unsigned int` has room for
(`uni_allocator.h:441`): from 2^40 on, in the program, a size gets a bin that says
nothing of it. `Indexed` tells these sizes apart.

### BuddyAllocator

`desc` is what `MetadataCache::load` can return for each block; `pool` is
`pool_` as a set of triples; `held` is the memory obtained from the system
allocator and not yet returned. The system allocator is external: it returns
memory that overlaps nothing given out, with any index of `Indices`, or fails.
`state` records an assertion that failed (`"aborted"`: those of `split`, `merge`
and `mark_as_free`, `memory_block.cc:65`, `106-107`, `133-134`, are
`split_asserts`, `merge_asserts` and `mark_asserts`) or memory handed back to
the system that was not obtained so (`"misfreed"`). `Free` is one action for
huge blocks and one for arena blocks, in which `JoinRight` and `JoinLeft` are
applied in the code's order to a stage of descriptors, pool, block and whether
the assertions held so far. `FindExistChunk` is here the entry the search ends
at; its loop is in `BuddyThreads`.
`SystemAlloc` and `RefillPool` that fail change nothing, so they are no action.
The program's own system allocators report index 1 only for pinned memory;
`SystemAllocator::Alloc` may report any, and `Free` and `FindExistChunk`
handle it, so `BuddyCpu.cfg` uses both. The actions that depend on
`max_chunk_size_` take it as the argument `max`, which is `MaxChunk` in this
module's `Next` and what the allocator computed last in `BuddySystem`.

### BuddySystem

The system allocator, external to `BuddyAllocator`, is here one of the three
of `system_allocator.cc` (`system_allocator`): which index it reports (`IndicesOf`),
what it counts in `given` (`Grants`, `TakesBack`), the limit of pinned memory,
the assertions of its `Free` (`Accepts`, else `Ends`), and how it fails: the
CUDA ones return a null pointer (`AllocFails`), `CPUAllocator` ends the process
in an assertion (`AllocExhausted`). `cudaMalloc` and the like are what
`BuddyAllocator` already has as its environment. `GPUAllocator::Alloc` reports
index 0 alone, so `fallback_alloc_count_` stays 0 in the program.

`max_chunk` is `max_chunk_size_`. A CUDA build computes it anew when the
allocator owns no segment (`NewMax`), and passes the present one to the actions
of `BuddyAllocator`. The model assumes of what `GpuMaxChunkSize()` returns only
that a descriptor fits; the theorems, that it is a whole number of
`min_chunk_size_` (`Geometries`). Since the request was compared with the old maximum
(`buddy_allocator.cc:47`), the new segment may be too small for it, and the
assertion under "make sure the split fits" (`memory_block.cc:63`) fails:
`AllocOutgrown` is that call, `state` is then `"outgrown"`. The run `buddy_system`
reaches it with a request of 300 after the maximum went from 384 back to 256.

`CleanIdleFallBackAlloc` and `CleanIdleNormalAlloc` are not modelled: their calls
(`buddy_allocator.cc:142-149`) and the flag that would guard them are commented
out. A segment with nothing in use therefore stays in the pool until the
destructor returns it; `NothingKept` says that it then finds all of them, at
whatever maximum they were obtained.

### BuddyThreads

`mem` is the memory the calls work on, `pc` and `arg` are each thread's place
and argument, `index`, `it`, `block`, `ret` the locals of the call that holds
`mutex_`. The steps are the statements between which the state is of interest:
the system call, a round of the search, the counters, the split, the mark, each
merge, the insertion. The variables of `BuddyAllocator` keep what the memory
was when `mutex_` was last released; they change in the step that returns, and
`ImplementsAtomic` says that they do so as one of `BuddyAllocator`'s actions.
`ChunkSize` is computed before `mutex_` is taken, from constants. The destructor
is left out: it takes no lock, and C++ has no call overlap it.

### RWLock

`guards` is the stack of guards of each thread; `wants` is the guard whose
constructor is in `Lock()`. `pthread_rwlock_t` is external, with the answers of
glibc for the default attributes: `EDEADLK` for a caller that holds the lock for
writing, which `RDLock` and `WRLock` turn into an `RWLockException` (`Throw`),
readers let in past waiting writers. The exception unwinds scopes one at a time
(`Destroy` while `throws`) until one of them catches it. Threads read `data`
under any guard and write it under an `AutoWRLock`, as the test does.

Names ending in `_<Variant>` are single changes to a definition (a dropped
guard, a forgotten reset), used to show that each property can fail.

## Runs

| run | bounds | what it shows |
|---|---|---|
| `sizes` | 28-bit word, 18-bit `unsigned int`, sizes around all boundaries, all pairs of marked bins | padding, small and tree bins agree with their references; the bitmaps' search finds the nearest sufficient bin; a size from 2^26 on, too large for the `unsigned int`, still gets one of the bins |
| `uni_shape` | one aligned segment of 720 bytes, 5 request sizes, 3 holders | tags, bins, `dv`, `top`, headers and clients' chunks agree in every state; no check of `Free` or of an insertion fails; `top` is split last; live chunks are not touched |
| `uni_clients` | unaligned segment of 1200 bytes, 3 sizes at the boundary of small and large, 4 holders, fairness | chunks tile the segment; best fit for large requests; `Heap` is implemented; freeing everything restores one top chunk; a fitting request returns |
| `buddy_cpu` | two adjacent segments of 576 bytes, of index 0 or 1, sizes 0, 192 and a huge one, 11-bit word | the invariants of blocks, pool and clients; no assertion fails and nothing is misfreed; the destructor returns all; `Heap` is implemented |
| `buddy_system` | three kinds of system allocator; maximum 256 or 384; pinned limit 768; three segments | accounting is exact; every segment has the present maximum; nothing is kept after the destructor; `Heap` is implemented |
| `buddy_threads` | two threads, two adjacent segments of three chunks, a huge size, fairness | calls are atomic; the search skips no sufficient entry; counters are exact; `Used()` covers the arena blocks clients hold at every step; calls return |
| `rwlock` | three threads, guards nested two deep, as often as threads like, two values, fairness | guards own their locks; critical sections are isolated; only an upgrade blocks; who alone can keep a waiter waiting |
| `uni_too_big`, `uni_tree_insert`, `uni_payload`, `buddy_used`, `buddy_huge` | small | each violates what a comment says: see the findings in `PROJECT.json` |

The bounds. A segment of 720 bytes holds three chunks of any of the small
sizes, or two large ones, next to `dv` and `top`, so that a chunk is freed with
every combination of neighbours; requests of 264 and 300 bytes share a tree
bin, so that the root of a request's own bin can be too small; 1 and 232 are
the least chunk and the largest small request. 1200 bytes hold two free large
chunks of one size apart, a ring. A ring of three or more chunks is not
reached. The base of the second is 40, which is not a multiple of 16. In
`buddy_cpu` a segment has room for four chunks of 128 and one descriptor: a
middle block with buddies on both sides, two blocks of different sizes, a
remainder of a whole chunk, and one of exactly a descriptor, which `split`
leaves in its block (`memory_block.cc:68`). Such a block is charged less than it
is credited, so `total_used_` drifts for ever (run `buddy_used`); a word of 11
bits keeps the number of its values finite and still exceeds all memory that
can be in use. All actions of both specifications occur in the passing runs. A
word of 16 bits, in the other runs, is far above every address, so that only
sizes meant to wrap do. In `buddy_system` 768 bytes of pinned memory are three
segments or two huge blocks, and two segments leave too little for a huge block;
three places for memory let a huge block
be held while the maximum grows and shrinks between periods of owning nothing,
and a request of 300 is one that the larger maximum admits and the smaller does
not. In `buddy_threads` a search meets entries of one index that are too small; a
call can wait behind one in any of its steps. Guards nested two deep in three
threads reach a write after a read, a read after a write (refused), and two
upgrades that wait for each other while a third thread comes and goes; a thread
that leaves its scopes may enter new ones, without a bound.

Deadlock is not checked: all systems may really stop, `UniAllocator` after an
exception, `BuddyAllocator` once destroyed, the walk over sizes at the largest,
threads that upgrade their locks.

Fairness.

- `UniAllocator`: weak fairness of the `Alloc` that called itself, because a
  call is straight code of one thread. No client has to call, and nothing has
  to be freed. `FittingAllocReturns` speaks of calls made while nothing is live,
  since the code promises no more.
- `BuddyThreads`: weak fairness of the next step of the thread that holds
  `mutex_`: it is scheduled and the system allocator answers. Nothing is assumed
  of who gets `mutex_`, since `std::mutex` is not fair: a thread may wait for
  ever, so `CallsReturn` speaks of calls that hold it.
- `RWLock`: weak fairness of each thread's `Lock`, `Destroy` and `Catch`: a
  call that can return does, and a thread leaves its scopes. No thread has to
  enter one, and none has to stop entering them. `pthread_rwlock_t` promises no
  more, and glibc lets readers pass a waiting writer: readers that come for ever
  starve it. So `WaitersServed` names what can keep a waiter out: a reader
  waits for ever only if others get the lock for writing, or are refused it in a
  section of their own, again and again; a writer only if other calls of
  `Lock()` return again and again, or if some thread upgrades.

## Proofs

`BuddyAllocator_proofs` proves, for all constants with `BuddyConstants`:

    Invariance            Spec => []IInv
    TypeCorrect           Spec => []TypeOK
    LinksCorrect          Spec => []Links
    BlocksTileCorrect     Spec => []BlocksTile
    PoolCorrect           Spec => []PoolExact
    NoFreeBuddiesCorrect  Spec => []NoFreeBuddies
    LiveCorrect           Spec => []LiveExact
    NoMisuseCorrect       Spec => []NoMisuse
    AtRestCorrect         Spec => []AtRestWhole
    DestroyCorrect        Spec => []DestroyReturnsAll

All assume `RequestsFit`: no request is so large that its size with a
descriptor, rounded up, exceeds the range of `size_t`. Without it they fail
(run `buddy_huge`).

`IInv` strengthens the properties, none of which is inductive alone. `Links`
and `BlocksTile` need to know that every piece of held memory begins with a
block without a left buddy (`HeldStarts`), that pieces do not overlap
(`HeldApart`), that each block lies in one piece and the last block ends it,
and that pieces with arena or free blocks are of the size `max_chunk_size_`
while a huge block is a piece of its own (`Placed`, `Within`): together
`Shape`. `AtRestWhole` follows because two neighbours that are both not in use
would be two free buddies (`Quiet`), so a block of a segment with nothing in
use has no right buddy, and starts and ends with its segment. `Served` ties
clients' pointers to the blocks in use. The parts are operators on descriptors
and held memory, because `Free` passes through intermediate descriptors that no
state shows: `MergeShape`, `RetypeShape`, `SplitShape`, `ObtainShape` and
`ReturnShape` say what each change of descriptors preserves,
`JoinRightStage` and `JoinLeftStage` what each join of `Free` does, and there is
one lemma for each action. The maximum chunk size is an argument of `IInv` and of
the lemmas, any of `Maxima`, so that they serve `BuddySystem` too. `NoMisuse`
rests on all of it: `split_asserts` on the entry chosen being the block's own
size, `merge_asserts` on links and types, `mark_asserts` on clients holding
blocks in use. The same module proves that the allocator implements `Heap`:

    PromiseKept           Spec => ImplementsHeap

from `IInv` (two allocations lie in two blocks, which do not overlap) and the
alignment of every block. It assumes `AlignedConstants` besides: the addresses
of the system allocator, the size of a descriptor and `min_chunk_size_` are
multiples of 32. A block that `split` makes starts a chunk size behind another,
and a chunk size is a multiple of `min_chunk_size_`; hence the last condition.

`BuddyThreads_proofs` proves, for any number of threads:

    Implementation             TSpec => ImplementsAtomic
    ThreadsPromiseKept         TSpec => ImplementsHeap
    UsedCoversArenaCorrect     TSpec => []UsedCoversArena
    SearchFindsFirstCorrect    TSpec => []SearchFindsFirst

Since the variables of `BuddyAllocator` change only when a call returns, the
refinement mapping is the identity, and the work is an invariant that says, for
each place a call can be at, what it has made of `mem` from the memory at which
it took `mutex_` (`TInv`: `AtSystem` to `AtDone` for `Alloc`, `AtReturn` to
`AtFreed` for `Free`). At `find` it says that no entry of the pool that is large
enough has an index below `index`: so the loop of `FindExistChunk`, which skips
entries by raising `index`, ends at the first such entry, or at the end of the
pool with none. `SearchFindsFirst` says so of the states themselves, and of a
refill, whose new entry is then the only one that is large enough
(`RefilledAlone`). `IInv` is used for the types of pool entries, and because `Free`
reads a block's size after it has marked the block. `total_free_` wraps twice
when a segment is added and charged; `WrapTwice` shows that it is as if it had
wrapped once.
`UsedCoversArena` speaks of arena blocks alone: huge blocks are in no counter
(`buddy_allocator.cc:47-49`, `84-92`), so `Used()` leaves them out, whatever
`buddy_allocator.h:86` calls it.
`UsedCoversArenaCorrect` combines `TInv` with the exact counters of the memory at
which the call took `mutex_` (`CInv` below, so it needs `RequestsFit` and
`Geometry`): each place knows what the call has added to or taken from
`total_used_` since. A charge does not wrap it, because after the split the
request would be one more block among those that lie apart below the greatest
`size_t`. `Alive` says that no thread's step is the destructor.

`RWLock_proofs` proves, for any number of threads and any depth of nesting,
however often threads enter their scopes:

    LockInvariance        Spec => []IInv
    GuardsCorrect         Spec => []GuardsOwnLock
    IsolationCorrect      Spec => []SectionsIsolated
    BlockingCorrect       Spec => []OnlyUpgradesBlock

Its `IInv` adds to `GuardsOwnLock` and `SectionsIsolated` that a writer is
alone: neither is inductive without it, since a write by a thread that has the
lock changes what any reader inside would have seen.

`BuddyCounters_proofs` proves that the counters are exact (checked in `buddy_threads`):

    CountersCorrect       Spec => []CountersExact

It assumes `Geometry(MaxChunk)`: `min_chunk_size_` exceeds a descriptor, `max_chunk_size_`
is a multiple of it (both so in the repository's test), and a segment ends below
the greatest `size_t`, as memory does. Without the first two the theorem is
false: a block may keep a remainder that was not charged (run `buddy_used`, and
the segments of `buddy_cpu`).
`CInv` adds to `IInv` that there are finitely many blocks, that every block but
the huge ones is of whole minimal chunks, so that `split` never bails out for
lack of room, and that segments come from the system's addresses: blocks lie
apart below the greatest `size_t`, so the sums never wrap. Sums are
`SumFunction` of the community modules. Its defining equations are not cited
but proved, without induction: among the sets for which one fails there would be
a minimal one, since the subsets of a finite set are well-founded. The same
argument with `LeastElement` stands for induction on numbers.

`BuddySystem_proofs` proves, for every kind of system allocator, every limit and
every set of values of `GpuMaxChunkSize()`:

    SystemInvariance      SSpec /\ system_allocator = Kind => []SInv
    AccountingCorrect     SSpec /\ system_allocator = Kind => []AccountingExact
    SegmentsCorrect       SSpec /\ system_allocator = Kind => []SegmentsWhole
    NothingKeptCorrect    SSpec /\ system_allocator = Kind => []NothingKept
    SystemPromiseKept     SSpec /\ system_allocator = Kind => ImplementsHeap

`BuddySystem` instantiates `BuddyAllocator` once for each kind. `Kind` is an
arbitrary one, so that `P`, the lemmas of `BuddyCounters_proofs` for that
instance, can be cited; the `Same...` lemmas say that both instances speak of the
same actions. They assume `Geometries`: `RequestsFit`, and `Geometry` for every
maximum, so every value of `GpuMaxChunkSize()` is a whole number of
`min_chunk_size_`. Without it `total_used_` and `total_free_`, on which the
recomputed maximum depends, are not exact. `SystemPromiseKept` assumes
`AlignedConstants` besides.

`SInv` holds the invariant of `BuddyAllocator` for the maximum of the moment
(`AllocatorOK`: `CInv(max_chunk)`) and that what the system allocator counts is
the sum of the memory held, all under its own indices (`HeldOK`), and that a
destroyed allocator holds none. `HeldOK` is not inductive alone: that `Free`
gives back as much as was given rests on whole segments and whole huge blocks. A
new maximum needs the old invariant to say that counters at zero mean that no
block is left, huge ones aside, which are in neither pool nor total
(`EmptyAnyMax`): the invariant then holds for every maximum. That the destructor
leaves nothing rests on the same: every piece is then a free segment of
`max_chunk_size_`, hence an entry of the pool. Every step is a call of
`BuddyAllocator` at some maximum or leaves clients and descriptors alone (`Made`),
and so keeps the promise of `Heap`.

`UniAllocator_proofs` proves, for every segment size and set of base addresses
that are multiples of 8, every set of requests, and every width of `size_t` and
`unsigned int`:

    Invariance            Spec => []IInv
    TypesCorrect          Spec => []TypeOK
    SegmentTiled          Spec => []HeapTiled
    TagsAgree             Spec => []BoundaryTags
    AlwaysConsolidated    Spec => []NoAdjacentFree
    BinsAgree             Spec => []BinsExact
    CachesAgree           Spec => []CachedSizes
    ClientsServed         Spec => []LiveExact
    NoCheckFails          Spec => []ChecksPass
    NothingStaysSplit     Spec => []AtRestOneTop
    OthersUntouched       Spec => LiveUntouched
    TopServedLast         SegmentIndexed: Spec => TopIsLastResort
    BestFit               SegmentIndexed: Spec => BestFitLarge
    KeepsPromise          Spec => ImplementsHeap

`IInv` says of a state between complete calls that there is no chunk yet
(`Fresh`), or that the segment is `Whole`: its chunks tile it, tags agree, no
two neighbours are free (`Layout`); `dvsize` and `topsize` are those of free
chunks (`Cached`); the bins hold the other free chunks (`BinsHold`); clients
hold the chunks in use (`Served`). No part is inductive alone: `Free` finds the
chunk before by its tags, so tiling rests on `Tagged`; whether that chunk is
`dv` or has to leave a bin, and which, rests on `Cached` and `BinsHold`; that one
merge on each side is enough rests on `Coalesced`. `Tiled` says besides that
every chunk but the first begins where another ends: without it a tag could stand
for a chunk that is not there. `Served` has `m.bytes < MAX_REQUEST`, since
padding wraps above. The parts are operators on headers and a `MallocState`,
because a call passes through states in which a chunk is in no bin or a header
absorbed: there is a lemma for what each insertion and unlinking does to the
bins, what `Carve` makes of the layout, and what merging backward and forward
does. `replace_dv` never meets a large `dv` because only small requests reach it
when no small or tree chunk could serve them. The action properties are proved
from `IInv`; `BestFitLarge` and `TopIsLastResort` need, besides, that bin indices
grow with sizes (`ChunkSizes_lemmas`), which makes skipping bins right. They do so
only for sizes that an `unsigned int` can index, hence `SegmentIndexed`: in the
program, a segment below 2^40 bytes. In a larger one a chunk of 2^40 bytes lies
in bin 0 and would be taken before a smaller one.
`KeepsPromise` follows since two allocations lie in two chunks, which do not
overlap.

`ChunkSizes_proofs` proves, for every size and every width of `size_t` and `unsigned int`:

    PaddingCorrect        Spec => []RequestsPadded
    TreeBinsCover         Spec => []TreeBinsPartition
    SearchesNearest       Spec => []BinSearchExact

The tree half of the last two is about sizes that are `Indexed`; of the others,
`TreeBinsCover` says that they get one of the bins, which is all that keeps
`treebins` from being indexed out of range.
The first set bit of a word is the least element of a set of indices, so the
proof is about every bitmap, while TLC looks at all with at most two bits set.
Powers of two are a recursive definition; the 32 bins need finitely many, which
are computed one from the other.

Only model-checked:

- liveness (`FittingAllocReturns`, `CallsReturn`, `WaitersServed`): fairness and
  ENABLED are out of the prover's reach.

## Not modelled

- `CleanIdleFallBackAlloc` and `CleanIdleNormalAlloc`, which nothing calls: idle
  segments stay until the destructor, and no bound on them is claimed.
- the hashes that guard a descriptor: no modelled step overwrites one.
- a `BuddyAllocator` destroyed while clients hold memory, or while a call runs.
- two threads in one `UniAllocator`: `USE_LOCKS` is defined nowhere.
- a guard of `RWLock` that is copied, which would unlock twice.
- what a client may do with a `UniAllocator` that threw, and trees with
  children, which no call completes.
- `unimem.h`, `device.h`, `memblock.h`, which nothing implements; the allocators
  underneath `UniAllocator`, the exceptions and debug macros, which have no state.
- `assert` compiled out: `AlignedMalloc` then never allocates.

## Plan

Done: `ChunkSizes`, `Heap`, `UniAllocator`, `BuddyAllocator`, `BuddySystem`,
`BuddyThreads`, `RWLock` with their runs; the proofs of every safety property and
every refinement that a passing run checks. To come:

1. `TreeBin`: pointers of a tree with children, with the intended test of
   `insert_large_chunk`, implementing the rings of `UniAllocator`.
