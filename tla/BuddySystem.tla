---------------------------- MODULE BuddySystem -----------------------------
(***************************************************************************)
(* BuddyAllocator over a SystemAllocator (system_allocator.cc): which      *)
(* index each implementation reports, what it counts, its limit, and how   *)
(* its failures end; and the maximum chunk size a CUDA build computes anew.*)
(*                                                                         *)
(* BuddyAllocator is instantiated for each kind of system allocator, and   *)
(* its calls take the maximum chunk size of the moment.                    *)
(***************************************************************************)
EXTENDS Integers, FiniteSets

CONSTANTS
  SizeModulus, DescSize, MinChunk, Addresses, Requests,   \* see BuddyAllocator
  InitialMax,    \* max_chunk_size_ given to the constructor
  GpuMaxSizes,   \* values platform::GpuMaxChunkSize() may return
  PinnedLimit,   \* platform::CUDAPinnedMaxAllocSize()
  Kinds          \* implementations of SystemAllocator: a subset of AllKinds

AllKinds == {"cpu", "gpu", "pinned"}

MaxSizes == {InitialMax} \cup GpuMaxSizes

ASSUME BuddySystemConstants ==
  /\ Kinds \subseteq AllKinds
  /\ PinnedLimit \in Nat
  /\ SizeModulus \in Nat \ {0}
  /\ DescSize \in Nat \ {0} /\ MinChunk \in Nat \ {0}
  /\ \A max \in MaxSizes : max \in Nat /\ DescSize < max /\ max < SizeModulus
  /\ Addresses \subseteq Nat \ {0}
  /\ Requests \subseteq 0 .. SizeModulus - 1

VARIABLES
  desc, pool, total_used, total_free, fallback, held, live, state,
                 \* see BuddyAllocator; state may also be "oom", the process
                 \* was ended by AlignedMalloc, or "outgrown", by split
  system_allocator,   \* system_allocator_: its kind
  max_chunk,     \* max_chunk_size_
  given          \* gpu_alloc_size_ or cuda_pinnd_alloc_size_

allocator == <<desc, pool, total_used, total_free, fallback, held, live, state>>
system    == <<system_allocator, max_chunk, given>>
svars     == <<allocator, system>>

UsesGpu(kind)   == kind = "gpu"
IndicesOf(kind) == IF kind = "pinned" THEN {1} ELSE {0}
Counts(kind)    == kind \in {"gpu", "pinned"}

Wrap(n) == n % SizeModulus

B(kind) ==
  INSTANCE BuddyAllocator WITH MaxChunk <- InitialMax, UseGpu <- UsesGpu(kind),
                               Indices <- IndicesOf(kind)

Now(max, kind) == state = "up" /\ max = max_chunk /\ kind = system_allocator

-----------------------------------------------------------------------------
(* SystemAllocator::Alloc and Free.                                         *)

(* Mutant of Grants: each call is compared with the limit alone.            *)
Grants_PerCall(kind, size) ==
  /\ kind = "pinned" => size <= PinnedLimit
  /\ given' = IF Counts(kind) THEN given + size ELSE given

(* Alloc returns memory of this size.                                       *)
Grants(kind, size) ==
  /\ kind = "pinned" => size <= PinnedLimit - given
  /\ given' = IF Counts(kind) THEN given + size ELSE given

(* Free's assertions: the index is the allocator's own, and no more is      *)
(* returned than was given.                                                 *)
Accepts(kind, sizes, index) ==
  CASE kind = "gpu"    -> index = 0 /\ given >= sizes
    [] kind = "pinned" -> index = 1 /\ given >= sizes
    [] OTHER           -> TRUE

TakesBack(kind, size) == given' = IF Counts(kind) THEN given - size ELSE given

(* An assertion ends the process.                                           *)
Ends(how) == state' = how /\ UNCHANGED <<desc, pool, total_used, total_free,
                                         fallback, held, live, system>>

-----------------------------------------------------------------------------
(* Alloc.                                                                   *)

AllocHuge(bytes) ==
  \E max \in MaxSizes, kind \in Kinds :
    /\ Now(max, kind)
    /\ B(kind)!AllocHuge(bytes, max)
    /\ Grants(kind, B(kind)!ChunkSize(bytes))
    /\ UNCHANGED <<system_allocator, max_chunk>>

AllocExisting(bytes) ==
  \E max \in MaxSizes, kind \in Kinds :
    /\ Now(max, kind)
    /\ B(kind)!AllocExisting(bytes, max)
    /\ UNCHANGED system

(* Mutant of NewMax: the size is computed again at every refill.            *)
NewMax_Always(kind, new) == IF UsesGpu(kind) THEN new \in GpuMaxSizes ELSE new = max_chunk

(* RefillPool of a CUDA build: while the allocator owns no chunk, the       *)
(* maximum size is computed again.                                          *)
NewMax(kind, new) ==
  IF UsesGpu(kind) /\ Wrap(total_used + total_free) = 0 THEN new \in GpuMaxSizes
                                                       ELSE new = max_chunk

NeedsRefill(max, kind, bytes) ==
  /\ ~B(kind)!IsHuge(bytes, max)
  /\ B(kind)!Fits(B(kind)!ChunkSize(bytes)) = {}

AllocRefill(bytes) ==
  \E max, new \in MaxSizes, kind \in Kinds :
    /\ Now(max, kind) /\ NeedsRefill(max, kind, bytes)
    /\ NewMax(kind, new)
    /\ B(kind)!AllocRefill(bytes, new)
    /\ Grants(kind, new)
    /\ max_chunk' = new
    /\ UNCHANGED system_allocator

(* The size of the request was compared with the old maximum, the segment   *)
(* has the new one: when that is too small, the assertion of split fails.   *)
AllocOutgrown(bytes) ==
  \E max, new \in MaxSizes, kind \in Kinds :
    /\ Now(max, kind) /\ NeedsRefill(max, kind, bytes)
    /\ NewMax(kind, new) /\ B(kind)!IsHuge(bytes, new)
    /\ \E p \in Addresses : B(kind)!Available(p, new)
    /\ Ends("outgrown")

(* The system allocator returns a null pointer and so does Alloc: all that  *)
(* may have changed is the maximum size.                                    *)
AllocFails(bytes) ==
  \E max, new \in MaxSizes, kind \in Kinds \ {"cpu"} :
    /\ Now(max, kind) /\ NeedsRefill(max, kind, bytes)
    /\ NewMax(kind, new)
    /\ max_chunk' = new
    /\ UNCHANGED <<allocator, system_allocator, given>>

(* CPUAllocator never returns a null pointer: AlignedMalloc asserts.        *)
AllocExhausted(bytes) ==
  \E max \in MaxSizes :
    /\ Now(max, "cpu")
    /\ B("cpu")!IsHuge(bytes, max) \/ NeedsRefill(max, "cpu", bytes)
    /\ Ends("oom")

-----------------------------------------------------------------------------
(* Free.                                                                    *)

FreeHuge(m) ==
  \E max \in MaxSizes, kind \in Kinds :
    LET d == desc[B(kind)!metadata(m.mem)] IN
    /\ Now(max, kind)
    /\ d.type = "HUGE"
    /\ IF Accepts(kind, d.total_size, d.index)
       THEN /\ B(kind)!FreeHuge(m)
            /\ TakesBack(kind, d.total_size)
            /\ UNCHANGED <<system_allocator, max_chunk>>
       ELSE Ends("aborted")

FreeArena(m) ==
  \E max \in MaxSizes, kind \in Kinds :
    /\ Now(max, kind)
    /\ B(kind)!FreeArena(m)
    /\ UNCHANGED system

(* The destructor gives every entry of the pool to Free as a segment of the *)
(* maximum size.                                                            *)
Destroy ==
  \E max \in MaxSizes, kind \in Kinds :
    LET returned == max * Cardinality(pool) IN
    /\ Now(max, kind) /\ live = {}
    /\ IF \A t \in pool : Accepts(kind, returned, desc[t[3]].index)
       THEN B(kind)!Destroy(max) /\ TakesBack(kind, returned)
            /\ UNCHANGED <<system_allocator, max_chunk>>
       ELSE Ends("aborted")

-----------------------------------------------------------------------------
SInit ==
  /\ system_allocator \in Kinds
  /\ max_chunk = InitialMax
  /\ given = 0
  /\ B("cpu")!Init

SNext ==
  \/ \E bytes \in Requests : AllocHuge(bytes)
  \/ \E bytes \in Requests : AllocExisting(bytes)
  \/ \E bytes \in Requests : AllocRefill(bytes)
  \/ \E bytes \in Requests : AllocOutgrown(bytes)
  \/ \E bytes \in Requests : AllocFails(bytes)
  \/ \E bytes \in Requests : AllocExhausted(bytes)
  \/ \E m \in live : FreeHuge(m)
  \/ \E m \in live : FreeArena(m)
  \/ Destroy

SSpec == SInit /\ [][SNext]_svars
=============================================================================
