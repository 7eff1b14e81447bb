------------------------- MODULE BuddySystem_proofs -------------------------
(***************************************************************************)
(* Proofs about BuddyAllocator over a SystemAllocator, for an arbitrary    *)
(* kind of system allocator, Kind, and every choice of the other           *)
(* constants.  Kind is a constant of its own because BuddySystem           *)
(* instantiates BuddyAllocator for each kind: P is that instance together  *)
(* with its lemmas, which hold whatever the maximum chunk size is.         *)
(***************************************************************************)
EXTENDS BuddySystemProps, FiniteSetTheorems, TLAPS

CONSTANT Kind   \* a kind of system allocator

P == INSTANCE BuddyCounters_proofs WITH MaxChunk <- InitialMax, UseGpu <- UsesGpu(Kind),
                                        Indices <- IndicesOf(Kind)

(* Every maximum size is a number of whole minimal chunks, as BuddyCounters *)
(* proofs ask, and no size of a request leaves the range of size_t.         *)
Geometries == P!RequestsFit /\ \A max \in MaxSizes : P!Geometry(max)

-----------------------------------------------------------------------------
(* The constants of the instance, and its calls.                            *)

LEMMA Constants == P!BuddyConstants
<1>1. IndicesOf(Kind) \subseteq Nat
  BY DEF IndicesOf
<1>2. UsesGpu(Kind) \in BOOLEAN
  BY DEF UsesGpu
<1>3. InitialMax \in MaxSizes
  BY DEF MaxSizes
<1> QED BY <1>1, <1>2, <1>3, BuddySystemConstants DEF P!BuddyConstants, P!NULL

LEMMA SizesAreMaxima ==
  ASSUME NEW max \in MaxSizes PROVE max \in P!Maxima /\ max \in Nat
  BY BuddySystemConstants DEF P!Maxima

LEMMA SameChunkSize ==
  \A bytes, max : /\ B(Kind)!ChunkSize(bytes) = P!ChunkSize(bytes)
                  /\ B(Kind)!IsHuge(bytes, max) = P!IsHuge(bytes, max)
  BY DEF B!ChunkSize, B!IsHuge, B!align, B!Wrap, P!ChunkSize, P!IsHuge, P!align, P!Wrap

LEMMA SameHold ==
  /\ \A p, size : B(Kind)!Available(p, size) = P!Available(p, size)
  /\ \A h, p, size, i : B(Kind)!Hold(h, p, size, i) = P!Hold(h, p, size, i)
  /\ \A h, p, size, i : B(Kind)!Returnable(h, p, size, i) = P!Returnable(h, p, size, i)
  /\ \A h, p : B(Kind)!Drop(h, p) = P!Drop(h, p)
  /\ \A mem : B(Kind)!metadata(mem) = P!metadata(mem)
  BY DEF B!Available, B!Apart, B!Hold, B!Save, B!Returnable, B!Drop, B!metadata,
         P!Available, P!Apart, P!Hold, P!Save, P!Returnable, P!Drop, P!metadata

LEMMA SameSplit ==
  /\ \A d, b, size : B(Kind)!SplitDesc(d, b, size) = P!SplitDesc(d, b, size)
  /\ \A d, b : B(Kind)!RemainderEntry(d, b) = P!RemainderEntry(d, b)
  /\ \A d, b : B(Kind)!Entry(d, b) = P!Entry(d, b)
  /\ \A b : B(Kind)!data(b) = P!data(b)
  /\ \A n : B(Kind)!Wrap(n) = P!Wrap(n)
  /\ \A size : B(Kind)!Fits(size) = P!Fits(size)
  /\ \A d, b, rec : B(Kind)!Save(d, b, rec) = P!Save(d, b, rec)
  /\ \A t, i, ts, l, r : B(Kind)!Desc(t, i, ts, l, r) = P!Desc(t, i, ts, l, r)
  /\ \A i : B(Kind)!CountFallback(i) = P!CountFallback(i)
  BY DEF B!SplitDesc, B!set_type, B!split, B!Leaves, B!Save, B!Desc, B!NULL,
         B!RemainderEntry, B!Entry, B!data, B!Wrap, B!Fits, B!CountFallback,
         P!SplitDesc, P!set_type, P!split, P!Leaves, P!Save, P!Desc, P!NULL,
         P!RemainderEntry, P!Entry, P!data, P!Wrap, P!Fits, P!CountFallback

LEMMA SameSplitToAlloc ==
  ASSUME NEW bytes, NEW d, NEW p, NEW b
  PROVE  B(Kind)!SplitToAlloc(bytes, d, p, b) <=> P!SplitToAlloc(bytes, d, p, b)
  BY SameChunkSize, SameSplit
     DEF B!SplitToAlloc, B!Asserts, B!split_asserts, P!SplitToAlloc, P!Asserts, P!split_asserts

LEMMA SameAllocHuge ==
  ASSUME NEW bytes, NEW max
  PROVE  B(Kind)!AllocHuge(bytes, max) => P!AllocHuge(bytes, max)
  BY SameChunkSize, SameHold, SameSplit DEF B!AllocHuge, P!AllocHuge, B!NULL, P!NULL

LEMMA SameAllocExisting ==
  ASSUME NEW bytes, NEW max
  PROVE  B(Kind)!AllocExisting(bytes, max) => P!AllocExisting(bytes, max)
  BY SameChunkSize, SameHold, SameSplit, SameSplitToAlloc
     DEF B!AllocExisting, P!AllocExisting, B!FindExistChunk, P!FindExistChunk, B!Precedes, P!Precedes

LEMMA SameAllocRefill ==
  ASSUME NEW bytes, NEW max
  PROVE  B(Kind)!AllocRefill(bytes, max) => P!AllocRefill(bytes, max)
  BY SameChunkSize, SameHold, SameSplit, SameSplitToAlloc
     DEF B!AllocRefill, P!AllocRefill, B!NULL, P!NULL

LEMMA SameFreeHuge ==
  ASSUME NEW m PROVE B(Kind)!FreeHuge(m) => P!FreeHuge(m)
  BY DEF B!FreeHuge, B!metadata, B!Returnable, B!Drop,
         P!FreeHuge, P!metadata, P!Returnable, P!Drop

LEMMA SameMerge ==
  ASSUME NEW d, NEW b, NEW r
  PROVE  B(Kind)!merge(d, b, r) = P!merge(d, b, r)
  BY DEF B!merge, B!Save, B!Drop, B!InvalidDesc, B!NULL,
         P!merge, P!Save, P!Drop, P!InvalidDesc, P!NULL

LEMMA SameJoins ==
  /\ \A s : B(Kind)!JoinRight(s) = P!JoinRight(s) /\ B(Kind)!JoinLeft(s) = P!JoinLeft(s)
  /\ \A d, p, b, ok : B(Kind)!Stage(d, p, b, ok) = P!Stage(d, p, b, ok)
  /\ \A d, b, t : B(Kind)!set_type(d, b, t) = P!set_type(d, b, t)
<1>1. /\ \A d, p, b, ok : B(Kind)!Stage(d, p, b, ok) = P!Stage(d, p, b, ok)
      /\ \A d, b, t : B(Kind)!set_type(d, b, t) = P!set_type(d, b, t)
      /\ \A d, b, r : B(Kind)!merge_asserts(d, b, r) = P!merge_asserts(d, b, r)
  BY DEF B!Stage, P!Stage, B!set_type, P!set_type, B!merge_asserts, P!merge_asserts
<1>2. \A s : B(Kind)!JoinRight(s) = P!JoinRight(s)
  BY <1>1, SameMerge, SameSplit DEF B!JoinRight, P!JoinRight, B!NULL, P!NULL
<1>3. \A s : B(Kind)!JoinLeft(s) = P!JoinLeft(s)
  BY <1>1, SameMerge, SameSplit DEF B!JoinLeft, P!JoinLeft, B!NULL, P!NULL
<1> QED BY <1>1, <1>2, <1>3

LEMMA SameFreeArena ==
  ASSUME NEW m PROVE B(Kind)!FreeArena(m) => P!FreeArena(m)
  BY SameJoins, SameSplit, SameHold
     DEF B!FreeArena, B!Asserts, B!mark_asserts, P!FreeArena, P!Asserts, P!mark_asserts

LEMMA SameDestroy ==
  ASSUME NEW max PROVE B(Kind)!Destroy(max) => P!Destroy(max)
  BY DEF B!Destroy, B!Returnable, P!Destroy, P!Returnable

LEMMA SameInit == B("cpu")!Init => P!Init
  BY DEF B!Init, B!InvalidDesc, B!NULL, P!Init, P!InvalidDesc, P!NULL

(* The instance has its own copy of the operators of the libraries.         *)
LEMMA SameFinite == \A S : P!IsFiniteSet(S) <=> IsFiniteSet(S)
  BY DEF P!IsFiniteSet, IsFiniteSet

LEMMA SameCardinality == \A S : P!Cardinality(S) = Cardinality(S)
  BY SameFinite DEF P!Cardinality, Cardinality

LEMMA SameSum == \A f : P!SumFunction(f) = SumFunction(f)
  BY DEF P!SumFunction, P!SumFunctionOnSet, P!FoldFunctionOnSet, P!MapThenFoldSet,
         SumFunction, SumFunctionOnSet, FoldFunctionOnSet, MapThenFoldSet

-----------------------------------------------------------------------------
(* The invariant.                                                           *)

(* The system allocator counts the memory held, all under its own indices.  *)
HeldOK ==
  /\ P!HeldTyped(held) /\ IsFiniteSet(DOMAIN held)
  /\ \A p \in DOMAIN held : held[p].index \in IndicesOf(Kind)
  /\ given \in Nat
  /\ given = IF Counts(Kind) THEN P!HeldSum(held) ELSE 0
  /\ Kind = "pinned" => given <= PinnedLimit

(* The invariant of BuddyAllocator for the maximum size of the moment.      *)
AllocatorOK ==
  state \in {"up", "destroyed"} => \A m \in MaxSizes : m = max_chunk => P!CInv(m)

SInv ==
  /\ system_allocator = Kind /\ Kind \in Kinds
  /\ max_chunk \in MaxSizes
  /\ state \in {"up", "destroyed", "oom", "outgrown"}
  /\ HeldOK /\ AllocatorOK
  /\ state = "destroyed" => DOMAIN held = {}

(* A step is a call of BuddyAllocator at some maximum size, or leaves the   *)
(* descriptors and the clients' allocations as they are.                    *)
Made ==
  \/ \E max \in P!Maxima : P!CInv(max) /\ P!Call(max)
  \/ UNCHANGED <<desc, live>>

(* What a call finds.                                                       *)
LEMMA NowIs ==
  ASSUME Geometries, SInv, NEW max \in MaxSizes, NEW kind, Now(max, kind)
  PROVE  /\ kind = Kind /\ max = max_chunk /\ state = "up"
         /\ max \in P!Maxima /\ P!Geometry(max) /\ P!CInv(max) /\ P!RequestsFit
  BY SizesAreMaxima DEF Now, SInv, AllocatorOK, Geometries

(* One piece of memory more, and one less.                                  *)
LEMMA HoldsMore ==
  ASSUME HeldOK, NEW p \in Addresses, p \notin DOMAIN held, NEW size \in Nat,
         NEW i \in IndicesOf(Kind), held' = P!Hold(held, p, size, i), Grants(Kind, size)
  PROVE  HeldOK'
<1>1. DOMAIN held' = DOMAIN held \cup {p} /\ held'[p] = [size |-> size, index |-> i]
      /\ \A q \in DOMAIN held : held'[q] = held[q]
  BY DEF P!Hold, P!Save
<1>2. P!HeldTyped(held')
  <2>1. p \in Nat \ {0} /\ i \in Nat
    BY BuddySystemConstants DEF IndicesOf
  <2> QED BY <1>1, <2>1 DEF HeldOK, P!HeldTyped, P!NULL
<1>3. IsFiniteSet(DOMAIN held')
  BY <1>1, FS_AddElement DEF HeldOK
<1>4. P!HeldSum(held') = P!HeldSum(held) + size
  BY Constants, SameFinite, P!HeldMore DEF HeldOK
<1>5. given' = IF Counts(Kind) THEN given + size ELSE given
  BY DEF Grants
<1>6. Kind = "pinned" => given' <= PinnedLimit
  BY <1>5, BuddySystemConstants DEF Grants, HeldOK, Counts
<1> QED BY <1>1, <1>2, <1>3, <1>4, <1>5, <1>6 DEF HeldOK

LEMMA HoldsLess ==
  ASSUME HeldOK, NEW p \in DOMAIN held
  PROVE  /\ Accepts(Kind, held[p].size, held[p].index)
         /\ held' = P!Drop(held, p) /\ TakesBack(Kind, held[p].size) => HeldOK'
<1>1. /\ P!HeldSum(P!Drop(held, p)) = P!HeldSum(held) - held[p].size
      /\ held[p].size \in Nat /\ P!HeldSum(held) >= held[p].size
  BY Constants, SameFinite, P!HeldLess DEF HeldOK
<1>2. Accepts(Kind, held[p].size, held[p].index)
  BY <1>1 DEF Accepts, HeldOK, Counts, IndicesOf
<1>3. ASSUME held' = P!Drop(held, p), TakesBack(Kind, held[p].size)
      PROVE  HeldOK'
  <2>1. DOMAIN held' = DOMAIN held \ {p} /\ \A q \in DOMAIN held' : held'[q] = held[q]
    BY <1>3 DEF P!Drop
  <2>2. P!HeldTyped(held') /\ \A q \in DOMAIN held' : held'[q].index \in IndicesOf(Kind)
    BY <2>1 DEF HeldOK, P!HeldTyped
  <2>3. IsFiniteSet(DOMAIN held')
    BY <2>1, FS_RemoveElement DEF HeldOK
  <2>4. given' = IF Counts(Kind) THEN given - held[p].size ELSE given
    BY <1>3 DEF TakesBack
  <2>5. given' = IF Counts(Kind) THEN P!HeldSum(held') ELSE 0
    BY <1>1, <1>3, <2>4 DEF HeldOK
  <2>6. given' \in Nat /\ given' <= given
    BY <1>1, <2>4 DEF HeldOK
  <2>7. Kind = "pinned" => given' <= PinnedLimit
    BY <2>6, BuddySystemConstants DEF HeldOK
  <2> QED BY <2>2, <2>3, <2>5, <2>6, <2>7 DEF HeldOK
<1> QED BY <1>2, <1>3

(* Held memory starts with a block.                                         *)
LEMMA HeldBlocks ==
  ASSUME NEW max \in P!Maxima, P!CInv(max)
  PROVE  /\ \A p \in DOMAIN held : p \in P!BlocksIn(desc)
         /\ \A p : p \notin P!BlocksIn(desc) => p \notin DOMAIN held
  BY DEF P!CInv, P!IInv, P!Shape, P!HeldStarts, P!BlocksIn

-----------------------------------------------------------------------------
(* Alloc.                                                                   *)

LEMMA AllocHugeStep ==
  ASSUME Geometries, SInv, NEW bytes \in Requests, AllocHuge(bytes)
  PROVE  SInv' /\ Made
<1>1. PICK max \in MaxSizes, kind \in Kinds :
        /\ Now(max, kind) /\ B(kind)!AllocHuge(bytes, max)
        /\ Grants(kind, B(kind)!ChunkSize(bytes)) /\ UNCHANGED <<system_allocator, max_chunk>>
  BY DEF AllocHuge
<1>2. /\ kind = Kind /\ max = max_chunk /\ state = "up"
      /\ max \in P!Maxima /\ P!Geometry(max) /\ P!CInv(max) /\ P!RequestsFit
  BY <1>1, NowIs
<1>3. P!AllocHuge(bytes, max) /\ Grants(Kind, P!ChunkSize(bytes))
  <2>1. B(Kind)!AllocHuge(bytes, max) /\ Grants(Kind, B(Kind)!ChunkSize(bytes))
    BY <1>1, <1>2
  <2> QED BY <2>1, SameAllocHuge, SameChunkSize
<1>4. P!CInv(max)'
  BY <1>2, <1>3, Constants, P!CallCInv DEF P!Call, P!Alloc
<1>5. PICK p \in Addresses, i \in IndicesOf(Kind) :
        p \notin P!BlocksIn(desc) /\ held' = P!Hold(held, p, P!ChunkSize(bytes), i)
  BY <1>2, <1>3, Constants, P!AllocHugeTakes
<1>6. p \notin DOMAIN held /\ P!ChunkSize(bytes) \in Nat
  BY <1>2, <1>5, HeldBlocks, Constants, P!ChunkSizeHolds
<1>7. HeldOK'
  BY <1>3, <1>5, <1>6, HoldsMore DEF SInv
<1>8. state' = "up"
  BY <1>2, <1>3 DEF P!AllocHuge
<1>9. AllocatorOK'
  BY <1>1, <1>2, <1>4 DEF AllocatorOK
<1>10. Made
  BY <1>2, <1>3 DEF Made, P!Call, P!Alloc
<1> QED BY <1>1, <1>2, <1>7, <1>8, <1>9, <1>10 DEF SInv

LEMMA AllocExistingStep ==
  ASSUME Geometries, SInv, NEW bytes \in Requests, AllocExisting(bytes)
  PROVE  SInv' /\ Made
<1>1. PICK max \in MaxSizes, kind \in Kinds :
        Now(max, kind) /\ B(kind)!AllocExisting(bytes, max) /\ UNCHANGED system
  BY DEF AllocExisting
<1>2. /\ kind = Kind /\ max = max_chunk /\ state = "up"
      /\ max \in P!Maxima /\ P!Geometry(max) /\ P!CInv(max) /\ P!RequestsFit
  BY <1>1, NowIs
<1>3. P!AllocExisting(bytes, max)
  <2>1. B(Kind)!AllocExisting(bytes, max)
    BY <1>1, <1>2
  <2> QED BY <2>1, SameAllocExisting
<1>4. P!CInv(max)'
  BY <1>2, <1>3, Constants, P!CallCInv DEF P!Call, P!Alloc
<1>5. UNCHANGED <<held, system_allocator, max_chunk, given>>
  BY <1>1, <1>3 DEF P!AllocExisting, system
<1>6. state' = "up"
  <2>1. state' \in {"up", "aborted"}
    BY <1>3 DEF P!AllocExisting, P!SplitToAlloc, P!Asserts
  <2> QED BY <1>4, <2>1 DEF P!CInv, P!IInv
<1>7. HeldOK'
  BY <1>5 DEF SInv, HeldOK
<1>8. AllocatorOK'
  BY <1>2, <1>4, <1>5 DEF AllocatorOK
<1>9. Made
  BY <1>2, <1>3 DEF Made, P!Call, P!Alloc
<1> QED BY <1>2, <1>5, <1>6, <1>7, <1>8, <1>9 DEF SInv

(* The maximum size of a segment to be obtained: another one only when the  *)
(* allocator has no segment.                                                *)
LEMMA NewMaxAllowed ==
  ASSUME Geometries, SInv, NEW max \in MaxSizes, NEW kind, Now(max, kind),
         NEW new \in MaxSizes, NewMax(kind, new)
  PROVE  P!CInv(new)
<1>1. /\ kind = Kind /\ max = max_chunk /\ state = "up"
      /\ max \in P!Maxima /\ P!Geometry(max) /\ P!CInv(max)
  BY NowIs
<1>2. new \in P!Maxima
  BY SizesAreMaxima
<1>3. CASE UsesGpu(kind) /\ Wrap(total_used + total_free) = 0
  <2>1. P!Wrap(total_used + total_free) = 0
    BY <1>3 DEF Wrap, P!Wrap
  <2> QED BY <1>1, <1>2, <2>1, Constants, P!EmptyAnyMax
<1>4. CASE ~(UsesGpu(kind) /\ Wrap(total_used + total_free) = 0)
  <2>1. new = max
    BY <1>1, <1>4 DEF NewMax
  <2> QED BY <1>1, <2>1
<1> QED BY <1>3, <1>4

LEMMA AllocRefillStep ==
  ASSUME Geometries, SInv, NEW bytes \in Requests, AllocRefill(bytes)
  PROVE  SInv' /\ Made
<1>1. PICK max \in MaxSizes, new \in MaxSizes, kind \in Kinds :
        /\ Now(max, kind) /\ NewMax(kind, new) /\ B(kind)!AllocRefill(bytes, new)
        /\ Grants(kind, new) /\ max_chunk' = new /\ UNCHANGED system_allocator
  BY DEF AllocRefill
<1>2. /\ kind = Kind /\ max = max_chunk /\ state = "up" /\ P!RequestsFit
  BY <1>1, NowIs
<1>3. P!CInv(new) /\ new \in P!Maxima /\ P!Geometry(new)
  BY <1>1, NewMaxAllowed, SizesAreMaxima DEF Geometries
<1>4. P!AllocRefill(bytes, new) /\ Grants(Kind, new)
  <2>1. B(Kind)!AllocRefill(bytes, new) /\ Grants(Kind, new)
    BY <1>1, <1>2
  <2> QED BY <2>1, SameAllocRefill
<1>5. P!CInv(new)'
  BY <1>2, <1>3, <1>4, Constants, P!CallCInv DEF P!Call, P!Alloc
<1>6. PICK p \in Addresses, i \in IndicesOf(Kind) :
        p \notin P!BlocksIn(desc) /\ held' = P!Hold(held, p, new, i)
  BY <1>2, <1>3, <1>4, Constants, P!AllocRefillTakes
<1>7. p \notin DOMAIN held /\ new \in Nat
  BY <1>1, <1>3, <1>6, HeldBlocks, SizesAreMaxima
<1>8. HeldOK'
  BY <1>4, <1>6, <1>7, HoldsMore DEF SInv
<1>9. state' = "up"
  <2>1. state' \in {"up", "aborted"}
    BY <1>4 DEF P!AllocRefill, P!SplitToAlloc, P!Asserts
  <2> QED BY <1>5, <2>1 DEF P!CInv, P!IInv
<1>10. AllocatorOK'
  BY <1>1, <1>5 DEF AllocatorOK
<1>11. Made
  BY <1>3, <1>4 DEF Made, P!Call, P!Alloc
<1> QED BY <1>1, <1>2, <1>8, <1>9, <1>10, <1>11 DEF SInv

LEMMA AllocFailsStep ==
  ASSUME Geometries, SInv, NEW bytes \in Requests, AllocFails(bytes)
  PROVE  SInv' /\ Made
<1>1. PICK max \in MaxSizes, new \in MaxSizes, kind \in Kinds :
        /\ Now(max, kind) /\ NewMax(kind, new) /\ max_chunk' = new
        /\ UNCHANGED <<allocator, system_allocator, given>>
  BY DEF AllocFails
<1>2. max = max_chunk /\ state = "up"
  BY <1>1, NowIs
<1>3. P!CInv(new)
  BY <1>1, NewMaxAllowed
<1>4. UNCHANGED <<desc, pool, total_used, total_free, fallback, held, live, state>>
  BY <1>1 DEF allocator
<1>5. P!CInv(new)'
  BY <1>3, <1>4 DEF P!CInv, P!IInv
<1>6. AllocatorOK'
  BY <1>1, <1>5 DEF AllocatorOK
<1>7. HeldOK' /\ Made
  BY <1>1, <1>4 DEF SInv, HeldOK, Made
<1> QED BY <1>1, <1>2, <1>4, <1>6, <1>7 DEF SInv

(* The process has ended.                                                   *)
LEMMA EndsStep ==
  ASSUME SInv, NEW how \in {"oom", "outgrown"}, Ends(how)
  PROVE  SInv' /\ Made
<1>1. /\ state' = how
      /\ UNCHANGED <<desc, pool, total_used, total_free, fallback, held, live>>
      /\ UNCHANGED <<system_allocator, max_chunk, given>>
  BY DEF Ends, system
<1>2. HeldOK' /\ AllocatorOK' /\ Made
  BY <1>1 DEF SInv, HeldOK, AllocatorOK, Made
<1> QED BY <1>1, <1>2 DEF SInv

-----------------------------------------------------------------------------
(* Free.                                                                    *)

LEMMA FreeHugeStep ==
  ASSUME Geometries, SInv, NEW m \in live, FreeHuge(m)
  PROVE  SInv' /\ Made
<1> DEFINE p == P!metadata(m.mem)
           d == desc[p]
<1>1. PICK max \in MaxSizes, kind \in Kinds :
        /\ Now(max, kind)
        /\ desc[B(kind)!metadata(m.mem)].type = "HUGE"
        /\ IF Accepts(kind, desc[B(kind)!metadata(m.mem)].total_size,
                      desc[B(kind)!metadata(m.mem)].index)
           THEN /\ B(kind)!FreeHuge(m)
                /\ TakesBack(kind, desc[B(kind)!metadata(m.mem)].total_size)
                /\ UNCHANGED <<system_allocator, max_chunk>>
           ELSE Ends("aborted")
  BY DEF FreeHuge
<1>2. /\ kind = Kind /\ max = max_chunk /\ state = "up"
      /\ max \in P!Maxima /\ P!Geometry(max) /\ P!CInv(max) /\ P!RequestsFit
  BY <1>1, NowIs
<1>3. /\ d.type = "HUGE"
      /\ IF Accepts(Kind, d.total_size, d.index)
         THEN /\ P!FreeHuge(m) /\ TakesBack(Kind, d.total_size)
              /\ UNCHANGED <<system_allocator, max_chunk>>
         ELSE Ends("aborted")
  <2>1. B(Kind)!metadata(m.mem) = p
    BY SameHold
  <2> HIDE DEF p
  <2> QED BY <1>1, <1>2, <2>1, SameFreeHuge
<1> HIDE DEF p, d
<1>4. /\ p \in DOMAIN held /\ d.total_size = held[p].size /\ d.index = held[p].index
  <2>1. p \in P!BlocksIn(desc)
    <3>1. p \in P!InUse(desc)
      BY <1>2 DEF P!CInv, P!IInv, P!Served, p
    <3> QED BY <3>1 DEF P!InUse, P!BlocksIn
  <2>2. P!Within(desc, held, p, p, max)
    <3>1. P!Shape(desc, held, max)
      BY <1>2 DEF P!CInv, P!IInv
    <3>2. p \in DOMAIN held
      BY <1>3, <2>1, <3>1 DEF P!Shape, P!Placed, d
    <3> QED BY <1>2, <2>1, <3>1, <3>2, Constants, P!OwnHolder
  <2>3. /\ p \in DOMAIN held /\ held[p].index = d.index
        /\ d.right = P!NULL => p + d.total_size = p + held[p].size
    BY <2>2 DEF P!Within, P!EndIn, d
  <2>4. d.right = P!NULL
    BY <1>2, <1>3, <2>1 DEF P!CInv, P!IInv, P!Shape, P!Placed, d
  <2>5. p \in Nat /\ d.total_size \in Nat /\ held[p].size \in Nat
    <3>1. P!Typed(desc) /\ P!HeldTyped(held)
      BY <1>2 DEF P!CInv, P!IInv, P!Shape
    <3> QED BY <2>1, <2>3, <3>1 DEF P!Typed, P!HeldTyped, P!BlocksIn, P!Descriptor, d
  <2> QED BY <2>3, <2>4, <2>5
<1>5. Accepts(Kind, d.total_size, d.index)
  BY <1>4, HoldsLess DEF SInv
<1>6. /\ P!FreeHuge(m) /\ TakesBack(Kind, held[p].size)
      /\ UNCHANGED <<system_allocator, max_chunk>>
  BY <1>3, <1>4, <1>5
<1>7. P!CInv(max)'
  BY <1>2, <1>6, Constants, P!CallCInv DEF P!Call
<1>8. held' = P!Drop(held, p) /\ state' = "up"
  BY <1>2, <1>6, Constants, P!FreeHugeReturns DEF p
<1>9. HeldOK'
  BY <1>4, <1>6, <1>8, HoldsLess DEF SInv
<1>10. AllocatorOK'
  BY <1>2, <1>6, <1>7 DEF AllocatorOK
<1>11. Made
  BY <1>2, <1>6 DEF Made, P!Call
<1> QED BY <1>2, <1>6, <1>8, <1>9, <1>10, <1>11 DEF SInv

LEMMA FreeArenaStep ==
  ASSUME Geometries, SInv, NEW m \in live, FreeArena(m)
  PROVE  SInv' /\ Made
<1>1. PICK max \in MaxSizes, kind \in Kinds :
        Now(max, kind) /\ B(kind)!FreeArena(m) /\ UNCHANGED system
  BY DEF FreeArena
<1>2. /\ kind = Kind /\ max = max_chunk /\ state = "up"
      /\ max \in P!Maxima /\ P!Geometry(max) /\ P!CInv(max) /\ P!RequestsFit
  BY <1>1, NowIs
<1>3. P!FreeArena(m)
  <2>1. B(Kind)!FreeArena(m)
    BY <1>1, <1>2
  <2> QED BY <2>1, SameFreeArena
<1>4. P!CInv(max)'
  BY <1>2, <1>3, Constants, P!CallCInv DEF P!Call
<1>5. UNCHANGED <<held, system_allocator, max_chunk, given>>
  BY <1>1, <1>3 DEF P!FreeArena, system
<1>6. state' = "up"
  <2>1. state' \in {"up", "aborted"}
    BY <1>3 DEF P!FreeArena, P!Asserts
  <2> QED BY <1>4, <2>1 DEF P!CInv, P!IInv
<1>7. HeldOK'
  BY <1>5 DEF SInv, HeldOK
<1>8. AllocatorOK'
  BY <1>2, <1>4, <1>5 DEF AllocatorOK
<1>9. Made
  BY <1>2, <1>3 DEF Made, P!Call
<1> QED BY <1>2, <1>5, <1>6, <1>7, <1>8, <1>9 DEF SInv

-----------------------------------------------------------------------------
(* The destructor.                                                          *)

LEMMA DestroyStep ==
  ASSUME Geometries, SInv, Destroy
  PROVE  SInv' /\ Made
<1> DEFINE returned == max_chunk * Cardinality(pool)
<1>1. PICK max \in MaxSizes, kind \in Kinds :
        /\ Now(max, kind) /\ live = {}
        /\ IF \A t \in pool : Accepts(kind, max * Cardinality(pool), desc[t[3]].index)
           THEN /\ B(kind)!Destroy(max) /\ TakesBack(kind, max * Cardinality(pool))
                /\ UNCHANGED <<system_allocator, max_chunk>>
           ELSE Ends("aborted")
  BY DEF Destroy
<1>2. /\ kind = Kind /\ max = max_chunk /\ state = "up"
      /\ max \in P!Maxima /\ P!Geometry(max) /\ P!CInv(max) /\ P!RequestsFit
  BY <1>1, NowIs
<1>3. /\ P!Destroy(max) => state' = "destroyed" /\ DOMAIN held' = {}
      /\ P!HeldSum(held) = returned
      /\ \A t \in pool : t[3] \in DOMAIN held /\ desc[t[3]].index = held[t[3]].index
  BY <1>1, <1>2, SameCardinality, Constants, P!DestroyReturns
<1>4. /\ IF \A t \in pool : Accepts(Kind, returned, desc[t[3]].index)
         THEN /\ P!Destroy(max) /\ TakesBack(Kind, returned)
              /\ UNCHANGED <<system_allocator, max_chunk>>
         ELSE Ends("aborted")
  <2> HIDE DEF returned
  <2>1. max * Cardinality(pool) = returned
    BY <1>2 DEF returned
  <2>2. B(Kind)!Destroy(max) => P!Destroy(max)
    BY SameDestroy
  <2> QED BY <1>1, <1>2, <2>1, <2>2
<1> HIDE DEF returned
<1>5. \A t \in pool : Accepts(Kind, returned, desc[t[3]].index)
  <2> SUFFICES ASSUME NEW t \in pool PROVE Accepts(Kind, returned, desc[t[3]].index)
    OBVIOUS
  <2>1. desc[t[3]].index \in IndicesOf(Kind)
    BY <1>3 DEF SInv, HeldOK
  <2>2. Counts(Kind) => given = returned
    BY <1>3 DEF SInv, HeldOK
  <2>3. given \in Nat
    BY DEF SInv, HeldOK
  <2> QED BY <2>1, <2>2, <2>3 DEF Accepts, Counts, IndicesOf
<1>6. /\ P!Destroy(max) /\ TakesBack(Kind, returned)
      /\ UNCHANGED <<system_allocator, max_chunk>>
  BY <1>4, <1>5
<1>7. state' = "destroyed" /\ DOMAIN held' = {}
  BY <1>3, <1>6
<1>8. P!CInv(max)'
  BY <1>2, <1>6, Constants, P!CallCInv DEF P!Call
<1>9. AllocatorOK'
  BY <1>2, <1>6, <1>8 DEF AllocatorOK
<1>10. HeldOK'
  <2>1. P!HeldTyped(held') /\ IsFiniteSet(DOMAIN held')
    BY <1>7, FS_EmptySet DEF P!HeldTyped
  <2>2. P!HeldSum(held') = 0
    BY <1>7, <2>1, SameFinite, Constants, P!HeldNatural
  <2>3. given' = 0
    BY <1>3, <1>6 DEF TakesBack, SInv, HeldOK
  <2>4. given' \in Nat /\ (Kind = "pinned" => given' <= PinnedLimit)
    BY <2>3, BuddySystemConstants
  <2> QED BY <1>7, <2>1, <2>2, <2>3, <2>4 DEF HeldOK
<1>11. Made
  BY <1>2, <1>6 DEF Made, P!Call
<1> QED BY <1>2, <1>6, <1>7, <1>9, <1>10, <1>11 DEF SInv

-----------------------------------------------------------------------------
(* The invariant is inductive.                                              *)

LEMMA InitSInv ==
  ASSUME SInit, system_allocator = Kind
  PROVE  SInv
<1>1. system_allocator \in Kinds /\ max_chunk = InitialMax /\ given = 0
  BY DEF SInit
<1>2. P!Init
  BY SameInit DEF SInit
<1>3. DOMAIN held = {} /\ state = "up"
  BY <1>2 DEF P!Init
<1>4. InitialMax \in MaxSizes
  BY DEF MaxSizes
<1>5. AllocatorOK
  BY <1>2, SizesAreMaxima, Constants, P!InitCInv DEF AllocatorOK
<1>6. HeldOK
  <2>1. P!HeldTyped(held) /\ IsFiniteSet(DOMAIN held)
    BY <1>3, FS_EmptySet DEF P!HeldTyped
  <2>2. P!HeldSum(held) = 0
    BY <1>3, <2>1, SameFinite, Constants, P!HeldNatural
  <2> QED BY <1>1, <1>3, <2>1, <2>2, BuddySystemConstants DEF HeldOK
<1> QED BY <1>1, <1>3, <1>4, <1>5, <1>6 DEF SInv

LEMMA NextSInv ==
  ASSUME Geometries, SInv, [SNext]_svars
  PROVE  SInv' /\ Made
<1>1. ASSUME NEW bytes \in Requests, AllocHuge(bytes) PROVE SInv' /\ Made
  BY <1>1, AllocHugeStep
<1>2. ASSUME NEW bytes \in Requests, AllocExisting(bytes) PROVE SInv' /\ Made
  BY <1>2, AllocExistingStep
<1>3. ASSUME NEW bytes \in Requests, AllocRefill(bytes) PROVE SInv' /\ Made
  BY <1>3, AllocRefillStep
<1>4. ASSUME NEW bytes \in Requests, AllocOutgrown(bytes) PROVE SInv' /\ Made
  <2>1. Ends("outgrown")
    BY <1>4 DEF AllocOutgrown
  <2> QED BY <2>1, EndsStep
<1>5. ASSUME NEW bytes \in Requests, AllocFails(bytes) PROVE SInv' /\ Made
  BY <1>5, AllocFailsStep
<1>6. ASSUME NEW bytes \in Requests, AllocExhausted(bytes) PROVE SInv' /\ Made
  <2>1. Ends("oom")
    BY <1>6 DEF AllocExhausted
  <2> QED BY <2>1, EndsStep
<1>7. ASSUME NEW m \in live, FreeHuge(m) PROVE SInv' /\ Made
  BY <1>7, FreeHugeStep
<1>8. ASSUME NEW m \in live, FreeArena(m) PROVE SInv' /\ Made
  BY <1>8, FreeArenaStep
<1>9. CASE Destroy
  BY <1>9, DestroyStep
<1>10. CASE UNCHANGED svars
  <2>1. UNCHANGED <<desc, pool, total_used, total_free, fallback, held, live, state>>
        /\ UNCHANGED <<system_allocator, max_chunk, given>>
    BY <1>10 DEF svars, allocator, system
  <2>2. AllocatorOK'
    BY <2>1 DEF SInv, AllocatorOK, P!CInv, P!IInv
  <2>3. HeldOK' /\ Made
    BY <2>1 DEF SInv, HeldOK, Made
  <2> QED BY <2>1, <2>2, <2>3 DEF SInv
<1> QED BY <1>1, <1>2, <1>3, <1>4, <1>5, <1>6, <1>7, <1>8, <1>9, <1>10 DEF SNext

-----------------------------------------------------------------------------
(* The theorems.  Kind is the kind of the behaviour's system allocator.     *)

(* The inductive invariant: BuddyAllocator's own for the maximum size of    *)
(* the moment, and the count of the system allocator.                       *)
THEOREM SystemInvariance ==
  ASSUME Geometries
  PROVE  SSpec /\ system_allocator = Kind => []SInv
<1>1. SInit /\ system_allocator = Kind => SInv
  BY InitSInv
<1>2. SInv /\ [SNext]_svars => SInv'
  BY NextSInv
<1> QED BY <1>1, <1>2, PTL DEF SSpec

(* What GPUAllocator and CUDAPinnedAllocator count is the memory given and  *)
(* not taken back, pinned memory stays within its limit, and no assertion   *)
(* of their Free fails (system_allocator.cc:125, 141, 171-187, 199-202).    *)
THEOREM AccountingCorrect ==
  ASSUME Geometries
  PROVE  SSpec /\ system_allocator = Kind => []AccountingExact
<1>1. SInv => AccountingExact
  BY SameSum DEF SInv, HeldOK, AccountingExact, HeldSize, AllHeld, P!HeldSum
<1> QED BY <1>1, SystemInvariance, PTL

(* Every segment has the maximum size of the moment, though a CUDA build    *)
(* computes that anew (buddy_allocator.cc:173-176).                         *)
THEOREM SegmentsCorrect ==
  ASSUME Geometries
  PROVE  SSpec /\ system_allocator = Kind => []SegmentsWhole
<1>1. SInv => SegmentsWhole
  <2> SUFFICES ASSUME SInv, state = "up", NEW h \in Segments
               PROVE  held[h].size = max_chunk
    BY DEF SegmentsWhole
  <2>1. PICK max \in MaxSizes : max = max_chunk /\ max \in P!Maxima /\ P!CInv(max)
    BY SizesAreMaxima DEF SInv, AllocatorOK
  <2>2. h \in DOMAIN held /\ h \in P!BlocksIn(desc)
    BY <2>1, HeldBlocks DEF Segments, AllHeld
  <2>3. desc[h].type # "HUGE"
    BY <2>2 DEF Segments, Huge, AllHeld, P!BlocksIn
  <2>4. P!Within(desc, held, h, h, max)
    BY <2>1, <2>2, Constants, P!OwnHolder DEF P!CInv, P!IInv
  <2> QED BY <2>1, <2>3, <2>4 DEF P!Within
<1> QED BY <1>1, SystemInvariance, PTL

(* The destructor returns every segment, whatever the maximum size was when *)
(* it was obtained, and the system allocator counts nothing any more        *)
(* (buddy_allocator.cc:19-28).                                              *)
THEOREM NothingKeptCorrect ==
  ASSUME Geometries
  PROVE  SSpec /\ system_allocator = Kind => []NothingKept
<1>1. SInv => NothingKept
  <2> SUFFICES ASSUME SInv, state = "destroyed" PROVE DOMAIN held = {} /\ given = 0
    BY DEF NothingKept, AllHeld
  <2>1. DOMAIN held = {} /\ HeldOK
    BY DEF SInv
  <2>2. P!HeldSum(held) = 0
    BY <2>1, SameFinite, Constants, P!HeldNatural DEF HeldOK
  <2> QED BY <2>1, <2>2 DEF HeldOK
<1> QED BY <1>1, SystemInvariance, PTL

-----------------------------------------------------------------------------
(* The promise of an Allocator, over every system allocator.                *)

LEMMA PromiseStep ==
  ASSUME Geometries, P!AlignedConstants, SInv, P!Aligned(desc), [SNext]_svars
  PROVE  P!Aligned(desc)' /\ [Promise!Next]_live
<1>1. ASSUME P!ClientsStep PROVE [Promise!Next]_live
  <2>1. CASE live' = live
    BY <2>1
  <2>2. CASE \E r \in live : live' = live \ {r}
    BY <2>2 DEF Promise!Next, Promise!Free
  <2>3. ASSUME NEW r, r \notin live, live' = live \cup {r}, r.bytes \in Requests,
               r.mem % P!SystemAlignment = 0, \A s \in live : P!DoNotMeet(r, s)
        PROVE  Promise!Next
    <3>1. r \in live' /\ r.mem % SystemAlignment = 0
      BY <2>3 DEF SystemAlignment, P!SystemAlignment
    <3>2. \A s \in live : Promise!Disjoint(r, s)
      BY <2>3 DEF Promise!Disjoint, P!DoNotMeet
    <3> QED BY <2>3, <3>1, <3>2 DEF Promise!Next, Promise!Alloc
  <2> QED BY <1>1, <2>1, <2>2, <2>3 DEF P!ClientsStep
<1>2. Made
  BY NextSInv
<1>3. ASSUME NEW max \in P!Maxima, P!CInv(max), P!Call(max)
      PROVE  P!Aligned(desc)' /\ [Promise!Next]_live
  <2>1. P!IInv(max) /\ P!RequestsFit
    BY <1>3 DEF P!CInv, Geometries
  <2>2. P!Aligned(desc') /\ P!ClientsStep
    BY <1>3, <2>1, Constants, P!ClientsCall
  <2> QED BY <1>1, <2>2
<1>4. CASE UNCHANGED <<desc, live>>
  BY <1>4
<1> QED BY <1>2, <1>3, <1>4 DEF Made

(* Over every system allocator, with failures, limits and changes of the    *)
(* maximum size, what Alloc returns is aligned, lies apart from all that    *)
(* clients hold, and stays theirs until they free it                        *)
(* (buddy_allocator.cc:36-140, system_allocator.cc:48).                     *)
THEOREM SystemPromiseKept ==
  ASSUME Geometries, P!AlignedConstants
  PROVE  SSpec /\ system_allocator = Kind => ImplementsHeap
<1>1. SInit /\ system_allocator = Kind => SInv /\ P!Aligned(desc) /\ Promise!Init
  <2> SUFFICES ASSUME SInit, system_allocator = Kind
               PROVE  SInv /\ P!Aligned(desc) /\ Promise!Init
    OBVIOUS
  <2>1. P!Init
    BY SameInit DEF SInit
  <2>2. P!Aligned(desc) /\ Promise!Init
    BY <2>1 DEF P!Init, P!Aligned, P!BlocksIn, Promise!Init
  <2> QED BY <2>2, InitSInv
<1>2. SInv /\ P!Aligned(desc) /\ [SNext]_svars
        => SInv' /\ P!Aligned(desc)' /\ [Promise!Next]_live
  BY NextSInv, PromiseStep
<1> QED BY <1>1, <1>2, PTL DEF SSpec, ImplementsHeap, Promise!Spec
=============================================================================
