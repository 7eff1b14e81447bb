----------------------- MODULE BuddyAllocator_proofs ------------------------
(***************************************************************************)
(* Proofs about BuddyAllocator, for every geometry of chunks, every set of *)
(* addresses and every set of requests whose padded size a size_t can      *)
(* hold.                                                                   *)
(*                                                                         *)
(* A call of Free goes through intermediate descriptors (one per join), so *)
(* the parts of the inductive invariant are operators on descriptors d and *)
(* held memory h, and the lemmas say what split and merge do to them.      *)
(***************************************************************************)
EXTENDS BuddyAllocatorProps, TLAPS

(* No request is so large that its size with a descriptor, rounded up to a  *)
(* chunk, exceeds the range of size_t; HugeGoesToSystem shows what happens  *)
(* otherwise.                                                               *)
RequestsFit == \A r \in Requests : r + DescSize + MinChunk < SizeModulus

-----------------------------------------------------------------------------
(* The parts of the invariant.                                              *)

(* What max_chunk_size_ may be.  It is an argument of the lemmas, because   *)
(* the allocator may compute it anew while it owns nothing.                 *)
Maxima == {n \in Nat : DescSize < n /\ n < SizeModulus}

BlocksIn(d) == {b \in DOMAIN d : d[b].type # "INVALID"}
FreeIn(d)   == {b \in DOMAIN d : d[b].type = "FREE"}
InUse(d)    == {b \in DOMAIN d : d[b].type \in {"ARENA", "HUGE"}}
EndIn(d, b) == b + d[b].total_size

Typed(d) ==
  /\ DOMAIN d \subseteq Nat \ {NULL}
  /\ \A b \in DOMAIN d : d[b] \in Descriptor

HeldTyped(h) ==
  /\ DOMAIN h \subseteq Nat \ {NULL}
  /\ \A p \in DOMAIN h : h[p] \in [size : Nat, index : Nat]

Linked(d) ==
  \A b \in BlocksIn(d) :
    /\ d[b].right # NULL =>
         /\ d[b].right \in BlocksIn(d) /\ d[b].right = EndIn(d, b)
         /\ d[d[b].right].left = b /\ d[d[b].right].index = d[b].index
    /\ d[b].left # NULL =>
         d[b].left \in BlocksIn(d) /\ d[d[b].left].right = b

Ordered(d) == \A a, b \in BlocksIn(d) : a < b => EndIn(d, a) <= b

Sized(d) ==
  \A b \in BlocksIn(d) :
    d[b].total_size >= DescSize /\ d[b].size = d[b].total_size - DescSize

(* A huge block has no buddies; a first block starts a piece of held        *)
(* memory; every block lies in one, and the last block ends it.             *)
Within(d, h, b, p, max) ==
  /\ p \in DOMAIN h /\ h[p].index = d[b].index
  /\ p <= b /\ EndIn(d, b) <= p + h[p].size
  /\ d[b].right = NULL => EndIn(d, b) = p + h[p].size
  /\ IF d[b].type = "HUGE" THEN p = b ELSE h[p].size = max

Placed(d, h, max) ==
  \A b \in BlocksIn(d) :
    /\ d[b].type = "HUGE" => d[b].left = NULL /\ d[b].right = NULL
    /\ d[b].left = NULL => b \in DOMAIN h
    /\ \E p \in DOMAIN h : Within(d, h, b, p, max)

HeldApart(h) == \A p, q \in DOMAIN h : p < q => p + h[p].size <= q

HeldStarts(d, h) == \A p \in DOMAIN h : p \in BlocksIn(d) /\ d[p].left = NULL

Shape(d, h, max) ==
  /\ Typed(d) /\ HeldTyped(h) /\ Linked(d) /\ Ordered(d) /\ Sized(d)
  /\ Placed(d, h, max) /\ HeldApart(h) /\ HeldStarts(d, h)

-----------------------------------------------------------------------------
(* Arithmetic of size_t and of chunk sizes.                                 *)

LEMMA WrapSame == ASSUME NEW n \in Nat, n < SizeModulus PROVE Wrap(n) = n
  BY BuddyConstants DEF Wrap

LEMMA WrapRange == ASSUME NEW n \in Int PROVE Wrap(n) \in 0 .. SizeModulus - 1
  BY BuddyConstants DEF Wrap

(* The size of a chunk holds the request and its descriptor.                *)
LEMMA ChunkSizeHolds ==
  ASSUME RequestsFit, NEW bytes \in Requests
  PROVE  /\ bytes \in Nat
         /\ ChunkSize(bytes) \in Nat
         /\ ChunkSize(bytes) >= bytes + DescSize
         /\ ChunkSize(bytes) < SizeModulus
  <1>1. bytes \in Nat /\ bytes + DescSize + MinChunk < SizeModulus
    BY BuddyConstants DEF RequestsFit
  <1> DEFINE n == bytes + DescSize
             k == n % MinChunk
  <1>2. n \in Nat /\ k \in 0 .. MinChunk - 1
    BY <1>1, BuddyConstants
  <1>3. Wrap(n) = n
    BY <1>1, <1>2, WrapSame, BuddyConstants
  <1>4. n + (MinChunk - k) \in Nat /\ n + (MinChunk - k) < SizeModulus
    BY <1>1, <1>2, BuddyConstants
  <1>5. Wrap(n + (MinChunk - k)) = n + (MinChunk - k)
    BY <1>4, WrapSame
  <1>6. ChunkSize(bytes) = IF k = 0 THEN n ELSE n + (MinChunk - k)
    BY <1>3, <1>5 DEF ChunkSize, align
  <1> QED
    BY <1>1, <1>2, <1>4, <1>6, BuddyConstants

(* The size of a chunk is a multiple of min_chunk_size_.                    *)
LEMMA ChunkSizeMultiple ==
  ASSUME RequestsFit, NEW bytes \in Requests
  PROVE  \E q \in Nat : ChunkSize(bytes) = MinChunk * q
  <1> DEFINE n == bytes + DescSize
             k == n % MinChunk
             q == n \div MinChunk
  <1>1. bytes \in Nat /\ bytes + DescSize + MinChunk < SizeModulus
    BY BuddyConstants DEF RequestsFit
  <1>2. n \in Nat /\ k \in 0 .. MinChunk - 1 /\ q \in Nat /\ n = MinChunk * q + k
    BY <1>1, BuddyConstants
  <1>3. Wrap(n) = n
    BY <1>1, <1>2, WrapSame, BuddyConstants
  <1>4. n + (MinChunk - k) \in Nat /\ n + (MinChunk - k) < SizeModulus
    BY <1>1, <1>2, BuddyConstants
  <1>5. Wrap(n + (MinChunk - k)) = n + (MinChunk - k)
    BY <1>4, WrapSame
  <1>6. ChunkSize(bytes) = IF k = 0 THEN n ELSE n + (MinChunk - k)
    BY <1>3, <1>5 DEF ChunkSize, align
  <1> HIDE DEF n, k, q
  <1>7. MinChunk * (q + 1) = MinChunk * q + MinChunk
    BY <1>2, BuddyConstants
  <1>8. MinChunk * q \in Int /\ MinChunk \in Int
    BY <1>2, BuddyConstants
  <1>9. ChunkSize(bytes) = MinChunk * q \/ ChunkSize(bytes) = MinChunk * (q + 1)
    BY <1>2, <1>6, <1>7, <1>8
  <1>10. q + 1 \in Nat
    BY <1>2
  <1> QED
    BY <1>2, <1>9, <1>10

-----------------------------------------------------------------------------
(* merge.                                                                   *)

(* What merge(d, b, r) leaves: r is no block any more, b reaches to r's end *)
(* and has r's right buddy, whose left buddy it becomes.                    *)
Merged(d, e, b, r) ==
  /\ BlocksIn(e) = BlocksIn(d) \ {r}
  /\ FreeIn(e) = FreeIn(d) \ {r}
  /\ InUse(e) = InUse(d)
  /\ \A x \in BlocksIn(e) :
       /\ e[x].type = d[x].type /\ e[x].index = d[x].index
       /\ e[x].left = IF x = d[r].right THEN b ELSE d[x].left
       /\ e[x].right = IF x = b THEN d[r].right ELSE d[x].right
       /\ e[x].total_size = IF x = b THEN d[b].total_size + d[r].total_size
                                     ELSE d[x].total_size
       /\ e[x].size = IF x = b THEN d[b].size + d[r].total_size ELSE d[x].size

(* Changing a field of a descriptor leaves the others alone.                 *)
LEMMA RelinkedDescriptor ==
  ASSUME NEW y \in Descriptor, NEW n \in Nat
  PROVE  LET g == [y EXCEPT !.left = n] IN
         /\ g \in Descriptor
         /\ g.type = y.type /\ g.index = y.index /\ g.left = n
         /\ g.right = y.right /\ g.size = y.size /\ g.total_size = y.total_size
  BY DEF Descriptor

LEMMA MergeResult ==
  ASSUME NEW max \in Maxima,
         NEW d, NEW h, Shape(d, h, max), NEW b \in FreeIn(d), NEW r \in FreeIn(d),
         d[b].right = r
  PROVE  Typed(merge(d, b, r)) /\ Merged(d, merge(d, b, r), b, r)
  <1> DEFINE e == merge(d, b, r)
             next == d[r].right
             grown == [d[b] EXCEPT !.right = next, !.size = @ + d[r].total_size,
                                   !.total_size = @ + d[r].total_size]
             joined == [x \in DOMAIN d |-> IF x = b THEN grown
                                           ELSE IF x = next THEN [d[x] EXCEPT !.left = b]
                                           ELSE d[x]]
  <1>1. /\ b \in BlocksIn(d) /\ r \in BlocksIn(d) /\ r = EndIn(d, b)
        /\ DOMAIN d \subseteq Nat \ {NULL}
        /\ \A x \in DOMAIN d : d[x] \in Descriptor
    BY DEF Shape, Linked, Typed, FreeIn, BlocksIn, NULL
  <1>2. b # r /\ b \in Nat /\ r \in Nat
    BY <1>1, BuddyConstants DEF Shape, Sized, EndIn, FreeIn, BlocksIn, Descriptor
  <1>3. next = NULL \/ (next \in BlocksIn(d) /\ next # r /\ next # b)
    <2>1. next # NULL => next \in BlocksIn(d) /\ next = EndIn(d, r)
      BY <1>1 DEF Shape, Linked
    <2>2. d[b].total_size \in Nat \ {0} /\ d[r].total_size \in Nat \ {0}
      BY <1>1, BuddyConstants DEF Shape, Sized, Descriptor, FreeIn
    <2> QED
      BY <1>1, <1>2, <2>1, <2>2 DEF EndIn
  <1>4. /\ DOMAIN joined = DOMAIN d
        /\ joined[b] = grown
        /\ \A x \in DOMAIN d \ {b} :
             joined[x] = IF x = next THEN [d[x] EXCEPT !.left = b] ELSE d[x]
    BY <1>1 DEF BlocksIn
  <1>5. /\ grown \in Descriptor
        /\ grown.type = d[b].type /\ grown.index = d[b].index
        /\ grown.left = d[b].left /\ grown.right = next
        /\ grown.total_size = d[b].total_size + d[r].total_size
        /\ grown.size = d[b].size + d[r].total_size
    <2>1. d[b] \in Descriptor /\ d[r] \in Descriptor
      BY <1>1 DEF BlocksIn
    <2>2. next \in Nat /\ d[r].total_size \in Nat
      BY <2>1 DEF Descriptor
    <2>3. d[b].size + d[r].total_size \in Nat /\ d[b].total_size + d[r].total_size \in Nat
      BY <2>1, <2>2 DEF Descriptor
    <2>4. grown \in Descriptor
      BY <2>1, <2>2, <2>3 DEF Descriptor
    <2>5. DOMAIN d[b] = {"type", "index", "size", "total_size", "left", "right"}
      BY <2>1 DEF Descriptor
    <2> QED
      BY <2>4, <2>5
  <1>6. \A x \in DOMAIN d :
           LET y == [d[x] EXCEPT !.left = b] IN
           /\ y \in Descriptor
           /\ y.type = d[x].type /\ y.index = d[x].index
           /\ y.left = b /\ y.right = d[x].right
           /\ y.total_size = d[x].total_size /\ y.size = d[x].size
    BY <1>1, <1>2, RelinkedDescriptor
  <1>7. \A x \in DOMAIN joined : joined[x] \in Descriptor
    BY <1>1, <1>4, <1>5, <1>6
  <1>8. InvalidDesc \in Descriptor /\ InvalidDesc.type = "INVALID"
    BY DEF InvalidDesc, Descriptor, NULL
  <1>9. /\ DOMAIN e \subseteq DOMAIN d /\ DOMAIN d \subseteq DOMAIN e \cup {r}
        /\ \A x \in DOMAIN e \ {r} : e[x] = joined[x]
        /\ r \in DOMAIN e => e[r] = InvalidDesc
    <2>1. CASE UseGpu
      <3>1. e = Save(joined, r, InvalidDesc)
        BY <2>1 DEF merge
      <3> QED
        BY <3>1, <1>1, <1>4 DEF Save, BlocksIn
    <2>2. CASE ~UseGpu
      <3>1. e = Drop(joined, r)
        BY <2>2 DEF merge
      <3> QED
        BY <3>1, <1>1, <1>4 DEF Drop, BlocksIn
    <2> QED
      BY <2>1, <2>2
  <1> HIDE DEF e, joined, grown
  <1>10. Typed(e)
    BY <1>1, <1>4, <1>7, <1>8, <1>9 DEF Typed
  <1>11. \A x \in DOMAIN d \ {r} :
           /\ x \in DOMAIN e
           /\ e[x].type = d[x].type /\ e[x].index = d[x].index
           /\ e[x].right = IF x = b THEN next ELSE d[x].right
           /\ e[x].left = IF x = next THEN b ELSE d[x].left
           /\ e[x].total_size = IF x = b THEN d[b].total_size + d[r].total_size
                                         ELSE d[x].total_size
           /\ e[x].size = IF x = b THEN d[b].size + d[r].total_size ELSE d[x].size
    <2> SUFFICES ASSUME NEW x \in DOMAIN d \ {r}
                 PROVE  /\ x \in DOMAIN e
                        /\ e[x].type = d[x].type /\ e[x].index = d[x].index
                        /\ e[x].right = IF x = b THEN next ELSE d[x].right
                        /\ e[x].left = IF x = next THEN b ELSE d[x].left
                        /\ e[x].total_size = IF x = b THEN d[b].total_size + d[r].total_size
                                                      ELSE d[x].total_size
                        /\ e[x].size = IF x = b THEN d[b].size + d[r].total_size ELSE d[x].size
      OBVIOUS
    <2>1. x \in DOMAIN e /\ e[x] = joined[x]
      BY <1>9
    <2>2. CASE x = b
      <3>1. e[x] = grown /\ x # next
        BY <2>1, <2>2, <1>1, <1>3, <1>4 DEF BlocksIn
      <3> QED
        BY <3>1, <2>1, <2>2, <1>5
    <2>3. CASE x # b /\ x = next
      <3>1. e[x] = [d[x] EXCEPT !.left = b] /\ d[x] \in Descriptor
        BY <2>1, <2>3, <1>1, <1>4
      <3>2. /\ e[x].type = d[x].type /\ e[x].index = d[x].index
            /\ e[x].left = b /\ e[x].right = d[x].right
            /\ e[x].total_size = d[x].total_size /\ e[x].size = d[x].size
        BY <3>1 DEF Descriptor
      <3> QED
        BY <3>2, <2>1, <2>3
    <2>4. CASE x # b /\ x # next
      BY <2>1, <2>4, <1>4
    <2> QED
      BY <2>2, <2>3, <2>4
  <1>12. /\ BlocksIn(e) = BlocksIn(d) \ {r}
         /\ FreeIn(e) = FreeIn(d) \ {r}
         /\ InUse(e) = InUse(d)
    BY <1>8, <1>9, <1>11 DEF BlocksIn, FreeIn, InUse
  <1> QED
    BY <1>10, <1>11, <1>12 DEF Merged, BlocksIn, e

(* Joining two neighbours keeps the shape of the segments.                  *)
LEMMA MergeShape ==
  ASSUME NEW max \in Maxima,
         NEW d, NEW h, Shape(d, h, max), NEW b \in FreeIn(d), NEW r \in FreeIn(d),
         d[b].right = r
  PROVE  Shape(merge(d, b, r), h, max)
  <1> DEFINE e == merge(d, b, r)
             next == d[r].right
  <1>1. Typed(e) /\ Merged(d, e, b, r)
    BY MergeResult
  <1> HIDE DEF e
  <1>2. /\ b \in BlocksIn(d) /\ r \in BlocksIn(d) /\ r # NULL
        /\ \A x \in BlocksIn(d) : x \in Nat \ {NULL} /\ d[x] \in Descriptor
    BY DEF Shape, Typed, FreeIn, BlocksIn
  <1>3. r = EndIn(d, b) /\ d[r].left = b /\ d[r].index = d[b].index
    BY <1>2 DEF Shape, Linked
  <1>4. /\ d[b].total_size \in Nat \ {0} /\ d[r].total_size \in Nat \ {0}
        /\ b \in Nat /\ r \in Nat /\ b < r
    BY <1>2, <1>3, BuddyConstants DEF Shape, Sized, Descriptor, EndIn
  <1>5. next # NULL => /\ next \in BlocksIn(d) /\ next = EndIn(d, r)
                       /\ d[next].left = r /\ d[next].index = d[r].index
    BY <1>2 DEF Shape, Linked
  <1>6. next # r /\ next # b
    BY <1>2, <1>4, <1>5 DEF EndIn
  <1>7. EndIn(e, b) = EndIn(d, r)
    BY <1>1, <1>2, <1>3, <1>4 DEF Merged, EndIn, Descriptor
  <1>8. \A x \in BlocksIn(e) \ {b} : x \in BlocksIn(d) /\ x # r /\ EndIn(e, x) = EndIn(d, x)
    BY <1>1 DEF Merged, EndIn
  <1>9. b \in BlocksIn(e)
    BY <1>1, <1>2, <1>4 DEF Merged
  <1>10. Linked(e)
    <2> SUFFICES ASSUME NEW x \in BlocksIn(e)
                 PROVE  /\ e[x].right # NULL =>
                             /\ e[x].right \in BlocksIn(e) /\ e[x].right = EndIn(e, x)
                             /\ e[e[x].right].left = x
                             /\ e[e[x].right].index = e[x].index
                        /\ e[x].left # NULL =>
                             e[x].left \in BlocksIn(e) /\ e[e[x].left].right = x
      BY DEF Linked
    <2>1. ASSUME e[x].right # NULL
          PROVE  /\ e[x].right \in BlocksIn(e) /\ e[x].right = EndIn(e, x)
                 /\ e[e[x].right].left = x /\ e[e[x].right].index = e[x].index
      <3>1. CASE x = b
        <4>1. e[x].right = next /\ next \in BlocksIn(e)
          BY <1>1, <1>5, <1>6, <2>1, <3>1 DEF Merged
        <4> QED
          BY <4>1, <1>1, <1>3, <1>5, <1>7, <2>1, <3>1 DEF Merged
      <3>2. CASE x # b
        <4>1. /\ x \in BlocksIn(d) /\ e[x].right = d[x].right /\ x # r
              /\ e[x].index = d[x].index
          BY <1>1, <3>2 DEF Merged
        <4>2. /\ d[x].right \in BlocksIn(d) /\ d[x].right = EndIn(d, x)
              /\ d[d[x].right].left = x /\ d[d[x].right].index = d[x].index
          BY <4>1, <2>1 DEF Shape, Linked
        <4>3. d[x].right # r /\ d[x].right # next
          BY <4>1, <4>2, <1>3, <1>5, <2>1, <3>2
        <4> QED
          BY <4>1, <4>2, <4>3, <1>1, <1>8, <3>2 DEF Merged
      <3> QED
        BY <3>1, <3>2
    <2>2. ASSUME e[x].left # NULL
          PROVE  e[x].left \in BlocksIn(e) /\ e[e[x].left].right = x
      <3>1. CASE x = next
        BY <1>1, <1>9, <3>1 DEF Merged
      <3>2. CASE x # next
        <4>1. x \in BlocksIn(d) /\ e[x].left = d[x].left /\ x # r
          BY <1>1, <3>2 DEF Merged
        <4>2. d[x].left \in BlocksIn(d) /\ d[d[x].left].right = x
          BY <4>1, <2>2 DEF Shape, Linked
        <4>3. d[x].left # r /\ d[x].left # b
          BY <4>1, <4>2, <3>2
        <4> QED
          BY <4>1, <4>2, <4>3, <1>1 DEF Merged
      <3> QED
        BY <3>1, <3>2
    <2> QED
      BY <2>1, <2>2
  <1>11. Ordered(e)
    <2> SUFFICES ASSUME NEW x \in BlocksIn(e), NEW y \in BlocksIn(e), x < y
                 PROVE  EndIn(e, x) <= y
      BY DEF Ordered
    <2>1. /\ x \in BlocksIn(d) /\ y \in BlocksIn(d) /\ y # r
          /\ x \in Nat /\ y \in Nat
      BY <1>1, <1>2 DEF Merged
    <2>2. CASE x = b
      <3>1. r <= y
        BY <1>2, <1>3, <2>1, <2>2 DEF Shape, Ordered
      <3>2. r < y
        BY <3>1, <2>1, <1>4
      <3> QED
        BY <3>2, <1>2, <1>7, <2>1, <2>2 DEF Shape, Ordered
    <2>3. CASE x # b
      BY <2>1, <2>3, <1>8 DEF Shape, Ordered
    <2> QED
      BY <2>2, <2>3
  <1>12. Sized(e)
    <2> SUFFICES ASSUME NEW x \in BlocksIn(e)
                 PROVE  e[x].total_size >= DescSize /\ e[x].size = e[x].total_size - DescSize
      BY DEF Sized
    <2>1. x \in BlocksIn(d) /\ d[x] \in Descriptor
      BY <1>1, <1>2 DEF Merged
    <2>2. d[x].total_size >= DescSize /\ d[x].size = d[x].total_size - DescSize
      BY <2>1 DEF Shape, Sized
    <2>3. CASE x = b
      BY <1>1, <1>4, <2>1, <2>2, <2>3, BuddyConstants DEF Merged, Descriptor
    <2>4. CASE x # b
      BY <1>1, <2>2, <2>4 DEF Merged
    <2> QED
      BY <2>3, <2>4
  <1>13. HeldStarts(e, h)
    <2> SUFFICES ASSUME NEW p \in DOMAIN h
                 PROVE  p \in BlocksIn(e) /\ e[p].left = NULL
      BY DEF HeldStarts
    <2>1. p \in BlocksIn(d) /\ d[p].left = NULL
      BY DEF Shape, HeldStarts
    <2>2. p # r /\ p # next
      BY <2>1, <1>2, <1>3, <1>5
    <2> QED
      BY <2>1, <2>2, <1>1 DEF Merged
  <1>14. Placed(e, h, max)
    <2> SUFFICES ASSUME NEW x \in BlocksIn(e)
                 PROVE  /\ e[x].type = "HUGE" => e[x].left = NULL /\ e[x].right = NULL
                        /\ e[x].left = NULL => x \in DOMAIN h
                        /\ \E p \in DOMAIN h : Within(e, h, x, p, max)
      BY DEF Placed
    <2>1. x \in BlocksIn(d) /\ x # r
      BY <1>1 DEF Merged
    <2>2. /\ d[x].type = "HUGE" => d[x].left = NULL /\ d[x].right = NULL
          /\ d[x].left = NULL => x \in DOMAIN h
      BY <2>1 DEF Shape, Placed
    <2>3. x = next => e[x].left # NULL /\ e[x].type # "HUGE"
      <3> SUFFICES ASSUME x = next PROVE e[x].left # NULL /\ e[x].type # "HUGE"
        OBVIOUS
      <3>1. e[x].left = b /\ d[x].left = r /\ e[x].type = d[x].type
        BY <1>1, <1>2, <1>5, <2>1 DEF Merged
      <3> QED
        BY <3>1, <2>2, <1>2
    <2>4. x = b => e[x].type = "FREE"
      BY <1>1 DEF Merged, FreeIn
    <2>5. \E p \in DOMAIN h : Within(e, h, x, p, max)
      <3>1. CASE x = b
        <4>1. PICK p \in DOMAIN h : Within(d, h, r, p, max)
          BY <1>2 DEF Shape, Placed
        <4>2. p \in BlocksIn(d) /\ p # r /\ p \in Nat
          BY <1>2, <1>3 DEF Shape, HeldStarts
        <4>3. p <= r
          BY <4>1 DEF Within
        <4>4. p <= b
          BY <4>2, <4>3, <1>2, <1>3, <1>4 DEF Shape, Ordered
        <4>5. d[r].type = "FREE"
          BY DEF FreeIn
        <4>6. Within(e, h, b, p, max)
          BY <4>1, <4>4, <4>5, <2>4, <3>1, <1>1, <1>3, <1>7, <1>9 DEF Within, Merged
        <4> QED
          BY <4>6, <3>1
      <3>2. CASE x # b
        <4>1. PICK p \in DOMAIN h : Within(d, h, x, p, max)
          BY <2>1 DEF Shape, Placed
        <4>2. Within(e, h, x, p, max)
          BY <4>1, <3>2, <1>1, <1>8 DEF Within, Merged
        <4> QED
          BY <4>2
      <3> QED
        BY <3>1, <3>2
    <2> QED
      BY <2>2, <2>3, <2>4, <2>5, <1>1 DEF Merged
  <1> QED
    BY <1>1, <1>10, <1>11, <1>12, <1>13, <1>14 DEF Shape, e

-----------------------------------------------------------------------------
(* set_type.                                                                *)

(* What set_type(d, b, t) leaves: everything but b's type.                  *)
Retyped(d, e, b, t) ==
  /\ BlocksIn(e) = BlocksIn(d)
  /\ \A x \in BlocksIn(e) :
       /\ e[x].type = IF x = b THEN t ELSE d[x].type
       /\ e[x].index = d[x].index /\ e[x].left = d[x].left
       /\ e[x].right = d[x].right /\ e[x].size = d[x].size
       /\ e[x].total_size = d[x].total_size

LEMMA RetypeResult ==
  ASSUME NEW d, Typed(d), NEW b \in BlocksIn(d), NEW t \in {"FREE", "ARENA"}
  PROVE  Typed(set_type(d, b, t)) /\ Retyped(d, set_type(d, b, t), b, t)
  <1> DEFINE e == set_type(d, b, t)
             y == [d[b] EXCEPT !.type = t]
  <1>1. b \in DOMAIN d /\ d[b] \in Descriptor
    BY DEF BlocksIn, Typed
  <1>2. /\ y \in Descriptor /\ y.type = t /\ y.index = d[b].index
        /\ y.left = d[b].left /\ y.right = d[b].right
        /\ y.size = d[b].size /\ y.total_size = d[b].total_size
    BY <1>1 DEF Descriptor
  <1>3. DOMAIN e = DOMAIN d /\ e[b] = y /\ \A x \in DOMAIN d \ {b} : e[x] = d[x]
    BY <1>1 DEF set_type
  <1> HIDE DEF e, y
  <1>4. Typed(e)
    BY <1>2, <1>3 DEF Typed
  <1>5. BlocksIn(e) = BlocksIn(d)
    BY <1>1, <1>2, <1>3 DEF BlocksIn
  <1>6. \A x \in BlocksIn(e) : x \in DOMAIN d
    BY <1>5 DEF BlocksIn
  <1>7. Retyped(d, e, b, t)
    BY <1>2, <1>3, <1>5, <1>6 DEF Retyped
  <1> QED
    BY <1>4, <1>7 DEF e

(* Marking a block free or in use keeps the shape of the segments.          *)
LEMMA RetypeShape ==
  ASSUME NEW max \in Maxima,
         NEW d, NEW h, Shape(d, h, max), NEW b \in BlocksIn(d), d[b].type # "HUGE",
         NEW t \in {"FREE", "ARENA"}
  PROVE  Shape(set_type(d, b, t), h, max)
  <1> DEFINE e == set_type(d, b, t)
  <1>1. Typed(e) /\ Retyped(d, e, b, t)
    BY RetypeResult DEF Shape
  <1> HIDE DEF e
  <1>2. Linked(e)
    BY <1>1 DEF Shape, Linked, Retyped, EndIn
  <1>3. Ordered(e) /\ Sized(e) /\ HeldStarts(e, h)
    BY <1>1 DEF Shape, Ordered, Sized, HeldStarts, Retyped, EndIn
  <1>4. Placed(e, h, max)
    <2> SUFFICES ASSUME NEW x \in BlocksIn(e)
                 PROVE  /\ e[x].type = "HUGE" => e[x].left = NULL /\ e[x].right = NULL
                        /\ e[x].left = NULL => x \in DOMAIN h
                        /\ \E p \in DOMAIN h : Within(e, h, x, p, max)
      BY DEF Placed
    <2>1. x \in BlocksIn(d)
      BY <1>1 DEF Retyped
    <2>2. PICK p \in DOMAIN h : Within(d, h, x, p, max)
      BY <2>1 DEF Shape, Placed
    <2>3. Within(e, h, x, p, max)
      BY <1>1, <2>1, <2>2 DEF Within, Retyped, EndIn
    <2>4. /\ d[x].type = "HUGE" => d[x].left = NULL /\ d[x].right = NULL
          /\ d[x].left = NULL => x \in DOMAIN h
      BY <2>1 DEF Shape, Placed
    <2> QED
      BY <1>1, <2>3, <2>4 DEF Retyped
  <1> QED
    BY <1>1, <1>2, <1>3, <1>4 DEF Shape, e

-----------------------------------------------------------------------------
(* split.                                                                   *)

(* What split(d, b, size) leaves when something remains: a free block n     *)
(* between b and its former right buddy.                                    *)
Cut(d, e, b, size, n) ==
  /\ n \in Nat /\ b < n /\ n < EndIn(d, b) /\ n \notin BlocksIn(d)
  /\ BlocksIn(e) = BlocksIn(d) \cup {n}
  /\ \A x \in BlocksIn(d) :
       /\ e[x].type = d[x].type /\ e[x].index = d[x].index
       /\ e[x].left = IF x = d[b].right THEN n ELSE d[x].left
       /\ e[x].right = IF x = b THEN n ELSE d[x].right
       /\ e[x].total_size = IF x = b THEN size ELSE d[x].total_size
       /\ e[x].size = IF x = b THEN size - DescSize ELSE d[x].size
  /\ e[n].type = "FREE" /\ e[n].index = d[b].index
  /\ e[n].left = b /\ e[n].right = d[b].right
  /\ e[n].total_size = d[b].total_size - size
  /\ e[n].size = e[n].total_size - DescSize

LEMMA SplitResult ==
  ASSUME NEW max \in Maxima,
         NEW d, NEW h, Shape(d, h, max), NEW b \in FreeIn(d),
         NEW size \in Nat, size >= DescSize, size < SizeModulus, Leaves(d, b, size)
  PROVE  Typed(split(d, b, size)) /\ Cut(d, split(d, b, size), b, size, b + size)
  <1> DEFINE n == b + size
             next == d[b].right
             old == [d[b] EXCEPT !.right = n, !.size = Wrap(size - DescSize),
                                 !.total_size = size]
             new == Desc("FREE", d[b].index, d[b].total_size - size, b, next)
             both == Save(Save(d, n, new), b, old)
             e == split(d, b, size)
  <1>1. /\ b \in BlocksIn(d) /\ d[b] \in Descriptor /\ b \in DOMAIN d
        /\ DOMAIN d \subseteq Nat \ {NULL}
        /\ \A x \in DOMAIN d : d[x] \in Descriptor
    BY DEF Shape, Typed, FreeIn, BlocksIn
  <1>2. /\ b \in Nat /\ d[b].total_size \in Nat /\ d[b].index \in Nat /\ next \in Nat
        /\ size - DescSize \in Nat /\ Wrap(size - DescSize) = size - DescSize
    <2>1. b \in Nat /\ d[b].total_size \in Nat /\ d[b].index \in Nat /\ next \in Nat
      BY <1>1 DEF Descriptor
    <2>2. size - DescSize \in Nat /\ size - DescSize < SizeModulus
      BY BuddyConstants
    <2> QED
      BY <2>1, <2>2, WrapSame
  <1>3. n \in Nat /\ b < n /\ n < EndIn(d, b) /\ d[b].total_size - size > DescSize
    BY <1>2, BuddyConstants DEF Leaves, EndIn
  <1>4. n \notin BlocksIn(d)
    <2> SUFFICES ASSUME n \in BlocksIn(d) PROVE FALSE
      OBVIOUS
    <2>1. EndIn(d, b) <= n
      BY <1>1, <1>3 DEF Shape, Ordered
    <2> QED
      BY <2>1, <1>2, <1>3 DEF EndIn
  <1>5. next = NULL \/ (next \in BlocksIn(d) /\ next # b /\ next # n)
    <2>1. next # NULL => next \in BlocksIn(d) /\ next = EndIn(d, b)
      BY <1>1 DEF Shape, Linked
    <2> QED
      BY <2>1, <1>2, <1>3
  <1>6. /\ old \in Descriptor
        /\ old.type = "FREE" /\ old.index = d[b].index /\ old.left = d[b].left
        /\ old.right = n /\ old.total_size = size /\ old.size = size - DescSize
    <2>1. old \in Descriptor
      BY <1>1, <1>2, <1>3 DEF Descriptor
    <2>2. DOMAIN d[b] = {"type", "index", "size", "total_size", "left", "right"}
      BY <1>1 DEF Descriptor
    <2> QED
      BY <2>1, <2>2, <1>2 DEF FreeIn
  <1>7. /\ new \in Descriptor
        /\ new.type = "FREE" /\ new.index = d[b].index /\ new.left = b /\ new.right = next
        /\ new.total_size = d[b].total_size - size
        /\ new.size = new.total_size - DescSize
    <2>1. d[b].total_size - size \in Nat /\ (d[b].total_size - size) - DescSize \in Nat
      BY <1>2, <1>3, BuddyConstants
    <2> QED
      BY <1>1, <1>2, <2>1 DEF Desc, Descriptor
  <1>8. /\ DOMAIN both = DOMAIN d \cup {n}
        /\ both[b] = old /\ both[n] = new
        /\ \A x \in DOMAIN d \ {b, n} : both[x] = d[x]
    BY <1>1, <1>2, <1>3 DEF Save
  <1>9. e = IF next = NULL THEN both ELSE [both EXCEPT ![next].left = n]
    BY DEF split
  <1> HIDE DEF old, new, both, e
  <1>10. /\ DOMAIN e = DOMAIN d \cup {n}
         /\ e[b] = old /\ e[n] = new
         /\ \A x \in DOMAIN d \ {b, n} :
              e[x] = IF x = next THEN [d[x] EXCEPT !.left = n] ELSE d[x]
    <2>1. CASE next = NULL
      BY <2>1, <1>1, <1>8, <1>9
    <2>2. CASE next # NULL
      <3>1. e = [both EXCEPT ![next].left = n] /\ next \in DOMAIN both
        BY <2>2, <1>5, <1>8, <1>9 DEF BlocksIn
      <3> QED
        BY <3>1, <2>2, <1>5, <1>8
    <2> QED
      BY <2>1, <2>2
  <1>11. \A x \in DOMAIN d \ {b, n} :
           /\ e[x] \in Descriptor
           /\ e[x].type = d[x].type /\ e[x].index = d[x].index
           /\ e[x].left = IF x = next THEN n ELSE d[x].left
           /\ e[x].right = d[x].right /\ e[x].total_size = d[x].total_size
           /\ e[x].size = d[x].size
    <2> SUFFICES ASSUME NEW x \in DOMAIN d \ {b, n}
                 PROVE  /\ e[x] \in Descriptor
                        /\ e[x].type = d[x].type /\ e[x].index = d[x].index
                        /\ e[x].left = IF x = next THEN n ELSE d[x].left
                        /\ e[x].right = d[x].right /\ e[x].total_size = d[x].total_size
                        /\ e[x].size = d[x].size
      OBVIOUS
    <2>1. CASE x = next
      <3>1. e[x] = [d[x] EXCEPT !.left = n] /\ d[x] \in Descriptor
        BY <2>1, <1>1, <1>10
      <3>2. /\ e[x] \in Descriptor
            /\ e[x].type = d[x].type /\ e[x].index = d[x].index
            /\ e[x].left = n /\ e[x].right = d[x].right
            /\ e[x].total_size = d[x].total_size /\ e[x].size = d[x].size
        BY <3>1, <1>3 DEF Descriptor
      <3> QED
        BY <3>2, <2>1
    <2>2. CASE x # next
      BY <2>2, <1>1, <1>10
    <2> QED
      BY <2>1, <2>2
  <1>12. Typed(e)
    <2>1. DOMAIN e \subseteq Nat \ {NULL}
      BY <1>1, <1>2, <1>3, <1>10 DEF NULL
    <2> QED
      BY <2>1, <1>6, <1>7, <1>10, <1>11 DEF Typed
  <1>13. BlocksIn(e) = BlocksIn(d) \cup {n}
    BY <1>1, <1>4, <1>6, <1>7, <1>10, <1>11 DEF BlocksIn
  <1>14. \A x \in BlocksIn(d) :
           /\ e[x].type = d[x].type /\ e[x].index = d[x].index
           /\ e[x].left = IF x = next THEN n ELSE d[x].left
           /\ e[x].right = IF x = b THEN n ELSE d[x].right
           /\ e[x].total_size = IF x = b THEN size ELSE d[x].total_size
           /\ e[x].size = IF x = b THEN size - DescSize ELSE d[x].size
    <2> SUFFICES ASSUME NEW x \in BlocksIn(d)
                 PROVE  /\ e[x].type = d[x].type /\ e[x].index = d[x].index
                        /\ e[x].left = IF x = next THEN n ELSE d[x].left
                        /\ e[x].right = IF x = b THEN n ELSE d[x].right
                        /\ e[x].total_size = IF x = b THEN size ELSE d[x].total_size
                        /\ e[x].size = IF x = b THEN size - DescSize ELSE d[x].size
      OBVIOUS
    <2>1. CASE x = b
      <3>1. x # next /\ d[x].type = "FREE"
        BY <2>1, <1>1, <1>2, <1>5 DEF FreeIn, NULL
      <3> QED
        BY <3>1, <2>1, <1>6, <1>10
    <2>2. CASE x # b
      <3>1. x \in DOMAIN d \ {b, n}
        BY <2>2, <1>4 DEF BlocksIn
      <3> QED
        BY <3>1, <2>2, <1>11
    <2> QED
      BY <2>1, <2>2
  <1>15. Cut(d, e, b, size, n)
    BY <1>3, <1>4, <1>7, <1>10, <1>13, <1>14 DEF Cut
  <1> QED
    BY <1>12, <1>15 DEF e

(* Cutting a free block keeps the shape of the segments.                    *)
LEMMA SplitShape ==
  ASSUME NEW max \in Maxima,
         NEW d, NEW h, Shape(d, h, max), NEW b \in FreeIn(d),
         NEW size \in Nat, size >= DescSize, size < SizeModulus, Leaves(d, b, size)
  PROVE  Shape(split(d, b, size), h, max)
  <1> DEFINE e == split(d, b, size)
             n == b + size
             next == d[b].right
  <1>1. Typed(e) /\ Cut(d, e, b, size, n)
    BY SplitResult
  <1> HIDE DEF e
  <1>2. /\ b \in BlocksIn(d) /\ d[b].type = "FREE"
        /\ \A x \in BlocksIn(d) : x \in Nat \ {NULL} /\ d[x] \in Descriptor
    BY DEF Shape, Typed, FreeIn, BlocksIn
  <1>3. d[b].total_size \in Nat /\ d[b].total_size - size > DescSize /\ b \in Nat
    BY <1>2 DEF Leaves, Descriptor
  <1>4. next # NULL => /\ next \in BlocksIn(d) /\ next = EndIn(d, b)
                       /\ d[next].left = b /\ d[next].index = d[b].index
    BY <1>2 DEF Shape, Linked
  <1>5. n \in Nat /\ b < n /\ n < EndIn(d, b) /\ n \notin BlocksIn(d) /\ n # NULL /\ n # next
    BY <1>1, <1>2, <1>3, <1>4 DEF Cut, NULL
  <1>6. EndIn(e, b) = n /\ EndIn(e, n) = EndIn(d, b) /\ n \in BlocksIn(e)
    BY <1>1, <1>2, <1>3 DEF Cut, EndIn
  <1>7. \A x \in BlocksIn(d) \ {b} : EndIn(e, x) = EndIn(d, x)
    BY <1>1 DEF Cut, EndIn
  <1>8. next # b
    BY <1>2, <1>4, <1>5
  <1>9. Linked(e)
    <2> SUFFICES ASSUME NEW x \in BlocksIn(e)
                 PROVE  /\ e[x].right # NULL =>
                             /\ e[x].right \in BlocksIn(e) /\ e[x].right = EndIn(e, x)
                             /\ e[e[x].right].left = x
                             /\ e[e[x].right].index = e[x].index
                        /\ e[x].left # NULL =>
                             e[x].left \in BlocksIn(e) /\ e[e[x].left].right = x
      BY DEF Linked
    <2>1. CASE x = n
      <3>1. e[x].right = next /\ e[x].left = b /\ e[b].right = n /\ e[x].index = d[b].index
        BY <1>1, <1>2, <2>1 DEF Cut
      <3>2. next # NULL => e[next].left = n /\ e[next].index = d[b].index /\ next \in BlocksIn(e)
        BY <1>1, <1>4 DEF Cut
      <3> QED
        BY <3>1, <3>2, <1>1, <1>2, <1>4, <1>6, <2>1 DEF Cut
    <2>2. CASE x = b
      <3>1. e[x].right = n /\ e[n].left = b /\ e[n].index = e[b].index
        BY <1>1, <1>2, <2>2 DEF Cut
      <3>2. e[x].left = d[x].left
        BY <1>1, <1>2, <1>8, <2>2 DEF Cut
      <3>3. d[x].left # NULL => /\ d[x].left \in BlocksIn(d) /\ d[d[x].left].right = x
        BY <1>2, <2>2 DEF Shape, Linked
      <3>4. d[x].left # b
        BY <3>3, <1>2, <1>8, <2>2
      <3> QED
        BY <3>1, <3>2, <3>3, <3>4, <1>1, <1>6, <2>2 DEF Cut
    <2>3. CASE x # n /\ x # b
      <3>1. /\ x \in BlocksIn(d) /\ e[x].right = d[x].right /\ e[x].index = d[x].index
            /\ e[x].left = IF x = next THEN n ELSE d[x].left
            /\ EndIn(e, x) = EndIn(d, x)
        BY <1>1, <1>7, <2>3 DEF Cut
      <3>2. d[x].right # NULL => /\ d[x].right \in BlocksIn(d) /\ d[x].right = EndIn(d, x)
                                 /\ d[d[x].right].left = x
                                 /\ d[d[x].right].index = d[x].index
        BY <3>1 DEF Shape, Linked
      <3>3. d[x].left # NULL => d[x].left \in BlocksIn(d) /\ d[d[x].left].right = x
        BY <3>1 DEF Shape, Linked
      <3>4. d[x].right # NULL => d[x].right # next
        BY <3>2, <1>4, <2>3
      <3>5. e[x].right # NULL => /\ e[x].right \in BlocksIn(e) /\ e[x].right = EndIn(e, x)
                                 /\ e[e[x].right].left = x
                                 /\ e[e[x].right].index = e[x].index
        BY <3>1, <3>2, <3>4, <1>1 DEF Cut
      <3>6. CASE x = next
        BY <3>1, <3>5, <3>6, <1>1, <1>6 DEF Cut
      <3>7. CASE x # next
        <4>1. d[x].left # NULL => d[x].left # b
          BY <3>3, <3>7
        <4> QED
          BY <3>1, <3>3, <3>5, <3>7, <4>1, <1>1 DEF Cut
      <3> QED
        BY <3>6, <3>7
    <2> QED
      BY <2>1, <2>2, <2>3
  <1>10. Ordered(e)
    <2> SUFFICES ASSUME NEW x \in BlocksIn(e), NEW y \in BlocksIn(e), x < y
                 PROVE  EndIn(e, x) <= y
      BY DEF Ordered
    <2>1. \A z \in BlocksIn(e) : z = n \/ (z \in BlocksIn(d) /\ z \in Nat /\ EndIn(d, z) \in Nat)
      BY <1>1, <1>2 DEF Cut, EndIn, Descriptor
    <2>2. \A v, w \in BlocksIn(d) : v < w => EndIn(d, v) <= w
      BY DEF Shape, Ordered
    <2>3. EndIn(d, b) = b + d[b].total_size
      BY DEF EndIn
    <2>4. CASE x = n
      BY <1>2, <1>3, <1>5, <1>6, <2>1, <2>2, <2>4
    <2>5. CASE x = b
      BY <1>2, <1>3, <1>5, <1>6, <2>1, <2>2, <2>3, <2>5
    <2>6. CASE x # n /\ x # b
      <3>1. CASE y = n
        <4>1. x \in BlocksIn(d) /\ x \in Nat /\ EndIn(e, x) = EndIn(d, x)
          BY <1>7, <2>1, <2>6
        <4>2. x < b
          <5>1. b < x => EndIn(d, b) <= x
            BY <1>2, <2>2, <4>1
          <5> QED
            BY <5>1, <1>3, <1>5, <2>3, <2>6, <3>1, <4>1
        <4>3. EndIn(d, x) <= b
          BY <4>1, <4>2, <1>2, <2>2
        <4> QED
          BY <4>1, <4>3, <1>3, <1>5, <2>1, <2>6, <3>1
      <3>2. CASE y # n
        BY <1>7, <2>1, <2>2, <2>6, <3>2
      <3> QED
        BY <3>1, <3>2
    <2> QED
      BY <2>4, <2>5, <2>6
  <1>11. Sized(e)
    <2> SUFFICES ASSUME NEW x \in BlocksIn(e)
                 PROVE  e[x].total_size >= DescSize /\ e[x].size = e[x].total_size - DescSize
      BY DEF Sized
    <2>1. CASE x = n
      BY <1>1, <1>3, <2>1, BuddyConstants DEF Cut
    <2>2. CASE x = b
      BY <1>1, <1>2, <2>2 DEF Cut
    <2>3. CASE x # n /\ x # b
      BY <1>1, <2>3 DEF Cut, Shape, Sized
    <2> QED
      BY <2>1, <2>2, <2>3
  <1>12. HeldStarts(e, h)
    <2> SUFFICES ASSUME NEW p \in DOMAIN h
                 PROVE  p \in BlocksIn(e) /\ e[p].left = NULL
      BY DEF HeldStarts
    <2>1. p \in BlocksIn(d) /\ d[p].left = NULL
      BY DEF Shape, HeldStarts
    <2>2. p # next
      BY <2>1, <1>2, <1>4
    <2> QED
      BY <2>1, <2>2, <1>1 DEF Cut
  <1>13. Placed(e, h, max)
    <2> SUFFICES ASSUME NEW x \in BlocksIn(e)
                 PROVE  /\ e[x].type = "HUGE" => e[x].left = NULL /\ e[x].right = NULL
                        /\ e[x].left = NULL => x \in DOMAIN h
                        /\ \E p \in DOMAIN h : Within(e, h, x, p, max)
      BY DEF Placed
    <2>1. PICK q \in DOMAIN h : Within(d, h, b, q, max)
      BY <1>2 DEF Shape, Placed
    <2>2. q \in Nat
      BY DEF Shape, HeldTyped
    <2>3. CASE x = n
      <3>1. Within(e, h, n, q, max)
        <4>1. q <= n
          BY <2>1, <2>2, <1>3, <1>5 DEF Within
        <4>2. e[n].type = "FREE" /\ e[n].index = d[b].index /\ e[n].right = next
          BY <1>1 DEF Cut
        <4> QED
          BY <4>1, <4>2, <2>1, <1>2, <1>6 DEF Within
      <3>2. e[n].type = "FREE" /\ e[n].left = b
        BY <1>1 DEF Cut
      <3> QED
        BY <3>1, <3>2, <2>3, <1>2
    <2>4. CASE x = b
      <3>1. /\ e[b].type = "FREE" /\ e[b].index = d[b].index /\ e[b].right = n
            /\ e[b].left = d[b].left
        BY <1>1, <1>2, <1>8 DEF Cut
      <3>2. Within(e, h, b, q, max)
        <4>1. EndIn(d, b) <= q + h[q].size /\ EndIn(d, b) \in Nat /\ q + h[q].size \in Nat
          BY <2>1, <2>2, <1>3 DEF Within, Shape, HeldTyped, EndIn
        <4>2. EndIn(e, b) <= q + h[q].size
          BY <4>1, <1>5, <1>6
        <4> QED
          BY <3>1, <4>2, <2>1, <1>2, <1>5 DEF Within
      <3>3. d[b].left = NULL => b \in DOMAIN h
        BY <1>2 DEF Shape, Placed
      <3> QED
        BY <3>1, <3>2, <3>3, <2>4
    <2>5. CASE x # n /\ x # b
      <3>1. /\ x \in BlocksIn(d) /\ e[x].type = d[x].type /\ e[x].index = d[x].index
            /\ e[x].right = d[x].right /\ EndIn(e, x) = EndIn(d, x)
            /\ e[x].left = IF x = next THEN n ELSE d[x].left
        BY <1>1, <1>7, <2>5 DEF Cut
      <3>2. PICK p \in DOMAIN h : Within(d, h, x, p, max)
        BY <3>1 DEF Shape, Placed
      <3>3. Within(e, h, x, p, max)
        BY <3>1, <3>2 DEF Within
      <3>4. /\ d[x].type = "HUGE" => d[x].left = NULL /\ d[x].right = NULL
            /\ d[x].left = NULL => x \in DOMAIN h
        BY <3>1 DEF Shape, Placed
      <3>5. x = next => d[x].type # "HUGE"
        BY <3>4, <1>2, <1>4, <3>1
      <3> QED
        BY <3>1, <3>3, <3>4, <3>5, <1>5
    <2> QED
      BY <2>3, <2>4, <2>5
  <1> QED
    BY <1>1, <1>9, <1>10, <1>11, <1>12, <1>13 DEF Shape, e

-----------------------------------------------------------------------------
(* Memory of the system allocator comes and goes.                           *)

(* A block that is a whole piece of memory apart from all that is held.     *)
LEMMA ObtainShape ==
  ASSUME NEW max \in Maxima,
         NEW d, NEW h, Shape(d, h, max), NEW p \in Nat \ {NULL}, NEW size \in Nat,
         size >= DescSize, NEW i \in Nat, NEW t \in {"FREE", "HUGE"},
         t = "FREE" => size = max,
         \A q \in DOMAIN h : Apart(p, size, q, h[q].size)
  PROVE  LET e == Save(d, p, Desc(t, i, size, NULL, NULL)) IN
         /\ Shape(e, Hold(h, p, size, i), max)
         /\ p \notin BlocksIn(d) /\ BlocksIn(e) = BlocksIn(d) \cup {p}
         /\ e[p] = Desc(t, i, size, NULL, NULL)
         /\ \A x \in BlocksIn(d) : e[x] = d[x]
  <1> DEFINE new == Desc(t, i, size, NULL, NULL)
             e == Save(d, p, new)
             g == Hold(h, p, size, i)
  <1>1. /\ new \in Descriptor /\ new.type = t /\ new.index = i /\ new.total_size = size
        /\ new.size = size - DescSize /\ new.left = NULL /\ new.right = NULL
    <2>1. size - DescSize \in Nat
      BY BuddyConstants
    <2> QED
      BY <2>1 DEF Desc, Descriptor, NULL
  <1>2. /\ DOMAIN e = DOMAIN d \cup {p} /\ e[p] = new
        /\ \A x \in DOMAIN d \ {p} : e[x] = d[x]
    BY DEF Save
  <1>3. /\ DOMAIN g = DOMAIN h \cup {p} /\ g[p] = [size |-> size, index |-> i]
        /\ \A q \in DOMAIN h \ {p} : g[q] = h[q]
    BY DEF Hold, Save
  <1>4. /\ \A x \in BlocksIn(d) : /\ x \in Nat \ {NULL} /\ d[x] \in Descriptor
                                  /\ d[x].total_size \in Nat /\ d[x].total_size > 0
        /\ \A q \in DOMAIN h : q \in Nat /\ h[q].size \in Nat
        /\ size > 0
    <2>1. \A x \in BlocksIn(d) : /\ x \in Nat \ {NULL} /\ d[x] \in Descriptor
                                 /\ d[x].total_size \in Nat
      BY DEF Shape, Typed, BlocksIn, Descriptor
    <2>2. \A x \in BlocksIn(d) : d[x].total_size >= DescSize
      BY DEF Shape, Sized
    <2>3. \A q \in DOMAIN h : q \in Nat /\ h[q].size \in Nat
      BY DEF Shape, HeldTyped
    <2> QED
      BY <2>1, <2>2, <2>3, BuddyConstants
  <1> HIDE DEF new, e, g
  <1>5. \A x \in BlocksIn(d) : EndIn(d, x) <= p \/ p + size <= x
    <2> SUFFICES ASSUME NEW x \in BlocksIn(d) PROVE EndIn(d, x) <= p \/ p + size <= x
      OBVIOUS
    <2>1. PICK q \in DOMAIN h : Within(d, h, x, q, max)
      BY DEF Shape, Placed
    <2>2. /\ q \in Nat /\ h[q].size \in Nat /\ q <= x /\ EndIn(d, x) <= q + h[q].size
          /\ EndIn(d, x) \in Nat /\ x \in Nat
      BY <2>1, <1>4 DEF Within, EndIn
    <2>3. Apart(p, size, q, h[q].size)
      OBVIOUS
    <2> QED
      BY <2>2, <2>3 DEF Apart
  <1>6. p \notin BlocksIn(d) /\ p \notin DOMAIN h
    <2>1. p \notin BlocksIn(d)
      BY <1>4, <1>5 DEF EndIn
    <2> QED
      BY <2>1 DEF Shape, HeldStarts
  <1>7. /\ BlocksIn(e) = BlocksIn(d) \cup {p}
        /\ \A x \in BlocksIn(d) : e[x] = d[x] /\ EndIn(e, x) = EndIn(d, x)
        /\ EndIn(e, p) = p + size
    BY <1>1, <1>2, <1>6 DEF BlocksIn, EndIn
  <1>8. Typed(e) /\ HeldTyped(g)
    BY <1>1, <1>2, <1>3 DEF Shape, Typed, HeldTyped
  <1>9. Linked(e)
    <2> SUFFICES ASSUME NEW x \in BlocksIn(e)
                 PROVE  /\ e[x].right # NULL =>
                             /\ e[x].right \in BlocksIn(e) /\ e[x].right = EndIn(e, x)
                             /\ e[e[x].right].left = x
                             /\ e[e[x].right].index = e[x].index
                        /\ e[x].left # NULL =>
                             e[x].left \in BlocksIn(e) /\ e[e[x].left].right = x
      BY DEF Linked
    <2>1. CASE x = p
      BY <2>1, <1>1, <1>2
    <2>2. CASE x # p
      BY <2>2, <1>7 DEF Shape, Linked
    <2> QED
      BY <2>1, <2>2
  <1>10. Ordered(e)
    BY <1>4, <1>5, <1>7 DEF Shape, Ordered, EndIn
  <1>11. Sized(e)
    BY <1>1, <1>2, <1>7 DEF Shape, Sized
  <1>12. HeldApart(g)
    <2> SUFFICES ASSUME NEW q \in DOMAIN g, NEW s \in DOMAIN g, q < s
                 PROVE  q + g[q].size <= s
      BY DEF HeldApart
    <2>1. \A z \in DOMAIN g : z = p \/ (z \in DOMAIN h /\ g[z] = h[z] /\ Apart(p, size, z, h[z].size))
      BY <1>3
    <2>2. g[p].size = size
      BY <1>3
    <2> QED
      BY <2>1, <2>2, <1>4 DEF Shape, HeldApart, Apart
  <1>13. HeldStarts(e, g)
    BY <1>1, <1>2, <1>3, <1>7 DEF Shape, HeldStarts
  <1>14. Placed(e, g, max)
    <2> SUFFICES ASSUME NEW x \in BlocksIn(e)
                 PROVE  /\ e[x].type = "HUGE" => e[x].left = NULL /\ e[x].right = NULL
                        /\ e[x].left = NULL => x \in DOMAIN g
                        /\ \E q \in DOMAIN g : Within(e, g, x, q, max)
      BY DEF Placed
    <2>1. CASE x = p
      <3>1. Within(e, g, p, p, max)
        BY <1>1, <1>2, <1>3, <1>7 DEF Within
      <3> QED
        BY <3>1, <2>1, <1>1, <1>2, <1>3
    <2>2. CASE x # p
      <3>1. x \in BlocksIn(d) /\ e[x] = d[x] /\ EndIn(e, x) = EndIn(d, x)
        BY <2>2, <1>7
      <3>2. PICK q \in DOMAIN h : Within(d, h, x, q, max)
        BY <3>1 DEF Shape, Placed
      <3>3. q \in DOMAIN g /\ g[q] = h[q]
        BY <1>3, <1>6
      <3>4. Within(e, g, x, q, max)
        BY <3>1, <3>2, <3>3 DEF Within
      <3> QED
        BY <3>1, <3>3, <3>4, <1>3 DEF Shape, Placed
    <2> QED
      BY <2>1, <2>2
  <1> QED
    BY <1>2, <1>6, <1>7, <1>8, <1>9, <1>10, <1>11, <1>12, <1>13, <1>14 DEF Shape, e, g, new

(* The block at the start of a piece of held memory lies in that piece.     *)
LEMMA OwnHolder ==
  ASSUME NEW max \in Maxima,
         NEW d, NEW h, Shape(d, h, max), NEW b \in BlocksIn(d), b \in DOMAIN h
  PROVE  Within(d, h, b, b, max)
  <1>1. PICK r \in DOMAIN h : Within(d, h, b, r, max)
    BY DEF Shape, Placed
  <1>2. /\ r \in Nat /\ b \in Nat /\ h[r].size \in Nat
        /\ d[b].total_size \in Nat /\ d[b].total_size > 0
    BY BuddyConstants DEF Shape, HeldTyped, Sized, Typed, BlocksIn, Descriptor
  <1>3. r <= b /\ EndIn(d, b) <= r + h[r].size
    BY <1>1 DEF Within
  <1>4. r < b => r + h[r].size <= b
    BY DEF Shape, HeldApart
  <1>5. r = b
    BY <1>2, <1>3, <1>4 DEF EndIn
  <1> QED
    BY <1>1, <1>5

(* A block that is a whole piece of memory is given back.                   *)
LEMMA ReturnShape ==
  ASSUME NEW max \in Maxima,
         NEW d, NEW h, Shape(d, h, max), NEW b \in BlocksIn(d),
         b \in DOMAIN h, d[b].left = NULL, d[b].right = NULL
  PROVE  /\ Shape(Drop(d, b), Drop(h, b), max)
         /\ BlocksIn(Drop(d, b)) = BlocksIn(d) \ {b}
         /\ \A x \in BlocksIn(d) \ {b} : Drop(d, b)[x] = d[x]
  <1> DEFINE e == Drop(d, b)
             g == Drop(h, b)
  <1>1. DOMAIN e = DOMAIN d \ {b} /\ \A x \in DOMAIN d \ {b} : e[x] = d[x]
    BY DEF Drop
  <1>2. DOMAIN g = DOMAIN h \ {b} /\ \A q \in DOMAIN h \ {b} : g[q] = h[q]
    BY DEF Drop
  <1> HIDE DEF e, g
  <1>3. /\ BlocksIn(e) = BlocksIn(d) \ {b}
        /\ \A x \in BlocksIn(d) \ {b} : e[x] = d[x] /\ EndIn(e, x) = EndIn(d, x)
    BY <1>1 DEF BlocksIn, EndIn
  <1>4. Typed(e) /\ HeldTyped(g)
    BY <1>1, <1>2 DEF Shape, Typed, HeldTyped
  <1>5. \A x \in BlocksIn(d) : x # NULL
    BY DEF Shape, Typed, BlocksIn
  <1>6. Linked(e)
    <2> SUFFICES ASSUME NEW x \in BlocksIn(e)
                 PROVE  /\ e[x].right # NULL =>
                             /\ e[x].right \in BlocksIn(e) /\ e[x].right = EndIn(e, x)
                             /\ e[e[x].right].left = x
                             /\ e[e[x].right].index = e[x].index
                        /\ e[x].left # NULL =>
                             e[x].left \in BlocksIn(e) /\ e[e[x].left].right = x
      BY DEF Linked
    <2>1. x \in BlocksIn(d) /\ x # b /\ e[x] = d[x] /\ EndIn(e, x) = EndIn(d, x)
      BY <1>3
    <2>2. /\ d[x].right # NULL =>
              /\ d[x].right \in BlocksIn(d) /\ d[x].right = EndIn(d, x)
              /\ d[d[x].right].left = x /\ d[d[x].right].index = d[x].index
          /\ d[x].left # NULL =>
              d[x].left \in BlocksIn(d) /\ d[d[x].left].right = x
      BY <2>1 DEF Shape, Linked
    <2>3. d[x].right # b \/ d[x].right = NULL
      BY <2>1, <2>2, <1>5
    <2>4. d[x].left # b \/ d[x].left = NULL
      BY <2>1, <2>2, <1>5
    <2> QED
      BY <2>1, <2>2, <2>3, <2>4, <1>3
  <1>7. Ordered(e) /\ Sized(e) /\ HeldApart(g) /\ HeldStarts(e, g)
    BY <1>2, <1>3 DEF Shape, Ordered, Sized, HeldApart, HeldStarts
  <1>8. Placed(e, g, max)
    <2> SUFFICES ASSUME NEW x \in BlocksIn(e)
                 PROVE  /\ e[x].type = "HUGE" => e[x].left = NULL /\ e[x].right = NULL
                        /\ e[x].left = NULL => x \in DOMAIN g
                        /\ \E q \in DOMAIN g : Within(e, g, x, q, max)
      BY DEF Placed
    <2>1. x \in BlocksIn(d) /\ x # b /\ e[x] = d[x] /\ EndIn(e, x) = EndIn(d, x)
      BY <1>3
    <2>2. PICK q \in DOMAIN h : Within(d, h, x, q, max)
      BY <2>1 DEF Shape, Placed
    <2>3. q # b
      <3> SUFFICES ASSUME q = b PROVE FALSE
        OBVIOUS
      <3>3. EndIn(d, b) = b + h[b].size
        BY OwnHolder DEF Within
      <3>4. /\ x \in Nat /\ b \in Nat /\ d[x].total_size \in Nat /\ d[x].total_size > 0
            /\ h[b].size \in Nat
        BY <2>1, BuddyConstants DEF Shape, HeldTyped, Sized, Typed, BlocksIn, Descriptor
      <3>5. b < x
        BY <2>1, <2>2, <3>4 DEF Within
      <3>6. EndIn(d, b) <= x
        BY <3>5, <2>1 DEF Shape, Ordered
      <3>7. EndIn(d, x) <= b + h[b].size
        BY <2>2 DEF Within
      <3> QED
        BY <3>3, <3>4, <3>6, <3>7 DEF EndIn
    <2>4. Within(e, g, x, q, max)
      BY <2>1, <2>2, <2>3, <1>2 DEF Within
    <2> QED
      BY <2>1, <2>3, <2>4, <1>2 DEF Shape, Placed
  <1> QED
    BY <1>3, <1>4, <1>6, <1>7, <1>8 DEF Shape, e, g

-----------------------------------------------------------------------------
(* The two joins of Free.                                                   *)

EntriesOf(d, S) == {Entry(d, x) : x \in S}

(* No free block other than c has a free right buddy other than c.          *)
QuietBut(d, c) ==
  \A x \in FreeIn(d) \ {c} :
    d[x].right # NULL /\ d[x].right # c => d[d[x].right].type # "FREE"

RightInUse(d, b) == d[b].right # NULL => d[d[b].right].type # "FREE"

Quiet(d) == \A x \in FreeIn(d) : RightInUse(d, x)

(* Between the steps of Free: b is free but not in the pool yet, and only b *)
(* may have free buddies.                                                   *)
StageOK(d, p, b, h, max) ==
  /\ Shape(d, h, max) /\ b \in FreeIn(d)
  /\ p = EntriesOf(d, FreeIn(d) \ {b})
  /\ QuietBut(d, b)

(* What clients hold is the same in d and e.                                *)
Kept(d, e) ==
  /\ InUse(e) = InUse(d)
  /\ \A x \in InUse(d) : e[x].type = d[x].type /\ e[x].total_size = d[x].total_size

LEMMA EntryRemoved ==
  ASSUME NEW d, NEW S, NEW x \in S
  PROVE  EntriesOf(d, S) \ {Entry(d, x)} = EntriesOf(d, S \ {x})
  BY DEF EntriesOf, Entry

LEMMA EntriesSame ==
  ASSUME NEW d, NEW e, NEW S,
         \A x \in S : e[x].index = d[x].index /\ e[x].total_size = d[x].total_size
  PROVE  EntriesOf(e, S) = EntriesOf(d, S)
  BY DEF EntriesOf, Entry

(* A right buddy is a block to the right, whose left buddy is the block.    *)
LEMMA RightBuddy ==
  ASSUME NEW max \in Maxima,
         NEW d, NEW h, Shape(d, h, max), NEW b \in BlocksIn(d), d[b].right # NULL
  PROVE  /\ d[b].right \in BlocksIn(d) /\ d[d[b].right].left = b
         /\ b \in Nat /\ d[b].right \in Nat /\ b < d[b].right
         /\ d[d[b].right].type # "HUGE" /\ b # NULL
  <1>1. /\ d[b].right \in BlocksIn(d) /\ d[b].right = EndIn(d, b)
        /\ d[d[b].right].left = b
    BY DEF Shape, Linked
  <1>2. /\ b \in Nat /\ d[b].total_size \in Nat /\ d[b].total_size > 0 /\ b # NULL
        /\ d[b].right \in Nat
    BY <1>1, BuddyConstants DEF Shape, Sized, Typed, BlocksIn, Descriptor
  <1>3. d[d[b].right].type # "HUGE"
    BY <1>1, <1>2 DEF Shape, Placed
  <1> QED
    BY <1>1, <1>2, <1>3 DEF EndIn

LEMMA JoinRightStage ==
  ASSUME NEW max \in Maxima,
         NEW d, NEW p, NEW b, NEW h, StageOK(d, p, b, h, max)
  PROVE  LET s == JoinRight(Stage(d, p, b, TRUE)) IN
         /\ s = Stage(s.desc, s.pool, b, TRUE) /\ StageOK(s.desc, s.pool, b, h, max)
         /\ Kept(d, s.desc) /\ RightInUse(s.desc, b)
         /\ BlocksIn(s.desc) \subseteq BlocksIn(d)
  <1> DEFINE r == d[b].right
             s == JoinRight(Stage(d, p, b, TRUE))
             e == merge(d, b, r)
             next == d[r].right
  <1>1. b \in FreeIn(d) /\ b \in BlocksIn(d) /\ Shape(d, h, max)
    BY DEF StageOK, FreeIn, BlocksIn
  <1>2. CASE r # NULL /\ d[r].type = "FREE"
    <2>1. /\ s.desc = e /\ s.pool = p \ {Entry(d, r)}
          /\ s = Stage(e, p \ {Entry(d, r)}, b, TRUE)
      <3>1. d[b].type = "FREE"
        BY <1>1 DEF FreeIn
      <3>2. (TRUE /\ merge_asserts(d, b, r)) = TRUE
        BY <1>2, <3>1 DEF merge_asserts
      <3>3. s = Stage(e, p \ {Entry(d, r)}, b, TRUE)
        BY <1>2, <3>2 DEF JoinRight, Stage
      <3> HIDE DEF s
      <3> QED BY <3>3 DEF Stage
    <2>2. r \in FreeIn(d) /\ r \in BlocksIn(d) /\ b < r /\ b \in Nat /\ r \in Nat
      BY <1>1, <1>2, RightBuddy DEF FreeIn, BlocksIn
    <2> HIDE DEF s, e
    <2>3. Shape(e, h, max) /\ Merged(d, e, b, r)
      BY <1>1, <2>2, MergeShape, MergeResult DEF e
    <2>4. next # NULL => next \in BlocksIn(d) /\ r < next /\ next \in Nat
      BY <1>1, <2>2, RightBuddy
    <2>5. next # b /\ next # r
      BY <2>2, <2>4, <1>1 DEF Shape, Typed, BlocksIn
    <2>6. b \in FreeIn(e) /\ FreeIn(e) = FreeIn(d) \ {r} /\ BlocksIn(e) = BlocksIn(d) \ {r}
      BY <2>2, <2>3, <1>1 DEF Merged
    <2>7. p \ {Entry(d, r)} = EntriesOf(e, FreeIn(e) \ {b})
      <3>1. p = EntriesOf(d, FreeIn(d) \ {b}) /\ r \in FreeIn(d) \ {b}
        BY <2>2 DEF StageOK
      <3>2. p \ {Entry(d, r)} = EntriesOf(d, (FreeIn(d) \ {b}) \ {r})
        BY <3>1, EntryRemoved
      <3>3. (FreeIn(d) \ {b}) \ {r} = FreeIn(e) \ {b}
        BY <2>6
      <3>4. \A x \in FreeIn(e) \ {b} : e[x].index = d[x].index /\ e[x].total_size = d[x].total_size
        BY <2>3, <2>6 DEF Merged, FreeIn, BlocksIn
      <3>5. EntriesOf(e, FreeIn(e) \ {b}) = EntriesOf(d, FreeIn(e) \ {b})
        BY <3>4, EntriesSame
      <3> QED
        BY <3>2, <3>3, <3>5
    <2>8. e[b].right = next
      BY <2>3, <2>6, <1>1, <2>2 DEF Merged
    <2>9. RightInUse(e, b)
      <3>1. next # NULL => d[next].type # "FREE"
        BY <2>2, <2>5 DEF StageOK, QuietBut
      <3>2. next # NULL => next \in BlocksIn(e)
        BY <2>4, <2>5, <2>6
      <3> QED
        BY <2>3, <2>8, <3>1, <3>2 DEF RightInUse, Merged
    <2>10. QuietBut(e, b)
      <3> SUFFICES ASSUME NEW x \in FreeIn(e) \ {b}, e[x].right # NULL, e[x].right # b
                   PROVE  e[e[x].right].type # "FREE"
        BY DEF QuietBut
      <3>1. /\ x \in FreeIn(d) \ {b} /\ x \in BlocksIn(d) /\ x \in BlocksIn(e)
            /\ e[x].right = d[x].right
        BY <2>3, <2>6 DEF Merged, FreeIn, BlocksIn
      <3>2. d[d[x].right].type # "FREE" /\ d[x].right \in BlocksIn(d)
        BY <3>1, <1>1, RightBuddy DEF StageOK, QuietBut
      <3>3. d[x].right # r
        BY <3>2, <2>2 DEF FreeIn
      <3> QED
        BY <3>1, <3>2, <3>3, <2>3, <2>6 DEF Merged
    <2>11. Kept(d, e)
      <3>1. \A x \in InUse(d) : x \in BlocksIn(e) /\ x # b
        BY <2>6, <1>1, <2>2 DEF InUse, BlocksIn, FreeIn
      <3> QED
        BY <3>1, <2>3 DEF Kept, Merged
    <2> QED
      BY <2>1, <2>3, <2>6, <2>7, <2>9, <2>10, <2>11 DEF StageOK, s
  <1>3. CASE ~(r # NULL /\ d[r].type = "FREE")
    <2>1. s.desc = d /\ s.pool = p /\ s = Stage(d, p, b, TRUE)
      BY <1>3 DEF JoinRight, Stage
    <2> HIDE DEF s
    <2>2. Kept(d, d) /\ RightInUse(d, b)
      BY <1>3 DEF RightInUse, Kept
    <2>3. /\ s = Stage(s.desc, s.pool, b, TRUE) /\ StageOK(s.desc, s.pool, b, h, max)
          /\ Kept(d, s.desc) /\ RightInUse(s.desc, b)
          /\ BlocksIn(s.desc) \subseteq BlocksIn(d)
      BY <2>1, <2>2
    <2> QED
      BY <2>3 DEF s
  <1> QED
    BY <1>2, <1>3

LEMMA JoinLeftStage ==
  ASSUME NEW max \in Maxima,
         NEW d, NEW p, NEW b, NEW h, StageOK(d, p, b, h, max), RightInUse(d, b)
  PROVE  LET s == JoinLeft(Stage(d, p, b, TRUE)) IN
         /\ s.ok = TRUE /\ StageOK(s.desc, s.pool, s.block, h, max)
         /\ Kept(d, s.desc) /\ Quiet(s.desc)
         /\ BlocksIn(s.desc) \subseteq BlocksIn(d)
  <1> DEFINE l == d[b].left
             s == JoinLeft(Stage(d, p, b, TRUE))
             e == merge(d, l, b)
             next == d[b].right
  <1>1. b \in FreeIn(d) /\ b \in BlocksIn(d) /\ Shape(d, h, max)
    BY DEF StageOK, FreeIn, BlocksIn
  <1>2. l # NULL => l \in BlocksIn(d) /\ d[l].right = b
    BY <1>1 DEF Shape, Linked
  <1>3. b # NULL
    BY <1>1 DEF Shape, Typed, BlocksIn
  <1>4. CASE l # NULL /\ d[l].type = "FREE"
    <2>1. s.block = l /\ s.desc = e /\ s.pool = p \ {Entry(d, l)} /\ s.ok = TRUE
      <3>1. d[b].type = "FREE"
        BY <1>1 DEF FreeIn
      <3>2. (TRUE /\ merge_asserts(d, l, b)) = TRUE
        BY <1>4, <3>1 DEF merge_asserts
      <3>3. s = Stage(e, p \ {Entry(d, l)}, l, TRUE)
        BY <1>4, <3>2 DEF JoinLeft, Stage
      <3> HIDE DEF s
      <3> QED BY <3>3 DEF Stage
    <2>2. /\ l \in FreeIn(d) /\ l \in BlocksIn(d) /\ d[l].right = b
          /\ l < b /\ l \in Nat /\ b \in Nat
      BY <1>1, <1>2, <1>3, <1>4, RightBuddy DEF FreeIn, BlocksIn
    <2> HIDE DEF s, e
    <2>3. Shape(e, h, max) /\ Merged(d, e, l, b)
      BY <1>1, <2>2, MergeShape, MergeResult DEF e
    <2>4. next # NULL => /\ next \in BlocksIn(d) /\ b < next /\ next \in Nat
                         /\ d[next].type # "FREE"
      BY <1>1, RightBuddy DEF RightInUse
    <2>5. next # b /\ next # l
      BY <2>2, <2>4, <1>1, <1>3, <1>4
    <2>6. l \in FreeIn(e) /\ FreeIn(e) = FreeIn(d) \ {b} /\ BlocksIn(e) = BlocksIn(d) \ {b}
      BY <2>2, <2>3 DEF Merged
    <2>7. p \ {Entry(d, l)} = EntriesOf(e, FreeIn(e) \ {l})
      <3>1. p = EntriesOf(d, FreeIn(d) \ {b}) /\ l \in FreeIn(d) \ {b}
        BY <2>2 DEF StageOK
      <3>2. p \ {Entry(d, l)} = EntriesOf(d, (FreeIn(d) \ {b}) \ {l})
        BY <3>1, EntryRemoved
      <3>3. (FreeIn(d) \ {b}) \ {l} = FreeIn(e) \ {l}
        BY <2>6
      <3>4. \A x \in FreeIn(e) \ {l} : e[x].index = d[x].index /\ e[x].total_size = d[x].total_size
        BY <2>3, <2>6 DEF Merged, FreeIn, BlocksIn
      <3>5. EntriesOf(e, FreeIn(e) \ {l}) = EntriesOf(d, FreeIn(e) \ {l})
        BY <3>4, EntriesSame
      <3> QED
        BY <3>2, <3>3, <3>5
    <2>8. e[l].right = next
      BY <2>3, <2>6, <2>2 DEF Merged
    <2>9. RightInUse(e, l)
      <3>1. next # NULL => next \in BlocksIn(e)
        BY <2>4, <2>5, <2>6
      <3> QED
        BY <2>3, <2>4, <2>8, <3>1 DEF RightInUse, Merged
    <2>10. \A x \in FreeIn(e) \ {l} : RightInUse(e, x)
      <3> SUFFICES ASSUME NEW x \in FreeIn(e) \ {l}, e[x].right # NULL
                   PROVE  e[e[x].right].type # "FREE"
        BY DEF RightInUse
      <3>1. /\ x \in FreeIn(d) \ {b} /\ x \in BlocksIn(d) /\ x \in BlocksIn(e)
            /\ e[x].right = d[x].right
        BY <2>3, <2>6 DEF Merged, FreeIn, BlocksIn
      <3>2. d[x].right \in BlocksIn(d) /\ d[d[x].right].left = x
        BY <3>1, <1>1, RightBuddy
      <3>3. d[x].right # b
        BY <3>2
      <3>4. d[d[x].right].type # "FREE"
        BY <3>1, <3>3 DEF StageOK, QuietBut
      <3> QED
        BY <3>1, <3>2, <3>3, <3>4, <2>3, <2>6 DEF Merged
    <2>11. Kept(d, e)
      <3>1. \A x \in InUse(d) : x \in BlocksIn(e) /\ x # l
        BY <2>6, <1>1, <2>2 DEF InUse, BlocksIn, FreeIn
      <3> QED
        BY <3>1, <2>3 DEF Kept, Merged
    <2>12. Quiet(e) /\ QuietBut(e, l)
      BY <2>9, <2>10 DEF Quiet, QuietBut, RightInUse
    <2> QED
      BY <2>1, <2>3, <2>6, <2>7, <2>11, <2>12 DEF StageOK, s
  <1>5. CASE ~(l # NULL /\ d[l].type = "FREE")
    <2>1. s.block = b /\ s.desc = d /\ s.pool = p /\ s.ok = TRUE
      BY <1>5 DEF JoinLeft, Stage
    <2>2. Quiet(d)
      <3> SUFFICES ASSUME NEW x \in FreeIn(d), d[x].right # NULL
                   PROVE  d[d[x].right].type # "FREE"
        BY DEF Quiet, RightInUse
      <3>1. CASE x = b
        BY <3>1 DEF RightInUse
      <3>2. CASE x # b
        <4>1. d[x].right # b
          BY <1>1, <1>5, RightBuddy DEF FreeIn, BlocksIn
        <4> QED
          BY <3>2, <4>1 DEF StageOK, QuietBut
      <3> QED
        BY <3>1, <3>2
    <2> HIDE DEF s
    <2> QED
      BY <2>1, <2>2 DEF Kept, s
  <1> QED
    BY <1>4, <1>5

-----------------------------------------------------------------------------
(* The inductive invariant.                                                 *)

(* The allocations L are the blocks in use, one each, within their block.   *)
Served(d, L) ==
  /\ L \subseteq [mem : Nat, bytes : Requests]
  /\ {metadata(m.mem) : m \in L} = InUse(d)
  /\ \A m, n \in L : m.mem = n.mem => m = n
  /\ \A m \in L : m.mem + m.bytes <= EndIn(d, metadata(m.mem))

IInv(max) ==
  /\ Shape(desc, held, max)
  /\ pool = EntriesOf(desc, FreeIn(desc))
  /\ Quiet(desc)
  /\ Served(desc, live)
  /\ total_used \in 0 .. SizeModulus - 1 /\ total_free \in 0 .. SizeModulus - 1
  /\ fallback \in Nat
  /\ state \in {"up", "destroyed"}
  /\ state = "destroyed" => DOMAIN held = {}

LEMMA ServedMore ==
  ASSUME NEW d, NEW e, NEW L, Served(d, L), NEW b \in Nat, b \notin InUse(d),
         InUse(e) = InUse(d) \cup {b},
         \A x \in InUse(d) : e[x].total_size = d[x].total_size,
         NEW bytes \in Requests, e[b].total_size \in Nat,
         bytes + DescSize <= e[b].total_size
  PROVE  Served(e, L \cup {[mem |-> data(b), bytes |-> bytes]})
  <1> DEFINE new == [mem |-> data(b), bytes |-> bytes]
  <1>1. /\ new.mem = b + DescSize /\ new.bytes = bytes
        /\ new \in [mem : Nat, bytes : Requests]
        /\ metadata(new.mem) = b /\ DescSize \in Nat /\ bytes \in Nat
    BY BuddyConstants DEF data, metadata
  <1>2. \A m \in L : /\ metadata(m.mem) \in InUse(d) /\ m \in [mem : Nat, bytes : Requests]
                     /\ metadata(m.mem) # b /\ m.mem # new.mem
    BY <1>1 DEF Served
  <1> HIDE DEF new
  <1>3. {metadata(m.mem) : m \in L \cup {new}} = InUse(e)
    BY <1>1 DEF Served
  <1>4. \A m \in L \cup {new} : m.mem + m.bytes <= EndIn(e, metadata(m.mem))
    <2>1. new.mem + new.bytes <= EndIn(e, metadata(new.mem))
      BY <1>1 DEF EndIn
    <2>2. \A m \in L : m.mem + m.bytes <= EndIn(e, metadata(m.mem))
      BY <1>2 DEF Served, EndIn
    <2> QED
      BY <2>1, <2>2
  <1>5. \A m, n \in L \cup {new} : m.mem = n.mem => m = n
    BY <1>2 DEF Served
  <1>6. L \cup {new} \subseteq [mem : Nat, bytes : Requests]
    BY <1>1, <1>2
  <1>7. Served(e, L \cup {new})
    BY <1>3, <1>4, <1>5, <1>6 DEF Served
  <1> QED
    BY <1>7 DEF new

LEMMA ServedLess ==
  ASSUME NEW d, NEW e, NEW L, Served(d, L), NEW m \in L,
         InUse(e) = InUse(d) \ {metadata(m.mem)},
         \A x \in InUse(e) : e[x].total_size = d[x].total_size
  PROVE  Served(e, L \ {m})
  <1>1. \A n \in L \ {m} : metadata(n.mem) \in InUse(d) /\ metadata(n.mem) # metadata(m.mem)
    <2> SUFFICES ASSUME NEW n \in L \ {m}
                 PROVE  metadata(n.mem) \in InUse(d) /\ metadata(n.mem) # metadata(m.mem)
      OBVIOUS
    <2>1. n.mem # m.mem /\ n.mem \in Nat /\ m.mem \in Nat
      BY DEF Served
    <2> QED
      BY <2>1, BuddyConstants DEF metadata, Served
  <1>2. {metadata(n.mem) : n \in L \ {m}} = InUse(e)
    BY <1>1 DEF Served
  <1>3. \A n \in L \ {m} : n.mem + n.bytes <= EndIn(e, metadata(n.mem))
    BY <1>1 DEF Served, EndIn
  <1> QED
    BY <1>2, <1>3 DEF Served

LEMMA ServedSame ==
  ASSUME NEW d, NEW e, NEW L, Served(d, L), InUse(e) = InUse(d),
         \A x \in InUse(d) : e[x].total_size = d[x].total_size
  PROVE  Served(e, L)
  BY DEF Served, EndIn

(* When nothing is in use every block is free and is a whole segment.       *)
LEMMA NothingInUse ==
  ASSUME NEW max \in Maxima,
         NEW d, NEW h, Shape(d, h, max), Quiet(d), InUse(d) = {}
  PROVE  /\ BlocksIn(d) = DOMAIN h /\ FreeIn(d) = DOMAIN h
         /\ \A b \in DOMAIN h : /\ h[b] = [size |-> max, index |-> d[b].index]
                                /\ d[b].total_size = max
  <1>1. FreeIn(d) = BlocksIn(d)
    BY DEF Shape, Typed, Descriptor, FreeIn, BlocksIn, InUse
  <1>2. \A b \in BlocksIn(d) : d[b].right = NULL
    <2> SUFFICES ASSUME NEW b \in BlocksIn(d), d[b].right # NULL PROVE FALSE
      OBVIOUS
    <2>1. d[b].right \in FreeIn(d)
      BY <1>1, RightBuddy
    <2> QED
      BY <1>1, <2>1 DEF Quiet, RightInUse, FreeIn
  <1>3. \A b \in BlocksIn(d) : d[b].left = NULL
    BY <1>2 DEF Shape, Linked, Typed, BlocksIn
  <1>4. BlocksIn(d) = DOMAIN h
    BY <1>3 DEF Shape, Placed, HeldStarts
  <1>5. ASSUME NEW b \in DOMAIN h
        PROVE  /\ h[b] = [size |-> max, index |-> d[b].index]
               /\ d[b].total_size = max
    <2>1. Within(d, h, b, b, max) /\ d[b].right = NULL /\ d[b].type = "FREE"
      BY <1>1, <1>2, <1>4, OwnHolder DEF FreeIn
    <2>2. h[b] \in [size : Nat, index : Nat] /\ b \in Nat /\ d[b].total_size \in Nat
      BY <1>4 DEF Shape, HeldTyped, Typed, BlocksIn, Descriptor
    <2>3. h[b].size = max /\ h[b].index = d[b].index /\ EndIn(d, b) = b + h[b].size
      BY <2>1 DEF Within
    <2> QED
      BY <2>2, <2>3 DEF EndIn
  <1> QED
    BY <1>1, <1>4, <1>5

-----------------------------------------------------------------------------
(* SplitToAlloc serves a request from a free block that is large enough.    *)
LEMMA SplitToAllocStep ==
  ASSUME NEW max \in Maxima,
         RequestsFit, NEW d, NEW h, NEW L,
         Shape(d, h, max), Quiet(d), Served(d, L),
         NEW b \in FreeIn(d), NEW bytes \in Requests, d[b].total_size >= ChunkSize(bytes)
  PROVE  LET e == SplitDesc(d, b, ChunkSize(bytes)) IN
         /\ Shape(e, h, max) /\ Quiet(e)
         /\ (EntriesOf(d, FreeIn(d)) \ {Entry(d, b)}) \cup RemainderEntry(e, b)
              = EntriesOf(e, FreeIn(e))
         /\ Served(e, L \cup {[mem |-> data(b), bytes |-> bytes]})
         /\ BlocksIn(e) \subseteq BlocksIn(d) \cup {b + ChunkSize(bytes)}
  <1> DEFINE p == EntriesOf(d, FreeIn(d))
             size == ChunkSize(bytes)
             f == split(d, b, size)
             e == SplitDesc(d, b, size)
             n == b + size
  <1>1. /\ bytes \in Nat /\ size \in Nat /\ size >= bytes + DescSize /\ size < SizeModulus
        /\ size >= DescSize
    BY ChunkSizeHolds, BuddyConstants
  <1>2. /\ b \in BlocksIn(d) /\ d[b].type = "FREE" /\ b \in Nat /\ d[b].total_size \in Nat
        /\ d[b].total_size >= size /\ b \notin InUse(d)
    BY DEF Shape, Typed, FreeIn, BlocksIn, Descriptor, InUse
  <1> HIDE DEF size
  <1>3. \A x \in FreeIn(d) : d[x].right # NULL => d[x].right # b
    BY <1>2 DEF Quiet, RightInUse
  <1>4. CASE Leaves(d, b, size)
    <2>1. Shape(f, h, max) /\ Cut(d, f, b, size, n)
      BY <1>1, <1>4, SplitShape, SplitResult
    <2>2. e = set_type(f, b, "ARENA")
      BY DEF SplitDesc
    <2>3. b \in BlocksIn(f) /\ f[b].type = "FREE"
      BY <2>1, <1>2 DEF Cut
    <2>4. n \in Nat /\ n # b /\ n \notin BlocksIn(d) /\ n # NULL
      BY <2>1, <1>2, BuddyConstants DEF Cut, NULL
    <2> HIDE DEF e, f, n
    <2>5. Shape(e, h, max) /\ Retyped(f, e, b, "ARENA")
      BY <2>1, <2>2, <2>3, RetypeShape, RetypeResult DEF Shape
    <2>6. /\ BlocksIn(e) = BlocksIn(d) \cup {n}
          /\ \A x \in BlocksIn(d) \ {b} :
               /\ e[x].type = d[x].type /\ e[x].index = d[x].index
               /\ e[x].right = d[x].right /\ e[x].total_size = d[x].total_size
          /\ e[b].type = "ARENA" /\ e[b].right = n /\ e[b].total_size = size
          /\ e[n].type = "FREE" /\ e[n].right = d[b].right
      <3>1. BlocksIn(f) = BlocksIn(d) \cup {n} /\ BlocksIn(e) = BlocksIn(f)
        BY <2>1, <2>5 DEF Cut, Retyped
      <3>2. \A x \in BlocksIn(d) \ {b} :
              /\ e[x].type = f[x].type /\ e[x].index = f[x].index
              /\ e[x].right = f[x].right /\ e[x].total_size = f[x].total_size
        BY <3>1, <2>5 DEF Retyped
      <3>3. \A x \in BlocksIn(d) \ {b} :
              /\ f[x].type = d[x].type /\ f[x].index = d[x].index
              /\ f[x].right = d[x].right /\ f[x].total_size = d[x].total_size
        BY <2>1 DEF Cut
      <3>4. /\ e[b].type = "ARENA" /\ e[b].right = f[b].right
            /\ e[b].total_size = f[b].total_size
            /\ e[n].type = f[n].type /\ e[n].right = f[n].right
        BY <3>1, <2>3, <2>4, <2>5 DEF Retyped
      <3>5. /\ f[b].right = n /\ f[b].total_size = size
            /\ f[n].type = "FREE" /\ f[n].right = d[b].right
        BY <2>1, <1>2 DEF Cut
      <3> QED
        BY <3>1, <3>2, <3>3, <3>4, <3>5
    <2>7. /\ FreeIn(e) = (FreeIn(d) \ {b}) \cup {n} /\ InUse(e) = InUse(d) \cup {b}
          /\ n \in BlocksIn(e)
      BY <2>4, <2>6, <1>2 DEF FreeIn, InUse, BlocksIn
    <2>8. RemainderEntry(e, b) = {Entry(e, n)}
      BY <2>4, <2>6 DEF RemainderEntry
    <2>9. (p \ {Entry(d, b)}) \cup {Entry(e, n)} = EntriesOf(e, FreeIn(e))
      <3>1. p \ {Entry(d, b)} = EntriesOf(d, FreeIn(d) \ {b})
        BY EntryRemoved
      <3>2. EntriesOf(e, FreeIn(d) \ {b}) = EntriesOf(d, FreeIn(d) \ {b})
        BY <2>6, EntriesSame DEF FreeIn, BlocksIn
      <3> QED
        BY <3>1, <3>2, <2>7 DEF EntriesOf
    <2>10. Quiet(e)
      <3> SUFFICES ASSUME NEW x \in FreeIn(e), e[x].right # NULL
                   PROVE  e[e[x].right].type # "FREE"
        BY DEF Quiet, RightInUse
      <3>1. PICK y \in FreeIn(d) : /\ e[x].right = d[y].right /\ y \in BlocksIn(d)
        BY <2>6, <2>7, <1>2 DEF FreeIn, BlocksIn
      <3>2. d[y].right \in BlocksIn(d) /\ d[d[y].right].type # "FREE" /\ d[y].right # b
        BY <3>1, <1>3, RightBuddy DEF Quiet, RightInUse
      <3> QED
        BY <3>1, <3>2, <2>6
    <2>11. Served(e, L \cup {[mem |-> data(b), bytes |-> bytes]})
      <3>1. \A x \in InUse(d) : e[x].total_size = d[x].total_size
        BY <2>6, <1>2 DEF InUse, BlocksIn
      <3> QED
        BY <3>1, <2>6, <2>7, <1>1, <1>2, ServedMore
    <2> QED
      BY <2>5, <2>6, <2>8, <2>9, <2>10, <2>11 DEF e, size, n
  <1>5. CASE ~Leaves(d, b, size)
    <2>1. e = set_type(d, b, "ARENA")
      BY <1>5 DEF SplitDesc, split
    <2> HIDE DEF e
    <2>2. Shape(e, h, max) /\ Retyped(d, e, b, "ARENA")
      BY <2>1, <1>2, RetypeShape, RetypeResult DEF Shape
    <2>3. /\ FreeIn(e) = FreeIn(d) \ {b} /\ InUse(e) = InUse(d) \cup {b}
          /\ BlocksIn(e) = BlocksIn(d)
      BY <2>2, <1>2 DEF Retyped, FreeIn, InUse, BlocksIn
    <2>4. /\ e[b].right = d[b].right
          /\ d[b].right # NULL => /\ d[b].right \in BlocksIn(d) /\ d[b].right # b
                                  /\ d[d[b].right].type # "FREE"
      BY <2>2, <2>3, <1>2, <1>3, RightBuddy DEF Quiet, RightInUse, Retyped
    <2>5. RemainderEntry(e, b) = {}
      BY <2>2, <2>3, <2>4 DEF RemainderEntry, Retyped
    <2>6. p \ {Entry(d, b)} = EntriesOf(e, FreeIn(e))
      <3>1. p \ {Entry(d, b)} = EntriesOf(d, FreeIn(d) \ {b})
        BY EntryRemoved
      <3>2. EntriesOf(e, FreeIn(d) \ {b}) = EntriesOf(d, FreeIn(d) \ {b})
        BY <2>2, <2>3, EntriesSame DEF FreeIn, BlocksIn, Retyped
      <3> QED
        BY <3>1, <3>2, <2>3
    <2>7. Quiet(e)
      <3> SUFFICES ASSUME NEW x \in FreeIn(e), e[x].right # NULL
                   PROVE  e[e[x].right].type # "FREE"
        BY DEF Quiet, RightInUse
      <3>1. x \in FreeIn(d) /\ x \in BlocksIn(d) /\ e[x].right = d[x].right
        BY <2>2, <2>3 DEF FreeIn, BlocksIn, Retyped
      <3>2. d[x].right \in BlocksIn(d) /\ d[d[x].right].type # "FREE" /\ d[x].right # b
        BY <3>1, <1>3, RightBuddy DEF Quiet, RightInUse
      <3> QED
        BY <3>1, <3>2, <2>2, <2>3 DEF Retyped
    <2>8. Served(e, L \cup {[mem |-> data(b), bytes |-> bytes]})
      <3>1. /\ \A x \in InUse(d) : e[x].total_size = d[x].total_size
            /\ e[b].total_size = d[b].total_size
        BY <2>2, <2>3, <1>2 DEF InUse, BlocksIn, Retyped
      <3>2. bytes + DescSize <= e[b].total_size /\ e[b].total_size \in Nat
        BY <3>1, <1>1, <1>2, BuddyConstants
      <3> QED
        BY <3>1, <3>2, <2>3, <1>2, ServedMore
    <2> QED
      BY <2>2, <2>3, <2>5, <2>6, <2>7, <2>8 DEF e, size
  <1> QED
    BY <1>4, <1>5

-----------------------------------------------------------------------------
(* The steps of the allocator preserve the invariant.                       *)

LEMMA InitIInv ==
  ASSUME NEW max \in Maxima,
         Init
  PROVE  IInv(max)
  <1>1. DOMAIN desc = {} /\ DOMAIN held = {}
    BY DEF Init
  <1>2. BlocksIn(desc) = {} /\ FreeIn(desc) = {} /\ InUse(desc) = {}
    BY <1>1 DEF BlocksIn, FreeIn, InUse
  <1>3. Shape(desc, held, max)
    BY <1>1, <1>2 DEF Shape, Typed, HeldTyped, Linked, Ordered, Sized, Placed,
                      HeldApart, HeldStarts
  <1>4. pool = EntriesOf(desc, FreeIn(desc)) /\ Quiet(desc) /\ Served(desc, live)
    BY <1>2 DEF Init, EntriesOf, Quiet, Served
  <1>5. 0 \in 0 .. SizeModulus - 1
    BY BuddyConstants
  <1> QED
    BY <1>1, <1>3, <1>4, <1>5 DEF IInv, Init

(* What a whole new block that belongs to the system's memory changes.      *)
LEMMA ObtainStep ==
  ASSUME NEW max \in Maxima,
         IInv(max), NEW p \in Addresses, NEW i \in Indices, NEW size \in Nat,
         size >= DescSize, NEW t \in {"FREE", "HUGE"}, t = "FREE" => size = max,
         Available(p, size)
  PROVE  LET e == Save(desc, p, Desc(t, i, size, NULL, NULL)) IN
         /\ Shape(e, Hold(held, p, size, i), max) /\ Quiet(e)
         /\ p \in Nat /\ p \notin BlocksIn(desc)
         /\ e[p].type = t /\ e[p].total_size = size
         /\ FreeIn(e) = FreeIn(desc) \cup (IF t = "FREE" THEN {p} ELSE {})
         /\ InUse(e) = InUse(desc) \cup (IF t = "HUGE" THEN {p} ELSE {})
         /\ \A x \in BlocksIn(desc) : e[x] = desc[x]
         /\ BlocksIn(e) = BlocksIn(desc) \cup {p}
  <1> DEFINE e == Save(desc, p, Desc(t, i, size, NULL, NULL))
  <1>1. /\ p \in Nat \ {NULL} /\ i \in Nat
        /\ \A q \in DOMAIN held : Apart(p, size, q, held[q].size)
    BY BuddyConstants DEF Available
  <1>2. /\ Shape(e, Hold(held, p, size, i), max)
        /\ p \notin BlocksIn(desc) /\ BlocksIn(e) = BlocksIn(desc) \cup {p}
        /\ e[p] = Desc(t, i, size, NULL, NULL)
        /\ \A x \in BlocksIn(desc) : e[x] = desc[x]
    BY <1>1, ObtainShape DEF IInv
  <1> HIDE DEF e
  <1>3. e[p].type = t /\ e[p].total_size = size /\ e[p].right = NULL
    BY <1>2 DEF Desc
  <1>4. /\ FreeIn(e) = FreeIn(desc) \cup (IF t = "FREE" THEN {p} ELSE {})
        /\ InUse(e) = InUse(desc) \cup (IF t = "HUGE" THEN {p} ELSE {})
    BY <1>2, <1>3 DEF FreeIn, InUse, BlocksIn
  <1>5. Quiet(e)
    <2> SUFFICES ASSUME NEW x \in FreeIn(e), e[x].right # NULL
                 PROVE  e[e[x].right].type # "FREE"
      BY DEF Quiet, RightInUse
    <2>1. x \in FreeIn(desc) /\ x \in BlocksIn(desc) /\ e[x] = desc[x]
      BY <1>2, <1>3, <1>4 DEF FreeIn, BlocksIn
    <2>2. desc[x].right \in BlocksIn(desc) /\ desc[desc[x].right].type # "FREE"
      BY <2>1, RightBuddy DEF IInv, Quiet, RightInUse
    <2> QED
      BY <2>1, <2>2, <1>2
  <1> QED
    BY <1>1, <1>2, <1>3, <1>4, <1>5 DEF e

LEMMA AllocHugeStep ==
  ASSUME NEW max \in Maxima,
         RequestsFit, IInv(max), NEW bytes \in Requests, AllocHuge(bytes, max)
  PROVE  IInv(max)'
  <1> DEFINE size == ChunkSize(bytes)
  <1>1. PICK p \in Addresses, i \in Indices :
          /\ Available(p, size)
          /\ held' = Hold(held, p, size, i)
          /\ desc' = Save(desc, p, Desc("HUGE", i, size, NULL, NULL))
          /\ live' = live \cup {[mem |-> data(p), bytes |-> bytes]}
    BY DEF AllocHuge
  <1>2. size \in Nat /\ size >= bytes + DescSize /\ size >= DescSize
    BY ChunkSizeHolds, BuddyConstants
  <1> HIDE DEF size
  <1>3. /\ Shape(desc', held', max) /\ Quiet(desc')
        /\ p \in Nat /\ p \notin BlocksIn(desc) /\ desc'[p].total_size = size
        /\ FreeIn(desc') = FreeIn(desc) /\ InUse(desc') = InUse(desc) \cup {p}
        /\ \A x \in BlocksIn(desc) : desc'[x] = desc[x]
    BY <1>1, <1>2, ObtainStep
  <1>4. pool' = EntriesOf(desc', FreeIn(desc'))
    <2>1. EntriesOf(desc', FreeIn(desc)) = EntriesOf(desc, FreeIn(desc))
      BY <1>3, EntriesSame DEF FreeIn, BlocksIn
    <2> QED
      BY <2>1, <1>3 DEF IInv, AllocHuge
  <1>5. Served(desc', live')
    <2>1. p \notin InUse(desc) /\ \A x \in InUse(desc) : desc'[x].total_size = desc[x].total_size
      BY <1>3 DEF InUse, BlocksIn
    <2> QED
      BY <2>1, <1>1, <1>2, <1>3, ServedMore DEF IInv
  <1> QED
    BY <1>3, <1>4, <1>5 DEF IInv, AllocHuge

LEMMA AllocExistingStep ==
  ASSUME NEW max \in Maxima,
         RequestsFit, IInv(max), NEW bytes \in Requests, AllocExisting(bytes, max)
  PROVE  IInv(max)'
  <1>1. PICK t \in pool : /\ FindExistChunk(ChunkSize(bytes), t)
                          /\ SplitToAlloc(bytes, desc, pool, t[3])
    BY DEF AllocExisting
  <1>2. PICK b \in FreeIn(desc) : t = Entry(desc, b)
    BY DEF IInv, EntriesOf
  <1>3. t[3] = b /\ desc[b].total_size >= ChunkSize(bytes)
    BY <1>1, <1>2 DEF Entry, FindExistChunk, Fits
  <1>4. /\ Shape(desc', held, max) /\ Quiet(desc')
        /\ pool' = EntriesOf(desc', FreeIn(desc')) /\ Served(desc', live')
    <2> DEFINE e == SplitDesc(desc, b, ChunkSize(bytes))
               q == (pool \ {Entry(desc, b)}) \cup RemainderEntry(e, b)
               L == live \cup {[mem |-> data(b), bytes |-> bytes]}
    <2>1. Shape(e, held, max) /\ Quiet(e) /\ q = EntriesOf(e, FreeIn(e)) /\ Served(e, L)
      BY <1>3, SplitToAllocStep DEF IInv
    <2>2. desc' = e /\ pool' = q /\ live' = L
      BY <1>1, <1>2, <1>3 DEF SplitToAlloc
    <2> HIDE DEF e, q, L
    <2> QED
      BY <2>1, <2>2
  <1>6. state' = "up"
    BY <1>1, <1>3 DEF SplitToAlloc, Asserts, split_asserts
  <1>5. /\ total_used' \in 0 .. SizeModulus - 1 /\ total_free' \in 0 .. SizeModulus - 1
    <2>1. total_used + ChunkSize(bytes) \in Int /\ total_free - ChunkSize(bytes) \in Int
      BY ChunkSizeHolds DEF IInv
    <2> QED
      BY <2>1, <1>1, WrapRange DEF SplitToAlloc, AllocExisting
  <1> QED
    BY <1>4, <1>5, <1>6 DEF IInv, AllocExisting

LEMMA AllocRefillStep ==
  ASSUME NEW max \in Maxima,
         RequestsFit, IInv(max), NEW bytes \in Requests, AllocRefill(bytes, max)
  PROVE  IInv(max)'
  <1>1. PICK p \in Addresses, i \in Indices :
          LET fresh == Save(desc, p, Desc("FREE", i, max, NULL, NULL)) IN
          /\ Available(p, max)
          /\ held' = Hold(held, p, max, i)
          /\ fallback' = CountFallback(i)
          /\ SplitToAlloc(bytes, fresh, pool \cup {Entry(fresh, p)}, p)
    BY DEF AllocRefill
  <1> DEFINE fresh == Save(desc, p, Desc("FREE", i, max, NULL, NULL))
             full == pool \cup {Entry(fresh, p)}
  <1>2. SplitToAlloc(bytes, fresh, full, p)
    BY <1>1
  <1>3. ChunkSize(bytes) \in Nat /\ ChunkSize(bytes) <= max
    BY ChunkSizeHolds, BuddyConstants DEF Maxima, AllocRefill, IsHuge
  <1>4. max \in Nat /\ max >= DescSize
    BY BuddyConstants DEF Maxima
  <1>5. /\ Shape(fresh, held', max) /\ Quiet(fresh)
        /\ p \notin BlocksIn(desc) /\ fresh[p].total_size = max
        /\ FreeIn(fresh) = FreeIn(desc) \cup {p} /\ InUse(fresh) = InUse(desc)
        /\ \A x \in BlocksIn(desc) : fresh[x] = desc[x]
    BY <1>1, <1>4, ObtainStep
  <1> HIDE DEF fresh
  <1>6. full = EntriesOf(fresh, FreeIn(fresh))
    <2>1. EntriesOf(fresh, FreeIn(desc)) = EntriesOf(desc, FreeIn(desc))
      BY <1>5, EntriesSame DEF FreeIn, BlocksIn
    <2>2. pool = EntriesOf(desc, FreeIn(desc))
      BY DEF IInv
    <2> QED
      BY <2>1, <2>2, <1>5 DEF EntriesOf
  <1>7. Served(fresh, live)
    <2>1. \A x \in InUse(desc) : fresh[x].total_size = desc[x].total_size
      BY <1>5 DEF InUse, BlocksIn
    <2> QED
      BY <2>1, <1>5, ServedSame DEF IInv
  <1> HIDE DEF full
  <1>8. p \in FreeIn(fresh) /\ fresh[p].total_size >= ChunkSize(bytes)
    BY <1>3, <1>4, <1>5
  <1>9. /\ Shape(desc', held', max) /\ Quiet(desc')
        /\ pool' = EntriesOf(desc', FreeIn(desc')) /\ Served(desc', live')
    <2> DEFINE e == SplitDesc(fresh, p, ChunkSize(bytes))
               q == (full \ {Entry(fresh, p)}) \cup RemainderEntry(e, p)
               L == live \cup {[mem |-> data(p), bytes |-> bytes]}
    <2>1. Shape(e, held', max) /\ Quiet(e) /\ q = EntriesOf(e, FreeIn(e)) /\ Served(e, L)
      <3> DEFINE h == held'
      <3>1. Shape(fresh, h, max) /\ Quiet(fresh)
        BY <1>5
      <3> HIDE DEF h
      <3>2. Shape(e, h, max)
        BY <3>1, <1>6, <1>7, <1>8, SplitToAllocStep
      <3>3. Quiet(e)
        BY <3>1, <1>6, <1>7, <1>8, SplitToAllocStep
      <3>4. Served(e, L)
        BY <3>1, <1>6, <1>7, <1>8, SplitToAllocStep
      <3> DEFINE now == EntriesOf(fresh, FreeIn(fresh))
      <3>5. (now \ {Entry(fresh, p)}) \cup RemainderEntry(e, p) = EntriesOf(e, FreeIn(e))
        BY <3>1, <1>7, <1>8, SplitToAllocStep
      <3> QED
        BY <3>2, <3>3, <3>4, <3>5, <1>6 DEF h
    <2>2. desc' = e /\ pool' = q /\ live' = L
      BY <1>2 DEF SplitToAlloc
    <2> HIDE DEF e, q, L
    <2> QED
      BY <2>1, <2>2
  <1>10. /\ total_used' \in 0 .. SizeModulus - 1 /\ total_free' \in 0 .. SizeModulus - 1
    <2>1. /\ total_used + ChunkSize(bytes) \in Int
          /\ (total_free + max) - ChunkSize(bytes) \in Int
      BY <1>3, <1>4 DEF IInv
    <2> QED
      BY <2>1, <1>2, WrapRange DEF SplitToAlloc, AllocRefill
  <1>11. fallback' \in Nat
    BY <1>1 DEF CountFallback, IInv
  <1>12. state' = "up"
    BY <1>2, <1>8 DEF SplitToAlloc, Asserts, split_asserts
  <1> QED
    BY <1>9, <1>10, <1>11, <1>12 DEF IInv, AllocRefill

LEMMA FreeHugeStep ==
  ASSUME NEW max \in Maxima,
         IInv(max), NEW m \in live, FreeHuge(m)
  PROVE  IInv(max)'
  <1> DEFINE b == metadata(m.mem)
  <1>1. b \in InUse(desc) /\ b \in BlocksIn(desc) /\ desc[b].type = "HUGE"
    BY DEF IInv, Served, FreeHuge, InUse, BlocksIn
  <1> HIDE DEF b
  <1>2. b \in DOMAIN held /\ desc[b].left = NULL /\ desc[b].right = NULL
    BY <1>1 DEF IInv, Shape, Placed
  <1>3. held[b] = [size |-> desc[b].total_size, index |-> desc[b].index]
    <2>1. Within(desc, held, b, b, max)
      BY <1>1, <1>2, OwnHolder DEF IInv
    <2>2. /\ held[b] \in [size : Nat, index : Nat] /\ b \in Nat
          /\ desc[b].total_size \in Nat
      BY <1>1, <1>2 DEF IInv, Shape, HeldTyped, Typed, BlocksIn, Descriptor
    <2>3. held[b].index = desc[b].index /\ b + desc[b].total_size = b + held[b].size
      BY <2>1, <1>2 DEF Within, EndIn
    <2> QED
      BY <2>2, <2>3
  <1>4. /\ held' = Drop(held, b) /\ state' = state
        /\ desc' = Drop(desc, b) /\ live' = live \ {m}
    BY <1>2, <1>3 DEF FreeHuge, Returnable, b
  <1>5. /\ Shape(desc', held', max)
        /\ BlocksIn(desc') = BlocksIn(desc) \ {b}
        /\ \A x \in BlocksIn(desc) \ {b} : desc'[x] = desc[x]
    BY <1>1, <1>2, <1>4, ReturnShape DEF IInv
  <1>6. FreeIn(desc') = FreeIn(desc) /\ InUse(desc') = InUse(desc) \ {b}
    BY <1>1, <1>5 DEF FreeIn, InUse, BlocksIn
  <1>7. pool' = EntriesOf(desc', FreeIn(desc'))
    <2>1. EntriesOf(desc', FreeIn(desc)) = EntriesOf(desc, FreeIn(desc))
      BY <1>1, <1>5, EntriesSame DEF FreeIn, BlocksIn
    <2> QED
      BY <2>1, <1>6 DEF IInv, FreeHuge
  <1>8. Quiet(desc')
    <2> SUFFICES ASSUME NEW x \in FreeIn(desc'), desc'[x].right # NULL
                 PROVE  desc'[desc'[x].right].type # "FREE"
      BY DEF Quiet, RightInUse
    <2>1. x \in FreeIn(desc) /\ x \in BlocksIn(desc) /\ desc'[x] = desc[x]
      BY <1>1, <1>5, <1>6 DEF FreeIn, BlocksIn
    <2>2. /\ desc[x].right \in BlocksIn(desc) /\ desc[desc[x].right].type # "FREE"
          /\ desc[x].right # b
      BY <2>1, <1>1, RightBuddy DEF IInv, Quiet, RightInUse
    <2> QED
      BY <2>1, <2>2, <1>5
  <1>9. Served(desc', live')
    <2>1. \A x \in InUse(desc') : desc'[x].total_size = desc[x].total_size
      BY <1>5, <1>6 DEF InUse, BlocksIn
    <2> QED
      BY <2>1, <1>4, <1>6, ServedLess DEF IInv, b
  <1>10. state = "up"
    BY DEF FreeHuge
  <1> QED
    BY <1>4, <1>5, <1>7, <1>8, <1>9, <1>10 DEF IInv, FreeHuge

(* Free marks a block free: the state in which the joins start.             *)
LEMMA FreedStage ==
  ASSUME NEW max \in Maxima,
         IInv(max), NEW b \in BlocksIn(desc), desc[b].type = "ARENA"
  PROVE  StageOK(set_type(desc, b, "FREE"), pool, b, held, max)
  <1> DEFINE d == set_type(desc, b, "FREE")
  <1>1. Shape(d, held, max) /\ Retyped(desc, d, b, "FREE")
    BY RetypeShape, RetypeResult DEF IInv, Shape
  <1> HIDE DEF d
  <1>2. /\ FreeIn(d) = FreeIn(desc) \cup {b} /\ b \notin FreeIn(desc)
    BY <1>1 DEF Retyped, FreeIn, BlocksIn
  <1>3. StageOK(d, pool, b, held, max)
    <2>1. pool = EntriesOf(d, FreeIn(d) \ {b})
      <3>1. EntriesOf(d, FreeIn(desc)) = EntriesOf(desc, FreeIn(desc))
        BY <1>1, EntriesSame DEF Retyped, FreeIn, BlocksIn
      <3>2. FreeIn(d) \ {b} = FreeIn(desc)
        BY <1>2
      <3> QED
        BY <3>1, <3>2 DEF IInv
    <2>2. QuietBut(d, b)
      <3> SUFFICES ASSUME NEW x \in FreeIn(d) \ {b}, d[x].right # NULL, d[x].right # b
                   PROVE  d[d[x].right].type # "FREE"
        BY DEF QuietBut
      <3>1. x \in FreeIn(desc) /\ x \in BlocksIn(desc) /\ d[x].right = desc[x].right
        BY <1>1, <1>2 DEF Retyped, FreeIn, BlocksIn
      <3>2. desc[x].right \in BlocksIn(desc) /\ desc[desc[x].right].type # "FREE"
        BY <3>1, RightBuddy DEF IInv, Quiet, RightInUse
      <3> QED
        BY <3>1, <3>2, <1>1 DEF Retyped
    <2> QED
      BY <2>1, <2>2, <1>1, <1>2 DEF StageOK
  <1> QED
    BY <1>3 DEF d

LEMMA FreeArenaStep ==
  ASSUME NEW max \in Maxima,
         IInv(max), NEW m \in live, FreeArena(m)
  PROVE  IInv(max)' /\ BlocksIn(desc') \subseteq BlocksIn(desc)
  <1> DEFINE b == metadata(m.mem)
             d == set_type(desc, b, "FREE")
             s == JoinRight(Stage(d, pool, b, TRUE))
             j == JoinLeft(s)
  <1>1. b \in InUse(desc) /\ b \in BlocksIn(desc) /\ desc[b].type = "ARENA"
    BY DEF IInv, Served, FreeArena, InUse, BlocksIn
  <1>2. /\ desc' = j.desc /\ pool' = j.pool \cup {Entry(j.desc, j.block)}
        /\ live' = live \ {m}
        /\ total_used' = Wrap(total_used - desc[b].total_size)
        /\ total_free' = Wrap(total_free + desc[b].total_size)
    <2>1. mark_asserts(desc, b) = TRUE
      BY <1>1 DEF mark_asserts
    <2> QED BY <2>1 DEF FreeArena
  <1>12. Asserts(j.ok)
    <2>1. mark_asserts(desc, b) = TRUE
      BY <1>1 DEF mark_asserts
    <2> QED BY <2>1 DEF FreeArena
  <1> HIDE DEF b, d, s, j
  <1>3. Shape(d, held, max) /\ Retyped(desc, d, b, "FREE")
    BY <1>1, RetypeShape, RetypeResult DEF d, IInv, Shape
  <1>4. /\ FreeIn(d) = FreeIn(desc) \cup {b} /\ InUse(d) = InUse(desc) \ {b}
        /\ b \notin FreeIn(desc)
    BY <1>1, <1>3 DEF Retyped, FreeIn, InUse, BlocksIn
  <1>5. StageOK(d, pool, b, held, max)
    BY <1>1, FreedStage DEF d
  <1>6. /\ s = Stage(s.desc, s.pool, b, TRUE) /\ StageOK(s.desc, s.pool, b, held, max)
        /\ Kept(d, s.desc) /\ RightInUse(s.desc, b)
    BY <1>5, JoinRightStage DEF s
  <1>7. /\ j.ok = TRUE /\ StageOK(j.desc, j.pool, j.block, held, max)
        /\ Kept(s.desc, j.desc) /\ Quiet(j.desc)
    <2>1. j = JoinLeft(Stage(s.desc, s.pool, b, TRUE))
      BY <1>6 DEF j
    <2> QED
      BY <2>1, <1>6, JoinLeftStage
  <1>8. Shape(desc', held', max) /\ Quiet(desc') /\ pool' = EntriesOf(desc', FreeIn(desc'))
    <2>1. /\ Shape(j.desc, held, max) /\ j.block \in FreeIn(j.desc)
          /\ j.pool = EntriesOf(j.desc, FreeIn(j.desc) \ {j.block})
      BY <1>7 DEF StageOK
    <2>2. j.pool \cup {Entry(j.desc, j.block)} = EntriesOf(j.desc, FreeIn(j.desc))
      BY <2>1 DEF EntriesOf
    <2> QED
      BY <2>1, <2>2, <1>2, <1>7 DEF FreeArena
  <1>9. Served(desc', live')
    <2>1. InUse(desc') = InUse(desc) \ {b}
      BY <1>2, <1>4, <1>6, <1>7 DEF Kept
    <2>2. \A x \in InUse(desc') : desc'[x].total_size = desc[x].total_size
      <3>1. \A x \in InUse(d) : d[x].total_size = desc[x].total_size
        BY <1>3, <1>4 DEF Retyped, InUse, BlocksIn
      <3> QED
        BY <3>1, <2>1, <1>2, <1>4, <1>6, <1>7 DEF Kept
    <2> QED
      BY <2>1, <2>2, <1>2, ServedLess DEF IInv, b
  <1>10. /\ total_used' \in 0 .. SizeModulus - 1 /\ total_free' \in 0 .. SizeModulus - 1
    <2>1. desc[b].total_size \in Nat
      BY <1>1 DEF IInv, Shape, Typed, BlocksIn, Descriptor
    <2>2. total_used - desc[b].total_size \in Int /\ total_free + desc[b].total_size \in Int
      BY <2>1 DEF IInv
    <2> QED
      BY <2>2, <1>2, WrapRange
  <1>11. BlocksIn(desc') \subseteq BlocksIn(desc)
    <2>1. BlocksIn(d) = BlocksIn(desc) /\ BlocksIn(s.desc) \subseteq BlocksIn(d)
      BY <1>3, <1>5, JoinRightStage DEF s, Retyped
    <2>2. BlocksIn(j.desc) \subseteq BlocksIn(s.desc)
      <3>1. j = JoinLeft(Stage(s.desc, s.pool, b, TRUE))
        BY <1>6 DEF j
      <3> QED
        BY <3>1, <1>6, JoinLeftStage
    <2> QED
      BY <2>1, <2>2, <1>2
  <1>13. state' = "up"
    BY <1>7, <1>12 DEF Asserts
  <1> QED
    BY <1>13, <1>8, <1>9, <1>10, <1>11 DEF IInv, FreeArena

LEMMA DestroyStep ==
  ASSUME NEW max \in Maxima,
         IInv(max), Destroy(max)
  PROVE  IInv(max)'
  <1>1. InUse(desc) = {} /\ live' = {} /\ live = {}
    BY DEF IInv, Served, Destroy
  <1>2. /\ BlocksIn(desc) = DOMAIN held /\ FreeIn(desc) = DOMAIN held
        /\ \A b \in DOMAIN held : held[b] = [size |-> max, index |-> desc[b].index]
    BY <1>1, NothingInUse DEF IInv
  <1>3. {t[3] : t \in pool} = DOMAIN held
    <2>1. pool = {Entry(desc, b) : b \in DOMAIN held}
      BY <1>2 DEF IInv, EntriesOf
    <2>2. \A b : Entry(desc, b)[3] = b
      BY DEF Entry
    <2> QED
      BY <2>1, <2>2
  <1>4. \A t \in pool : Returnable(held, t[3], max, desc[t[3]].index)
    BY <1>2, <1>3 DEF Returnable
  <1>5. /\ state' = "destroyed" /\ DOMAIN held' = {}
        /\ DOMAIN desc' = DOMAIN desc \ BlocksIn(desc)
        /\ \A b \in DOMAIN desc' : desc'[b] = desc[b]
    BY <1>2, <1>3, <1>4 DEF Destroy
  <1>6. BlocksIn(desc') = {} /\ FreeIn(desc') = {} /\ InUse(desc') = {}
    BY <1>5 DEF BlocksIn, FreeIn, InUse
  <1>7. Typed(desc')
    BY <1>5 DEF IInv, Shape, Typed
  <1>8. Shape(desc', held', max)
    BY <1>5, <1>6, <1>7 DEF Shape, HeldTyped, Linked, Ordered, Sized, Placed,
                            HeldApart, HeldStarts
  <1>9. pool' = EntriesOf(desc', FreeIn(desc')) /\ Quiet(desc') /\ Served(desc', live')
    BY <1>1, <1>6 DEF Destroy, EntriesOf, Quiet, Served
  <1> QED
    BY <1>5, <1>8, <1>9 DEF IInv, Destroy

LEMMA MaxChunkIsOne == MaxChunk \in Maxima
  BY BuddyConstants DEF Maxima

(* A call while the maximum size is max.                                    *)
Call(max) ==
  \/ \E bytes \in Requests : Alloc(bytes, max)
  \/ \E m \in live : FreeHuge(m) \/ FreeArena(m)
  \/ Destroy(max)

LEMMA CallIInv ==
  ASSUME NEW max \in Maxima, RequestsFit, IInv(max), Call(max)
  PROVE  IInv(max)'
  <1>1. ASSUME NEW bytes \in Requests, AllocHuge(bytes, max) PROVE IInv(max)'
    BY <1>1, AllocHugeStep
  <1>2. ASSUME NEW bytes \in Requests, AllocExisting(bytes, max) PROVE IInv(max)'
    BY <1>2, AllocExistingStep
  <1>3. ASSUME NEW bytes \in Requests, AllocRefill(bytes, max) PROVE IInv(max)'
    BY <1>3, AllocRefillStep
  <1>4. ASSUME NEW m \in live, FreeHuge(m) PROVE IInv(max)'
    BY <1>4, FreeHugeStep
  <1>5. ASSUME NEW m \in live, FreeArena(m) PROVE IInv(max)'
    BY <1>5, FreeArenaStep
  <1>6. CASE Destroy(max)
    BY <1>6, DestroyStep
  <1> QED
    BY <1>1, <1>2, <1>3, <1>4, <1>5, <1>6 DEF Call, Alloc

LEMMA NextIsCall == Next <=> Call(MaxChunk)
  BY DEF Next, Call

LEMMA NextIInv ==
  ASSUME RequestsFit
  PROVE  IInv(MaxChunk) /\ [Next]_vars => IInv(MaxChunk)'
  <1>1. ASSUME IInv(MaxChunk), Next PROVE IInv(MaxChunk)'
    BY <1>1, NextIsCall, CallIInv, MaxChunkIsOne
  <1>2. ASSUME IInv(MaxChunk), UNCHANGED vars PROVE IInv(MaxChunk)'
    BY <1>2 DEF vars, IInv
  <1> QED
    BY <1>1, <1>2

-----------------------------------------------------------------------------
(* The theorems.                                                            *)

(* The inductive invariant holds in every reachable state: the segments     *)
(* held are cut without gaps into blocks linked to their neighbours, the    *)
(* pool is the free ones, and clients hold the others.                      *)
THEOREM Invariance ==
  ASSUME RequestsFit
  PROVE  Spec => []IInv(MaxChunk)
  <1>1. Init => IInv(MaxChunk)
    BY MaxChunkIsOne, InitIInv
  <1>2. IInv(MaxChunk) /\ [Next]_vars => IInv(MaxChunk)'
    BY NextIInv
  <1> QED
    BY <1>1, <1>2, PTL DEF Spec

(* Fields, counters and pointers keep the types of their declarations       *)
(* (memory_block.h, buddy_allocator.h:80-103): no size ever goes below 0.   *)
THEOREM TypeCorrect ==
  ASSUME RequestsFit
  PROVE  Spec => []TypeOK
  <1>1. IInv(MaxChunk) => TypeOK
    <2> SUFFICES ASSUME IInv(MaxChunk) PROVE TypeOK
      OBVIOUS
    <2>1. pool \subseteq Nat \X Nat \X Nat
      <3> SUFFICES ASSUME NEW b \in FreeIn(desc) PROVE Entry(desc, b) \in Nat \X Nat \X Nat
        BY DEF IInv, EntriesOf
      <3> QED
        BY DEF IInv, Shape, Typed, FreeIn, Descriptor, Entry
    <2>2. Typed(desc) /\ HeldTyped(held) /\ live \subseteq [mem : Nat, bytes : Requests]
      BY DEF IInv, Shape, Served
    <2> QED
      BY <2>1, <2>2 DEF TypeOK, IInv, Typed, HeldTyped
  <1> QED
    BY <1>1, Invariance, PTL

(* The buddies of a segment are a doubly linked list without gaps: split    *)
(* and merge never leave a link to memory that is no block.                 *)
THEOREM LinksCorrect ==
  ASSUME RequestsFit
  PROVE  Spec => []Links
  <1>1. IInv(MaxChunk) => Links
    <2>1. Blocks = BlocksIn(desc)
      BY DEF Blocks, BlocksIn
    <2>2. \A b : End(b) = EndIn(desc, b)
      BY DEF End, EndIn
    <2> QED
      BY <2>1, <2>2 DEF Links, IInv, Shape, Linked
  <1> QED
    BY <1>1, Invariance, PTL

(* Blocks do not overlap and cover each piece of system memory: whatever    *)
(* the order of splits and merges, no byte is in two blocks or in none.     *)
THEOREM BlocksTileCorrect ==
  ASSUME RequestsFit
  PROVE  Spec => []BlocksTile
  <1>1. IInv(MaxChunk) => BlocksTile
    <2> SUFFICES ASSUME IInv(MaxChunk) PROVE BlocksTile
      OBVIOUS
    <2>1. Blocks = BlocksIn(desc)
      BY DEF Blocks, BlocksIn
    <2>2. \A b : End(b) = EndIn(desc, b)
      BY DEF End, EndIn
    <2>3. \A a, b \in Blocks : a < b => End(a) <= b
      BY <2>1, <2>2 DEF IInv, Shape, Ordered
    <2>4. ASSUME NEW b \in Blocks
          PROVE  \E h \in DOMAIN held :
                   /\ held[h].index = desc[b].index
                   /\ h <= b /\ End(b) <= h + held[h].size
                   /\ desc[b].right = NULL => End(b) = h + held[h].size
      <3>1. PICK p \in DOMAIN held : Within(desc, held, b, p, MaxChunk)
        BY <2>1 DEF IInv, Shape, Placed
      <3> QED
        BY <3>1, <2>2 DEF Within
    <2>5. \A b \in Blocks :
            /\ desc[b].total_size >= DescSize
            /\ desc[b].size = desc[b].total_size - DescSize
            /\ desc[b].left = NULL => b \in DOMAIN held
      BY <2>1 DEF IInv, Shape, Sized, Placed
    <2> QED
      BY <2>3, <2>4, <2>5 DEF BlocksTile
  <1> QED
    BY <1>1, Invariance, PTL

(* The pool holds the free blocks under their present sizes, so that a      *)
(* block that is joined can be erased from it.                              *)
THEOREM PoolCorrect ==
  ASSUME RequestsFit
  PROVE  Spec => []PoolExact
  <1>1. IInv(MaxChunk) => PoolExact
    BY DEF IInv, PoolExact, EntriesOf, FreeIn, Of
  <1> QED
    BY <1>1, Invariance, PTL

(* Free joins a block with both its buddies: no two neighbours are free.    *)
THEOREM NoFreeBuddiesCorrect ==
  ASSUME RequestsFit
  PROVE  Spec => []NoFreeBuddies
  <1>1. IInv(MaxChunk) => NoFreeBuddies
    <2> SUFFICES ASSUME IInv(MaxChunk), NEW b \in Of("FREE"), desc[b].right # NULL
                 PROVE  desc[desc[b].right].type = "ARENA"
      BY DEF NoFreeBuddies
    <2>1. b \in FreeIn(desc) /\ b \in BlocksIn(desc)
      BY DEF Of, FreeIn, BlocksIn
    <2>2. /\ desc[b].right \in BlocksIn(desc)
          /\ desc[desc[b].right].type # "HUGE" /\ desc[desc[b].right].type # "FREE"
      BY <2>1, MaxChunkIsOne, RightBuddy DEF IInv, Quiet, RightInUse
    <2> QED
      BY <2>2 DEF IInv, Shape, Typed, BlocksIn, Descriptor
  <1> QED
    BY <1>1, Invariance, PTL

(* Clients hold exactly the blocks in use, one pointer each, and what they  *)
(* asked for fits into the block.                                           *)
THEOREM LiveCorrect ==
  ASSUME RequestsFit
  PROVE  Spec => []LiveExact
  <1>1. IInv(MaxChunk) => LiveExact
    <2>1. InUse(desc) = Of("ARENA") \cup Of("HUGE")
      BY DEF InUse, Of
    <2> QED
      BY <2>1 DEF IInv, Served, LiveExact, End, EndIn
  <1> QED
    BY <1>1, Invariance, PTL

(* No assertion of split, merge or mark_as_free fails, and the system       *)
(* allocator is given back only what it gave out: FreeHuge and the          *)
(* destructor never pass a wrong size or index.                             *)
THEOREM NoMisuseCorrect ==
  ASSUME RequestsFit
  PROVE  Spec => []NoMisuse
  <1>1. IInv(MaxChunk) => NoMisuse
    BY DEF IInv, NoMisuse
  <1> QED
    BY <1>1, Invariance, PTL

(* Whatever was allocated and freed in between, when clients hold nothing   *)
(* each segment is one block again.                                         *)
THEOREM AtRestCorrect ==
  ASSUME RequestsFit
  PROVE  Spec => []AtRestWhole
  <1>1. IInv(MaxChunk) => AtRestWhole
    <2> SUFFICES ASSUME IInv(MaxChunk), live = {}
                 PROVE  /\ Blocks = DOMAIN held
                        /\ \A h \in DOMAIN held : desc[h].total_size = held[h].size
      BY DEF AtRestWhole
    <2>1. InUse(desc) = {} /\ Blocks = BlocksIn(desc)
      BY DEF IInv, Served, Blocks, BlocksIn
    <2> QED
      BY <2>1, MaxChunkIsOne, NothingInUse DEF IInv
  <1> QED
    BY <1>1, Invariance, PTL

(* The destructor returns all the system's memory.                          *)
THEOREM DestroyCorrect ==
  ASSUME RequestsFit
  PROVE  Spec => []DestroyReturnsAll
  <1>1. IInv(MaxChunk) => DestroyReturnsAll
    BY DEF IInv, DestroyReturnsAll
  <1> QED
    BY <1>1, Invariance, PTL

-----------------------------------------------------------------------------
(* BuddyAllocator keeps the promise of an Allocator: it implements Heap,    *)
(* for every geometry of chunks whose sizes are multiples of the alignment  *)
(* of the system allocator's memory.                                        *)

(* AlignedMalloc returns multiples of 32 (system_allocator.cc:48),          *)
(* sizeof(MemoryBlock::Desc) is 64 (memory_block.h:61-81), and              *)
(* min_chunk_size_ is taken to be such a multiple too.                      *)
AlignedConstants ==
  /\ DescSize % SystemAlignment = 0
  /\ MinChunk % SystemAlignment = 0
  /\ \A p \in Addresses : p % SystemAlignment = 0

Aligned(d) == \A b \in BlocksIn(d) : b % SystemAlignment = 0

-----------------------------------------------------------------------------
(* Arithmetic.                                                              *)

LEMMA SumAligned ==
  ASSUME NEW a \in Nat, NEW b \in Nat, a % SystemAlignment = 0, b % SystemAlignment = 0
  PROVE  (a + b) % SystemAlignment = 0
  BY DEF SystemAlignment

LEMMA ProductAligned ==
  ASSUME NEW a \in Nat, NEW q \in Int, a % SystemAlignment = 0
  PROVE  (a * q) % SystemAlignment = 0
<1>1. PICK k \in Int : a = 32 * k
  BY DEF SystemAlignment
<1>2. a * q = 32 * (k * q) /\ k * q \in Int
  BY <1>1
<1>3. \A x \in Int : (32 * x) % 32 = 0
  OBVIOUS
<1> QED BY <1>2, <1>3 DEF SystemAlignment

LEMMA ChunkSizeAligned ==
  ASSUME RequestsFit, AlignedConstants, NEW bytes \in Requests
  PROVE  ChunkSize(bytes) % SystemAlignment = 0
<1>1. PICK q \in Nat : ChunkSize(bytes) = MinChunk * q
  BY ChunkSizeMultiple
<1>2. MinChunk \in Nat /\ q \in Int /\ MinChunk % SystemAlignment = 0
  BY BuddyConstants DEF AlignedConstants
<1>3. (MinChunk * q) % SystemAlignment = 0
  BY <1>2, ProductAligned
<1> QED BY <1>1, <1>3

-----------------------------------------------------------------------------
(* Blocks stay aligned, and what Alloc hands out is a block's data.         *)

LEMMA DataAligned ==
  ASSUME AlignedConstants, NEW b \in Nat, b % SystemAlignment = 0
  PROVE  data(b) % SystemAlignment = 0
  BY SumAligned, BuddyConstants DEF data, AlignedConstants

LEMMA RemainderAligned ==
  ASSUME RequestsFit, AlignedConstants, NEW bytes \in Requests, NEW b \in Nat,
         b % SystemAlignment = 0
  PROVE  (b + ChunkSize(bytes)) % SystemAlignment = 0
  BY SumAligned, ChunkSizeAligned, ChunkSizeHolds

(* A step of Alloc hands out at most one pointer, an aligned one.           *)
HandsOut ==
  \E r : /\ live' = live \cup {r}
         /\ r.bytes \in Requests /\ r.mem % SystemAlignment = 0

LEMMA HandsOutOne ==
  ASSUME NEW p, p % SystemAlignment = 0, NEW bytes \in Requests,
         live' = live \cup {[mem |-> p, bytes |-> bytes]}
  PROVE  HandsOut
<1>1. PICK r : r = [mem |-> p, bytes |-> bytes]
  OBVIOUS
<1>2. r.mem = p /\ r.bytes = bytes
  BY <1>1
<1>3. live' = live \cup {r} /\ r.bytes \in Requests /\ r.mem % SystemAlignment = 0
  BY <1>1, <1>2
<1> QED BY <1>3, Zenon DEF HandsOut

LEMMA AllocHugeAligned ==
  ASSUME NEW max \in Maxima,
         RequestsFit, AlignedConstants, IInv(max), Aligned(desc),
         NEW bytes \in Requests, AllocHuge(bytes, max)
  PROVE  Aligned(desc') /\ HandsOut
<1> DEFINE size == ChunkSize(bytes)
<1>1. PICK p \in Addresses, i \in Indices :
        /\ Available(p, size)
        /\ desc' = Save(desc, p, Desc("HUGE", i, size, NULL, NULL))
        /\ live' = live \cup {[mem |-> data(p), bytes |-> bytes]}
  BY DEF AllocHuge
<1>2. size \in Nat /\ size >= DescSize
  BY ChunkSizeHolds, BuddyConstants
<1> HIDE DEF size
<1>3. BlocksIn(desc') = BlocksIn(desc) \cup {p}
  BY <1>1, <1>2, ObtainStep
<1>4. p \in Nat /\ p % SystemAlignment = 0
  BY BuddyConstants DEF AlignedConstants
<1>5. data(p) % SystemAlignment = 0
  BY <1>4, DataAligned
<1>6. Aligned(desc')
  BY <1>3, <1>4 DEF Aligned
<1>7. HandsOut
  BY <1>1, <1>5, HandsOutOne
<1> QED BY <1>6, <1>7

LEMMA AllocExistingAligned ==
  ASSUME NEW max \in Maxima,
         RequestsFit, AlignedConstants, IInv(max), Aligned(desc),
         NEW bytes \in Requests, AllocExisting(bytes, max)
  PROVE  Aligned(desc') /\ HandsOut
<1>1. PICK t \in pool : /\ FindExistChunk(ChunkSize(bytes), t)
                        /\ SplitToAlloc(bytes, desc, pool, t[3])
  BY DEF AllocExisting
<1>2. PICK b \in FreeIn(desc) : t = Entry(desc, b)
  BY DEF IInv, EntriesOf
<1>3. t[3] = b /\ desc[b].total_size >= ChunkSize(bytes)
  BY <1>1, <1>2 DEF Entry, FindExistChunk, Fits
<1>4. /\ desc' = SplitDesc(desc, b, ChunkSize(bytes))
      /\ live' = live \cup {[mem |-> data(b), bytes |-> bytes]}
  BY <1>1, <1>3 DEF SplitToAlloc
<1>5. BlocksIn(desc') \subseteq BlocksIn(desc) \cup {b + ChunkSize(bytes)}
  BY <1>3, <1>4, SplitToAllocStep DEF IInv
<1>6. b \in Nat /\ b % SystemAlignment = 0
  BY DEF IInv, Shape, Typed, FreeIn, BlocksIn, Aligned
<1>7. /\ data(b) % SystemAlignment = 0
      /\ (b + ChunkSize(bytes)) % SystemAlignment = 0
  BY <1>6, DataAligned, RemainderAligned
<1>8. Aligned(desc')
  BY <1>5, <1>7 DEF Aligned
<1>9. HandsOut
  BY <1>4, <1>7, HandsOutOne
<1> QED BY <1>8, <1>9

LEMMA AllocRefillAligned ==
  ASSUME NEW max \in Maxima,
         RequestsFit, AlignedConstants, IInv(max), Aligned(desc),
         NEW bytes \in Requests, AllocRefill(bytes, max)
  PROVE  Aligned(desc') /\ HandsOut
<1>1. PICK p \in Addresses, i \in Indices :
        LET fresh == Save(desc, p, Desc("FREE", i, max, NULL, NULL)) IN
        /\ Available(p, max)
        /\ SplitToAlloc(bytes, fresh, pool \cup {Entry(fresh, p)}, p)
  BY DEF AllocRefill
<1> DEFINE fresh == Save(desc, p, Desc("FREE", i, max, NULL, NULL))
           h == Hold(held, p, max, i)
<1>2. /\ desc' = SplitDesc(fresh, p, ChunkSize(bytes))
      /\ live' = live \cup {[mem |-> data(p), bytes |-> bytes]}
  BY <1>1 DEF SplitToAlloc
<1>3. max \in Nat /\ max >= DescSize
  BY BuddyConstants DEF Maxima
<1>4. /\ Shape(fresh, h, max) /\ Quiet(fresh)
      /\ p \notin BlocksIn(desc) /\ fresh[p].total_size = max
      /\ FreeIn(fresh) = FreeIn(desc) \cup {p} /\ InUse(fresh) = InUse(desc)
      /\ \A x \in BlocksIn(desc) : fresh[x] = desc[x]
      /\ BlocksIn(fresh) = BlocksIn(desc) \cup {p}
  BY <1>1, <1>3, ObtainStep
<1> HIDE DEF fresh, h
<1>5. Served(fresh, live)
  <2>1. \A x \in InUse(desc) : fresh[x].total_size = desc[x].total_size
    BY <1>4 DEF InUse, BlocksIn
  <2> QED BY <2>1, <1>4, ServedSame DEF IInv
<1>6. p \in FreeIn(fresh) /\ fresh[p].total_size >= ChunkSize(bytes)
  BY <1>3, <1>4, ChunkSizeHolds DEF AllocRefill, IsHuge
<1>7. BlocksIn(desc') \subseteq BlocksIn(fresh) \cup {p + ChunkSize(bytes)}
  BY <1>2, <1>4, <1>5, <1>6, SplitToAllocStep
<1>8. p \in Nat /\ p % SystemAlignment = 0
  BY BuddyConstants DEF AlignedConstants
<1>9. /\ data(p) % SystemAlignment = 0
      /\ (p + ChunkSize(bytes)) % SystemAlignment = 0
  BY <1>8, DataAligned, RemainderAligned
<1>10. Aligned(desc')
  BY <1>4, <1>7, <1>8, <1>9 DEF Aligned
<1>11. HandsOut
  BY <1>2, <1>9, HandsOutOne
<1> QED BY <1>10, <1>11

(* No other step makes a block.                                             *)
LEMMA FewerBlocks ==
  ASSUME NEW max \in Maxima, IInv(max), Aligned(desc)
  PROVE  /\ \A m \in live : FreeHuge(m) => Aligned(desc') /\ live' = live \ {m}
         /\ \A m \in live : FreeArena(m) => Aligned(desc') /\ live' = live \ {m}
         /\ Destroy(max) => Aligned(desc') /\ live' = live
<1>1. ASSUME NEW m \in live, FreeHuge(m) PROVE Aligned(desc') /\ live' = live \ {m}
  BY <1>1 DEF FreeHuge, Drop, Aligned, BlocksIn
<1>2. ASSUME NEW m \in live, FreeArena(m) PROVE Aligned(desc') /\ live' = live \ {m}
  <2>1. BlocksIn(desc') \subseteq BlocksIn(desc)
    BY <1>2, FreeArenaStep
  <2> QED BY <1>2, <2>1 DEF FreeArena, Aligned
<1>3. ASSUME Destroy(max) PROVE Aligned(desc') /\ live' = live
  BY <1>3 DEF Destroy, Aligned, BlocksIn
<1> QED BY <1>1, <1>2, <1>3

-----------------------------------------------------------------------------
DoNotMeet(r, s) ==
  /\ r.mem # s.mem
  /\ r.mem + r.bytes <= s.mem \/ s.mem + s.bytes <= r.mem

(* Two allocations lie in two blocks, which do not overlap.                 *)
LEMMA LiveApart ==
  ASSUME NEW max \in Maxima, NEW d, NEW h, NEW L, Shape(d, h, max), Served(d, L), NEW m \in L, NEW n \in L, m # n
  PROVE  DoNotMeet(m, n)
<1> DEFINE a == metadata(m.mem)
           b == metadata(n.mem)
<1>1. /\ m.mem \in Nat /\ n.mem \in Nat /\ m.bytes \in Nat /\ n.bytes \in Nat
      /\ m.mem # n.mem
  <2>1. m \in [mem : Nat, bytes : Requests] /\ n \in [mem : Nat, bytes : Requests]
    BY DEF Served
  <2>2. Requests \subseteq Nat
    BY BuddyConstants
  <2> QED BY <2>1, <2>2 DEF Served
<1>2. /\ a \in BlocksIn(d) /\ b \in BlocksIn(d)
      /\ m.mem + m.bytes <= EndIn(d, a) /\ n.mem + n.bytes <= EndIn(d, b)
  BY DEF Served, InUse, BlocksIn
<1>3. m.mem = a + DescSize /\ n.mem = b + DescSize /\ a \in Int /\ b \in Int /\ DescSize \in Nat
  BY <1>1, BuddyConstants DEF metadata
<1> HIDE DEF a, b
<1>4. EndIn(d, a) \in Int /\ EndIn(d, b) \in Int
  <2>1. d[a] \in Descriptor /\ d[b] \in Descriptor
    BY <1>2 DEF Shape, Typed, BlocksIn
  <2>2. d[a].total_size \in Nat /\ d[b].total_size \in Nat
    BY <2>1 DEF Descriptor
  <2> QED BY <1>3, <2>2 DEF EndIn
<1>5. /\ a < b => EndIn(d, a) <= b
      /\ b < a => EndIn(d, b) <= a
  BY <1>2 DEF Shape, Ordered
<1> QED BY <1>1, <1>2, <1>3, <1>4, <1>5 DEF DoNotMeet

(* What a call may do to the clients' allocations.                          *)
ClientsStep ==
  \/ live' = live
  \/ \E r \in live : live' = live \ {r}
  \/ \E r : /\ r \notin live /\ live' = live \cup {r}
            /\ r.bytes \in Requests /\ r.mem % SystemAlignment = 0
            /\ \A s \in live : DoNotMeet(r, s)

LEMMA ClientsCall ==
  ASSUME NEW max \in Maxima,
         RequestsFit, AlignedConstants, IInv(max), Aligned(desc), Call(max)
  PROVE  Aligned(desc') /\ ClientsStep
<1>1. IInv(max)'
  BY CallIInv
<1>2. ASSUME HandsOut PROVE ClientsStep
  <2>1. PICK r : /\ live' = live \cup {r}
                 /\ r.bytes \in Requests /\ r.mem % SystemAlignment = 0
    BY <1>2 DEF HandsOut
  <2>2. CASE r \in live
    BY <2>1, <2>2 DEF ClientsStep
  <2>3. CASE r \notin live
    <3>1. \A s \in live : DoNotMeet(r, s)
      <4> DEFINE d == desc'
                 h == held'
                 L == live'
      <4>1. Shape(d, h, max) /\ Served(d, L)
        BY <1>1 DEF IInv
      <4>2. r \in L /\ \A s \in live : s \in L /\ s # r
        BY <2>1, <2>3
      <4> HIDE DEF d, h, L
      <4> QED BY <4>1, <4>2, LiveApart
    <3> QED BY <2>1, <2>3, <3>1 DEF ClientsStep
  <2> QED BY <2>2, <2>3
<1>3. ASSUME NEW bytes \in Requests, Alloc(bytes, max) PROVE Aligned(desc') /\ HandsOut
  BY <1>3, AllocHugeAligned, AllocExistingAligned, AllocRefillAligned DEF Alloc
<1>4. ASSUME NEW m \in live, FreeHuge(m) \/ FreeArena(m)
      PROVE  Aligned(desc') /\ ClientsStep
  BY <1>4, FewerBlocks DEF ClientsStep
<1>5. CASE Destroy(max)
  BY <1>5, FewerBlocks DEF ClientsStep
<1> QED BY <1>2, <1>3, <1>4, <1>5 DEF Call

LEMMA PromiseStep ==
  ASSUME RequestsFit, AlignedConstants, IInv(MaxChunk), Aligned(desc), [Next]_vars
  PROVE  Aligned(desc') /\ [Promise!Next]_live
<1>1. ASSUME ClientsStep PROVE [Promise!Next]_live
  <2>1. CASE live' = live
    BY <2>1
  <2>2. CASE \E r \in live : live' = live \ {r}
    BY <2>2 DEF Promise!Next, Promise!Free
  <2>3. ASSUME NEW r, r \notin live, live' = live \cup {r}, r.bytes \in Requests,
               r.mem % SystemAlignment = 0, \A s \in live : DoNotMeet(r, s)
        PROVE  Promise!Next
    <3>1. r \in live'
      BY <2>3
    <3>2. \A s \in live : Promise!Disjoint(r, s)
      BY <2>3 DEF Promise!Disjoint, DoNotMeet
    <3> QED BY <2>3, <3>1, <3>2 DEF Promise!Next, Promise!Alloc
  <2> QED BY <1>1, <2>1, <2>2, <2>3 DEF ClientsStep
<1>2. CASE Next
  <2>1. Aligned(desc') /\ ClientsStep
    BY <1>2, NextIsCall, MaxChunkIsOne, ClientsCall
  <2> QED BY <1>1, <2>1
<1>3. CASE UNCHANGED vars
  BY <1>3 DEF vars, Aligned, BlocksIn
<1> QED BY <1>2, <1>3

(* What Alloc returns is aligned, lies apart from all that clients hold, and *)
(* stays theirs until they free it (allocator.h, buddy_allocator.cc:36-117). *)
THEOREM PromiseKept ==
  ASSUME RequestsFit, AlignedConstants
  PROVE  Spec => ImplementsHeap
<1>1. Init => IInv(MaxChunk) /\ Aligned(desc) /\ Promise!Init
  <2>1. Init => Aligned(desc)
    BY DEF Init, Aligned, BlocksIn
  <2> QED BY <2>1, MaxChunkIsOne, InitIInv DEF Init, Promise!Init
<1>2. IInv(MaxChunk) /\ Aligned(desc) /\ [Next]_vars => IInv(MaxChunk)' /\ Aligned(desc)' /\ [Promise!Next]_live
  BY NextIInv, PromiseStep
<1> QED BY <1>1, <1>2, PTL DEF Spec, ImplementsHeap, Promise!Spec
=============================================================================
