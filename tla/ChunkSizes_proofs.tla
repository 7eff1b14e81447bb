-------------------------- MODULE ChunkSizes_proofs --------------------------
(***************************************************************************)
(* What padding, the bins of a size and the search of the bitmaps return,  *)
(* for every width of a size_t and of an unsigned int.                     *)
(***************************************************************************)
EXTENDS ChunkSizesProps, ChunkSizes_lemmas

(* A request is given the least chunk there is for it, and it is treated as *)
(* small just when its chunk belongs in a small bin (chunk.h:90-122,        *)
(* uni_allocator.cc:44-59).                                                 *)
THEOREM PaddingCorrect == Spec => []RequestsPadded
<1> DEFINE Inv == size \in Nat
<1>1. Init => Inv
  BY SizesAssumption, SizeModulusAssumption DEF Init
<1>2. Inv /\ [Next]_size => Inv'
  BY SizesAssumption, SizeModulusAssumption DEF Next
<1>3. Inv => RequestsPadded
  <2> SUFFICES ASSUME size \in Nat, size < MAX_REQUEST
               PROVE  LET s == request2size(size) IN
                      /\ Holds(s, size)
                      /\ ~Holds(s - MALLOC_ALIGNMENT, size)
                      /\ (size <= MAX_SMALL_REQUEST) = is_small(s)
                      /\ is_small(s) => /\ small_index(s) \in BinIndex
                                        /\ small_index2size(small_index(s)) = s
    BY DEF RequestsPadded
  <2> DEFINE s == request2size(size)
  <2>1. /\ s \in Nat /\ s % 16 = 0 /\ s >= 32 /\ s >= size + 8
        /\ s = 32 \/ s < size + 24
    BY PaddedSize
  <2> HIDE DEF s
  <2>2. Holds(s, size)
    BY <2>1 DEF Holds, MALLOC_ALIGNMENT, MIN_CHUNK_SIZE, CHUNK_OVERHEAD, SIZE_T_SIZE
  <2>3. ~Holds(s - MALLOC_ALIGNMENT, size)
    BY <2>1 DEF Holds, MALLOC_ALIGNMENT, MIN_CHUNK_SIZE, CHUNK_OVERHEAD, SIZE_T_SIZE
  <2>4. size <= 232 <=> s < 256
    BY <2>1
  <2>5. (size <= MAX_SMALL_REQUEST) = is_small(s)
    BY <2>4 DEF MAX_SMALL_REQUEST, MIN_LARGE_SIZE, MALLOC_ALIGNMENT, CHUNK_OVERHEAD,
                SIZE_T_SIZE, is_small
  <2>6. ASSUME is_small(s)
        PROVE  small_index(s) \in BinIndex /\ small_index2size(small_index(s)) = s
    <3>1. s < 256 /\ s % 8 = 0
      BY <2>1, <2>6 DEF is_small, MIN_LARGE_SIZE
    <3>2. s \div 8 \in 0 .. 31 /\ (s \div 8) * 8 = s
      BY <2>1, <3>1
    <3> QED BY <3>2 DEF small_index, small_index2size, BinIndex, NBINS
  <2> QED BY <2>2, <2>3, <2>5, <2>6 DEF s
<1> QED BY <1>1, <1>2, <1>3, PTL DEF Spec

-----------------------------------------------------------------------------
(* Where tree bins start.                                                   *)

LEMMA FirstOfIs ==
  ASSUME NEW K \in 0 .. 15
  PROVE  /\ FirstOf(2 * K) = 256 * Pow(K)
         /\ FirstOf(2 * K + 1) = 384 * Pow(K)
         /\ FirstOf(2 * K + 2) = 512 * Pow(K)
<1>1. Pow(K) \in Nat \ {0} /\ Pow(K + 1) = 2 * Pow(K)
  BY Powers
<1>2. /\ (2 * K) % 2 = 0 /\ (2 * K) \div 2 = K
      /\ (2 * K + 1) % 2 = 1 /\ (2 * K + 1) \div 2 = K
      /\ (2 * K + 2) % 2 = 0 /\ (2 * K + 2) \div 2 = K + 1
  OBVIOUS
<1>3. \A i \in Nat : FirstOf(i) = (2 + (i % 2)) * Pow(i \div 2) * 128
  BY DEF FirstOf, Pow, MIN_LARGE_SIZE
<1>4. PICK p \in Nat \ {0} : p = Pow(K)
  BY <1>1
<1>5. FirstOf(2 * K) = (2 + 0) * p * 128
  <2>1. 2 * K \in Nat
    OBVIOUS
  <2> QED BY <2>1, <1>2, <1>3, <1>4
<1>6. FirstOf(2 * K + 1) = (2 + 1) * p * 128
  <2>1. 2 * K + 1 \in Nat
    OBVIOUS
  <2> QED BY <2>1, <1>2, <1>3, <1>4
<1>7. FirstOf(2 * K + 2) = (2 + 0) * (2 * p) * 128
  <2>1. 2 * K + 2 \in Nat
    OBVIOUS
  <2> QED BY <2>1, <1>1, <1>2, <1>3, <1>4
<1> QED BY <1>4, <1>5, <1>6, <1>7

(* An indexed size lies in the bin compute_tree_index names, and in no      *)
(* other.                                                                   *)
LEMMA TreeBinOf ==
  ASSUME NEW S \in Nat, S >= 256, Indexed(S)
  PROVE  /\ compute_tree_index(S) \in BinIndex
         /\ FirstOf(compute_tree_index(S)) <= S
         /\ compute_tree_index(S) < 31 => S < FirstOf(compute_tree_index(S) + 1)
<1> DEFINE i == compute_tree_index(S)
<1>1. \/ S >= 512 * Pow(15) /\ i = 31
      \/ \E K \in 0 .. 15 : /\ 256 * Pow(K) <= S /\ S < 512 * Pow(K)
                            /\ i = 2 * K + (IF S < 384 * Pow(K) THEN 0 ELSE 1)
  BY TreeIndexIs
<1> HIDE DEF i
<1>2. CASE S >= 512 * Pow(15) /\ i = 31
  <2>1. FirstOf(2 * 15 + 1) = 384 * Pow(15) /\ Pow(15) = 32768
    BY FirstOfIs, Powers
  <2> QED BY <1>2, <2>1 DEF i, BinIndex, NBINS
<1>3. ASSUME NEW K \in 0 .. 15, 256 * Pow(K) <= S, S < 512 * Pow(K),
             i = 2 * K + (IF S < 384 * Pow(K) THEN 0 ELSE 1)
      PROVE  i \in 0 .. 31 /\ FirstOf(i) <= S /\ (i < 31 => S < FirstOf(i + 1))
  <2>1. Pow(K) \in Nat \ {0}
    BY Powers
  <2>2. /\ FirstOf(2 * K) = 256 * Pow(K)
        /\ FirstOf(2 * K + 1) = 384 * Pow(K)
        /\ FirstOf(2 * K + 2) = 512 * Pow(K)
    BY FirstOfIs
  <2>3. CASE S < 384 * Pow(K)
    <3>1. i = 2 * K
      BY <1>3, <2>3
    <3> QED BY <1>3, <2>2, <2>3, <3>1
  <2>4. CASE ~(S < 384 * Pow(K))
    <3>1. i = 2 * K + 1 /\ i + 1 = 2 * K + 2
      BY <1>3, <2>4
    <3> QED BY <1>3, <2>1, <2>2, <2>4, <3>1
  <2> QED BY <2>3, <2>4
<1> QED BY <1>1, <1>2, <1>3 DEF i, BinIndex, NBINS

(* Two tree bins to each power of two, without gap or overlap, for every    *)
(* size that an unsigned int can index (below 2^40 in the program), and a   *)
(* bin for every other size (uni_allocator.h:440-450).                      *)
THEOREM TreeBinsCover == Spec => []TreeBinsPartition
<1> DEFINE Inv == size \in Nat
<1>1. Init => Inv
  BY SizesAssumption, SizeModulusAssumption DEF Init
<1>2. Inv /\ [Next]_size => Inv'
  BY SizesAssumption, SizeModulusAssumption DEF Next
<1>3. Inv => TreeBinsPartition
  <2> SUFFICES ASSUME size \in Nat, size >= 256
               PROVE  /\ compute_tree_index(size) \in BinIndex
                      /\ Indexed(size) =>
                           /\ FirstOf(compute_tree_index(size)) <= size
                           /\ compute_tree_index(size) < 31 =>
                                size < FirstOf(compute_tree_index(size) + 1)
    BY DEF TreeBinsPartition, is_small, MIN_LARGE_SIZE, NBINS
  <2> QED BY TreeIndexIn, TreeBinOf
<1> QED BY <1>1, <1>2, <1>3, PTL DEF Spec

LEMMA FirstOfGrows ==
  ASSUME NEW i \in BinIndex, NEW j \in BinIndex, i < j
  PROVE  FirstOf(i) \in Nat /\ FirstOf(j) \in Nat /\ FirstOf(i) < FirstOf(j)
<1>1. \A k \in 0 .. 15 : Pow(k) \in Nat \ {0}
  BY Powers
<1>2. \A k, l \in 0 .. 15 : k < l => 2 * Pow(k) <= Pow(l)
  BY PowersGrow
<1>3. \A n \in BinIndex : \E k \in 0 .. 15 : n = 2 * k \/ n = 2 * k + 1
  <2>1. \A n \in BinIndex : /\ n \div 2 \in 0 .. 15
                            /\ n = 2 * (n \div 2) \/ n = 2 * (n \div 2) + 1
    BY DEF BinIndex, NBINS
  <2> QED BY <2>1
<1>4. PICK k \in 0 .. 15 : i = 2 * k \/ i = 2 * k + 1
  BY <1>3
<1>5. PICK l \in 0 .. 15 : j = 2 * l \/ j = 2 * l + 1
  BY <1>3
<1>6. FirstOf(2 * k) = 256 * Pow(k) /\ FirstOf(2 * k + 1) = 384 * Pow(k)
  BY FirstOfIs
<1>7. FirstOf(2 * l) = 256 * Pow(l) /\ FirstOf(2 * l + 1) = 384 * Pow(l)
  BY FirstOfIs
<1>8. PICK p \in Nat \ {0} : p = Pow(k)
  BY <1>1
<1>9. PICK q \in Nat \ {0} : q = Pow(l)
  BY <1>1
<1>10. FirstOf(i) = (IF i = 2 * k THEN 256 ELSE 384) * p
  BY <1>4, <1>6, <1>8
<1>11. FirstOf(j) = (IF j = 2 * l THEN 256 ELSE 384) * q
  BY <1>5, <1>7, <1>9
<1>12. k = l \/ k < l
  BY <1>4, <1>5
<1>13. CASE k = l
  <2>1. i = 2 * k /\ j = 2 * k + 1 /\ j # 2 * l
    BY <1>4, <1>5, <1>13
  <2>2. p = q
    BY <1>8, <1>9, <1>13
  <2> QED BY <2>1, <2>2, <1>10, <1>11
<1>14. CASE k < l
  <2>1. 2 * p <= q
    BY <1>2, <1>8, <1>9, <1>14
  <2> QED BY <2>1, <1>10, <1>11
<1> QED BY <1>12, <1>13, <1>14

-----------------------------------------------------------------------------
(* The bit arithmetic of the searches, on any map of bins.                  *)

LEMMA LeftBits ==
  ASSUME NEW idx \in BinIndex
  PROVE  left_bits(idx2bit(idx)) = {b \in BinIndex : b > idx}
<1>1. CASE idx = 31
  <2>1. Shl({idx}, 1) = {}
    BY <1>1 DEF Shl, BinIndex, NBINS
  <2> QED BY <1>1, <2>1 DEF left_bits, Negated, idx2bit, BinIndex, NBINS
<1>2. CASE idx < 31
  <2>1. Shl({idx}, 1) = {idx + 1}
    BY <1>2 DEF Shl, BinIndex, NBINS
  <2>2. Negated({idx + 1}) = {b \in BinIndex : b > idx}
    <3>1. {l \in {idx + 1} : \A a \in {idx + 1} : l <= a} = {idx + 1}
      BY DEF BinIndex, NBINS
    <3>2. Negated({idx + 1}) = {idx + 1} \cup {b \in BinIndex \ {idx + 1} : b > idx + 1}
      BY <3>1 DEF Negated
    <3> QED BY <1>2, <3>2 DEF BinIndex, NBINS
  <2> QED BY <1>2, <2>1, <2>2 DEF left_bits, idx2bit, BinIndex, NBINS
<1> QED BY <1>1, <1>2 DEF BinIndex, NBINS

LEMMA LeastBit ==
  ASSUME NEW x \in SUBSET BinIndex, x # {}
  PROVE  Nearest(compute_bit2idx(least_bit(x)), x)
<1>1. x \in SUBSET Nat
  BY DEF BinIndex, NBINS
<1>2. PICK l \in x : \A a \in x : l <= a
  BY <1>1, LeastElement
<1>3. least_bit(x) = {l}
  <2>1. \A k \in x : (\A a \in x : k <= a) => k = l
    <3> SUFFICES ASSUME NEW k \in x, \A a \in x : k <= a PROVE k = l
      OBVIOUS
    <3>1. k <= l /\ l <= k /\ k \in Nat /\ l \in Nat
      BY <1>1, <1>2
    <3> QED BY <3>1
  <2>2. {k \in x : \A a \in x : k <= a} = {l}
    BY <1>2, <2>1
  <2> QED BY <2>2 DEF least_bit, Negated
<1>4. Min({l}) = l
  BY <1>1, MinIsLeast
<1> QED BY <1>2, <1>3, <1>4 DEF Nearest, compute_bit2idx

LEMMA SmallBits ==
  ASSUME NEW map \in SUBSET BinIndex, NEW idx \in BinIndex
  PROVE  /\ smallbits(map, idx) = {b - idx : b \in {c \in map : c >= idx}}
         /\ 0 \in smallbits(map, idx) <=> idx \in map
         /\ 1 \in smallbits(map, idx) <=> idx + 1 \in map
         /\ Shl(smallbits(map, idx), idx) = {b \in map : b >= idx}
<1>1. smallbits(map, idx) = {b - idx : b \in {c \in map : c >= idx}}
  BY DEF smallbits, Shr, BinIndex, NBINS
<1>2. \A n \in Nat : n \in smallbits(map, idx) <=> n + idx \in map
  BY <1>1 DEF BinIndex, NBINS
<1>3. Shl(smallbits(map, idx), idx) = {b \in map : b >= idx}
  <2>1. {b + idx : b \in smallbits(map, idx)} = {(b - idx) + idx : b \in {c \in map : c >= idx}}
    BY <1>1
  <2>2. \A b \in map : b \in BinIndex /\ (b - idx) + idx = b
    BY DEF BinIndex, NBINS
  <2> QED BY <2>1, <2>2 DEF Shl
<1>4. 0 + idx = idx /\ 1 + idx = idx + 1
  BY DEF BinIndex, NBINS
<1> QED BY <1>1, <1>2, <1>3, <1>4

(* A search among the small bins, from the bin of the request on.           *)
LEMMA SmallSearch ==
  ASSUME NEW map \in SUBSET BinIndex, NEW idx \in BinIndex
  PROVE  LET fit == {i \in map : i >= idx} IN
         IF HasExactBin(map, idx) THEN Nearest(ExactBin(map, idx), fit)
         ELSE fit # {} => Nearest(LargerBin(map, idx), fit)
<1> DEFINE fit == {i \in map : i >= idx}
<1>1. /\ 0 \in smallbits(map, idx) <=> idx \in map
      /\ 1 \in smallbits(map, idx) <=> idx + 1 \in map
      /\ Shl(smallbits(map, idx), idx) = fit
  BY SmallBits
<1>2. HasExactBin(map, idx) <=> idx \in map \/ idx + 1 \in map
  BY <1>1 DEF HasExactBin
<1>3. CASE idx \in map
  <2>1. ExactBin(map, idx) = idx
    BY <1>1, <1>3 DEF ExactBin, BinIndex, NBINS
  <2> QED BY <1>2, <1>3, <2>1 DEF Nearest, BinIndex, NBINS
<1>4. CASE idx \notin map /\ idx + 1 \in map
  <2>1. ExactBin(map, idx) = idx + 1
    BY <1>1, <1>4 DEF ExactBin, BinIndex, NBINS
  <2>2. \A i \in fit : idx + 1 <= i
    BY <1>4 DEF BinIndex, NBINS
  <2>3. idx + 1 \in fit
    BY <1>4 DEF BinIndex, NBINS
  <2> QED BY <1>2, <1>4, <2>1, <2>2, <2>3 DEF Nearest
<1>5. CASE idx \notin map /\ idx + 1 \notin map
  <2>1. fit = fit \cap left_bits(idx2bit(idx))
    <3>1. \A i \in fit : i \in BinIndex /\ i > idx
      BY <1>5 DEF BinIndex, NBINS
    <3> QED BY <3>1, LeftBits
  <2>2. LargerBin(map, idx) = compute_bit2idx(least_bit(fit))
    BY <1>1, <2>1 DEF LargerBin
  <2>3. fit # {} => Nearest(LargerBin(map, idx), fit)
    BY <2>2, LeastBit
  <2> QED BY <1>2, <1>5, <2>3
<1> QED BY <1>3, <1>4, <1>5

(* A search among the tree bins to the left of the request's.               *)
LEMMA TreeSearch ==
  ASSUME NEW map \in SUBSET BinIndex, NEW S \in Nat, S >= 256, Indexed(S)
  PROVE  LET larger == {i \in map : FirstOf(i) > S} IN
         IF TreesToTheLeft(map, compute_tree_index(S)) = {} THEN larger = {}
         ELSE Nearest(LargerTree(map, compute_tree_index(S)), larger)
<1> DEFINE larger == {i \in map : FirstOf(i) > S}
           idx == compute_tree_index(S)
<1>1. /\ idx \in BinIndex /\ FirstOf(idx) <= S
      /\ idx < 31 => S < FirstOf(idx + 1)
  BY TreeBinOf
<1> HIDE DEF idx
<1>2. TreesToTheLeft(map, idx) = {i \in map : i > idx}
  BY <1>1, LeftBits DEF TreesToTheLeft
<1>3. ASSUME NEW i \in map
      PROVE  FirstOf(i) > S <=> i > idx
  <2>1. i \in BinIndex /\ i \in 0 .. 31 /\ idx \in 0 .. 31
    BY <1>1 DEF BinIndex, NBINS
  <2>2. FirstOf(i) \in Nat /\ FirstOf(idx) \in Nat
    <3>1. \E j \in BinIndex : i < j \/ j < i
      BY <2>1 DEF BinIndex, NBINS
    <3>2. \E j \in BinIndex : idx < j \/ j < idx
      BY <2>1 DEF BinIndex, NBINS
    <3> QED BY <1>1, <2>1, <3>1, <3>2, FirstOfGrows
  <2>3. CASE i <= idx
    <3>1. FirstOf(i) <= FirstOf(idx)
      BY <1>1, <2>1, <2>2, <2>3, FirstOfGrows
    <3> QED BY <1>1, <2>1, <2>2, <2>3, <3>1
  <2>4. CASE i > idx
    <3>1. idx + 1 \in BinIndex /\ idx < 31
      BY <2>1, <2>4 DEF BinIndex, NBINS
    <3>2. i = idx + 1 \/ idx + 1 < i
      BY <2>1, <2>4
    <3>3. FirstOf(idx + 1) \in Nat /\ FirstOf(idx + 1) <= FirstOf(i)
      BY <2>1, <2>2, <3>1, <3>2, FirstOfGrows
    <3> QED BY <1>1, <2>2, <2>4, <3>1, <3>3
  <2> QED BY <2>1, <2>3, <2>4
<1>4. TreesToTheLeft(map, idx) = larger
  BY <1>2, <1>3
<1>5. larger # {} => Nearest(LargerTree(map, idx), larger)
  <2>1. larger \in SUBSET BinIndex
    OBVIOUS
  <2> HIDE DEF larger
  <2> QED BY <1>4, <2>1, LeastBit DEF LargerTree
<1> QED BY <1>4, <1>5 DEF idx

(* The searches of both kinds of bins take the nearest bin whose chunks are *)
(* large enough, the tree bins for requests that an unsigned int can index: *)
(* they skip none (uni_allocator.cc:49-71, uni_allocator.h:155-168,         *)
(* 487-495).  The proof is about every map, not only those of at most two   *)
(* bins.                                                                    *)
THEOREM SearchesNearest == Spec => []BinSearchExact
<1> DEFINE Inv == size \in Nat
<1>1. Init => Inv
  BY SizesAssumption, SizeModulusAssumption DEF Init
<1>2. Inv /\ [Next]_size => Inv'
  BY SizesAssumption, SizeModulusAssumption DEF Next
<1>3. ASSUME size \in Nat, NEW map \in SUBSET BinIndex, size <= MAX_SMALL_REQUEST
      PROVE  LET nb  == request2size(size)
                 fit == {i \in map : small_index2size(i) >= nb}
             IN IF HasExactBin(map, small_index(nb))
                THEN Nearest(ExactBin(map, small_index(nb)), fit)
                ELSE fit # {} => Nearest(LargerBin(map, small_index(nb)), fit)
  <2> DEFINE nb == request2size(size)
             idx == small_index(nb)
  <2>1. size <= 232
    BY <1>3 DEF MAX_SMALL_REQUEST, MIN_LARGE_SIZE, MALLOC_ALIGNMENT, CHUNK_OVERHEAD, SIZE_T_SIZE
  <2>2. size < MAX_REQUEST
    <3>1. Wrap(-128) = SizeModulus - 128
      BY SizeModulusAssumption, WrapBelow
    <3> QED BY <2>1, <3>1, SizeModulusAssumption, <1>3 DEF MAX_REQUEST, MIN_CHUNK_SIZE
  <2>3. nb \in Nat /\ nb % 16 = 0 /\ (nb = 32 \/ nb < size + 24)
    BY <1>3, <2>2, PaddedSize
  <2> HIDE DEF nb
  <2>4. nb < 256 /\ nb % 8 = 0
    BY <1>3, <2>1, <2>3
  <2>5. idx \in BinIndex /\ small_index2size(idx) = nb
    BY <2>3, <2>4, SmallIndex DEF is_small, MIN_LARGE_SIZE
  <2> HIDE DEF idx
  <2>6. {i \in map : small_index2size(i) >= nb} = {i \in map : i >= idx}
    <3>1. \A i \in map : i \in 0 .. 31
      BY DEF BinIndex, NBINS
    <3>2. idx \in 0 .. 31 /\ nb = idx * 8
      BY <2>5 DEF small_index2size, BinIndex, NBINS
    <3>3. \A i \in 0 .. 31 : i * 8 >= nb <=> i >= idx
      BY <3>2
    <3> QED BY <3>1, <3>3 DEF small_index2size
  <2>7. IF HasExactBin(map, idx) THEN Nearest(ExactBin(map, idx), {i \in map : i >= idx})
        ELSE {i \in map : i >= idx} # {} => Nearest(LargerBin(map, idx), {i \in map : i >= idx})
    BY <2>5, SmallSearch
  <2> QED BY <2>6, <2>7 DEF nb, idx
<1>4. Inv => BinSearchExact
  <2>1. \A map \in Maps : map \in SUBSET BinIndex
    BY DEF Maps
  <2>2. ~is_small(size) <=> ~(size < 256)
    BY DEF is_small, MIN_LARGE_SIZE
  <2> QED BY <1>3, <2>1, <2>2, TreeSearch DEF BinSearchExact
<1> QED BY <1>1, <1>2, <1>4, PTL DEF Spec
=============================================================================
