-------------------------- MODULE ChunkSizes_lemmas --------------------------
(***************************************************************************)
(* Facts about the size arithmetic of the uni_allocator, for every width   *)
(* of a size_t, on which the proofs about ChunkSizes and UniAllocator      *)
(* rest.                                                                   *)
(***************************************************************************)
EXTENDS ChunkSizes, TLAPS, WellFoundedInduction

-----------------------------------------------------------------------------
(* Least elements: what __builtin_ctz finds.                                *)

LEMMA LeastElement ==
  ASSUME NEW T \in SUBSET Nat, T # {}
  PROVE  \E x \in T : \A y \in T : x <= y
<1> DEFINE R == OpToRel(<, Nat)
<1>1. IsWellFoundedOn(R, Nat)
  BY NatLessThanWellFounded
<1>2. \A x, y \in T : y < x => <<y, x>> \in R
  BY DEF OpToRel
<1> HIDE DEF R
<1>3. PICK x \in T : \A y \in T : ~(<<y, x>> \in R)
  BY <1>1, WFMin
<1>4. \A y \in T : ~(y < x)
  BY <1>2, <1>3
<1> QED BY <1>3, <1>4

LEMMA MinIsLeast ==
  ASSUME NEW T \in SUBSET Nat, T # {}
  PROVE  Min(T) \in T /\ \A y \in T : Min(T) <= y
  BY LeastElement DEF Min

-----------------------------------------------------------------------------
(* Arithmetic of a size_t.                                                  *)

LEMMA WrapSmall == ASSUME NEW n \in Nat, n < SizeModulus PROVE Wrap(n) = n
  BY SizeModulusAssumption DEF Wrap

LEMMA WrapBelow ==
  ASSUME NEW n \in Int, n < 0, -SizeModulus <= n
  PROVE  Wrap(n) = SizeModulus + n
<1>1. SizeModulus + n \in 0 .. SizeModulus - 1 /\ SizeModulus \in Nat \ {0}
  BY SizeModulusAssumption
<1>2. (SizeModulus + n) % SizeModulus = SizeModulus + n
  BY <1>1
<1>3. n % SizeModulus = (SizeModulus + n) % SizeModulus
  BY <1>1
<1> QED BY <1>2, <1>3 DEF Wrap

(* The remainder a chunk leaves, as a size_t: enormous when the chunk is    *)
(* too small (uni_allocator.h:458-470, 507).                                *)
LEMMA WrapRemainder ==
  ASSUME NEW s \in 0 .. SizeModulus - 1, NEW nb \in 1 .. SizeModulus - 1
  PROVE  Wrap(s - nb) = IF nb <= s THEN s - nb ELSE SizeModulus + s - nb
<1>1. CASE nb <= s
  <2>1. s - nb \in Nat /\ s - nb < SizeModulus
    BY <1>1, SizeModulusAssumption
  <2> QED BY <1>1, <2>1, WrapSmall
<1>2. CASE s < nb
  <2>1. s - nb \in Int /\ s - nb < 0 /\ -SizeModulus <= s - nb
    BY <1>2, SizeModulusAssumption
  <2>2. Wrap(s - nb) = SizeModulus + (s - nb)
    BY <2>1, WrapBelow
  <2> QED BY <1>2, <2>2, SizeModulusAssumption
<1> QED BY <1>1, <1>2, SizeModulusAssumption

LEMMA AlignOffset ==
  ASSUME NEW a \in Nat
  PROVE  align_offset(a) \in 0 .. 15 /\ (a + align_offset(a)) % 16 = 0
  BY DEF align_offset, MALLOC_ALIGNMENT

(* Below MAX_REQUEST a request leaves room for what padding adds to it.     *)
LEMMA NothingWraps ==
  ASSUME NEW req \in Nat, req < MAX_REQUEST
  PROVE  /\ Wrap(req + CHUNK_OVERHEAD + MALLOC_ALIGNMENT - 1) = req + 23
         /\ req + 23 \in Nat
<1>1. Wrap(-128) = SizeModulus - 128
  BY SizeModulusAssumption DEF Wrap
<1>2. req + 23 < SizeModulus
  BY <1>1, SizeModulusAssumption DEF MAX_REQUEST, MIN_CHUNK_SIZE
<1>3. Wrap(req + 23) = req + 23
  BY <1>2, SizeModulusAssumption DEF Wrap
<1> QED BY <1>3 DEF CHUNK_OVERHEAD, SIZE_T_SIZE, MALLOC_ALIGNMENT

LEMMA AlignedDown ==
  ASSUME NEW n \in Nat
  PROVE  /\ AlignDown(n) \in Nat /\ AlignDown(n) % 16 = 0
         /\ AlignDown(n) <= n /\ n < AlignDown(n) + 16
  BY DEF AlignDown, MALLOC_ALIGNMENT

(* The size of the chunk of a request, in numbers.                          *)
LEMMA PaddedSize ==
  ASSUME NEW req \in Nat, req < MAX_REQUEST
  PROVE  LET s == request2size(req) IN
         /\ s \in Nat /\ s % 16 = 0 /\ s >= 32 /\ s >= req + 8
         /\ s = 32 \/ s < req + 24
<1> DEFINE s == request2size(req)
<1>1. CASE req < 23
  BY <1>1 DEF request2size, MIN_REQUEST, MIN_CHUNK_SIZE, CHUNK_OVERHEAD, SIZE_T_SIZE
<1>2. CASE req >= 23
  <2>1. s = AlignDown(req + 23) /\ req + 23 \in Nat
    BY <1>2, NothingWraps
       DEF request2size, pad_request, MIN_REQUEST, MIN_CHUNK_SIZE, CHUNK_OVERHEAD, SIZE_T_SIZE
  <2> HIDE DEF s
  <2>2. s \in Nat /\ s % 16 = 0 /\ s <= req + 23 /\ req + 23 < s + 16
    BY <2>1, AlignedDown
  <2>3. s >= 32
    BY <1>2, <2>2
  <2>4. s \in Nat /\ s % 16 = 0 /\ s >= 32 /\ s >= req + 8 /\ s < req + 24
    BY <2>2, <2>3
  <2> QED BY <2>4 DEF s
<1> QED BY <1>1, <1>2

-----------------------------------------------------------------------------
(* Bins.                                                                    *)

(* A small chunk of a multiple of 8 bytes has a bin, which knows its size.  *)
LEMMA SmallIndex ==
  ASSUME NEW s \in Nat, is_small(s)
  PROVE  /\ small_index(s) \in BinIndex
         /\ s % 8 = 0 => small_index2size(small_index(s)) = s
  BY DEF is_small, MIN_LARGE_SIZE, small_index, small_index2size, BinIndex, NBINS

Pow(k) == 2^k

LEMMA HighestBitIs ==
  ASSUME NEW x \in Nat, 1 <= x, x <= 65535
  PROVE  /\ HighestBit(x) \in 0 .. 15
         /\ Pow(HighestBit(x)) <= x /\ x < Pow(HighestBit(x) + 1)
<1>1. \E k \in 0 .. 15 : 2^k <= x /\ x < 2^(k + 1)
  OBVIOUS
<1> DEFINE P(k) == 2^k <= x /\ x < 2^(k + 1)
           D == 0 .. 15
<1>2. HighestBit(x) = CHOOSE k \in D : P(k)
  BY DEF HighestBit
<1>3. \E k \in D : P(k)
  BY <1>1
<1> HIDE DEF P, D
<1>4. HighestBit(x) \in D /\ P(HighestBit(x))
  BY <1>2, <1>3
<1> QED BY <1>4 DEF P, D, Pow

(* The powers of two that compute_tree_index can meet.                      *)
LEMMA Powers ==
  ASSUME NEW k \in 0 .. 15
  PROVE  /\ Pow(k) \in Nat \ {0} /\ Pow(k + 1) = 2 * Pow(k)
         /\ Pow(k + 7) = 128 * Pow(k) /\ Pow(15) = 32768
<1>0. CASE k = 0  BY <1>0 DEF Pow
<1>1. CASE k = 1  BY <1>1 DEF Pow
<1>2. CASE k = 2  BY <1>2 DEF Pow
<1>3. CASE k = 3  BY <1>3 DEF Pow
<1>4. CASE k = 4  BY <1>4 DEF Pow
<1>5. CASE k = 5  BY <1>5 DEF Pow
<1>6. CASE k = 6  BY <1>6 DEF Pow
<1>7. CASE k = 7  BY <1>7 DEF Pow
<1>8. CASE k = 8  BY <1>8 DEF Pow
<1>9. CASE k = 9  BY <1>9 DEF Pow
<1>10. CASE k = 10  BY <1>10 DEF Pow
<1>11. CASE k = 11  BY <1>11 DEF Pow
<1>12. CASE k = 12  BY <1>12 DEF Pow
<1>13. CASE k = 13  BY <1>13 DEF Pow
<1>14. CASE k = 14  BY <1>14 DEF Pow
<1>15. CASE k = 15  BY <1>15 DEF Pow
<1> QED BY <1>0, <1>1, <1>2, <1>3, <1>4, <1>5, <1>6, <1>7, <1>8, <1>9, <1>10, <1>11,
           <1>12, <1>13, <1>14, <1>15

LEMMA PowersGrow ==
  ASSUME NEW j \in 0 .. 15, NEW k \in 0 .. 15, j < k
  PROVE  2 * Pow(j) <= Pow(k)
<1> DEFINE T == {n \in Nat : j + 1 + n <= 15 /\ ~(2 * Pow(j) <= Pow(j + 1 + n))}
<1>1. T = {} => 2 * Pow(j) <= Pow(k)
  <2> SUFFICES ASSUME T = {} PROVE 2 * Pow(j) <= Pow(k)
    OBVIOUS
  <2>1. PICK n \in Nat : n = k - j - 1
    OBVIOUS
  <2>2. n \notin T
    OBVIOUS
  <2>3. j + 1 + n = k /\ j + 1 + n <= 15
    BY <2>1
  <2> QED BY <2>2, <2>3
<1> SUFFICES ASSUME T # {} PROVE FALSE
  BY <1>1
<1>2. PICK n \in T : \A m \in T : n <= m
  BY LeastElement
<1>3. n # 0
  <2>1. Pow(j + 1) = 2 * Pow(j) /\ Pow(j) \in Nat
    BY Powers
  <2> QED BY <1>2, <2>1
<1>4. n \in Nat /\ j + 1 + n <= 15 /\ ~(2 * Pow(j) <= Pow(j + 1 + n))
  BY <1>2
<1>5. 2 * Pow(j) <= Pow(j + n)
  <2>1. PICK m \in Nat : m + 1 = n
    BY <1>3, <1>4
  <2>2. m \notin T
    BY <1>2, <2>1
  <2>3. j + 1 + m = j + n /\ j + 1 + m <= 15
    BY <1>4, <2>1
  <2> QED BY <2>2, <2>3
<1>6. Pow(j + n + 1) = 2 * Pow(j + n) /\ Pow(j + n) \in Nat /\ Pow(j) \in Nat
  <2>1. j + n \in 0 .. 15
    BY <1>4
  <2> QED BY <2>1, Powers
<1>7. j + n + 1 = j + 1 + n
  BY <1>4
<1> QED BY <1>4, <1>5, <1>6, <1>7

(* The bit below the leading one of S.                                      *)
LEMMA HalfOctave ==
  ASSUME NEW p \in Nat \ {0}, NEW S \in Nat, 2 * p <= S, S < 4 * p
  PROVE  (S \div p) % 2 = IF S < 3 * p THEN 0 ELSE 1
<1>1. CASE S < 3 * p
  <2>1. S \div p = 2
    BY <1>1
  <2> QED BY <1>1, <2>1
<1>2. CASE S >= 3 * p
  <2>1. S \div p = 3
    BY <1>2
  <2> QED BY <1>2, <2>1
<1> QED BY <1>1, <1>2

LEMMA HalfOctaveOf ==
  ASSUME NEW S \in Nat, NEW w \in Nat \ {0}, NEW X \in Nat,
         w <= X, X < 2 * w, 256 * X <= S, S < 256 * X + 256
  PROVE  /\ 256 * w <= S /\ S < 512 * w
         /\ (S \div (128 * w)) % 2 = IF S < 384 * w THEN 0 ELSE 1
<1>1. 256 * w <= S /\ S < 512 * w
  OBVIOUS
<1> DEFINE p == 128 * w
<1>2. p \in Nat \ {0} /\ 2 * p <= S /\ S < 4 * p /\ 3 * p = 384 * w
  BY <1>1
<1> HIDE DEF p
<1>3. (S \div p) % 2 = IF S < 3 * p THEN 0 ELSE 1
  BY <1>2, HalfOctave
<1> QED BY <1>1, <1>2, <1>3 DEF p

(* Every chunk has a bin.                                                   *)
LEMMA TreeIndexIn ==
  ASSUME NEW S \in Nat
  PROVE  compute_tree_index(S) \in BinIndex
<1>1. PICK X \in Nat : X = Shifted(S)
  <2>1. (S \div 256) \in Nat
    OBVIOUS
  <2>2. \A n \in Nat : n % UIntModulus \in Nat
    BY UIntModulusAssumption
  <2> QED BY <2>1, <2>2 DEF Shifted
<1>2. CASE X = 0
  BY <1>1, <1>2 DEF compute_tree_index, BinIndex, NBINS
<1>3. CASE X > 65535
  BY <1>1, <1>3 DEF compute_tree_index, BinIndex, NBINS
<1>4. CASE X # 0 /\ X <= 65535
  <2>1. HighestBit(X) \in 0 .. 15
    BY <1>4, HighestBitIs
  <2>2. PICK K \in 0 .. 15 : K = HighestBit(X)
    BY <2>1
  <2>3. compute_tree_index(S) = (2 * K) + ((S \div Pow(K + 7)) % 2)
    BY <1>1, <1>4, <2>2 DEF compute_tree_index, Pow
  <2>4. PICK p \in Nat \ {0} : p = Pow(K + 7)
    <3>1. Pow(K) \in Nat \ {0} /\ Pow(K + 7) = 128 * Pow(K)
      BY Powers
    <3> QED BY <3>1
  <2>5. (S \div p) % 2 \in 0 .. 1
    <3>1. (S \div p) \in Int
      BY <2>4
    <3> QED BY <3>1
  <2> QED BY <2>3, <2>4, <2>5 DEF BinIndex, NBINS
<1> QED BY <1>1, <1>2, <1>3, <1>4

(* The shift of an indexed size loses nothing.                              *)
LEMMA ShiftedIs ==
  ASSUME NEW S \in Nat, Indexed(S)
  PROVE  Shifted(S) = S \div 256
<1>1. PICK X \in Nat : X = S \div 256
  OBVIOUS
<1>2. X < UIntModulus
  BY <1>1 DEF Indexed
<1>3. X % UIntModulus = X
  BY <1>2, UIntModulusAssumption
<1> QED BY <1>1, <1>3 DEF Shifted

LEMMA IndexedBelow ==
  ASSUME NEW S \in Nat, NEW T \in Nat, S <= T, Indexed(T)
  PROVE  Indexed(S)
<1>1. S \div 256 \in Nat /\ T \div 256 \in Nat /\ S \div 256 <= T \div 256
  OBVIOUS
<1> QED BY <1>1, UIntModulusAssumption DEF Indexed

(* The bin of a chunk, by the position of its leading bit.                  *)
LEMMA TreeIndexIs ==
  ASSUME NEW S \in Nat, S >= 256, Indexed(S)
  PROVE  \/ S >= 512 * Pow(15) /\ compute_tree_index(S) = 31
         \/ \E K \in 0 .. 15 :
              /\ 256 * Pow(K) <= S /\ S < 512 * Pow(K)
              /\ compute_tree_index(S) = 2 * K + (IF S < 384 * Pow(K) THEN 0 ELSE 1)
<1>1. PICK X \in Nat : /\ X = Shifted(S) /\ X >= 1
                       /\ 256 * X <= S /\ S < 256 * X + 256
  <2>1. (S \div 256) \in Nat /\ (S \div 256) >= 1
        /\ 256 * (S \div 256) <= S /\ S < 256 * (S \div 256) + 256
    OBVIOUS
  <2> QED BY <2>1, ShiftedIs
<1>2. CASE X > 65535
  <2>1. compute_tree_index(S) = 31
    BY <1>1, <1>2 DEF compute_tree_index, NBINS
  <2>2. Pow(15) = 32768
    BY Powers
  <2>3. S >= 512 * Pow(15)
    BY <1>1, <1>2, <2>2
  <2> QED BY <2>1, <2>3
<1>3. CASE X <= 65535
  <2>1. /\ HighestBit(X) \in 0 .. 15
        /\ Pow(HighestBit(X)) <= X /\ X < Pow(HighestBit(X) + 1)
    BY <1>1, <1>3, HighestBitIs
  <2>2. PICK K \in 0 .. 15 : K = HighestBit(X) /\ Pow(K) <= X /\ X < Pow(K + 1)
    BY <2>1
  <2>3. Pow(K) \in Nat \ {0} /\ Pow(K + 1) = 2 * Pow(K) /\ Pow(K + 7) = 128 * Pow(K)
    BY Powers
  <2>4. compute_tree_index(S) = (2 * K) + ((S \div Pow(K + 7)) % 2)
    BY <1>1, <1>3, <2>2 DEF compute_tree_index, Pow
  <2>5. PICK w \in Nat \ {0} : w = Pow(K)
    BY <2>3
  <2>6. w <= X /\ X < 2 * w
    BY <2>2, <2>3, <2>5
  <2>7. /\ 256 * w <= S /\ S < 512 * w
        /\ (S \div (128 * w)) % 2 = IF S < 384 * w THEN 0 ELSE 1
    BY <1>1, <2>6, HalfOctaveOf
  <2> QED BY <2>3, <2>4, <2>5, <2>7
<1> QED BY <1>1, <1>2, <1>3

(* Bins of trees are in the order of the sizes they hold, of those that an  *)
(* unsigned int can index.                                                  *)
LEMMA TreeIndexOrder ==
  ASSUME NEW S \in Nat, NEW T \in Nat, S >= 256, S <= T, Indexed(T)
  PROVE  /\ compute_tree_index(S) \in BinIndex
         /\ compute_tree_index(S) <= compute_tree_index(T)
<1>1. \A k \in 0 .. 15 : Pow(k) \in Nat \ {0} /\ Pow(k) <= Pow(15)
  <2>1. \A k \in 0 .. 15 : Pow(k) \in Nat \ {0}
    BY Powers
  <2>2. \A k \in 0 .. 14 : 2 * Pow(k) <= Pow(15)
    BY PowersGrow
  <2> QED BY <2>1, <2>2
<1>2. \A j, k \in 0 .. 15 : j < k => 2 * Pow(j) <= Pow(k)
  BY PowersGrow
<1> DEFINE a == compute_tree_index(S)
           b == compute_tree_index(T)
<1>3. \/ S >= 512 * Pow(15) /\ a = 31
      \/ \E K \in 0 .. 15 : /\ 256 * Pow(K) <= S /\ S < 512 * Pow(K)
                            /\ a = 2 * K + (IF S < 384 * Pow(K) THEN 0 ELSE 1)
  BY IndexedBelow, TreeIndexIs
<1>4. \/ T >= 512 * Pow(15) /\ b = 31
      \/ \E K \in 0 .. 15 : /\ 256 * Pow(K) <= T /\ T < 512 * Pow(K)
                            /\ b = 2 * K + (IF T < 384 * Pow(K) THEN 0 ELSE 1)
  <2>1. T >= 256
    OBVIOUS
  <2> QED BY <2>1, TreeIndexIs
<1> HIDE DEF a, b
<1>5. a \in 0 .. 31 /\ b \in 0 .. 31
  BY <1>3, <1>4
<1>6. a <= b
  <2>1. CASE T >= 512 * Pow(15) /\ b = 31
    BY <1>5, <2>1
  <2>2. ASSUME NEW K \in 0 .. 15, 256 * Pow(K) <= T, T < 512 * Pow(K),
               b = 2 * K + (IF T < 384 * Pow(K) THEN 0 ELSE 1)
        PROVE  a <= b
    <3>1. ~(S >= 512 * Pow(15))
      BY <1>1, <2>2
    <3>2. PICK J \in 0 .. 15 : /\ 256 * Pow(J) <= S /\ S < 512 * Pow(J)
                               /\ a = 2 * J + (IF S < 384 * Pow(J) THEN 0 ELSE 1)
      BY <1>3, <3>1
    <3>3. ~(K < J)
      BY <1>1, <1>2, <2>2, <3>2
    <3>4. CASE J = K
      BY <1>1, <2>2, <3>2, <3>4
    <3>5. CASE J < K
      BY <2>2, <3>2, <3>5
    <3> QED BY <3>3, <3>4, <3>5
  <2> QED BY <1>4, <2>1, <2>2
<1> QED BY <1>5, <1>6 DEF a, b, BinIndex, NBINS
=============================================================================
