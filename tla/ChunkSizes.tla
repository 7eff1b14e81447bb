----------------------------- MODULE ChunkSizes -----------------------------
(***************************************************************************)
(* The size arithmetic of the uni_allocator: size_bits.h, the macros at    *)
(* the end of chunk.h, and the bin geometry of uni_allocator.h.            *)
(*                                                                         *)
(* Names are the macros' own.  All sizes are bytes.  A size_t is a number  *)
(* below SizeModulus, an unsigned int one below UIntModulus: 2^64 and 2^32 *)
(* in the program, smaller powers of two when a run must show arithmetic   *)
(* that wraps and conversions that lose bits.                              *)
(***************************************************************************)
EXTENDS Integers, FiniteSetsExt

CONSTANTS
  SizeModulus,  \* number of values of a size_t
  UIntModulus   \* number of values of an unsigned int

ASSUME SizeModulusAssumption == SizeModulus \in Nat /\ SizeModulus >= 512
ASSUME UIntModulusAssumption == UIntModulus \in Nat /\ UIntModulus >= 65536

(* The value a size_t expression has: arithmetic on size_t is modular. *)
Wrap(n) == n % SizeModulus

SIZE_T_SIZE      == 8
TWO_SIZE_T_SIZES == 32        \* SIZE_T_SIZE << 2, four words
MALLOC_ALIGNMENT == 16
CHUNK_OVERHEAD   == SIZE_T_SIZE
MIN_CHUNK_SIZE   == 32        \* sizeof(Chunk), already aligned
MIN_REQUEST      == MIN_CHUNK_SIZE - CHUNK_OVERHEAD - 1
MAX_REQUEST      == Wrap(-(4 * MIN_CHUNK_SIZE))
MAX_SIZE_T       == SizeModulus - 1
TOP_FOOT_SIZE    == SIZE_T_SIZE

NBINS             == 32       \* NSMALLBINS and NTREEBINS
BinIndex          == 0 .. NBINS - 1
MIN_LARGE_SIZE    == 256

(* Mutant of MAX_SMALL_REQUEST: the chunk's overhead is forgotten.          *)
MAX_SMALL_REQUEST_Bare == (MIN_LARGE_SIZE - 1) - (MALLOC_ALIGNMENT - 1)

MAX_SMALL_REQUEST == (MIN_LARGE_SIZE - 1) - (MALLOC_ALIGNMENT - 1) - CHUNK_OVERHEAD

AlignDown(n) == n - (n % MALLOC_ALIGNMENT)

align_offset(a) == (-a) % MALLOC_ALIGNMENT

pad_request(req) == AlignDown(Wrap(req + CHUNK_OVERHEAD + MALLOC_ALIGNMENT - 1))

request2size(req) ==
  IF req < MIN_REQUEST THEN MIN_CHUNK_SIZE ELSE pad_request(req)

is_small(s)         == s < MIN_LARGE_SIZE
small_index(s)      == s \div 8
small_index2size(i) == i * 8

(* Position of the highest set bit of x, 31 - __builtin_clz(x): the code    *)
(* asks it only of 1 .. 16^4 - 1.                                           *)
HighestBit(x) == CHOOSE k \in 0 .. 15 : 2^k <= x /\ x < 2^(k + 1)

(* What is left of S >> TREEBIN_SHIFT in an unsigned int: the program loses *)
(* bits of sizes from 2^40 on.                                              *)
Shifted(S) == (S \div 256) % UIntModulus
Indexed(S) == S \div 256 < UIntModulus

(* Mutant of compute_tree_index: the half-octave bit is left out.           *)
compute_tree_index_Flat(S) ==
  LET X == Shifted(S) IN
  IF X = 0 THEN 0
  ELSE IF X > 65535 THEN NBINS - 1
  ELSE 2 * HighestBit(X)

(* Two tree bins per power of two: the index is twice the exponent plus the *)
(* bit below the leading one of what Shifted leaves.                        *)
compute_tree_index(S) ==
  LET X == Shifted(S) IN
  IF X = 0 THEN 0
  ELSE IF X > 65535 THEN NBINS - 1
  ELSE LET K == HighestBit(X) IN (2 * K) + ((S \div 2^(K + 7)) % 2)

-----------------------------------------------------------------------------
(* Bitmaps of bins: a binmap_t is the set of the positions of its bits, and *)
(* what leaves its 32 bits is lost.                                         *)

Shl(x, n) == {b + n : b \in x} \cap BinIndex
Shr(x, n) == {b - n : b \in x} \cap BinIndex

(* -x keeps the least set bit and inverts what is to the left of it.        *)
Negated(x) ==
  LET least == {l \in x : \A a \in x : l <= a} IN
  least \cup {b \in BinIndex \ x : \E l \in least : b > l}

idx2bit(i)   == {i}
least_bit(x) == x \cap Negated(x)

(* Mutant of left_bits: the bit itself is not shifted out.                  *)
left_bits_Own(x) == x \cup Negated(x)

left_bits(x) == Shl(x, 1) \cup Negated(Shl(x, 1))

(* Number of trailing zeros.                                                *)
compute_bit2idx(X) == Min(X)

(* Alloc's search of the small bins: bin idx or the next one; failing that  *)
(* the first one to the left.                                               *)
smallbits(map, idx) == Shr(map, idx)
HasExactBin(map, idx) == smallbits(map, idx) \cap {0, 1} # {}
ExactBin(map, idx)    == idx + (IF 0 \in smallbits(map, idx) THEN 0 ELSE 1)
LargerBin(map, idx) ==
  compute_bit2idx(least_bit(Shl(smallbits(map, idx), idx) \cap left_bits(idx2bit(idx))))

(* tmalloc_large's search of the tree bins to the left of idx.              *)
TreesToTheLeft(map, idx) == left_bits(idx2bit(idx)) \cap map
LargerTree(map, idx)     == compute_bit2idx(least_bit(TreesToTheLeft(map, idx)))
=============================================================================
