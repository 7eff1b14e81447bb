------------------------- MODULE UniAllocator_proofs -------------------------
(***************************************************************************)
(* Proofs about UniAllocator, for every segment size, every set of         *)
(* addresses, every set of requests and every width of a size_t and of an  *)
(* unsigned int.  What depends on the order of the tree bins is proved of  *)
(* segments that an unsigned int can index (below 2^40 bytes in the        *)
(* program).                                                               *)
(*                                                                         *)
(* A call goes through intermediate states (a chunk out of its bin, a      *)
(* header absorbed), so the parts of the inductive invariant are operators *)
(* on chunk headers c and states h, and there are lemmas for what each     *)
(* helper does to them.                                                    *)
(***************************************************************************)
EXTENDS UniAllocatorProps, ChunkSizes_lemmas, SequenceTheorems

-----------------------------------------------------------------------------
(* The parts of the invariant.                                              *)

ChunkMap == UNION {[D -> ChunkHeader] : D \in SUBSET Nat}

MallocState ==
  [smallmap : SUBSET BinIndex, treemap : SUBSET BinIndex,
   dvsize : Nat, topsize : Nat, least_addr : Nat, dv : Nat, top : Nat,
   smallbins : [BinIndex -> Seq(Nat)], treebins : [BinIndex -> Seq(Nat)],
   chunk : ChunkMap,
   status : {"ok", "corrupted", "abort", "crashed", "stale", "undefined"}]

NextIn(c, p) == p + c[p].size
FreeIn(c)    == {p \in DOMAIN c : ~c[p].cinuse}
UsedIn(c)    == {p \in DOMAIN c : c[p].cinuse}

(* The chunks lie one behind the other from first to end, top at the end.   *)
Tiled(c, first, top, end) ==
  /\ first \in DOMAIN c /\ top \in DOMAIN c /\ NextIn(c, top) = end
  /\ \A p \in DOMAIN c :
       p % 16 = 0 /\ first <= p /\ c[p].size > 0 /\ NextIn(c, p) <= end
  /\ \A p \in DOMAIN c \ {top} : NextIn(c, p) \in DOMAIN c /\ c[p].size >= 32
  /\ \A p \in DOMAIN c \ {first} : \E q \in DOMAIN c : NextIn(c, q) = p
  /\ \A p, q \in DOMAIN c : p < q => NextIn(c, p) <= q

Tagged(c, first, top) ==
  /\ c[first].pinuse
  /\ \A p \in DOMAIN c \ {top} :
       /\ c[NextIn(c, p)].pinuse = c[p].cinuse
       /\ ~c[p].cinuse => c[NextIn(c, p)].foot = c[p].size

Coalesced(c, top) ==
  /\ ~c[top].cinuse
  /\ \A p \in FreeIn(c) \ {top} : c[NextIn(c, p)].cinuse

Layout(c, first, top, end) ==
  Tiled(c, first, top, end) /\ Tagged(c, first, top) /\ Coalesced(c, top)

(* The bins hold exactly the chunks B, each in the bin of its size in c.    *)
BinsHold(h, c, B) ==
  /\ h.smallmap = {i \in BinIndex : h.smallbins[i] # << >>}
  /\ h.treemap  = {i \in BinIndex : h.treebins[i] # << >>}
  /\ \A i \in BinIndex :
       /\ ToSet(h.smallbins[i]) = {p \in B : is_small(c[p].size) /\ small_index(c[p].size) = i}
       /\ ToSet(h.treebins[i]) =
            {p \in B : ~is_small(c[p].size) /\ compute_tree_index(c[p].size) = i}
       /\ IsInjective(h.smallbins[i]) /\ IsInjective(h.treebins[i])
       /\ \A p, q \in ToSet(h.treebins[i]) : c[p].size = c[q].size

BinnedIn(h) == FreeIn(h.chunk) \ {h.dv, h.top}

Cached(h) ==
  /\ h.topsize = h.chunk[h.top].size
  /\ IF h.dv = NULL THEN h.dvsize = 0
     ELSE h.dv \in FreeIn(h.chunk) \ {h.top} /\ h.dvsize = h.chunk[h.dv].size

(* Each allocation is a chunk in use, which fits it.                        *)
Served(c, L) ==
  /\ {mem2chunk(m.mem) : m \in L} = UsedIn(c)
  /\ \A m, n \in L : m.mem = n.mem => m = n
  /\ \A m \in L :
       LET s == c[mem2chunk(m.mem)].size
           nb == request2size(m.bytes)
       IN m.bytes < MAX_REQUEST /\ nb <= s /\ s < nb + MIN_CHUNK_SIZE

First(h) == h.least_addr + align_offset(chunk2mem(h.least_addr))
End(h)   == h.least_addr + (IncreasingSize - TOP_FOOT_SIZE)

Whole(h, L) ==
  /\ h.least_addr > 0
  /\ Layout(h.chunk, First(h), h.top, End(h))
  /\ Cached(h)
  /\ BinsHold(h, h.chunk, BinnedIn(h))
  /\ Served(h.chunk, L)

(* Before init_top there is no chunk, and everything is zero.               *)
Fresh(h, L) ==
  /\ DOMAIN h.chunk = {} /\ L = {}
  /\ h.dv = NULL /\ h.dvsize = 0 /\ h.topsize = 0
  /\ h.smallmap = {} /\ h.treemap = {}
  /\ \A i \in BinIndex : h.smallbins[i] = << >> /\ h.treebins[i] = << >>

Typed ==
  /\ gm \in MallocState
  /\ live \subseteq [mem : Nat, bytes : Requests]
  /\ call \in Requests \cup {NoCall}
  /\ segments \in 0 .. MaxSegments

Sound == gm.status = "ok" => Fresh(gm, live) \/ Whole(gm, live)

IInv == Typed /\ Sound /\ gm.status # "abort"

-----------------------------------------------------------------------------
(* Bins as sequences: no element occurs twice.                              *)

LEMMA InSeq ==
  ASSUME NEW s \in Seq(Nat)
  PROVE  /\ Len(s) \in Nat /\ DOMAIN s = 1 .. Len(s)
         /\ \A i \in 1 .. Len(s) : s[i] \in Nat
         /\ \A x : x \in ToSet(s) <=> \E i \in 1 .. Len(s) : s[i] = x
  BY LenProperties, ElementOfSeq DEF ToSet

LEMMA PushSeq ==
  ASSUME NEW s \in Seq(Nat), IsInjective(s), NEW P \in Nat, P \notin ToSet(s)
  PROVE  LET t == <<P>> \o s IN
         /\ t \in Seq(Nat) /\ t # << >> /\ Head(t) = P
         /\ ToSet(t) = ToSet(s) \cup {P} /\ IsInjective(t)
<1> DEFINE t == <<P>> \o s
<1>1. /\ t \in Seq(Nat) /\ Len(t) = 1 + Len(s) /\ Len(s) \in Nat
      /\ t[1] = P /\ \A i \in 2 .. 1 + Len(s) : t[i] = s[i - 1]
  <2>1. <<P>> \in Seq(Nat) /\ Len(<<P>>) = 1 /\ <<P>>[1] = P
    OBVIOUS
  <2> QED BY <2>1, ConcatProperties, InSeq
<1> HIDE DEF t
<1>2. t # << >> /\ Head(t) = P
  BY <1>1
<1>3. DOMAIN t = 1 .. 1 + Len(s) /\ DOMAIN s = 1 .. Len(s)
  BY <1>1, InSeq
<1>4. \A x : x \in ToSet(t) <=> \E i \in 1 .. 1 + Len(s) : t[i] = x
  BY <1>1, InSeq
<1>5. ToSet(t) = ToSet(s) \cup {P}
  <2>1. ASSUME NEW x \in ToSet(t) PROVE x \in ToSet(s) \cup {P}
    <3>1. PICK i \in 1 .. 1 + Len(s) : t[i] = x
      BY <1>4
    <3>2. CASE i = 1
      BY <1>1, <3>1, <3>2
    <3>3. CASE i # 1
      <4>1. i \in 2 .. 1 + Len(s) /\ i - 1 \in 1 .. Len(s)
        BY <1>1, <3>3
      <4>2. s[i - 1] = x
        BY <1>1, <3>1, <4>1
      <4> QED BY <4>1, <4>2, InSeq
    <3> QED BY <3>2, <3>3
  <2>2. P \in ToSet(t)
    BY <1>1, <1>4
  <2>3. ASSUME NEW x \in ToSet(s) PROVE x \in ToSet(t)
    <3>1. PICK i \in 1 .. Len(s) : s[i] = x
      BY InSeq
    <3>2. PICK j \in 2 .. 1 + Len(s) : j - 1 = i
      BY <1>1
    <3>3. t[j] = s[j - 1]
      BY <1>1
    <3>4. j \in 1 .. 1 + Len(s) /\ t[j] = x
      BY <1>1, <3>1, <3>2, <3>3
    <3> QED BY <1>4, <3>4
  <2> QED BY <2>1, <2>2, <2>3
<1>6. IsInjective(t)
  <2> SUFFICES ASSUME NEW a \in 1 .. 1 + Len(s), NEW b \in 1 .. 1 + Len(s), t[a] = t[b]
               PROVE  a = b
    BY <1>3 DEF IsInjective
  <2>1. \A i \in 1 .. Len(s) : s[i] # P
    BY InSeq
  <2>2. \A i, j \in 1 .. Len(s) : s[i] = s[j] => i = j
    BY <1>3 DEF IsInjective
  <2>3. \A i \in 2 .. 1 + Len(s) : i - 1 \in 1 .. Len(s) /\ t[i] = s[i - 1]
    BY <1>1
  <2>4. \A i \in 1 .. 1 + Len(s) : i = 1 \/ i \in 2 .. 1 + Len(s)
    BY <1>1
  <2>5. CASE a = 1 /\ b = 1
    BY <2>5
  <2>6. CASE a = 1 /\ b # 1
    <3>1. t[b] # P
      BY <2>1, <2>3, <2>4, <2>6
    <3> QED BY <1>1, <2>6, <3>1
  <2>7. CASE a # 1 /\ b = 1
    <3>1. t[a] # P
      BY <2>1, <2>3, <2>4, <2>7
    <3> QED BY <1>1, <2>7, <3>1
  <2>8. CASE a # 1 /\ b # 1
    <3>1. a - 1 \in 1 .. Len(s) /\ b - 1 \in 1 .. Len(s) /\ s[a - 1] = s[b - 1]
      BY <2>3, <2>4, <2>8
    <3>2. a - 1 = b - 1
      BY <2>2, <3>1
    <3> QED BY <3>2
  <2> QED BY <2>5, <2>6, <2>7, <2>8
<1> QED BY <1>1, <1>2, <1>5, <1>6 DEF t

(* What RemoveAt leaves.                                                    *)
LEMMA RemoveAtSeq ==
  ASSUME NEW s \in Seq(Nat), IsInjective(s), NEW k \in 1 .. Len(s)
  PROVE  LET t == RemoveAt(s, k) IN
         t \in Seq(Nat) /\ ToSet(t) = ToSet(s) \ {s[k]} /\ IsInjective(t)
<1> DEFINE u == SubSeq(s, 1, k - 1)
           v == SubSeq(s, k + 1, Len(s))
           t == u \o v
<1>0. Len(s) \in Nat /\ \A i \in 1 .. Len(s) : s[i] \in Nat
  BY InSeq
<1>1. u \in Seq(Nat) /\ Len(u) = k - 1 /\ \A i \in 1 .. k - 1 : u[i] = s[i]
  BY <1>0, SubSeqProperties
<1>2. v \in Seq(Nat) /\ Len(v) = Len(s) - k /\ \A i \in 1 .. Len(s) - k : v[i] = s[k + i]
  BY <1>0, SubSeqProperties
<1> HIDE DEF u, v
<1>3. /\ t \in Seq(Nat) /\ Len(t) = Len(s) - 1
      /\ \A i \in 1 .. k - 1 : t[i] = s[i]
      /\ \A i \in k .. Len(s) - 1 : t[i] = s[i + 1]
  <2>1. /\ t \in Seq(Nat) /\ Len(t) = Len(u) + Len(v)
        /\ \A i \in 1 .. Len(u) + Len(v) : t[i] = IF i <= Len(u) THEN u[i] ELSE v[i - Len(u)]
    BY <1>1, <1>2, ConcatProperties
  <2> HIDE DEF t
  <2>2. Len(u) + Len(v) = Len(s) - 1
    BY <1>0, <1>1, <1>2
  <2>3. ASSUME NEW i \in 1 .. k - 1 PROVE t[i] = s[i]
    <3>1. i \in 1 .. Len(u) + Len(v) /\ i <= Len(u)
      BY <1>0, <1>1, <2>2
    <3>2. t[i] = u[i]
      BY <2>1, <3>1
    <3> QED BY <1>1, <3>2
  <2>4. ASSUME NEW i \in k .. Len(s) - 1 PROVE t[i] = s[i + 1]
    <3>1. i \in 1 .. Len(u) + Len(v) /\ ~(i <= Len(u)) /\ i - Len(u) = i - (k - 1)
      BY <1>0, <1>1, <2>2
    <3>2. t[i] = v[i - (k - 1)]
      BY <2>1, <3>1
    <3>3. i - (k - 1) \in 1 .. Len(s) - k /\ k + (i - (k - 1)) = i + 1
      BY <1>0
    <3>4. v[i - (k - 1)] = s[k + (i - (k - 1))]
      BY <1>2, <3>3
    <3> QED BY <3>2, <3>3, <3>4
  <2> QED BY <2>1, <2>2, <2>3, <2>4
<1>4. RemoveAt(s, k) = t
  BY DEF RemoveAt, u, v
<1> HIDE DEF t
<1>5. \A x : x \in ToSet(t) <=> \E i \in 1 .. Len(s) - 1 : t[i] = x
  BY <1>3, InSeq
<1>6. \A i, j \in 1 .. Len(s) : s[i] = s[j] => i = j
  BY InSeq DEF IsInjective
<1>7. ToSet(t) = ToSet(s) \ {s[k]}
  <2>1. ASSUME NEW x \in ToSet(t) PROVE x \in ToSet(s) \ {s[k]}
    <3>1. PICK i \in 1 .. Len(s) - 1 : t[i] = x
      BY <1>5
    <3>2. CASE i < k
      <4>1. i \in 1 .. k - 1 /\ i \in 1 .. Len(s) /\ i # k
        BY <1>0, <3>2
      <4>2. s[i] = x
        BY <1>3, <3>1, <4>1
      <4> QED BY <1>6, <4>1, <4>2, InSeq
    <3>3. CASE i >= k
      <4>1. i + 1 \in 1 .. Len(s) /\ s[i + 1] = x /\ i + 1 # k
        BY <1>0, <1>3, <3>1, <3>3
      <4> QED BY <1>6, <4>1, InSeq
    <3> QED BY <3>2, <3>3
  <2>2. ASSUME NEW x \in ToSet(s), x # s[k] PROVE x \in ToSet(t)
    <3>1. PICK j \in 1 .. Len(s) : s[j] = x /\ j # k
      BY <2>2, InSeq
    <3>2. CASE j < k
      <4>1. j \in 1 .. Len(s) - 1 /\ t[j] = x
        BY <1>0, <1>3, <3>1, <3>2
      <4> QED BY <1>5, <4>1
    <3>3. CASE j > k
      <4>1. j - 1 \in 1 .. Len(s) - 1 /\ j - 1 \in k .. Len(s) - 1 /\ (j - 1) + 1 = j
        BY <1>0, <3>3
      <4>2. t[j - 1] = x
        BY <1>3, <3>1, <4>1
      <4> QED BY <1>5, <4>1, <4>2
    <3> QED BY <3>1, <3>2, <3>3
  <2> QED BY <2>1, <2>2
<1>8. IsInjective(t)
  <2>0. DOMAIN t = 1 .. Len(s) - 1
    BY <1>3, InSeq
  <2> SUFFICES ASSUME NEW a \in 1 .. Len(s) - 1, NEW b \in 1 .. Len(s) - 1, t[a] = t[b]
               PROVE  a = b
    BY <2>0 DEF IsInjective
  <2>1. ASSUME NEW i \in 1 .. Len(s) - 1
        PROVE  /\ i < k => i \in 1 .. Len(s) /\ t[i] = s[i]
               /\ i >= k => i + 1 \in 1 .. Len(s) /\ t[i] = s[i + 1]
    <3>1. /\ i < k => i \in 1 .. k - 1 /\ i \in 1 .. Len(s)
          /\ i >= k => i \in k .. Len(s) - 1 /\ i + 1 \in 1 .. Len(s)
      BY <1>0
    <3> QED BY <1>3, <3>1
  <2>2. /\ a < k => a \in 1 .. Len(s) /\ t[a] = s[a]
        /\ a >= k => a + 1 \in 1 .. Len(s) /\ t[a] = s[a + 1]
    BY <2>1
  <2>3. /\ b < k => b \in 1 .. Len(s) /\ t[b] = s[b]
        /\ b >= k => b + 1 \in 1 .. Len(s) /\ t[b] = s[b + 1]
    BY <2>1
  <2>4. CASE a < k /\ b < k
    BY <1>6, <2>2, <2>3, <2>4
  <2>5. CASE a >= k /\ b >= k
    <3>1. a + 1 = b + 1
      BY <1>6, <2>2, <2>3, <2>5
    <3> QED BY <3>1
  <2>6. CASE a < k /\ b >= k
    <3>1. a = b + 1
      BY <1>6, <2>2, <2>3, <2>6
    <3> QED BY <2>6, <3>1
  <2>7. CASE a >= k /\ b < k
    <3>1. a + 1 = b
      BY <1>6, <2>2, <2>3, <2>7
    <3> QED BY <2>7, <3>1
  <2> QED BY <1>0, <2>4, <2>5, <2>6, <2>7
<1> QED BY <1>3, <1>4, <1>7, <1>8

LEMMA RemoveFirstSeq ==
  ASSUME NEW s \in Seq(Nat), IsInjective(s), NEW P \in ToSet(s)
  PROVE  LET t == RemoveFirst(s, P) IN
         t \in Seq(Nat) /\ ToSet(t) = ToSet(s) \ {P} /\ IsInjective(t)
<1> DEFINE I == {i \in 1 .. Len(s) : s[i] = P}
           k == Min(I)
<1>1. Len(s) \in Nat /\ I # {}
  BY InSeq
<1>2. k \in I
  <2>1. I \in SUBSET Nat
    BY <1>1
  <2> QED BY <1>1, <2>1, MinIsLeast
<1>3. RemoveFirst(s, P) = RemoveAt(s, k)
  BY <1>1 DEF RemoveFirst, SelectInSeq
<1> HIDE DEF k
<1>4. k \in 1 .. Len(s) /\ s[k] = P
  BY <1>2
<1> QED BY <1>3, <1>4, RemoveAtSeq

LEMMA TailSeq ==
  ASSUME NEW s \in Seq(Nat), IsInjective(s), s # << >>
  PROVE  /\ Head(s) \in ToSet(s) /\ Tail(s) \in Seq(Nat)
         /\ ToSet(Tail(s)) = ToSet(s) \ {Head(s)} /\ IsInjective(Tail(s))
<1>1. Len(s) \in Nat /\ 1 \in 1 .. Len(s) /\ Head(s) = s[1]
  <2>1. Len(s) \in Nat \ {0}
    BY EmptySeq
  <2> QED BY <2>1
<1>2. RemoveAt(s, 1) = Tail(s)
  <2>1. SubSeq(s, 1, 1 - 1) = << >>
    BY SubSeqEmpty
  <2>2. SubSeq(s, 1 + 1, Len(s)) = Tail(s) /\ Tail(s) \in Seq(Nat)
    BY TailIsSubSeq, HeadTailProperties
  <2>3. << >> \o Tail(s) = Tail(s)
    BY <2>2, ConcatEmptySeq
  <2> QED BY <2>1, <2>2, <2>3 DEF RemoveAt
<1>3. Tail(s) \in Seq(Nat) /\ ToSet(Tail(s)) = ToSet(s) \ {s[1]} /\ IsInjective(Tail(s))
  BY <1>1, <1>2, RemoveAtSeq
<1>4. s[1] \in ToSet(s)
  BY <1>1, InSeq
<1> QED BY <1>1, <1>3, <1>4

(* A chunk joins a ring right after its root.                               *)
LEMMA JoinRing ==
  ASSUME NEW s \in Seq(Nat), IsInjective(s), s # << >>, NEW X \in Nat, X \notin ToSet(s)
  PROVE  LET t == <<Head(s), X>> \o Tail(s) IN
         t \in Seq(Nat) /\ t # << >> /\ ToSet(t) = ToSet(s) \cup {X} /\ IsInjective(t)
<1> DEFINE u == <<X>> \o Tail(s)
           t == <<Head(s)>> \o u
<1>1. /\ Head(s) \in ToSet(s) /\ Head(s) \in Nat /\ Tail(s) \in Seq(Nat)
      /\ ToSet(Tail(s)) = ToSet(s) \ {Head(s)} /\ IsInjective(Tail(s))
  BY TailSeq, InSeq
<1>2. u \in Seq(Nat) /\ ToSet(u) = (ToSet(s) \ {Head(s)}) \cup {X} /\ IsInjective(u)
  BY <1>1, PushSeq
<1>3. <<Head(s), X>> \o Tail(s) = t
  <2>1. <<Head(s)>> \in Seq(Nat) /\ <<X>> \in Seq(Nat)
    BY <1>1
  <2>2. <<Head(s)>> \o <<X>> = <<Head(s), X>>
    <3> DEFINE v == <<Head(s)>> \o <<X>>
               w == <<Head(s), X>>
    <3>1. /\ Len(<<Head(s)>>) = 1 /\ <<Head(s)>>[1] = Head(s)
          /\ Len(<<X>>) = 1 /\ <<X>>[1] = X
      OBVIOUS
    <3>2. /\ v \in Seq(Nat) /\ Len(v) = 1 + 1
          /\ \A i \in 1 .. 1 + 1 : v[i] = IF i <= 1 THEN <<Head(s)>>[i] ELSE <<X>>[i - 1]
      BY <2>1, <3>1, ConcatProperties
    <3> HIDE DEF v
    <3>3. Len(v) = 2 /\ v[1] = Head(s) /\ v[2] = X
      BY <3>1, <3>2
    <3>4. w \in Seq(Nat) /\ Len(w) = 2 /\ w[1] = Head(s) /\ w[2] = X
      BY <1>1
    <3> HIDE DEF w
    <3>5. \A i \in 1 .. Len(v) : v[i] = w[i]
      BY <3>3, <3>4
    <3>6. v = w
      BY <3>2, <3>3, <3>4, <3>5, SeqEqual
    <3> QED BY <3>6 DEF v, w
  <2> QED BY <1>1, <2>1, <2>2, ConcatAssociative
<1> HIDE DEF u
<1>4. Head(s) \notin ToSet(u)
  BY <1>1, <1>2
<1>5. t \in Seq(Nat) /\ t # << >> /\ ToSet(t) = ToSet(u) \cup {Head(s)} /\ IsInjective(t)
  BY <1>1, <1>2, <1>4, PushSeq
<1> HIDE DEF t
<1>6. ToSet(t) = ToSet(s) \cup {X}
  BY <1>1, <1>2, <1>5
<1> QED BY <1>3, <1>5, <1>6

(* The root leaves its ring: its predecessor takes its place.               *)
LEMMA LeaveRing ==
  ASSUME NEW s \in Seq(Nat), IsInjective(s), NEW n \in Nat, n = Len(s), n > 1
  PROVE  LET t == <<s[n]>> \o SubSeq(s, 2, n - 1) IN
         t \in Seq(Nat) /\ ToSet(t) = ToSet(s) \ {Head(s)} /\ IsInjective(t)
<1> DEFINE r == Tail(s)
           u == SubSeq(s, 2, n - 1)
<1>1. n \in Nat /\ \A i \in 1 .. n : s[i] \in Nat
  BY InSeq
<1>2. s # << >> /\ (n = 2 \/ n > 2)
  <2>1. n = 2 \/ n > 2
    OBVIOUS
  <2> QED BY <2>1, EmptySeq
<1>3. /\ r \in Seq(Nat) /\ ToSet(r) = ToSet(s) \ {Head(s)} /\ IsInjective(r)
      /\ Len(r) = n - 1 /\ \A i \in 1 .. n - 1 : r[i] = s[i + 1]
  BY <1>2, TailSeq, HeadTailProperties
<1> HIDE DEF r
<1>4. u \in Seq(Nat) /\ Len(u) = n - 2 /\ \A i \in 1 .. n - 2 : u[i] = s[i + 1]
  <2>1. \A i \in 2 .. n - 1 : s[i] \in Nat
    BY <1>1
  <2>2. /\ u \in Seq(Nat) /\ Len(u) = IF 2 <= n - 1 THEN (n - 1) - 2 + 1 ELSE 0
        /\ \A i \in 1 .. (n - 1) - 2 + 1 : u[i] = s[2 + i - 1]
    BY <1>1, <2>1, SubSeqProperties
  <2> HIDE DEF u
  <2>3. \A i \in 1 .. n - 2 : u[i] = s[i + 1]
    BY <1>1, <2>2
  <2>4. CASE n = 2
    BY <2>2, <2>3, <2>4
  <2>5. CASE n > 2
    <3>1. 2 <= n - 1 /\ (n - 1) - 2 + 1 = n - 2
      BY <1>1, <2>5
    <3> QED BY <2>2, <2>3, <3>1
  <2> QED BY <1>2, <2>4, <2>5
<1> HIDE DEF u
<1>5. RemoveAt(r, n - 1) = u
  <2> DEFINE v == SubSeq(r, 1, n - 2)
  <2>1. \A i \in 1 .. n - 2 : r[i] \in Nat
    BY <1>1, <1>3, InSeq
  <2>2. v \in Seq(Nat) /\ Len(v) = n - 2 /\ \A i \in 1 .. n - 2 : v[i] = r[i]
    <3>1. /\ v \in Seq(Nat) /\ Len(v) = IF 1 <= n - 2 THEN (n - 2) - 1 + 1 ELSE 0
          /\ \A i \in 1 .. (n - 2) - 1 + 1 : v[i] = r[1 + i - 1]
      BY <1>1, <2>1, SubSeqProperties
    <3> HIDE DEF v
    <3>2. \A i \in 1 .. n - 2 : v[i] = r[i]
      BY <1>1, <3>1
    <3>3. CASE n = 2
      BY <3>1, <3>2, <3>3
    <3>4. CASE n > 2
      <4>1. 1 <= n - 2 /\ (n - 2) - 1 + 1 = n - 2
        BY <1>1, <3>4
      <4> QED BY <3>1, <3>2, <4>1
    <3> QED BY <1>2, <3>3, <3>4
  <2>3. SubSeq(r, n - 1 + 1, Len(r)) = << >>
    BY <1>1, <1>3, SubSeqEmpty
  <2>4. n - 1 - 1 = n - 2
    BY <1>1
  <2>5. RemoveAt(r, n - 1) = v \o << >>
    BY <2>3, <2>4 DEF RemoveAt
  <2> HIDE DEF v
  <2>6. v \o << >> = v
    BY <2>2, ConcatEmptySeq
  <2>7. \A i \in 1 .. n - 2 : v[i] = u[i]
    <3> SUFFICES ASSUME NEW i \in 1 .. n - 2 PROVE v[i] = u[i]
      OBVIOUS
    <3>1. i \in 1 .. n - 1
      BY <1>1
    <3> QED BY <1>3, <1>4, <2>2, <3>1
  <2>8. v = u
    BY <1>4, <2>2, <2>7, SeqEqual
  <2> QED BY <2>5, <2>6, <2>8
<1>6. n - 1 \in 1 .. Len(r) /\ r[n - 1] = s[n]
  <2>1. n - 1 \in 1 .. n - 1 /\ (n - 1) + 1 = n
    BY <1>1
  <2> QED BY <1>3, <2>1
<1>7. ToSet(u) = ToSet(r) \ {s[n]} /\ IsInjective(u)
  BY <1>3, <1>5, <1>6, RemoveAtSeq
<1>8. s[n] \in ToSet(r) /\ s[n] \in Nat
  BY <1>1, <1>3, <1>6, InSeq
<1>9. /\ (<<s[n]>> \o u) \in Seq(Nat) /\ ToSet(<<s[n]>> \o u) = ToSet(u) \cup {s[n]}
      /\ IsInjective(<<s[n]>> \o u)
  BY <1>4, <1>7, <1>8, PushSeq
<1>10. ToSet(<<s[n]>> \o u) = ToSet(s) \ {Head(s)}
  BY <1>3, <1>7, <1>8, <1>9
<1> QED BY <1>9, <1>10 DEF u

-----------------------------------------------------------------------------
(* States and headers.                                                      *)

LEMMA InChunkMap ==
  ASSUME NEW c, c = [x \in DOMAIN c |-> c[x]], DOMAIN c \subseteq Nat,
         \A x \in DOMAIN c : c[x] \in ChunkHeader
  PROVE  c \in ChunkMap
  BY DEF ChunkMap

LEMMA ChunkMapFields ==
  ASSUME NEW c \in ChunkMap
  PROVE  /\ c = [x \in DOMAIN c |-> c[x]]
         /\ DOMAIN c \subseteq Nat
         /\ \A x \in DOMAIN c :
              /\ c[x] \in ChunkHeader
              /\ c[x].size \in Nat /\ c[x].foot \in Nat
              /\ c[x].pinuse \in BOOLEAN /\ c[x].cinuse \in BOOLEAN
  BY DEF ChunkMap, ChunkHeader

LEMMA StateFields ==
  ASSUME NEW h \in MallocState
  PROVE  /\ h.smallmap \subseteq BinIndex /\ h.treemap \subseteq BinIndex
         /\ h.dvsize \in Nat /\ h.topsize \in Nat /\ h.least_addr \in Nat
         /\ h.dv \in Nat /\ h.top \in Nat
         /\ h.smallbins \in [BinIndex -> Seq(Nat)] /\ h.treebins \in [BinIndex -> Seq(Nat)]
         /\ \A i \in BinIndex : h.smallbins[i] \in Seq(Nat) /\ h.treebins[i] \in Seq(Nat)
         /\ h.chunk \in ChunkMap
         /\ h.status \in {"ok", "corrupted", "abort", "crashed", "stale", "undefined"}
  BY DEF MallocState

(* g differs from h in its bins only.                                       *)
SameButBins(g, h) ==
  /\ g.dv = h.dv /\ g.dvsize = h.dvsize /\ g.top = h.top /\ g.topsize = h.topsize
  /\ g.least_addr = h.least_addr /\ g.chunk = h.chunk

-----------------------------------------------------------------------------
(* What the operations on bins do to BinsHold.                              *)

InSmallBin(c, p, I) == is_small(c[p].size) /\ small_index(c[p].size) = I
InTreeBin(c, p, I)  == ~is_small(c[p].size) /\ compute_tree_index(c[p].size) = I

(* The bins depend on the sizes of what they hold only.                     *)
LEMMA BinsHoldSame ==
  ASSUME NEW h, NEW g, NEW c, NEW d, NEW B, BinsHold(h, c, B),
         \A p \in B : c[p].size = d[p].size,
         g.smallmap = h.smallmap, g.treemap = h.treemap,
         g.smallbins = h.smallbins, g.treebins = h.treebins
  PROVE  BinsHold(g, d, B)
  BY DEF BinsHold

(* From h to g only the small bin I is replaced, by s; or the tree bin I.   *)
SmallBinSet(g, h, I, s) ==
  /\ \A i \in BinIndex : g.smallbins[i] = IF i = I THEN s ELSE h.smallbins[i]
  /\ g.smallmap = IF s = << >> THEN h.smallmap \ {I} ELSE h.smallmap \cup {I}
  /\ g.treemap = h.treemap /\ g.treebins = h.treebins

TreeBinSet(g, h, I, s) ==
  /\ \A i \in BinIndex : g.treebins[i] = IF i = I THEN s ELSE h.treebins[i]
  /\ g.treemap = IF s = << >> THEN h.treemap \ {I} ELSE h.treemap \cup {I}
  /\ g.smallmap = h.smallmap /\ g.smallbins = h.smallbins

(* The sequence s lists what the small bin I, or the tree bin I, has to     *)
(* hold of E.                                                               *)
SmallBinList(s, c, E, I) == IsInjective(s) /\ ToSet(s) = {p \in E : InSmallBin(c, p, I)}
TreeBinList(s, c, E, I) ==
  /\ IsInjective(s) /\ ToSet(s) = {p \in E : InTreeBin(c, p, I)}
  /\ \A p, q \in ToSet(s) : c[p].size = c[q].size

(* B and E differ in chunks of the small bin I only, or of the tree bin I.  *)
SmallBinApart(B, E, c, I) == \A p \in B \cup E : ~InSmallBin(c, p, I) => (p \in B <=> p \in E)
TreeBinApart(B, E, c, I)  == \A p \in B \cup E : ~InTreeBin(c, p, I) => (p \in B <=> p \in E)

LEMMA BinsHoldParts ==
  ASSUME NEW h, NEW c, NEW B
  PROVE  BinsHold(h, c, B) <=>
           /\ h.smallmap = {i \in BinIndex : h.smallbins[i] # << >>}
           /\ h.treemap  = {i \in BinIndex : h.treebins[i] # << >>}
           /\ \A i \in BinIndex : SmallBinList(h.smallbins[i], c, B, i)
           /\ \A i \in BinIndex : TreeBinList(h.treebins[i], c, B, i)
  BY DEF BinsHold, SmallBinList, TreeBinList, InSmallBin, InTreeBin

LEMMA SmallBinReplaced ==
  ASSUME NEW h, NEW g, NEW c, NEW B, NEW E, NEW I \in BinIndex, NEW s,
         BinsHold(h, c, B), SmallBinSet(g, h, I, s),
         SmallBinList(s, c, E, I), SmallBinApart(B, E, c, I)
  PROVE  BinsHold(g, c, E)
<1>1. g.smallmap = {i \in BinIndex : g.smallbins[i] # << >>}
  BY BinsHoldParts DEF SmallBinSet
<1>2. g.treemap = {i \in BinIndex : g.treebins[i] # << >>}
  BY BinsHoldParts DEF SmallBinSet
<1>3. ASSUME NEW i \in BinIndex PROVE SmallBinList(g.smallbins[i], c, E, i)
  <2>1. CASE i = I
    BY <2>1 DEF SmallBinSet
  <2>2. CASE i # I
    <3>1. SmallBinList(h.smallbins[i], c, B, i)
      BY BinsHoldParts
    <3>2. {p \in B : InSmallBin(c, p, i)} = {p \in E : InSmallBin(c, p, i)}
      BY <2>2 DEF SmallBinApart, InSmallBin
    <3> QED BY <2>2, <3>1, <3>2 DEF SmallBinSet, SmallBinList
  <2> QED BY <2>1, <2>2
<1>4. ASSUME NEW i \in BinIndex PROVE TreeBinList(g.treebins[i], c, E, i)
  <2>1. TreeBinList(h.treebins[i], c, B, i)
    BY BinsHoldParts
  <2>2. {p \in B : InTreeBin(c, p, i)} = {p \in E : InTreeBin(c, p, i)}
    BY DEF SmallBinApart, InSmallBin, InTreeBin
  <2> QED BY <2>1, <2>2 DEF SmallBinSet, TreeBinList
<1> QED BY <1>1, <1>2, <1>3, <1>4, BinsHoldParts

LEMMA TreeBinReplaced ==
  ASSUME NEW h, NEW g, NEW c, NEW B, NEW E, NEW I \in BinIndex, NEW s,
         BinsHold(h, c, B), TreeBinSet(g, h, I, s),
         TreeBinList(s, c, E, I), TreeBinApart(B, E, c, I)
  PROVE  BinsHold(g, c, E)
<1>1. g.treemap = {i \in BinIndex : g.treebins[i] # << >>}
  BY BinsHoldParts DEF TreeBinSet
<1>2. g.smallmap = {i \in BinIndex : g.smallbins[i] # << >>}
  BY BinsHoldParts DEF TreeBinSet
<1>3. ASSUME NEW i \in BinIndex PROVE TreeBinList(g.treebins[i], c, E, i)
  <2>1. CASE i = I
    BY <2>1 DEF TreeBinSet
  <2>2. CASE i # I
    <3>1. TreeBinList(h.treebins[i], c, B, i)
      BY BinsHoldParts
    <3>2. {p \in B : InTreeBin(c, p, i)} = {p \in E : InTreeBin(c, p, i)}
      BY <2>2 DEF TreeBinApart, InTreeBin
    <3> QED BY <2>2, <3>1, <3>2 DEF TreeBinSet, TreeBinList
  <2> QED BY <2>1, <2>2
<1>4. ASSUME NEW i \in BinIndex PROVE SmallBinList(g.smallbins[i], c, E, i)
  <2>1. SmallBinList(h.smallbins[i], c, B, i)
    BY BinsHoldParts
  <2>2. {p \in B : InSmallBin(c, p, i)} = {p \in E : InSmallBin(c, p, i)}
    BY DEF TreeBinApart, InSmallBin, InTreeBin
  <2> QED BY <2>1, <2>2 DEF TreeBinSet, SmallBinList
<1> QED BY <1>1, <1>2, <1>3, <1>4, BinsHoldParts

(* A chunk leaves its small bin.                                            *)
LEMMA UnlinkSmall ==
  ASSUME NEW h \in MallocState, NEW c \in ChunkMap, NEW B \in SUBSET DOMAIN c,
         BinsHold(h, c, B), NEW P \in B, is_small(c[P].size)
  PROVE  LET g == unlink_small_chunk(h, P, c[P].size) IN
         /\ g \in MallocState /\ SameButBins(g, h) /\ g.status = h.status
         /\ BinsHold(g, c, B \ {P})
<1> DEFINE I == small_index(c[P].size)
           s == h.smallbins[I]
           rest == RemoveFirst(s, P)
           m == IF rest = << >> THEN h.smallmap \ {I} ELSE h.smallmap
           g == [h EXCEPT !.smallbins[I] = rest, !.smallmap = m]
<1>1. I \in BinIndex
  BY ChunkMapFields, SmallIndex
<1>2. s \in Seq(Nat) /\ SmallBinList(s, c, B, I)
  BY <1>1, StateFields, BinsHoldParts
<1>3. P \in ToSet(s) /\ InSmallBin(c, P, I)
  BY <1>2 DEF InSmallBin, SmallBinList
<1>4. rest \in Seq(Nat) /\ ToSet(rest) = ToSet(s) \ {P} /\ IsInjective(rest)
  BY <1>2, <1>3, RemoveFirstSeq DEF SmallBinList
<1>5. unlink_small_chunk(h, P, c[P].size) = g
  BY <1>3 DEF unlink_small_chunk
<1>6. I \in h.smallmap /\ m \in SUBSET BinIndex
  <2>1. s # << >>
    BY <1>2, <1>3, InSeq
  <2> QED BY <1>1, <2>1, StateFields DEF BinsHold
<1>7. m = IF rest = << >> THEN h.smallmap \ {I} ELSE h.smallmap \cup {I}
  BY <1>6
<1> HIDE DEF I, s, rest, m
<1>8. /\ g \in MallocState /\ SameButBins(g, h) /\ g.status = h.status
      /\ SmallBinSet(g, h, I, rest)
  BY <1>1, <1>4, <1>6, <1>7 DEF MallocState, SameButBins, SmallBinSet
<1> HIDE DEF g
<1>9. SmallBinList(rest, c, B \ {P}, I)
  BY <1>2, <1>4 DEF SmallBinList
<1>10. SmallBinApart(B, B \ {P}, c, I)
  BY <1>3 DEF SmallBinApart
<1>11. BinsHold(g, c, B \ {P})
  BY <1>1, <1>8, <1>9, <1>10, SmallBinReplaced
<1> QED BY <1>5, <1>8, <1>11

(* Alloc takes the first chunk of a small bin.                              *)
LEMMA UnlinkFirst ==
  ASSUME NEW h \in MallocState, NEW c \in ChunkMap, NEW B \in SUBSET DOMAIN c,
         BinsHold(h, c, B), NEW I \in h.smallmap
  PROVE  LET g == unlink_first_small_chunk(h, I)
             P == Head(h.smallbins[I])
         IN /\ I \in BinIndex /\ P \in B /\ InSmallBin(c, P, I)
            /\ g \in MallocState /\ SameButBins(g, h) /\ g.status = h.status
            /\ BinsHold(g, c, B \ {P})
<1> DEFINE s == h.smallbins[I]
           P == Head(s)
           rest == Tail(s)
           m == IF rest = << >> THEN h.smallmap \ {I} ELSE h.smallmap
           g == [h EXCEPT !.smallbins[I] = rest, !.smallmap = m]
<1>1. I \in BinIndex /\ h.smallmap \subseteq BinIndex
  BY StateFields
<1>2. s \in Seq(Nat) /\ SmallBinList(s, c, B, I) /\ s # << >>
  BY <1>1, StateFields, BinsHoldParts
<1>3. /\ P \in ToSet(s) /\ rest \in Seq(Nat)
      /\ ToSet(rest) = ToSet(s) \ {P} /\ IsInjective(rest)
  BY <1>2, TailSeq DEF SmallBinList
<1>4. P \in B /\ InSmallBin(c, P, I)
  BY <1>2, <1>3 DEF SmallBinList
<1>5. unlink_first_small_chunk(h, I) = g
  BY DEF unlink_first_small_chunk
<1>6. m \in SUBSET BinIndex /\ m = IF rest = << >> THEN h.smallmap \ {I} ELSE h.smallmap \cup {I}
  BY <1>1
<1> HIDE DEF s, P, rest, m
<1>8. /\ g \in MallocState /\ SameButBins(g, h) /\ g.status = h.status
      /\ SmallBinSet(g, h, I, rest)
  BY <1>1, <1>3, <1>6 DEF MallocState, SameButBins, SmallBinSet
<1> HIDE DEF g
<1>9. SmallBinList(rest, c, B \ {P}, I)
  BY <1>2, <1>3 DEF SmallBinList
<1>10. SmallBinApart(B, B \ {P}, c, I)
  BY <1>4 DEF SmallBinApart
<1>11. BinsHold(g, c, B \ {P})
  BY <1>1, <1>8, <1>9, <1>10, SmallBinReplaced
<1> QED BY <1>1, <1>4, <1>5, <1>8, <1>11 DEF P, s

(* A chunk leaves the ring of its tree bin.                                 *)
LEMMA UnlinkLarge ==
  ASSUME NEW h \in MallocState, NEW c \in ChunkMap, NEW B \in SUBSET DOMAIN c,
         BinsHold(h, c, B), NEW P \in B, ~is_small(c[P].size)
  PROVE  LET g == unlink_large_chunk(h, P, c[P].size) IN
         /\ g \in MallocState /\ SameButBins(g, h) /\ g.status = h.status
         /\ BinsHold(g, c, B \ {P})
<1> DEFINE I == compute_tree_index(c[P].size)
           s == h.treebins[I]
           n == Len(s)
           rest == IF P = Head(s) /\ n > 1
                   THEN <<s[n]>> \o SubSeq(s, 2, n - 1)
                   ELSE RemoveFirst(s, P)
           m == IF rest = << >> THEN h.treemap \ {I} ELSE h.treemap
           g == [h EXCEPT !.treebins[I] = rest, !.treemap = m]
<1>1. I \in BinIndex
  <2>1. c[P].size \in Nat /\ c[P].size >= 256
    BY ChunkMapFields DEF is_small, MIN_LARGE_SIZE
  <2> QED BY <2>1, TreeIndexIn
<1>2. s \in Seq(Nat) /\ TreeBinList(s, c, B, I)
  BY <1>1, StateFields, BinsHoldParts
<1>3. P \in ToSet(s) /\ InTreeBin(c, P, I)
  BY <1>2 DEF InTreeBin, TreeBinList
<1>4. rest \in Seq(Nat) /\ ToSet(rest) = ToSet(s) \ {P} /\ IsInjective(rest)
  <2>1. n \in Nat /\ n = Len(s) /\ IsInjective(s)
    BY <1>2, InSeq DEF TreeBinList
  <2> HIDE DEF s, n
  <2>2. CASE P = Head(s) /\ n > 1
    BY <1>2, <2>1, <2>2, LeaveRing
  <2>3. CASE ~(P = Head(s) /\ n > 1)
    BY <1>2, <1>3, <2>1, <2>3, RemoveFirstSeq
  <2> QED BY <2>2, <2>3
<1>5. unlink_large_chunk(h, P, c[P].size) = g
  BY DEF unlink_large_chunk
<1>6. I \in h.treemap /\ m \in SUBSET BinIndex
  <2>1. s # << >>
    BY <1>2, <1>3, InSeq
  <2> QED BY <1>1, <2>1, StateFields DEF BinsHold
<1>7. m = IF rest = << >> THEN h.treemap \ {I} ELSE h.treemap \cup {I}
  BY <1>6
<1> HIDE DEF I, s, n, rest, m
<1>8. /\ g \in MallocState /\ SameButBins(g, h) /\ g.status = h.status
      /\ TreeBinSet(g, h, I, rest)
  BY <1>1, <1>4, <1>6, <1>7 DEF MallocState, SameButBins, TreeBinSet
<1> HIDE DEF g
<1>9. TreeBinList(rest, c, B \ {P}, I)
  BY <1>2, <1>4 DEF TreeBinList
<1>10. TreeBinApart(B, B \ {P}, c, I)
  BY <1>3 DEF TreeBinApart
<1>11. BinsHold(g, c, B \ {P})
  BY <1>1, <1>8, <1>9, <1>10, TreeBinReplaced
<1> QED BY <1>5, <1>8, <1>11

(* The bins of h become those of g, and hold B.                             *)
Rebinned(g, h, c, B) ==
  /\ g \in MallocState /\ SameButBins(g, h) /\ g.status = h.status
  /\ BinsHold(g, c, B)

LEMMA UnlinkChunk ==
  ASSUME NEW h \in MallocState, NEW c \in ChunkMap, NEW B \in SUBSET DOMAIN c,
         BinsHold(h, c, B), NEW P \in B
  PROVE  Rebinned(unlink_chunk(h, P, c[P].size), h, c, B \ {P})
  BY UnlinkSmall, UnlinkLarge DEF unlink_chunk, Rebinned

(* A chunk goes to the front of its small bin.                              *)
LEMMA InsertSmall ==
  ASSUME NEW h \in MallocState, NEW c \in ChunkMap, NEW B \in SUBSET DOMAIN c,
         BinsHold(h, c, B), NEW P \in DOMAIN c, P \notin B, is_small(c[P].size)
  PROVE  LET g == insert_small_chunk(h, P, c[P].size) IN
         /\ g \in MallocState /\ SameButBins(g, h) /\ g.status = h.status
         /\ BinsHold(g, c, B \cup {P})
<1> DEFINE I == small_index(c[P].size)
           s == h.smallbins[I]
           F == IF I \in h.smallmap THEN s ELSE << >>
           t == <<P>> \o F
           m == h.smallmap \cup {I}
           g == [h EXCEPT !.smallmap = m, !.smallbins[I] = t]
<1>1. I \in BinIndex /\ P \in Nat
  BY ChunkMapFields, SmallIndex
<1>2. s \in Seq(Nat) /\ SmallBinList(s, c, B, I)
  BY <1>1, StateFields, BinsHoldParts
<1>3. P \notin ToSet(s) /\ InSmallBin(c, P, I)
  BY <1>2 DEF InSmallBin, SmallBinList
<1>4. F = s
  BY <1>1 DEF BinsHold
<1>5. t \in Seq(Nat) /\ t # << >> /\ ToSet(t) = ToSet(s) \cup {P} /\ IsInjective(t)
  BY <1>1, <1>2, <1>3, <1>4, PushSeq DEF SmallBinList
<1>6. insert_small_chunk(h, P, c[P].size) = g
  BY DEF insert_small_chunk
<1>7. m \in SUBSET BinIndex
  BY <1>1, StateFields
<1> HIDE DEF I, s, F, t
<1>8. /\ g \in MallocState /\ SameButBins(g, h) /\ g.status = h.status
      /\ SmallBinSet(g, h, I, t)
  BY <1>1, <1>5, <1>7 DEF MallocState, SameButBins, SmallBinSet
<1> HIDE DEF g
<1>9. SmallBinList(t, c, B \cup {P}, I)
  BY <1>2, <1>3, <1>5 DEF SmallBinList
<1>10. SmallBinApart(B, B \cup {P}, c, I)
  BY <1>3 DEF SmallBinApart
<1>11. BinsHold(g, c, B \cup {P})
  BY <1>1, <1>8, <1>9, <1>10, SmallBinReplaced
<1> QED BY <1>6, <1>8, <1>11

(* A chunk becomes the root of its tree bin, joins the ring of a root of    *)
(* its size, or the call throws.                                            *)
LEMMA InsertLarge ==
  ASSUME NEW h \in MallocState, NEW c \in ChunkMap, NEW B \in SUBSET DOMAIN c,
         BinsHold(h, c, B), NEW P \in DOMAIN c, P \notin B, ~is_small(c[P].size),
         \A q \in B : h.chunk[q].size = c[q].size, h.least_addr > 0
  PROVE  LET g == insert_large_chunk(h, P, c[P].size) IN
         /\ g \in MallocState /\ SameButBins(g, h)
         /\ \/ g.status = "corrupted"
            \/ g.status = h.status /\ BinsHold(g, c, B \cup {P})
<1> DEFINE S == c[P].size
           I == compute_tree_index(S)
           s == h.treebins[I]
           m == h.treemap \cup {I}
<1>1. I \in BinIndex /\ P \in Nat
  <2>1. c[P].size \in Nat /\ c[P].size >= 256
    BY ChunkMapFields DEF is_small, MIN_LARGE_SIZE
  <2> QED BY <2>1, TreeIndexIn, ChunkMapFields
<1>2. s \in Seq(Nat) /\ TreeBinList(s, c, B, I)
  BY <1>1, StateFields, BinsHoldParts
<1>3. P \notin ToSet(s) /\ InTreeBin(c, P, I)
  BY <1>2 DEF InTreeBin, TreeBinList
<1>4. m \in SUBSET BinIndex
  BY <1>1, StateFields
<1>5. I \in h.treemap <=> s # << >>
  BY <1>1 DEF BinsHold
<1>6. ASSUME NEW t \in Seq(Nat), t # << >>, TreeBinList(t, c, B \cup {P}, I)
      PROVE  LET g == [h EXCEPT !.treemap = m, !.treebins[I] = t] IN
             /\ g \in MallocState /\ SameButBins(g, h) /\ g.status = h.status
             /\ BinsHold(g, c, B \cup {P})
  <2> DEFINE g == [h EXCEPT !.treemap = m, !.treebins[I] = t]
  <2> HIDE DEF I, s
  <2>1. /\ g \in MallocState /\ SameButBins(g, h) /\ g.status = h.status
        /\ TreeBinSet(g, h, I, t)
    BY <1>1, <1>4, <1>6 DEF MallocState, SameButBins, TreeBinSet
  <2> HIDE DEF g
  <2>2. TreeBinApart(B, B \cup {P}, c, I)
    BY <1>3 DEF TreeBinApart
  <2>3. BinsHold(g, c, B \cup {P})
    BY <1>1, <1>6, <2>1, <2>2, TreeBinReplaced
  <2> QED BY <2>1, <2>3 DEF g
<1>7. CASE I \notin h.treemap
  <2>1. ToSet(s) = {} /\ ToSet(<<P>>) = {P} /\ <<P>> \in Seq(Nat) /\ <<P>> # << >>
        /\ IsInjective(<<P>>)
    BY <1>1, <1>5, <1>7 DEF ToSet, IsInjective
  <2>2. TreeBinList(<<P>>, c, B \cup {P}, I)
    BY <1>2, <1>3, <2>1 DEF TreeBinList
  <2>3. insert_large_chunk(h, P, S) = [h EXCEPT !.treemap = m, !.treebins[I] = <<P>>]
    BY <1>7 DEF insert_large_chunk
  <2> QED BY <1>6, <2>1, <2>2, <2>3
<1>8. CASE I \in h.treemap /\ h.chunk[Head(s)].size = S
  <2> DEFINE t == <<Head(s), P>> \o Tail(s)
  <2>1. /\ t \in Seq(Nat) /\ t # << >> /\ ToSet(t) = ToSet(s) \cup {P} /\ IsInjective(t)
        /\ Head(s) \in ToSet(s)
    BY <1>1, <1>2, <1>3, <1>5, <1>8, JoinRing, TailSeq DEF TreeBinList
  <2>2. \A q \in ToSet(s) : c[q].size = S
    BY <1>2, <1>8, <2>1 DEF TreeBinList
  <2>3. TreeBinList(t, c, B \cup {P}, I)
    <3> HIDE DEF t
    <3> QED BY <1>2, <1>3, <2>1, <2>2 DEF TreeBinList
  <2>4. m = h.treemap
    BY <1>8
  <2>5. insert_large_chunk(h, P, S) = [h EXCEPT !.treemap = m, !.treebins[I] = t]
    <3>1. insert_large_chunk(h, P, S) = [h EXCEPT !.treebins[I] = t]
      BY <1>8 DEF insert_large_chunk
    <3> HIDE DEF I, t, s, m
    <3>2. [h EXCEPT !.treebins[I] = t] = [h EXCEPT !.treemap = m, !.treebins[I] = t]
      BY <2>4 DEF MallocState
    <3> QED BY <3>1, <3>2
  <2> QED BY <1>6, <2>1, <2>3, <2>5
<1>9. CASE I \in h.treemap /\ h.chunk[Head(s)].size # S
  <2>1. ~ok_address(h, NULL)
    BY StateFields DEF ok_address, NULL
  <2>2. insert_large_chunk(h, P, S) = Throw(h)
    BY <1>9, <2>1 DEF insert_large_chunk
  <2>3. Throw(h) \in MallocState /\ SameButBins(Throw(h), h) /\ Throw(h).status = "corrupted"
    BY DEF MallocState, SameButBins, Throw
  <2> QED BY <2>2, <2>3
<1> QED BY <1>7, <1>8, <1>9

(* The same, or the call throws.                                            *)
Inserted(g, h, c, B) ==
  /\ g \in MallocState /\ SameButBins(g, h)
  /\ \/ g.status = "corrupted"
     \/ g.status = h.status /\ BinsHold(g, c, B)

LEMMA InsertChunk ==
  ASSUME NEW h \in MallocState, NEW c \in ChunkMap, NEW B \in SUBSET DOMAIN c,
         BinsHold(h, c, B), NEW P \in DOMAIN c, P \notin B,
         \A q \in B : h.chunk[q].size = c[q].size, h.least_addr > 0
  PROVE  Inserted(insert_chunk(h, P, c[P].size), h, c, B \cup {P})
  BY InsertSmall, InsertLarge DEF insert_chunk, Inserted

-----------------------------------------------------------------------------
(* The layout of the segment.                                               *)

LEMMA Aligned ==
  ASSUME NEW a \in Nat, NEW b \in Nat, a % 16 = 0, b % 16 = 0
  PROVE  (a + b) % 16 = 0 /\ (a >= b => a - b \in Nat /\ (a - b) % 16 = 0)
  OBVIOUS

(* What Free and the splits of Alloc rely on: the chunk before a free chunk *)
(* is in use, and prev_foot finds the chunk before one whose pinuse is      *)
(* clear.                                                                   *)
LEMMA LayoutFacts ==
  ASSUME NEW c \in ChunkMap, NEW first \in Nat, NEW top \in Nat, NEW end \in Nat,
         Layout(c, first, top, end)
  PROVE  /\ first \in DOMAIN c /\ top \in FreeIn(c) /\ NextIn(c, top) = end
         /\ \A p \in DOMAIN c :
              /\ p \in Nat /\ p % 16 = 0 /\ first <= p /\ p <= top
              /\ c[p].size \in Nat /\ c[p].size > 0
              /\ NextIn(c, p) \in Nat /\ p < NextIn(c, p) /\ NextIn(c, p) <= end
         /\ \A p \in DOMAIN c \ {top} :
              /\ NextIn(c, p) \in DOMAIN c /\ NextIn(c, p) <= top
              /\ c[p].size >= 32 /\ c[p].size % 16 = 0
         /\ \A p, q \in DOMAIN c : NextIn(c, p) = NextIn(c, q) => p = q
         /\ \A p \in FreeIn(c) : c[p].pinuse
         /\ \A p \in DOMAIN c : ~c[p].pinuse =>
              /\ p - c[p].foot \in FreeIn(c) \ {top}
              /\ c[p - c[p].foot].size = c[p].foot
              /\ NextIn(c, p - c[p].foot) = p
<1>1. /\ first \in DOMAIN c /\ top \in FreeIn(c) /\ NextIn(c, top) = end
      /\ DOMAIN c \subseteq Nat
  BY ChunkMapFields DEF Layout, Tiled, Coalesced, FreeIn
<1>2. ASSUME NEW p \in DOMAIN c
      PROVE  /\ p \in Nat /\ p % 16 = 0 /\ first <= p /\ p <= top
             /\ c[p].size \in Nat /\ c[p].size > 0
             /\ NextIn(c, p) \in Nat /\ p < NextIn(c, p) /\ NextIn(c, p) <= end
  <2>1. /\ p \in Nat /\ p % 16 = 0 /\ first <= p
        /\ c[p].size \in Nat /\ c[p].size > 0 /\ NextIn(c, p) <= end
    BY ChunkMapFields DEF Layout, Tiled
  <2>2. NextIn(c, p) \in Nat /\ p < NextIn(c, p)
    BY <2>1 DEF NextIn
  <2>3. p <= top
    <3>1. top < p => NextIn(c, top) <= p
      BY <1>1 DEF Layout, Tiled, FreeIn
    <3> QED BY <1>1, <2>1, <2>2, <3>1
  <2> QED BY <2>1, <2>2, <2>3
<1>3. ASSUME NEW p \in DOMAIN c \ {top}
      PROVE  /\ NextIn(c, p) \in DOMAIN c /\ NextIn(c, p) <= top
             /\ c[p].size >= 32 /\ c[p].size % 16 = 0
  <2>1. NextIn(c, p) \in DOMAIN c /\ c[p].size >= 32
    BY DEF Layout, Tiled
  <2>2. NextIn(c, p) <= top /\ NextIn(c, p) % 16 = 0 /\ p % 16 = 0 /\ p \in Nat /\ c[p].size \in Nat
    BY <1>2, <2>1
  <2>3. NextIn(c, p) - p = c[p].size
    BY <2>2 DEF NextIn
  <2>4. c[p].size % 16 = 0
    BY <1>2, <2>2, <2>3, Aligned
  <2> QED BY <2>1, <2>2, <2>4
<1>4. \A p, q \in DOMAIN c : p < q => NextIn(c, p) <= q
  BY DEF Layout, Tiled
<1>5. \A p, q \in DOMAIN c : NextIn(c, p) = NextIn(c, q) => p = q
  BY <1>2, <1>4
<1>6. \A p \in DOMAIN c \ {first} : \E q \in DOMAIN c \ {top} : NextIn(c, q) = p
  <2> SUFFICES ASSUME NEW p \in DOMAIN c \ {first}
               PROVE  \E q \in DOMAIN c \ {top} : NextIn(c, q) = p
    OBVIOUS
  <2>1. PICK q \in DOMAIN c : NextIn(c, q) = p
    BY DEF Layout, Tiled
  <2>2. q # top
    BY <1>1, <1>2, <2>1
  <2> QED BY <2>1, <2>2
<1>7. ASSUME NEW p \in FreeIn(c) PROVE c[p].pinuse
  <2>1. CASE p = first
    BY <2>1 DEF Layout, Tagged
  <2>2. CASE p # first
    <3>1. PICK q \in DOMAIN c \ {top} : NextIn(c, q) = p
      BY <1>6, <2>2 DEF FreeIn
    <3>2. c[q].cinuse
      BY <3>1 DEF Layout, Coalesced, FreeIn
    <3>3. c[p].pinuse = c[q].cinuse
      BY <3>1 DEF Layout, Tagged
    <3> QED BY <3>2, <3>3
  <2> QED BY <2>1, <2>2
<1>8. ASSUME NEW p \in DOMAIN c, ~c[p].pinuse
      PROVE  /\ p - c[p].foot \in FreeIn(c) \ {top}
             /\ c[p - c[p].foot].size = c[p].foot
             /\ NextIn(c, p - c[p].foot) = p
  <2>1. p # first
    BY <1>8 DEF Layout, Tagged
  <2>2. PICK q \in DOMAIN c \ {top} : NextIn(c, q) = p
    BY <1>6, <2>1
  <2>3. ~c[q].cinuse
    BY <1>8, <2>2 DEF Layout, Tagged
  <2>4. c[p].foot = c[q].size
    BY <2>2, <2>3 DEF Layout, Tagged
  <2>5. p - c[p].foot = q
    BY <1>2, <2>2, <2>4 DEF NextIn
  <2> QED BY <2>2, <2>3, <2>4, <2>5 DEF FreeIn
<1> QED BY <1>1, <1>2, <1>3, <1>5, <1>7, <1>8

(* The free chunk p is split: nb bytes in use, then a free chunk of the     *)
(* rest.                                                                    *)
SplitOff(c, d, p, nb, top) ==
  /\ d \in ChunkMap
  /\ DOMAIN d = DOMAIN c \cup {p + nb}
  /\ d[p].size = nb /\ d[p].pinuse /\ d[p].cinuse
  /\ d[p + nb].size = c[p].size - nb /\ d[p + nb].pinuse /\ ~d[p + nb].cinuse
  /\ \A x \in DOMAIN c \ {p} :
       d[x].size = c[x].size /\ d[x].pinuse = c[x].pinuse /\ d[x].cinuse = c[x].cinuse
  /\ \A x \in DOMAIN c \ {NextIn(c, p)} : d[x].foot = c[x].foot
  /\ p # top => d[NextIn(c, p)].foot = c[p].size - nb

LEMMA SplitLayout ==
  ASSUME NEW c \in ChunkMap, NEW first \in Nat, NEW top \in Nat, NEW end \in Nat,
         Layout(c, first, top, end),
         NEW p \in FreeIn(c), NEW nb \in Nat, nb % 16 = 0, nb >= 32, nb < c[p].size,
         p # top => c[p].size - nb >= 32,
         NEW d, SplitOff(c, d, p, nb, top)
  PROVE  /\ Layout(d, first, IF p = top THEN p + nb ELSE top, end)
         /\ UsedIn(d) = UsedIn(c) \cup {p}
         /\ FreeIn(d) = (FreeIn(c) \ {p}) \cup {p + nb}
         /\ p + nb \notin DOMAIN c
         /\ \A x \in DOMAIN c \ {p} : d[x].size = c[x].size
<1> DEFINE r == p + nb
           t == IF p = top THEN r ELSE top
<1>0. p \in DOMAIN c /\ ~c[p].cinuse /\ p \in Nat
  BY LayoutFacts DEF FreeIn
<1>a. \A x \in DOMAIN c :
        /\ x \in Nat /\ x % 16 = 0 /\ first <= x /\ x <= top
        /\ c[x].size \in Nat /\ c[x].size > 0
        /\ NextIn(c, x) \in Nat /\ x < NextIn(c, x) /\ NextIn(c, x) <= end
  BY LayoutFacts
<1>1. /\ r \in Nat /\ r % 16 = 0 /\ p < r /\ r < NextIn(c, p) /\ r # p
      /\ r + (c[p].size - nb) = NextIn(c, p)
  <2>1. r \in Nat /\ r % 16 = 0
    BY <1>0, <1>a, Aligned
  <2>2. c[p].size \in Nat
    BY <1>0, <1>a
  <2> QED BY <1>0, <2>1, <2>2 DEF NextIn
<1>2. r \notin DOMAIN c
  <2>1. r \in DOMAIN c => NextIn(c, p) <= r
    BY <1>0, <1>1 DEF Layout, Tiled
  <2> QED BY <1>0, <1>1, <2>1, LayoutFacts
<1>3. NextIn(d, p) = r /\ NextIn(d, r) = NextIn(c, p)
  BY <1>1 DEF SplitOff, NextIn
<1>4. \A x \in DOMAIN c \ {p} : NextIn(d, x) = NextIn(c, x) /\ d[x].size = c[x].size
  BY DEF SplitOff, NextIn
<1>5. DOMAIN d = DOMAIN c \cup {r}
  BY DEF SplitOff
<1> HIDE DEF r
<1>6. \A x \in DOMAIN c \ {p} : d[x].pinuse = c[x].pinuse /\ d[x].cinuse = c[x].cinuse
  BY DEF SplitOff
<1>7. /\ d[p].size = nb /\ d[p].pinuse /\ d[p].cinuse
      /\ d[r].size = c[p].size - nb /\ d[r].pinuse /\ ~d[r].cinuse
      /\ p # top => d[NextIn(c, p)].foot = c[p].size - nb
  BY DEF SplitOff, r
<1>8. UsedIn(d) = UsedIn(c) \cup {p}
  BY <1>0, <1>2, <1>5, <1>6, <1>7 DEF UsedIn
<1>9. FreeIn(d) = (FreeIn(c) \ {p}) \cup {r}
  BY <1>0, <1>1, <1>2, <1>5, <1>6, <1>7 DEF FreeIn
<1>10. Tiled(d, first, t, end)
  <2>1. first \in DOMAIN d /\ t \in DOMAIN d
    BY <1>5, LayoutFacts DEF Layout, Tiled
  <2>2. NextIn(d, t) = end
    BY <1>3, <1>4, LayoutFacts DEF FreeIn
  <2>3. ASSUME NEW x \in DOMAIN d
        PROVE  x % 16 = 0 /\ first <= x /\ d[x].size > 0 /\ NextIn(d, x) <= end
    <3>1. CASE x \in DOMAIN c \ {p}
      BY <1>4, <3>1, LayoutFacts
    <3>2. CASE x = p
      BY <1>0, <1>1, <1>3, <1>7, <3>2, LayoutFacts
    <3>3. CASE x = r
      BY <1>0, <1>1, <1>3, <1>7, <3>3, LayoutFacts
    <3> QED BY <1>5, <3>1, <3>2, <3>3
  <2>4. ASSUME NEW x \in DOMAIN d, x # t
        PROVE  NextIn(d, x) \in DOMAIN d /\ d[x].size >= 32
    <3>1. CASE x \in DOMAIN c \ {p}
      <4>1. x # top
        BY <1>5, <2>4, <3>1
      <4> QED BY <1>4, <1>5, <3>1, <4>1, LayoutFacts
    <3>2. CASE x = p
      BY <1>3, <1>5, <1>7, <3>2
    <3>3. CASE x = r
      <4>1. p # top
        BY <2>4, <3>3
      <4> QED BY <1>0, <1>3, <1>5, <1>7, <3>3, <4>1, LayoutFacts
    <3> QED BY <1>5, <3>1, <3>2, <3>3
  <2>5. ASSUME NEW x \in DOMAIN d, x # first
        PROVE  \E q \in DOMAIN d : NextIn(d, q) = x
    <3>1. CASE x = r
      BY <1>0, <1>3, <1>5, <3>1
    <3>2. CASE x \in DOMAIN c
      <4>1. PICK q \in DOMAIN c : NextIn(c, q) = x
        BY <2>5, <3>2 DEF Layout, Tiled
      <4>2. CASE q = p
        BY <1>3, <1>5, <4>1, <4>2
      <4>3. CASE q # p
        BY <1>4, <1>5, <4>1, <4>3
      <4> QED BY <4>2, <4>3
    <3> QED BY <1>5, <3>1, <3>2
  <2>6. ASSUME NEW x \in DOMAIN d, NEW y \in DOMAIN d, x < y PROVE NextIn(d, x) <= y
    <3>1. \A u, v \in DOMAIN c : u < v => NextIn(c, u) <= v
      BY DEF Layout, Tiled
    <3>2. CASE x = r
      <4>1. y \in DOMAIN c /\ p < y
        BY <1>0, <1>1, <1>5, <1>a, <2>6, <3>2
      <4> QED BY <1>0, <1>3, <3>1, <3>2, <4>1
    <3>3. CASE x \in DOMAIN c /\ y \in DOMAIN c
      <4>1. NextIn(c, x) <= y
        BY <2>6, <3>1, <3>3
      <4>2. NextIn(d, x) <= NextIn(c, x) /\ NextIn(d, x) \in Nat /\ NextIn(c, x) \in Nat
        <5>1. CASE x = p
          BY <1>0, <1>1, <1>3, <1>a, <5>1
        <5>2. CASE x # p
          <6>1. NextIn(d, x) = NextIn(c, x)
            BY <1>4, <3>3, <5>2
          <6>2. NextIn(c, x) \in Nat
            BY <1>a, <3>3
          <6> QED BY <6>1, <6>2
        <5> QED BY <5>1, <5>2
      <4>3. y \in Nat
        BY <1>a, <3>3
      <4> QED BY <4>1, <4>2, <4>3
    <3>4. CASE x \in DOMAIN c /\ y = r
      <4>1. CASE x = p
        BY <1>1, <1>3, <3>4, <4>1
      <4>2. CASE x # p
        <5>1. x \in Nat /\ ~(p < x)
          <6>1. p < x => NextIn(c, p) <= x
            BY <1>0, <3>1, <3>4
          <6>2. x \in Nat /\ x < r /\ NextIn(c, p) \in Nat
            BY <1>0, <1>a, <2>6, <3>4
          <6> QED BY <1>1, <6>1, <6>2
        <5>2. NextIn(c, x) <= p /\ NextIn(c, x) \in Nat
          <6>1. x < p
            BY <1>0, <4>2, <5>1
          <6> QED BY <1>0, <1>a, <3>1, <3>4, <6>1
        <5> QED BY <1>0, <1>1, <1>4, <3>4, <4>2, <5>2
      <4> QED BY <4>1, <4>2
    <3> QED BY <1>5, <3>2, <3>3, <3>4
  <2> QED BY <2>1, <2>2, <2>3, <2>4, <2>5, <2>6 DEF Tiled
<1>11. Tagged(d, first, t)
  <2>1. d[first].pinuse
    BY <1>6, <1>7, LayoutFacts DEF Layout, Tagged
  <2>2. ASSUME NEW x \in DOMAIN d, x # t
        PROVE  /\ d[NextIn(d, x)].pinuse = d[x].cinuse
               /\ ~d[x].cinuse => d[NextIn(d, x)].foot = d[x].size
    <3>1. CASE x = p
      BY <1>3, <1>7, <3>1
    <3>2. CASE x = r
      <4>1. p # top
        BY <2>2, <3>2
      <4>2. NextIn(c, p) \in DOMAIN c \ {p} /\ ~c[NextIn(c, p)].pinuse
        BY <1>0, <4>1, LayoutFacts DEF Layout, Tagged
      <4>3. d[NextIn(c, p)].pinuse = FALSE /\ d[r].cinuse = FALSE
        <5>1. d \in ChunkMap
          BY DEF SplitOff
        <5>2. d[NextIn(c, p)].pinuse \in BOOLEAN /\ d[r].cinuse \in BOOLEAN
          BY <1>5, <4>2, <5>1, ChunkMapFields
        <5> QED BY <1>6, <1>7, <4>2, <5>2
      <4> QED BY <1>3, <1>7, <3>2, <4>1, <4>3
    <3>3. CASE x \in DOMAIN c \ {p}
      <4>1. x # top
        BY <1>5, <2>2, <3>3
      <4>2. NextIn(d, x) = NextIn(c, x) /\ NextIn(c, x) \in DOMAIN c
        BY <1>4, <3>3, <4>1, LayoutFacts
      <4>3. NextIn(c, x) # NextIn(c, p)
        BY <1>0, <3>3, LayoutFacts
      <4>4. d[NextIn(c, x)].foot = c[NextIn(c, x)].foot
        BY <4>2, <4>3 DEF SplitOff
      <4>5. CASE NextIn(c, x) = p
        <5>1. c[p].pinuse /\ c[x].cinuse
          BY <3>3, <4>1, <4>5, LayoutFacts DEF Layout, Tagged
        <5> QED BY <1>6, <1>7, <3>3, <4>2, <4>5, <5>1
      <4>6. CASE NextIn(c, x) # p
        BY <1>4, <1>6, <3>3, <4>1, <4>2, <4>4, <4>6 DEF Layout, Tagged
      <4> QED BY <4>5, <4>6
    <3> QED BY <1>5, <3>1, <3>2, <3>3
  <2> QED BY <2>1, <2>2 DEF Tagged
<1>12. Coalesced(d, t)
  <2>1. ~d[t].cinuse
    BY <1>6, <1>7, LayoutFacts DEF FreeIn
  <2>2. ASSUME NEW x \in FreeIn(d), x # t PROVE d[NextIn(d, x)].cinuse
    <3>1. CASE x = r
      <4>1. p # top
        BY <2>2, <3>1
      <4>2. NextIn(c, p) \in DOMAIN c \ {p} /\ c[NextIn(c, p)].cinuse
        BY <1>0, <4>1, LayoutFacts DEF Layout, Coalesced
      <4> QED BY <1>3, <1>6, <3>1, <4>2
    <3>2. CASE x \in FreeIn(c) \ {p}
      <4>1. x # top /\ x \in DOMAIN c \ {p}
        BY <1>2, <1>9, <2>2, <3>2 DEF FreeIn
      <4>2. NextIn(c, x) \in DOMAIN c /\ c[NextIn(c, x)].cinuse
        BY <3>2, <4>1, LayoutFacts DEF Layout, Coalesced
      <4>3. NextIn(c, x) # p
        BY <1>0, <4>2
      <4> QED BY <1>4, <1>6, <4>1, <4>2, <4>3
    <3> QED BY <1>9, <3>1, <3>2
  <2> QED BY <2>1, <2>2 DEF Coalesced
<1>13. Layout(d, first, t, end)
  BY <1>10, <1>11, <1>12 DEF Layout
<1> QED BY <1>2, <1>4, <1>8, <1>9, <1>13 DEF r

(* All of the free chunk p goes in use.                                     *)
TakenWhole(c, d, p) ==
  /\ d \in ChunkMap
  /\ DOMAIN d = DOMAIN c
  /\ \A x \in DOMAIN c : d[x].size = c[x].size
  /\ d[p].cinuse /\ d[p].pinuse /\ d[NextIn(c, p)].pinuse
  /\ \A x \in DOMAIN c \ {p} : d[x].cinuse = c[x].cinuse
  /\ \A x \in DOMAIN c \ {p, NextIn(c, p)} : d[x].pinuse = c[x].pinuse
  /\ \A x \in DOMAIN c \ {NextIn(c, p)} : d[x].foot = c[x].foot

LEMMA TakeLayout ==
  ASSUME NEW c \in ChunkMap, NEW first \in Nat, NEW top \in Nat, NEW end \in Nat,
         Layout(c, first, top, end), NEW p \in FreeIn(c), p # top,
         NEW d, TakenWhole(c, d, p)
  PROVE  /\ Layout(d, first, top, end)
         /\ UsedIn(d) = UsedIn(c) \cup {p}
         /\ FreeIn(d) = FreeIn(c) \ {p}
<1>0. p \in DOMAIN c /\ ~c[p].cinuse /\ NextIn(c, p) \in DOMAIN c
  BY LayoutFacts DEF FreeIn
<1>1. DOMAIN d = DOMAIN c /\ \A x \in DOMAIN c : d[x].size = c[x].size /\ NextIn(d, x) = NextIn(c, x)
  BY DEF TakenWhole, NextIn
<1>2. d[p].cinuse /\ d[p].pinuse /\ \A x \in DOMAIN c \ {p} : d[x].cinuse = c[x].cinuse
  BY DEF TakenWhole
<1>3. UsedIn(d) = UsedIn(c) \cup {p} /\ FreeIn(d) = FreeIn(c) \ {p}
  BY <1>0, <1>1, <1>2 DEF UsedIn, FreeIn
<1>4. Tiled(d, first, top, end)
  <2>1. Tiled(c, first, top, end)
    BY DEF Layout
  <2> QED BY <1>1, <2>1 DEF Tiled
<1>5. Tagged(d, first, top)
  <2>1. d[first].pinuse
    BY <1>0, <1>2, LayoutFacts DEF Layout, Tagged, TakenWhole
  <2>2. ASSUME NEW x \in DOMAIN d, x # top
        PROVE  /\ d[NextIn(d, x)].pinuse = d[x].cinuse
               /\ ~d[x].cinuse => d[NextIn(d, x)].foot = d[x].size
    <3>1. x \in DOMAIN c /\ NextIn(d, x) = NextIn(c, x) /\ NextIn(c, x) \in DOMAIN c
      BY <1>1, <2>2, LayoutFacts
    <3>2. CASE x = p
      <4>1. d[NextIn(c, p)].pinuse \in BOOLEAN /\ d[p].cinuse \in BOOLEAN
        BY <1>0, <1>1, ChunkMapFields DEF TakenWhole
      <4> QED BY <3>1, <3>2, <4>1 DEF TakenWhole
    <3>3. CASE x # p
      <4>1. NextIn(c, x) # NextIn(c, p)
        BY <1>0, <3>1, <3>3, LayoutFacts
      <4>2. d[NextIn(c, x)].foot = c[NextIn(c, x)].foot
        BY <3>1, <4>1 DEF TakenWhole
      <4>3. /\ c[NextIn(c, x)].pinuse = c[x].cinuse
            /\ ~c[x].cinuse => c[NextIn(c, x)].foot = c[x].size
        BY <2>2, <3>1 DEF Layout, Tagged
      <4>4. CASE NextIn(c, x) = p
        <5>1. c[p].pinuse
          BY LayoutFacts
        <5> QED BY <1>2, <3>1, <3>3, <4>3, <4>4, <5>1
      <4>5. CASE NextIn(c, x) # p
        <5>1. d[NextIn(c, x)].pinuse = c[NextIn(c, x)].pinuse
          BY <3>1, <4>1, <4>5 DEF TakenWhole
        <5> QED BY <1>1, <1>2, <3>1, <3>3, <4>2, <4>3, <5>1
      <4> QED BY <4>4, <4>5
    <3> QED BY <3>2, <3>3
  <2> QED BY <2>1, <2>2 DEF Tagged
<1>6. Coalesced(d, top)
  <2>1. ~d[top].cinuse
    BY <1>2, LayoutFacts DEF FreeIn
  <2>2. ASSUME NEW x \in FreeIn(d), x # top PROVE d[NextIn(d, x)].cinuse
    <3>1. x \in FreeIn(c) /\ x \in DOMAIN c \ {top}
      BY <1>3, <2>2 DEF FreeIn
    <3>2. NextIn(d, x) = NextIn(c, x) /\ c[NextIn(c, x)].cinuse /\ NextIn(c, x) \in DOMAIN c
      BY <1>1, <3>1, LayoutFacts DEF Layout, Coalesced
    <3> QED BY <1>2, <3>2
  <2> QED BY <2>1, <2>2 DEF Coalesced
<1> QED BY <1>3, <1>4, <1>5, <1>6 DEF Layout

(* The chunks from a to e, all of them free but p, become one free chunk.   *)
Fused(c, d, a, e) ==
  /\ d \in ChunkMap
  /\ DOMAIN d = {x \in DOMAIN c : x <= a \/ e <= x}
  /\ d[a].size = e - a /\ d[a].pinuse /\ ~d[a].cinuse /\ d[a].foot = c[a].foot
  /\ e \in DOMAIN c =>
       /\ d[e].size = c[e].size /\ ~d[e].pinuse /\ d[e].cinuse = c[e].cinuse
       /\ d[e].foot = e - a
  /\ \A x \in DOMAIN d \ {a, e} : d[x] = c[x]

(* What is between a and e, and where top goes.                             *)
Gap(c, p, a, e, t, top, end) ==
  /\ a <= p /\ p < e /\ c[a].pinuse
  /\ \A x \in DOMAIN c : a <= x /\ x < e => x = p \/ ~c[x].cinuse
  /\ \/ e \in DOMAIN c /\ c[e].cinuse /\ t = top
     \/ e = end /\ t = a

Leaves(c, d, p, a, e, first, t, end) ==
  /\ Layout(d, first, t, end)
  /\ UsedIn(d) = UsedIn(c) \ {p}
  /\ FreeIn(d) = {x \in FreeIn(c) : x < a \/ e <= x} \cup {a}
  /\ \A x \in UsedIn(d) : d[x].size = c[x].size

LEMMA FuseLayout ==
  ASSUME NEW c \in ChunkMap, NEW first \in Nat, NEW top \in Nat, NEW end \in Nat,
         Layout(c, first, top, end),
         NEW p \in UsedIn(c), NEW a \in DOMAIN c, NEW e \in Nat, NEW t,
         Gap(c, p, a, e, t, top, end), NEW d, Fused(c, d, a, e)
  PROVE  Leaves(c, d, p, a, e, first, t, end)
<1> /\ a <= p /\ p < e /\ c[a].pinuse
    /\ \A x \in DOMAIN c : a <= x /\ x < e => x = p \/ ~c[x].cinuse
    /\ \/ e \in DOMAIN c /\ c[e].cinuse /\ t = top
       \/ e = end /\ t = a
  BY DEF Gap
<1>a. \A x \in DOMAIN c :
        /\ x \in Nat /\ x % 16 = 0 /\ first <= x /\ x <= top
        /\ c[x].size \in Nat /\ c[x].size > 0
        /\ NextIn(c, x) \in Nat /\ x < NextIn(c, x) /\ NextIn(c, x) <= end
  BY LayoutFacts
<1>b. \A x, y \in DOMAIN c : x < y => NextIn(c, x) <= y
  BY DEF Layout, Tiled
<1>0. p \in DOMAIN c /\ c[p].cinuse /\ a \in Nat /\ p \in Nat /\ a < e
  BY <1>a DEF UsedIn
<1>1. \A x \in DOMAIN c : x < e => NextIn(c, x) <= e
  BY <1>a, <1>b
<1>2. e <= end
  BY <1>a
<1>3. DOMAIN d = {x \in DOMAIN c : x <= a \/ e <= x} /\ a \in DOMAIN d
  BY <1>0 DEF Fused
<1>4. /\ d[a].size = e - a /\ d[a].pinuse /\ ~d[a].cinuse /\ d[a].foot = c[a].foot
      /\ e \in DOMAIN c =>
           /\ d[e].size = c[e].size /\ ~d[e].pinuse /\ d[e].cinuse = c[e].cinuse
           /\ d[e].foot = e - a
      /\ \A x \in DOMAIN d \ {a, e} : d[x] = c[x]
  BY DEF Fused
<1>5. NextIn(d, a) = e
  BY <1>0, <1>4 DEF NextIn
<1>6. \A x \in DOMAIN d \ {a} : NextIn(d, x) = NextIn(c, x) /\ d[x].size = c[x].size
                                /\ d[x].cinuse = c[x].cinuse
  BY <1>3, <1>4 DEF NextIn
<1>7. \A x \in DOMAIN d \ {a} : x \in DOMAIN c /\ (x < a \/ e <= x)
  BY <1>0, <1>3, <1>a
<1>8. UsedIn(d) = UsedIn(c) \ {p}
  <2>1. ASSUME NEW x \in UsedIn(d) PROVE x \in UsedIn(c) /\ x # p /\ x # a
    <3>1. x \in DOMAIN d /\ d[x].cinuse /\ x # a
      BY <1>4 DEF UsedIn
    <3>2. x # p
      BY <1>0, <1>7, <3>1
    <3> QED BY <1>6, <1>7, <3>1, <3>2 DEF UsedIn
  <2>2. ASSUME NEW x \in UsedIn(c), x # p PROVE x \in UsedIn(d)
    <3>1. x \in DOMAIN c /\ c[x].cinuse /\ ~(a <= x /\ x < e)
      BY <2>2 DEF UsedIn
    <3>2. x \in Nat /\ x \in DOMAIN d /\ x # a
      BY <1>0, <1>3, <1>a, <3>1
    <3> QED BY <1>6, <3>1, <3>2 DEF UsedIn
  <2> QED BY <2>1, <2>2
<1>9. FreeIn(d) = {x \in FreeIn(c) : x < a \/ e <= x} \cup {a}
  BY <1>0, <1>3, <1>4, <1>6, <1>7, <1>a DEF FreeIn
<1>10. \A x \in UsedIn(d) : d[x].size = c[x].size
  <2> SUFFICES ASSUME NEW x \in UsedIn(d) PROVE d[x].size = c[x].size
    OBVIOUS
  <2>1. x \in DOMAIN d /\ x # a
    BY <1>4 DEF UsedIn
  <2> QED BY <1>6, <2>1
<1>11. \A x \in DOMAIN d \ {a} : x < a => NextIn(c, x) <= a
  BY <1>7, <1>b
<1>12. \/ e \in DOMAIN d /\ c[e].cinuse /\ t = top /\ a < top /\ e <= top /\ e # end
       \/ e = end /\ t = a /\ e \notin DOMAIN c
  <2>1. end \notin DOMAIN c /\ top < end
    BY <1>a, LayoutFacts DEF FreeIn
  <2>2. CASE e \in DOMAIN c /\ c[e].cinuse /\ t = top
    <3>1. e <= top /\ top \in Nat /\ a \in Nat /\ e \in DOMAIN d
      BY <1>0, <1>3, <1>a, <2>2
    <3> QED BY <1>0, <2>1, <2>2, <3>1
  <2>3. CASE e = end /\ t = a
    BY <2>1, <2>3
  <2> QED BY <2>2, <2>3
<1>13. first \in DOMAIN d /\ t \in DOMAIN d /\ NextIn(d, t) = end /\ (first = a \/ first < a)
  <2>1. first \in DOMAIN c /\ first <= a /\ top \in DOMAIN c
    BY <1>a, LayoutFacts DEF FreeIn
  <2>2. first \in DOMAIN d /\ (first = a \/ first < a)
    BY <1>0, <1>3, <2>1
  <2>3. CASE e \in DOMAIN d /\ t = top /\ a < top /\ e <= top
    <3>1. top \in DOMAIN d /\ top # a
      BY <1>0, <1>3, <2>1, <2>3
    <3> QED BY <1>6, <2>2, <2>3, <3>1, LayoutFacts
  <2>4. CASE e = end /\ t = a
    BY <1>3, <1>5, <2>2, <2>4
  <2> QED BY <1>12, <2>2, <2>3, <2>4
<1>14. \A x \in DOMAIN d \ {t} : x # a => x # top
  <2> SUFFICES ASSUME NEW x \in DOMAIN d \ {t}, x # a, x = top PROVE FALSE
    OBVIOUS
  <2>1. e = end /\ t = a
    BY <1>12
  <2>2. x < a \/ e <= x
    BY <1>7
  <2>3. x < end /\ a <= top /\ a \in Nat /\ top \in Nat
    BY <1>a, LayoutFacts DEF FreeIn
  <2> QED BY <2>1, <2>2, <2>3
<1>15. Tiled(d, first, t, end)
  <2>1. ASSUME NEW x \in DOMAIN d
        PROVE  x % 16 = 0 /\ first <= x /\ d[x].size > 0 /\ NextIn(d, x) <= end
    <3>1. x \in DOMAIN c
      BY <1>3
    <3>2. CASE x = a
      <4>1. e - a > 0
        BY <1>0
      <4> QED BY <1>2, <1>4, <1>5, <1>a, <3>1, <3>2, <4>1
    <3>3. CASE x # a
      BY <1>6, <1>a, <3>1, <3>3
    <3> QED BY <3>2, <3>3
  <2>2. ASSUME NEW x \in DOMAIN d, x # t
        PROVE  NextIn(d, x) \in DOMAIN d /\ d[x].size >= 32
    <3>1. CASE x = a
      <4>1. e \in DOMAIN d /\ a # top /\ a \in DOMAIN c
        BY <1>0, <1>12, <2>2, <3>1
      <4>2. c[a].size >= 32 /\ c[a].size \in Nat
        BY <1>a, <4>1, LayoutFacts
      <4>3. a + c[a].size <= e
        BY <1>0, <1>1 DEF NextIn
      <4>4. e - a >= 32
        BY <1>0, <4>2, <4>3
      <4> QED BY <1>4, <1>5, <3>1, <4>1, <4>4
    <3>2. CASE x # a
      <4>1. x \in DOMAIN c /\ x # top /\ NextIn(d, x) = NextIn(c, x) /\ d[x].size = c[x].size
        BY <1>6, <1>7, <1>14, <2>2, <3>2
      <4>2. NextIn(c, x) \in DOMAIN c /\ c[x].size >= 32
        BY <4>1, LayoutFacts
      <4>3. NextIn(c, x) <= a \/ e <= NextIn(c, x)
        <5>1. CASE x < a
          BY <1>11, <3>2, <5>1
        <5>2. CASE e <= x
          BY <1>a, <4>1, <5>2
        <5> QED BY <1>7, <3>2, <5>1, <5>2
      <4> QED BY <1>3, <4>1, <4>2, <4>3
    <3> QED BY <3>1, <3>2
  <2>3. ASSUME NEW x \in DOMAIN d, x # first
        PROVE  \E q \in DOMAIN d : NextIn(d, q) = x
    <3>1. CASE x = e
      BY <1>3, <1>5, <3>1
    <3>2. CASE x # e
      <4>1. x \in DOMAIN c /\ (x <= a \/ e < x)
        BY <1>0, <1>3, <1>a, <3>2
      <4>2. PICK q \in DOMAIN c : NextIn(c, q) = x
        BY <2>3, <4>1 DEF Layout, Tiled
      <4>3. q \in Nat /\ x \in Nat /\ q < x
        BY <1>a, <4>1, <4>2
      <4>4. e < x => e <= q
        BY <1>1, <4>2, <4>3
      <4>5. q \in DOMAIN d /\ q # a
        BY <1>0, <1>3, <4>1, <4>3, <4>4
      <4> QED BY <1>6, <4>2, <4>5
    <3> QED BY <3>1, <3>2
  <2>4. ASSUME NEW x \in DOMAIN d, NEW y \in DOMAIN d, x < y PROVE NextIn(d, x) <= y
    <3>1. CASE x = a
      BY <1>0, <1>5, <1>7, <1>a, <2>4, <3>1
    <3>2. CASE x # a
      <4>1. x \in DOMAIN c /\ y \in DOMAIN c /\ NextIn(d, x) = NextIn(c, x)
        BY <1>3, <1>6, <3>2
      <4> QED BY <1>b, <2>4, <4>1
    <3> QED BY <3>1, <3>2
  <2> QED BY <1>13, <2>1, <2>2, <2>3, <2>4 DEF Tiled
<1>16. Tagged(d, first, t)
  <2>1. d[first].pinuse
    <3>1. CASE first = a
      BY <1>4, <3>1
    <3>2. CASE first < a
      <4>1. first \in DOMAIN d \ {a, e}
        BY <1>0, <1>13, <3>2
      <4> QED BY <1>4, <4>1 DEF Layout, Tagged
    <3> QED BY <1>13, <3>1, <3>2
  <2>2. ASSUME NEW x \in DOMAIN d, x # t
        PROVE  /\ d[NextIn(d, x)].pinuse = d[x].cinuse
               /\ ~d[x].cinuse => d[NextIn(d, x)].foot = d[x].size
    <3>1. CASE x = a
      <4>1. e \in DOMAIN d /\ e \in DOMAIN c /\ d \in ChunkMap
        BY <1>3, <1>12, <2>2, <3>1 DEF Fused
      <4>2. d[e].pinuse \in BOOLEAN /\ d[a].cinuse \in BOOLEAN
        BY <1>3, <4>1, ChunkMapFields
      <4> QED BY <1>4, <1>5, <3>1, <4>1, <4>2
    <3>2. CASE x # a
      <4>1. /\ x \in DOMAIN c \ {top} /\ NextIn(d, x) = NextIn(c, x)
            /\ d[x].size = c[x].size /\ d[x].cinuse = c[x].cinuse
        BY <1>6, <1>7, <1>14, <2>2, <3>2
      <4>2. NextIn(c, x) \in DOMAIN d
        BY <1>15, <2>2, <4>1 DEF Tiled
      <4>3. NextIn(c, x) # e
        <5>1. CASE x < a
          BY <1>0, <1>11, <1>a, <3>2, <4>1, <5>1
        <5>2. CASE e <= x
          BY <1>a, <4>1, <5>2
        <5> QED BY <1>7, <3>2, <5>1, <5>2
      <4>4. /\ c[NextIn(c, x)].pinuse = c[x].cinuse
            /\ ~c[x].cinuse => c[NextIn(c, x)].foot = c[x].size
        BY <4>1 DEF Layout, Tagged
      <4>5. d[NextIn(c, x)].pinuse = c[NextIn(c, x)].pinuse
        <5>1. CASE NextIn(c, x) = a
          <6>1. c[a].pinuse \in BOOLEAN /\ d[a].pinuse \in BOOLEAN
            BY <1>3, ChunkMapFields DEF Fused
          <6> QED BY <1>4, <5>1, <6>1
        <5>2. CASE NextIn(c, x) # a
          BY <1>4, <4>2, <4>3, <5>2
        <5> QED BY <5>1, <5>2
      <4>6. d[NextIn(c, x)].foot = c[NextIn(c, x)].foot
        BY <1>4, <4>2, <4>3
      <4> QED BY <4>1, <4>4, <4>5, <4>6
    <3> QED BY <3>1, <3>2
  <2> QED BY <2>1, <2>2 DEF Tagged
<1>17. Coalesced(d, t)
  <2>1. ~d[t].cinuse
    <3>1. CASE t = a
      BY <1>4, <3>1
    <3>2. CASE t = top /\ t # a
      BY <1>6, <1>13, <3>2 DEF Layout, Coalesced
    <3> QED BY <1>12, <3>1, <3>2
  <2>2. ASSUME NEW x \in FreeIn(d), x # t PROVE d[NextIn(d, x)].cinuse
    <3>1. CASE x = a
      <4>1. e \in DOMAIN d \ {a} /\ c[e].cinuse
        BY <1>0, <1>12, <2>2, <3>1
      <4> QED BY <1>5, <1>6, <3>1, <4>1
    <3>2. CASE x # a
      <4>1. x \in DOMAIN d /\ ~d[x].cinuse
        BY DEF FreeIn
      <4>2. x \in FreeIn(c) \ {top} /\ NextIn(d, x) = NextIn(c, x)
        BY <1>6, <1>7, <1>14, <2>2, <3>2, <4>1 DEF FreeIn
      <4>3. c[NextIn(c, x)].cinuse
        BY <4>2 DEF Layout, Coalesced
      <4>4. NextIn(c, x) \in DOMAIN d
        BY <1>15, <2>2, <4>1, <4>2 DEF Tiled
      <4>5. NextIn(c, x) # a
        <5>1. NextIn(c, x) = a => c[a].pinuse = c[x].cinuse
          BY <4>2 DEF Layout, Tagged, FreeIn
        <5> QED BY <1>6, <3>2, <4>1, <5>1
      <4> QED BY <1>6, <4>2, <4>3, <4>4, <4>5
    <3> QED BY <3>1, <3>2
  <2> QED BY <2>1, <2>2 DEF Coalesced
<1>18. Layout(d, first, t, end)
  BY <1>15, <1>16, <1>17 DEF Layout
<1> QED BY <1>8, <1>9, <1>10, <1>18 DEF Leaves

-----------------------------------------------------------------------------
(* What the helpers on headers do: what relates the headers c they find to  *)
(* the headers d they leave.                                                *)

HeadPut(c, d, p, s, cin) ==
  /\ d \in ChunkMap /\ DOMAIN d = DOMAIN c \cup {p}
  /\ d[p].size = s /\ d[p].pinuse = TRUE /\ d[p].cinuse = cin
  /\ p \in DOMAIN c => d[p].foot = c[p].foot
  /\ \A x \in DOMAIN c \ {p} : d[x] = c[x]

LEMMA PutHeadIs ==
  ASSUME NEW c \in ChunkMap, NEW p \in Nat, NEW s \in Nat, NEW cin \in BOOLEAN
  PROVE  HeadPut(c, PutHead(c, p, s, cin), p, s, cin)
<1> DEFINE f == IF p \in DOMAIN c THEN c[p].foot ELSE 0
           e == [size |-> s, pinuse |-> TRUE, cinuse |-> cin, foot |-> f]
           d == PutHead(c, p, s, cin)
<1>1. f \in Nat
  BY ChunkMapFields
<1> HIDE DEF f
<1>2. /\ e \in ChunkHeader /\ e.size = s /\ e.pinuse = TRUE /\ e.cinuse = cin /\ e.foot = f
  BY <1>1 DEF ChunkHeader
<1>3. d = [x \in DOMAIN c \cup {p} |-> IF x = p THEN e ELSE c[x]]
  BY DEF PutHead, f
<1> HIDE DEF e, d
<1>4. DOMAIN d = DOMAIN c \cup {p} /\ d[p] = e /\ \A x \in DOMAIN c \ {p} : d[x] = c[x]
  BY <1>3
<1>5. d \in ChunkMap
  <2>1. DOMAIN d \in SUBSET Nat
    BY <1>4, ChunkMapFields
  <2>2. \A x \in DOMAIN d : d[x] \in ChunkHeader
    BY <1>2, <1>4, ChunkMapFields
  <2>3. d \in [DOMAIN d -> ChunkHeader]
    BY <1>3, <1>4, <2>2
  <2> QED BY <2>1, <2>3 DEF ChunkMap
<1>6. p \in DOMAIN c => f = c[p].foot
  BY DEF f
<1>7. HeadPut(c, d, p, s, cin)
  BY <1>2, <1>4, <1>5, <1>6 DEF HeadPut
<1> QED BY <1>7 DEF d

Absorbed(c, d, p) ==
  d \in ChunkMap /\ DOMAIN d = DOMAIN c \ {p} /\ \A x \in DOMAIN c \ {p} : d[x] = c[x]

LEMMA AbsorbIs ==
  ASSUME NEW c \in ChunkMap, NEW p
  PROVE  Absorbed(c, Absorb(c, p), p)
<1>1. Absorb(c, p) \in [DOMAIN c \ {p} -> ChunkHeader]
  BY ChunkMapFields DEF Absorb
<1>2. DOMAIN c \ {p} \in SUBSET Nat
  BY ChunkMapFields
<1> QED BY <1>1, <1>2 DEF ChunkMap, Absorb, Absorbed

(* One header is replaced.                                                  *)
LEMMA HeaderSet ==
  ASSUME NEW c \in ChunkMap, NEW q \in DOMAIN c, NEW e \in ChunkHeader
  PROVE  LET d == [c EXCEPT ![q] = e] IN
         /\ d \in ChunkMap /\ DOMAIN d = DOMAIN c /\ d[q] = e
         /\ \A x \in DOMAIN c \ {q} : d[x] = c[x]
<1>1. c \in [DOMAIN c -> ChunkHeader] /\ DOMAIN c \in SUBSET Nat
  BY ChunkMapFields
<1> QED BY <1>1 DEF ChunkMap

FootPut(c, d, q, s) ==
  /\ d \in ChunkMap /\ DOMAIN d = DOMAIN c
  /\ d[q].size = c[q].size /\ d[q].pinuse = c[q].pinuse /\ d[q].cinuse = c[q].cinuse
  /\ d[q].foot = s
  /\ \A x \in DOMAIN c \ {q} : d[x] = c[x]

LEMMA FootSet ==
  ASSUME NEW c \in ChunkMap, NEW q \in DOMAIN c, NEW s \in Nat
  PROVE  FootPut(c, [c EXCEPT ![q].foot = s], q, s)
<1> DEFINE e == [c[q] EXCEPT !.foot = s]
<1>1. c[q] \in ChunkHeader
  BY ChunkMapFields
<1>2. /\ e \in ChunkHeader /\ e.foot = s
      /\ e.size = c[q].size /\ e.pinuse = c[q].pinuse /\ e.cinuse = c[q].cinuse
  BY <1>1 DEF ChunkHeader
<1>3. [c EXCEPT ![q].foot = s] = [c EXCEPT ![q] = e]
  OBVIOUS
<1> HIDE DEF e
<1> QED BY <1>2, <1>3, HeaderSet DEF FootPut

PinusePut(c, d, q, b) ==
  /\ d \in ChunkMap /\ DOMAIN d = DOMAIN c
  /\ d[q].size = c[q].size /\ d[q].foot = c[q].foot /\ d[q].cinuse = c[q].cinuse
  /\ d[q].pinuse = b
  /\ \A x \in DOMAIN c \ {q} : d[x] = c[x]

LEMMA PinuseSet ==
  ASSUME NEW c \in ChunkMap, NEW q \in DOMAIN c, NEW b \in BOOLEAN
  PROVE  PinusePut(c, [c EXCEPT ![q].pinuse = b], q, b)
<1> DEFINE e == [c[q] EXCEPT !.pinuse = b]
<1>1. c[q] \in ChunkHeader
  BY ChunkMapFields
<1>2. /\ e \in ChunkHeader /\ e.pinuse = b
      /\ e.size = c[q].size /\ e.foot = c[q].foot /\ e.cinuse = c[q].cinuse
  BY <1>1 DEF ChunkHeader
<1>3. [c EXCEPT ![q].pinuse = b] = [c EXCEPT ![q] = e]
  OBVIOUS
<1> HIDE DEF e
<1> QED BY <1>2, <1>3, HeaderSet DEF PinusePut

(* Free writes the head of the chunk it leaves and the foot behind it.      *)
FreeHeadPut(c, d, p, s, q) ==
  /\ d \in ChunkMap /\ DOMAIN d = DOMAIN c \cup {p}
  /\ d[p].size = s /\ d[p].pinuse = TRUE /\ d[p].cinuse = FALSE
  /\ p \in DOMAIN c => d[p].foot = c[p].foot
  /\ d[q].size = c[q].size /\ d[q].pinuse = c[q].pinuse
  /\ d[q].cinuse = c[q].cinuse /\ d[q].foot = s
  /\ \A x \in DOMAIN c \ {p, q} : d[x] = c[x]

LEMMA FreeHeadIs ==
  ASSUME NEW c \in ChunkMap, NEW p \in Nat, NEW s \in Nat, NEW q \in DOMAIN c, s > 0, q = p + s
  PROVE  FreeHeadPut(c, set_size_and_pinuse_of_free_chunk(c, p, s), p, s, q)
<1> DEFINE k == PutHead(c, p, s, FALSE)
           d == [k EXCEPT ![q].foot = s]
<1>1. HeadPut(c, k, p, s, FALSE)
  BY PutHeadIs
<1>2. q # p /\ q \in DOMAIN c
  OBVIOUS
<1>3. set_size_and_pinuse_of_free_chunk(c, p, s) = d
  BY DEF set_size_and_pinuse_of_free_chunk
<1> HIDE DEF k
<1>4. FootPut(k, d, q, s)
  <2>1. k \in ChunkMap /\ q \in DOMAIN k
    BY <1>1, <1>2 DEF HeadPut
  <2> QED BY <2>1, FootSet
<1> HIDE DEF d
<1>5. FreeHeadPut(c, d, p, s, q)
  BY <1>1, <1>2, <1>4 DEF HeadPut, FootPut, FreeHeadPut
<1> QED BY <1>3, <1>5

(* The two ways Alloc takes a chunk (Carve), and the way it takes the       *)
(* first bytes of top.                                                      *)
LEMMA CarveSplits ==
  ASSUME NEW c \in ChunkMap, NEW p \in DOMAIN c, NEW nb \in Nat, nb > 0, nb < c[p].size,
         p + nb \notin DOMAIN c, NextIn(c, p) \in DOMAIN c, NEW top, NEW s, s = c[p].size
  PROVE  SplitOff(c, set_size_and_pinuse_of_free_chunk(
                       set_size_and_pinuse_of_inuse_chunk(c, p, nb), p + nb, s - nb), p, nb, top)
<1> DEFINE k == PutHead(c, p, nb, TRUE)
           d == set_size_and_pinuse_of_free_chunk(k, p + nb, s - nb)
           q == NextIn(c, p)
<1>1. p \in Nat /\ c[p].size \in Nat /\ s - nb \in Nat /\ s - nb > 0
  BY ChunkMapFields
<1>2. p + nb \in Nat /\ p + nb # p /\ (p + nb) + (s - nb) = q /\ q # p /\ q # p + nb /\ q \in DOMAIN c
  BY <1>1 DEF NextIn
<1>3. HeadPut(c, k, p, nb, TRUE)
  BY <1>1, PutHeadIs
<1> HIDE DEF k, q
<1>4. FreeHeadPut(k, d, p + nb, s - nb, q)
  <2>1. k \in ChunkMap /\ q \in DOMAIN k
    BY <1>2, <1>3 DEF HeadPut
  <2> QED BY <1>1, <1>2, <2>1, FreeHeadIs
<1>5. d = set_size_and_pinuse_of_free_chunk(
            set_size_and_pinuse_of_inuse_chunk(c, p, nb), p + nb, s - nb)
  BY DEF set_size_and_pinuse_of_inuse_chunk, k
<1> HIDE DEF d
<1>6. SplitOff(c, d, p, nb, top)
  BY <1>2, <1>3, <1>4 DEF HeadPut, FreeHeadPut, SplitOff, q
<1> QED BY <1>5, <1>6

LEMMA CarveTakes ==
  ASSUME NEW c \in ChunkMap, NEW p \in DOMAIN c, c[p].size > 0, NextIn(c, p) \in DOMAIN c,
         NEW s, s = c[p].size
  PROVE  TakenWhole(c, set_inuse_and_pinuse(c, p, s), p)
<1> DEFINE k == PutHead(c, p, s, TRUE)
           q == p + s
           d == set_inuse_and_pinuse(c, p, s)
           m == [k EXCEPT ![q].pinuse = TRUE]
           n == [m EXCEPT ![q].foot = 0]
<1>1. p \in Nat /\ s \in Nat /\ q # p /\ q \in DOMAIN c /\ q = NextIn(c, p)
  BY ChunkMapFields DEF NextIn
<1>2. HeadPut(c, k, p, s, TRUE)
  BY <1>1, PutHeadIs
<1>3. d = [k EXCEPT ![q].pinuse = TRUE, ![q].foot = 0]
  BY DEF set_inuse_and_pinuse
<1> HIDE DEF d, k, q
<1>4. PinusePut(k, m, q, TRUE)
  <2>1. k \in ChunkMap /\ q \in DOMAIN k
    BY <1>1, <1>2 DEF HeadPut
  <2> QED BY <2>1, PinuseSet
<1>5. d = n
  BY <1>3
<1> HIDE DEF m
<1>6. FootPut(m, n, q, 0)
  <2>1. m \in ChunkMap /\ q \in DOMAIN m
    BY <1>1, <1>2, <1>4 DEF HeadPut, PinusePut
  <2> QED BY <2>1, FootSet
<1> HIDE DEF n
<1>7. TakenWhole(c, n, p)
  BY <1>1, <1>2, <1>4, <1>6 DEF HeadPut, PinusePut, FootPut, TakenWhole
<1> QED BY <1>5, <1>7 DEF d
(* The headers after top gave its first nb bytes away.                      *)
TopCut(c, p, nb, s) == PutHead(PutHead(c, p + nb, s, FALSE), p, nb, TRUE)

LEMMA TopSplits ==
  ASSUME NEW c \in ChunkMap, NEW p \in DOMAIN c, NEW nb \in Nat, nb > 0, nb < c[p].size,
         p + nb \notin DOMAIN c, NEW s, s = c[p].size - nb
  PROVE  SplitOff(c, TopCut(c, p, nb, s), p, nb, p)
<1> DEFINE r == p + nb
           k == PutHead(c, r, s, FALSE)
           d == PutHead(k, p, nb, TRUE)
<1>1. p \in Nat /\ c[p].size \in Nat /\ s \in Nat /\ r \in Nat /\ r # p /\ r \notin DOMAIN c
  BY ChunkMapFields
<1> HIDE DEF r
<1>2. HeadPut(c, k, r, s, FALSE)
  BY <1>1, PutHeadIs
<1> HIDE DEF k
<1>3. HeadPut(k, d, p, nb, TRUE)
  <2>1. k \in ChunkMap
    BY <1>2 DEF HeadPut
  <2> QED BY <1>1, <2>1, PutHeadIs
<1> HIDE DEF d
<1>4. SplitOff(c, d, p, nb, p)
  BY <1>1, <1>2, <1>3 DEF HeadPut, SplitOff, r
<1> QED BY <1>4 DEF d, k, r, TopCut

-----------------------------------------------------------------------------
(* Alloc: what its parts leave of the state.                                *)

(* The sizes of chunks that requests ask for.                               *)
LEMMA RequestSize ==
  ASSUME NEW bytes \in Nat
  PROVE  /\ MAX_REQUEST = SizeModulus - 128
         /\ Small(bytes) => bytes < MAX_REQUEST /\ ChunkFor(bytes) < 256
         /\ bytes < MAX_REQUEST =>
              /\ ChunkFor(bytes) = request2size(bytes)
              /\ ChunkFor(bytes) \in Nat /\ ChunkFor(bytes) >= 32
              /\ ChunkFor(bytes) >= bytes + 8 /\ ChunkFor(bytes) % 16 = 0
              /\ ChunkFor(bytes) < SizeModulus
              /\ ~Small(bytes) => ChunkFor(bytes) >= 256
         /\ bytes >= MAX_REQUEST => ChunkFor(bytes) = SizeModulus - 1
<1>1. MAX_REQUEST = SizeModulus - 128 /\ MAX_REQUEST \in Nat /\ MAX_REQUEST >= 384
  BY WrapBelow, SizeModulusAssumption DEF MAX_REQUEST, MIN_CHUNK_SIZE
<1>2. Small(bytes) <=> bytes <= 232
  BY DEF Small, MAX_SMALL_REQUEST, MIN_LARGE_SIZE, MALLOC_ALIGNMENT, CHUNK_OVERHEAD, SIZE_T_SIZE
<1>3. ASSUME bytes < MAX_REQUEST
      PROVE  LET nb == ChunkFor(bytes) IN
             /\ nb = request2size(bytes)
             /\ nb \in Nat /\ nb >= 32 /\ nb >= bytes + 8 /\ nb % 16 = 0
             /\ nb < SizeModulus
             /\ Small(bytes) => nb < 256
             /\ ~Small(bytes) => nb >= 256
  <2> DEFINE nb == request2size(bytes)
  <2>1. ChunkFor(bytes) = nb
    BY <1>1, <1>3 DEF ChunkFor
  <2>2. /\ nb \in Nat /\ nb % 16 = 0 /\ nb >= 32 /\ nb >= bytes + 8
        /\ nb = 32 \/ nb < bytes + 24
    BY <1>3, PaddedSize
  <2> HIDE DEF nb
  <2>3. Small(bytes) => nb < 256
    BY <1>2, <2>2
  <2>4. ~Small(bytes) => nb >= 256
    BY <1>2, <2>2
  <2>5. nb < SizeModulus
    BY <1>1, <1>3, <2>2, SizeModulusAssumption
  <2> QED BY <2>1, <2>2, <2>3, <2>4, <2>5 DEF nb
<1>4. bytes >= MAX_REQUEST => ChunkFor(bytes) = SizeModulus - 1
  BY <1>1, <1>2 DEF ChunkFor, MAX_SIZE_T
<1> QED BY <1>1, <1>2, <1>3, <1>4

(* g differs from h in its chunk headers, dv and top, not in its bins.      *)
SameBins(g, h) ==
  /\ g.smallmap = h.smallmap /\ g.treemap = h.treemap
  /\ g.smallbins = h.smallbins /\ g.treebins = h.treebins
  /\ g.least_addr = h.least_addr /\ g.status = h.status

SameDvTop(g, h) ==
  g.dv = h.dv /\ g.dvsize = h.dvsize /\ g.top = h.top /\ g.topsize = h.topsize

(* The headers d that are left when the free chunk p of c was handed out    *)
(* for a chunk size of nb.                                                  *)
Given(c, d, p, nb, first, top, end) ==
  /\ d \in ChunkMap /\ Layout(d, first, top, end)
  /\ UsedIn(d) = UsedIn(c) \cup {p}
  /\ \A x \in DOMAIN c \ {p} : x \in DOMAIN d /\ d[x].size = c[x].size
  /\ d[p].size \in Nat /\ nb <= d[p].size /\ d[p].size < nb + 32

Carved(g, h, c, p, s, nb, first, top, end) ==
  /\ g \in MallocState /\ SameBins(g, h) /\ SameDvTop(g, h)
  /\ Given(c, g.chunk, p, nb, first, top, end)
  /\ s - nb \in Nat
  /\ Splits(s, nb) =>
       /\ p + nb \in Nat /\ p + nb \notin DOMAIN c /\ s - nb >= 32
       /\ FreeIn(g.chunk) = (FreeIn(c) \ {p}) \cup {p + nb}
       /\ g.chunk[p + nb].size = s - nb
  /\ ~Splits(s, nb) => FreeIn(g.chunk) = FreeIn(c) \ {p}

LEMMA CarveIs ==
  ASSUME NEW h \in MallocState, NEW first \in Nat, NEW top \in Nat, NEW end \in Nat,
         NEW c, c = h.chunk, Layout(c, first, top, end), NEW p \in FreeIn(c), p # top,
         NEW nb \in Nat, nb % 16 = 0, nb >= 32, NEW s, s = c[p].size, nb <= s
  PROVE  Carved(Carve(h, p, s, nb), h, c, p, s, nb, first, top, end)
<1> DEFINE d1 == set_size_and_pinuse_of_free_chunk(
                   set_size_and_pinuse_of_inuse_chunk(c, p, nb), p + nb, s - nb)
           d2 == set_inuse_and_pinuse(c, p, s)
           d == IF Splits(s, nb) THEN d1 ELSE d2
           g == [h EXCEPT !.chunk = d]
<1>1. c \in ChunkMap /\ s \in Nat /\ s > 0 /\ p \in DOMAIN c /\ p \in Nat /\ NextIn(c, p) \in DOMAIN c
  BY StateFields, LayoutFacts DEF FreeIn
<1>2. CASE Splits(s, nb)
  <2>1. s - nb >= 32 /\ nb < s /\ nb > 0 /\ nb < c[p].size /\ c[p].size - nb >= 32
    BY <1>1, <1>2 DEF Splits, MIN_CHUNK_SIZE
  <2>2. p + nb \notin DOMAIN c
    <3>1. p + nb \in DOMAIN c => NextIn(c, p) <= p + nb
      BY <1>1 DEF Layout, Tiled
    <3> QED BY <1>1, <2>1, <3>1 DEF NextIn
  <2>3. SplitOff(c, d1, p, nb, top)
    BY <1>1, <2>1, <2>2, CarveSplits
  <2>4. d = d1
    BY <1>2
  <2> HIDE DEF d, d1
  <2>5. d \in ChunkMap /\ d[p].size = nb /\ d[p + nb].size = s - nb
    BY <2>3, <2>4 DEF SplitOff
  <2>6. /\ Layout(d, first, IF p = top THEN p + nb ELSE top, end)
        /\ UsedIn(d) = UsedIn(c) \cup {p}
        /\ FreeIn(d) = (FreeIn(c) \ {p}) \cup {p + nb}
        /\ \A x \in DOMAIN c \ {p} : d[x].size = c[x].size
    BY <1>1, <2>1, <2>3, <2>4, SplitLayout
  <2>7. Given(c, d, p, nb, first, top, end)
    BY <2>3, <2>4, <2>5, <2>6 DEF Given, SplitOff
  <2>8. /\ g \in MallocState /\ SameBins(g, h) /\ SameDvTop(g, h) /\ g.chunk = d
    BY <2>5 DEF MallocState, SameBins, SameDvTop
  <2>9. Carve(h, p, s, nb) = g
    BY <1>2 DEF Carve, d, d1
  <2> HIDE DEF g
  <2> QED BY <1>1, <1>2, <2>1, <2>2, <2>5, <2>6, <2>7, <2>8, <2>9 DEF Carved
<1>3. CASE ~Splits(s, nb)
  <2>1. s < nb + 32 /\ s - nb \in Nat
    BY <1>1, <1>3 DEF Splits, MIN_CHUNK_SIZE
  <2>2. TakenWhole(c, d2, p)
    BY <1>1, CarveTakes
  <2>3. d = d2
    BY <1>3
  <2> HIDE DEF d, d2
  <2>4. d \in ChunkMap /\ DOMAIN d = DOMAIN c /\ \A x \in DOMAIN c : d[x].size = c[x].size
    BY <2>2, <2>3 DEF TakenWhole
  <2>5. /\ Layout(d, first, top, end)
        /\ UsedIn(d) = UsedIn(c) \cup {p}
        /\ FreeIn(d) = FreeIn(c) \ {p}
    BY <1>1, <2>2, <2>3, TakeLayout
  <2>6. Given(c, d, p, nb, first, top, end)
    BY <1>1, <2>1, <2>4, <2>5 DEF Given
  <2>7. /\ g \in MallocState /\ SameBins(g, h) /\ SameDvTop(g, h) /\ g.chunk = d
    BY <2>4 DEF MallocState, SameBins, SameDvTop
  <2>8. Carve(h, p, s, nb) = g
    BY <1>3 DEF Carve, d, d2
  <2> HIDE DEF g
  <2> QED BY <1>3, <2>1, <2>5, <2>6, <2>7, <2>8 DEF Carved
<1> QED BY <1>2, <1>3

(* Bins that are right stay right when headers elsewhere change.            *)
LEMMA BinsKept ==
  ASSUME NEW h, NEW g, NEW c, NEW d, NEW B, BinsHold(h, c, B), SameBins(g, h),
         \A p \in B : d[p].size = c[p].size
  PROVE  BinsHold(g, d, B)
  BY BinsHoldSame DEF SameBins

(* The old designated victim is binned, the chunk P takes its place.        *)
DvReplaced(g, h, d, B, P, S) ==
  /\ g \in MallocState /\ g.status = h.status
  /\ g.dv = P /\ g.dvsize = S /\ g.top = h.top /\ g.topsize = h.topsize
  /\ g.least_addr = h.least_addr /\ g.chunk = h.chunk
  /\ BinsHold(g, d, B \cup ({h.dv} \ {NULL}))

LEMMA ReplaceDv ==
  ASSUME NEW h \in MallocState, NEW d \in ChunkMap, NEW B \in SUBSET DOMAIN d,
         BinsHold(h, d, B), NEW P \in Nat, NEW S \in Nat,
         h.dvsize < 256,
         h.dv = NULL => h.dvsize = 0,
         h.dv # NULL => h.dv \in DOMAIN d \ B /\ d[h.dv].size = h.dvsize /\ h.dvsize > 0
  PROVE  DvReplaced(replace_dv(h, P, S), h, d, B, P, S)
<1> DEFINE k == IF h.dvsize # 0 THEN insert_small_chunk(h, h.dv, h.dvsize) ELSE h
           g == [k EXCEPT !.dvsize = S, !.dv = P]
           E == B \cup ({h.dv} \ {NULL})
<1>1. is_small(h.dvsize)
  BY DEF is_small, MIN_LARGE_SIZE
<1>2. replace_dv(h, P, S) = g
  BY <1>1 DEF replace_dv
<1>3. k \in MallocState /\ SameButBins(k, h) /\ k.status = h.status /\ BinsHold(k, d, E)
  <2>1. CASE h.dv = NULL
    <3>1. k = h /\ E = B
      BY <2>1
    <3> HIDE DEF k, E
    <3> QED BY <3>1 DEF SameButBins
  <2>2. CASE h.dv # NULL
    <3>1. k = insert_small_chunk(h, h.dv, d[h.dv].size) /\ E = B \cup {h.dv}
      BY <2>2
    <3> HIDE DEF k, E
    <3>2. is_small(d[h.dv].size)
      BY <1>1, <2>2
    <3> QED BY <2>2, <3>1, <3>2, InsertSmall
  <2> QED BY <2>1, <2>2
<1> HIDE DEF k, E
<1>4. /\ g \in MallocState /\ SameBins(g, k) /\ g.dv = P /\ g.dvsize = S
      /\ g.top = k.top /\ g.topsize = k.topsize /\ g.chunk = k.chunk
  BY <1>3 DEF MallocState, SameBins
<1> HIDE DEF g
<1>5. BinsHold(g, d, E)
  BY <1>3, <1>4, BinsKept
<1> QED BY <1>2, <1>3, <1>4, <1>5 DEF SameButBins, SameBins, DvReplaced, E

-----------------------------------------------------------------------------
(* Facts of a whole segment.                                                *)

LEMMA WholeFacts ==
  ASSUME NEW h \in MallocState, NEW L, Whole(h, L)
  PROVE  LET c == h.chunk IN
         /\ First(h) \in Nat /\ End(h) \in Nat /\ First(h) > 0
         /\ c \in ChunkMap /\ Layout(c, First(h), h.top, End(h))
         /\ NULL \notin DOMAIN c
         /\ \A x \in DOMAIN c : c[x].size \in 1 .. SizeModulus - 9 /\ c[x].size < IncreasingSize
         /\ h.top \in FreeIn(c) /\ h.topsize = c[h.top].size
         /\ h.dv = NULL => h.dvsize = 0
         /\ h.dv # NULL => /\ h.dv \in FreeIn(c) \ {h.top}
                           /\ h.dvsize = c[h.dv].size /\ h.dvsize >= 32
         /\ h.dvsize \in 0 .. SizeModulus - 9
         /\ BinnedIn(h) \in SUBSET DOMAIN c
         /\ BinnedIn(h) = FreeIn(c) \ {h.dv, h.top}
         /\ BinsHold(h, c, BinnedIn(h))
<1> DEFINE c == h.chunk
           f == First(h)
           e == End(h)
<1>0. c \in ChunkMap /\ h.least_addr \in Nat /\ h.least_addr > 0 /\ h.dv \in Nat /\ h.top \in Nat
  BY StateFields DEF Whole
<1>1. /\ align_offset(chunk2mem(h.least_addr)) \in 0 .. 15
      /\ chunk2mem(h.least_addr) \in Nat
  BY <1>0, AlignOffset DEF chunk2mem, TWO_SIZE_T_SIZES
<1>2. f \in Nat /\ f >= h.least_addr /\ f > 0
  BY <1>0, <1>1 DEF First
<1>3. e \in Nat /\ e - h.least_addr <= SizeModulus - 9 /\ e - h.least_addr < IncreasingSize
  <2>1. IncreasingSize \in Nat /\ IncreasingSize >= 64 /\ IncreasingSize <= SizeModulus - 1
    BY UniConstants, SizeModulusAssumption
  <2>2. e = h.least_addr + (IncreasingSize - 8)
    BY DEF End, TOP_FOOT_SIZE, SIZE_T_SIZE
  <2> QED BY <1>0, <2>1, <2>2, SizeModulusAssumption
<1>4. Layout(c, f, h.top, e)
  BY DEF Whole
<1> HIDE DEF c, f, e
<1>5. ASSUME NEW x \in DOMAIN c
      PROVE  c[x].size \in 1 .. SizeModulus - 9 /\ c[x].size < IncreasingSize /\ x # NULL
  <2>1. /\ x \in Nat /\ f <= x /\ c[x].size \in Nat /\ c[x].size > 0
        /\ NextIn(c, x) <= e /\ NextIn(c, x) = x + c[x].size
    BY <1>0, <1>2, <1>3, <1>4, LayoutFacts DEF NextIn
  <2> QED BY <1>0, <1>2, <1>3, <2>1, UniConstants, SizeModulusAssumption DEF NULL
<1>6. h.top \in FreeIn(c)
  BY <1>0, <1>2, <1>3, <1>4, LayoutFacts
<1>7. /\ h.topsize = c[h.top].size
      /\ h.dv = NULL => h.dvsize = 0
      /\ h.dv # NULL => h.dv \in FreeIn(c) \ {h.top} /\ h.dvsize = c[h.dv].size
  BY DEF Whole, Cached, c
<1>8. h.dv # NULL => h.dvsize >= 32 /\ h.dvsize \in 0 .. SizeModulus - 9
  <2>1. h.dv # NULL => h.dv \in DOMAIN c \ {h.top}
    BY <1>7 DEF FreeIn
  <2>2. \A x \in DOMAIN c \ {h.top} : c[x].size >= 32
    BY <1>0, <1>2, <1>3, <1>4, LayoutFacts
  <2> QED BY <1>5, <1>7, <2>1, <2>2
<1>9. h.dvsize \in 0 .. SizeModulus - 9
  BY <1>7, <1>8, SizeModulusAssumption
<1>10. /\ BinnedIn(h) = FreeIn(c) \ {h.dv, h.top} /\ BinsHold(h, c, BinnedIn(h))
  BY DEF Whole, BinnedIn, c
<1>11. BinnedIn(h) \in SUBSET DOMAIN c
  BY <1>10 DEF FreeIn
<1> QED BY <1>0, <1>2, <1>3, <1>4, <1>5, <1>6, <1>7, <1>8, <1>9, <1>10, <1>11 DEF c, f, e

(* A client is served: the state left is whole again.                       *)
LEMMA AllocLeaves ==
  ASSUME NEW h \in MallocState, NEW L, Whole(h, L),
         NEW bytes \in Nat, bytes < MAX_REQUEST, NEW p \in FreeIn(h.chunk),
         NEW g \in MallocState, g.least_addr = h.least_addr,
         Given(h.chunk, g.chunk, p, ChunkFor(bytes), First(h), g.top, End(h)),
         Cached(g), BinsHold(g, g.chunk, BinnedIn(g))
  PROVE  /\ Whole(g, L \cup {[mem |-> chunk2mem(p), bytes |-> bytes]})
         /\ \A x \in UsedIn(h.chunk) : g.chunk[x].size = h.chunk[x].size
<1> DEFINE c == h.chunk
           d == g.chunk
           new == [mem |-> chunk2mem(p), bytes |-> bytes]
           M == L \cup {new}
<1>1. /\ p \in DOMAIN c /\ p \in Nat /\ p \notin UsedIn(c) /\ UsedIn(c) \subseteq DOMAIN c \ {p}
  BY StateFields, ChunkMapFields DEF FreeIn, UsedIn
<1>2. new.mem = chunk2mem(p) /\ new.bytes = bytes /\ mem2chunk(new.mem) = p
  BY <1>1 DEF chunk2mem, mem2chunk, TWO_SIZE_T_SIZES
<1>3. /\ Layout(d, First(h), g.top, End(h)) /\ UsedIn(d) = UsedIn(c) \cup {p}
      /\ \A x \in UsedIn(c) : d[x].size = c[x].size
      /\ d[p].size \in Nat /\ ChunkFor(bytes) <= d[p].size /\ d[p].size < ChunkFor(bytes) + 32
  BY <1>1 DEF Given
<1>4. First(g) = First(h) /\ End(g) = End(h) /\ g.least_addr > 0
  BY DEF First, End, Whole
<1>5. Served(c, L)
  BY DEF Whole
<1> HIDE DEF c, d, new
<1>6. {mem2chunk(m.mem) : m \in M} = UsedIn(d)
  BY <1>2, <1>3, <1>5 DEF Served
<1>7. ASSUME NEW m \in M, NEW n \in M, m.mem = n.mem PROVE m = n
  <2>1. \A l \in L : mem2chunk(l.mem) # p
    BY <1>1, <1>5 DEF Served
  <2>2. \A l \in L : l.mem # new.mem
    BY <1>2, <2>1
  <2> QED BY <1>5, <1>7, <2>2 DEF Served
<1>8. ASSUME NEW m \in M
      PROVE  LET s == d[mem2chunk(m.mem)].size
                 nb == request2size(m.bytes)
             IN m.bytes < MAX_REQUEST /\ nb <= s /\ s < nb + MIN_CHUNK_SIZE
  <2>1. CASE m \in L
    <3>1. mem2chunk(m.mem) \in UsedIn(c)
      BY <1>5, <2>1 DEF Served
    <3> QED BY <1>3, <1>5, <2>1, <3>1 DEF Served
  <2>2. CASE m = new
    <3>1. ChunkFor(bytes) = request2size(bytes)
      BY RequestSize
    <3> QED BY <1>2, <1>3, <2>2, <3>1 DEF MIN_CHUNK_SIZE
  <2> QED BY <2>1, <2>2
<1>9. Served(d, M)
  BY <1>6, <1>7, <1>8 DEF Served
<1>10. Whole(g, M)
  BY <1>3, <1>4, <1>9 DEF Whole, d
<1> QED BY <1>3, <1>10 DEF c, d, new

(* What a step of the allocator keeps, of the allocations that outlive it.  *)
Kept(c, d) == \A x \in UsedIn(c) \cap UsedIn(d) : d[x].size = c[x].size

(* What Alloc(bytes) leaves when it hands out p: g, or it throws.           *)
Outcome(g, bytes, p) ==
  /\ g \in MallocState
  /\ \/ g.status = "corrupted"
     \/ /\ g.status = "ok" /\ g.least_addr = gm.least_addr
        /\ Given(gm.chunk, g.chunk, p, ChunkFor(bytes), First(gm), g.top, End(gm))
        /\ Cached(g) /\ BinsHold(g, g.chunk, BinnedIn(g))

LEMMA Returned ==
  ASSUME Typed, NEW bytes \in Requests, bytes < MAX_REQUEST, Whole(gm, live),
         NEW p \in FreeIn(gm.chunk), NEW g, Outcome(g, bytes, p), Return(bytes, p, g)
  PROVE  IInv' /\ (gm'.status = "ok" => Kept(gm.chunk, gm'.chunk))
<1> DEFINE new == [mem |-> chunk2mem(p), bytes |-> bytes]
<1>0. /\ g \in MallocState
      /\ \/ g.status = "corrupted"
         \/ /\ g.status = "ok" /\ g.least_addr = gm.least_addr
            /\ Given(gm.chunk, g.chunk, p, ChunkFor(bytes), First(gm), g.top, End(gm))
            /\ Cached(g) /\ BinsHold(g, g.chunk, BinnedIn(g))
  BY DEF Outcome
<1>1. bytes \in Nat /\ p \in Nat
  BY UniConstants, StateFields, ChunkMapFields DEF Typed, FreeIn
<1>2. gm' = g /\ call' = NoCall /\ segments' = segments
      /\ live' = IF g.status = "ok" THEN live \cup {new} ELSE live
  BY DEF Return
<1>3. new \in [mem : Nat, bytes : Requests]
  BY <1>1 DEF chunk2mem, TWO_SIZE_T_SIZES
<1>4. Typed'
  BY <1>0, <1>2, <1>3 DEF Typed
<1>5. CASE g.status = "corrupted"
  BY <1>2, <1>4, <1>5 DEF IInv, Sound
<1>6. CASE g.status = "ok"
  <2>1. gm \in MallocState
    BY DEF Typed
  <2>2. /\ Whole(g, live \cup {new})
        /\ \A x \in UsedIn(gm.chunk) : g.chunk[x].size = gm.chunk[x].size
    BY <1>0, <1>1, <1>6, <2>1, AllocLeaves
  <2>3. Sound'
    BY <1>2, <1>6, <2>2 DEF Sound
  <2> QED BY <1>2, <1>4, <1>6, <2>2, <2>3 DEF IInv, Kept
<1> QED BY <1>0, <1>5, <1>6

-----------------------------------------------------------------------------
(* The actions of Alloc.                                                    *)

LEMMA FreshServesNone ==
  ASSUME Typed, Fresh(gm, live), NEW bytes \in Requests
  PROVE  /\ ~UsesExactBin(bytes) /\ ~UsesLargerBin(bytes)
         /\ ~UsesSmallestTree(bytes) /\ ~UsesTree(bytes)
         /\ ChunkFor(bytes) > gm.dvsize /\ ~FitsTop(ChunkFor(bytes))
<1>1. gm.smallmap = {} /\ gm.treemap = {} /\ gm.dvsize = 0 /\ gm.topsize = 0
  BY DEF Fresh
<1>2. ~UsesExactBin(bytes)
  BY <1>1 DEF UsesExactBin, ExactBins
<1>3. ~UsesLargerBin(bytes)
  BY <1>1 DEF UsesLargerBin, LargerBins
<1>4. ~UsesSmallestTree(bytes)
  BY <1>1 DEF UsesSmallestTree
<1>5. LargeFit(ChunkFor(bytes)) = NULL
  BY <1>1 DEF LargeFit, OwnBin, NextBin, RootIn
<1>6. ~UsesTree(bytes)
  BY <1>5 DEF UsesTree
<1>7. ChunkFor(bytes) \in Nat /\ ChunkFor(bytes) > 0
  <2>1. bytes \in Nat /\ MAX_REQUEST \in Int
    BY UniConstants, RequestSize, SizeModulusAssumption
  <2> QED BY <2>1, RequestSize, SizeModulusAssumption
<1>8. ChunkFor(bytes) > gm.dvsize /\ ~FitsTop(ChunkFor(bytes))
  BY <1>1, <1>7 DEF FitsTop
<1> QED BY <1>2, <1>3, <1>4, <1>6, <1>8

(* When a bin, dv or top serves a request, the segment is whole, and the    *)
(* request is not one that is too large.                                    *)
LEMMA Serving ==
  ASSUME Typed, Sound, NEW bytes \in Requests, Calling(bytes),
         \/ UsesExactBin(bytes) \/ UsesLargerBin(bytes)
         \/ UsesSmallestTree(bytes) \/ UsesTree(bytes)
         \/ ChunkFor(bytes) <= gm.dvsize \/ FitsTop(ChunkFor(bytes))
  PROVE  /\ gm \in MallocState /\ gm.status = "ok" /\ Whole(gm, live)
         /\ bytes \in Nat /\ bytes < MAX_REQUEST
<1>1. gm \in MallocState /\ gm.status = "ok" /\ bytes \in Nat
  BY UniConstants DEF Typed, Calling
<1>2. ~Fresh(gm, live)
  <2>1. gm.dvsize \in Nat /\ ChunkFor(bytes) \in Nat
    <3>1. MAX_REQUEST \in Int
      BY <1>1, RequestSize, SizeModulusAssumption
    <3>2. gm.dvsize \in Nat
      BY <1>1, StateFields
    <3>3. ChunkFor(bytes) \in Nat
      BY <1>1, <3>1, RequestSize, SizeModulusAssumption
    <3> QED BY <3>2, <3>3
  <2> QED BY <2>1, FreshServesNone
<1>3. Whole(gm, live)
  BY <1>1, <1>2 DEF Sound
<1>4. bytes < MAX_REQUEST
  <2>1. Small(bytes) => bytes < MAX_REQUEST
    BY <1>1, RequestSize
  <2>2. gm.dvsize \in 0 .. SizeModulus - 9 /\ gm.topsize \in 0 .. SizeModulus - 9
    BY <1>1, <1>3, WholeFacts DEF FreeIn
  <2>3. ASSUME bytes >= MAX_REQUEST
        PROVE  ChunkFor(bytes) > gm.dvsize /\ ~FitsTop(ChunkFor(bytes))
    <3>1. ChunkFor(bytes) = SizeModulus - 1
      BY <1>1, <2>3, RequestSize
    <3> QED BY <2>2, <3>1, SizeModulusAssumption DEF FitsTop
  <2>4. bytes >= MAX_REQUEST \/ bytes < MAX_REQUEST
    BY <1>1, RequestSize, SizeModulusAssumption
  <2>5. ASSUME ChunkFor(bytes) <= gm.dvsize \/ FitsTop(ChunkFor(bytes)) PROVE bytes < MAX_REQUEST
    <3>1. ASSUME bytes >= MAX_REQUEST PROVE FALSE
      <4>1. ChunkFor(bytes) = SizeModulus - 1
        BY <1>1, <3>1, RequestSize
      <4> QED BY <2>2, <2>5, <4>1, SizeModulusAssumption DEF FitsTop
    <3> QED BY <2>4, <3>1
  <2> QED BY <2>1, <2>5 DEF UsesExactBin, UsesLargerBin, UsesSmallestTree, UsesTree
<1> QED BY <1>1, <1>3, <1>4

LEMMA AllocExactBinStep ==
  ASSUME Typed, Sound, NEW bytes \in Requests, AllocExactBin(bytes)
  PROVE  IInv' /\ (gm'.status = "ok" => Kept(gm.chunk, gm'.chunk))
<1> DEFINE nb == ChunkFor(bytes)
           X == ExactBins(nb)
           i == Min(X)
           p == Head(gm.smallbins[i])
           h == unlink_first_small_chunk(gm, i)
           s == small_index2size(i)
           c == gm.chunk
           d == set_inuse_and_pinuse(c, p, s)
           g == [h EXCEPT !.chunk = d]
           B == BinnedIn(gm)
<1>1. Calling(bytes) /\ UsesExactBin(bytes)
  BY DEF AllocExactBin
<1>2. /\ gm \in MallocState /\ gm.status = "ok" /\ Whole(gm, live)
      /\ bytes \in Nat /\ bytes < MAX_REQUEST
  BY <1>1, Serving
<1>3. nb \in Nat /\ nb >= 32 /\ nb % 16 = 0
  BY <1>2, RequestSize
<1>4. Return(bytes, p, [h EXCEPT !.chunk = set_inuse_and_pinuse(@, p, s)])
  BY DEF AllocExactBin
<1>5. X \in SUBSET Nat /\ X # {} /\ X \subseteq gm.smallmap
  BY <1>1, <1>2, StateFields DEF UsesExactBin, ExactBins, BinIndex
<1>6. i \in X
  BY <1>5, MinIsLeast
<1>7. i \in gm.smallmap /\ i \in Nat /\ (i = small_index(nb) \/ i = small_index(nb) + 1)
  BY <1>5, <1>6 DEF ExactBins
<1>8. /\ First(gm) \in Nat /\ End(gm) \in Nat /\ gm.top \in Nat
      /\ c \in ChunkMap /\ Layout(c, First(gm), gm.top, End(gm))
      /\ B \in SUBSET DOMAIN c /\ B = FreeIn(c) \ {gm.dv, gm.top} /\ BinsHold(gm, c, B)
  BY <1>2, WholeFacts, StateFields
<1> HIDE DEF i, nb, X, B, c
<1>9. /\ p \in B /\ InSmallBin(c, p, i)
      /\ h \in MallocState /\ SameButBins(h, gm) /\ h.status = gm.status
      /\ BinsHold(h, c, B \ {p})
  BY <1>2, <1>7, <1>8, UnlinkFirst
<1> HIDE DEF p, h
<1>10. p \in FreeIn(c) /\ p # gm.top /\ p # gm.dv /\ p \in DOMAIN c /\ p \in Nat
  BY <1>8, <1>9, ChunkMapFields DEF FreeIn
<1>11. c[p].size \in Nat /\ c[p].size >= 32 /\ c[p].size % 16 = 0 /\ NextIn(c, p) \in DOMAIN c
  BY <1>8, <1>10, LayoutFacts
<1>12. s = c[p].size /\ nb <= s /\ s < nb + 32
  <2>1. i = c[p].size \div 8
    BY <1>9 DEF InSmallBin, small_index
  <2>2. s = i * 8
    BY DEF small_index2size
  <2>3. i = nb \div 8 \/ i = (nb \div 8) + 1
    BY <1>7 DEF small_index
  <2> HIDE DEF s
  <2> QED BY <1>3, <1>7, <1>11, <2>1, <2>2, <2>3
<1> HIDE DEF s
<1>13. TakenWhole(c, d, p)
  <2>1. c[p].size > 0
    BY <1>11
  <2> QED BY <1>8, <1>10, <1>11, <1>12, <2>1, CarveTakes
<1> HIDE DEF d
<1>14. /\ Layout(d, First(gm), gm.top, End(gm))
       /\ UsedIn(d) = UsedIn(c) \cup {p} /\ FreeIn(d) = FreeIn(c) \ {p}
  BY <1>8, <1>10, <1>13, TakeLayout
<1>15. d \in ChunkMap /\ DOMAIN d = DOMAIN c /\ \A x \in DOMAIN c : d[x].size = c[x].size
  BY <1>13 DEF TakenWhole
<1>16. Given(c, d, p, nb, First(gm), gm.top, End(gm))
  BY <1>10, <1>11, <1>12, <1>14, <1>15 DEF Given
<1>17. /\ g \in MallocState /\ SameBins(g, h) /\ SameDvTop(g, h) /\ g.chunk = d
  BY <1>9, <1>15 DEF MallocState, SameBins, SameDvTop
<1>18. Return(bytes, p, g)
  <2>1. h.chunk = c
    BY <1>9 DEF SameButBins, c
  <2> QED BY <1>4, <2>1 DEF d
<1> HIDE DEF g
<1>19. /\ g.status = "ok" /\ g.least_addr = gm.least_addr /\ g.dv = gm.dv
       /\ g.dvsize = gm.dvsize /\ g.top = gm.top /\ g.topsize = gm.topsize
  BY <1>2, <1>9, <1>17 DEF SameButBins, SameBins, SameDvTop
<1>20. Cached(g)
  <2>1. Cached(gm) /\ gm.top \in DOMAIN c
    BY <1>2, <1>8, LayoutFacts DEF Whole, FreeIn
  <2>2. gm.dv \in FreeIn(c) => gm.dv \in FreeIn(d) /\ d[gm.dv].size = c[gm.dv].size
    BY <1>10, <1>14, <1>15 DEF FreeIn
  <2> QED BY <1>15, <1>17, <1>19, <2>1, <2>2 DEF Cached, c
<1>21. BinnedIn(g) = B \ {p}
  BY <1>8, <1>14, <1>17, <1>19 DEF BinnedIn
<1>22. BinsHold(g, d, B \ {p})
  <2>1. \A x \in B \ {p} : d[x].size = c[x].size
    BY <1>8, <1>15
  <2> QED BY <1>9, <1>17, <2>1, BinsKept
<1>23. Outcome(g, bytes, p)
  BY <1>16, <1>17, <1>19, <1>20, <1>21, <1>22 DEF Outcome, c, nb
<1> QED BY <1>2, <1>10, <1>18, <1>23, Returned DEF c

(* A chunk p was taken from its bin and is carved; what is left of it       *)
(* becomes dv, or goes to a bin.                                            *)
LEMMA CarveBinned ==
  ASSUME gm \in MallocState, gm.status = "ok", Whole(gm, live),
         NEW bytes \in Nat, bytes < MAX_REQUEST, NEW nb, nb = ChunkFor(bytes),
         NEW p \in BinnedIn(gm), NEW s, s = gm.chunk[p].size, nb <= s,
         NEW h \in MallocState, SameButBins(h, gm), h.status = gm.status,
         BinsHold(h, gm.chunk, BinnedIn(gm) \ {p})
  PROVE  LET k == Carve(h, p, s, nb) IN
         /\ ~Splits(s, nb) => Outcome(k, bytes, p)
         /\ Splits(s, nb) /\ gm.dvsize < 256 => Outcome(replace_dv(k, p + nb, s - nb), bytes, p)
         /\ Splits(s, nb) => Outcome(insert_chunk(k, p + nb, s - nb), bytes, p)
<1> DEFINE c == gm.chunk
           B == BinnedIn(gm)
           k == Carve(h, p, s, nb)
           d == k.chunk
           f == First(gm)
           e == End(gm)
<1>1. nb \in Nat /\ nb >= 32 /\ nb % 16 = 0
  BY RequestSize
<1>2. /\ f \in Nat /\ e \in Nat /\ gm.top \in Nat
      /\ c \in ChunkMap /\ Layout(c, f, gm.top, e)
      /\ B \in SUBSET DOMAIN c /\ B = FreeIn(c) \ {gm.dv, gm.top}
      /\ gm.top \in FreeIn(c) /\ NULL \notin DOMAIN c /\ gm.topsize = c[gm.top].size
      /\ gm.dv = NULL => gm.dvsize = 0
      /\ gm.dv # NULL => gm.dv \in FreeIn(c) \ {gm.top} /\ gm.dvsize = c[gm.dv].size /\ gm.dvsize >= 32
      /\ gm.dvsize \in Nat /\ gm.least_addr > 0 /\ gm.dv \in Nat
  BY WholeFacts, StateFields DEF Whole
<1>3. h.chunk = c /\ h.dv = gm.dv /\ h.dvsize = gm.dvsize /\ h.top = gm.top
      /\ h.topsize = gm.topsize /\ h.least_addr = gm.least_addr
  BY DEF SameButBins
<1> HIDE DEF c, B, f, e
<1>4. p \in FreeIn(c) /\ p # gm.top /\ p # gm.dv /\ p \in DOMAIN c
  BY <1>2 DEF FreeIn, B
<1>5. /\ k \in MallocState /\ SameBins(k, h) /\ SameDvTop(k, h)
      /\ Given(c, d, p, nb, f, gm.top, e)
      /\ s - nb \in Nat
      /\ Splits(s, nb) =>
           /\ p + nb \in Nat /\ p + nb \notin DOMAIN c /\ s - nb >= 32
           /\ FreeIn(d) = (FreeIn(c) \ {p}) \cup {p + nb}
           /\ d[p + nb].size = s - nb
      /\ ~Splits(s, nb) => FreeIn(d) = FreeIn(c) \ {p}
  <2>1. s = c[p].size
    BY DEF c
  <2>2. Carved(k, h, c, p, s, nb, f, gm.top, e)
    <3> HIDE DEF d
    <3> QED BY <1>1, <1>2, <1>3, <1>4, <2>1, CarveIs
  <2> HIDE DEF k
  <2> QED BY <2>2 DEF Carved
<1> HIDE DEF k
<1>6. /\ k.dv = gm.dv /\ k.dvsize = gm.dvsize /\ k.top = gm.top /\ k.topsize = gm.topsize
      /\ k.least_addr = gm.least_addr /\ k.status = "ok"
  BY <1>3, <1>5 DEF SameBins, SameDvTop
<1>7. d \in ChunkMap /\ \A x \in DOMAIN c \ {p} : x \in DOMAIN d /\ d[x].size = c[x].size
  BY <1>5 DEF Given
<1>8. BinsHold(k, d, B \ {p}) /\ B \ {p} \in SUBSET DOMAIN d
  <2>1. \A x \in B \ {p} : x \in DOMAIN d /\ d[x].size = c[x].size
    BY <1>2, <1>7
  <2>2. BinsHold(h, c, B \ {p})
    BY DEF B, c
  <2> HIDE DEF d
  <2> QED BY <1>5, <2>1, <2>2, BinsKept
<1> DEFINE V == {gm.dv} \ {NULL}
<1>9. FreeIn(c) \ {gm.top} = B \cup V /\ p \notin V
  BY <1>2, <1>4 DEF FreeIn
<1>10. d = k.chunk
  OBVIOUS
<1> HIDE DEF d
<1>11. gm.top \in DOMAIN d /\ d[gm.top].size = c[gm.top].size /\ gm.top # p
  BY <1>2, <1>4, <1>7 DEF FreeIn
<1>12. gm.dv # NULL => gm.dv \in DOMAIN d /\ d[gm.dv].size = gm.dvsize /\ gm.dv \notin B \ {p}
  BY <1>2, <1>4, <1>7 DEF FreeIn
<1>13. ASSUME ~Splits(s, nb) PROVE Outcome(k, bytes, p)
  <2>1. FreeIn(d) = FreeIn(c) \ {p}
    BY <1>5, <1>10, <1>13
  <2>2. BinnedIn(k) = B \ {p}
    BY <1>2, <1>6, <1>10, <2>1 DEF BinnedIn
  <2>3. Cached(k)
    BY <1>2, <1>4, <1>6, <1>10, <1>11, <1>12, <2>1 DEF Cached
  <2> QED BY <1>5, <1>6, <1>8, <1>10, <2>2, <2>3 DEF Outcome, c, f, e
<1>14. ASSUME Splits(s, nb), gm.dvsize < 256
       PROVE  Outcome(replace_dv(k, p + nb, s - nb), bytes, p)
  <2> DEFINE g == replace_dv(k, p + nb, s - nb)
  <2>1. /\ p + nb \in Nat /\ p + nb \notin DOMAIN c
        /\ FreeIn(d) = (FreeIn(c) \ {p}) \cup {p + nb}
        /\ d[p + nb].size = s - nb
    BY <1>5, <1>10, <1>14
  <2>2. /\ g \in MallocState /\ g.status = k.status
        /\ g.dv = p + nb /\ g.dvsize = s - nb /\ g.top = k.top /\ g.topsize = k.topsize
        /\ g.least_addr = k.least_addr /\ g.chunk = d
        /\ BinsHold(g, d, (B \ {p}) \cup ({k.dv} \ {NULL}))
    <3>1. k.dvsize < 256
      BY <1>6, <1>14
    <3>2. k.dv = NULL => k.dvsize = 0
      BY <1>2, <1>6
    <3>3. k.dv # NULL => k.dv \in DOMAIN d \ (B \ {p}) /\ d[k.dv].size = k.dvsize /\ k.dvsize > 0
      BY <1>2, <1>6, <1>12
    <3>4. DvReplaced(g, k, d, B \ {p}, p + nb, s - nb)
      BY <1>5, <1>7, <1>8, <2>1, <3>1, <3>2, <3>3, ReplaceDv
    <3> HIDE DEF g
    <3> QED BY <1>10, <3>4 DEF DvReplaced
  <2> HIDE DEF g
  <2>3. BinnedIn(g) = (B \ {p}) \cup V
    <3>1. g.chunk = d /\ g.dv = p + nb /\ g.top = gm.top
      BY <1>6, <2>2
    <3> QED BY <1>2, <1>4, <1>9, <2>1, <3>1 DEF BinnedIn, FreeIn
  <2>4. Cached(g)
    <3>1. p + nb \in FreeIn(d) \ {gm.top} /\ p + nb # NULL
      <4>1. p \in Nat /\ p + nb # 0
        BY <1>1, <1>2, <1>4, ChunkMapFields
      <4> QED BY <1>2, <2>1, <4>1 DEF FreeIn, NULL
    <3> QED BY <1>2, <1>6, <1>11, <2>1, <2>2, <3>1 DEF Cached
  <2>5. Outcome(g, bytes, p)
    <3>1. BinsHold(g, d, BinnedIn(g))
      BY <1>6, <2>2, <2>3
    <3> QED BY <1>5, <1>6, <1>10, <2>2, <2>4, <3>1 DEF Outcome, c, f, e
  <2> QED BY <2>5 DEF g
<1>15. ASSUME Splits(s, nb) PROVE Outcome(insert_chunk(k, p + nb, s - nb), bytes, p)
  <2> DEFINE g == insert_chunk(k, p + nb, s - nb)
             r == p + nb
  <2>1. /\ r \in Nat /\ r \notin DOMAIN c
        /\ FreeIn(d) = (FreeIn(c) \ {p}) \cup {r}
        /\ d[r].size = s - nb
    BY <1>5, <1>10, <1>15
  <2> HIDE DEF r
  <2>2. /\ g \in MallocState /\ SameButBins(g, k)
        /\ \/ g.status = "corrupted"
           \/ g.status = k.status /\ BinsHold(g, d, (B \ {p}) \cup {r})
    <3>1. r \in DOMAIN d /\ r \notin B \ {p}
      BY <1>2, <2>1 DEF FreeIn
    <3>2. \A q \in B \ {p} : k.chunk[q].size = d[q].size
      BY <1>10
    <3>3. g = insert_chunk(k, r, d[r].size)
      BY <2>1 DEF r
    <3> HIDE DEF g
    <3>4. Inserted(insert_chunk(k, r, d[r].size), k, d, (B \ {p}) \cup {r})
      <4>1. k.least_addr > 0
        BY <1>2, <1>6
      <4> QED BY <1>5, <1>7, <1>8, <3>1, <3>2, <4>1, InsertChunk
    <3> QED BY <3>3, <3>4 DEF Inserted
  <2> HIDE DEF g
  <2>3. /\ g.chunk = d /\ g.dv = gm.dv /\ g.dvsize = gm.dvsize /\ g.top = gm.top
        /\ g.topsize = gm.topsize /\ g.least_addr = gm.least_addr
    BY <1>6, <1>10, <2>2 DEF SameButBins
  <2>4. BinnedIn(g) = (B \ {p}) \cup {r}
    <3>1. r # gm.top /\ (gm.dv # NULL => r # gm.dv)
      BY <1>2, <2>1 DEF FreeIn
    <3>2. r # NULL
      <4>1. p \in Nat /\ r # 0
        BY <1>1, <1>2, <1>4, ChunkMapFields DEF r
      <4> QED BY <4>1 DEF NULL
    <3> QED BY <1>2, <1>4, <2>1, <2>3, <3>1, <3>2 DEF BinnedIn
  <2>5. Cached(g)
    <3>1. gm.dv # NULL => gm.dv \in FreeIn(d) \ {gm.top}
      BY <1>2, <1>4, <2>1
    <3> QED BY <1>2, <1>11, <1>12, <2>3, <3>1 DEF Cached
  <2>6. Outcome(g, bytes, p)
    BY <1>5, <1>6, <1>10, <2>2, <2>3, <2>4, <2>5 DEF Outcome, c, f, e
  <2> QED BY <2>6 DEF g, r
<1> QED BY <1>13, <1>14, <1>15 DEF k

LEMMA AllocLargerBinStep ==
  ASSUME Typed, Sound, NEW bytes \in Requests, AllocLargerBin(bytes)
  PROVE  IInv' /\ (gm'.status = "ok" => Kept(gm.chunk, gm'.chunk))
<1> DEFINE nb == ChunkFor(bytes)
           X == LargerBins(nb)
           i == Min(X)
           s == small_index2size(i)
           p == Head(gm.smallbins[i])
           h == unlink_first_small_chunk(gm, i)
           k == Carve(h, p, s, nb)
           c == gm.chunk
           B == BinnedIn(gm)
<1>1. Calling(bytes) /\ UsesLargerBin(bytes)
  BY DEF AllocLargerBin
<1>2. /\ gm \in MallocState /\ gm.status = "ok" /\ Whole(gm, live)
      /\ bytes \in Nat /\ bytes < MAX_REQUEST
  BY <1>1, Serving
<1>3. nb \in Nat /\ nb >= 32 /\ nb < 256 /\ gm.dvsize < nb /\ gm.dvsize \in Nat
  <2>1. Small(bytes) /\ nb > gm.dvsize
    BY <1>1 DEF UsesLargerBin
  <2> QED BY <1>2, <2>1, RequestSize, StateFields
<1>4. Return(bytes, p, IF Splits(s, nb) THEN replace_dv(k, p + nb, s - nb) ELSE k)
  BY DEF AllocLargerBin
<1>5. X \in SUBSET Nat /\ X # {} /\ X \subseteq gm.smallmap /\ \A j \in X : j > small_index(nb)
  BY <1>1, <1>2, StateFields DEF UsesLargerBin, LargerBins, BinIndex
<1>6. i \in X
  BY <1>5, MinIsLeast
<1>7. i \in gm.smallmap /\ i \in Nat /\ i > small_index(nb)
  BY <1>5, <1>6
<1>8. /\ First(gm) \in Nat /\ End(gm) \in Nat /\ gm.top \in Nat
      /\ c \in ChunkMap /\ Layout(c, First(gm), gm.top, End(gm))
      /\ B \in SUBSET DOMAIN c /\ B = FreeIn(c) \ {gm.dv, gm.top} /\ BinsHold(gm, c, B)
  BY <1>2, WholeFacts, StateFields
<1> HIDE DEF i, nb, X
<1>9. /\ p \in B /\ InSmallBin(c, p, i)
      /\ h \in MallocState /\ SameButBins(h, gm) /\ h.status = gm.status
      /\ BinsHold(h, c, B \ {p})
  BY <1>2, <1>7, <1>8, UnlinkFirst
<1> HIDE DEF p, h
<1>10. p \in FreeIn(c) /\ p # gm.top /\ p \in DOMAIN c
  BY <1>8, <1>9 DEF FreeIn
<1>11. c[p].size \in Nat /\ c[p].size % 16 = 0
  BY <1>8, <1>10, LayoutFacts
<1>12. s = c[p].size /\ nb <= s
  <2>1. i = c[p].size \div 8
    BY <1>9 DEF InSmallBin, small_index
  <2>2. s = i * 8
    BY DEF small_index2size
  <2>3. i > nb \div 8
    BY <1>7 DEF small_index
  <2> HIDE DEF s
  <2> QED BY <1>3, <1>7, <1>11, <2>1, <2>2, <2>3
<1> HIDE DEF s
<1>13. /\ ~Splits(s, nb) => Outcome(k, bytes, p)
       /\ Splits(s, nb) => Outcome(replace_dv(k, p + nb, s - nb), bytes, p)
  <2>1. gm.dvsize < 256
    BY <1>3
  <2> QED BY <1>2, <1>9, <1>12, <2>1, CarveBinned DEF nb
<1>14. p \in FreeIn(gm.chunk)
  BY <1>10
<1> QED BY <1>2, <1>4, <1>13, <1>14, Returned

(* The root of a tree bin is a large chunk of that bin.                     *)
LEMMA TreeRoot ==
  ASSUME NEW h \in MallocState, NEW c \in ChunkMap, NEW B \in SUBSET DOMAIN c,
         BinsHold(h, c, B), NEW i \in h.treemap
  PROVE  LET v == Head(h.treebins[i]) IN
         /\ i \in BinIndex /\ v \in B /\ InTreeBin(c, v, i)
         /\ \A q \in B : InTreeBin(c, q, i) => c[q].size = c[v].size
<1> DEFINE s == h.treebins[i]
<1>1. i \in BinIndex /\ s # << >>
  BY StateFields DEF BinsHold
<1>2. s \in Seq(Nat) /\ TreeBinList(s, c, B, i)
  BY <1>1, StateFields, BinsHoldParts
<1> HIDE DEF s
<1>3. Head(s) \in ToSet(s)
  BY <1>1, <1>2, TailSeq DEF TreeBinList
<1>4. /\ Head(s) \in B /\ InTreeBin(c, Head(s), i)
      /\ \A q \in B : InTreeBin(c, q, i) => c[q].size = c[Head(s)].size
  BY <1>2, <1>3 DEF TreeBinList
<1> QED BY <1>1, <1>4 DEF s

LEMMA AllocSmallFromTreeStep ==
  ASSUME Typed, Sound, NEW bytes \in Requests, AllocSmallFromTree(bytes)
  PROVE  IInv' /\ (gm'.status = "ok" => Kept(gm.chunk, gm'.chunk))
<1> DEFINE nb == ChunkFor(bytes)
           i == Min(gm.treemap)
           v == Head(gm.treebins[i])
           s == gm.chunk[v].size
           h == unlink_large_chunk(gm, v, s)
           k == Carve(h, v, s, nb)
           c == gm.chunk
           B == BinnedIn(gm)
<1>1. Calling(bytes) /\ UsesSmallestTree(bytes)
  BY DEF AllocSmallFromTree
<1>2. /\ gm \in MallocState /\ gm.status = "ok" /\ Whole(gm, live)
      /\ bytes \in Nat /\ bytes < MAX_REQUEST
  BY <1>1, Serving
<1>3. nb \in Nat /\ nb < 256 /\ gm.dvsize < nb /\ gm.dvsize \in Nat
  <2>1. Small(bytes) /\ nb > gm.dvsize
    BY <1>1 DEF UsesSmallestTree
  <2> QED BY <1>2, <2>1, RequestSize, StateFields
<1>4. Return(bytes, v, IF Splits(s, nb) THEN replace_dv(k, v + nb, s - nb) ELSE k)
  BY DEF AllocSmallFromTree
<1>5. i \in gm.treemap
  <2>1. gm.treemap \in SUBSET Nat /\ gm.treemap # {}
    BY <1>1, <1>2, StateFields DEF UsesSmallestTree, BinIndex
  <2> QED BY <2>1, MinIsLeast
<1>6. c \in ChunkMap /\ B \in SUBSET DOMAIN c /\ B = FreeIn(c) \ {gm.dv, gm.top} /\ BinsHold(gm, c, B)
  BY <1>2, WholeFacts
<1> HIDE DEF i, nb
<1>7. v \in B /\ ~is_small(c[v].size)
  BY <1>2, <1>5, <1>6, TreeRoot DEF InTreeBin
<1> HIDE DEF v
<1>8. nb <= s
  <2>1. c[v].size \in Nat
    BY <1>6, <1>7, ChunkMapFields
  <2> QED BY <1>3, <1>7, <2>1 DEF is_small, MIN_LARGE_SIZE
<1>9. /\ h \in MallocState /\ SameButBins(h, gm) /\ h.status = gm.status
      /\ BinsHold(h, c, B \ {v})
  BY <1>2, <1>6, <1>7, UnlinkLarge
<1> HIDE DEF h
<1>10. /\ ~Splits(s, nb) => Outcome(k, bytes, v)
       /\ Splits(s, nb) => Outcome(replace_dv(k, v + nb, s - nb), bytes, v)
  <2>1. gm.dvsize < 256
    BY <1>3
  <2> HIDE DEF s
  <2>2. s = gm.chunk[v].size
    BY DEF s
  <2> QED BY <1>2, <1>7, <1>8, <1>9, <2>1, <2>2, CarveBinned DEF nb
<1>11. v \in FreeIn(gm.chunk)
  BY <1>6, <1>7
<1> HIDE DEF s, k
<1> QED BY <1>2, <1>4, <1>10, <1>11, Returned

(* The root of a tree bin is a chunk of that bin, and it fits just when it  *)
(* is large enough.                                                         *)
LEMMA RootIs ==
  ASSUME gm \in MallocState, Whole(gm, live), NEW nb \in 256 .. SizeModulus - 1,
         NEW i \in gm.treemap
  PROVE  LET c == gm.chunk
             v == Head(gm.treebins[i])
         IN /\ v \in BinnedIn(gm) /\ InTreeBin(c, v, i)
            /\ c[v].size \in Nat /\ c[v].size >= 256
            /\ RootFits(i, nb) <=> nb <= c[v].size
            /\ \A q \in BinnedIn(gm) : InTreeBin(c, q, i) => c[q].size = c[v].size
<1> DEFINE c == gm.chunk
           B == BinnedIn(gm)
           v == Head(gm.treebins[i])
           s == c[v].size
<1>1. /\ c \in ChunkMap /\ B \in SUBSET DOMAIN c /\ BinsHold(gm, c, B)
      /\ \A x \in DOMAIN c : c[x].size \in 1 .. SizeModulus - 9
  BY WholeFacts
<1>2. RootFits(i, nb) <=> Wrap(s - nb) < Wrap(-nb)
  BY DEF RootFits
<1> HIDE DEF c, B
<1>3. /\ v \in B /\ InTreeBin(c, v, i)
      /\ \A q \in B : InTreeBin(c, q, i) => c[q].size = s
  BY <1>1, TreeRoot
<1>4. s \in 1 .. SizeModulus - 9
  BY <1>1, <1>3
<1>5. s \in Nat /\ s >= 256 /\ s < SizeModulus
  BY <1>3, <1>4, SizeModulusAssumption DEF InTreeBin, is_small, MIN_LARGE_SIZE
<1> HIDE DEF s
<1>6. Wrap(s - nb) < Wrap(-nb) <=> nb <= s
  <2>0. nb \in Nat /\ nb >= 256 /\ nb < SizeModulus
    BY SizeModulusAssumption
  <2>1. Wrap(s - nb) = IF nb <= s THEN s - nb ELSE SizeModulus + s - nb
    <3>1. s \in 0 .. SizeModulus - 1 /\ nb \in 1 .. SizeModulus - 1
      BY <2>0, <1>5, SizeModulusAssumption
    <3> QED BY <3>1, WrapRemainder
  <2>2. Wrap(-nb) = SizeModulus - nb
    <3>1. -nb \in Int /\ -nb < 0 /\ -SizeModulus <= -nb /\ SizeModulus + (-nb) = SizeModulus - nb
      BY <2>0, SizeModulusAssumption
    <3> QED BY <3>1, WrapBelow
  <2> QED BY <2>0, <1>5, <2>1, <2>2, SizeModulusAssumption
<1> QED BY <1>2, <1>3, <1>5, <1>6 DEF s, c, B

(* What tmalloc_large finds is a chunk of a tree bin that is large enough.  *)
LEMMA LargeFitIs ==
  ASSUME gm \in MallocState, Whole(gm, live), NEW nb \in 256 .. SizeModulus - 1,
         LargeFit(nb) # NULL
  PROVE  LET v == LargeFit(nb)
             c == gm.chunk
         IN v \in BinnedIn(gm) /\ ~is_small(c[v].size) /\ nb <= c[v].size
<1> DEFINE bins == IF OwnBin(nb) # {} THEN OwnBin(nb) ELSE NextBin(nb)
           i == Min(bins)
<1>1. bins # {} /\ LargeFit(nb) = Head(gm.treebins[i])
  BY DEF LargeFit, RootIn
<1>2. /\ \A j \in bins : RootFits(j, nb)
      /\ bins \in SUBSET gm.treemap /\ gm.treemap \in SUBSET Nat
  <2>1. gm.treemap \in SUBSET BinIndex /\ BinIndex \subseteq Nat
    BY StateFields DEF BinIndex
  <2> QED BY <2>1 DEF OwnBin, NextBin
<1>3. i \in bins
  <2>1. bins \in SUBSET Nat
    BY <1>2
  <2> HIDE DEF bins
  <2> QED BY <1>1, <2>1, MinIsLeast
<1>4. i \in gm.treemap /\ RootFits(i, nb)
  BY <1>2, <1>3
<1> HIDE DEF i
<1> QED BY <1>1, <1>4, RootIs DEF InTreeBin

(* A chunk's tree bin is marked.                                            *)
LEMMA MarkedBin ==
  ASSUME gm \in MallocState, Whole(gm, live),
         NEW q \in BinnedIn(gm), ~is_small(gm.chunk[q].size)
  PROVE  LET S == gm.chunk[q].size
             J == compute_tree_index(S)
         IN /\ S \in Nat /\ S >= 256 /\ S < IncreasingSize
            /\ J \in gm.treemap /\ J \in Nat /\ InTreeBin(gm.chunk, q, J)
<1> DEFINE c == gm.chunk
           B == BinnedIn(gm)
           S == c[q].size
           J == compute_tree_index(S)
<1>1. /\ c \in ChunkMap /\ B \in SUBSET DOMAIN c /\ BinsHold(gm, c, B)
      /\ \A x \in DOMAIN c : c[x].size \in 1 .. SizeModulus - 9 /\ c[x].size < IncreasingSize
  BY WholeFacts
<1>2. S \in Nat /\ S >= 256 /\ S < IncreasingSize
  BY <1>1, SizeModulusAssumption DEF is_small, MIN_LARGE_SIZE
<1>3. J \in BinIndex /\ J \in Nat
  <2>1. J \in BinIndex
    BY <1>2, TreeIndexIn
  <2> QED BY <2>1 DEF BinIndex
<1>4. InTreeBin(c, q, J)
  BY DEF InTreeBin
<1> HIDE DEF c, B, J
<1>5. TreeBinList(gm.treebins[J], c, B, J)
  BY <1>1, <1>3, BinsHoldParts
<1>6. gm.treebins[J] # << >>
  <2>1. q \in ToSet(gm.treebins[J])
    BY <1>4, <1>5 DEF TreeBinList, B
  <2>2. gm.treebins[J] \in Seq(Nat)
    BY <1>3, StateFields
  <2> QED BY <2>1, <2>2, InSeq
<1>7. J \in gm.treemap
  BY <1>1, <1>3, <1>6 DEF BinsHold
<1> QED BY <1>2, <1>3, <1>4, <1>7 DEF c, J

(* Sizes up to that of the segment that no unsigned int can index have no   *)
(* order among the tree bins (uni_allocator.h:441).                         *)
SegmentIndexed == Indexed(IncreasingSize)

LEMMA SegmentOrder ==
  ASSUME SegmentIndexed, NEW S \in Nat, NEW T \in Nat, S >= 256, T < IncreasingSize
  PROVE  S <= T => compute_tree_index(S) <= compute_tree_index(T)
<1> SUFFICES ASSUME S <= T PROVE compute_tree_index(S) <= compute_tree_index(T)
  OBVIOUS
<1>1. IncreasingSize \in Nat
  BY UniConstants
<1>2. Indexed(T)
  BY <1>1, IndexedBelow DEF SegmentIndexed
<1> QED BY <1>2, TreeIndexOrder

(* tmalloc_large finds the smallest chunk of the tree bins that is large    *)
(* enough, if there is one.                                                 *)
LEMMA LargeFitBest ==
  ASSUME SegmentIndexed, gm \in MallocState, Whole(gm, live),
         NEW nb \in 256 .. SizeModulus - 1,
         NEW q \in BinnedIn(gm), nb <= gm.chunk[q].size
  PROVE  LargeFit(nb) # NULL /\ gm.chunk[LargeFit(nb)].size <= gm.chunk[q].size
<1> DEFINE c == gm.chunk
           S == c[q].size
           J == compute_tree_index(S)
           idx == compute_tree_index(nb)
           root(i) == Head(gm.treebins[i])
<1>0. nb \in Nat /\ nb >= 256
  BY SizeModulusAssumption
<1>1. S \in Nat /\ NULL \notin BinnedIn(gm)
  <2>1. /\ \A x \in DOMAIN c : c[x].size \in 1 .. SizeModulus - 9
        /\ BinnedIn(gm) \in SUBSET DOMAIN c /\ NULL \notin DOMAIN c
    BY WholeFacts
  <2>2. S \in 1 .. SizeModulus - 9
    BY <2>1
  <2> QED BY <2>1, <2>2
<1>2. ~is_small(S)
  BY <1>0, <1>1 DEF is_small, MIN_LARGE_SIZE
<1>3. S >= 256 /\ S < IncreasingSize /\ J \in gm.treemap /\ J \in Nat /\ InTreeBin(c, q, J)
  BY <1>2, MarkedBin
<1>4. gm.treemap \in SUBSET Nat /\ idx \in Nat
  <2>1. gm.treemap \in SUBSET BinIndex /\ idx \in BinIndex /\ BinIndex \subseteq Nat
    BY <1>0, StateFields, TreeIndexIn DEF BinIndex
  <2> QED BY <2>1
<1>5. ASSUME NEW i \in gm.treemap
      PROVE  /\ root(i) \in BinnedIn(gm) /\ root(i) # NULL
             /\ c[root(i)].size \in Nat /\ c[root(i)].size >= 256
             /\ c[root(i)].size < IncreasingSize
             /\ compute_tree_index(c[root(i)].size) = i
             /\ RootFits(i, nb) <=> nb <= c[root(i)].size
             /\ i = J => c[root(i)].size = S
  <2>1. /\ root(i) \in BinnedIn(gm) /\ InTreeBin(c, root(i), i)
        /\ c[root(i)].size \in Nat /\ c[root(i)].size >= 256
        /\ RootFits(i, nb) <=> nb <= c[root(i)].size
        /\ InTreeBin(c, q, i) => S = c[root(i)].size
    BY RootIs
  <2>2. c[root(i)].size < IncreasingSize
    BY <2>1, MarkedBin DEF InTreeBin
  <2> QED BY <1>1, <1>3, <2>1, <2>2 DEF InTreeBin
<1>6. idx <= J
  BY <1>0, <1>1, <1>3, SegmentOrder
<1> HIDE DEF c, S, J, idx, root
<1>7. CASE idx \in gm.treemap /\ RootFits(idx, nb)
  <2>1. OwnBin(nb) = {idx}
    BY <1>7 DEF OwnBin, idx
  <2>2. LargeFit(nb) = root(idx)
    <3>1. Min({idx}) = idx
      BY <1>4, MinIsLeast
    <3> QED BY <2>1, <3>1 DEF LargeFit, RootIn, root
  <2>3. c[root(idx)].size <= S
    <3>1. CASE idx = J
      BY <1>1, <1>5, <1>7, <3>1
    <3>2. CASE idx # J
      <4>1. ~(J <= idx)
        BY <1>3, <1>4, <1>6, <3>2
      <4>2. S <= c[root(idx)].size => J <= compute_tree_index(c[root(idx)].size)
        BY <1>1, <1>3, <1>5, <1>7, SegmentOrder DEF J
      <4> QED BY <1>1, <1>5, <1>7, <4>1, <4>2
    <3> QED BY <3>1, <3>2
  <2> QED BY <1>5, <1>7, <2>2, <2>3 DEF c, S
<1>8. CASE ~(idx \in gm.treemap /\ RootFits(idx, nb))
  <2> DEFINE right == {i \in gm.treemap : i > idx}
             i == Min(right)
  <2>1. OwnBin(nb) = {}
    BY <1>8 DEF OwnBin, idx
  <2>2. J \in right
    <3>1. J # idx
      BY <1>3, <1>5, <1>8 DEF S, c
    <3> QED BY <1>3, <1>4, <1>6, <3>1
  <2>3. i \in right /\ \A j \in right : i <= j
    <3>1. right \in SUBSET Nat
      BY <1>4
    <3> HIDE DEF right
    <3> QED BY <2>2, <3>1, MinIsLeast
  <2> HIDE DEF i
  <2>4. i \in gm.treemap /\ i \in Nat /\ i > idx /\ i <= J
    BY <1>4, <2>2, <2>3
  <2>5. RootFits(i, nb)
    <3>1. c[root(i)].size <= nb => i <= idx
      <4>1. nb < IncreasingSize
        BY <1>0, <1>1, <1>3, UniConstants DEF S, c
      <4>2. c[root(i)].size <= nb => compute_tree_index(c[root(i)].size) <= idx
        BY <1>0, <1>5, <2>4, <4>1, SegmentOrder DEF idx
      <4> QED BY <1>5, <2>4, <4>2
    <3> QED BY <1>0, <1>4, <1>5, <2>4, <3>1
  <2>6. NextBin(nb) = {i}
    <3>1. \A k \in right : (\A j \in right : k <= j) => k = i
      BY <1>4, <2>3, <2>4
    <3>2. NextBin(nb) = {k \in right : RootFits(k, nb) /\ \A j \in right : k <= j}
      BY DEF NextBin, idx
    <3> HIDE DEF right
    <3> QED BY <2>3, <2>5, <3>1, <3>2
  <2>7. LargeFit(nb) = root(i)
    <3>1. Min({i}) = i
      BY <2>4, MinIsLeast
    <3> QED BY <2>1, <2>6, <3>1 DEF LargeFit, RootIn, root
  <2>8. c[root(i)].size <= S
    <3>1. CASE i = J
      BY <1>1, <1>5, <2>4, <3>1
    <3>2. CASE i # J
      <4>1. ~(J <= i)
        BY <1>3, <2>4, <3>2
      <4>2. S <= c[root(i)].size => J <= compute_tree_index(c[root(i)].size)
        BY <1>1, <1>3, <1>5, <2>4, SegmentOrder DEF J
      <4> QED BY <1>1, <1>5, <2>4, <4>1, <4>2
    <3> QED BY <3>1, <3>2
  <2> QED BY <1>5, <2>4, <2>7, <2>8 DEF c, S
<1> QED BY <1>7, <1>8

LEMMA AllocLargeFromTreeStep ==
  ASSUME Typed, Sound, NEW bytes \in Requests, AllocLargeFromTree(bytes)
  PROVE  IInv' /\ (gm'.status = "ok" => Kept(gm.chunk, gm'.chunk))
<1> DEFINE nb == ChunkFor(bytes)
           v == LargeFit(nb)
           s == gm.chunk[v].size
           h == unlink_large_chunk(gm, v, s)
           k == Carve(h, v, s, nb)
           c == gm.chunk
           B == BinnedIn(gm)
<1>1. Calling(bytes) /\ UsesTree(bytes)
  BY DEF AllocLargeFromTree
<1>2. /\ gm \in MallocState /\ gm.status = "ok" /\ Whole(gm, live)
      /\ bytes \in Nat /\ bytes < MAX_REQUEST
  BY <1>1, Serving
<1>3. nb \in 256 .. SizeModulus - 1 /\ v # NULL
  <2>1. ~Small(bytes) /\ v # NULL
    BY <1>1 DEF UsesTree
  <2>2. nb \in Nat /\ nb >= 256 /\ nb < SizeModulus
    BY <1>2, <2>1, RequestSize
  <2> QED BY <2>1, <2>2, SizeModulusAssumption
<1>4. Return(bytes, v, IF Splits(s, nb) THEN insert_chunk(k, v + nb, s - nb) ELSE k)
  BY DEF AllocLargeFromTree
<1>5. c \in ChunkMap /\ B \in SUBSET DOMAIN c /\ B = FreeIn(c) \ {gm.dv, gm.top} /\ BinsHold(gm, c, B)
  BY <1>2, WholeFacts
<1> HIDE DEF nb
<1>6. v \in B /\ ~is_small(c[v].size) /\ nb <= c[v].size
  BY <1>2, <1>3, LargeFitIs
<1> HIDE DEF v
<1>7. /\ h \in MallocState /\ SameButBins(h, gm) /\ h.status = gm.status
      /\ BinsHold(h, c, B \ {v})
  BY <1>2, <1>5, <1>6, UnlinkLarge
<1> HIDE DEF h
<1>8. /\ ~Splits(s, nb) => Outcome(k, bytes, v)
      /\ Splits(s, nb) => Outcome(insert_chunk(k, v + nb, s - nb), bytes, v)
  <2>1. s = gm.chunk[v].size /\ nb <= s
    BY <1>6
  <2> HIDE DEF s
  <2> QED BY <1>2, <1>6, <1>7, <2>1, CarveBinned DEF nb
<1>9. v \in FreeIn(gm.chunk)
  BY <1>5, <1>6
<1> HIDE DEF s, k
<1> QED BY <1>2, <1>4, <1>8, <1>9, Returned

LEMMA AllocFromDvStep ==
  ASSUME Typed, Sound, NEW bytes \in Requests, AllocFromDv(bytes)
  PROVE  IInv' /\ (gm'.status = "ok" => Kept(gm.chunk, gm'.chunk))
<1> DEFINE nb == ChunkFor(bytes)
           p == gm.dv
           s == gm.dvsize
           k == Carve(gm, p, s, nb)
           c == gm.chunk
           d == k.chunk
           B == BinnedIn(gm)
           f == First(gm)
           e == End(gm)
           g1 == [k EXCEPT !.dv = p + nb, !.dvsize = s - nb]
           g2 == DropDv(k)
<1>1. Calling(bytes) /\ nb <= gm.dvsize
  BY DEF AllocFromDv
<1>2. /\ gm \in MallocState /\ gm.status = "ok" /\ Whole(gm, live)
      /\ bytes \in Nat /\ bytes < MAX_REQUEST
  BY <1>1, Serving
<1>3. nb \in Nat /\ nb >= 32 /\ nb % 16 = 0
  BY <1>2, RequestSize
<1>4. Return(bytes, p, IF Splits(s, nb) THEN g1 ELSE g2)
  BY DEF AllocFromDv
<1>5. /\ f \in Nat /\ e \in Nat /\ gm.top \in Nat /\ p \in Nat /\ s \in Nat
      /\ c \in ChunkMap /\ Layout(c, f, gm.top, e)
      /\ B \in SUBSET DOMAIN c /\ B = FreeIn(c) \ {gm.dv, gm.top} /\ BinsHold(gm, c, B)
      /\ gm.top \in FreeIn(c) /\ NULL \notin DOMAIN c /\ gm.topsize = c[gm.top].size
      /\ gm.dv = NULL => gm.dvsize = 0
      /\ gm.dv # NULL => gm.dv \in FreeIn(c) \ {gm.top} /\ gm.dvsize = c[gm.dv].size
  BY <1>2, WholeFacts, StateFields
<1>6. p \in FreeIn(c) /\ p # gm.top /\ s = c[p].size /\ p \in DOMAIN c /\ p # NULL
  BY <1>1, <1>3, <1>5 DEF FreeIn
<1> HIDE DEF nb, B, c, f, e
<1>7. Carved(k, gm, c, p, s, nb, f, gm.top, e)
  <2>1. c = gm.chunk
    BY DEF c
  <2> QED BY <1>1, <1>2, <1>3, <1>5, <1>6, <2>1, CarveIs
<1> HIDE DEF k
<1>8. /\ k \in MallocState /\ SameBins(k, gm) /\ SameDvTop(k, gm)
      /\ Given(c, d, p, nb, f, gm.top, e)
      /\ s - nb \in Nat
      /\ Splits(s, nb) =>
           /\ p + nb \in Nat /\ p + nb \notin DOMAIN c /\ s - nb >= 32
           /\ FreeIn(d) = (FreeIn(c) \ {p}) \cup {p + nb}
           /\ d[p + nb].size = s - nb
      /\ ~Splits(s, nb) => FreeIn(d) = FreeIn(c) \ {p}
  BY <1>7 DEF Carved
<1>9. /\ k.top = gm.top /\ k.topsize = gm.topsize /\ k.least_addr = gm.least_addr /\ k.status = "ok"
  BY <1>2, <1>8 DEF SameBins, SameDvTop
<1>10. /\ d \in ChunkMap /\ \A x \in DOMAIN c \ {p} : x \in DOMAIN d /\ d[x].size = c[x].size
  BY <1>8 DEF Given
<1>11. ASSUME NEW g, SameBins(g, k) PROVE BinsHold(g, d, B)
  <2>1. \A x \in B : d[x].size = c[x].size
    BY <1>5, <1>10
  <2>2. SameBins(g, gm)
    BY <1>8, <1>11 DEF SameBins
  <2> HIDE DEF d
  <2> QED BY <1>5, <2>1, <2>2, BinsKept
<1>12. gm.top \in DOMAIN d /\ d[gm.top].size = gm.topsize
  BY <1>5, <1>6, <1>10 DEF FreeIn
<1>13. d = k.chunk
  OBVIOUS
<1> HIDE DEF d, p, s
<1>14. ASSUME Splits(s, nb) PROVE Outcome(g1, bytes, p)
  <2>1. /\ p + nb \in Nat /\ p + nb \notin DOMAIN c /\ s - nb \in Nat
        /\ FreeIn(d) = (FreeIn(c) \ {p}) \cup {p + nb}
        /\ d[p + nb].size = s - nb
    BY <1>8, <1>14
  <2>2. /\ g1 \in MallocState /\ SameBins(g1, k) /\ g1.chunk = d
        /\ g1.dv = p + nb /\ g1.dvsize = s - nb /\ g1.top = gm.top /\ g1.topsize = gm.topsize
    BY <1>8, <1>9, <1>13, <2>1 DEF MallocState, SameBins
  <2> HIDE DEF g1
  <2>3. p + nb # NULL
    <3>1. p \in Nat /\ p + nb # 0
      BY <1>3, <1>5
    <3> QED BY <3>1 DEF NULL
  <2>4. Cached(g1)
    <3>1. p + nb \in FreeIn(d) \ {gm.top}
      BY <1>5, <2>1 DEF FreeIn
    <3> QED BY <1>12, <2>1, <2>2, <2>3, <3>1 DEF Cached
  <2>5. BinnedIn(g1) = B
    <3>1. p = gm.dv
      BY DEF p
    <3> QED BY <1>5, <2>1, <2>2, <3>1 DEF BinnedIn, FreeIn
  <2>6. BinsHold(g1, d, B)
    BY <1>11, <2>2
  <2>7. g1.status = "ok" /\ g1.least_addr = gm.least_addr
    BY <1>9, <2>2 DEF SameBins
  <2> QED BY <1>8, <2>2, <2>4, <2>5, <2>6, <2>7 DEF Outcome, c, f, e, nb
<1>15. ASSUME ~Splits(s, nb) PROVE Outcome(g2, bytes, p)
  <2>1. FreeIn(d) = FreeIn(c) \ {p}
    BY <1>8, <1>15
  <2>2. /\ g2 \in MallocState /\ SameBins(g2, k) /\ g2.chunk = d
        /\ g2.dv = NULL /\ g2.dvsize = 0 /\ g2.top = gm.top /\ g2.topsize = gm.topsize
    BY <1>8, <1>9, <1>13 DEF MallocState, SameBins, DropDv, NULL
  <2> HIDE DEF g2
  <2>3. Cached(g2)
    BY <1>12, <2>2 DEF Cached
  <2>4. BinnedIn(g2) = B
    <3>1. p = gm.dv
      BY DEF p
    <3> QED BY <1>5, <2>1, <2>2, <3>1 DEF BinnedIn, FreeIn
  <2>5. BinsHold(g2, d, B)
    BY <1>11, <2>2
  <2>6. g2.status = "ok" /\ g2.least_addr = gm.least_addr
    BY <1>9, <2>2 DEF SameBins
  <2> QED BY <1>8, <2>2, <2>3, <2>4, <2>5, <2>6 DEF Outcome, c, f, e, nb
<1>16. p \in FreeIn(gm.chunk)
  BY <1>6 DEF c
<1> HIDE DEF g1, g2
<1> QED BY <1>2, <1>4, <1>14, <1>15, <1>16, Returned

LEMMA AllocFromTopStep ==
  ASSUME Typed, Sound, NEW bytes \in Requests, AllocFromTop(bytes)
  PROVE  IInv' /\ (gm'.status = "ok" => Kept(gm.chunk, gm'.chunk))
<1> DEFINE nb == ChunkFor(bytes)
           p == gm.top
           r == gm.topsize - nb
           c == gm.chunk
           d == TopCut(c, p, nb, r)
           B == BinnedIn(gm)
           f == First(gm)
           e == End(gm)
           g == [gm EXCEPT !.top = p + nb, !.topsize = r, !.chunk = d]
<1>1. Calling(bytes) /\ FitsTop(nb)
  BY DEF AllocFromTop
<1>2. /\ gm \in MallocState /\ gm.status = "ok" /\ Whole(gm, live)
      /\ bytes \in Nat /\ bytes < MAX_REQUEST
  BY <1>1, Serving
<1>3. nb \in Nat /\ nb >= 32 /\ nb % 16 = 0 /\ nb < gm.topsize
  BY <1>1, <1>2, RequestSize DEF FitsTop
<1>4. Return(bytes, p, g)
  BY DEF AllocFromTop, TopCut
<1>5. /\ f \in Nat /\ e \in Nat /\ p \in Nat /\ gm.topsize \in Nat
      /\ c \in ChunkMap /\ Layout(c, f, p, e)
      /\ B \in SUBSET DOMAIN c /\ B = FreeIn(c) \ {gm.dv, p} /\ BinsHold(gm, c, B)
      /\ p \in FreeIn(c) /\ NULL \notin DOMAIN c /\ gm.topsize = c[p].size
      /\ gm.dv = NULL => gm.dvsize = 0
      /\ gm.dv # NULL => gm.dv \in FreeIn(c) \ {p} /\ gm.dvsize = c[gm.dv].size
  BY <1>2, WholeFacts, StateFields
<1> HIDE DEF nb, B, f, e
<1>6. p \in DOMAIN c /\ nb > 0 /\ nb < c[p].size /\ r = c[p].size - nb /\ r \in Nat
      /\ p + nb \in Nat /\ p + nb # NULL
  BY <1>3, <1>5 DEF FreeIn, NULL
<1>7. p + nb \notin DOMAIN c
  <2>1. \A x \in DOMAIN c : x <= p
    BY <1>5, LayoutFacts
  <2> QED BY <1>3, <1>5, <2>1
<1> HIDE DEF c
<1>8. SplitOff(c, d, p, nb, p)
  <2> HIDE DEF p, r
  <2> QED BY <1>3, <1>5, <1>6, <1>7, TopSplits
<1> HIDE DEF d
<1>9. /\ Layout(d, f, p + nb, e)
      /\ UsedIn(d) = UsedIn(c) \cup {p}
      /\ FreeIn(d) = (FreeIn(c) \ {p}) \cup {p + nb}
      /\ \A x \in DOMAIN c \ {p} : d[x].size = c[x].size
  <2> DEFINE t == IF p = p THEN p + nb ELSE p
  <2>1. p = p => c[p].size - nb >= 32 \/ TRUE
    OBVIOUS
  <2>2. /\ Layout(d, f, t, e)
        /\ UsedIn(d) = UsedIn(c) \cup {p}
        /\ FreeIn(d) = (FreeIn(c) \ {p}) \cup {p + nb}
        /\ \A x \in DOMAIN c \ {p} : d[x].size = c[x].size
    BY <1>3, <1>5, <1>6, <1>8, SplitLayout
  <2> QED BY <2>2
<1>10. /\ d \in ChunkMap /\ DOMAIN d = DOMAIN c \cup {p + nb}
       /\ d[p].size = nb /\ d[p + nb].size = r
  BY <1>6, <1>8 DEF SplitOff
<1>11. Given(c, d, p, nb, f, p + nb, e)
  BY <1>3, <1>9, <1>10 DEF Given
<1>12. /\ g \in MallocState /\ SameBins(g, gm) /\ g.chunk = d
       /\ g.dv = gm.dv /\ g.dvsize = gm.dvsize /\ g.top = p + nb /\ g.topsize = r
  BY <1>2, <1>6, <1>10 DEF MallocState, SameBins
<1> HIDE DEF g, r
<1>13. Cached(g)
  <2>1. gm.dv # NULL => /\ gm.dv \in FreeIn(d) \ {p + nb}
                        /\ d[gm.dv].size = gm.dvsize
    BY <1>5, <1>7, <1>9 DEF FreeIn
  <2> QED BY <1>5, <1>10, <1>12, <2>1 DEF Cached
<1>14. BinnedIn(g) = B
  <2>1. p + nb \notin FreeIn(c)
    BY <1>7 DEF FreeIn
  <2> QED BY <1>5, <1>9, <1>12, <2>1 DEF BinnedIn
<1>15. BinsHold(g, d, B)
  <2>1. \A x \in B : d[x].size = c[x].size
    BY <1>5, <1>9
  <2> QED BY <1>5, <1>12, <2>1, BinsKept
<1>16. g.status = "ok" /\ g.least_addr = gm.least_addr
  BY <1>2, <1>12 DEF SameBins
<1>17. Outcome(g, bytes, p)
  BY <1>11, <1>12, <1>13, <1>14, <1>15, <1>16 DEF Outcome, c, f, e, nb
<1>18. p \in FreeIn(gm.chunk)
  BY <1>5 DEF c
<1> QED BY <1>2, <1>4, <1>17, <1>18, Returned

(* The first segment: one free chunk, top, with nothing in the bins.        *)
LEMMA InitTopWhole ==
  ASSUME NEW h \in MallocState, Fresh(h, {}), NEW base \in Nat, base > 0
  PROVE  LET g == init_top([h EXCEPT !.least_addr = base], base) IN
         g \in MallocState /\ g.status = h.status /\ Whole(g, {})
<1> DEFINE off == align_offset(chunk2mem(base))
           p == base + off
           s == (IncreasingSize - TOP_FOOT_SIZE) - off
           d == PutHead(h.chunk, p, s, FALSE)
           g == init_top([h EXCEPT !.least_addr = base], base)
<1>1. off \in 0 .. 15 /\ p \in Nat /\ p % 16 = 0
  <2>1. chunk2mem(base) \in Nat /\ chunk2mem(base) = base + 32
    BY DEF chunk2mem, TWO_SIZE_T_SIZES
  <2>2. off \in 0 .. 15 /\ (base + 32 + off) % 16 = 0
    BY <2>1, AlignOffset
  <2> HIDE DEF off
  <2> QED BY <2>2
<1>2. s \in Nat /\ s >= 32 /\ s = (IncreasingSize - 8) - off
  <2>1. IncreasingSize \in Nat /\ IncreasingSize >= 64
    BY UniConstants, SizeModulusAssumption
  <2> HIDE DEF off
  <2> QED BY <1>1, <2>1 DEF TOP_FOOT_SIZE, SIZE_T_SIZE
<1>3. First([h EXCEPT !.least_addr = base]) = p /\ g.chunk = d
  BY DEF First, init_top, MallocState
<1> HIDE DEF off
<1>4. g \in MallocState /\ d \in ChunkMap /\ HeadPut(h.chunk, d, p, s, FALSE)
  <2>1. h.chunk \in ChunkMap
    BY StateFields
  <2>2. HeadPut(h.chunk, d, p, s, FALSE)
    BY <1>1, <1>2, <2>1, PutHeadIs
  <2>3. d \in ChunkMap
    BY <2>2 DEF HeadPut
  <2>4. g = [h EXCEPT !.least_addr = base, !.top = p, !.topsize = s, !.chunk = d]
    BY DEF init_top, MallocState, off
  <2> HIDE DEF d, p, s, g
  <2>5. g \in MallocState
    BY <1>1, <1>2, <2>3, <2>4 DEF MallocState
  <2> QED BY <2>2, <2>3, <2>5
<1>5. /\ g.least_addr = base /\ g.top = p /\ g.topsize = s /\ g.chunk = d
      /\ g.dv = NULL /\ g.dvsize = 0 /\ g.status = h.status
      /\ g.smallmap = {} /\ g.treemap = {}
      /\ g.smallbins = h.smallbins /\ g.treebins = h.treebins
  BY DEF init_top, MallocState, Fresh, off
<1>6. First(g) = p /\ End(g) = p + s
  <2>1. First(g) = p
    BY <1>5 DEF First, off
  <2>2. End(g) = base + (IncreasingSize - 8)
    BY <1>5 DEF End, TOP_FOOT_SIZE, SIZE_T_SIZE
  <2>3. IncreasingSize \in Nat
    BY UniConstants, SizeModulusAssumption
  <2> QED BY <1>1, <1>2, <2>1, <2>2, <2>3
<1> HIDE DEF g, d, s
<1>7. DOMAIN d = {p} /\ d[p].size = s /\ d[p].pinuse = TRUE /\ d[p].cinuse = FALSE
  BY <1>4 DEF HeadPut, Fresh
<1> HIDE DEF p
<1>8. Layout(d, p, p, p + s)
  BY <1>1, <1>2, <1>7 DEF Layout, Tiled, Tagged, Coalesced, NextIn, FreeIn
<1>9. FreeIn(d) = {p} /\ UsedIn(d) = {}
  BY <1>7 DEF FreeIn, UsedIn
<1>10. Cached(g)
  BY <1>5, <1>7 DEF Cached
<1>11. BinnedIn(g) = {}
  BY <1>5, <1>9 DEF BinnedIn
<1>12. BinsHold(g, d, {})
  <2>1. \A i \in BinIndex : g.smallbins[i] = << >> /\ g.treebins[i] = << >>
    BY <1>5 DEF Fresh
  <2>2. ToSet(<< >>) = {} /\ IsInjective(<< >>)
    BY DEF ToSet, IsInjective
  <2> QED BY <1>5, <2>1, <2>2 DEF BinsHold
<1>13. Served(d, {})
  BY <1>9 DEF Served
<1>14. Whole(g, {})
  BY <1>5, <1>6, <1>8, <1>10, <1>11, <1>12, <1>13 DEF Whole
<1> QED BY <1>4, <1>5, <1>14 DEF g

LEMMA InitOrExpandStep ==
  ASSUME Typed, Sound, NEW bytes \in Requests, InitOrExpand(bytes)
  PROVE  IInv' /\ (gm'.status = "ok" => Kept(gm.chunk, gm'.chunk))
<1>1. PICK base \in Nat :
        /\ segments' = IF base # NULL THEN segments + 1 ELSE segments
        /\ base # NULL => segments < MaxSegments
        /\ gm' = IF is_initialized THEN gm
                 ELSE IF base = NULL THEN [gm EXCEPT !.status = "crashed"]
                 ELSE init_top([gm EXCEPT !.least_addr = base], base)
  <2>1. PICK base \in IF segments < MaxSegments THEN Bases ELSE {NULL} :
          /\ segments' = IF base # NULL THEN segments + 1 ELSE segments
          /\ gm' = IF is_initialized THEN gm
                   ELSE IF base = NULL THEN [gm EXCEPT !.status = "crashed"]
                   ELSE init_top([gm EXCEPT !.least_addr = base], base)
    BY DEF InitOrExpand
  <2>2. base \in Nat /\ (base # NULL => segments < MaxSegments)
    BY <2>1, UniConstants DEF NULL
  <2> QED BY <2>1, <2>2
<1>2. call' = bytes /\ live' = live /\ gm \in MallocState /\ gm.status = "ok"
  BY DEF InitOrExpand, Calling, Typed
<1>3. /\ call' \in Requests \cup {NoCall} /\ segments' \in 0 .. MaxSegments
      /\ live' \subseteq [mem : Nat, bytes : Requests]
  <2>1. segments \in 0 .. MaxSegments /\ MaxSegments \in Nat
    BY UniConstants DEF Typed
  <2>2. segments' \in 0 .. MaxSegments
    BY <1>1, <2>1
  <2> QED BY <1>2, <2>2 DEF Typed
<1>4. CASE gm' = gm
  <2>1. Typed' /\ Sound' /\ gm'.status # "abort"
    BY <1>2, <1>3, <1>4 DEF Typed, Sound
  <2>2. Kept(gm.chunk, gm'.chunk)
    BY <1>4 DEF Kept
  <2> QED BY <2>1, <2>2 DEF IInv
<1>5. CASE gm' = [gm EXCEPT !.status = "crashed"]
  <2>1. gm' \in MallocState /\ gm'.status = "crashed"
    BY <1>2, <1>5 DEF MallocState
  <2> QED BY <1>3, <2>1 DEF IInv, Typed, Sound
<1>6. CASE ~is_initialized /\ base # NULL
  <2>1. ~Whole(gm, live)
    <3>1. ASSUME Whole(gm, live) PROVE FALSE
      <4>1. gm.top \in FreeIn(gm.chunk) /\ NULL \notin DOMAIN gm.chunk
        BY <1>2, <3>1, WholeFacts
      <4> QED BY <1>6, <4>1 DEF FreeIn, is_initialized
    <3> QED BY <3>1
  <2>2. Fresh(gm, live)
    BY <1>2, <2>1 DEF Sound
  <2>3. live = {}
    BY <2>2 DEF Fresh
  <2>4. base > 0
    BY <1>6 DEF NULL
  <2>5. gm' = init_top([gm EXCEPT !.least_addr = base], base)
    BY <1>1, <1>6
  <2>6. gm' \in MallocState /\ gm'.status = gm.status /\ Whole(gm', {})
    BY <1>2, <2>2, <2>3, <2>4, <2>5, InitTopWhole
  <2>7. Whole(gm', live')
    BY <1>2, <2>3, <2>6
  <2>8. Kept(gm.chunk, gm'.chunk)
    BY <2>2 DEF Kept, Fresh, UsedIn
  <2> QED BY <1>2, <1>3, <2>6, <2>7, <2>8 DEF IInv, Typed, Sound
<1> QED BY <1>1, <1>4, <1>5, <1>6

-----------------------------------------------------------------------------
(* Free: what its parts leave of the state.                                 *)

(* What Free leaves when it takes chunk p back: g, or it throws.            *)
Merged(g, p) ==
  /\ g \in MallocState
  /\ \/ g.status = "corrupted"
     \/ /\ g.status = "ok" /\ g.least_addr = gm.least_addr
        /\ Layout(g.chunk, First(gm), g.top, End(gm))
        /\ UsedIn(g.chunk) = UsedIn(gm.chunk) \ {p}
        /\ \A x \in UsedIn(g.chunk) : g.chunk[x].size = gm.chunk[x].size
        /\ Cached(g) /\ BinsHold(g, g.chunk, BinnedIn(g))

(* What a client holds is a chunk in use of a segment that is whole.        *)
LEMMA Held ==
  ASSUME Typed, Sound, NEW m \in live, Freeing(m)
  PROVE  /\ gm \in MallocState /\ gm.status = "ok" /\ Whole(gm, live)
         /\ mem2chunk(m.mem) \in UsedIn(gm.chunk)
<1>1. gm \in MallocState /\ gm.status = "ok"
  BY DEF Freeing, Typed
<1>2. Whole(gm, live)
  BY <1>1 DEF Sound, Fresh
<1> QED BY <1>1, <1>2 DEF Whole, Served

LEMMA Released ==
  ASSUME Typed, Whole(gm, live), NEW m \in live, NEW g, Merged(g, mem2chunk(m.mem)), Freed(m, g)
  PROVE  IInv' /\ (gm'.status = "ok" => Kept(gm.chunk, gm'.chunk))
<1> DEFINE p == mem2chunk(m.mem)
           c == gm.chunk
           d == g.chunk
           M == live \ {m}
<1>1. gm' = g /\ live' = M /\ call' = call /\ segments' = segments
  BY DEF Freed
<1>2. Typed'
  BY <1>1 DEF Typed, Merged
<1>3. CASE g.status = "corrupted"
  BY <1>1, <1>2, <1>3 DEF IInv, Sound
<1>4. CASE g.status # "corrupted"
  <2>1. /\ g.status = "ok" /\ g.least_addr = gm.least_addr
        /\ Layout(d, First(gm), g.top, End(gm))
        /\ UsedIn(d) = UsedIn(c) \ {p}
        /\ \A x \in UsedIn(d) : d[x].size = c[x].size
        /\ Cached(g) /\ BinsHold(g, d, BinnedIn(g))
    BY <1>4 DEF Merged
  <2>2. /\ {mem2chunk(n.mem) : n \in live} = UsedIn(c)
        /\ \A n, k \in live : n.mem = k.mem => n = k
        /\ \A n \in live :
             LET s == c[mem2chunk(n.mem)].size
                 nb == request2size(n.bytes)
             IN n.bytes < MAX_REQUEST /\ nb <= s /\ s < nb + MIN_CHUNK_SIZE
    BY DEF Whole, Served
  <2>3. \A n \in live : mem2chunk(n.mem) = p => n = m
    <3>1. ASSUME NEW n \in live, mem2chunk(n.mem) = p PROVE n = m
      <4>1. n.mem \in Nat /\ m.mem \in Nat
        BY DEF Typed
      <4>2. n.mem = m.mem
        BY <3>1, <4>1 DEF mem2chunk, TWO_SIZE_T_SIZES
      <4> QED BY <2>2, <4>2
    <3> QED BY <3>1
  <2>4. {mem2chunk(n.mem) : n \in M} = UsedIn(d)
    BY <2>1, <2>2, <2>3
  <2>5. \A n \in M : mem2chunk(n.mem) \in UsedIn(d)
    BY <2>4
  <2> HIDE DEF p, c, d
  <2>6. Served(d, M)
    <3>1. \A n \in M : d[mem2chunk(n.mem)].size = c[mem2chunk(n.mem)].size
      BY <2>1, <2>5
    <3> QED BY <2>2, <2>4, <3>1 DEF Served
  <2>7. Whole(g, M)
    <3>1. First(g) = First(gm) /\ End(g) = End(gm) /\ g.least_addr > 0
      BY <2>1 DEF First, End, Whole
    <3> QED BY <2>1, <2>6, <3>1 DEF Whole, d
  <2>8. Sound'
    BY <1>1, <2>7 DEF Sound
  <2>9. Kept(c, d)
    BY <2>1 DEF Kept
  <2> QED BY <1>1, <1>2, <2>1, <2>8, <2>9 DEF IInv, c, d
<1> QED BY <1>3, <1>4

(* After the backward step: the freed space starts at chunk b.p, which was  *)
(* p itself or a free chunk before it, now in no bin.                       *)
Backed(b, c, B, p) ==
  /\ b.h \in MallocState /\ SameDvTop(b.h, gm)
  /\ b.h.least_addr = gm.least_addr /\ b.h.status = gm.status
  /\ b.p \in DOMAIN c /\ b.p \in Nat /\ b.p <= p /\ c[b.p].pinuse
  /\ b.size \in Nat /\ b.p + b.size = NextIn(c, p)
  /\ b.h.chunk \in ChunkMap
  /\ DOMAIN b.h.chunk = {x \in DOMAIN c : x <= b.p \/ NextIn(c, p) <= x}
  /\ \A x \in DOMAIN b.h.chunk : b.h.chunk[x] = c[x]
  /\ \A x \in DOMAIN c : b.p <= x /\ x < NextIn(c, p) => x = p \/ x = b.p
  /\ c[p].pinuse => b.p = p
  /\ ~c[p].pinuse => b.p = p - c[p].foot /\ b.p \in FreeIn(c) \ {gm.top}
  /\ BinsHold(b.h, c, B \ {b.p})

LEMMA BackwardIs ==
  ASSUME gm \in MallocState, Whole(gm, live), NEW p \in UsedIn(gm.chunk)
  PROVE  Backed(Backward(gm, p), gm.chunk, BinnedIn(gm), p)
<1> DEFINE c == gm.chunk
           B == BinnedIn(gm)
           b == Backward(gm, p)
           a == p - c[p].foot
           n == NextIn(c, p)
           u == IF a # gm.dv THEN unlink_chunk(gm, a, c[p].foot) ELSE gm
           k == Absorb(u.chunk, p)
           f == First(gm)
           e == End(gm)
<1>1. /\ f \in Nat /\ e \in Nat /\ gm.top \in Nat
      /\ c \in ChunkMap /\ Layout(c, f, gm.top, e)
      /\ B \in SUBSET DOMAIN c /\ B = FreeIn(c) \ {gm.dv, gm.top} /\ BinsHold(gm, c, B)
      /\ gm.least_addr \in Nat /\ gm.chunk = c
  BY WholeFacts, StateFields
<1>2. p \in DOMAIN c /\ c[p].cinuse /\ p \notin B
  BY <1>1 DEF UsedIn, FreeIn
<1> HIDE DEF c, B, f, e
<1>3. /\ p \in Nat /\ c[p].size \in Nat /\ c[p].size > 0 /\ n = p + c[p].size /\ p < n /\ n \in Nat
      /\ \A x \in DOMAIN c : x \in Nat /\ NextIn(c, x) \in Nat
      /\ \A x, y \in DOMAIN c : x < y => NextIn(c, x) <= y
  <2>1. \A x \in DOMAIN c : /\ x \in Nat /\ c[x].size \in Nat /\ c[x].size > 0
                           /\ NextIn(c, x) \in Nat /\ x < NextIn(c, x)
    BY <1>1, LayoutFacts
  <2>2. \A x, y \in DOMAIN c : x < y => NextIn(c, x) <= y
    BY <1>1 DEF Layout, Tiled
  <2>3. NextIn(c, p) = p + c[p].size
    BY DEF NextIn
  <2> QED BY <1>2, <2>1, <2>2, <2>3
<1>4. CASE c[p].pinuse
  <2>1. b = [h |-> gm, p |-> p, size |-> c[p].size]
    BY <1>4 DEF Backward, c
  <2> HIDE DEF b, n
  <2>2. b.h = gm /\ b.p = p /\ b.size = c[p].size
    BY <2>1
  <2>3. /\ DOMAIN c = {x \in DOMAIN c : x <= p \/ n <= x}
        /\ \A x \in DOMAIN c : p <= x /\ x < n => x = p
    <3>1. \A x \in DOMAIN c : x <= p \/ n <= x
      BY <1>2, <1>3 DEF n
    <3>2. \A x \in DOMAIN c : p <= x /\ x < n => x = p
      BY <1>3, <3>1
    <3>3. DOMAIN c = {x \in DOMAIN c : x <= p \/ n <= x}
      BY <3>1
    <3> QED BY <3>2, <3>3
  <2>4. B \ {p} = B
    BY <1>2
  <2>5. gm.chunk = c
    BY <1>1
  <2>6. Backed(b, c, B, p)
    <3>1. gm.chunk \in ChunkMap /\ p \in Nat /\ p \in DOMAIN c /\ c[p].size \in Nat
      BY <1>1, <1>2, <1>3
    <3>2. b.p + b.size = n
      BY <2>2 DEF n, NextIn
    <3>3. BinsHold(b.h, c, B \ {b.p})
      <4>1. b.h = gm /\ B \ {b.p} = B
        BY <2>2, <2>4
      <4> QED BY <1>1, <4>1
    <3>4. /\ b.h.chunk = c /\ b.p <= p
      BY <2>2, <2>5, <3>1
    <3> QED BY <1>1, <1>4, <2>2, <2>3, <2>5, <3>1, <3>2, <3>3, <3>4 DEF Backed, SameDvTop, n
  <2> QED BY <2>6 DEF c, B, b
<1>5. CASE ~c[p].pinuse
  <2>1. a \in FreeIn(c) \ {gm.top} /\ c[a].size = c[p].foot /\ NextIn(c, a) = p
    BY <1>1, <1>2, <1>5, LayoutFacts
  <2>2. a \in DOMAIN c /\ a \in Nat /\ c[p].foot \in Nat /\ a + c[p].foot = p /\ c[a].pinuse
    BY <1>1, <1>2, <2>1, LayoutFacts, ChunkMapFields DEF FreeIn, NextIn
  <2>3. a < p
    BY <1>1, <2>1, <2>2, LayoutFacts
  <2>4. /\ u \in MallocState /\ SameDvTop(u, gm) /\ u.chunk = c
        /\ u.least_addr = gm.least_addr /\ u.status = gm.status
        /\ BinsHold(u, c, B \ {a})
    <3>1. CASE a = gm.dv
      <4>1. B \ {a} = B
        BY <1>1, <3>1
      <4> QED BY <1>1, <3>1, <4>1 DEF SameDvTop
    <3>2. CASE a # gm.dv
      <4>1. a \in B
        BY <1>1, <2>1, <3>2
      <4>2. Rebinned(unlink_chunk(gm, a, c[a].size), gm, c, B \ {a})
        BY <1>1, <4>1, UnlinkChunk
      <4>3. u = unlink_chunk(gm, a, c[a].size)
        BY <2>1, <3>2
      <4> HIDE DEF u
      <4>4. Rebinned(u, gm, c, B \ {a})
        BY <4>2, <4>3
      <4> QED BY <1>1, <4>4 DEF Rebinned, SameButBins, SameDvTop
    <3> QED BY <3>1, <3>2
  <2>5. b = [h |-> [u EXCEPT !.chunk = k], p |-> a, size |-> c[p].size + c[p].foot]
    BY <1>5 DEF Backward, c
  <2>6. Absorbed(c, k, p)
    BY <1>1, <2>4, AbsorbIs
  <2> HIDE DEF u, k, b
  <2>7. /\ b.p = a /\ b.size = c[p].size + c[p].foot /\ b.h = [u EXCEPT !.chunk = k]
        /\ k \in ChunkMap
    BY <2>5, <2>6 DEF Absorbed
  <2>8. /\ b.h \in MallocState /\ SameDvTop(b.h, gm) /\ SameBins(b.h, u) /\ b.h.chunk = k
        /\ b.h.least_addr = gm.least_addr /\ b.h.status = gm.status
    BY <2>4, <2>7 DEF MallocState, SameDvTop, SameBins
  <2>9. BinsHold(b.h, c, B \ {a})
    BY <2>4, <2>8, BinsKept
  <2> HIDE DEF a
  <2>10. b.size \in Nat /\ a + b.size = n
    BY <1>3, <2>2, <2>7
  <2> HIDE DEF n
  <2>11. \A x \in DOMAIN c : x <= a \/ x = p \/ n <= x
    <3>1. \A x \in DOMAIN c : a < x => p <= x
      BY <1>3, <2>1, <2>2
    <3>2. \A x \in DOMAIN c : p < x => n <= x
      BY <1>2, <1>3 DEF n
    <3> QED BY <1>3, <2>2, <3>1, <3>2
  <2>12. DOMAIN k = {x \in DOMAIN c : x <= a \/ n <= x} /\ \A x \in DOMAIN k : k[x] = c[x]
    BY <1>3, <2>2, <2>3, <2>6, <2>11 DEF Absorbed
  <2>13. \A x \in DOMAIN c : a <= x /\ x < n => x = p \/ x = a
    BY <1>3, <2>2, <2>11
  <2>14. Backed(b, c, B, p)
    BY <1>5, <2>1, <2>2, <2>3, <2>7, <2>8, <2>9, <2>10, <2>12, <2>13 DEF Backed, n, a
  <2> QED BY <2>14 DEF b, c, B
<1> QED BY <1>4, <1>5

(* The headers after the three ways to put the freed space back.            *)
LEMMA FusedBefore ==
  ASSUME NEW c \in ChunkMap, NEW b, NEW B, NEW p \in DOMAIN c, c[p].size > 0, Backed(b, c, B, p),
         NEW q \in DOMAIN c, q = NextIn(c, p)
  PROVE  Fused(c, set_free_with_pinuse(b.h.chunk, b.p, b.size, q), b.p, q)
<1> DEFINE k == b.h.chunk
           a == b.p
           s == b.size
           g == [k EXCEPT ![q].pinuse = FALSE]
           d == set_size_and_pinuse_of_free_chunk(g, a, s)
<1>1. /\ a \in DOMAIN c /\ a \in Nat /\ a <= p /\ c[a].pinuse /\ s \in Nat /\ a + s = q
      /\ k \in ChunkMap /\ DOMAIN k = {x \in DOMAIN c : x <= a \/ q <= x}
      /\ \A x \in DOMAIN k : k[x] = c[x]
      /\ p \in Nat /\ q \in Nat /\ c[p].size \in Nat /\ \A x \in DOMAIN c : x \in Nat
  BY ChunkMapFields DEF Backed
<1>2. p < q /\ a < q /\ s > 0
  BY <1>1 DEF NextIn
<1>3. set_free_with_pinuse(k, a, s, q) = d
  BY DEF set_free_with_pinuse
<1> HIDE DEF k, a, s
<1>4. q \in DOMAIN k /\ a \in DOMAIN k
  BY <1>1
<1>5. PinusePut(k, g, q, FALSE)
  BY <1>1, <1>4, PinuseSet
<1> HIDE DEF g
<1>6. g \in ChunkMap /\ q \in DOMAIN g
  BY <1>4, <1>5 DEF PinusePut
<1>7. FreeHeadPut(g, d, a, s, q)
  BY <1>1, <1>2, <1>6, FreeHeadIs
<1> HIDE DEF d
<1>8. Fused(c, d, a, q)
  <2>1. d \in ChunkMap /\ DOMAIN d = DOMAIN k
    BY <1>4, <1>5, <1>7 DEF PinusePut, FreeHeadPut
  <2>2. d[a].size = s /\ d[a].pinuse /\ ~d[a].cinuse /\ d[a].foot = c[a].foot
    BY <1>1, <1>2, <1>4, <1>5, <1>7 DEF PinusePut, FreeHeadPut
  <2>3. d[q].size = c[q].size /\ ~d[q].pinuse /\ d[q].cinuse = c[q].cinuse /\ d[q].foot = s
    BY <1>1, <1>2, <1>4, <1>5, <1>7 DEF PinusePut, FreeHeadPut
  <2>4. \A x \in DOMAIN d \ {a, q} : d[x] = c[x]
    BY <1>1, <1>5, <1>7, <2>1 DEF PinusePut, FreeHeadPut
  <2>5. s = q - a
    BY <1>1
  <2> QED BY <1>1, <2>1, <2>2, <2>3, <2>4, <2>5 DEF Fused
<1> QED BY <1>3, <1>8 DEF k, a, s

(* The next chunk q is free, and e is the chunk after it.                   *)
LEMMA FusedAfter ==
  ASSUME NEW c \in ChunkMap, NEW b, NEW B, NEW p \in DOMAIN c, c[p].size > 0, Backed(b, c, B, p),
         NEW q \in DOMAIN c, q = NextIn(c, p), c[q].size > 0,
         NEW e \in DOMAIN c, e = NextIn(c, q), ~c[e].pinuse, \A x \in DOMAIN c : q < x => e <= x,
         NEW s, s = b.size + c[q].size
  PROVE  Fused(c, set_size_and_pinuse_of_free_chunk(Absorb(b.h.chunk, q), b.p, s), b.p, e)
<1> DEFINE k == b.h.chunk
           a == b.p
           g == Absorb(k, q)
           d == set_size_and_pinuse_of_free_chunk(g, a, s)
<1>1. /\ a \in DOMAIN c /\ a \in Nat /\ a <= p /\ c[a].pinuse /\ b.size \in Nat /\ a + b.size = q
      /\ k \in ChunkMap /\ DOMAIN k = {x \in DOMAIN c : x <= a \/ q <= x}
      /\ \A x \in DOMAIN k : k[x] = c[x]
      /\ p \in Nat /\ q \in Nat /\ e \in Nat /\ c[p].size \in Nat /\ c[q].size \in Nat
      /\ \A x \in DOMAIN c : x \in Nat
  BY ChunkMapFields DEF Backed
<1>2. p < q /\ a < q /\ q < e /\ s \in Nat /\ s > 0 /\ a + s = e
  BY <1>1 DEF NextIn
<1> HIDE DEF k, a
<1>3. Absorbed(k, g, q)
  BY <1>1, AbsorbIs
<1> HIDE DEF g
<1>4. DOMAIN g = {x \in DOMAIN c : x <= a \/ e <= x}
  <2>1. \A x \in DOMAIN c : q <= x /\ x # q => e <= x
    BY <1>1
  <2>2. \A x \in DOMAIN c : (x <= a \/ q <= x) /\ x # q <=> x <= a \/ e <= x
    BY <1>1, <1>2, <2>1
  <2> QED BY <1>1, <1>3, <2>2 DEF Absorbed
<1>5. g \in ChunkMap /\ e \in DOMAIN g /\ a \in DOMAIN g /\ \A x \in DOMAIN g : g[x] = c[x]
  BY <1>1, <1>2, <1>3, <1>4 DEF Absorbed
<1>6. FreeHeadPut(g, d, a, s, e)
  BY <1>1, <1>2, <1>5, FreeHeadIs
<1> HIDE DEF d
<1>7. Fused(c, d, a, e)
  <2>1. d \in ChunkMap /\ DOMAIN d = DOMAIN g
    BY <1>5, <1>6 DEF FreeHeadPut
  <2>2. d[a].size = s /\ d[a].pinuse /\ ~d[a].cinuse /\ d[a].foot = c[a].foot
    BY <1>5, <1>6 DEF FreeHeadPut
  <2>3. d[e].size = c[e].size /\ ~d[e].pinuse /\ d[e].cinuse = c[e].cinuse /\ d[e].foot = s
    BY <1>5, <1>6 DEF FreeHeadPut
  <2>4. \A x \in DOMAIN d \ {a, e} : d[x] = c[x]
    BY <1>5, <1>6, <2>1 DEF FreeHeadPut
  <2>5. s = e - a
    BY <1>1, <1>2
  <2> QED BY <1>4, <2>1, <2>2, <2>3, <2>4, <2>5 DEF Fused
<1> QED BY <1>7 DEF k, a, g, d

(* The next chunk q is top, and e is the end of the segment.                *)
LEMMA FusedTop ==
  ASSUME NEW c \in ChunkMap, NEW b, NEW B, NEW p \in DOMAIN c, c[p].size > 0, Backed(b, c, B, p),
         NEW q \in DOMAIN c, q = NextIn(c, p), c[q].size > 0, \A x \in DOMAIN c : x <= q,
         NEW e \in Nat, e = NextIn(c, q), NEW s, s = c[q].size + b.size
  PROVE  Fused(c, PutHead(Absorb(b.h.chunk, q), b.p, s, FALSE), b.p, e)
<1> DEFINE k == b.h.chunk
           a == b.p
           g == Absorb(k, q)
           d == PutHead(g, a, s, FALSE)
<1>1. /\ a \in DOMAIN c /\ a \in Nat /\ a <= p /\ c[a].pinuse /\ b.size \in Nat /\ a + b.size = q
      /\ k \in ChunkMap /\ DOMAIN k = {x \in DOMAIN c : x <= a \/ q <= x}
      /\ \A x \in DOMAIN k : k[x] = c[x]
      /\ p \in Nat /\ q \in Nat /\ c[p].size \in Nat /\ c[q].size \in Nat
      /\ \A x \in DOMAIN c : x \in Nat
  BY ChunkMapFields DEF Backed
<1>2. p < q /\ a < q /\ q < e /\ s \in Nat /\ s > 0 /\ a + s = e
  BY <1>1 DEF NextIn
<1> HIDE DEF k, a
<1>3. Absorbed(k, g, q)
  BY <1>1, AbsorbIs
<1> HIDE DEF g
<1>4. DOMAIN g = {x \in DOMAIN c : x <= a \/ e <= x} /\ e \notin DOMAIN c
  <2>1. \A x \in DOMAIN c : (x <= a \/ q <= x) /\ x # q <=> x <= a \/ e <= x
    BY <1>1, <1>2
  <2>2. e \notin DOMAIN c
    BY <1>1, <1>2
  <2> QED BY <1>1, <1>3, <2>1, <2>2 DEF Absorbed
<1>5. g \in ChunkMap /\ a \in DOMAIN g /\ \A x \in DOMAIN g : g[x] = c[x]
  BY <1>1, <1>2, <1>3, <1>4 DEF Absorbed
<1>6. HeadPut(g, d, a, s, FALSE)
  BY <1>1, <1>2, <1>5, PutHeadIs
<1> HIDE DEF d
<1>7. Fused(c, d, a, e)
  <2>1. d \in ChunkMap /\ DOMAIN d = DOMAIN g
    BY <1>5, <1>6 DEF HeadPut
  <2>2. d[a].size = s /\ d[a].pinuse /\ ~d[a].cinuse /\ d[a].foot = c[a].foot
    BY <1>5, <1>6 DEF HeadPut
  <2>3. \A x \in DOMAIN d \ {a, e} : d[x] = c[x]
    BY <1>5, <1>6, <2>1 DEF HeadPut
  <2>4. s = e - a
    BY <1>1, <1>2
  <2> QED BY <1>4, <2>1, <2>2, <2>3, <2>4 DEF Fused
<1> QED BY <1>7 DEF k, a, g, d

(* The chunk p that comes back, and its neighbours.                         *)
LEMMA Neighbours ==
  ASSUME gm \in MallocState, Whole(gm, live), NEW p \in UsedIn(gm.chunk),
         NEW b, b = Backward(gm, p)
  PROVE  LET c == gm.chunk
             q == NextChunk(p)
             n == NextIn(c, q)
         IN /\ Backed(b, c, BinnedIn(gm), p)
            /\ p \in DOMAIN c /\ p \in Nat /\ c[p].size > 0 /\ p < q
            /\ q \in DOMAIN c /\ q = NextIn(c, p) /\ q # p /\ c[q].pinuse /\ c[q].size > 0
            /\ b.p # gm.top /\ b.p \notin {q} /\ (b.p = p \/ b.p \in FreeIn(c))
            /\ b.p \in Nat /\ b.p <= p /\ c[b.p].pinuse /\ b.p \in DOMAIN c
            /\ \A x \in FreeIn(c) : b.p <= x /\ x < q => x = b.p
            /\ ~c[q].cinuse /\ q # gm.top =>
                 /\ n \in DOMAIN c /\ c[n].cinuse /\ ~c[n].pinuse /\ q < n
                 /\ \A x \in DOMAIN c : q < x => n <= x
<1> DEFINE c == gm.chunk
           f == First(gm)
           e == End(gm)
           q == NextIn(c, p)
           n == NextIn(c, q)
<1>1. /\ f \in Nat /\ e \in Nat /\ gm.top \in Nat
      /\ c \in ChunkMap /\ Layout(c, f, gm.top, e)
  BY WholeFacts, StateFields
<1>2. Backed(b, c, BinnedIn(gm), p)
  BY BackwardIs
<1>3. p \in UsedIn(c) /\ NextChunk(p) = q
  BY DEF NextChunk, NextIn
<1> HIDE DEF c, f, e
<1>4. p \in DOMAIN c /\ c[p].cinuse /\ p # gm.top
  BY <1>1, <1>3, LayoutFacts DEF FreeIn, UsedIn
<1>5. /\ p \in Nat /\ c[p].size > 0 /\ q \in DOMAIN c /\ p < q /\ c[q].size > 0
      /\ \A x \in DOMAIN c : x \in Nat
  BY <1>1, <1>4, LayoutFacts
<1>6. c[q].pinuse
  BY <1>1, <1>4 DEF Layout, Tagged
<1>7. /\ b.p \in Nat /\ b.p <= p /\ c[b.p].pinuse /\ b.p \in DOMAIN c
      /\ (b.p = p \/ b.p \in FreeIn(c) \ {gm.top})
      /\ \A x \in DOMAIN c : b.p <= x /\ x < q => x = p \/ x = b.p
  BY <1>2 DEF Backed
<1>8. \A x \in FreeIn(c) : b.p <= x /\ x < q => x = b.p
  BY <1>4, <1>7 DEF FreeIn
<1>9. b.p # gm.top /\ b.p # q /\ (b.p = p \/ b.p \in FreeIn(c))
  <2>1. b.p # q
    BY <1>5, <1>7
  <2> QED BY <1>4, <1>7, <2>1
<1>10. ASSUME ~c[q].cinuse, q # gm.top
       PROVE  /\ n \in DOMAIN c /\ c[n].cinuse /\ ~c[n].pinuse /\ q < n
              /\ \A x \in DOMAIN c : q < x => n <= x
  <2>1. n \in DOMAIN c /\ q < n /\ q \in FreeIn(c)
    BY <1>1, <1>5, <1>10, LayoutFacts DEF FreeIn
  <2>2. c[n].pinuse = c[q].cinuse
    BY <1>1, <1>5, <1>10 DEF Layout, Tagged
  <2>3. c[n].cinuse
    BY <1>1, <1>10, <2>1 DEF Layout, Coalesced
  <2>4. \A x \in DOMAIN c : q < x => n <= x
    BY <1>1, <1>5 DEF Layout, Tiled
  <2> QED BY <1>10, <2>1, <2>2, <2>3, <2>4
<1> HIDE DEF q
<1> QED BY <1>2, <1>3, <1>4, <1>5, <1>6, <1>7, <1>8, <1>9, <1>10 DEF c, q

(* The headers d that are left when p of c came back, a free chunk a of     *)
(* size s with the free chunks F otherwise.                                 *)
Reclaimed(c, d, p, a, s, F, first, top, end) ==
  /\ d \in ChunkMap /\ Layout(d, first, top, end)
  /\ UsedIn(d) = UsedIn(c) \ {p}
  /\ \A x \in UsedIn(d) : d[x].size = c[x].size
  /\ FreeIn(d) = F \cup {a} /\ d[a].size = s
  /\ \A x \in F \ {a} : d[x].size = c[x].size

LEMMA Reclaims ==
  ASSUME gm \in MallocState, Whole(gm, live), NEW p \in UsedIn(gm.chunk),
         NEW b, b = Backward(gm, p), NEW d, NEW e \in Nat, NEW t, NEW F, NEW s, s = e - b.p,
         Fused(gm.chunk, d, b.p, e), p < e,
         \A x \in DOMAIN gm.chunk : NextChunk(p) <= x /\ x < e => ~gm.chunk[x].cinuse,
         \/ e \in DOMAIN gm.chunk /\ gm.chunk[e].cinuse /\ t = gm.top
         \/ e = End(gm) /\ t = b.p,
         F \subseteq FreeIn(gm.chunk),
         \A x \in FreeIn(gm.chunk) : x \in F \/ x = b.p <=> x < NextChunk(p) \/ e <= x
  PROVE  Reclaimed(gm.chunk, d, p, b.p, s, F, First(gm), t, End(gm))
<1> DEFINE c == gm.chunk
           f == First(gm)
           z == End(gm)
           q == NextChunk(p)
           a == b.p
<1>1. /\ f \in Nat /\ z \in Nat /\ gm.top \in Nat
      /\ c \in ChunkMap /\ Layout(c, f, gm.top, z)
  BY WholeFacts, StateFields
<1>2. /\ a \in Nat /\ a <= p /\ c[a].pinuse /\ a \in DOMAIN c
      /\ p \in Nat /\ q \in Nat /\ p < q
      /\ \A x \in DOMAIN c : a <= x /\ x < q => x = p \/ x = a
      /\ \A x \in FreeIn(c) : a <= x /\ x < q => x = a
      /\ a = p \/ a \in FreeIn(c)
      /\ p \in UsedIn(c)
  <2>1. Backed(b, c, BinnedIn(gm), p) /\ q = NextIn(c, p)
    BY Neighbours
  <2>2. \A x \in DOMAIN c : a <= x /\ x < q => x = p \/ x = a
    BY <2>1 DEF Backed
  <2>3. q \in Nat
    BY <1>1, Neighbours, ChunkMapFields
  <2> QED BY <2>2, <2>3, Neighbours
<1>3. Fused(c, d, a, e) /\ F \subseteq FreeIn(c)
  OBVIOUS
<1>4. \A x \in DOMAIN c : q <= x /\ x < e => ~c[x].cinuse
  OBVIOUS
<1>5. \A x \in FreeIn(c) : x \in F \/ x = a <=> x < q \/ e <= x
  OBVIOUS
<1>6. \/ e \in DOMAIN c /\ c[e].cinuse /\ t = gm.top
      \/ e = z /\ t = a
  OBVIOUS
<1> HIDE DEF c, f, z, q, a
<1>7. \A x \in DOMAIN c : a <= x /\ x < e => x = p \/ ~c[x].cinuse
  <2>1. ASSUME NEW x \in DOMAIN c, a <= x, x < e, x # p PROVE ~c[x].cinuse
    <3>0. x \in Nat
      BY <1>1, ChunkMapFields
    <3>1. CASE x < q
      BY <1>2, <2>1, <3>1 DEF FreeIn
    <3>2. CASE q <= x
      BY <1>4, <2>1, <3>2
    <3> QED BY <1>2, <3>0, <3>1, <3>2
  <2> QED BY <2>1
<1>8. /\ Layout(d, f, t, z)
      /\ UsedIn(d) = UsedIn(c) \ {p}
      /\ FreeIn(d) = {x \in FreeIn(c) : x < a \/ e <= x} \cup {a}
      /\ \A x \in UsedIn(d) : d[x].size = c[x].size
  <2>1. Gap(c, p, a, e, t, gm.top, z)
    BY <1>2, <1>6, <1>7 DEF Gap
  <2>2. Leaves(c, d, p, a, e, f, t, z)
    BY <1>1, <1>2, <1>3, <2>1, FuseLayout
  <2> QED BY <2>2 DEF Leaves
<1>9. FreeIn(d) = F \cup {a}
  <2>1. \A x \in FreeIn(c) : x \in Nat
    BY <1>1, ChunkMapFields DEF FreeIn
  <2>2. ASSUME NEW x \in FreeIn(c), x # a PROVE x \in F <=> x < a \/ e <= x
    <3>1. x < q => x < a
      BY <1>2, <2>1, <2>2
    <3>2. x < a => x < q
      BY <1>2, <2>1
    <3> QED BY <1>5, <2>2, <3>1, <3>2
  <2> QED BY <1>3, <1>8, <2>2
<1>10. \A x \in F \ {a} : d[x].size = c[x].size
  <2>1. ASSUME NEW x \in F \ {a} PROVE d[x].size = c[x].size
    <3>1. x \in DOMAIN d
      BY <1>9 DEF FreeIn
    <3>2. CASE x = e
      BY <1>3, <2>1, <3>2 DEF Fused, FreeIn
    <3>3. CASE x # e
      BY <1>3, <2>1, <3>1, <3>3 DEF Fused
    <3> QED BY <3>2, <3>3
  <2> QED BY <2>1
<1>11. d \in ChunkMap /\ d[a].size = e - a
  BY <1>3 DEF Fused
<1> QED BY <1>8, <1>9, <1>10, <1>11 DEF Reclaimed, c, f, z, a

(* The next chunk is in use.                                                *)
LEMMA ReclaimedBefore ==
  ASSUME gm \in MallocState, Whole(gm, live), NEW p \in UsedIn(gm.chunk),
         NEW b, b = Backward(gm, p), gm.chunk[NextChunk(p)].cinuse
  PROVE  Reclaimed(gm.chunk, set_free_with_pinuse(b.h.chunk, b.p, b.size, NextChunk(p)),
                   p, b.p, b.size, FreeIn(gm.chunk), First(gm), gm.top, End(gm))
<1> DEFINE c == gm.chunk
           q == NextChunk(p)
           d == set_free_with_pinuse(b.h.chunk, b.p, b.size, q)
<1>1. /\ Backed(b, c, BinnedIn(gm), p)
      /\ p \in DOMAIN c /\ p \in Nat /\ c[p].size > 0 /\ p < q
      /\ q \in DOMAIN c /\ q = NextIn(c, p)
      /\ b.p \in Nat /\ b.p <= p
      /\ \A x \in FreeIn(c) : b.p <= x /\ x < q => x = b.p
      /\ b.p = p \/ b.p \in FreeIn(c)
  BY Neighbours
<1>2. c \in ChunkMap /\ \A x \in DOMAIN c : x \in Nat
  BY WholeFacts, ChunkMapFields
<1>3. b.size = q - b.p /\ q \in Nat /\ c[q].cinuse
  BY <1>1, <1>2 DEF Backed
<1>4. Fused(c, d, b.p, q)
  BY <1>1, <1>2, FusedBefore
<1> HIDE DEF q, d, c
<1>5. \A x \in DOMAIN c : q <= x /\ x < q => ~c[x].cinuse
  BY <1>2, <1>3
<1>6. \A x \in FreeIn(c) : x \in FreeIn(c) \/ x = b.p <=> x < q \/ q <= x
  BY <1>2, <1>3 DEF FreeIn
<1> QED BY <1>1, <1>3, <1>4, <1>5, <1>6, Reclaims DEF c, q, d

(* The next chunk is free, but not top: it is swallowed.                    *)
LEMMA ReclaimedAfter ==
  ASSUME gm \in MallocState, Whole(gm, live), NEW p \in UsedIn(gm.chunk),
         NEW b, b = Backward(gm, p), NEW q, q = NextChunk(p),
         ~gm.chunk[q].cinuse, q # gm.top, NEW s, s = b.size + gm.chunk[q].size
  PROVE  Reclaimed(gm.chunk, set_size_and_pinuse_of_free_chunk(Absorb(b.h.chunk, q), b.p, s),
                   p, b.p, s, FreeIn(gm.chunk) \ {q}, First(gm), gm.top, End(gm))
<1> DEFINE c == gm.chunk
           n == NextIn(c, q)
           F == FreeIn(c) \ {q}
           d == set_size_and_pinuse_of_free_chunk(Absorb(b.h.chunk, q), b.p, s)
<1>1. /\ Backed(b, c, BinnedIn(gm), p)
      /\ p \in DOMAIN c /\ p \in Nat /\ c[p].size > 0 /\ p < q
      /\ q \in DOMAIN c /\ q = NextIn(c, p) /\ c[q].size > 0
      /\ b.p \in Nat /\ b.p <= p /\ b.p # q
      /\ \A x \in FreeIn(c) : b.p <= x /\ x < q => x = b.p
      /\ n \in DOMAIN c /\ c[n].cinuse /\ ~c[n].pinuse /\ q < n
      /\ \A x \in DOMAIN c : q < x => n <= x
  BY Neighbours
<1>2. c \in ChunkMap /\ \A x \in DOMAIN c : x \in Nat /\ c[x].size \in Nat
  BY WholeFacts, ChunkMapFields
<1>3. s = n - b.p /\ q \in Nat /\ n \in Nat /\ ~c[q].cinuse /\ p < n
  <2>1. b.p + b.size = q /\ b.size \in Nat
    BY <1>1 DEF Backed
  <2>2. n = q + c[q].size
    BY DEF NextIn
  <2>3. q \in Nat /\ n \in Nat
    BY <1>1, <1>2
  <2> HIDE DEF n
  <2> QED BY <1>1, <1>2, <2>1, <2>2, <2>3
<1>4. n = NextIn(c, q) /\ s = b.size + c[q].size
  OBVIOUS
<1> HIDE DEF n, c
<1>5. Fused(c, d, b.p, n)
  BY <1>1, <1>2, <1>4, FusedAfter
<1> HIDE DEF d, F
<1>6. \A x \in DOMAIN c : q <= x /\ x < n => ~c[x].cinuse
  <2>1. \A x \in DOMAIN c : q <= x /\ x < n => x = q
    BY <1>1, <1>2, <1>3
  <2> QED BY <1>3, <2>1
<1>7. F \subseteq FreeIn(c) /\ \A x \in FreeIn(c) : x \in F \/ x = b.p <=> x < q \/ n <= x
  <2>1. \A x \in FreeIn(c) : x # q <=> x < q \/ n <= x
    BY <1>1, <1>2, <1>3 DEF FreeIn
  <2> QED BY <1>1, <2>1 DEF F
<1>8. Reclaimed(c, d, p, b.p, s, F, First(gm), gm.top, End(gm))
  <2>1. /\ Fused(gm.chunk, d, b.p, n) /\ n \in DOMAIN gm.chunk /\ gm.chunk[n].cinuse
        /\ F \subseteq FreeIn(gm.chunk)
    BY <1>1, <1>5, <1>7 DEF c
  <2>2. \A x \in DOMAIN gm.chunk : NextChunk(p) <= x /\ x < n => ~gm.chunk[x].cinuse
    BY <1>6 DEF c
  <2>3. \A x \in FreeIn(gm.chunk) : x \in F \/ x = b.p <=> x < NextChunk(p) \/ n <= x
    BY <1>7 DEF c
  <2>4. Reclaimed(gm.chunk, d, p, b.p, s, F, First(gm), gm.top, End(gm))
    BY <1>3, <2>1, <2>2, <2>3, Reclaims
  <2> QED BY <2>4 DEF c
<1> QED BY <1>8 DEF c, d, F

(* The next chunk is top: top starts earlier.                               *)
LEMMA ReclaimedTop ==
  ASSUME gm \in MallocState, Whole(gm, live), NEW p \in UsedIn(gm.chunk),
         NEW b, b = Backward(gm, p), NextChunk(p) = gm.top, NEW s, s = gm.topsize + b.size
  PROVE  Reclaimed(gm.chunk, PutHead(Absorb(b.h.chunk, gm.top), b.p, s, FALSE),
                   p, b.p, s, FreeIn(gm.chunk) \ {gm.top}, First(gm), b.p, End(gm))
<1> DEFINE c == gm.chunk
           q == gm.top
           e == End(gm)
           F == FreeIn(c) \ {q}
           d == PutHead(Absorb(b.h.chunk, q), b.p, s, FALSE)
<1>1. /\ Backed(b, c, BinnedIn(gm), p)
      /\ p \in DOMAIN c /\ p \in Nat /\ c[p].size > 0 /\ p < q
      /\ q \in DOMAIN c /\ q = NextIn(c, p) /\ c[q].size > 0
      /\ b.p \in Nat /\ b.p <= p /\ b.p # q
      /\ \A x \in FreeIn(c) : b.p <= x /\ x < q => x = b.p
  BY Neighbours
<1>2. /\ c \in ChunkMap /\ \A x \in DOMAIN c : x \in Nat /\ c[x].size \in Nat
      /\ e \in Nat /\ gm.topsize = c[q].size /\ q \in FreeIn(c)
      /\ First(gm) \in Nat /\ Layout(c, First(gm), q, e)
  BY WholeFacts, ChunkMapFields
<1>3. e = NextIn(c, q) /\ (\A x \in DOMAIN c : x <= q) /\ q < e /\ q \in Nat
  BY <1>1, <1>2, LayoutFacts
<1>4. s = c[q].size + b.size
  BY <1>2
<1> HIDE DEF c, e
<1>5. s = e - b.p /\ p < e
  <2>1. b.p + b.size = q /\ b.size \in Nat
    BY <1>1 DEF Backed
  <2>2. e = q + c[q].size
    BY <1>3 DEF NextIn
  <2> HIDE DEF q
  <2> QED BY <1>1, <1>2, <1>3, <1>4, <2>1, <2>2
<1>6. Fused(c, d, b.p, e)
  BY <1>1, <1>2, <1>3, <1>4, FusedTop
<1> HIDE DEF d, F
<1>7. \A x \in DOMAIN c : q <= x /\ x < e => ~c[x].cinuse
  <2>1. \A x \in DOMAIN c : q <= x => x = q
    BY <1>2, <1>3
  <2> QED BY <1>2, <2>1 DEF FreeIn
<1>8. F \subseteq FreeIn(c) /\ \A x \in FreeIn(c) : x \in F \/ x = b.p <=> x < q \/ e <= x
  <2>1. \A x \in FreeIn(c) : x # q <=> x < q \/ e <= x
    BY <1>2, <1>3 DEF FreeIn
  <2> QED BY <1>1, <2>1 DEF F
<1>9. Reclaimed(c, d, p, b.p, s, F, First(gm), b.p, e)
  BY <1>1, <1>2, <1>5, <1>6, <1>7, <1>8, Reclaims DEF c, e
<1> QED BY <1>9 DEF c, d, F, e

-----------------------------------------------------------------------------
(* The actions of Free.                                                     *)

LEMMA FreeIntoDvBeforeStep ==
  ASSUME Typed, Sound, NEW m \in live, FreeIntoDvBefore(m)
  PROVE  IInv' /\ (gm'.status = "ok" => Kept(gm.chunk, gm'.chunk))
<1> DEFINE p == mem2chunk(m.mem)
           b == Backward(gm, p)
           c == gm.chunk
           B == BinnedIn(gm)
           q == NextChunk(p)
           d == set_free_with_pinuse(b.h.chunk, b.p, b.size, q)
           g == [b.h EXCEPT !.dvsize = b.size, !.chunk = d]
<1>1. Freeing(m) /\ JoinsDvBefore(p) /\ Freed(m, g)
  BY DEF FreeIntoDvBefore
<1>2. gm \in MallocState /\ gm.status = "ok" /\ Whole(gm, live) /\ p \in UsedIn(c)
  BY <1>1, Held
<1>3. ~c[p].pinuse /\ p - c[p].foot = gm.dv /\ c[q].cinuse
  BY <1>1 DEF JoinsDvBefore
<1>4. Backed(b, c, B, p)
  BY <1>2, Neighbours
<1>5. Reclaimed(c, d, p, b.p, b.size, FreeIn(c), First(gm), gm.top, End(gm))
  BY <1>2, <1>3, ReclaimedBefore
<1>6. /\ c \in ChunkMap /\ B = FreeIn(c) \ {gm.dv, gm.top} /\ gm.topsize = c[gm.top].size
      /\ gm.top \in FreeIn(c) /\ NULL \notin DOMAIN c
  BY <1>2, WholeFacts
<1> HIDE DEF p, b, c, B, d
<1>7. b.p = gm.dv /\ b.p \in FreeIn(c) \ {gm.top} /\ b.size \in Nat /\ b.h \in MallocState
  BY <1>3, <1>4 DEF Backed
<1>8. BinsHold(b.h, c, B)
  <2>1. B \ {b.p} = B
    BY <1>6, <1>7
  <2> QED BY <1>4, <2>1 DEF Backed
<1>9. d \in ChunkMap /\ FreeIn(d) = FreeIn(c) \cup {b.p} /\ d[b.p].size = b.size
  BY <1>5 DEF Reclaimed
<1>10. /\ g \in MallocState /\ SameBins(g, b.h) /\ g.chunk = d
       /\ g.dv = gm.dv /\ g.dvsize = b.size /\ g.top = gm.top /\ g.topsize = gm.topsize
       /\ g.status = "ok" /\ g.least_addr = gm.least_addr
  BY <1>2, <1>4, <1>7, <1>9 DEF MallocState, SameBins, Backed, SameDvTop
<1> HIDE DEF g
<1>11. Cached(g)
  <2>1. d[gm.top].size = c[gm.top].size
    BY <1>5, <1>6, <1>7 DEF Reclaimed
  <2>2. gm.dv # NULL
    BY <1>6, <1>7 DEF FreeIn
  <2> QED BY <1>6, <1>7, <1>9, <1>10, <2>1, <2>2 DEF Cached
<1>12. BinnedIn(g) = B
  BY <1>6, <1>7, <1>9, <1>10 DEF BinnedIn
<1>13. BinsHold(g, d, B)
  <2>1. \A x \in B : d[x].size = c[x].size
    BY <1>5, <1>6, <1>7 DEF Reclaimed
  <2> QED BY <1>8, <1>10, <2>1, BinsKept
<1>14. Merged(g, p)
  BY <1>5, <1>10, <1>11, <1>12, <1>13 DEF Merged, Reclaimed, c
<1> QED BY <1>1, <1>2, <1>14, Released DEF p

LEMMA FreeIntoTopStep ==
  ASSUME Typed, Sound, NEW m \in live, FreeIntoTop(m)
  PROVE  IInv' /\ (gm'.status = "ok" => Kept(gm.chunk, gm'.chunk))
<1> DEFINE p == mem2chunk(m.mem)
           b == Backward(gm, p)
           c == gm.chunk
           B == BinnedIn(gm)
           s == gm.topsize + b.size
           d == PutHead(Absorb(b.h.chunk, gm.top), b.p, s, FALSE)
           h == [b.h EXCEPT !.top = b.p, !.topsize = s, !.chunk = d]
           g == IF b.p = gm.dv THEN DropDv(h) ELSE h
<1>1. Freeing(m) /\ NextChunk(p) = gm.top /\ Freed(m, g)
  BY DEF FreeIntoTop
<1>2. gm \in MallocState /\ gm.status = "ok" /\ Whole(gm, live) /\ p \in UsedIn(c)
  BY <1>1, Held
<1>3. Backed(b, c, B, p)
  BY <1>2, Neighbours
<1>4. Reclaimed(c, d, p, b.p, s, FreeIn(c) \ {gm.top}, First(gm), b.p, End(gm))
  BY <1>1, <1>2, ReclaimedTop
<1>5. /\ c \in ChunkMap /\ B = FreeIn(c) \ {gm.dv, gm.top} /\ gm.topsize = c[gm.top].size
      /\ gm.top \in FreeIn(c) /\ NULL \notin DOMAIN c /\ gm.topsize \in Nat
      /\ gm.dv = NULL => gm.dvsize = 0
      /\ gm.dv # NULL => gm.dv \in FreeIn(c) \ {gm.top} /\ gm.dvsize = c[gm.dv].size
  BY <1>2, WholeFacts, StateFields
<1> HIDE DEF p, b, c, B, d
<1>6. /\ b.p \in Nat /\ b.p \in DOMAIN c /\ b.size \in Nat /\ b.h \in MallocState
      /\ BinsHold(b.h, c, B \ {b.p})
  BY <1>3 DEF Backed
<1>7. s \in Nat
  BY <1>5, <1>6
<1> HIDE DEF s
<1>8. d \in ChunkMap /\ FreeIn(d) = (FreeIn(c) \ {gm.top}) \cup {b.p} /\ d[b.p].size = s
  BY <1>4 DEF Reclaimed
<1>9. /\ h \in MallocState /\ SameBins(h, b.h) /\ h.chunk = d
      /\ h.dv = gm.dv /\ h.dvsize = gm.dvsize /\ h.top = b.p /\ h.topsize = s
      /\ h.status = "ok" /\ h.least_addr = gm.least_addr
  BY <1>2, <1>3, <1>6, <1>7, <1>8 DEF MallocState, SameBins, Backed, SameDvTop
<1> HIDE DEF h
<1>10. /\ g \in MallocState /\ SameBins(g, b.h) /\ g.chunk = d
       /\ g.top = b.p /\ g.topsize = s
       /\ g.status = "ok" /\ g.least_addr = gm.least_addr
       /\ b.p = gm.dv => g.dv = NULL /\ g.dvsize = 0
       /\ b.p # gm.dv => g.dv = gm.dv /\ g.dvsize = gm.dvsize
  BY <1>9 DEF MallocState, SameBins, DropDv, NULL
<1> HIDE DEF g
<1>11. Cached(g)
  <2>1. gm.dv # NULL /\ gm.dv # b.p => gm.dv \in FreeIn(d) \ {b.p} /\ d[gm.dv].size = gm.dvsize
    BY <1>4, <1>5, <1>8 DEF Reclaimed
  <2> QED BY <1>5, <1>8, <1>10, <2>1 DEF Cached
<1>12. BinnedIn(g) = B \ {b.p}
  <2>1. NULL \notin FreeIn(c)
    BY <1>5 DEF FreeIn
  <2> QED BY <1>5, <1>8, <1>10, <2>1 DEF BinnedIn
<1>13. BinsHold(g, d, B \ {b.p})
  <2>1. \A x \in B \ {b.p} : d[x].size = c[x].size
    BY <1>4, <1>5 DEF Reclaimed
  <2> QED BY <1>6, <1>10, <2>1, BinsKept
<1>14. Merged(g, p)
  BY <1>4, <1>10, <1>11, <1>12, <1>13 DEF Merged, Reclaimed, c
<1> QED BY <1>1, <1>2, <1>14, Released DEF p

LEMMA FreeIntoDvAfterStep ==
  ASSUME Typed, Sound, NEW m \in live, FreeIntoDvAfter(m)
  PROVE  IInv' /\ (gm'.status = "ok" => Kept(gm.chunk, gm'.chunk))
<1> DEFINE p == mem2chunk(m.mem)
           b == Backward(gm, p)
           c == gm.chunk
           B == BinnedIn(gm)
           q == gm.dv
           s == gm.dvsize + b.size
           d == set_size_and_pinuse_of_free_chunk(Absorb(b.h.chunk, q), b.p, s)
           g == [b.h EXCEPT !.dv = b.p, !.dvsize = s, !.chunk = d]
<1>1. Freeing(m) /\ NextChunk(p) = q /\ Freed(m, g)
  BY DEF FreeIntoDvAfter
<1>2. gm \in MallocState /\ gm.status = "ok" /\ Whole(gm, live) /\ p \in UsedIn(c)
  BY <1>1, Held
<1>3. Backed(b, c, B, p) /\ q \in DOMAIN c /\ b.p # q /\ b.p # gm.top
  BY <1>1, <1>2, Neighbours
<1>4. /\ c \in ChunkMap /\ B = FreeIn(c) \ {gm.dv, gm.top} /\ gm.topsize = c[gm.top].size
      /\ gm.top \in FreeIn(c) /\ NULL \notin DOMAIN c /\ gm.dvsize \in Nat
      /\ gm.dv # NULL => gm.dv \in FreeIn(c) \ {gm.top} /\ gm.dvsize = c[gm.dv].size
  BY <1>2, WholeFacts, StateFields
<1>5. /\ q \in FreeIn(c) \ {gm.top} /\ gm.dvsize = c[q].size /\ q # gm.top /\ ~c[q].cinuse
      /\ b.size \in Nat
  BY <1>3, <1>4 DEF FreeIn, Backed
<1>6. s \in Nat /\ s = b.size + c[q].size
  <2>1. gm.dvsize + b.size = b.size + gm.dvsize
    BY <1>4, <1>5
  <2> QED BY <1>4, <1>5, <2>1
<1> HIDE DEF s
<1>7. Reclaimed(c, d, p, b.p, s, FreeIn(c) \ {q}, First(gm), gm.top, End(gm))
  BY <1>1, <1>2, <1>5, <1>6, ReclaimedAfter
<1> HIDE DEF p, b, c, B, d
<1>8. /\ b.p \in Nat /\ b.p \in DOMAIN c /\ b.h \in MallocState
      /\ BinsHold(b.h, c, B \ {b.p})
  BY <1>3 DEF Backed
<1>9. d \in ChunkMap /\ FreeIn(d) = (FreeIn(c) \ {q}) \cup {b.p} /\ d[b.p].size = s
  BY <1>7 DEF Reclaimed
<1>10. /\ g \in MallocState /\ SameBins(g, b.h) /\ g.chunk = d
       /\ g.dv = b.p /\ g.dvsize = s /\ g.top = gm.top /\ g.topsize = gm.topsize
       /\ g.status = "ok" /\ g.least_addr = gm.least_addr
  BY <1>2, <1>3, <1>6, <1>8, <1>9 DEF MallocState, SameBins, Backed, SameDvTop
<1> HIDE DEF g
<1>11. Cached(g)
  <2>1. d[gm.top].size = c[gm.top].size
    BY <1>3, <1>4, <1>5, <1>7 DEF Reclaimed
  <2>2. b.p # NULL
    BY <1>4, <1>8
  <2> QED BY <1>3, <1>4, <1>9, <1>10, <2>1, <2>2 DEF Cached
<1>12. BinnedIn(g) = B \ {b.p}
  BY <1>4, <1>9, <1>10 DEF BinnedIn
<1>13. BinsHold(g, d, B \ {b.p})
  <2>1. \A x \in B \ {b.p} : d[x].size = c[x].size
    BY <1>4, <1>7 DEF Reclaimed
  <2> QED BY <1>8, <1>10, <2>1, BinsKept
<1>14. Merged(g, p)
  BY <1>7, <1>10, <1>11, <1>12, <1>13 DEF Merged, Reclaimed, c
<1> QED BY <1>1, <1>2, <1>14, Released DEF p

(* The freed space goes to a bin.                                           *)
LEMMA Rebin ==
  ASSUME gm \in MallocState, Whole(gm, live), NEW p, NEW d, NEW a \in DOMAIN gm.chunk, NEW s, NEW F,
         Reclaimed(gm.chunk, d, p, a, s, F, First(gm), gm.top, End(gm)),
         F \subseteq FreeIn(gm.chunk), gm.top \in F, gm.dv # NULL => gm.dv \in F,
         a # gm.dv, a # gm.top,
         NEW h \in MallocState, h.chunk = d, SameDvTop(h, gm),
         h.least_addr = gm.least_addr, h.status = "ok",
         BinsHold(h, d, (F \ {gm.dv, gm.top}) \ {a})
  PROVE  Merged(insert_chunk(h, a, s), p)
<1> DEFINE c == gm.chunk
           B == (F \ {gm.dv, gm.top}) \ {a}
           g == insert_chunk(h, a, s)
<1>1. /\ d \in ChunkMap /\ Layout(d, First(gm), gm.top, End(gm))
      /\ UsedIn(d) = UsedIn(c) \ {p} /\ \A x \in UsedIn(d) : d[x].size = c[x].size
      /\ FreeIn(d) = F \cup {a} /\ d[a].size = s
      /\ \A x \in F \ {a} : d[x].size = c[x].size
  BY DEF Reclaimed
<1>2. /\ gm.topsize = c[gm.top].size
      /\ gm.dv = NULL => gm.dvsize = 0
      /\ gm.dv # NULL => gm.dvsize = c[gm.dv].size /\ gm.dv # gm.top
  BY WholeFacts
<1>3. gm.least_addr > 0
  BY DEF Whole
<1>4. B \in SUBSET DOMAIN d /\ a \in DOMAIN d /\ a \notin B
  BY <1>1 DEF FreeIn
<1>5. Inserted(g, h, d, B \cup {a})
  <2>1. BinsHold(h, d, B) /\ h.least_addr > 0 /\ \A x \in B : h.chunk[x].size = d[x].size
    BY <1>3
  <2> HIDE DEF g, B
  <2>2. Inserted(insert_chunk(h, a, d[a].size), h, d, B \cup {a})
    BY <1>1, <1>4, <2>1, InsertChunk
  <2> QED BY <1>1, <2>2 DEF g
<1> HIDE DEF g
<1>6. g \in MallocState /\ SameButBins(g, h)
  BY <1>5 DEF Inserted
<1>7. CASE g.status = "corrupted"
  BY <1>6, <1>7 DEF Merged, g
<1>8. CASE g.status # "corrupted"
  <2>1. g.status = "ok" /\ BinsHold(g, d, B \cup {a})
    BY <1>5, <1>8 DEF Inserted
  <2>2. /\ g.chunk = d /\ g.dv = gm.dv /\ g.dvsize = gm.dvsize /\ g.top = gm.top
        /\ g.topsize = gm.topsize /\ g.least_addr = gm.least_addr
    BY <1>6 DEF SameButBins, SameDvTop
  <2>3. Cached(g)
    BY <1>1, <1>2, <2>2 DEF Cached
  <2>4. BinnedIn(g) = B \cup {a}
    BY <1>1, <2>2 DEF BinnedIn
  <2> QED BY <1>1, <1>6, <2>1, <2>2, <2>3, <2>4 DEF Merged, g
<1> QED BY <1>7, <1>8

LEMMA FreeForwardStep ==
  ASSUME Typed, Sound, NEW m \in live, FreeForward(m)
  PROVE  IInv' /\ (gm'.status = "ok" => Kept(gm.chunk, gm'.chunk))
<1> DEFINE p == mem2chunk(m.mem)
           b == Backward(gm, p)
           c == gm.chunk
           B == BinnedIn(gm)
           q == NextChunk(p)
           s == b.size + gm.chunk[q].size
           F == FreeIn(c) \ {q}
           d == set_size_and_pinuse_of_free_chunk(Absorb(b.h.chunk, q), b.p, s)
           u == unlink_chunk(b.h, q, c[q].size)
           h == [u EXCEPT !.chunk = d]
           k == [h EXCEPT !.dvsize = s]
           g == IF b.p = gm.dv THEN k ELSE insert_chunk(h, b.p, s)
<1>1. Freeing(m) /\ ~c[q].cinuse /\ q \notin {gm.top, gm.dv}
  BY DEF FreeForward
<1>2. gm \in MallocState /\ gm.status = "ok" /\ Whole(gm, live) /\ p \in UsedIn(c)
  BY <1>1, Held
<1>3. Backed(b, c, B, p) /\ q \in DOMAIN c /\ b.p # q /\ b.p # gm.top
  BY <1>2, Neighbours
<1>4. /\ c \in ChunkMap /\ B = FreeIn(c) \ {gm.dv, gm.top} /\ gm.topsize = c[gm.top].size
      /\ B \in SUBSET DOMAIN c
      /\ gm.top \in FreeIn(c) /\ NULL \notin DOMAIN c
      /\ gm.dv = NULL => gm.dvsize = 0
      /\ gm.dv # NULL => gm.dv \in FreeIn(c) \ {gm.top} /\ gm.dvsize = c[gm.dv].size
  BY <1>2, WholeFacts
<1>5. Reclaimed(c, d, p, b.p, s, F, First(gm), gm.top, End(gm))
  BY <1>1, <1>2, ReclaimedAfter
<1>6. Freed(m, g)
  <2>1. u.chunk = b.h.chunk
    <3>1. q \in B
      BY <1>1, <1>3, <1>4 DEF FreeIn
    <3>2. b.h \in MallocState /\ BinsHold(b.h, c, B \ {b.p})
      BY <1>3 DEF Backed
    <3> HIDE DEF b, c, B, q, p
    <3>3. B \ {b.p} \in SUBSET DOMAIN c /\ q \in B \ {b.p}
      BY <1>3, <1>4, <3>1
    <3>4. Rebinned(u, b.h, c, (B \ {b.p}) \ {q})
      BY <1>4, <3>2, <3>3, UnlinkChunk
    <3> QED BY <3>4 DEF Rebinned, SameButBins
  <2> QED BY <2>1 DEF FreeForward
<1>7. s \in Nat
  <2>1. b.size \in Nat /\ c[q].size \in Nat
    BY <1>3, <1>4, ChunkMapFields DEF Backed
  <2> QED BY <2>1
<1> HIDE DEF p, b, c, B, q, s, d, u
<1>8. /\ b.h \in MallocState /\ BinsHold(b.h, c, B \ {b.p}) /\ b.p \in DOMAIN c
      /\ SameDvTop(b.h, gm) /\ b.h.least_addr = gm.least_addr /\ b.h.status = gm.status
  BY <1>3 DEF Backed
<1>9. Rebinned(u, b.h, c, (B \ {b.p}) \ {q})
  <2>1. q \in B \ {b.p}
    BY <1>1, <1>3, <1>4 DEF FreeIn
  <2>2. B \ {b.p} \in SUBSET DOMAIN c
    BY <1>4
  <2> QED BY <1>4, <1>8, <2>1, <2>2, UnlinkChunk DEF u
<1>10. d \in ChunkMap /\ FreeIn(d) = F \cup {b.p} /\ d[b.p].size = s
  BY <1>5 DEF Reclaimed
<1>11. /\ h \in MallocState /\ SameBins(h, u) /\ SameDvTop(h, gm) /\ h.chunk = d
       /\ h.status = "ok" /\ h.least_addr = gm.least_addr
  <2>1. /\ u \in MallocState /\ SameDvTop(u, gm) /\ u.least_addr = gm.least_addr
        /\ u.status = "ok"
    BY <1>2, <1>8, <1>9 DEF Rebinned, SameButBins, SameDvTop
  <2> QED BY <1>10, <2>1 DEF MallocState, SameBins, SameDvTop
<1> HIDE DEF h
<1>12. BinsHold(h, d, (B \ {b.p}) \ {q})
  <2>1. \A x \in (B \ {b.p}) \ {q} : d[x].size = c[x].size
    BY <1>4, <1>5 DEF Reclaimed, F
  <2> QED BY <1>9, <1>11, <2>1, BinsKept DEF Rebinned
<1>13. (F \ {gm.dv, gm.top}) \ {b.p} = (B \ {b.p}) \ {q}
  BY <1>4
<1>14. CASE b.p # gm.dv
  <2>1. F \subseteq FreeIn(c) /\ gm.top \in F /\ (gm.dv # NULL => gm.dv \in F)
    BY <1>1, <1>4
  <2>2. BinsHold(h, d, (F \ {gm.dv, gm.top}) \ {b.p})
    BY <1>12, <1>13
  <2> HIDE DEF F
  <2>3. Merged(insert_chunk(h, b.p, s), p)
    BY <1>2, <1>3, <1>5, <1>8, <1>11, <1>14, <2>1, <2>2, Rebin DEF c
  <2>4. Merged(g, p)
    BY <1>14, <2>3
  <2> QED BY <1>2, <1>6, <2>4, Released DEF p
<1>15. CASE b.p = gm.dv
  <2>1. /\ k \in MallocState /\ SameBins(k, h) /\ k.chunk = d
        /\ k.dv = gm.dv /\ k.dvsize = s /\ k.top = gm.top /\ k.topsize = gm.topsize
        /\ k.status = "ok" /\ k.least_addr = gm.least_addr
    BY <1>7, <1>11 DEF MallocState, SameBins, SameDvTop
  <2> HIDE DEF k
  <2>2. Cached(k)
    <3>1. d[gm.top].size = c[gm.top].size
      BY <1>1, <1>3, <1>4, <1>5 DEF Reclaimed
    <3>2. gm.dv # NULL
      BY <1>4, <1>8, <1>15
    <3> QED BY <1>3, <1>4, <1>10, <1>15, <2>1, <3>1, <3>2 DEF Cached
  <2>3. BinnedIn(k) = (B \ {b.p}) \ {q}
    BY <1>4, <1>10, <1>15, <2>1 DEF BinnedIn
  <2>4. BinsHold(k, d, (B \ {b.p}) \ {q})
    <3>1. \A x \in (B \ {b.p}) \ {q} : d[x].size = d[x].size
      OBVIOUS
    <3> QED BY <1>12, <2>1, <3>1, BinsKept
  <2>5. Merged(k, p)
    BY <1>5, <2>1, <2>2, <2>3, <2>4 DEF Merged, Reclaimed, c
  <2>6. Merged(g, p)
    BY <1>15, <2>5
  <2> QED BY <1>2, <1>6, <2>6, Released DEF p
<1> QED BY <1>14, <1>15

LEMMA FreeToBinStep ==
  ASSUME Typed, Sound, NEW m \in live, FreeToBin(m)
  PROVE  IInv' /\ (gm'.status = "ok" => Kept(gm.chunk, gm'.chunk))
<1> DEFINE p == mem2chunk(m.mem)
           b == Backward(gm, p)
           c == gm.chunk
           B == BinnedIn(gm)
           q == NextChunk(p)
           d == set_free_with_pinuse(b.h.chunk, b.p, b.size, q)
           h == [b.h EXCEPT !.chunk = d]
<1>1. Freeing(m) /\ c[q].cinuse /\ ~JoinsDvBefore(p) /\ Freed(m, insert_chunk(h, b.p, b.size))
  BY DEF FreeToBin
<1>2. gm \in MallocState /\ gm.status = "ok" /\ Whole(gm, live) /\ p \in UsedIn(c)
  BY <1>1, Held
<1>3. Backed(b, c, B, p) /\ c[q].pinuse /\ b.p # gm.top
  BY <1>2, Neighbours
<1>4. c[p].pinuse \/ p - c[p].foot # gm.dv
  BY <1>1, <1>3 DEF JoinsDvBefore
<1>5. Reclaimed(c, d, p, b.p, b.size, FreeIn(c), First(gm), gm.top, End(gm))
  BY <1>1, <1>2, ReclaimedBefore
<1>6. /\ c \in ChunkMap /\ B = FreeIn(c) \ {gm.dv, gm.top}
      /\ gm.top \in FreeIn(c) /\ NULL \notin DOMAIN c
      /\ gm.dv # NULL => gm.dv \in FreeIn(c) \ {gm.top}
  BY <1>2, WholeFacts
<1>7. p \in DOMAIN c /\ p \notin FreeIn(c)
  BY <1>2 DEF UsedIn, FreeIn
<1> HIDE DEF p, b, c, B, q, d
<1>8. /\ b.h \in MallocState /\ BinsHold(b.h, c, B \ {b.p}) /\ b.p \in DOMAIN c
      /\ SameDvTop(b.h, gm) /\ b.h.least_addr = gm.least_addr /\ b.h.status = gm.status
  BY <1>3 DEF Backed
<1>9. b.p # gm.dv
  <2>1. CASE c[p].pinuse
    <3>1. b.p = p
      BY <1>3, <2>1 DEF Backed
    <3> QED BY <1>6, <1>7, <3>1
  <2>2. CASE ~c[p].pinuse
    BY <1>3, <1>4, <2>2 DEF Backed
  <2> QED BY <2>1, <2>2
<1>10. d \in ChunkMap
  BY <1>5 DEF Reclaimed
<1>11. /\ h \in MallocState /\ SameBins(h, b.h) /\ SameDvTop(h, gm) /\ h.chunk = d
       /\ h.status = "ok" /\ h.least_addr = gm.least_addr
  BY <1>2, <1>8, <1>10 DEF MallocState, SameBins, SameDvTop
<1> HIDE DEF h
<1>12. BinsHold(h, d, (FreeIn(c) \ {gm.dv, gm.top}) \ {b.p})
  <2>1. \A x \in B \ {b.p} : d[x].size = c[x].size
    BY <1>5, <1>6 DEF Reclaimed
  <2>2. BinsHold(h, d, B \ {b.p})
    BY <1>8, <1>11, <2>1, BinsKept
  <2> QED BY <1>6, <2>2
<1>13. Merged(insert_chunk(h, b.p, b.size), p)
  BY <1>2, <1>3, <1>5, <1>6, <1>8, <1>9, <1>11, <1>12, Rebin DEF c
<1> QED BY <1>1, <1>2, <1>13, Released DEF p

-----------------------------------------------------------------------------
(* The invariant.                                                           *)

LEMMA InitIInv == Init => IInv
<1> SUFFICES ASSUME Init PROVE IInv
  OBVIOUS
<1>1. PICK status \in FreshStatus : gm = FreshState(status)
  BY DEF Init
<1>2. status \in {"ok", "stale"}
  BY UniConstants
<1>3. [x \in {} |-> NULL] \in ChunkMap
  <2>1. {} \in SUBSET Nat /\ [x \in {} |-> NULL] \in [{} -> ChunkHeader]
    OBVIOUS
  <2> QED BY <2>1 DEF ChunkMap
<1>4. gm \in MallocState
  BY <1>1, <1>2, <1>3 DEF FreshState, MallocState, NULL
<1>5. gm.status # "abort"
  BY <1>1, <1>2 DEF FreshState
<1>6. Fresh(gm, live)
  BY <1>1 DEF Init, Fresh, FreshState, NULL
<1>7. Typed
  <2>1. 0 \in 0 .. MaxSegments
    BY UniConstants
  <2> QED BY <1>4, <2>1 DEF Typed, Init
<1> QED BY <1>5, <1>6, <1>7 DEF IInv, Sound

LEMMA AllocSteps ==
  ASSUME Typed, Sound, NEW bytes \in Requests, Alloc(bytes)
  PROVE  IInv' /\ (gm'.status = "ok" => Kept(gm.chunk, gm'.chunk))
<1>1. CASE AllocExactBin(bytes)
  BY <1>1, AllocExactBinStep
<1>2. CASE AllocLargerBin(bytes)
  BY <1>2, AllocLargerBinStep
<1>3. CASE AllocSmallFromTree(bytes)
  BY <1>3, AllocSmallFromTreeStep
<1>4. CASE AllocLargeFromTree(bytes)
  BY <1>4, AllocLargeFromTreeStep
<1>5. CASE AllocFromDv(bytes)
  BY <1>5, AllocFromDvStep
<1>6. CASE AllocFromTop(bytes)
  BY <1>6, AllocFromTopStep
<1>7. CASE InitOrExpand(bytes)
  BY <1>7, InitOrExpandStep
<1>8. CASE AllocStale(bytes)
  <2>1. gm' \in MallocState /\ gm'.status = "undefined"
    BY <1>8 DEF AllocStale, Typed, MallocState
  <2> QED BY <1>8, <2>1 DEF AllocStale, Typed, Sound, IInv
<1> QED BY <1>1, <1>2, <1>3, <1>4, <1>5, <1>6, <1>7, <1>8 DEF Alloc

LEMMA FreeSteps ==
  ASSUME Typed, Sound, Free
  PROVE  IInv' /\ (gm'.status = "ok" => Kept(gm.chunk, gm'.chunk))
<1>1. ASSUME NEW m \in live, FreeIntoDvBefore(m)
      PROVE  IInv' /\ (gm'.status = "ok" => Kept(gm.chunk, gm'.chunk))
  BY <1>1, FreeIntoDvBeforeStep
<1>2. ASSUME NEW m \in live, FreeIntoTop(m)
      PROVE  IInv' /\ (gm'.status = "ok" => Kept(gm.chunk, gm'.chunk))
  BY <1>2, FreeIntoTopStep
<1>3. ASSUME NEW m \in live, FreeIntoDvAfter(m)
      PROVE  IInv' /\ (gm'.status = "ok" => Kept(gm.chunk, gm'.chunk))
  BY <1>3, FreeIntoDvAfterStep
<1>4. ASSUME NEW m \in live, FreeForward(m)
      PROVE  IInv' /\ (gm'.status = "ok" => Kept(gm.chunk, gm'.chunk))
  BY <1>4, FreeForwardStep
<1>5. ASSUME NEW m \in live, FreeToBin(m)
      PROVE  IInv' /\ (gm'.status = "ok" => Kept(gm.chunk, gm'.chunk))
  BY <1>5, FreeToBinStep
<1> QED BY <1>1, <1>2, <1>3, <1>4, <1>5 DEF Free

LEMMA Steps ==
  ASSUME IInv, [Next]_vars
  PROVE  IInv' /\ (gm'.status = "ok" => Kept(gm.chunk, gm'.chunk))
<1>1. Typed /\ Sound
  BY DEF IInv
<1>2. CASE Free
  BY <1>1, <1>2, FreeSteps
<1>3. ASSUME NEW bytes \in Requests, Alloc(bytes)
      PROVE  IInv' /\ (gm'.status = "ok" => Kept(gm.chunk, gm'.chunk))
  BY <1>1, <1>3, AllocSteps
<1>4. CASE UNCHANGED vars
  BY <1>4 DEF vars, IInv, Typed, Sound, Kept
<1> QED BY <1>2, <1>3, <1>4 DEF Next

(* Whatever sequence of Alloc and Free a client makes, between two calls    *)
(* the segment is whole: chunks, tags, bins, dv, top and the clients'       *)
(* allocations agree with each other (uni_allocator.cc:38-236).             *)
THEOREM Invariance == Spec => []IInv
<1>1. IInv /\ [Next]_vars => IInv'
  BY Steps
<1> QED BY InitIInv, <1>1, PTL DEF Spec

-----------------------------------------------------------------------------
(* What the invariant says.                                                 *)

(* The MallocState, the headers and the clients' pointers keep the types of *)
(* their declarations: no size or address computed by Alloc or Free is      *)
(* negative (uni_allocator.h:69-92, chunk.h:70-76).                         *)
THEOREM TypesCorrect == Spec => []TypeOK
<1>1. ASSUME IInv PROVE TypeOK
  <2>1. gm \in MallocState
    BY <1>1 DEF IInv, Typed
  <2>2. Chunks \subseteq Nat /\ \A p \in Chunks : gm.chunk[p] \in ChunkHeader
    BY <2>1, StateFields, ChunkMapFields DEF Chunks
  <2> QED BY <1>1, <2>1, <2>2 DEF IInv, Typed, TypeOK, MallocState
<1> QED BY Invariance, <1>1, PTL

LEMMA RunningWhole ==
  ASSUME IInv, Running
  PROVE  /\ gm \in MallocState /\ Whole(gm, live)
         /\ FirstChunk = First(gm) /\ ArenaEnd = End(gm)
         /\ Chunks = DOMAIN gm.chunk /\ FreeChunks = FreeIn(gm.chunk)
         /\ Binned = BinnedIn(gm)
         /\ \A p : NextChunk(p) = NextIn(gm.chunk, p)
<1>1. Whole(gm, live)
  BY DEF IInv, Sound, Running, Fresh
<1>2. gm \in MallocState
  BY DEF IInv, Typed
<1> QED BY <1>1, <1>2 DEF FirstChunk, First, ArenaEnd, End, Chunks, FreeChunks, FreeIn,
                          Binned, BinnedIn, NextChunk, NextIn

(* Splitting in Alloc and consolidating in Free compute every size right:   *)
(* the chunks tile the segment, top last (uni_allocator.cc:38-236).         *)
THEOREM SegmentTiled == Spec => []HeapTiled
<1>1. ASSUME IInv PROVE HeapTiled
  <2> SUFFICES ASSUME Running
               PROVE  /\ FirstChunk \in Chunks
                      /\ gm.top \in Chunks /\ NextChunk(gm.top) = ArenaEnd
                      /\ \A p \in Chunks \ {gm.top} : NextChunk(p) \in Chunks
                      /\ \A p, q \in Chunks : p < q => NextChunk(p) <= q
    BY DEF HeapTiled
  <2> QED BY <1>1, RunningWhole DEF Whole, Layout, Tiled
<1> QED BY Invariance, <1>1, PTL

(* The boundary tags Free relies on agree with the chunk before them        *)
(* (chunk.h:53-68, uni_allocator.cc:163-181).                               *)
THEOREM TagsAgree == Spec => []BoundaryTags
<1>1. ASSUME IInv PROVE BoundaryTags
  BY <1>1, RunningWhole DEF BoundaryTags, Whole, Layout, Tagged
<1> QED BY Invariance, <1>1, PTL

(* Two neighbours are never both free: Free consolidates in all of its      *)
(* cases, and no Alloc leaves a remainder next to a free chunk              *)
(* (uni_allocator.cc:143).                                                  *)
THEOREM AlwaysConsolidated == Spec => []NoAdjacentFree
<1>1. ASSUME IInv PROVE NoAdjacentFree
  BY <1>1, RunningWhole DEF NoAdjacentFree, Whole, Layout, Coalesced
<1> QED BY Invariance, <1>1, PTL

(* The bins hold exactly the free chunks that are neither dv nor top, each  *)
(* once and in the bin of its size, and the bit maps say which bins are     *)
(* empty (uni_allocator.h:236-455).                                         *)
THEOREM BinsAgree == Spec => []BinsExact
<1>1. ASSUME IInv PROVE BinsExact
  <2> SUFFICES ASSUME Running PROVE BinsHold(gm, gm.chunk, Binned)
    BY DEF BinsExact, BinsHold
  <2> QED BY <1>1, RunningWhole DEF Whole
<1> QED BY Invariance, <1>1, PTL

(* dv and top are free chunks of the sizes cached for them                  *)
(* (uni_allocator.h:317-325, uni_allocator.cc:97-121).                      *)
THEOREM CachesAgree == Spec => []CachedSizes
<1>1. ASSUME IInv PROVE CachedSizes
  <2> SUFFICES ASSUME Running
               PROVE  /\ gm.topsize = gm.chunk[gm.top].size /\ gm.top \in FreeChunks
                      /\ IF gm.dv = NULL THEN gm.dvsize = 0
                         ELSE gm.dv \in FreeChunks \ {gm.top} /\ gm.dvsize = gm.chunk[gm.dv].size
    BY DEF CachedSizes
  <2>1. gm \in MallocState /\ Whole(gm, live) /\ FreeChunks = FreeIn(gm.chunk)
    BY <1>1, RunningWhole
  <2>2. gm.top \in FreeIn(gm.chunk)
    BY <2>1, WholeFacts
  <2> QED BY <2>1, <2>2 DEF Whole, Cached
<1> QED BY Invariance, <1>1, PTL

(* The chunks in use are those the clients hold, one each, aligned and less *)
(* than MIN_CHUNK_SIZE larger than the padded request                       *)
(* (do_check_malloced_chunk, uni_allocator.h:221-234).                      *)
THEOREM ClientsServed == Spec => []LiveExact
<1>1. ASSUME IInv PROVE LiveExact
  <2> SUFFICES ASSUME Running
               PROVE  /\ {mem2chunk(m.mem) : m \in live} = {p \in Chunks : gm.chunk[p].cinuse}
                      /\ \A m, n \in live : m.mem = n.mem => m = n
                      /\ \A m \in live :
                           LET s == gm.chunk[mem2chunk(m.mem)].size
                               nb == request2size(m.bytes)
                           IN nb <= s /\ s < nb + MIN_CHUNK_SIZE /\ s % MALLOC_ALIGNMENT = 0
    BY DEF LiveExact
  <2>1. gm \in MallocState /\ Whole(gm, live) /\ Chunks = DOMAIN gm.chunk
    BY <1>1, RunningWhole
  <2>2. {p \in Chunks : gm.chunk[p].cinuse} = UsedIn(gm.chunk)
    BY <2>1 DEF UsedIn
  <2>3. Served(gm.chunk, live)
    BY <2>1 DEF Whole
  <2>4. \A p \in UsedIn(gm.chunk) : gm.chunk[p].size % 16 = 0
    <3>1. /\ gm.chunk \in ChunkMap /\ First(gm) \in Nat /\ gm.top \in Nat /\ End(gm) \in Nat
          /\ Layout(gm.chunk, First(gm), gm.top, End(gm))
      BY <2>1, WholeFacts, StateFields
    <3> QED BY <3>1, LayoutFacts DEF UsedIn, FreeIn
  <2>5. \A m \in live : mem2chunk(m.mem) \in UsedIn(gm.chunk)
    BY <2>3 DEF Served
  <2> QED BY <2>2, <2>3, <2>4, <2>5 DEF Served, MALLOC_ALIGNMENT
<1> QED BY Invariance, <1>1, PTL

(* Every check of Free's argument passes, and the assertions of the source  *)
(* hold where they are reached: no legal Free is ignored                    *)
(* (uni_allocator.cc:160, 183; uni_allocator.h:241, 318).                   *)
THEOREM NoCheckFails == Spec => []ChecksPass
<1>1. ASSUME IInv PROVE ChecksPass
  <2> DEFINE c == gm.chunk
  <2>1. gm.status # "abort"
    BY <1>1 DEF IInv
  <2>2. ASSUME gm.status = "ok", NEW m \in live PROVE Accepted(m.mem)
    <3> DEFINE p == mem2chunk(m.mem)
               q == NextChunk(p)
    <3>1. gm \in MallocState /\ Whole(gm, live)
      BY <1>1, <2>2 DEF IInv, Typed, Sound, Fresh
    <3>2. p \in UsedIn(c)
      BY <3>1 DEF Whole, Served
    <3>3. /\ c \in ChunkMap /\ First(gm) \in Nat /\ gm.top \in Nat /\ End(gm) \in Nat
          /\ Layout(c, First(gm), gm.top, End(gm)) /\ gm.least_addr \in Nat
      BY <3>1, WholeFacts, StateFields
    <3>4. p \in DOMAIN c /\ c[p].cinuse /\ p \in Nat /\ First(gm) <= p
      BY <3>2, <3>3, LayoutFacts DEF UsedIn
    <3>5. p < q /\ q \in DOMAIN c /\ c[q].pinuse
      BY <3>1, <3>2, Neighbours
    <3>6. gm.least_addr <= First(gm)
      <4>1. chunk2mem(gm.least_addr) \in Nat
        BY <3>3 DEF chunk2mem, TWO_SIZE_T_SIZES
      <4>2. align_offset(chunk2mem(gm.least_addr)) \in 0 .. 15
        BY <4>1, AlignOffset
      <4> QED BY <3>3, <4>2 DEF First
    <3>7. q \in Nat /\ gm.least_addr <= p
      BY <3>3, <3>4, <3>5, <3>6, ChunkMapFields
    <3> HIDE DEF q
    <3>8. q > p
      BY <3>4, <3>5, <3>7
    <3> QED BY <3>4, <3>5, <3>7, <3>8 DEF Accepted, ok_address, is_inuse, q
  <2>3. ASSUME Running, NEW p \in Binned PROVE c[p].size >= MIN_CHUNK_SIZE
    <3>1. gm \in MallocState /\ Whole(gm, live) /\ Binned = FreeIn(c) \ {gm.dv, gm.top}
      BY <1>1, <2>3, RunningWhole DEF BinnedIn
    <3>2. /\ c \in ChunkMap /\ First(gm) \in Nat /\ gm.top \in Nat /\ End(gm) \in Nat
          /\ Layout(c, First(gm), gm.top, End(gm))
      BY <3>1, WholeFacts, StateFields
    <3>3. p \in DOMAIN c \ {gm.top}
      BY <3>1, <2>3 DEF FreeIn
    <3> QED BY <3>2, <3>3, LayoutFacts DEF MIN_CHUNK_SIZE
  <2> QED BY <2>1, <2>2, <2>3 DEF ChecksPass
<1> QED BY Invariance, <1>1, PTL

(* No sequence of calls fragments the segment for good: once everything was *)
(* handed back, it is the one top chunk that init_top made                  *)
(* (uni_allocator.cc:143-236).                                              *)
THEOREM NothingStaysSplit == Spec => []AtRestOneTop
<1>1. ASSUME IInv PROVE AtRestOneTop
  <2> DEFINE c == gm.chunk
  <2> SUFFICES ASSUME Running, live = {} PROVE DOMAIN c = {gm.top}
    BY DEF AtRestOneTop, Chunks
  <2>1. gm \in MallocState /\ Whole(gm, live)
    BY <1>1, RunningWhole
  <2>2. /\ c \in ChunkMap /\ First(gm) \in Nat /\ gm.top \in Nat /\ End(gm) \in Nat
        /\ Layout(c, First(gm), gm.top, End(gm))
    BY <2>1, WholeFacts, StateFields
  <2>3. UsedIn(c) = {}
    BY <2>1 DEF Whole, Served
  <2>4. ASSUME NEW p \in DOMAIN c \ {gm.top} PROVE FALSE
    <3>1. p \in FreeIn(c) \ {gm.top} /\ NextIn(c, p) \in DOMAIN c
      BY <2>2, <2>3, LayoutFacts DEF FreeIn, UsedIn
    <3>2. c[NextIn(c, p)].cinuse
      BY <2>2, <3>1 DEF Layout, Coalesced
    <3> QED BY <2>3, <3>1, <3>2 DEF UsedIn
  <2>5. gm.top \in DOMAIN c
    BY <2>2 DEF Layout, Tiled
  <2> QED BY <2>4, <2>5
<1> QED BY Invariance, <1>1, PTL

-----------------------------------------------------------------------------
(* What a step may never do.                                                *)

(* An allocation keeps its chunk and its size until it is handed back: no   *)
(* other Alloc or Free splits, merges or moves it                           *)
(* (uni_allocator.cc:38-236).                                               *)
THEOREM OthersUntouched == Spec => LiveUntouched
<1> DEFINE Untouched ==
      \A m \in live \cap live' :
        LET p == mem2chunk(m.mem) IN
        gm'.status = "ok" =>
          p \in DOMAIN gm'.chunk /\ gm'.chunk[p].size = gm.chunk[p].size
<1>1. ASSUME IInv, IInv', Next PROVE Untouched
  <2> SUFFICES ASSUME NEW m \in live \cap live', gm'.status = "ok"
               PROVE  /\ mem2chunk(m.mem) \in DOMAIN gm'.chunk
                      /\ gm'.chunk[mem2chunk(m.mem)].size = gm.chunk[mem2chunk(m.mem)].size
    OBVIOUS
  <2>1. Kept(gm.chunk, gm'.chunk)
    BY <1>1, Steps
  <2>2. gm.status = "ok"
    <3>1. CASE \E bytes \in Requests : AllocStale(bytes)
      BY <3>1 DEF AllocStale, IInv, Typed, MallocState
    <3> QED BY <1>1, <3>1 DEF Next, Free, FreeIntoDvBefore, FreeIntoTop, FreeIntoDvAfter, FreeForward, FreeToBin,
                Freeing, Alloc, AllocExactBin, AllocLargerBin, AllocSmallFromTree,
                AllocLargeFromTree, AllocFromDv, AllocFromTop, InitOrExpand, Calling
  <2>3. Served(gm.chunk, live)
    BY <1>1, <2>2 DEF IInv, Sound, Fresh, Whole
  <2>4. Served(gm.chunk, live)'
    BY <1>1 DEF IInv, Sound, Fresh, Whole
  <2>5. mem2chunk(m.mem) \in UsedIn(gm.chunk) \cap UsedIn(gm'.chunk)
    BY <2>3, <2>4 DEF Served
  <2> QED BY <2>1, <2>5 DEF Kept, UsedIn
<1>2. IInv /\ IInv' /\ [Next]_vars => [Untouched]_vars
  BY <1>1
<1> QED BY Invariance, <1>2, PTL DEF Spec, LiveUntouched

(* Where a new allocation comes from.                                       *)
LEMMA ReturnedIs ==
  ASSUME NEW bytes, NEW p \in Nat, NEW h, Return(bytes, p, h), NEW m \in live' \ live
  PROVE  Chosen(m) = p /\ m.bytes = bytes /\ m = [mem |-> chunk2mem(p), bytes |-> bytes]
<1>1. m = [mem |-> chunk2mem(p), bytes |-> bytes]
  BY DEF Return
<1>2. m.mem = p + 32 /\ m.bytes = bytes
  BY <1>1 DEF chunk2mem, TWO_SIZE_T_SIZES
<1> QED BY <1>1, <1>2 DEF Chosen, mem2chunk, TWO_SIZE_T_SIZES

FromBin(bytes, p)  == Small(bytes) /\ p \in BinnedIn(gm)
FromTree(bytes, p) == UsesTree(bytes) /\ p = LargeFit(ChunkFor(bytes)) /\ p \in BinnedIn(gm)
FromDv(bytes, p)   == NoBinServes(bytes) /\ ChunkFor(bytes) <= gm.dvsize /\ p = gm.dv
FromTop(bytes, p)  == NoBinServes(bytes) /\ ChunkFor(bytes) > gm.dvsize /\ p = gm.top

Source(bytes, m) ==
  /\ gm \in MallocState /\ Whole(gm, live) /\ bytes \in Nat /\ bytes < MAX_REQUEST
  /\ m.bytes = bytes
  /\ \/ FromBin(bytes, Chosen(m)) \/ FromTree(bytes, Chosen(m))
     \/ FromDv(bytes, Chosen(m))  \/ FromTop(bytes, Chosen(m))

LEMMA ComesFrom ==
  ASSUME IInv, NEW bytes \in Requests, Alloc(bytes), NEW m \in live' \ live
  PROVE  Source(bytes, m)
<1> DEFINE nb == ChunkFor(bytes)
           c == gm.chunk
           B == BinnedIn(gm)
<1>0. Typed /\ Sound
  BY DEF IInv
<1>1. ~InitOrExpand(bytes) /\ ~AllocStale(bytes)
  BY DEF InitOrExpand, AllocStale
<1>2. /\ gm \in MallocState /\ Whole(gm, live) /\ bytes \in Nat /\ bytes < MAX_REQUEST
  BY <1>0, <1>1, Serving DEF Alloc, AllocExactBin, AllocLargerBin, AllocSmallFromTree,
                             AllocLargeFromTree, AllocFromDv, AllocFromTop
<1>3. /\ c \in ChunkMap /\ B \in SUBSET DOMAIN c /\ BinsHold(gm, c, B)
      /\ \A x \in DOMAIN c : x \in Nat
      /\ gm.smallmap \in SUBSET Nat /\ gm.treemap \in SUBSET Nat /\ gm.dv \in Nat /\ gm.top \in Nat
  <2>1. gm.smallmap \in SUBSET BinIndex /\ gm.treemap \in SUBSET BinIndex /\ BinIndex \subseteq Nat
    BY <1>2, StateFields DEF BinIndex
  <2> QED BY <1>2, <2>1, WholeFacts, StateFields, ChunkMapFields
<1>4. \A i \in gm.smallmap : Head(gm.smallbins[i]) \in B /\ Head(gm.smallbins[i]) \in Nat
  <2> HIDE DEF c, B
  <2> QED BY <1>2, <1>3, UnlinkFirst
<1>5. \A i \in gm.treemap : Head(gm.treebins[i]) \in B /\ Head(gm.treebins[i]) \in Nat
  <2> HIDE DEF c, B
  <2> QED BY <1>2, <1>3, TreeRoot
<1>6. CASE AllocExactBin(bytes)
  <2> DEFINE i == Min(ExactBins(nb))
             p == Head(gm.smallbins[i])
  <2>1. Small(bytes) /\ ExactBins(nb) # {} /\ ExactBins(nb) \in SUBSET gm.smallmap
    BY <1>6 DEF AllocExactBin, UsesExactBin, ExactBins
  <2>2. i \in gm.smallmap
    BY <1>3, <2>1, MinIsLeast
  <2>3. PICK h : Return(bytes, p, h)
    BY <1>6 DEF AllocExactBin
  <2> HIDE DEF i, nb
  <2>4. p \in B /\ p \in Nat
    BY <1>4, <2>2
  <2> HIDE DEF p
  <2>5. Chosen(m) = p /\ m.bytes = bytes
    BY <2>3, <2>4, ReturnedIs
  <2> QED BY <1>2, <2>1, <2>4, <2>5 DEF Source, FromBin
<1>7. CASE AllocLargerBin(bytes)
  <2> DEFINE i == Min(LargerBins(nb))
             p == Head(gm.smallbins[i])
  <2>1. Small(bytes) /\ LargerBins(nb) # {} /\ LargerBins(nb) \in SUBSET gm.smallmap
    BY <1>7 DEF AllocLargerBin, UsesLargerBin, LargerBins
  <2>2. i \in gm.smallmap
    BY <1>3, <2>1, MinIsLeast
  <2>3. PICK h : Return(bytes, p, h)
    BY <1>7 DEF AllocLargerBin
  <2> HIDE DEF i, nb
  <2>4. p \in B /\ p \in Nat
    BY <1>4, <2>2
  <2> HIDE DEF p
  <2>5. Chosen(m) = p /\ m.bytes = bytes
    BY <2>3, <2>4, ReturnedIs
  <2> QED BY <1>2, <2>1, <2>4, <2>5 DEF Source, FromBin
<1>8. CASE AllocSmallFromTree(bytes)
  <2> DEFINE i == Min(gm.treemap)
             p == Head(gm.treebins[i])
  <2>1. Small(bytes) /\ gm.treemap # {}
    BY <1>8 DEF AllocSmallFromTree, UsesSmallestTree
  <2>2. i \in gm.treemap
    BY <1>3, <2>1, MinIsLeast
  <2>3. PICK h : Return(bytes, p, h)
    BY <1>8 DEF AllocSmallFromTree
  <2> HIDE DEF i
  <2>4. p \in B /\ p \in Nat
    BY <1>5, <2>2
  <2> HIDE DEF p
  <2>5. Chosen(m) = p /\ m.bytes = bytes
    BY <2>3, <2>4, ReturnedIs
  <2> QED BY <1>2, <2>1, <2>4, <2>5 DEF Source, FromBin
<1>9. CASE AllocLargeFromTree(bytes)
  <2> DEFINE p == LargeFit(nb)
  <2>1. UsesTree(bytes) /\ ~Small(bytes) /\ p # NULL
    BY <1>9 DEF AllocLargeFromTree, UsesTree
  <2>2. nb \in 256 .. SizeModulus - 1
    <3>1. nb \in Nat /\ nb >= 256 /\ nb < SizeModulus
      BY <1>2, <2>1, RequestSize
    <3> QED BY <3>1, SizeModulusAssumption
  <2>3. PICK h : Return(bytes, p, h)
    BY <1>9 DEF AllocLargeFromTree
  <2> HIDE DEF nb
  <2>4. p \in B /\ p \in Nat
    <3>1. p \in B
      BY <1>2, <2>1, <2>2, LargeFitIs
    <3> QED BY <1>3, <3>1
  <2>5. p = LargeFit(ChunkFor(bytes))
    BY DEF nb
  <2> HIDE DEF p
  <2>6. Chosen(m) = p /\ m.bytes = bytes
    BY <2>3, <2>4, ReturnedIs
  <2> QED BY <1>2, <2>1, <2>4, <2>5, <2>6 DEF Source, FromTree
<1>10. CASE AllocFromDv(bytes)
  <2>1. NoBinServes(bytes) /\ nb <= gm.dvsize /\ \E h : Return(bytes, gm.dv, h)
    BY <1>10 DEF AllocFromDv
  <2>2. Chosen(m) = gm.dv /\ m.bytes = bytes
    BY <1>3, <2>1, ReturnedIs
  <2> QED BY <1>2, <2>1, <2>2 DEF Source, FromDv
<1>11. CASE AllocFromTop(bytes)
  <2>1. NoBinServes(bytes) /\ nb > gm.dvsize /\ \E h : Return(bytes, gm.top, h)
    BY <1>11 DEF AllocFromTop
  <2>2. Chosen(m) = gm.top /\ m.bytes = bytes
    BY <1>3, <2>1, ReturnedIs
  <2> QED BY <1>2, <2>1, <2>2 DEF Source, FromTop
<1> QED BY <1>1, <1>6, <1>7, <1>8, <1>9, <1>10, <1>11 DEF Alloc

(* What NoBinServes says of the chunks in bins: none is large enough, or dv *)
(* is, and dv is the better fit of a large request.                         *)
LEMMA BinsAreSearched ==
  ASSUME SegmentIndexed, gm \in MallocState, Whole(gm, live), NEW bytes \in Nat, bytes < MAX_REQUEST,
         NoBinServes(bytes), NEW q \in BinnedIn(gm), ChunkFor(bytes) <= gm.chunk[q].size
  PROVE  ChunkFor(bytes) <= gm.dvsize /\ (~Small(bytes) => gm.dvsize <= gm.chunk[q].size)
<1> DEFINE nb == ChunkFor(bytes)
           c == gm.chunk
           B == BinnedIn(gm)
           S == c[q].size
<1>1. nb \in Nat /\ nb >= 32 /\ nb < SizeModulus /\ (~Small(bytes) => nb >= 256) /\ (Small(bytes) => nb < 256)
  BY RequestSize
<1>2. /\ c \in ChunkMap /\ B \in SUBSET DOMAIN c /\ BinsHold(gm, c, B)
      /\ \A x \in DOMAIN c : c[x].size \in 1 .. SizeModulus - 9
      /\ gm.dvsize \in 0 .. SizeModulus - 9
  BY WholeFacts
<1>3. S \in Nat /\ nb <= S /\ S < SizeModulus /\ gm.dvsize \in Nat
  <2>1. S \in 1 .. SizeModulus - 9
    BY <1>2
  <2> QED BY <1>2, <2>1, SizeModulusAssumption
<1>4. /\ ~UsesExactBin(bytes) /\ ~UsesLargerBin(bytes)
      /\ ~UsesSmallestTree(bytes) /\ ~UsesTree(bytes)
  BY DEF NoBinServes
<1>5. CASE Small(bytes)
  <2> SUFFICES ASSUME nb > gm.dvsize PROVE FALSE
    BY <1>1, <1>3, <1>5
  <2>1. CASE is_small(S)
    <3> DEFINE i == small_index(S)
    <3>1. i \in BinIndex /\ i \in Nat /\ small_index(nb) \in Nat /\ small_index(nb) <= i
      <4>1. i \in BinIndex
        BY <1>3, <2>1, SmallIndex
      <4> QED BY <1>1, <1>3, <4>1 DEF small_index, BinIndex
    <3>2. q \in ToSet(gm.smallbins[i])
      BY <1>2, <2>1, <3>1 DEF BinsHold
    <3>3. i \in gm.smallmap
      <4>1. gm.smallbins[i] # << >>
        BY <3>2 DEF ToSet
      <4> QED BY <1>2, <3>1, <4>1 DEF BinsHold
    <3> HIDE DEF i
    <3>4. CASE i = small_index(nb)
      <4>1. i \in ExactBins(nb)
        BY <3>3, <3>4 DEF ExactBins
      <4> QED BY <1>4, <1>5, <4>1 DEF UsesExactBin
    <3>5. CASE i > small_index(nb)
      <4>1. i \in LargerBins(nb)
        BY <3>3, <3>5 DEF LargerBins
      <4> QED BY <1>4, <1>5, <4>1 DEF UsesLargerBin
    <3> QED BY <3>1, <3>4, <3>5
  <2>2. CASE ~is_small(S)
    <3> DEFINE i == compute_tree_index(S)
    <3>1. i \in BinIndex
      <4>1. S \in Nat /\ S >= 256
        BY <1>3, <2>2 DEF is_small, MIN_LARGE_SIZE
      <4> QED BY <4>1, TreeIndexIn
    <3>2. q \in ToSet(gm.treebins[i])
      BY <1>2, <2>2, <3>1 DEF BinsHold
    <3>3. i \in gm.treemap
      <4>1. gm.treebins[i] # << >>
        BY <3>2 DEF ToSet
      <4> QED BY <1>2, <3>1, <4>1 DEF BinsHold
    <3> QED BY <1>4, <1>5, <3>3 DEF UsesSmallestTree
  <2> QED BY <2>1, <2>2
<1>6. CASE ~Small(bytes)
  <2> DEFINE v == LargeFit(nb)
  <2>1. nb \in 256 .. SizeModulus - 1 /\ nb \in 1 .. SizeModulus - 1
    BY <1>1, <1>6, SizeModulusAssumption
  <2> HIDE DEF nb
  <2>2. v # NULL /\ c[v].size <= S
    BY <1>3, <2>1, LargeFitBest
  <2>3. v \in B /\ nb <= c[v].size /\ c[v].size <= S
    BY <1>3, <2>1, <2>2, LargeFitIs
  <2>4. ~(Wrap(c[v].size - nb) < Wrap(gm.dvsize - nb))
    BY <1>4, <1>6, <2>2 DEF UsesTree, nb
  <2> HIDE DEF v
  <2>5. c[v].size \in 0 .. SizeModulus - 1 /\ gm.dvsize \in 0 .. SizeModulus - 1
    <3>1. c[v].size \in 1 .. SizeModulus - 9
      BY <1>2, <2>3
    <3> QED BY <1>2, <3>1, SizeModulusAssumption
  <2>6. /\ Wrap(c[v].size - nb) = c[v].size - nb
        /\ Wrap(gm.dvsize - nb) = IF nb <= gm.dvsize THEN gm.dvsize - nb
                                  ELSE SizeModulus + gm.dvsize - nb
    BY <2>1, <2>3, <2>5, WrapRemainder
  <2>7. nb <= gm.dvsize
    <3> SUFFICES ASSUME gm.dvsize < nb PROVE FALSE
      BY <1>1, <1>3
    <3>1. Wrap(gm.dvsize - nb) = SizeModulus + gm.dvsize - nb
      BY <1>1, <1>3, <2>6
    <3>2. c[v].size - nb < SizeModulus + gm.dvsize - nb
      BY <1>1, <1>3, <2>5, SizeModulusAssumption
    <3> QED BY <2>4, <2>6, <3>1, <3>2
  <2>8. gm.dvsize <= c[v].size
    BY <1>1, <1>3, <2>4, <2>5, <2>6, <2>7, SizeModulusAssumption
  <2>9. c[v].size \in Nat
    BY <2>5, SizeModulusAssumption
  <2> QED BY <1>3, <2>3, <2>7, <2>8, <2>9 DEF nb
<1> QED BY <1>5, <1>6

(* A chunk that would fit is in a bin, or it is dv.                         *)
LEMMA FittingIs ==
  ASSUME NEW bytes, NEW m, Source(bytes, m), NEW q \in Fitting(m)
  PROVE  /\ q \in FreeIn(gm.chunk) /\ gm.chunk[q].size \in Nat
         /\ ChunkFor(bytes) \in Nat /\ gm.dvsize \in Nat
         /\ ChunkFor(bytes) <= gm.chunk[q].size
         /\ q \in BinnedIn(gm) \/ (q = gm.dv /\ gm.chunk[q].size = gm.dvsize)
<1>1. gm \in MallocState /\ Whole(gm, live) /\ bytes \in Nat /\ bytes < MAX_REQUEST /\ m.bytes = bytes
  BY DEF Source
<1>2. q \in FreeIn(gm.chunk) \ {gm.top} /\ gm.chunk[q].size >= request2size(bytes)
  BY <1>1 DEF Fitting, FreeChunks, Chunks, FreeIn
<1>3. ChunkFor(bytes) = request2size(bytes) /\ ChunkFor(bytes) \in Nat
  BY <1>1, RequestSize
<1>4. q \in DOMAIN gm.chunk
  BY <1>2 DEF FreeIn
<1>5. gm.chunk[q].size \in Nat /\ gm.dvsize \in Nat
  BY <1>1, <1>4, StateFields, ChunkMapFields
<1>6. q \in BinnedIn(gm) \/ q = gm.dv
  BY <1>2 DEF BinnedIn
<1>7. q = gm.dv => gm.chunk[q].size = gm.dvsize
  BY <1>1, <1>4, WholeFacts
<1> QED BY <1>2, <1>3, <1>5, <1>6, <1>7

LEMMA TopServesLast ==
  ASSUME SegmentIndexed, IInv, Next, NEW m \in live' \ live, Chosen(m) = gm.top
  PROVE  Fitting(m) = {}
<1>1. ~Free
  BY DEF Free, FreeIntoDvBefore, FreeIntoTop, FreeIntoDvAfter, FreeForward, FreeToBin, Freed
<1>2. PICK bytes \in Requests : Alloc(bytes)
  BY <1>1 DEF Next
<1>3. Source(bytes, m)
  BY <1>2, ComesFrom
<1>4. gm \in MallocState /\ Whole(gm, live) /\ bytes \in Nat /\ bytes < MAX_REQUEST
  BY <1>3 DEF Source
<1>5. gm.top \notin BinnedIn(gm) /\ gm.dv # gm.top
  <2>1. gm.dv = NULL \/ gm.dv # gm.top
    BY <1>4, WholeFacts
  <2>2. gm.top # NULL
    BY <1>4, WholeFacts DEF FreeIn
  <2> QED BY <2>1, <2>2 DEF BinnedIn
<1>6. FromTop(bytes, Chosen(m))
  BY <1>3, <1>5 DEF Source, FromBin, FromTree, FromDv
<1>7. ASSUME NEW q \in Fitting(m) PROVE FALSE
  <2>1. /\ ChunkFor(bytes) \in Nat /\ gm.dvsize \in Nat
        /\ ChunkFor(bytes) <= gm.chunk[q].size
        /\ q \in BinnedIn(gm) \/ (q = gm.dv /\ gm.chunk[q].size = gm.dvsize)
    BY <1>3, FittingIs
  <2>2. NoBinServes(bytes) /\ ChunkFor(bytes) > gm.dvsize
    BY <1>6 DEF FromTop
  <2>3. ~(ChunkFor(bytes) <= gm.dvsize)
    BY <2>1, <2>2
  <2> QED BY <1>4, <2>1, <2>2, <2>3, BinsAreSearched
<1> QED BY <1>7

(* The bin searches miss nothing: top is split only when no other free      *)
(* chunk is large enough (uni_allocator.cc:44-121), in a segment that an    *)
(* unsigned int can index: compute_tree_index keeps only so many bits of a  *)
(* size (uni_allocator.h:441).                                              *)
THEOREM TopServedLast == ASSUME SegmentIndexed PROVE Spec => TopIsLastResort
<1> DEFINE LastResort == \A m \in live' \ live : Chosen(m) = gm.top => Fitting(m) = {}
<1>1. ASSUME IInv, [Next]_vars PROVE [LastResort]_vars
  BY <1>1, TopServesLast
<1> QED BY Invariance, <1>1, PTL DEF Spec, TopIsLastResort

LEMMA LargeFitsBest ==
  ASSUME SegmentIndexed, IInv, Next, NEW m \in live' \ live, ~Small(m.bytes), NEW q \in Fitting(m)
  PROVE  gm.chunk[Chosen(m)].size <= gm.chunk[q].size
<1>1. ~Free
  BY DEF Free, FreeIntoDvBefore, FreeIntoTop, FreeIntoDvAfter, FreeForward, FreeToBin, Freed
<1>2. PICK bytes \in Requests : Alloc(bytes)
  BY <1>1 DEF Next
<1>3. Source(bytes, m)
  BY <1>2, ComesFrom
<1>4. gm \in MallocState /\ Whole(gm, live) /\ bytes \in Nat /\ bytes < MAX_REQUEST /\ m.bytes = bytes
  BY <1>3 DEF Source
<1>5. /\ gm.chunk[q].size \in Nat
      /\ ChunkFor(bytes) \in Nat /\ gm.dvsize \in Nat
      /\ ChunkFor(bytes) <= gm.chunk[q].size
      /\ q \in BinnedIn(gm) \/ (q = gm.dv /\ gm.chunk[q].size = gm.dvsize)
  BY <1>3, FittingIs
<1>6. ~Small(bytes)
  BY <1>4
<1>7. CASE FromTree(bytes, Chosen(m))
  <2> DEFINE nb == ChunkFor(bytes)
             v == Chosen(m)
             s == gm.chunk[v].size
  <2>1. /\ v = LargeFit(nb) /\ v \in BinnedIn(gm) /\ v # NULL
        /\ Wrap(s - nb) < Wrap(gm.dvsize - nb)
    BY <1>7 DEF FromTree, UsesTree
  <2>2. nb \in 256 .. SizeModulus - 1 /\ nb \in 1 .. SizeModulus - 1
    <3>1. nb >= 256 /\ nb < SizeModulus
      BY <1>4, <1>6, RequestSize
    <3> QED BY <1>5, <3>1, SizeModulusAssumption
  <2>3. /\ \A x \in BinnedIn(gm) : nb <= gm.chunk[x].size => s <= gm.chunk[x].size
        /\ nb <= s
    <3> HIDE DEF nb, v
    <3>1. \A x \in BinnedIn(gm) : nb <= gm.chunk[x].size => s <= gm.chunk[x].size
      BY <1>4, <2>1, <2>2, LargeFitBest
    <3>2. nb <= s
      BY <1>4, <2>1, <2>2, LargeFitIs
    <3> QED BY <3>1, <3>2
  <2>4. CASE q \in BinnedIn(gm)
    BY <1>5, <2>3, <2>4
  <2>5. CASE q = gm.dv /\ gm.chunk[q].size = gm.dvsize
    <3>1. s \in 0 .. SizeModulus - 1 /\ gm.dvsize \in 0 .. SizeModulus - 1
      <4>1. s \in 1 .. SizeModulus - 9 /\ gm.dvsize \in 0 .. SizeModulus - 9
        BY <1>4, <2>1, WholeFacts DEF FreeIn
      <4> QED BY <4>1, SizeModulusAssumption
    <3> HIDE DEF nb, s
    <3>2. Wrap(s - nb) = s - nb /\ Wrap(gm.dvsize - nb) = gm.dvsize - nb
      <4>1. nb <= gm.dvsize
        BY <1>5, <2>5 DEF nb
      <4> QED BY <2>2, <2>3, <3>1, <4>1, WrapRemainder
    <3>3. s <= gm.dvsize
      <4>1. s - nb < gm.dvsize - nb
        BY <2>1, <3>2
      <4> QED BY <2>2, <3>1, <4>1, SizeModulusAssumption
    <3> QED BY <2>5, <3>3 DEF s
  <2> QED BY <1>5, <2>4, <2>5
<1>8. CASE FromDv(bytes, Chosen(m))
  <2>1. NoBinServes(bytes) /\ Chosen(m) = gm.dv /\ ChunkFor(bytes) <= gm.dvsize
    BY <1>8 DEF FromDv
  <2>2. gm.chunk[gm.dv].size = gm.dvsize
    <3>1. ChunkFor(bytes) > 0
      <4>1. ChunkFor(bytes) >= 32
        BY <1>4, RequestSize
      <4> QED BY <1>5, <4>1
    <3>2. gm.dvsize # 0
      BY <1>5, <2>1, <3>1
    <3> QED BY <1>4, <3>2, WholeFacts
  <2>3. q \in BinnedIn(gm) => gm.dvsize <= gm.chunk[q].size
    BY <1>4, <1>5, <1>6, <2>1, BinsAreSearched
  <2> QED BY <1>5, <2>1, <2>2, <2>3
<1>9. CASE FromTop(bytes, Chosen(m))
  <2>1. Chosen(m) = gm.top
    BY <1>9 DEF FromTop
  <2> QED BY <2>1, TopServesLast
<1> QED BY <1>3, <1>6, <1>7, <1>8, <1>9 DEF Source, FromBin

(* "allocate a large request from the best fitting chunk"                   *)
(* (uni_allocator.h:457, with the comparison of remainders at lines 458-507 *)
(* that wraps around for a chunk too small), in a segment that an unsigned  *)
(* int can index: in a larger one a chunk of 2^40 bytes may lie in a bin    *)
(* before that of a smaller one (uni_allocator.h:441).                      *)
THEOREM BestFit == ASSUME SegmentIndexed PROVE Spec => BestFitLarge
<1> DEFINE Best == \A m \in live' \ live : ~Small(m.bytes) =>
                     \A p \in Fitting(m) : gm.chunk[Chosen(m)].size <= gm.chunk[p].size
<1>1. ASSUME IInv, [Next]_vars PROVE [Best]_vars
  BY <1>1, LargeFitsBest
<1> QED BY Invariance, <1>1, PTL DEF Spec, BestFitLarge

-----------------------------------------------------------------------------
(* The promise of an Allocator.                                             *)

(* The payload of an allocation ends where that of the next chunk begins.   *)
LEMMA PayloadsApart ==
  ASSUME NEW h \in MallocState, NEW L, Whole(h, L), L \subseteq [mem : Nat, bytes : Nat],
         NEW r \in L, NEW s \in L
  PROVE  r.mem % MALLOC_ALIGNMENT = 0 /\ (r # s => Promise!Disjoint(r, s))
<1> DEFINE c == h.chunk
           P(m) == mem2chunk(m.mem)
<1>1. /\ c \in ChunkMap /\ First(h) \in Nat /\ h.top \in Nat /\ End(h) \in Nat
      /\ Layout(c, First(h), h.top, End(h))
  BY WholeFacts, StateFields
<1>2. /\ {P(m) : m \in L} = UsedIn(c)
      /\ \A m, n \in L : m.mem = n.mem => m = n
      /\ \A m \in L : m.bytes < MAX_REQUEST /\ request2size(m.bytes) <= c[P(m)].size
  BY DEF Whole, Served
<1>3. ASSUME NEW m \in L
      PROVE  /\ m.mem \in Nat /\ m.bytes \in Nat /\ P(m) \in DOMAIN c
             /\ P(m) \in Nat /\ m.mem = P(m) + 32 /\ P(m) % 16 = 0
             /\ c[P(m)].size \in Nat /\ m.bytes + 8 <= c[P(m)].size
  <2>1. m.mem \in Nat /\ m.bytes \in Nat
    OBVIOUS
  <2>2. P(m) \in DOMAIN c
    BY <1>2 DEF UsedIn
  <2>3. P(m) \in Nat /\ P(m) % 16 = 0 /\ c[P(m)].size \in Nat
    BY <1>1, <2>2, LayoutFacts
  <2>4. m.mem = P(m) + 32
    BY <2>1 DEF mem2chunk, TWO_SIZE_T_SIZES
  <2>5. request2size(m.bytes) \in Nat /\ request2size(m.bytes) >= m.bytes + 8
    BY <1>2, <2>1, RequestSize
  <2>6. request2size(m.bytes) <= c[P(m)].size
    BY <1>2
  <2> HIDE DEF P
  <2> QED BY <2>1, <2>2, <2>3, <2>4, <2>5, <2>6
<1>4. \A x, y \in DOMAIN c : x < y => x + c[x].size <= y
  BY <1>1 DEF Layout, Tiled, NextIn
<1>5. r # s => r.mem # s.mem
  BY <1>2
<1> HIDE DEF P, c
<1>6. r # s => P(r) # P(s)
  BY <1>3, <1>5
<1>7. r # s => P(r) < P(s) \/ P(s) < P(r)
  BY <1>3, <1>6
<1>8. P(r) < P(s) => r.mem + r.bytes <= s.mem
  <2> SUFFICES ASSUME P(r) < P(s) PROVE r.mem + r.bytes <= s.mem
    OBVIOUS
  <2>1. P(r) + c[P(r)].size <= P(s)
    BY <1>3, <1>4
  <2> QED BY <1>3, <2>1
<1>9. P(s) < P(r) => s.mem + s.bytes <= r.mem
  <2> SUFFICES ASSUME P(s) < P(r) PROVE s.mem + s.bytes <= r.mem
    OBVIOUS
  <2>1. P(s) + c[P(s)].size <= P(r)
    BY <1>3, <1>4
  <2> QED BY <1>3, <2>1
<1>10. r.mem % 16 = 0
  BY <1>3
<1> QED BY <1>5, <1>7, <1>8, <1>9, <1>10 DEF Promise!Disjoint, MALLOC_ALIGNMENT

(* UniAllocator keeps the promise of an Allocator: it implements Heap.      *)
(* Memory handed out is aligned and shared with no live allocation          *)
(* (allocator.h:25-33, uni_allocator.cc:38-236).                            *)
THEOREM KeepsPromise == Spec => ImplementsHeap
<1>1. Init => Promise!Init
  BY DEF Init, Promise!Init
<1>2. ASSUME IInv, IInv', [Next]_vars PROVE [Promise!Next]_live
  <2>1. ASSUME NEW m \in live, NEW g, Freed(m, g) PROVE Promise!Next
    BY <2>1 DEF Freed, Promise!Next, Promise!Free
  <2>2. CASE Free
    BY <2>1, <2>2 DEF Free, FreeIntoDvBefore, FreeIntoTop, FreeIntoDvAfter, FreeForward, FreeToBin
  <2>3. ASSUME NEW bytes \in Requests, NEW p, NEW h, Return(bytes, p, h) PROVE [Promise!Next]_live
    <3> DEFINE r == [mem |-> chunk2mem(p), bytes |-> bytes]
    <3>1. CASE h.status # "ok" \/ r \in live
      <4>1. live' = live
        BY <2>3, <3>1 DEF Return
      <4> QED BY <4>1
    <3>2. CASE h.status = "ok" /\ r \notin live
      <4>1. live' = live \cup {r} /\ r \in live' /\ gm'.status = "ok"
        BY <2>3, <3>2 DEF Return
      <4>2. Whole(gm', live')
        <5>1. ~Fresh(gm, live)'
          BY <4>1 DEF Fresh
        <5> QED BY <1>2, <4>1, <5>1 DEF IInv, Sound
      <4>3. gm' \in MallocState /\ live' \subseteq [mem : Nat, bytes : Nat]
        <5>1. gm' \in MallocState /\ live' \subseteq [mem : Nat, bytes : Requests]
          BY <1>2 DEF IInv, Typed
        <5>2. Requests \subseteq Nat
          BY UniConstants
        <5> QED BY <5>1, <5>2
      <4>4. r.bytes \in Requests
        OBVIOUS
      <4> HIDE DEF r
      <4>5. r.mem % MALLOC_ALIGNMENT = 0
        BY <4>1, <4>2, <4>3, PayloadsApart
      <4>6. \A s \in live : Promise!Disjoint(r, s)
        <5>1. ASSUME NEW s \in live PROVE Promise!Disjoint(r, s)
          <6>1. s \in live' /\ s # r
            BY <3>2, <4>1 DEF r
          <6> QED BY <4>1, <4>2, <4>3, <6>1, PayloadsApart
        <5> QED BY <5>1
      <4>7. r \notin live
        BY <3>2 DEF r
      <4> QED BY <4>1, <4>4, <4>5, <4>6, <4>7 DEF Promise!Next, Promise!Alloc
    <3> QED BY <3>1, <3>2
  <2>4. ASSUME NEW bytes \in Requests, Alloc(bytes) PROVE [Promise!Next]_live
    <3>1. CASE InitOrExpand(bytes) \/ AllocStale(bytes)
      BY <3>1 DEF InitOrExpand, AllocStale
    <3>2. CASE ~(InitOrExpand(bytes) \/ AllocStale(bytes))
      <4>1. \E p, h : Return(bytes, p, h)
        BY <2>4, <3>2 DEF Alloc, AllocExactBin, AllocLargerBin, AllocSmallFromTree,
                          AllocLargeFromTree, AllocFromDv, AllocFromTop
      <4> QED BY <2>3, <4>1
    <3> QED BY <3>1, <3>2
  <2>5. CASE UNCHANGED vars
    BY <2>5 DEF vars
  <2> QED BY <1>2, <2>2, <2>4, <2>5 DEF Next
<1> QED BY Invariance, <1>1, <1>2, PTL DEF Spec, ImplementsHeap, Promise!Spec
=============================================================================
