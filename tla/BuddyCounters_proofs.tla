----------------------- MODULE BuddyCounters_proofs -------------------------
(***************************************************************************)
(* The counters of BuddyAllocator agree with its blocks, for every         *)
(* geometry in which the maximum chunk is cut into whole minimal chunks.   *)
(*                                                                         *)
(* The first half is about sums of a function's values in general.         *)
(***************************************************************************)
EXTENDS BuddyAllocator_proofs, FiniteSetTheorems, WellFoundedInduction

-----------------------------------------------------------------------------
(* Least members.                                                           *)

LEMMA LeastElement ==
  ASSUME NEW T \in SUBSET Nat, T # {}
  PROVE  \E x \in T : \A y \in T : x <= y
<1> DEFINE R == OpToRel(<, Nat)
<1>1. IsWellFoundedOn(R, Nat)
  BY NatLessThanWellFounded
<1>2. \A x, y \in T : y < x => <<y, x>> \in R
  BY DEF OpToRel
<1> HIDE DEF R
<1>3. PICK x \in T : \A y \in T : ~(<<y, x>> \in R)
  BY <1>1, WFMin
<1>4. \A y \in T : ~(y < x)
  BY <1>2, <1>3
<1> QED BY <1>3, <1>4

(* Any nonempty collection of subsets of a finite set has a minimal member. *)
LEMMA MinimalSubset ==
  ASSUME NEW S, IsFiniteSet(S), NEW C \in SUBSET (SUBSET S), C # {}
  PROVE  \E T \in C : \A U \in C : U \subseteq T => U = T
<1> DEFINE R == StrictSubsetOrdering(S)
<1>1. IsWellFoundedOn(R, FiniteSubsetsOf(S))
  BY FS_StrictSubsetOrderingWellFounded
<1>2. C \subseteq FiniteSubsetsOf(S)
  BY FS_Subset DEF FiniteSubsetsOf
<1>3. \A T, U \in C : U \subseteq T /\ U # T => <<U, T>> \in R
  BY DEF StrictSubsetOrdering
<1> HIDE DEF R
<1>4. IsWellFoundedOn(R, C)
  BY <1>1, <1>2, IsWellFoundedOnSubset
<1>5. PICK T \in C : \A U \in C : ~(<<U, T>> \in R)
  BY <1>4, WFMin
<1> QED BY <1>3, <1>5

-----------------------------------------------------------------------------
(* The sum of a function's values.                                          *)

IsNatural(f) == IsFiniteSet(DOMAIN f) /\ \A x \in DOMAIN f : f[x] \in Nat

Some(s) == CHOOSE x \in s : TRUE

(* it computes the sums of f over the sets of D.                            *)
Sums(f, it, D) ==
  /\ it = [s \in D |-> it[s]]
  /\ \A s \in D : it[s] \in Nat
  /\ \A s \in D : it[s] = IF s = {} THEN 0 ELSE f[Some(s)] + it[s \ {Some(s)}]

LEMMA SomeIn == ASSUME NEW s, s # {} PROVE Some(s) \in s
  BY DEF Some

UpTo(S, n) == {s \in SUBSET S : Cardinality(s) <= n}

LEMMA SumsExist ==
  ASSUME NEW f, NEW S, IsFiniteSet(S), \A x \in S : f[x] \in Nat
  PROVE  \E it : Sums(f, it, SUBSET S)
<1>0. \A s \in SUBSET S : IsFiniteSet(s) /\ Cardinality(s) \in Nat
  BY FS_Subset, FS_CardinalityType
<1> DEFINE Bad == {n \in Nat : ~\E it : Sums(f, it, UpTo(S, n))}
<1>1. \A s \in SUBSET S : Cardinality(s) <= Cardinality(S)
  BY FS_Subset
<1>2. UpTo(S, Cardinality(S)) = SUBSET S
  BY <1>1 DEF UpTo
<1>3. CASE Bad = {}
  <2>1. Cardinality(S) \in Nat /\ Cardinality(S) \notin Bad
    BY <1>0, <1>3
  <2>2. \E it : Sums(f, it, UpTo(S, Cardinality(S)))
    BY <2>1
  <2> QED BY <1>2, <2>2
<1>4. ASSUME Bad # {} PROVE FALSE
  <2>1. PICK n \in Bad : \A m \in Bad : n <= m
    BY <1>4, LeastElement
  <2>2. n \in Nat /\ ~\E it : Sums(f, it, UpTo(S, n))
    BY <2>1
  <2>3. CASE n = 0
    <3> DEFINE it == [s \in UpTo(S, 0) |-> 0]
    <3>1. \A s \in UpTo(S, 0) : s = {}
      BY <1>0, FS_EmptySet DEF UpTo
    <3>2. Sums(f, it, UpTo(S, 0))
      BY <3>1 DEF Sums
    <3> QED BY <2>2, <2>3, <3>2
  <2>4. CASE n > 0
    <3>1. n - 1 \in Nat /\ n - 1 \notin Bad
      BY <2>1, <2>2, <2>4
    <3>2. PICK old : Sums(f, old, UpTo(S, n - 1))
      BY <3>1
    <3>3. ASSUME NEW s \in UpTo(S, n), s # {}
          PROVE  /\ Some(s) \in S
                 /\ s \ {Some(s)} \in UpTo(S, n - 1)
                 /\ s \ {Some(s)} \in UpTo(S, n)
      <4>1. s \in SUBSET S /\ Cardinality(s) <= n /\ Some(s) \in s
        BY <3>3, SomeIn DEF UpTo
      <4>2. Cardinality(s \ {Some(s)}) = Cardinality(s) - 1
        BY <1>0, <4>1, FS_RemoveElement
      <4> QED BY <1>0, <2>2, <4>1, <4>2 DEF UpTo
    <3> DEFINE new == [s \in UpTo(S, n) |->
                         IF s = {} THEN 0 ELSE f[Some(s)] + old[s \ {Some(s)}]]
    <3>4. \A s \in UpTo(S, n) : new[s] \in Nat
      BY <3>2, <3>3 DEF Sums
    <3>5. \A s \in UpTo(S, n - 1) : s \in UpTo(S, n) /\ new[s] = old[s]
      <4>1. \A s \in UpTo(S, n - 1) : s \in UpTo(S, n)
        BY <1>0, <2>2 DEF UpTo
      <4> QED BY <3>2, <4>1 DEF Sums
    <3>6. Sums(f, new, UpTo(S, n))
      <4>1. new = [s \in UpTo(S, n) |-> new[s]]
        OBVIOUS
      <4>2. \A s \in UpTo(S, n) : new[s] = IF s = {} THEN 0 ELSE f[Some(s)] + new[s \ {Some(s)}]
        BY <3>3, <3>5
      <4> HIDE DEF new
      <4> QED BY <3>4, <4>1, <4>2 DEF Sums
    <3> QED BY <2>2, <3>6
  <2> QED BY <2>2, <2>3, <2>4
<1> QED BY <1>3, <1>4

(* The sum over S is what one such computation finds.                       *)
LEMMA SumIsComputed ==
  ASSUME NEW f, NEW S, IsFiniteSet(S), \A x \in S : f[x] \in Nat
  PROVE  \E it : Sums(f, it, SUBSET S) /\ SumFunctionOnSet(f, S) = it[S]
<1> DEFINE P(it) == it = [s \in SUBSET S |->
                            IF s = {} THEN 0
                            ELSE LET x == Some(s) IN f[x] + it[s \ {x}]]
<1>1. PICK old : Sums(f, old, SUBSET S)
  BY SumsExist
<1>2. P(old)
  BY <1>1 DEF Sums
<1>3. SumFunctionOnSet(f, S) = (CHOOSE it : P(it))[S]
  BY DEF SumFunctionOnSet, FoldFunctionOnSet, MapThenFoldSet, Some
<1> DEFINE it == CHOOSE i : P(i)
<1>4. P(it)
  <2> HIDE DEF P
  <2> QED BY <1>2
<1> HIDE DEF it
<1>5. DOMAIN it = SUBSET S
  BY <1>4
<1>6. \A s \in SUBSET S : it[s] = IF s = {} THEN 0 ELSE f[Some(s)] + it[s \ {Some(s)}]
  BY <1>4
<1>7. \A s \in SUBSET S : it[s] = old[s]
  <2> DEFINE Bad == {s \in SUBSET S : it[s] # old[s]}
  <2> SUFFICES ASSUME Bad # {} PROVE FALSE
    OBVIOUS
  <2>1. PICK T \in Bad : \A U \in Bad : U \subseteq T => U = T
    <3>1. Bad \in SUBSET (SUBSET S) /\ Bad # {}
      OBVIOUS
    <3> HIDE DEF Bad
    <3> QED BY <3>1, MinimalSubset
  <2>2. CASE T = {}
    BY <1>1, <1>6, <2>1, <2>2 DEF Sums
  <2>3. CASE T # {}
    <3>1. Some(T) \in T /\ T \in SUBSET S
      BY <2>1, <2>3, SomeIn
    <3>2. T \ {Some(T)} \notin Bad
      BY <2>1, <3>1
    <3>3. it[T \ {Some(T)}] = old[T \ {Some(T)}]
      BY <3>1, <3>2
    <3>4. it[T] = f[Some(T)] + it[T \ {Some(T)}]
      BY <1>6, <2>3, <3>1
    <3>5. old[T] = f[Some(T)] + old[T \ {Some(T)}]
      BY <1>1, <2>3, <3>1 DEF Sums
    <3> QED BY <2>1, <3>3, <3>4, <3>5
  <2> QED BY <2>2, <2>3
<1>8. Sums(f, it, SUBSET S)
  <2>1. it = [s \in SUBSET S |-> it[s]]
    BY <1>4, <1>5
  <2>2. \A s \in SUBSET S : it[s] \in Nat
    BY <1>1, <1>7 DEF Sums
  <2> QED BY <1>6, <2>1, <2>2 DEF Sums
<1> QED BY <1>3, <1>8 DEF it

(* Computations agree where they both are defined.                          *)
LEMMA SumsAgree ==
  ASSUME NEW f, NEW S, IsFiniteSet(S), NEW T \in SUBSET S
  PROVE  \A a, b : Sums(f, a, SUBSET S) /\ Sums(f, b, SUBSET T) => a[T] = b[T]
<1> SUFFICES ASSUME NEW a, Sums(f, a, SUBSET S), NEW b, Sums(f, b, SUBSET T)
             PROVE  a[T] = b[T]
  OBVIOUS
<1> DEFINE Bad == {s \in SUBSET T : a[s] # b[s]}
<1> SUFFICES ASSUME Bad # {} PROVE FALSE
  OBVIOUS
<1>0. IsFiniteSet(T)
  BY FS_Subset
<1>1. PICK U \in Bad : \A V \in Bad : V \subseteq U => V = U
  <2>1. Bad \in SUBSET (SUBSET T) /\ Bad # {}
    OBVIOUS
  <2> HIDE DEF Bad
  <2> QED BY <1>0, <2>1, MinimalSubset
<1>2. U \in SUBSET T /\ U \in SUBSET S /\ a[U] # b[U]
  BY <1>1
<1>3. CASE U = {}
  BY <1>2, <1>3 DEF Sums
<1>4. CASE U # {}
  <2>1. Some(U) \in U
    BY <1>4, SomeIn
  <2>2. a[U \ {Some(U)}] = b[U \ {Some(U)}]
    BY <1>1, <1>2, <2>1
  <2>3. a[U] = f[Some(U)] + a[U \ {Some(U)}] /\ b[U] = f[Some(U)] + b[U \ {Some(U)}]
    BY <1>2, <1>4 DEF Sums
  <2> QED BY <1>2, <2>2, <2>3
<1> QED BY <1>3, <1>4

LEMMA SumStep ==
  ASSUME NEW f, NEW S, IsFiniteSet(S), \A x \in S : f[x] \in Nat
  PROVE  /\ SumFunctionOnSet(f, S) \in Nat
         /\ SumFunctionOnSet(f, S) =
              IF S = {} THEN 0 ELSE f[Some(S)] + SumFunctionOnSet(f, S \ {Some(S)})
<1>1. PICK a : Sums(f, a, SUBSET S) /\ SumFunctionOnSet(f, S) = a[S]
  BY SumIsComputed
<1>2. SumFunctionOnSet(f, S) \in Nat
  BY <1>1 DEF Sums
<1>3. CASE S = {}
  BY <1>1, <1>2, <1>3 DEF Sums
<1>4. CASE S # {}
  <2> DEFINE T == S \ {Some(S)}
  <2>1. T \in SUBSET S /\ IsFiniteSet(T)
    BY FS_Subset
  <2>2. PICK b : Sums(f, b, SUBSET T) /\ SumFunctionOnSet(f, T) = b[T]
    BY <2>1, SumIsComputed
  <2> HIDE DEF T
  <2>3. a[T] = b[T]
    BY <1>1, <2>1, <2>2, SumsAgree
  <2>4. a[S] = f[Some(S)] + a[T]
    BY <1>1, <1>4 DEF Sums, T
  <2> QED BY <1>1, <1>2, <1>4, <2>2, <2>3, <2>4 DEF T
<1> QED BY <1>3, <1>4

(* Any element may be the one that is added last.                           *)
LEMMA SumOnSetWithout ==
  ASSUME NEW f, NEW S, IsFiniteSet(S), \A x \in S : f[x] \in Nat, NEW x \in S
  PROVE  SumFunctionOnSet(f, S) = f[x] + SumFunctionOnSet(f, S \ {x})
<1> DEFINE Sum(s) == SumFunctionOnSet(f, s)
           Bad == {s \in SUBSET S : \E y \in s : Sum(s) # f[y] + Sum(s \ {y})}
<1>1. ASSUME NEW s \in SUBSET S, s # {}
      PROVE  /\ Sum(s) = f[Some(s)] + Sum(s \ {Some(s)})
             /\ Sum(s) \in Nat
  <2>1. IsFiniteSet(s) /\ \A y \in s : f[y] \in Nat
    BY FS_Subset
  <2> QED BY <1>1, <2>1, SumStep
<1>2. \A s \in SUBSET S : Sum(s) \in Nat
  <2>1. \A s \in SUBSET S : IsFiniteSet(s) /\ \A y \in s : f[y] \in Nat
    BY FS_Subset
  <2> QED BY <2>1, SumStep
<1> HIDE DEF Sum
<1> SUFFICES ASSUME Bad # {} PROVE FALSE
  BY DEF Sum
<1>3. PICK s \in Bad : \A u \in Bad : u \subseteq s => u = s
  <2>1. Bad \in SUBSET (SUBSET S) /\ Bad # {}
    OBVIOUS
  <2> HIDE DEF Bad
  <2> QED BY <2>1, MinimalSubset
<1>4. PICK y \in s : Sum(s) # f[y] + Sum(s \ {y})
  BY <1>3
<1> DEFINE z == Some(s)
<1>5. s \in SUBSET S /\ z \in s /\ Sum(s) = f[z] + Sum(s \ {z})
  BY <1>1, <1>3, <1>4, SomeIn
<1> HIDE DEF z
<1>6. y # z
  BY <1>4, <1>5
<1>7. s \ {z} \notin Bad /\ s \ {y} \notin Bad
  BY <1>3, <1>4, <1>5
<1>8. Sum(s \ {z}) = f[y] + Sum((s \ {z}) \ {y})
  BY <1>4, <1>5, <1>6, <1>7
<1>9. Sum(s \ {y}) = f[z] + Sum((s \ {y}) \ {z})
  BY <1>4, <1>5, <1>6, <1>7
<1>10. (s \ {z}) \ {y} = (s \ {y}) \ {z}
  OBVIOUS
<1>11. f[y] \in Nat /\ f[z] \in Nat /\ Sum((s \ {y}) \ {z}) \in Nat
  BY <1>2, <1>4, <1>5
<1> QED BY <1>4, <1>5, <1>8, <1>9, <1>10, <1>11

LEMMA SumOnSetAgrees ==
  ASSUME NEW f, NEW g, NEW S, IsFiniteSet(S), \A x \in S : f[x] \in Nat /\ g[x] = f[x]
  PROVE  SumFunctionOnSet(f, S) = SumFunctionOnSet(g, S)
<1> DEFINE Bad == {s \in SUBSET S : SumFunctionOnSet(f, s) # SumFunctionOnSet(g, s)}
<1> SUFFICES ASSUME Bad # {} PROVE FALSE
  OBVIOUS
<1>1. PICK s \in Bad : \A u \in Bad : u \subseteq s => u = s
  <2>1. Bad \in SUBSET (SUBSET S) /\ Bad # {}
    OBVIOUS
  <2> HIDE DEF Bad
  <2> QED BY <2>1, MinimalSubset
<1>2. /\ IsFiniteSet(s) /\ \A x \in s : f[x] \in Nat /\ g[x] \in Nat /\ g[x] = f[x]
      /\ s \in SUBSET S
  BY <1>1, FS_Subset
<1>3. /\ SumFunctionOnSet(f, s) = IF s = {} THEN 0 ELSE f[Some(s)] + SumFunctionOnSet(f, s \ {Some(s)})
      /\ SumFunctionOnSet(g, s) = IF s = {} THEN 0 ELSE g[Some(s)] + SumFunctionOnSet(g, s \ {Some(s)})
  BY <1>2, SumStep
<1>4. CASE s = {}
  BY <1>1, <1>3, <1>4
<1>5. CASE s # {}
  <2>1. Some(s) \in s
    BY <1>5, SomeIn
  <2>2. SumFunctionOnSet(f, s \ {Some(s)}) = SumFunctionOnSet(g, s \ {Some(s)})
    BY <1>1, <1>2, <2>1
  <2> QED BY <1>1, <1>2, <1>3, <1>5, <2>1, <2>2
<1> QED BY <1>4, <1>5

-----------------------------------------------------------------------------
Without(f, x) == [y \in DOMAIN f \ {x} |-> f[y]]
With(f, x, v) == [y \in DOMAIN f \cup {x} |-> IF y = x THEN v ELSE f[y]]

LEMMA SumNatural ==
  ASSUME NEW f, IsNatural(f)
  PROVE  SumFunction(f) \in Nat /\ (DOMAIN f = {} => SumFunction(f) = 0)
  BY SumStep DEF IsNatural, SumFunction

LEMMA SumWithout ==
  ASSUME NEW f, IsNatural(f), NEW x \in DOMAIN f
  PROVE  /\ IsNatural(Without(f, x))
         /\ SumFunction(f) = f[x] + SumFunction(Without(f, x))
<1> DEFINE g == Without(f, x)
<1>1. DOMAIN g = DOMAIN f \ {x} /\ \A y \in DOMAIN g : g[y] = f[y]
  BY DEF Without
<1> HIDE DEF g
<1>2. IsFiniteSet(DOMAIN g) /\ IsNatural(g)
  BY <1>1, FS_RemoveElement DEF IsNatural
<1>3. SumFunctionOnSet(f, DOMAIN f) = f[x] + SumFunctionOnSet(f, DOMAIN g)
  BY <1>1, SumOnSetWithout DEF IsNatural
<1>4. SumFunctionOnSet(f, DOMAIN g) = SumFunctionOnSet(g, DOMAIN g)
  BY <1>1, <1>2, SumOnSetAgrees DEF IsNatural
<1> QED BY <1>2, <1>3, <1>4 DEF SumFunction, g

LEMMA SumWith ==
  ASSUME NEW f, IsNatural(f), NEW x, x \notin DOMAIN f, NEW v \in Nat, f = [y \in DOMAIN f |-> f[y]]
  PROVE  /\ IsNatural(With(f, x, v))
         /\ SumFunction(With(f, x, v)) = v + SumFunction(f)
<1> DEFINE g == With(f, x, v)
<1>1. DOMAIN g = DOMAIN f \cup {x} /\ g[x] = v /\ \A y \in DOMAIN f : g[y] = f[y]
  BY DEF With
<1>2. Without(g, x) = f
  BY <1>1 DEF Without
<1> HIDE DEF g
<1>3. IsNatural(g)
  BY <1>1, FS_AddElement DEF IsNatural
<1> QED BY <1>1, <1>2, <1>3, SumWithout DEF g

(* One value takes the place of another.                                    *)
LEMMA SumReplaced ==
  ASSUME NEW f, IsNatural(f), NEW x \in DOMAIN f, NEW y, y \notin DOMAIN f \ {x}, NEW v \in Nat
  PROVE  /\ IsNatural(With(Without(f, x), y, v))
         /\ SumFunction(With(Without(f, x), y, v)) = (SumFunction(f) - f[x]) + v
<1> DEFINE g == Without(f, x)
<1>1. IsNatural(g) /\ SumFunction(f) = f[x] + SumFunction(g)
  BY SumWithout
<1>2. DOMAIN g = DOMAIN f \ {x} /\ g = [z \in DOMAIN g |-> g[z]]
  BY DEF Without
<1> HIDE DEF g
<1>3. /\ IsNatural(With(g, y, v))
      /\ SumFunction(With(g, y, v)) = v + SumFunction(g)
  BY <1>1, <1>2, SumWith
<1>4. SumFunction(g) \in Nat /\ f[x] \in Nat
  BY <1>1, SumNatural DEF IsNatural
<1> QED BY <1>1, <1>3, <1>4 DEF g

(* A part of a set sums to no more than the whole.                          *)
LEMMA SumOfPart ==
  ASSUME NEW f, IsNatural(f), NEW T \in SUBSET DOMAIN f
  PROVE  /\ SumFunction([x \in T |-> f[x]]) \in Nat
         /\ SumFunction([x \in T |-> f[x]]) <= SumFunction(f)
<1> DEFINE Sum(s) == SumFunctionOnSet(f, s)
           Bad == {u \in SUBSET DOMAIN f : T \subseteq u /\ Sum(u) < Sum(T)}
           g == [x \in T |-> f[x]]
<1>1. ASSUME NEW u \in SUBSET DOMAIN f
      PROVE  IsFiniteSet(u) /\ (\A x \in u : f[x] \in Nat) /\ Sum(u) \in Nat
  <2>1. IsFiniteSet(u) /\ \A x \in u : f[x] \in Nat
    BY FS_Subset DEF IsNatural
  <2> QED BY <2>1, SumStep
<1>2. ASSUME Bad # {} PROVE FALSE
  <2>1. PICK u \in Bad : \A v \in Bad : v \subseteq u => v = u
    <3>1. Bad \in SUBSET (SUBSET DOMAIN f) /\ IsFiniteSet(DOMAIN f)
      BY DEF IsNatural
    <3> HIDE DEF Bad
    <3> QED BY <1>2, <3>1, MinimalSubset
  <2>2. u \in SUBSET DOMAIN f /\ T \subseteq u /\ Sum(u) < Sum(T)
    BY <2>1
  <2>3. PICK x \in u : x \notin T
    <3>1. u # T
      <4>1. Sum(T) \in Nat
        BY <1>1
      <4> HIDE DEF Sum
      <4> QED BY <2>2, <4>1
    <3> QED BY <2>2, <3>1
  <2>4. Sum(u) = f[x] + Sum(u \ {x})
    BY <1>1, <2>2, <2>3, SumOnSetWithout
  <2>5. f[x] \in Nat /\ Sum(u \ {x}) \in Nat /\ Sum(T) \in Nat
    BY <1>1, <2>2, <2>3
  <2> HIDE DEF Sum
  <2>6. Sum(u \ {x}) < Sum(T)
    BY <2>2, <2>4, <2>5
  <2>7. u \ {x} \in Bad
    BY <2>2, <2>3, <2>6
  <2> QED BY <2>1, <2>3, <2>7
<1>3. Sum(DOMAIN f) \in Nat /\ Sum(T) \in Nat
  BY <1>1
<1>4. Sum(T) <= Sum(DOMAIN f)
  <2> HIDE DEF Sum
  <2>1. ~(Sum(DOMAIN f) < Sum(T))
    BY <1>2
  <2> QED BY <1>3, <2>1
<1>5. Sum(T) = SumFunctionOnSet(g, T)
  <2>1. \A x \in T : f[x] \in Nat /\ g[x] = f[x]
    BY <1>1
  <2> HIDE DEF g
  <2> QED BY <1>1, <2>1, SumOnSetAgrees
<1> QED BY <1>3, <1>4, <1>5 DEF SumFunction

(* Pieces that lie apart between lo and limit together fit between them.    *)
LEMMA SumOfPieces ==
  ASSUME NEW f, IsNatural(f), DOMAIN f \subseteq Nat, NEW lo \in Nat, NEW limit \in Nat,
         lo <= limit,
         \A a \in DOMAIN f : lo <= a /\ a + f[a] <= limit,
         \A a, b \in DOMAIN f : a < b => a + f[a] <= b
  PROVE  lo + SumFunction(f) <= limit
<1> DEFINE Sum(s) == SumFunctionOnSet(f, s)
           S == DOMAIN f
           Between(s, l) == \A a \in s : a + f[a] <= l
           Bad == {s \in SUBSET S :
                     \E l \in Nat : lo <= l /\ Between(s, l) /\ ~(lo + Sum(s) <= l)}
<1>1. IsFiniteSet(S) /\ \A a \in S : a \in Nat /\ f[a] \in Nat /\ lo <= a
  BY DEF IsNatural
<1>2. \A a, b \in S : a < b => a + f[a] <= b
  OBVIOUS
<1>3. CASE Bad = {}
  <2>1. Between(S, limit) /\ S \notin Bad /\ S \in SUBSET S
    BY <1>3
  <2>2. lo + Sum(S) <= limit
    BY <2>1
  <2> QED BY <2>2 DEF SumFunction
<1> HIDE DEF S
<1>4. ASSUME Bad # {} PROVE FALSE
  <2>1. PICK s \in Bad : \A u \in Bad : u \subseteq s => u = s
    <3>1. Bad \in SUBSET (SUBSET S) /\ Bad # {}
      BY <1>4
    <3> HIDE DEF Bad
    <3> QED BY <1>1, <3>1, MinimalSubset
  <2>2. PICK l \in Nat : lo <= l /\ Between(s, l) /\ ~(lo + Sum(s) <= l)
    BY <2>1
  <2>3. /\ s \in SUBSET S /\ IsFiniteSet(s)
        /\ \A a \in s : a \in Nat /\ f[a] \in Nat /\ lo <= a
    BY <1>1, <2>1, FS_Subset
  <2>4. Sum(s) \in Nat /\ (s = {} => Sum(s) = 0)
    BY <2>3, SumStep
  <2>5. s # {}
    BY <2>2, <2>4
  <2>6. PICK m \in s : \A a \in s : a <= m
    <3> DEFINE D == {l - a : a \in s}
    <3>1. D \subseteq Nat /\ D # {}
      BY <2>2, <2>3, <2>5
    <3>2. PICK d \in D : \A e \in D : d <= e
      <4> HIDE DEF D
      <4> QED BY <3>1, LeastElement
    <3>3. PICK m \in s : d = l - m
      BY <3>2
    <3>4. ASSUME NEW a \in s PROVE a <= m
      <4>1. d <= l - a
        BY <3>2
      <4> QED BY <2>3, <3>3, <4>1
    <3> QED BY <3>4
  <2>7. s \ {m} \notin Bad /\ s \ {m} \in SUBSET S
    BY <2>1, <2>3, <2>6
  <2>8. Between(s \ {m}, m)
    <3> SUFFICES ASSUME NEW a \in s \ {m} PROVE a + f[a] <= m
      OBVIOUS
    <3>1. a \in S /\ m \in S /\ a < m
      BY <2>3, <2>6
    <3> QED BY <1>2, <3>1
  <2>9. lo + Sum(s \ {m}) <= m
    BY <2>3, <2>6, <2>7, <2>8
  <2>10. Sum(s) = f[m] + Sum(s \ {m}) /\ Sum(s \ {m}) \in Nat
    <3>1. IsFiniteSet(s \ {m}) /\ \A a \in s \ {m} : f[a] \in Nat
      BY <2>3, FS_RemoveElement
    <3>2. Sum(s \ {m}) \in Nat
      BY <3>1, SumStep
    <3>3. Sum(s) = f[m] + Sum(s \ {m})
      BY <2>3, <2>6, SumOnSetWithout
    <3> QED BY <3>2, <3>3
  <2>11. m + f[m] <= l /\ m \in Nat /\ f[m] \in Nat
    BY <2>2, <2>3, <2>6
  <2> HIDE DEF Sum
  <2> QED BY <2>2, <2>9, <2>10, <2>11
<1> QED BY <1>3, <1>4

-----------------------------------------------------------------------------
(* Sizes of the blocks of a type.                                           *)

(* The maximum chunk is cut into whole minimal chunks, none so small that a *)
(* descriptor alone would fill it (memory_block.cc:41), and what the system *)
(* allocator returns lies below the greatest size_t.                        *)
Geometry(max) ==
  /\ DescSize < MinChunk
  /\ max % MinChunk = 0
  /\ \A p \in Addresses : p + max <= SizeModulus

TypeIn(d, t) == {b \in DOMAIN d : d[b].type = t}
Sizes(d, t)  == [b \in TypeIn(d, t) |-> d[b].total_size]
Total(d, t)  == SumFunction(Sizes(d, t))

Finite(d) == IsFiniteSet(BlocksIn(d))

Chunks(n)  == \E q \in Nat : n = MinChunk * q
Chunked(d) == \A b \in BlocksIn(d) : d[b].type # "HUGE" => Chunks(d[b].total_size)

LEMMA ChunksDiffer ==
  ASSUME NEW m, NEW n, Chunks(m), Chunks(n), n <= m
  PROVE  /\ Chunks(m - n) /\ Chunks(m + n) /\ m \in Nat /\ n \in Nat
         /\ m = n \/ m - n >= MinChunk
<1>1. PICK p \in Nat : m = MinChunk * p
  BY DEF Chunks
<1>2. PICK q \in Nat : n = MinChunk * q
  BY DEF Chunks
<1>3. MinChunk \in Nat \ {0}
  BY BuddyConstants
<1>4. m \in Nat /\ n \in Nat
  BY <1>1, <1>2, <1>3
<1>5. p + q \in Nat /\ MinChunk * (p + q) = m + n
  BY <1>1, <1>2, <1>3
<1>6. CASE p < q
  <2>1. MinChunk * (q - p) > 0
    <3>1. q - p \in Nat \ {0}
      BY <1>6
    <3> QED BY <1>3, <3>1
  <2>2. MinChunk * (q - p) = n - m
    BY <1>1, <1>2, <1>3
  <2> QED BY <1>4, <2>1, <2>2
<1>7. CASE p = q
  <2>1. m - n = MinChunk * 0
    BY <1>1, <1>2, <1>3, <1>7
  <2> QED BY <1>1, <1>2, <1>4, <1>5, <1>7, <2>1 DEF Chunks
<1>8. CASE p > q
  <2>1. p - q - 1 \in Nat /\ p - q \in Nat
    BY <1>8
  <2>2. MinChunk * (p - q - 1) >= 0
    BY <1>3, <2>1
  <2>3. MinChunk * (p - q) = m - n /\ MinChunk * (p - q - 1) = (m - n) - MinChunk
    BY <1>1, <1>2, <1>3
  <2> HIDE DEF Chunks
  <2>4. m - n >= MinChunk
    BY <1>3, <1>4, <2>2, <2>3
  <2>5. Chunks(m - n) /\ Chunks(m + n)
    BY <1>5, <2>1, <2>3 DEF Chunks
  <2> QED BY <1>4, <2>4, <2>5
<1> QED BY <1>6, <1>7, <1>8

LEMMA MaxIsChunks == ASSUME NEW max \in Maxima,
         Geometry(max) PROVE Chunks(max)
<1>1. /\ max \div MinChunk \in Nat
      /\ max = MinChunk * (max \div MinChunk) + (max % MinChunk)
  BY BuddyConstants DEF Maxima
<1>2. PICK q \in Nat : max = MinChunk * q + 0
  BY <1>1 DEF Geometry
<1>3. MinChunk * q + 0 = MinChunk * q
  BY BuddyConstants
<1> QED BY <1>2, <1>3 DEF Chunks

LEMMA SizesNatural ==
  ASSUME NEW d, Typed(d), Finite(d), NEW t \in {"FREE", "ARENA"}
  PROVE  /\ IsNatural(Sizes(d, t)) /\ TypeIn(d, t) \subseteq BlocksIn(d)
         /\ DOMAIN Sizes(d, t) = TypeIn(d, t)
         /\ \A b \in TypeIn(d, t) : Sizes(d, t)[b] = d[b].total_size
         /\ Total(d, t) \in Nat
<1>1. TypeIn(d, t) \in SUBSET BlocksIn(d)
  BY DEF TypeIn, BlocksIn
<1>2. IsFiniteSet(TypeIn(d, t))
  BY <1>1, FS_Subset DEF Finite
<1>3. \A b \in TypeIn(d, t) : d[b].total_size \in Nat
  BY DEF TypeIn, Typed, Descriptor
<1>4. /\ DOMAIN Sizes(d, t) = TypeIn(d, t)
      /\ \A b \in TypeIn(d, t) : Sizes(d, t)[b] = d[b].total_size
  BY DEF Sizes
<1>5. IsNatural(Sizes(d, t))
  BY <1>2, <1>3, <1>4 DEF IsNatural
<1> QED BY <1>1, <1>4, <1>5, SumNatural DEF Total

(* Blocks of segments lie apart in one address space, so their sizes add up *)
(* to a number a size_t can hold.                                           *)
LEMMA SizesFit ==
  ASSUME NEW max \in Maxima, Geometry(max), NEW d, NEW h, Shape(d, h, max), Finite(d),
         DOMAIN h \subseteq Addresses,
         NEW T \in SUBSET BlocksIn(d), \A b \in T : d[b].type # "HUGE"
  PROVE  /\ IsNatural([b \in T |-> d[b].total_size])
         /\ SumFunction([b \in T |-> d[b].total_size]) < SizeModulus
<1> DEFINE f == [b \in T |-> d[b].total_size]
<1>1. IsNatural(f) /\ DOMAIN f = T /\ \A b \in T : f[b] = d[b].total_size
  <2>1. IsFiniteSet(T)
    BY FS_Subset DEF Finite
  <2>2. \A b \in T : d[b].total_size \in Nat
    BY DEF BlocksIn, Shape, Typed, Descriptor
  <2> QED BY <2>1, <2>2 DEF IsNatural
<1> HIDE DEF f
<1>2. ASSUME NEW b \in DOMAIN f PROVE b \in Nat /\ 1 <= b /\ b + f[b] <= SizeModulus
  <2>1. b \in BlocksIn(d) /\ d[b].type # "HUGE" /\ f[b] = d[b].total_size
    BY <1>1, <1>2
  <2>2. PICK p \in DOMAIN h : Within(d, h, b, p, max)
    BY <2>1 DEF Shape, Placed
  <2>3. p \in Addresses /\ h[p].size = max /\ EndIn(d, b) <= p + max
    BY <2>1, <2>2 DEF Within
  <2>4. b \in Nat \ {NULL} /\ d[b].total_size \in Nat
    BY <2>1 DEF Shape, Typed, BlocksIn, Descriptor
  <2>5. p + max <= SizeModulus /\ p \in Nat
    BY <2>3, BuddyConstants DEF Geometry
  <2>6. SizeModulus \in Nat /\ max \in Nat
    BY BuddyConstants DEF Maxima
  <2>7. b + f[b] <= p + max
    BY <2>1, <2>3 DEF EndIn
  <2>8. f[b] \in Nat
    BY <2>1, <2>4
  <2> QED BY <2>4, <2>5, <2>6, <2>7, <2>8 DEF NULL
<1>3. \A a, b \in DOMAIN f : a < b => a + f[a] <= b
  <2>1. \A a \in T : a \in BlocksIn(d) /\ EndIn(d, a) = a + f[a]
    BY <1>1 DEF EndIn
  <2> QED BY <1>1, <2>1 DEF Shape, Ordered
<1>4. 1 + SumFunction(f) <= SizeModulus
  <2>1. DOMAIN f \subseteq Nat /\ 1 \in Nat /\ SizeModulus \in Nat /\ 1 <= SizeModulus
    BY <1>2, BuddyConstants
  <2>2. \A a \in DOMAIN f : 1 <= a /\ a + f[a] <= SizeModulus
    BY <1>2
  <2> QED BY <1>1, <1>3, <2>1, <2>2, SumOfPieces
<1>5. SumFunction(f) \in Nat
  BY <1>1, SumNatural
<1> QED BY <1>1, <1>4, <1>5, BuddyConstants DEF f

LEMMA TotalFits ==
  ASSUME NEW max \in Maxima, Geometry(max), NEW d, NEW h, Shape(d, h, max), Finite(d),
         DOMAIN h \subseteq Addresses, NEW t \in {"FREE", "ARENA"}
  PROVE  Total(d, t) \in Nat /\ Total(d, t) < SizeModulus
<1>1. Total(d, t) \in Nat
  BY SizesNatural DEF Shape
<1>2. TypeIn(d, t) \in SUBSET BlocksIn(d) /\ \A b \in TypeIn(d, t) : d[b].type # "HUGE"
  BY DEF TypeIn, BlocksIn
<1>3. SumFunction([b \in TypeIn(d, t) |-> d[b].total_size]) < SizeModulus
  BY <1>2, SizesFit
<1> QED BY <1>1, <1>3 DEF Total, Sizes

LEMMA TotalSame ==
  ASSUME NEW d, NEW e, NEW t, TypeIn(e, t) = TypeIn(d, t),
         \A b \in TypeIn(d, t) : e[b].total_size = d[b].total_size
  PROVE  Total(e, t) = Total(d, t)
<1>1. Sizes(e, t) = Sizes(d, t)
  BY DEF Sizes
<1> QED BY <1>1 DEF Total

LEMMA TotalMore ==
  ASSUME NEW d, Typed(d), Finite(d), NEW e, NEW t \in {"FREE", "ARENA"}, NEW n,
         n \notin TypeIn(d, t), TypeIn(e, t) = TypeIn(d, t) \cup {n},
         e[n].total_size \in Nat,
         \A b \in TypeIn(d, t) : e[b].total_size = d[b].total_size
  PROVE  Total(e, t) = Total(d, t) + e[n].total_size
<1>1. /\ IsNatural(Sizes(d, t)) /\ DOMAIN Sizes(d, t) = TypeIn(d, t)
      /\ \A b \in TypeIn(d, t) : Sizes(d, t)[b] = d[b].total_size
      /\ Total(d, t) \in Nat
  BY SizesNatural
<1>2. Sizes(d, t) = [b \in DOMAIN Sizes(d, t) |-> Sizes(d, t)[b]]
  BY DEF Sizes
<1>3. Sizes(e, t) = With(Sizes(d, t), n, e[n].total_size)
  BY <1>1 DEF With, Sizes
<1>4. SumFunction(With(Sizes(d, t), n, e[n].total_size))
        = e[n].total_size + SumFunction(Sizes(d, t))
  BY <1>1, <1>2, SumWith
<1> QED BY <1>1, <1>3, <1>4 DEF Total

LEMMA TotalReplaced ==
  ASSUME NEW d, Typed(d), Finite(d), NEW e, NEW t \in {"FREE", "ARENA"},
         NEW x \in TypeIn(d, t), NEW y, y \notin TypeIn(d, t) \ {x},
         TypeIn(e, t) = (TypeIn(d, t) \ {x}) \cup {y}, e[y].total_size \in Nat,
         \A b \in TypeIn(d, t) \ {x} : e[b].total_size = d[b].total_size
  PROVE  Total(e, t) = (Total(d, t) - d[x].total_size) + e[y].total_size
<1>1. /\ IsNatural(Sizes(d, t)) /\ DOMAIN Sizes(d, t) = TypeIn(d, t)
      /\ \A b \in TypeIn(d, t) : Sizes(d, t)[b] = d[b].total_size
  BY SizesNatural
<1>2. Sizes(e, t) = With(Without(Sizes(d, t), x), y, e[y].total_size)
  BY <1>1 DEF With, Without, Sizes
<1>3. SumFunction(With(Without(Sizes(d, t), x), y, e[y].total_size))
        = (SumFunction(Sizes(d, t)) - Sizes(d, t)[x]) + e[y].total_size
  BY <1>1, SumReplaced
<1> QED BY <1>1, <1>2, <1>3 DEF Total

(* A type that loses a block loses its size.                                *)
LEMMA TotalLess ==
  ASSUME NEW d, Typed(d), Finite(d), NEW e, NEW t \in {"FREE", "ARENA"},
         NEW x \in TypeIn(d, t), TypeIn(e, t) = TypeIn(d, t) \ {x},
         \A b \in TypeIn(d, t) \ {x} : e[b].total_size = d[b].total_size
  PROVE  Total(e, t) = Total(d, t) - d[x].total_size
<1>1. /\ IsNatural(Sizes(d, t)) /\ DOMAIN Sizes(d, t) = TypeIn(d, t)
      /\ \A b \in TypeIn(d, t) : Sizes(d, t)[b] = d[b].total_size
  BY SizesNatural
<1>2. Sizes(e, t) = Without(Sizes(d, t), x)
  BY <1>1 DEF Without, Sizes
<1>3. /\ SumFunction(Sizes(d, t)) = Sizes(d, t)[x] + SumFunction(Without(Sizes(d, t), x))
      /\ IsNatural(Without(Sizes(d, t), x))
  BY <1>1, SumWithout
<1>4. SumFunction(Without(Sizes(d, t), x)) \in Nat /\ Sizes(d, t)[x] \in Nat
  BY <1>1, <1>3, SumNatural DEF IsNatural
<1> QED BY <1>1, <1>2, <1>3, <1>4 DEF Total

(* Two blocks of a type that become one keep their sizes together.          *)
LEMMA TotalJoined ==
  ASSUME NEW d, Typed(d), Finite(d), NEW e, NEW t \in {"FREE", "ARENA"},
         NEW b \in TypeIn(d, t), NEW r \in TypeIn(d, t), b # r,
         TypeIn(e, t) = TypeIn(d, t) \ {r},
         e[b].total_size = d[b].total_size + d[r].total_size,
         \A x \in TypeIn(d, t) \ {b, r} : e[x].total_size = d[x].total_size
  PROVE  Total(e, t) = Total(d, t)
<1> DEFINE f == Sizes(d, t)
           g == Without(f, r)
<1>1. /\ IsNatural(f) /\ DOMAIN f = TypeIn(d, t)
      /\ \A x \in TypeIn(d, t) : f[x] = d[x].total_size
  BY SizesNatural
<1>2. Sizes(e, t) = With(Without(g, b), b, f[b] + f[r])
  BY <1>1 DEF With, Without, Sizes
<1> HIDE DEF f
<1>3. SumFunction(f) = f[r] + SumFunction(g) /\ IsNatural(g)
  BY <1>1, SumWithout
<1>4. DOMAIN g = TypeIn(d, t) \ {r} /\ g[b] = f[b]
  BY <1>1 DEF Without
<1> HIDE DEF g
<1>5. f[b] \in Nat /\ f[r] \in Nat /\ f[b] + f[r] \in Nat /\ SumFunction(g) \in Nat
  BY <1>1, <1>3, SumNatural DEF IsNatural
<1>6. SumFunction(With(Without(g, b), b, f[b] + f[r]))
        = (SumFunction(g) - g[b]) + (f[b] + f[r])
  <2>1. b \in DOMAIN g /\ b \notin DOMAIN g \ {b}
    BY <1>4
  <2> QED BY <1>3, <1>5, <2>1, SumReplaced
<1> QED BY <1>2, <1>3, <1>4, <1>5, <1>6 DEF Total, f

-----------------------------------------------------------------------------
(* What the steps of a call do to the sizes.                                *)

(* d's blocks are finitely many and of whole chunks.                        *)
Counted(d) == Typed(d) /\ Finite(d) /\ Chunked(d)

SameTotals(d, e) == Total(e, "ARENA") = Total(d, "ARENA") /\ Total(e, "FREE") = Total(d, "FREE")

LEMMA TypesIn ==
  \A d : \A t \in {"FREE", "ARENA"} :
    \A b : b \in TypeIn(d, t) <=> b \in BlocksIn(d) /\ d[b].type = t
  BY DEF TypeIn, BlocksIn

(* One block more.                                                          *)
LEMMA FiniteMore ==
  ASSUME NEW d, Finite(d), NEW e, NEW n, BlocksIn(e) \subseteq BlocksIn(d) \cup {n}
  PROVE  Finite(e)
<1>1. IsFiniteSet(BlocksIn(d) \cup {n})
  BY FS_AddElement DEF Finite
<1> QED BY <1>1, FS_Subset DEF Finite

(* A block in use becomes free.                                             *)
LEMMA RetypeTotals ==
  ASSUME NEW d, NEW e, Counted(d), Typed(e), NEW b \in BlocksIn(d), d[b].type = "ARENA",
         Retyped(d, e, b, "FREE")
  PROVE  /\ Counted(e)
         /\ Total(e, "ARENA") = Total(d, "ARENA") - d[b].total_size
         /\ Total(e, "FREE") = Total(d, "FREE") + d[b].total_size
<1>1. /\ BlocksIn(e) = BlocksIn(d)
      /\ \A x \in BlocksIn(d) : /\ e[x].type = IF x = b THEN "FREE" ELSE d[x].type
                                /\ e[x].total_size = d[x].total_size
  BY DEF Retyped
<1>2. /\ TypeIn(e, "ARENA") = TypeIn(d, "ARENA") \ {b} /\ b \in TypeIn(d, "ARENA")
      /\ TypeIn(e, "FREE") = TypeIn(d, "FREE") \cup {b} /\ b \notin TypeIn(d, "FREE")
      /\ TypeIn(d, "ARENA") \subseteq BlocksIn(d) /\ TypeIn(d, "FREE") \subseteq BlocksIn(d)
  BY <1>1, TypesIn
<1>3. Counted(e)
  <2>1. Chunked(e)
    BY <1>1 DEF Counted, Chunked
  <2> QED BY <1>1, <2>1 DEF Counted, Finite
<1>4. Total(e, "ARENA") = Total(d, "ARENA") - d[b].total_size
  BY <1>1, <1>2, TotalLess DEF Counted
<1>5. Total(e, "FREE") = Total(d, "FREE") + e[b].total_size
  <2>1. e[b].total_size \in Nat
    BY <1>1 DEF Typed, BlocksIn, Descriptor
  <2> QED BY <1>1, <1>2, <2>1, TotalMore DEF Counted
<1> QED BY <1>1, <1>3, <1>4, <1>5

(* A free block absorbs its free right buddy.                               *)
LEMMA MergeTotals ==
  ASSUME NEW max \in Maxima,
         NEW d, NEW h, Shape(d, h, max), Counted(d), NEW b \in FreeIn(d), NEW r \in FreeIn(d),
         d[b].right = r
  PROVE  Counted(merge(d, b, r)) /\ SameTotals(d, merge(d, b, r))
<1> DEFINE e == merge(d, b, r)
<1>1. Typed(e) /\ Merged(d, e, b, r)
  BY MergeResult
<1> HIDE DEF e
<1>2. /\ BlocksIn(e) = BlocksIn(d) \ {r}
      /\ \A x \in BlocksIn(e) :
           /\ e[x].type = d[x].type
           /\ e[x].total_size = IF x = b THEN d[b].total_size + d[r].total_size
                                         ELSE d[x].total_size
  BY <1>1 DEF Merged
<1>3. b \in BlocksIn(d) /\ r \in BlocksIn(d) /\ b # r /\ d[b].type = "FREE" /\ d[r].type = "FREE"
  <2>1. b \in BlocksIn(d) /\ r \in BlocksIn(d) /\ d[b].type = "FREE" /\ d[r].type = "FREE"
    BY DEF FreeIn, BlocksIn
  <2>2. r # NULL
    BY <2>1 DEF Shape, Typed, BlocksIn
  <2>3. b \in Nat /\ r \in Nat /\ b < r
    BY <2>1, <2>2, RightBuddy
  <2> QED BY <2>1, <2>3
<1>4. /\ TypeIn(e, "FREE") = TypeIn(d, "FREE") \ {r}
      /\ TypeIn(e, "ARENA") = TypeIn(d, "ARENA")
      /\ b \in TypeIn(d, "FREE") /\ r \in TypeIn(d, "FREE")
      /\ b \notin TypeIn(d, "ARENA") /\ r \notin TypeIn(d, "ARENA")
      /\ TypeIn(d, "FREE") \subseteq BlocksIn(d) /\ TypeIn(d, "ARENA") \subseteq BlocksIn(d)
  <2>1. \A x : x \in TypeIn(d, "FREE") <=> x \in BlocksIn(d) /\ d[x].type = "FREE"
    BY TypesIn
  <2>2. \A x : x \in TypeIn(d, "ARENA") <=> x \in BlocksIn(d) /\ d[x].type = "ARENA"
    BY TypesIn
  <2>3. \A x : x \in TypeIn(e, "FREE") <=> x \in BlocksIn(e) /\ e[x].type = "FREE"
    BY TypesIn
  <2>4. \A x : x \in TypeIn(e, "ARENA") <=> x \in BlocksIn(e) /\ e[x].type = "ARENA"
    BY TypesIn
  <2>5. TypeIn(e, "FREE") = TypeIn(d, "FREE") \ {r}
    BY <1>2, <1>3, <2>1, <2>3
  <2>6. TypeIn(e, "ARENA") = TypeIn(d, "ARENA")
    <3>1. \A x \in TypeIn(e, "ARENA") : x \in TypeIn(d, "ARENA")
      BY <1>2, <2>2, <2>4
    <3>2. \A x \in TypeIn(d, "ARENA") : x # r
      BY <1>3, <2>2
    <3>3. \A x \in TypeIn(d, "ARENA") : x \in TypeIn(e, "ARENA")
      BY <1>2, <2>2, <2>4, <3>2
    <3> QED BY <3>1, <3>3
  <2> QED BY <1>3, <2>1, <2>2, <2>5, <2>6
<1>5. Counted(e)
  <2>1. Finite(e)
    BY <1>2, FiniteMore DEF Counted
  <2>2. Chunks(d[b].total_size + d[r].total_size)
    <3>1. Chunks(d[b].total_size) /\ Chunks(d[r].total_size)
      BY <1>3 DEF Counted, Chunked
    <3>2. /\ d[b].total_size \in Nat /\ d[r].total_size \in Nat
      BY <1>3 DEF Counted, Typed, BlocksIn, Descriptor
    <3>3. d[b].total_size <= d[r].total_size \/ d[r].total_size <= d[b].total_size
      BY <3>2
    <3>4. d[b].total_size + d[r].total_size = d[r].total_size + d[b].total_size
      BY <3>2
    <3> QED BY <3>1, <3>3, <3>4, ChunksDiffer
  <2>3. Chunked(e)
    BY <1>2, <1>3, <2>2 DEF Counted, Chunked
  <2> QED BY <1>1, <2>1, <2>3 DEF Counted
<1>6. Total(e, "FREE") = Total(d, "FREE")
  <2>1. /\ e[b].total_size = d[b].total_size + d[r].total_size
        /\ \A x \in TypeIn(d, "FREE") \ {b, r} : e[x].total_size = d[x].total_size
    BY <1>2, <1>3, <1>4
  <2> QED BY <1>3, <1>4, <2>1, TotalJoined DEF Counted
<1>7. Total(e, "ARENA") = Total(d, "ARENA")
  BY <1>2, <1>4, TotalSame
<1> QED BY <1>5, <1>6, <1>7 DEF SameTotals, e

LEMMA JoinRightTotals ==
  ASSUME NEW max \in Maxima,
         NEW d, NEW p, NEW b, NEW h, StageOK(d, p, b, h, max), Counted(d)
  PROVE  LET s == JoinRight(Stage(d, p, b, TRUE)) IN Counted(s.desc) /\ SameTotals(d, s.desc)
<1> DEFINE r == d[b].right
           s == JoinRight(Stage(d, p, b, TRUE))
<1>1. b \in FreeIn(d) /\ b \in BlocksIn(d) /\ Shape(d, h, max)
  BY DEF StageOK, FreeIn, BlocksIn
<1>2. CASE r # NULL /\ d[r].type = "FREE"
  <2>1. s.desc = merge(d, b, r)
    BY <1>2 DEF JoinRight, Stage
  <2>2. r \in FreeIn(d)
    BY <1>1, <1>2, RightBuddy DEF FreeIn, BlocksIn
  <2> HIDE DEF s
  <2> QED BY <1>1, <2>1, <2>2, MergeTotals DEF s
<1>3. CASE ~(r # NULL /\ d[r].type = "FREE")
  <2>1. s.desc = d
    BY <1>3 DEF JoinRight, Stage
  <2> HIDE DEF s
  <2> QED BY <2>1 DEF SameTotals, s
<1> QED BY <1>2, <1>3

LEMMA JoinLeftTotals ==
  ASSUME NEW max \in Maxima,
         NEW d, NEW p, NEW b, NEW h, StageOK(d, p, b, h, max), Counted(d)
  PROVE  LET s == JoinLeft(Stage(d, p, b, TRUE)) IN Counted(s.desc) /\ SameTotals(d, s.desc)
<1> DEFINE l == d[b].left
           s == JoinLeft(Stage(d, p, b, TRUE))
<1>1. b \in FreeIn(d) /\ b \in BlocksIn(d) /\ Shape(d, h, max)
  BY DEF StageOK, FreeIn, BlocksIn
<1>2. CASE l # NULL /\ d[l].type = "FREE"
  <2>1. s.desc = merge(d, l, b)
    BY <1>2 DEF JoinLeft, Stage
  <2>2. l \in FreeIn(d) /\ d[l].right = b
    BY <1>1, <1>2 DEF Shape, Linked, FreeIn, BlocksIn
  <2> HIDE DEF s
  <2> QED BY <1>1, <2>1, <2>2, MergeTotals DEF s
<1>3. CASE ~(l # NULL /\ d[l].type = "FREE")
  <2>1. s.desc = d
    BY <1>3 DEF JoinLeft, Stage
  <2> HIDE DEF s
  <2> QED BY <2>1 DEF SameTotals, s
<1> QED BY <1>2, <1>3

(* A request is served from a free block: its size moves from the free      *)
(* sizes to those in use, all of it, for what remains of the block is a     *)
(* free one of its own or nothing.                                          *)
LEMMA SplitToAllocTotals ==
  ASSUME NEW max \in Maxima,
         Geometry(max), NEW d, NEW h, Shape(d, h, max), Counted(d), NEW b \in FreeIn(d),
         NEW size, Chunks(size), size >= DescSize, size < SizeModulus,
         d[b].total_size >= size
  PROVE  LET e == SplitDesc(d, b, size) IN
         /\ Counted(e)
         /\ Total(e, "ARENA") = Total(d, "ARENA") + size
         /\ Total(e, "FREE") = Total(d, "FREE") - size
<1> DEFINE f == split(d, b, size)
           e == SplitDesc(d, b, size)
           n == b + size
           T == d[b].total_size
<1>1. /\ b \in BlocksIn(d) /\ d[b].type = "FREE" /\ b \in Nat /\ T \in Nat
      /\ b \in TypeIn(d, "FREE") /\ b \notin TypeIn(d, "ARENA")
  BY DEF Shape, Typed, FreeIn, BlocksIn, Descriptor, TypeIn
<1>2. /\ Chunks(T) /\ size \in Nat /\ Chunks(T - size) /\ T - size \in Nat
      /\ T = size \/ T - size >= MinChunk
  <2>1. Chunks(T)
    BY <1>1 DEF Counted, Chunked
  <2>2. /\ size \in Nat /\ Chunks(T - size) /\ (T = size \/ T - size >= MinChunk)
    BY <2>1, ChunksDiffer
  <2> QED BY <1>1, <2>1, <2>2
<1>3. /\ Total(d, "FREE") \in Nat /\ Total(d, "ARENA") \in Nat
      /\ TypeIn(d, "FREE") \subseteq BlocksIn(d) /\ TypeIn(d, "ARENA") \subseteq BlocksIn(d)
  BY SizesNatural DEF Counted
<1>4. e = set_type(f, b, "ARENA")
  BY DEF SplitDesc
<1>5. CASE Leaves(d, b, size)
  <2>1. Typed(f) /\ Cut(d, f, b, size, n)
    BY <1>2, <1>5, SplitResult
  <2>2. b \in BlocksIn(f) /\ n \notin BlocksIn(d) /\ n # b
    BY <2>1, <1>1 DEF Cut
  <2> HIDE DEF e, f, n
  <2>3. Typed(e) /\ Retyped(f, e, b, "ARENA")
    BY <1>4, <2>1, <2>2, RetypeResult
  <2>4. /\ BlocksIn(f) = BlocksIn(d) \cup {n}
        /\ \A x \in BlocksIn(d) : /\ f[x].type = d[x].type
                                  /\ f[x].total_size = IF x = b THEN size ELSE d[x].total_size
        /\ f[n].type = "FREE" /\ f[n].total_size = T - size
    BY <2>1 DEF Cut
  <2>5. /\ BlocksIn(e) = BlocksIn(f)
        /\ \A x \in BlocksIn(f) : /\ e[x].type = IF x = b THEN "ARENA" ELSE f[x].type
                                  /\ e[x].total_size = f[x].total_size
    BY <2>3 DEF Retyped
  <2> HIDE DEF T
  <2>6. /\ BlocksIn(e) = BlocksIn(d) \cup {n}
        /\ \A x \in BlocksIn(d) \ {b} : /\ e[x].type = d[x].type
                                        /\ e[x].total_size = d[x].total_size
        /\ e[b].type = "ARENA" /\ e[b].total_size = size
        /\ e[n].type = "FREE" /\ e[n].total_size = T - size
    BY <1>1, <2>2, <2>4, <2>5
  <2>7. /\ TypeIn(e, "FREE") = (TypeIn(d, "FREE") \ {b}) \cup {n}
        /\ TypeIn(e, "ARENA") = TypeIn(d, "ARENA") \cup {b}
        /\ n \notin TypeIn(d, "FREE")
    <3>1. \A x : x \in TypeIn(d, "FREE") <=> x \in BlocksIn(d) /\ d[x].type = "FREE"
      BY TypesIn
    <3>2. \A x : x \in TypeIn(d, "ARENA") <=> x \in BlocksIn(d) /\ d[x].type = "ARENA"
      BY TypesIn
    <3>3. \A x : x \in TypeIn(e, "FREE") <=> x \in BlocksIn(e) /\ e[x].type = "FREE"
      BY TypesIn
    <3>4. \A x : x \in TypeIn(e, "ARENA") <=> x \in BlocksIn(e) /\ e[x].type = "ARENA"
      BY TypesIn
    <3>5. TypeIn(e, "FREE") = (TypeIn(d, "FREE") \ {b}) \cup {n}
      BY <1>1, <2>2, <2>6, <3>1, <3>3
    <3>6. TypeIn(e, "ARENA") = TypeIn(d, "ARENA") \cup {b}
      BY <1>1, <2>2, <2>6, <3>2, <3>4
    <3> QED BY <1>3, <2>2, <3>5, <3>6
  <2>8. Counted(e)
    <3>1. Finite(e)
      BY <2>6, FiniteMore DEF Counted
    <3>2. Chunked(e)
      BY <1>2, <2>6 DEF Counted, Chunked
    <3> QED BY <2>3, <3>1, <3>2 DEF Counted
  <2>9. Total(e, "FREE") = (Total(d, "FREE") - T) + (T - size)
    <3>1. \A x \in TypeIn(d, "FREE") \ {b} : e[x].total_size = d[x].total_size
      BY <1>3, <2>6
    <3>2. e[n].total_size \in Nat
      BY <1>2, <2>6
    <3>3. Total(e, "FREE") = (Total(d, "FREE") - d[b].total_size) + e[n].total_size
      BY <1>1, <2>7, <3>1, <3>2, TotalReplaced DEF Counted
    <3> QED BY <2>6, <3>3 DEF T
  <2>10. Total(e, "ARENA") = Total(d, "ARENA") + size
    <3>1. \A x \in TypeIn(d, "ARENA") : e[x].total_size = d[x].total_size
      BY <1>1, <1>3, <2>6
    <3>2. e[b].total_size \in Nat
      BY <1>2, <2>6
    <3>3. Total(e, "ARENA") = Total(d, "ARENA") + e[b].total_size
      BY <1>1, <2>7, <3>1, <3>2, TotalMore DEF Counted
    <3> QED BY <2>6, <3>3
  <2>11. Total(e, "FREE") = Total(d, "FREE") - size
    <3>1. T \in Nat
      BY <1>1 DEF T
    <3> QED BY <1>2, <1>3, <2>9, <3>1
  <2> QED BY <2>8, <2>10, <2>11 DEF e
<1>6. CASE ~Leaves(d, b, size)
  <2>1. T = size
    BY <1>1, <1>2, <1>6, BuddyConstants DEF Leaves, Geometry
  <2>2. f = d
    BY <1>6 DEF split
  <2> HIDE DEF e, f
  <2>3. Typed(e) /\ Retyped(d, e, b, "ARENA")
    BY <1>1, <1>4, <2>2, RetypeResult DEF Counted
  <2>4. /\ BlocksIn(e) = BlocksIn(d)
        /\ \A x \in BlocksIn(d) : /\ e[x].type = IF x = b THEN "ARENA" ELSE d[x].type
                                  /\ e[x].total_size = d[x].total_size
    BY <2>3 DEF Retyped
  <2>5. /\ TypeIn(e, "FREE") = TypeIn(d, "FREE") \ {b}
        /\ TypeIn(e, "ARENA") = TypeIn(d, "ARENA") \cup {b}
    <3>1. \A x : x \in TypeIn(d, "FREE") <=> x \in BlocksIn(d) /\ d[x].type = "FREE"
      BY TypesIn
    <3>2. \A x : x \in TypeIn(d, "ARENA") <=> x \in BlocksIn(d) /\ d[x].type = "ARENA"
      BY TypesIn
    <3>3. \A x : x \in TypeIn(e, "FREE") <=> x \in BlocksIn(e) /\ e[x].type = "FREE"
      BY TypesIn
    <3>4. \A x : x \in TypeIn(e, "ARENA") <=> x \in BlocksIn(e) /\ e[x].type = "ARENA"
      BY TypesIn
    <3>5. TypeIn(e, "FREE") = TypeIn(d, "FREE") \ {b}
      BY <1>1, <2>4, <3>1, <3>3
    <3>6. TypeIn(e, "ARENA") = TypeIn(d, "ARENA") \cup {b}
      BY <1>1, <2>4, <3>2, <3>4
    <3> QED BY <3>5, <3>6
  <2>6. Counted(e)
    <3>1. Chunked(e)
      BY <1>1, <1>2, <2>4 DEF Counted, Chunked
    <3> QED BY <2>3, <2>4, <3>1 DEF Counted, Finite
  <2>7. Total(e, "FREE") = Total(d, "FREE") - T
    <3>1. \A x \in TypeIn(d, "FREE") \ {b} : e[x].total_size = d[x].total_size
      BY <1>3, <2>4
    <3> QED BY <1>1, <2>5, <3>1, TotalLess DEF Counted
  <2>8. Total(e, "ARENA") = Total(d, "ARENA") + T
    <3>1. \A x \in TypeIn(d, "ARENA") : e[x].total_size = d[x].total_size
      BY <1>3, <2>4
    <3>2. e[b].total_size = T /\ e[b].total_size \in Nat
      BY <1>1, <2>4
    <3>3. Total(e, "ARENA") = Total(d, "ARENA") + e[b].total_size
      BY <1>1, <2>5, <3>1, <3>2, TotalMore DEF Counted
    <3> QED BY <3>2, <3>3
  <2> QED BY <2>1, <2>6, <2>7, <2>8 DEF e
<1> QED BY <1>5, <1>6

-----------------------------------------------------------------------------
(* The steps of the allocator.                                              *)

(* total_used_ and total_free_ are the sizes of the blocks in use and of    *)
(* the free ones; that holds because segments are cut into whole chunks and *)
(* all of them come from the system allocator's addresses.                  *)
CInv(max) ==
  /\ IInv(max)
  /\ Finite(desc) /\ Chunked(desc)
  /\ DOMAIN held \subseteq Addresses
  /\ state = "up" => /\ total_used = Total(desc, "ARENA")
                     /\ total_free = Total(desc, "FREE")

(* The part of CInv(max) that a step must establish; total_used_ and total_free_ *)
(* may be wrapped sums.                                                     *)
Balanced(d, h, u, f) ==
  /\ Finite(d) /\ Chunked(d) /\ DOMAIN h \subseteq Addresses
  /\ u = Wrap(Total(d, "ARENA")) /\ f = Wrap(Total(d, "FREE"))

LEMMA BalancedIsCounted ==
  ASSUME NEW max \in Maxima,
         Geometry(max), IInv(max)', Balanced(desc', held', total_used', total_free')
  PROVE  CInv(max)'
<1>1. /\ Shape(desc', held', max) /\ Finite(desc') /\ Chunked(desc') /\ DOMAIN held' \subseteq Addresses
  BY DEF IInv, Balanced
<1>2. /\ Total(desc', "ARENA") \in Nat /\ Total(desc', "ARENA") < SizeModulus
      /\ Total(desc', "FREE") \in Nat /\ Total(desc', "FREE") < SizeModulus
  BY <1>1, TotalFits
<1>3. total_used' = Total(desc', "ARENA") /\ total_free' = Total(desc', "FREE")
  BY <1>2, WrapSame DEF Balanced
<1> QED BY <1>1, <1>3 DEF CInv

(* What a new whole block changes.                                          *)
LEMMA ObtainTotals ==
  ASSUME NEW max \in Maxima,
         Geometry(max), CInv(max), NEW p \in Addresses, NEW i \in Indices, NEW size \in Nat,
         size >= DescSize, NEW t \in {"FREE", "HUGE"}, t = "FREE" => size = max,
         Available(p, size)
  PROVE  LET e == Save(desc, p, Desc(t, i, size, NULL, NULL)) IN
         /\ Counted(e) /\ DOMAIN Hold(held, p, size, i) \subseteq Addresses
         /\ Total(e, "ARENA") = Total(desc, "ARENA")
         /\ Total(e, "FREE") = Total(desc, "FREE") + (IF t = "FREE" THEN size ELSE 0)
<1> DEFINE e == Save(desc, p, Desc(t, i, size, NULL, NULL))
<1>1. /\ Shape(e, Hold(held, p, size, i), max) /\ p \notin BlocksIn(desc)
      /\ e[p].type = t /\ e[p].total_size = size
      /\ \A x \in BlocksIn(desc) : e[x] = desc[x]
      /\ BlocksIn(e) = BlocksIn(desc) \cup {p}
  BY ObtainStep DEF CInv
<1> HIDE DEF e
<1>2. Counted(desc)
  BY DEF Counted, CInv, IInv, Shape
<1>3. Counted(e)
  <2>1. Finite(e)
    BY <1>1, <1>2, FiniteMore DEF Counted
  <2>2. Chunked(e)
    BY <1>1, <1>2, MaxIsChunks DEF Counted, Chunked
  <2> QED BY <1>1, <2>1, <2>2 DEF Counted, Shape
<1>4. DOMAIN Hold(held, p, size, i) \subseteq Addresses
  BY DEF Hold, Save, CInv
<1>5. /\ \A x : x \in TypeIn(desc, "FREE") <=> x \in BlocksIn(desc) /\ desc[x].type = "FREE"
      /\ \A x : x \in TypeIn(desc, "ARENA") <=> x \in BlocksIn(desc) /\ desc[x].type = "ARENA"
      /\ \A x : x \in TypeIn(e, "FREE") <=> x \in BlocksIn(e) /\ e[x].type = "FREE"
      /\ \A x : x \in TypeIn(e, "ARENA") <=> x \in BlocksIn(e) /\ e[x].type = "ARENA"
  BY TypesIn
<1>6. Total(e, "ARENA") = Total(desc, "ARENA")
  <2>1. \A x \in TypeIn(e, "ARENA") : x \in TypeIn(desc, "ARENA")
    <3> TAKE x \in TypeIn(e, "ARENA")
    <3>1. x \in BlocksIn(e) /\ e[x].type = "ARENA"
      BY <1>5
    <3>2. x # p
      BY <1>1, <3>1
    <3>3. x \in BlocksIn(desc) /\ e[x] = desc[x]
      BY <1>1, <3>1, <3>2
    <3> QED BY <1>5, <3>1, <3>3
  <2>2. \A x \in TypeIn(desc, "ARENA") : x \in TypeIn(e, "ARENA")
    <3> TAKE x \in TypeIn(desc, "ARENA")
    <3>1. x \in BlocksIn(desc) /\ desc[x].type = "ARENA"
      BY <1>5
    <3>2. x \in BlocksIn(e) /\ e[x] = desc[x]
      BY <1>1, <3>1
    <3> QED BY <1>5, <3>1, <3>2
  <2>3. TypeIn(e, "ARENA") = TypeIn(desc, "ARENA")
    BY <2>1, <2>2
  <2>4. \A x \in TypeIn(desc, "ARENA") : e[x].total_size = desc[x].total_size
    BY <1>1, <1>5
  <2> QED BY <2>3, <2>4, TotalSame
<1>7. Total(desc, "FREE") \in Nat
  BY <1>2, SizesNatural DEF Counted
<1>8. \A x \in TypeIn(desc, "FREE") : e[x].total_size = desc[x].total_size
  BY <1>1, <1>5
<1>9. CASE t = "FREE"
  <2>1. TypeIn(e, "FREE") = TypeIn(desc, "FREE") \cup {p} /\ p \notin TypeIn(desc, "FREE")
    BY <1>1, <1>5, <1>9
  <2>2. Total(e, "FREE") = Total(desc, "FREE") + e[p].total_size
    BY <1>1, <1>2, <1>8, <2>1, TotalMore DEF Counted
  <2> QED BY <1>1, <1>3, <1>4, <1>6, <1>9, <2>2 DEF e
<1>10. CASE t = "HUGE"
  <2>0. \A x \in BlocksIn(e) : e[x].type = "FREE" <=> x \in BlocksIn(desc) /\ desc[x].type = "FREE"
    BY <1>1, <1>10
  <2>1. TypeIn(e, "FREE") = TypeIn(desc, "FREE")
    BY <1>1, <1>5, <2>0
  <2>2. Total(e, "FREE") = Total(desc, "FREE") + 0
    BY <1>7, <1>8, <2>1, TotalSame
  <2> QED BY <1>3, <1>4, <1>6, <1>10, <2>2 DEF e
<1> QED BY <1>9, <1>10

LEMMA CInvCounted ==
  ASSUME NEW max \in Maxima,
         CInv(max), state = "up"
  PROVE  /\ Counted(desc) /\ Shape(desc, held, max) /\ DOMAIN held \subseteq Addresses
         /\ total_used = Total(desc, "ARENA") /\ total_free = Total(desc, "FREE")
         /\ Total(desc, "ARENA") \in Nat /\ Total(desc, "FREE") \in Nat
<1>1. Counted(desc)
  BY DEF Counted, CInv, IInv, Shape
<1>2. Total(desc, "ARENA") \in Nat /\ Total(desc, "FREE") \in Nat
  BY <1>1, SizesNatural DEF Counted
<1> QED BY <1>1, <1>2 DEF CInv, IInv

LEMMA AllocHugeCounts ==
  ASSUME NEW max \in Maxima,
         RequestsFit, Geometry(max), CInv(max), NEW bytes \in Requests, AllocHuge(bytes, max)
  PROVE  Balanced(desc', held', total_used', total_free')
<1> DEFINE size == ChunkSize(bytes)
<1>1. PICK p \in Addresses, i \in Indices :
        /\ Available(p, size)
        /\ held' = Hold(held, p, size, i)
        /\ desc' = Save(desc, p, Desc("HUGE", i, size, NULL, NULL))
  BY DEF AllocHuge
<1>2. size \in Nat /\ size >= DescSize
  BY ChunkSizeHolds, BuddyConstants
<1> HIDE DEF size
<1>3. /\ Counted(desc') /\ DOMAIN held' \subseteq Addresses
      /\ Total(desc', "ARENA") = Total(desc, "ARENA")
      /\ Total(desc', "FREE") = Total(desc, "FREE") + 0
  BY <1>1, <1>2, ObtainTotals
<1>4. /\ total_used = Total(desc, "ARENA") /\ total_free = Total(desc, "FREE")
      /\ Total(desc, "FREE") \in Nat
      /\ total_used \in 0 .. SizeModulus - 1 /\ total_free \in 0 .. SizeModulus - 1
  BY CInvCounted DEF AllocHuge, CInv, IInv
<1>5. Wrap(total_used) = total_used /\ Wrap(total_free) = total_free
  BY <1>4, WrapSame, BuddyConstants
<1>6. total_used' = total_used /\ total_free' = total_free
  BY DEF AllocHuge
<1> QED BY <1>3, <1>4, <1>5, <1>6 DEF Balanced, Counted

LEMMA AllocExistingCounts ==
  ASSUME NEW max \in Maxima,
         RequestsFit, Geometry(max), CInv(max), NEW bytes \in Requests, AllocExisting(bytes, max)
  PROVE  Balanced(desc', held', total_used', total_free')
<1> DEFINE size == ChunkSize(bytes)
<1>1. PICK t \in pool : FindExistChunk(size, t) /\ SplitToAlloc(bytes, desc, pool, t[3])
  BY DEF AllocExisting
<1>2. PICK b \in FreeIn(desc) : t = Entry(desc, b)
  BY DEF CInv, IInv, EntriesOf
<1>3. t[3] = b /\ desc[b].total_size >= size
  BY <1>1, <1>2 DEF Entry, FindExistChunk, Fits
<1>4. Chunks(size) /\ size >= DescSize /\ size < SizeModulus
  BY ChunkSizeHolds, ChunkSizeMultiple, BuddyConstants DEF Chunks
<1>5. /\ desc' = SplitDesc(desc, b, size) /\ total_used' = Wrap(total_used + size)
      /\ total_free' = Wrap(total_free - size) /\ held' = held
  BY <1>1, <1>3 DEF SplitToAlloc, AllocExisting
<1> HIDE DEF size
<1>6. /\ Counted(desc) /\ Shape(desc, held, max) /\ DOMAIN held \subseteq Addresses
      /\ total_used = Total(desc, "ARENA") /\ total_free = Total(desc, "FREE")
  BY CInvCounted DEF AllocExisting
<1>7. /\ Counted(desc')
      /\ Total(desc', "ARENA") = Total(desc, "ARENA") + size
      /\ Total(desc', "FREE") = Total(desc, "FREE") - size
  BY <1>3, <1>4, <1>5, <1>6, SplitToAllocTotals
<1> QED BY <1>5, <1>6, <1>7 DEF Balanced, Counted

LEMMA AllocRefillCounts ==
  ASSUME NEW max \in Maxima,
         RequestsFit, Geometry(max), CInv(max), NEW bytes \in Requests, AllocRefill(bytes, max)
  PROVE  Balanced(desc', held', total_used', total_free')
<1> DEFINE size == ChunkSize(bytes)
<1>1. PICK p \in Addresses, i \in Indices :
        LET fresh == Save(desc, p, Desc("FREE", i, max, NULL, NULL)) IN
        /\ Available(p, max)
        /\ held' = Hold(held, p, max, i)
        /\ SplitToAlloc(bytes, fresh, pool \cup {Entry(fresh, p)}, p)
  BY DEF AllocRefill
<1> DEFINE fresh == Save(desc, p, Desc("FREE", i, max, NULL, NULL))
<1>2. /\ desc' = SplitDesc(fresh, p, size) /\ total_used' = Wrap(total_used + size)
      /\ total_free' = Wrap((total_free + max) - size)
  BY <1>1 DEF SplitToAlloc, AllocRefill
<1>3. Chunks(size) /\ size >= DescSize /\ size < SizeModulus /\ size <= max
  <2>1. Chunks(size) /\ size >= DescSize /\ size < SizeModulus
    <3>1. bytes \in Nat /\ size \in Nat /\ size >= bytes + DescSize /\ size < SizeModulus
      BY ChunkSizeHolds
    <3>2. Chunks(size)
      BY ChunkSizeMultiple DEF Chunks
    <3>3. DescSize \in Nat
      BY BuddyConstants
    <3> HIDE DEF size
    <3> QED BY <3>1, <3>2, <3>3
  <2>2. ~ (size > max)
    BY DEF AllocRefill, IsHuge
  <2>3. size \in Nat /\ max \in Nat
    BY ChunkSizeHolds DEF Maxima
  <2> HIDE DEF size
  <2> QED BY <2>1, <2>2, <2>3
<1>4. max \in Nat /\ max >= DescSize
  BY BuddyConstants DEF Maxima
<1> HIDE DEF size
<1>5. /\ Counted(fresh) /\ DOMAIN held' \subseteq Addresses
      /\ Total(fresh, "ARENA") = Total(desc, "ARENA")
      /\ Total(fresh, "FREE") = Total(desc, "FREE") + max
  BY <1>1, <1>4, ObtainTotals
<1>6. /\ Shape(fresh, held', max) /\ fresh[p].total_size = max /\ fresh[p].type = "FREE"
      /\ BlocksIn(fresh) = BlocksIn(desc) \cup {p}
  BY <1>1, <1>4, ObtainStep DEF CInv
<1> HIDE DEF fresh
<1>7. p \in FreeIn(fresh)
  BY <1>6 DEF FreeIn, BlocksIn
<1>8. total_used = Total(desc, "ARENA") /\ total_free = Total(desc, "FREE")
  BY CInvCounted DEF AllocRefill
<1> DEFINE h == held'
<1>9. Shape(fresh, h, max)
  BY <1>6
<1> HIDE DEF h
<1>10. /\ Counted(desc')
       /\ Total(desc', "ARENA") = Total(fresh, "ARENA") + size
       /\ Total(desc', "FREE") = Total(fresh, "FREE") - size
  BY <1>2, <1>3, <1>5, <1>6, <1>7, <1>9, SplitToAllocTotals
<1> QED BY <1>2, <1>5, <1>8, <1>10 DEF Balanced, Counted

LEMMA FreeHugeCounts ==
  ASSUME NEW max \in Maxima,
         Geometry(max), CInv(max), NEW m \in live, FreeHuge(m)
  PROVE  Balanced(desc', held', total_used', total_free')
<1> DEFINE b == metadata(m.mem)
<1>1. /\ desc' = Drop(desc, b) /\ desc[b].type = "HUGE" /\ state = "up"
      /\ total_used' = total_used /\ total_free' = total_free
      /\ held' = Drop(held, b) \/ held' = held
  BY DEF FreeHuge
<1> HIDE DEF b
<1>2. DOMAIN held' \subseteq Addresses
  BY <1>1 DEF Drop, CInv
<1>3. DOMAIN desc' = DOMAIN desc \ {b} /\ \A x \in DOMAIN desc' : desc'[x] = desc[x]
  BY <1>1 DEF Drop
<1>4. BlocksIn(desc') \subseteq BlocksIn(desc)
  BY <1>3 DEF BlocksIn
<1>5. Finite(desc') /\ Chunked(desc')
  <2>1. Finite(desc')
    BY <1>4, FS_Subset DEF Finite, CInv
  <2>2. Chunked(desc')
    BY <1>3, <1>4 DEF Chunked, CInv, BlocksIn
  <2> QED BY <2>1, <2>2
<1>6. ASSUME NEW t \in {"FREE", "ARENA"} PROVE Total(desc', t) = Total(desc, t)
  <2>1. TypeIn(desc', t) = TypeIn(desc, t)
    BY <1>1, <1>3 DEF TypeIn
  <2>2. \A x \in TypeIn(desc, t) : desc'[x].total_size = desc[x].total_size
    BY <1>3, <2>1 DEF TypeIn
  <2> QED BY <2>1, <2>2, TotalSame
<1>7. /\ total_used = Total(desc, "ARENA") /\ total_free = Total(desc, "FREE")
      /\ total_used \in 0 .. SizeModulus - 1 /\ total_free \in 0 .. SizeModulus - 1
  BY <1>1, CInvCounted DEF CInv, IInv
<1>8. Wrap(total_used) = total_used /\ Wrap(total_free) = total_free
  BY <1>7, WrapSame, BuddyConstants
<1> QED BY <1>1, <1>2, <1>5, <1>6, <1>7, <1>8 DEF Balanced

LEMMA FreeArenaCounts ==
  ASSUME NEW max \in Maxima,
         Geometry(max), CInv(max), NEW m \in live, FreeArena(m)
  PROVE  Balanced(desc', held', total_used', total_free')
<1> DEFINE b == metadata(m.mem)
           d == set_type(desc, b, "FREE")
           s == JoinRight(Stage(d, pool, b, TRUE))
           j == JoinLeft(s)
<1>1. b \in InUse(desc) /\ b \in BlocksIn(desc) /\ desc[b].type = "ARENA"
  BY DEF CInv, IInv, Served, FreeArena, InUse, BlocksIn
<1>2. /\ desc' = j.desc /\ held' = held /\ state = "up"
      /\ total_used' = Wrap(total_used - desc[b].total_size)
      /\ total_free' = Wrap(total_free + desc[b].total_size)
  <2>1. mark_asserts(desc, b) = TRUE
    BY <1>1 DEF mark_asserts
  <2> QED BY <2>1 DEF FreeArena
<1> HIDE DEF b, d, s, j
<1>3. /\ Counted(desc) /\ Shape(desc, held, max) /\ DOMAIN held \subseteq Addresses
      /\ total_used = Total(desc, "ARENA") /\ total_free = Total(desc, "FREE")
  BY <1>2, CInvCounted
<1>4. Typed(d) /\ Retyped(desc, d, b, "FREE")
  BY <1>1, <1>3, RetypeResult DEF d, Counted
<1>5. /\ Counted(d)
      /\ Total(d, "ARENA") = Total(desc, "ARENA") - desc[b].total_size
      /\ Total(d, "FREE") = Total(desc, "FREE") + desc[b].total_size
  BY <1>1, <1>3, <1>4, RetypeTotals
<1>6. StageOK(d, pool, b, held, max)
  BY <1>1, FreedStage DEF CInv, d
<1>7. Counted(s.desc) /\ SameTotals(d, s.desc)
  BY <1>5, <1>6, JoinRightTotals DEF s
<1>8. s = Stage(s.desc, s.pool, b, TRUE) /\ StageOK(s.desc, s.pool, b, held, max)
  BY <1>6, JoinRightStage DEF s
<1>9. Counted(j.desc) /\ SameTotals(s.desc, j.desc)
  <2>1. j = JoinLeft(Stage(s.desc, s.pool, b, TRUE))
    BY <1>8 DEF j
  <2> QED BY <1>7, <1>8, <2>1, JoinLeftTotals
<1> QED BY <1>2, <1>3, <1>5, <1>7, <1>9 DEF Balanced, Counted, SameTotals

LEMMA CallCInv ==
  ASSUME NEW max \in Maxima, RequestsFit, Geometry(max), CInv(max), Call(max)
  PROVE  CInv(max)'
<1>0. IInv(max)'
  BY CallIInv DEF CInv
<1>1. ASSUME NEW bytes \in Requests, AllocHuge(bytes, max) PROVE CInv(max)'
  BY <1>0, <1>1, AllocHugeCounts, BalancedIsCounted
<1>2. ASSUME NEW bytes \in Requests, AllocExisting(bytes, max) PROVE CInv(max)'
  BY <1>0, <1>2, AllocExistingCounts, BalancedIsCounted
<1>3. ASSUME NEW bytes \in Requests, AllocRefill(bytes, max) PROVE CInv(max)'
  BY <1>0, <1>3, AllocRefillCounts, BalancedIsCounted
<1>4. ASSUME NEW m \in live, FreeHuge(m) PROVE CInv(max)'
  BY <1>0, <1>4, FreeHugeCounts, BalancedIsCounted
<1>5. ASSUME NEW m \in live, FreeArena(m) PROVE CInv(max)'
  BY <1>0, <1>5, FreeArenaCounts, BalancedIsCounted
<1>6. CASE Destroy(max)
  <2>1. /\ DOMAIN desc' \subseteq DOMAIN desc /\ \A b \in DOMAIN desc' : desc'[b] = desc[b]
        /\ DOMAIN held' \subseteq DOMAIN held /\ state' # "up"
    BY <1>6 DEF Destroy
  <2>2. BlocksIn(desc') \subseteq BlocksIn(desc)
    BY <2>1 DEF BlocksIn
  <2>3. Finite(desc') /\ Chunked(desc')
    <3>1. Finite(desc')
      BY <2>2, FS_Subset DEF Finite, CInv
    <3>2. Chunked(desc')
      BY <2>1, <2>2 DEF Chunked, CInv, BlocksIn
    <3> QED BY <3>1, <3>2
  <2> QED BY <1>0, <2>1, <2>3 DEF CInv
<1> QED
  BY <1>1, <1>2, <1>3, <1>4, <1>5, <1>6 DEF Call, Alloc

LEMMA NextCInv ==
  ASSUME RequestsFit, Geometry(MaxChunk)
  PROVE  CInv(MaxChunk) /\ [Next]_vars => CInv(MaxChunk)'
<1>1. ASSUME CInv(MaxChunk), Next PROVE CInv(MaxChunk)'
  BY <1>1, NextIsCall, CallCInv, MaxChunkIsOne
<1>2. ASSUME CInv(MaxChunk), UNCHANGED vars PROVE CInv(MaxChunk)'
  BY <1>2 DEF vars, CInv, IInv
<1> QED
  BY <1>1, <1>2

LEMMA InitCInv ==
  ASSUME NEW max \in Maxima, Init
  PROVE  CInv(max)
<1>1. DOMAIN desc = {} /\ DOMAIN held = {}
  BY DEF Init
<1>2. BlocksIn(desc) = {} /\ TypeIn(desc, "ARENA") = {} /\ TypeIn(desc, "FREE") = {}
  BY <1>1 DEF BlocksIn, TypeIn
<1>3. Finite(desc) /\ Chunked(desc) /\ Typed(desc)
  BY <1>1, <1>2, FS_EmptySet DEF Finite, Chunked, Typed
<1>4. ASSUME NEW t \in {"FREE", "ARENA"} PROVE Total(desc, t) = 0
  <2>1. IsNatural(Sizes(desc, t)) /\ DOMAIN Sizes(desc, t) = {}
    BY <1>2, <1>3, SizesNatural
  <2> QED BY <2>1, SumNatural DEF Total
<1> QED BY <1>1, <1>3, <1>4, InitIInv DEF Init, CInv

(* total_used_ and total_free_ are the sizes of the blocks in use and of    *)
(* the free ones, through every split and merge, and neither ever wraps     *)
(* (buddy_allocator.cc:68-69, 97-98, 187, 239-241).                         *)
THEOREM CountersCorrect ==
  ASSUME RequestsFit, Geometry(MaxChunk)
  PROVE  Spec => []CountersExact
<1>1. Init => CInv(MaxChunk)
  BY InitCInv, MaxChunkIsOne
<1>2. CInv(MaxChunk) /\ [Next]_vars => CInv(MaxChunk)'
  BY NextCInv
<1>3. CInv(MaxChunk) => CountersExact
  BY DEF CInv, CountersExact, TotalSize, Of, Total, Sizes, TypeIn
<1> QED BY <1>1, <1>2, <1>3, PTL DEF Spec

-----------------------------------------------------------------------------
(* More about sums: over two parts, of equal values, and the memory held.   *)

LEMMA SumOfTwoParts ==
  ASSUME NEW f, IsNatural(f), NEW S \in SUBSET DOMAIN f, NEW T \in SUBSET DOMAIN f,
         S \cap T = {}, S \cup T = DOMAIN f
  PROVE  SumFunction(f) = SumFunction([x \in S |-> f[x]]) + SumFunction([x \in T |-> f[x]])
<1> DEFINE Sum(s) == SumFunctionOnSet(f, s)
           Bad == {u \in SUBSET S : Sum(u \cup T) # Sum(u) + Sum(T)}
<1>1. ASSUME NEW u \in SUBSET DOMAIN f
      PROVE  /\ IsFiniteSet(u) /\ (\A x \in u : f[x] \in Nat)
             /\ Sum(u) \in Nat /\ (u = {} => Sum(u) = 0)
             /\ Sum(u) = SumFunction([x \in u |-> f[x]])
  <2>1. IsFiniteSet(u) /\ \A x \in u : f[x] \in Nat
    BY FS_Subset DEF IsNatural
  <2>2. Sum(u) \in Nat /\ (u = {} => Sum(u) = 0)
    BY <2>1, SumStep
  <2> DEFINE g == [x \in u |-> f[x]]
  <2>3. DOMAIN g = u /\ \A x \in u : g[x] = f[x]
    OBVIOUS
  <2> HIDE DEF g
  <2>4. SumFunctionOnSet(f, u) = SumFunctionOnSet(g, u)
    BY <2>1, <2>3, SumOnSetAgrees
  <2>5. SumFunction(g) = SumFunctionOnSet(g, u)
    BY <2>3 DEF SumFunction
  <2> QED BY <2>1, <2>2, <2>4, <2>5 DEF g
<1>2. ASSUME NEW u \in SUBSET DOMAIN f, NEW x \in u
      PROVE  Sum(u) = f[x] + Sum(u \ {x}) /\ f[x] \in Nat
  <2>1. IsFiniteSet(u) /\ \A y \in u : f[y] \in Nat
    BY <1>1
  <2> QED BY <2>1, SumOnSetWithout
<1> HIDE DEF Sum
<1>3. ASSUME Bad # {} PROVE FALSE
  <2>1. IsFiniteSet(S) /\ Bad \in SUBSET (SUBSET S)
    BY <1>1
  <2> HIDE DEF Bad
  <2>2. PICK u \in Bad : \A w \in Bad : w \subseteq u => w = u
    BY <1>3, <2>1, MinimalSubset
  <2> USE DEF Bad
  <2>3. u \in SUBSET DOMAIN f /\ u \cup T \in SUBSET DOMAIN f
    BY <2>2
  <2>4. u # {}
    <3> SUFFICES ASSUME u = {} PROVE FALSE
      OBVIOUS
    <3>1. u \cup T = T /\ Sum(u) = 0 /\ Sum(T) \in Nat
      BY <1>1
    <3>2. Sum(u \cup T) = Sum(u) + Sum(T)
      BY <3>1
    <3> QED BY <2>2, <3>2
  <2>5. PICK x \in u : TRUE
    BY <2>4
  <2>6. (u \cup T) \ {x} = (u \ {x}) \cup T
    BY <2>2, <2>5
  <2>7. u \ {x} \notin Bad
    BY <2>2, <2>5
  <2>8. Sum((u \ {x}) \cup T) = Sum(u \ {x}) + Sum(T)
    BY <2>2, <2>7
  <2>9. Sum(u \cup T) = f[x] + Sum((u \ {x}) \cup T) /\ Sum(u) = f[x] + Sum(u \ {x})
    BY <1>2, <2>3, <2>5, <2>6
  <2>10. Sum(u \ {x}) \in Nat /\ Sum(T) \in Nat /\ f[x] \in Nat
    BY <1>1, <1>2, <2>3, <2>5
  <2>11. Sum(u \cup T) = Sum(u) + Sum(T)
    BY <2>8, <2>9, <2>10
  <2> QED BY <2>2, <2>11
<1>4. Sum(S \cup T) = Sum(S) + Sum(T)
  BY <1>3
<1>5. Sum(DOMAIN f) = SumFunction(f)
  BY DEF Sum, SumFunction
<1> QED BY <1>1, <1>4, <1>5

LEMMA SumOfEqual ==
  ASSUME NEW f, IsNatural(f), NEW v \in Nat, \A x \in DOMAIN f : f[x] = v
  PROVE  SumFunction(f) = v * Cardinality(DOMAIN f)
<1> DEFINE Sum(s) == SumFunctionOnSet(f, s)
           S == DOMAIN f
           Bad == {u \in SUBSET S : Sum(u) # v * Cardinality(u)}
<1>1. ASSUME NEW u \in SUBSET S
      PROVE  IsFiniteSet(u) /\ (\A x \in u : f[x] \in Nat) /\ (u = {} => Sum(u) = 0)
  <2>1. IsFiniteSet(u) /\ \A x \in u : f[x] \in Nat
    BY FS_Subset DEF IsNatural
  <2> QED BY <2>1, SumStep
<1>2. ASSUME NEW u \in SUBSET S, NEW x \in u
      PROVE  Sum(u) = v + Sum(u \ {x})
  BY <1>1, SumOnSetWithout
<1> HIDE DEF Sum
<1>3. ASSUME Bad # {} PROVE FALSE
  <2>1. IsFiniteSet(S) /\ Bad \in SUBSET (SUBSET S)
    BY <1>1
  <2> HIDE DEF Bad
  <2>2. PICK u \in Bad : \A w \in Bad : w \subseteq u => w = u
    BY <1>3, <2>1, MinimalSubset
  <2> USE DEF Bad
  <2>3. u \in SUBSET S
    BY <2>2
  <2>4. u # {}
    <3>1. Sum({}) = 0 /\ Cardinality({}) = 0 /\ v * 0 = 0
      BY <1>1, FS_EmptySet
    <3> QED BY <2>2, <3>1
  <2>5. PICK x \in u : TRUE
    BY <2>4
  <2>6. u \ {x} \notin Bad /\ u \ {x} \in SUBSET S
    BY <2>2, <2>5
  <2>7. Sum(u \ {x}) = v * Cardinality(u \ {x}) /\ Sum(u) = v + Sum(u \ {x})
    BY <1>2, <2>3, <2>5, <2>6
  <2>8. Cardinality(u) = Cardinality(u \ {x}) + 1 /\ Cardinality(u \ {x}) \in Nat
    <3>1. IsFiniteSet(u) /\ IsFiniteSet(u \ {x})
      BY <1>1, <2>3, <2>6
    <3>2. Cardinality(u) \in Nat /\ Cardinality(u \ {x}) \in Nat
      BY <3>1, FS_CardinalityType
    <3>3. Cardinality(u \ {x}) = Cardinality(u) - 1
      BY <2>5, <3>1, FS_RemoveElement
    <3> QED BY <3>2, <3>3
  <2>9. \A n \in Nat : v + v * n = v * (n + 1)
    OBVIOUS
  <2> QED BY <2>2, <2>7, <2>8, <2>9
<1>4. Sum(S) = v * Cardinality(S)
  BY <1>3
<1> QED BY <1>4 DEF Sum, SumFunction

(* The memory held of the system allocator.                                 *)
HeldSum(h) == SumFunction([p \in DOMAIN h |-> h[p].size])

LEMMA HeldNatural ==
  ASSUME NEW h, HeldTyped(h), IsFiniteSet(DOMAIN h)
  PROVE  /\ IsNatural([p \in DOMAIN h |-> h[p].size])
         /\ HeldSum(h) \in Nat /\ (DOMAIN h = {} => HeldSum(h) = 0)
<1> DEFINE f == [p \in DOMAIN h |-> h[p].size]
<1>1. IsNatural(f) /\ DOMAIN f = DOMAIN h
  BY DEF IsNatural, HeldTyped
<1> HIDE DEF f
<1>2. SumFunction(f) \in Nat /\ (DOMAIN f = {} => SumFunction(f) = 0)
  BY <1>1, SumNatural
<1> QED BY <1>1, <1>2 DEF HeldSum, f

LEMMA HeldMore ==
  ASSUME NEW h, HeldTyped(h), IsFiniteSet(DOMAIN h), NEW p, p \notin DOMAIN h,
         NEW size \in Nat, NEW i
  PROVE  HeldSum(Hold(h, p, size, i)) = HeldSum(h) + size
<1> DEFINE f == [q \in DOMAIN h |-> h[q].size]
           g == Hold(h, p, size, i)
<1>1. DOMAIN g = DOMAIN h \cup {p} /\ g[p].size = size /\ \A q \in DOMAIN h : g[q] = h[q]
  BY DEF Hold, Save
<1> HIDE DEF g
<1>2. [q \in DOMAIN g |-> g[q].size] = With(f, p, size)
  BY <1>1 DEF With
<1>3. f = [q \in DOMAIN f |-> f[q]] /\ p \notin DOMAIN f
  OBVIOUS
<1>4. IsNatural(f) /\ HeldSum(h) = SumFunction(f) /\ HeldSum(h) \in Nat
  BY HeldNatural DEF HeldSum
<1> HIDE DEF f
<1>5. SumFunction(With(f, p, size)) = size + SumFunction(f)
  BY <1>3, <1>4, SumWith
<1> QED BY <1>2, <1>4, <1>5 DEF HeldSum, g

LEMMA HeldLess ==
  ASSUME NEW h, HeldTyped(h), IsFiniteSet(DOMAIN h), NEW p \in DOMAIN h
  PROVE  /\ HeldSum(Drop(h, p)) = HeldSum(h) - h[p].size
         /\ h[p].size \in Nat /\ HeldSum(h) >= h[p].size
<1> DEFINE f == [q \in DOMAIN h |-> h[q].size]
           g == Drop(h, p)
<1>1. DOMAIN g = DOMAIN h \ {p} /\ \A q \in DOMAIN g : g[q] = h[q]
  BY DEF Drop
<1> HIDE DEF g
<1>2. [q \in DOMAIN g |-> g[q].size] = Without(f, p)
  BY <1>1 DEF Without
<1>3. p \in DOMAIN f /\ f[p] = h[p].size /\ h[p].size \in Nat
  BY DEF HeldTyped
<1>4. IsNatural(f) /\ HeldSum(h) = SumFunction(f)
  BY HeldNatural DEF HeldSum
<1> HIDE DEF f
<1>5. IsNatural(Without(f, p)) /\ SumFunction(f) = f[p] + SumFunction(Without(f, p))
  BY <1>3, <1>4, SumWithout
<1>6. SumFunction(Without(f, p)) \in Nat
  BY <1>5, SumNatural
<1>7. HeldSum(g) = SumFunction(Without(f, p))
  BY <1>2 DEF HeldSum
<1> QED BY <1>3, <1>4, <1>5, <1>6, <1>7 DEF g

-----------------------------------------------------------------------------
(* What each call does to the memory held.                                  *)

LEMMA AllocHugeTakes ==
  ASSUME NEW max \in Maxima, RequestsFit, CInv(max), NEW bytes \in Requests,
         AllocHuge(bytes, max)
  PROVE  \E p \in Addresses, i \in Indices :
           p \notin BlocksIn(desc) /\ held' = Hold(held, p, ChunkSize(bytes), i)
<1> DEFINE size == ChunkSize(bytes)
<1>1. PICK p \in Addresses, i \in Indices :
        /\ Available(p, size)
        /\ held' = Hold(held, p, size, i)
        /\ desc' = Save(desc, p, Desc("HUGE", i, size, NULL, NULL))
  BY DEF AllocHuge
<1>2. size \in Nat /\ size >= DescSize
  BY ChunkSizeHolds, BuddyConstants
<1> HIDE DEF size
<1>3. p \notin BlocksIn(desc)
  BY <1>1, <1>2, ObtainStep DEF CInv
<1> QED BY <1>1, <1>3 DEF size

LEMMA AllocRefillTakes ==
  ASSUME NEW max \in Maxima, RequestsFit, CInv(max), NEW bytes \in Requests,
         AllocRefill(bytes, max)
  PROVE  \E p \in Addresses, i \in Indices :
           p \notin BlocksIn(desc) /\ held' = Hold(held, p, max, i)
<1>1. PICK p \in Addresses, i \in Indices :
        Available(p, max) /\ held' = Hold(held, p, max, i)
  BY DEF AllocRefill
<1>2. max \in Nat /\ max >= DescSize
  BY BuddyConstants DEF Maxima
<1>3. p \notin BlocksIn(desc)
  BY <1>1, <1>2, ObtainStep DEF CInv
<1> QED BY <1>1, <1>3

LEMMA FreeHugeReturns ==
  ASSUME NEW max \in Maxima, CInv(max), NEW m \in live, FreeHuge(m)
  PROVE  LET p == metadata(m.mem) IN
         /\ p \in DOMAIN held /\ held' = Drop(held, p) /\ state' = "up"
         /\ desc[p].total_size = held[p].size /\ desc[p].index = held[p].index
         /\ desc[p].type = "HUGE"
<1> DEFINE p == metadata(m.mem)
<1>1. p \in BlocksIn(desc) /\ desc[p].type = "HUGE"
  BY DEF CInv, IInv, Served, FreeHuge, InUse, BlocksIn
<1>2. /\ state = "up" /\ desc' = Drop(desc, p)
      /\ IF Returnable(held, p, desc[p].total_size, desc[p].index)
         THEN held' = Drop(held, p) /\ state' = state
         ELSE held' = held /\ state' = "misfreed"
  BY DEF FreeHuge
<1> HIDE DEF p
<1>3. p \in DOMAIN held /\ desc[p].left = NULL /\ desc[p].right = NULL
  BY <1>1 DEF CInv, IInv, Shape, Placed
<1>4. held[p] = [size |-> desc[p].total_size, index |-> desc[p].index]
  <2>1. Within(desc, held, p, p, max)
    BY <1>1, <1>3, OwnHolder DEF CInv, IInv
  <2>2. /\ held[p] \in [size : Nat, index : Nat] /\ p \in Nat
        /\ desc[p].total_size \in Nat
    BY <1>1, <1>3 DEF CInv, IInv, Shape, HeldTyped, Typed, BlocksIn, Descriptor
  <2>3. held[p].index = desc[p].index /\ p + desc[p].total_size = p + held[p].size
    BY <2>1, <1>3 DEF Within, EndIn
  <2> QED BY <2>2, <2>3
<1>5. held' = Drop(held, p) /\ state' = "up"
  BY <1>2, <1>3, <1>4 DEF Returnable
<1> QED BY <1>1, <1>3, <1>4, <1>5 DEF p

(* The destructor gives back all that is held: every piece is one entry of  *)
(* the pool, of the maximum size and under its index.                       *)
LEMMA DestroyReturns ==
  ASSUME NEW max \in Maxima, CInv(max), live = {}
  PROVE  /\ Destroy(max) => state' = "destroyed" /\ DOMAIN held' = {}
         /\ HeldSum(held) = max * Cardinality(pool)
         /\ \A t \in pool : t[3] \in DOMAIN held /\ desc[t[3]].index = held[t[3]].index
<1>1. InUse(desc) = {} /\ Shape(desc, held, max) /\ Quiet(desc)
      /\ pool = EntriesOf(desc, FreeIn(desc)) /\ IsFiniteSet(BlocksIn(desc))
  BY DEF CInv, IInv, Served, Finite
<1>2. /\ BlocksIn(desc) = DOMAIN held /\ FreeIn(desc) = DOMAIN held
      /\ \A b \in DOMAIN held : held[b] = [size |-> max, index |-> desc[b].index]
  BY <1>1, NothingInUse
<1>3. pool = {Entry(desc, b) : b \in DOMAIN held} /\ \A b : Entry(desc, b)[3] = b
  BY <1>1, <1>2 DEF EntriesOf, Entry
<1>4. {t[3] : t \in pool} = DOMAIN held
  BY <1>3
<1>5. \A t \in pool : t[3] \in DOMAIN held /\ desc[t[3]].index = held[t[3]].index
  BY <1>2, <1>4
<1>6. \A t \in pool : Returnable(held, t[3], max, desc[t[3]].index)
  BY <1>2, <1>4 DEF Returnable
<1>7. Destroy(max) => state' = "destroyed" /\ DOMAIN held' = {}
  BY <1>4, <1>6 DEF Destroy
<1>8. Cardinality(pool) = Cardinality(DOMAIN held)
  <2> DEFINE h == [b \in DOMAIN held |-> Entry(desc, b)]
  <2>1. h \in [DOMAIN held -> pool]
    BY <1>3
  <2>2. \A a, b \in DOMAIN held : h[a] = h[b] => a = b
    BY <1>3
  <2>3. \A t \in pool : \E b \in DOMAIN held : h[b] = t
    BY <1>3
  <2> HIDE DEF h
  <2>4. h \in Bijection(DOMAIN held, pool)
    BY <2>1, <2>2, <2>3 DEF Bijection, Injection, Surjection, IsInjective
  <2>5. ExistsBijection(DOMAIN held, pool)
    BY <2>4 DEF ExistsBijection
  <2> QED BY <2>5, <1>1, <1>2, FS_Bijection
<1>9. HeldSum(held) = max * Cardinality(DOMAIN held)
  <2> DEFINE f == [p \in DOMAIN held |-> held[p].size]
  <2>1. IsNatural(f) /\ DOMAIN f = DOMAIN held /\ \A p \in DOMAIN f : f[p] = max
    <3>1. \A p \in DOMAIN held : held[p].size = max
      BY <1>2
    <3> QED BY <3>1, <1>1, <1>2 DEF IsNatural, Maxima
  <2>2. max \in Nat
    BY DEF Maxima
  <2> HIDE DEF f
  <2>3. SumFunction(f) = max * Cardinality(DOMAIN f)
    BY <2>1, <2>2, SumOfEqual
  <2> QED BY <2>1, <2>3 DEF HeldSum, f
<1> QED BY <1>5, <1>7, <1>8, <1>9

(* While both counters are zero there is no segment, so that the maximum    *)
(* size may become any other one (buddy_allocator.cc:171-176).              *)
LEMMA EmptyAnyMax ==
  ASSUME NEW max \in Maxima, NEW new \in Maxima, Geometry(max), CInv(max), state = "up",
         Wrap(total_used + total_free) = 0
  PROVE  CInv(new) /\ pool = {} /\ \A b \in BlocksIn(desc) : desc[b].type = "HUGE"
<1> DEFINE S == TypeIn(desc, "FREE")
           A == TypeIn(desc, "ARENA")
           T == S \cup A
           f == [b \in T |-> desc[b].total_size]
<1>1. /\ Shape(desc, held, max) /\ Finite(desc) /\ DOMAIN held \subseteq Addresses
      /\ total_used = Total(desc, "ARENA") /\ total_free = Total(desc, "FREE")
      /\ total_used \in Nat /\ total_free \in Nat
  BY BuddyConstants DEF CInv, IInv
<1>2. T \in SUBSET BlocksIn(desc) /\ \A b \in T : desc[b].type # "HUGE"
  BY DEF TypeIn, BlocksIn
<1>3. IsNatural(f) /\ SumFunction(f) < SizeModulus
  BY <1>1, <1>2, SizesFit
<1>4. SumFunction(f) = total_free + total_used
  <2>1. S \in SUBSET DOMAIN f /\ A \in SUBSET DOMAIN f /\ S \cap A = {} /\ S \cup A = DOMAIN f
    BY DEF TypeIn
  <2>2. SumFunction(f) = SumFunction([b \in S |-> f[b]]) + SumFunction([b \in A |-> f[b]])
    <3> HIDE DEF f
    <3> QED BY <1>3, <2>1, SumOfTwoParts
  <2>3. /\ [b \in S |-> f[b]] = Sizes(desc, "FREE")
        /\ [b \in A |-> f[b]] = Sizes(desc, "ARENA")
    BY DEF Sizes
  <2> QED BY <1>1, <2>2, <2>3 DEF Total
<1>5. SumFunction(f) = 0
  BY <1>1, <1>3, <1>4, WrapSame
<1>6. T = {}
  <2> SUFFICES ASSUME NEW b \in T PROVE FALSE
    OBVIOUS
  <2>1. b \in DOMAIN f /\ f[b] = desc[b].total_size /\ f[b] \in Nat /\ f[b] > 0
    <3>1. b \in BlocksIn(desc) /\ desc[b].total_size >= DescSize
      BY <1>1, <1>2 DEF Shape, Sized
    <3>2. desc[b].total_size \in Nat
      BY <1>1, <3>1 DEF Shape, Typed, BlocksIn, Descriptor
    <3> QED BY <3>1, <3>2, BuddyConstants
  <2>2. SumFunction(f) = f[b] + SumFunction(Without(f, b)) /\ SumFunction(Without(f, b)) \in Nat
    <3> HIDE DEF f, T
    <3>1. IsNatural(Without(f, b)) /\ SumFunction(f) = f[b] + SumFunction(Without(f, b))
      BY <1>3, <2>1, SumWithout
    <3> QED BY <3>1, SumNatural
  <2> HIDE DEF f, T
  <2> QED BY <1>5, <2>1, <2>2
<1>7. FreeIn(desc) = {}
  BY <1>6 DEF TypeIn, FreeIn
<1>8. pool = {}
  BY <1>7 DEF CInv, IInv, EntriesOf
<1>9. \A b \in BlocksIn(desc) : desc[b].type = "HUGE"
  BY <1>1, <1>6 DEF TypeIn, BlocksIn, Shape, Typed, Descriptor
<1>10. Placed(desc, held, new)
  BY <1>1, <1>9 DEF Shape, Placed, Within
<1>11. Shape(desc, held, new)
  BY <1>1, <1>10 DEF Shape
<1> QED BY <1>8, <1>9, <1>11 DEF CInv, IInv

=============================================================================
