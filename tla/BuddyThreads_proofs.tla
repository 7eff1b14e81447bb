------------------------- MODULE BuddyThreads_proofs -------------------------
(***************************************************************************)
(* Under mutex_ the calls of any number of threads take effect as the      *)
(* atomic actions of BuddyAllocator, for every geometry of chunks and      *)
(* every set of requests that a size_t can hold.                           *)
(*                                                                         *)
(* The invariant says, for each place a call can be at, what it has done   *)
(* to the memory so far, in terms of the state at which it took mutex_.    *)
(***************************************************************************)
EXTENDS BuddyThreadsProps, BuddyCounters_proofs

-----------------------------------------------------------------------------
(* Arithmetic of size_t: a difference may wrap once or twice.               *)

Multiple(k) == SizeModulus * k

LEMMA Remainder ==
  ASSUME NEW x \in Int
  PROVE  /\ Wrap(x) \in 0 .. SizeModulus - 1
         /\ \E q \in Int : x = Multiple(q) + Wrap(x)
<1>1. /\ x % SizeModulus \in 0 .. SizeModulus - 1
      /\ x \div SizeModulus \in Int
      /\ x = SizeModulus * (x \div SizeModulus) + (x % SizeModulus)
  BY BuddyConstants
<1> QED BY <1>1 DEF Multiple, Wrap

LEMMA MultipleSum ==
  ASSUME NEW a \in Int, NEW b \in Int, NEW c \in Int
  PROVE  /\ Multiple(a + b - c) = Multiple(a) + Multiple(b) - Multiple(c)
         /\ Multiple(a) \in Int /\ Multiple(b) \in Int /\ Multiple(c) \in Int
  BY BuddyConstants DEF Multiple

LEMMA OneRemainder ==
  ASSUME NEW k \in Int, NEW a \in 0 .. SizeModulus - 1, NEW b \in 0 .. SizeModulus - 1,
         a = b + Multiple(k)
  PROVE  a = b
<1>1. CASE k >= 1
  <2>1. SizeModulus * (k - 1) >= 0
    BY <1>1, BuddyConstants
  <2>2. SizeModulus * k = SizeModulus + SizeModulus * (k - 1)
    BY BuddyConstants
  <2> QED BY <2>1, <2>2, BuddyConstants DEF Multiple
<1>2. CASE k <= -1
  <2>1. SizeModulus * (-1 - k) >= 0
    BY <1>2, BuddyConstants
  <2>2. SizeModulus * k = -SizeModulus - SizeModulus * (-1 - k)
    BY BuddyConstants
  <2> QED BY <2>1, <2>2, BuddyConstants DEF Multiple
<1>3. CASE k = 0
  BY <1>3, BuddyConstants DEF Multiple
<1> QED BY <1>1, <1>2, <1>3

(* To subtract from a wrapped sum is to subtract from the sum.              *)
LEMMA WrapTwice ==
  ASSUME NEW x \in Int, NEW s \in Int
  PROVE  Wrap(Wrap(x) - s) = Wrap(x - s)
<1>1. PICK q \in Int : x = Multiple(q) + Wrap(x)
  BY Remainder
<1> DEFINE u == Wrap(x) - s
           v == x - s
<1>2. u \in Int /\ v \in Int /\ Wrap(x) \in Int
  BY Remainder, BuddyConstants
<1>3. u = Wrap(x) - s /\ v = x - s
  OBVIOUS
<1> HIDE DEF u, v
<1>4. PICK du \in Int : u = Multiple(du) + Wrap(u)
  BY <1>2, Remainder
<1>5. PICK dv \in Int : v = Multiple(dv) + Wrap(v)
  BY <1>2, Remainder
<1>6. Wrap(u) \in 0 .. SizeModulus - 1 /\ Wrap(v) \in 0 .. SizeModulus - 1
  BY <1>2, Remainder
<1>7. Wrap(u) \in Int /\ Wrap(v) \in Int
  BY <1>6, BuddyConstants
<1>8. Wrap(v) = Wrap(u) + Multiple(q + du - dv)
  <2>1. /\ Multiple(q + du - dv) = Multiple(q) + Multiple(du) - Multiple(dv)
        /\ Multiple(q) \in Int /\ Multiple(du) \in Int /\ Multiple(dv) \in Int
    BY MultipleSum
  <2> QED BY <2>1, <1>1, <1>2, <1>3, <1>4, <1>5, <1>7
<1>9. q + du - dv \in Int
  OBVIOUS
<1>10. Wrap(v) = Wrap(u)
  BY <1>6, <1>8, <1>9, OneRemainder
<1> QED BY <1>10 DEF u, v

-----------------------------------------------------------------------------
(* The invariant.  Between calls mem is Memory; a call that holds mutex_    *)
(* has made of it what the operators below say, one for each of its steps.  *)

Outside     == {"idle", "alloc", "free"}
AllocPlaces == {"alloc", "system", "find", "refill", "count", "split", "done"}
FreePlaces  == {"free", "return", "mark", "credit", "right", "left", "insert", "freed"}

Calls ==
  /\ mutex \in Threads \cup {NoThread}
  /\ pc \in [Threads -> {"idle"} \cup AllocPlaces \cup FreePlaces]
  /\ arg \in [Threads -> [mem : Nat, bytes : Nat]]
  /\ \A t \in Threads : pc[t] \in Outside <=> mutex # t
  /\ \A t \in Threads : pc[t] \in AllocPlaces => arg[t].bytes \in Requests
  /\ \A t \in Threads : pc[t] \in FreePlaces => arg[t] \in live
  /\ \A t, u \in Threads :
       t # u /\ pc[t] \in FreePlaces /\ pc[u] \in FreePlaces => arg[t] # arg[u]

(* Alloc: a huge block; a new segment; the counters; the split.  m is the   *)
(* memory at which the call took mutex_.                                    *)
WithHuge(m, p, i, sz) ==
  [m EXCEPT !.held = Hold(@, p, sz, i),
            !.desc = Save(@, p, Desc("HUGE", i, sz, NULL, NULL))]

FreshIn(m, p, i) == Save(m.desc, p, Desc("FREE", i, MaxChunk, NULL, NULL))

RefilledIn(m, p, i) ==
  [m EXCEPT !.held = Hold(@, p, MaxChunk, i),
            !.desc = FreshIn(m, p, i),
            !.fallback = IF UseGpu /\ i = 1 THEN @ + 1 ELSE @,
            !.free = Wrap(@ + MaxChunk),
            !.pool = @ \cup {Entry(FreshIn(m, p, i), p)}]

FitsIn(m, sz) == {e \in m.pool : e[2] >= sz}

(* The entry e to be split, and the memory M it is found in.                *)
FoundExisting(m, M, e, sz) ==
  /\ M = m /\ e \in FitsIn(m, sz)
  /\ \A f \in FitsIn(m, sz) : Precedes(e, f)

FoundFresh(m, M, e, sz) ==
  /\ FitsIn(m, sz) = {}
  /\ \E p \in Addresses, i \in Indices :
       /\ AvailableIn(m.held, p, MaxChunk)
       /\ M = RefilledIn(m, p, i) /\ e = Entry(FreshIn(m, p, i), p)

Found(m, M, e, sz) == FoundExisting(m, M, e, sz) \/ FoundFresh(m, M, e, sz)

Sources(m) == {m} \cup {RefilledIn(m, p, i) : p \in Addresses, i \in Indices}

Charged(M, sz) == [M EXCEPT !.used = Wrap(@ + sz), !.free = Wrap(@ - sz)]

WithSplit(M, e, sz) ==
  LET after == SplitDesc(M.desc, e[3], sz) IN
  [M EXCEPT !.state = IF split_asserts(M.desc, e[3], sz) THEN @ ELSE "aborted",
            !.desc = after,
            !.pool = (@ \ {e}) \cup RemainderEntry(after, e[3])]

AllocatedHuge(m, M, r, n) ==
  /\ IsHuge(n, MaxChunk)
  /\ \E p \in Addresses, i \in Indices :
       /\ AvailableIn(m.held, p, ChunkSize(n))
       /\ M = WithHuge(m, p, i, ChunkSize(n)) /\ r = data(p)

AllocatedArena(m, M, r, n) ==
  /\ ~IsHuge(n, MaxChunk)
  /\ \E S \in Sources(m) : \E e \in S.pool :
       /\ Found(m, S, e, ChunkSize(n))
       /\ M = WithSplit(Charged(S, ChunkSize(n)), e, ChunkSize(n))
       /\ r = data(e[3])

(* The places of Alloc(n): m is the memory at the start, M at present, r is *)
(* ret, ix is index, e is it.                                               *)
AtSystem(m, M, r, n)   == M = m /\ r = NULL /\ IsHuge(n, MaxChunk)
AtFind(m, M, r, n, ix) == /\ M = m /\ r = NULL /\ ~IsHuge(n, MaxChunk)
                          /\ ix \in Nat /\ \A f \in FitsIn(m, ChunkSize(n)) : f[1] >= ix
AtRefill(m, M, r, n)   == M = m /\ r = NULL /\ ~IsHuge(n, MaxChunk) /\ FitsIn(m, ChunkSize(n)) = {}
AtCount(m, M, n, e)    == /\ ~IsHuge(n, MaxChunk) /\ M \in Sources(m) /\ e \in M.pool
                          /\ Found(m, M, e, ChunkSize(n))
AtSplit(m, M, n, e)    == /\ ~IsHuge(n, MaxChunk)
                          /\ \E S \in Sources(m) :
                               /\ e \in S.pool /\ Found(m, S, e, ChunkSize(n))
                               /\ M = Charged(S, ChunkSize(n))
AtDone(m, M, r, n)     == \/ M = m /\ r = NULL
                          \/ AllocatedHuge(m, M, r, n)
                          \/ AllocatedArena(m, M, r, n)

(* Free: the huge block returned; the block marked, credited, merged with   *)
(* its right and its left buddy, and entered.                               *)
Returned(m, b) ==
  IF Returnable(m.held, b, m.desc[b].total_size, m.desc[b].index)
  THEN [m EXCEPT !.held = Drop(@, b), !.desc = Drop(@, b)]
  ELSE [m EXCEPT !.state = "misfreed", !.desc = Drop(@, b)]

Marked(m, b) ==
  [m EXCEPT !.state = IF mark_asserts(m.desc, b) THEN @ ELSE "aborted",
            !.desc = set_type(@, b, "FREE")]

Credited(M, b) ==
  [M EXCEPT !.used = Wrap(@ - M.desc[b].total_size),
            !.free = Wrap(@ + M.desc[b].total_size)]

Joined(M, s)   == [M EXCEPT !.desc = s.desc, !.pool = s.pool,
                            !.state = IF s.ok THEN @ ELSE "aborted"]
RightOf(M, b)  == JoinRight(Stage(M.desc, M.pool, b, TRUE))
LeftOf(M, b)   == JoinLeft(Stage(M.desc, M.pool, b, TRUE))
Entered(M, b)  == [M EXCEPT !.pool = @ \cup {Entry(M.desc, b)}]

Freed(m, b)  == Credited(Marked(m, b), b)
Stage1(m, b) == RightOf(Freed(m, b), b)
Merged1(m, b) == Joined(Freed(m, b), Stage1(m, b))
Stage2(m, b) == LeftOf(Merged1(m, b), Stage1(m, b).block)
Merged2(m, b) == Joined(Merged1(m, b), Stage2(m, b))

(* The places of a Free of block b: x is the local of that name.            *)
AtReturn(m, M, x, b) == M = m /\ x = b /\ m.desc[b].type = "HUGE"
AtMark(m, M, x, b)   == M = m /\ x = b /\ m.desc[b].type # "HUGE"
AtCredit(m, M, x, b) == M = Marked(m, b) /\ x = b /\ m.desc[b].type # "HUGE"
AtRight(m, M, x, b)  == M = Freed(m, b) /\ x = b /\ m.desc[b].type # "HUGE"
AtLeft(m, M, x, b)   == M = Merged1(m, b) /\ x = Stage1(m, b).block /\ m.desc[b].type # "HUGE"
AtInsert(m, M, x, b) == M = Merged2(m, b) /\ x = Stage2(m, b).block /\ m.desc[b].type # "HUGE"
AtFreed(m, M, b) ==
  \/ M = Returned(m, b) /\ m.desc[b].type = "HUGE"
  \/ M = Entered(Merged2(m, b), Stage2(m, b).block) /\ m.desc[b].type # "HUGE"

AllocSoFar(place, n, m, M, r, ix, e) ==
  /\ place = "system" => AtSystem(m, M, r, n)
  /\ place = "find"   => AtFind(m, M, r, n, ix)
  /\ place = "refill" => AtRefill(m, M, r, n)
  /\ place = "count"  => AtCount(m, M, n, e)
  /\ place = "split"  => AtSplit(m, M, n, e)
  /\ place = "done"   => AtDone(m, M, r, n)

FreeSoFar(place, b, m, M, x) ==
  /\ place = "return" => AtReturn(m, M, x, b)
  /\ place = "mark"   => AtMark(m, M, x, b)
  /\ place = "credit" => AtCredit(m, M, x, b)
  /\ place = "right"  => AtRight(m, M, x, b)
  /\ place = "left"   => AtLeft(m, M, x, b)
  /\ place = "insert" => AtInsert(m, M, x, b)
  /\ place = "freed"  => AtFreed(m, M, b)

(* What the call of thread t that holds mutex_ has done so far.             *)
SoFar(t) ==
  /\ state = "up"
  /\ pc[t] \in AllocPlaces => AllocSoFar(pc[t], arg[t].bytes, Memory, mem, ret, index, it)
  /\ pc[t] \in FreePlaces  => FreeSoFar(pc[t], metadata(arg[t].mem), Memory, mem, block)

Released == mem = Memory /\ index = 0 /\ ret = NULL

TInv ==
  /\ Calls
  /\ mutex = NoThread => Released
  /\ mutex \in Threads => SoFar(mutex)

-----------------------------------------------------------------------------
(* A step inside a call changes nothing but mem, the locals and the place.  *)

AllocInside == AllocPlaces \ Outside
FreeInside  == FreePlaces \ Outside

LEMMA InsideCalls ==
  ASSUME TInv, NEW t \in Threads, NEW from, NEW to, Goto(t, from, to), Inside,
         \/ from \in AllocInside /\ to \in AllocInside
         \/ from \in FreeInside /\ to \in FreeInside
  PROVE  /\ Calls' /\ mutex' = t /\ mutex = t /\ pc'[t] = to /\ pc[t] = from
         /\ Memory' = Memory /\ state' = "up" /\ arg'[t] = arg[t] /\ SoFar(t)
<1>1. /\ mutex = t /\ mutex' = mutex /\ arg' = arg /\ live' = live /\ vars' = vars
      /\ pc[t] = from /\ pc' = [pc EXCEPT ![t] = to]
  BY DEF Goto, Inside, vars
<1>2. Calls /\ SoFar(t)
  BY <1>1 DEF TInv
<1>3. pc'[t] = to /\ \A u \in Threads \ {t} : pc'[u] = pc[u]
  BY <1>1, <1>2 DEF Calls
<1>4. Calls'
  <2>1. pc' \in [Threads -> {"idle"} \cup AllocPlaces \cup FreePlaces]
    BY <1>1, <1>2 DEF Calls, AllocInside, FreeInside
  <2>2. \A u \in Threads : pc'[u] \in Outside <=> mutex' # u
    BY <1>1, <1>2, <1>3 DEF Calls, AllocInside, FreeInside
  <2>3. \A u \in Threads : /\ pc'[u] \in AllocPlaces => pc[u] \in AllocPlaces
                           /\ pc'[u] \in FreePlaces => pc[u] \in FreePlaces
    <3>1. AllocPlaces \cap FreePlaces = {}
      BY DEF AllocPlaces, FreePlaces
    <3> QED BY <3>1, <1>1, <1>3 DEF AllocInside, FreeInside
  <2> QED BY <2>1, <2>2, <2>3, <1>1, <1>2 DEF Calls
<1>5. Memory' = Memory /\ state' = "up"
  BY <1>1, <1>2 DEF Memory, vars, SoFar
<1> QED BY <1>1, <1>2, <1>3, <1>4, <1>5

LEMMA AllocInsideStep ==
  ASSUME TInv, NEW t \in Threads, NEW from \in AllocInside, NEW to \in AllocInside,
         Goto(t, from, to), Inside,
         AllocSoFar(from, arg[t].bytes, Memory, mem, ret, index, it)
           => AllocSoFar(to, arg[t].bytes, Memory, mem', ret', index', it')
  PROVE  TInv' /\ UNCHANGED vars
<1>1. /\ Calls' /\ mutex' = t /\ mutex = t /\ pc'[t] = to /\ pc[t] = from
      /\ Memory' = Memory /\ state' = "up" /\ arg'[t] = arg[t] /\ SoFar(t)
  BY InsideCalls
<1>2. /\ from \in AllocPlaces /\ to \in AllocPlaces /\ to \notin FreePlaces
      /\ t # NoThread
  BY BuddyThreadsConstants DEF AllocInside, AllocPlaces, FreePlaces
<1>3. AllocSoFar(to, arg[t].bytes, Memory, mem', ret', index', it')
  BY <1>1, <1>2 DEF SoFar
<1>4. SoFar(t)'
  BY <1>1, <1>2, <1>3 DEF SoFar
<1> QED BY <1>1, <1>2, <1>4 DEF TInv, Inside

LEMMA FreeInsideStep ==
  ASSUME TInv, NEW t \in Threads, NEW from \in FreeInside, NEW to \in FreeInside,
         Goto(t, from, to), Inside,
         FreeSoFar(from, metadata(arg[t].mem), Memory, mem, block)
           => FreeSoFar(to, metadata(arg[t].mem), Memory, mem', block')
  PROVE  TInv' /\ UNCHANGED vars
<1>1. /\ Calls' /\ mutex' = t /\ mutex = t /\ pc'[t] = to /\ pc[t] = from
      /\ Memory' = Memory /\ state' = "up" /\ arg'[t] = arg[t] /\ SoFar(t)
  BY InsideCalls
<1>2. /\ from \in FreePlaces /\ to \in FreePlaces /\ to \notin AllocPlaces
      /\ t # NoThread
  BY BuddyThreadsConstants DEF FreeInside, AllocPlaces, FreePlaces
<1>3. FreeSoFar(to, metadata(arg[t].mem), Memory, mem', block')
  BY <1>1, <1>2 DEF SoFar
<1>4. SoFar(t)'
  BY <1>1, <1>2, <1>3 DEF SoFar
<1> QED BY <1>1, <1>2, <1>4 DEF TInv, Inside

-----------------------------------------------------------------------------
(* Alloc, step by step.                                                     *)

LEMMA PoolEntries ==
  ASSUME IInv(MaxChunk), NEW e \in pool
  PROVE  /\ e = Entry(desc, e[3]) /\ e[3] \in FreeIn(desc)
         /\ e[1] \in Nat /\ e[2] \in Nat /\ e[3] \in Nat
<1>1. PICK b \in FreeIn(desc) : e = Entry(desc, b)
  BY DEF IInv, EntriesOf
<1>2. b \in Nat /\ desc[b] \in Descriptor
  BY <1>1 DEF IInv, Shape, Typed, FreeIn
<1>3. e[1] = desc[b].index /\ e[2] = desc[b].total_size /\ e[3] = b
  BY <1>1 DEF Entry
<1>4. e[1] \in Nat /\ e[2] \in Nat
  BY <1>2, <1>3 DEF Descriptor
<1> QED BY <1>1, <1>2, <1>3, <1>4

LEMMA SystemAllocStep ==
  ASSUME TInv, NEW t \in Threads, SystemAlloc(t)
  PROVE  TInv' /\ UNCHANGED vars
<1> DEFINE n == arg[t].bytes
<1>1. Goto(t, "system", "done") /\ Inside
  BY DEF SystemAlloc
<1>2. "system" \in AllocInside /\ "done" \in AllocInside
  BY DEF AllocInside, AllocPlaces, Outside
<1>3. ASSUME AllocSoFar("system", n, Memory, mem, ret, index, it)
      PROVE  AllocSoFar("done", n, Memory, mem', ret', index', it')
  <2>1. mem = Memory /\ ret = NULL /\ IsHuge(n, MaxChunk)
    BY <1>3 DEF AllocSoFar, AtSystem
  <2>2. CASE UNCHANGED <<mem, ret>>
    BY <2>1, <2>2 DEF AllocSoFar, AtDone
  <2>3. CASE \E p \in Addresses, i \in Indices :
               /\ AvailableIn(mem.held, p, size(t))
               /\ mem' = [mem EXCEPT
                    !.held = Hold(@, p, size(t), i),
                    !.desc = Save(@, p, Desc("HUGE", i, size(t), NULL, NULL))]
               /\ ret' = data(p)
    <3>1. AllocatedHuge(Memory, mem', ret', n)
      BY <2>1, <2>3 DEF AllocatedHuge, WithHuge, size
    <3> QED BY <3>1 DEF AllocSoFar, AtDone
  <2> QED BY <2>2, <2>3 DEF SystemAlloc
<1> QED BY <1>1, <1>2, <1>3, AllocInsideStep

(* The first entry not below <<ix, sz, NULL>> is the first one that fits,   *)
(* or shows that none of its own index and below does.                      *)
LEMMA SearchRound ==
  ASSUME RequestsFit, IInv(MaxChunk), NEW n \in Requests, NEW ix \in Nat,
         \A f \in FitsIn(Memory, ChunkSize(n)) : f[1] >= ix
  PROVE  LET key == <<ix, ChunkSize(n), NULL>>
             below(e) == e \in pool /\ Precedes(key, e)
         IN /\ \A f \in FitsIn(Memory, ChunkSize(n)) : below(f)
            /\ \A e : below(e) /\ (e[1] > ix => e[2] >= ChunkSize(n))
                 => e \in FitsIn(Memory, ChunkSize(n))
<1> DEFINE sz == ChunkSize(n)
<1>1. sz \in Nat
  BY ChunkSizeHolds
<1> HIDE DEF sz
<1>2. Memory.pool = pool
  BY DEF Memory
<1>3. \A f \in FitsIn(Memory, sz) : f \in pool /\ Precedes(<<ix, sz, NULL>>, f)
  <2> SUFFICES ASSUME NEW f \in FitsIn(Memory, sz)
               PROVE  f \in pool /\ Precedes(<<ix, sz, NULL>>, f)
    OBVIOUS
  <2>1. f \in pool /\ f[2] >= sz /\ f[1] >= ix
    BY <1>2 DEF FitsIn, sz
  <2>2. f[1] \in Nat /\ f[2] \in Nat /\ f[3] \in Nat
    BY <2>1, PoolEntries
  <2> QED BY <1>1, <2>1, <2>2 DEF Precedes, NULL
<1>4. ASSUME NEW e, e \in pool, Precedes(<<ix, sz, NULL>>, e), e[1] > ix => e[2] >= sz
      PROVE  e \in FitsIn(Memory, sz)
  <2>1. e[1] \in Nat /\ e[2] \in Nat
    BY <1>4, PoolEntries
  <2>2. e[2] >= sz
    BY <1>1, <1>4, <2>1 DEF Precedes
  <2> QED BY <1>2, <1>4, <2>2 DEF FitsIn
<1> QED BY <1>3, <1>4 DEF sz

LEMMA FindExistChunkStep ==
  ASSUME RequestsFit, IInv(MaxChunk), TInv, NEW t \in Threads, FindExistChunkRound(t)
  PROVE  TInv' /\ UNCHANGED vars
<1> DEFINE n == arg[t].bytes
           sz == ChunkSize(n)
           key == <<index, sz, NULL>>
<1>1. Inside /\ UNCHANGED <<mem, block, ret>>
  BY DEF FindExistChunkRound
<1>2. /\ "find" \in AllocInside /\ "count" \in AllocInside /\ "refill" \in AllocInside
      /\ "find" \in AllocPlaces
  BY DEF AllocInside, AllocPlaces, Outside
<1>3. pc[t] = "find" /\ mutex = t
  BY DEF FindExistChunkRound, SearchNext, SearchEnds, Goto
<1>4. AtFind(Memory, mem, ret, n, index) /\ n \in Requests
  BY <1>2, <1>3 DEF TInv, SoFar, AllocSoFar, Calls
<1>5. /\ mem = Memory /\ ret = NULL /\ ~IsHuge(n, MaxChunk) /\ index \in Nat
      /\ \A f \in FitsIn(Memory, sz) : f[1] >= index
  BY <1>4 DEF AtFind
<1>6. mem.pool = pool /\ size(t) = sz
  BY <1>5 DEF Memory, size
<1>7. /\ \A f \in FitsIn(Memory, sz) : f \in NotBelow(key)
      /\ \A e \in NotBelow(key) : (e[1] > index => e[2] >= sz) => e \in FitsIn(Memory, sz)
  BY <1>4, <1>5, <1>6, SearchRound DEF NotBelow
<1>8. ASSUME NEW e \in mem.pool, LowerBound(key, e), SearchNext(t, e)
      PROVE  TInv' /\ UNCHANGED vars
  <2>1. Goto(t, "find", "find") /\ index' = e[1] /\ it' = it
    BY <1>8 DEF SearchNext
  <2>2. e[1] \in Nat
    BY <1>6, PoolEntries
  <2>3. \A f \in FitsIn(Memory, sz) : f[1] >= e[1]
    <3> SUFFICES ASSUME NEW f \in FitsIn(Memory, sz) PROVE f[1] >= e[1]
      OBVIOUS
    <3>1. Precedes(e, f)
      BY <1>7, <1>8 DEF LowerBound
    <3>2. f[1] \in Nat
      BY <1>5, <1>6, PoolEntries DEF FitsIn
    <3> QED BY <2>2, <3>1, <3>2 DEF Precedes
  <2>4. AllocSoFar("find", n, Memory, mem', ret', index', it')
    BY <1>1, <1>5, <2>1, <2>2, <2>3 DEF AllocSoFar, AtFind
  <2> QED BY <1>1, <1>2, <2>1, <2>4, AllocInsideStep
<1>9. ASSUME NEW e \in mem.pool, LowerBound(key, e), SearchEnds(t, e)
      PROVE  TInv' /\ UNCHANGED vars
  <2>1. Goto(t, "find", "count") /\ it' = e /\ (e[1] > index => e[2] >= sz)
    BY <1>6, <1>9 DEF SearchEnds
  <2>2. e \in FitsIn(Memory, sz)
    BY <1>7, <1>9, <2>1 DEF LowerBound
  <2>3. \A f \in FitsIn(Memory, sz) : Precedes(e, f)
    BY <1>7, <1>9 DEF LowerBound
  <2>4. FoundExisting(Memory, mem', it', sz)
    BY <1>1, <1>5, <2>1, <2>2, <2>3 DEF FoundExisting
  <2>5. AtCount(Memory, mem', n, it')
    BY <1>1, <1>5, <2>1, <2>4 DEF AtCount, Found, Sources
  <2>6. AllocSoFar("count", n, Memory, mem', ret', index', it')
    BY <2>5 DEF AllocSoFar
  <2> QED BY <1>1, <1>2, <2>1, <2>6, AllocInsideStep
<1>10. ASSUME NotBelow(key) = {}, Goto(t, "find", "refill"), UNCHANGED <<index, it>>
       PROVE  TInv' /\ UNCHANGED vars
  <2>1. FitsIn(Memory, sz) = {}
    BY <1>7, <1>10
  <2>2. AllocSoFar("refill", n, Memory, mem', ret', index', it')
    BY <1>1, <1>5, <2>1 DEF AllocSoFar, AtRefill
  <2> QED BY <1>1, <1>2, <1>10, <2>2, AllocInsideStep
<1> QED BY <1>6, <1>8, <1>9, <1>10 DEF FindExistChunkRound

LEMMA RefillPoolStep ==
  ASSUME TInv, NEW t \in Threads, RefillPool(t)
  PROVE  TInv' /\ UNCHANGED vars
<1> DEFINE n == arg[t].bytes
           sz == ChunkSize(n)
<1>1. Inside
  BY DEF RefillPool
<1>2. /\ "refill" \in AllocInside /\ "count" \in AllocInside /\ "done" \in AllocInside
      /\ "refill" \in AllocPlaces
  BY DEF AllocInside, AllocPlaces, Outside
<1>3. pc[t] = "refill" /\ mutex = t
  BY DEF RefillPool, Goto
<1>4. AtRefill(Memory, mem, ret, n)
  BY <1>2, <1>3 DEF TInv, SoFar, AllocSoFar
<1>5. mem = Memory /\ ret = NULL /\ ~IsHuge(n, MaxChunk) /\ FitsIn(Memory, sz) = {}
  BY <1>4 DEF AtRefill
<1>6. ASSUME Goto(t, "refill", "count"), NEW p \in Addresses, NEW i \in Indices,
             LET fresh == Save(mem.desc, p, Desc("FREE", i, MaxChunk, NULL, NULL)) IN
             /\ AvailableIn(mem.held, p, MaxChunk)
             /\ it' = Entry(fresh, p)
             /\ mem' = [mem EXCEPT
                  !.held = Hold(@, p, MaxChunk, i),
                  !.desc = fresh,
                  !.fallback = IF UseGpu /\ i = 1 THEN @ + 1 ELSE @,
                  !.free = Wrap(@ + MaxChunk),
                  !.pool = @ \cup {it'}]
      PROVE  TInv' /\ UNCHANGED vars
  <2>1. /\ AvailableIn(Memory.held, p, MaxChunk)
        /\ it' = Entry(FreshIn(Memory, p, i), p)
        /\ mem' = RefilledIn(Memory, p, i)
    BY <1>5, <1>6 DEF FreshIn, RefilledIn
  <2>2. FoundFresh(Memory, mem', it', sz) /\ mem' \in Sources(Memory)
    BY <1>5, <2>1 DEF FoundFresh, Sources
  <2>3. it' \in mem'.pool
    BY <1>5, <2>1 DEF RefilledIn, Memory
  <2>4. AllocSoFar("count", n, Memory, mem', ret', index', it')
    BY <1>5, <2>2, <2>3 DEF AllocSoFar, AtCount, Found
  <2> QED BY <1>1, <1>2, <1>6, <2>4, AllocInsideStep
<1>7. ASSUME Goto(t, "refill", "done"), UNCHANGED <<mem, it>>
      PROVE  TInv' /\ UNCHANGED vars
  <2>1. AllocSoFar("done", n, Memory, mem', ret', index', it')
    BY <1>5, <1>7 DEF AllocSoFar, AtDone, RefillPool
  <2> QED BY <1>1, <1>2, <1>7, <2>1, AllocInsideStep
<1> QED BY <1>6, <1>7 DEF RefillPool

LEMMA ChargeStep ==
  ASSUME TInv, NEW t \in Threads, Charge(t)
  PROVE  TInv' /\ UNCHANGED vars
<1> DEFINE n == arg[t].bytes
<1>1. Goto(t, "count", "split") /\ Inside
  BY DEF Charge
<1>2. "count" \in AllocInside /\ "split" \in AllocInside
  BY DEF AllocInside, AllocPlaces, Outside
<1>3. ASSUME AllocSoFar("count", n, Memory, mem, ret, index, it)
      PROVE  AllocSoFar("split", n, Memory, mem', ret', index', it')
  <2>1. AtCount(Memory, mem, n, it)
    BY <1>3 DEF AllocSoFar
  <2>2. mem' = Charged(mem, ChunkSize(n)) /\ it' = it
    BY DEF Charge, Charged, size, locals
  <2>3. AtSplit(Memory, mem', n, it')
    BY <2>1, <2>2 DEF AtCount, AtSplit
  <2> QED BY <2>3 DEF AllocSoFar
<1> QED BY <1>1, <1>2, <1>3, AllocInsideStep

LEMMA SourceShape ==
  ASSUME NEW S \in Sources(Memory)
  PROVE  S = [desc |-> S.desc, pool |-> S.pool, used |-> total_used, free |-> S.free,
              fallback |-> S.fallback, held |-> S.held, state |-> state]
<1>1. CASE S = Memory
  BY <1>1 DEF Memory
<1>2. CASE \E p \in Addresses, i \in Indices : S = RefilledIn(Memory, p, i)
  BY <1>2 DEF RefilledIn, Memory
<1> QED BY <1>1, <1>2 DEF Sources

LEMMA SplitStepStep ==
  ASSUME TInv, NEW t \in Threads, SplitStep(t)
  PROVE  TInv' /\ UNCHANGED vars
<1> DEFINE n == arg[t].bytes
           sz == ChunkSize(n)
<1>1. Goto(t, "split", "done") /\ Inside
  BY DEF SplitStep
<1>2. "split" \in AllocInside /\ "done" \in AllocInside
  BY DEF AllocInside, AllocPlaces, Outside
<1>3. ASSUME AllocSoFar("split", n, Memory, mem, ret, index, it)
      PROVE  AllocSoFar("done", n, Memory, mem', ret', index', it')
  <2>1. AtSplit(Memory, mem, n, it)
    BY <1>3 DEF AllocSoFar
  <2>2. PICK S \in Sources(Memory) :
          it \in S.pool /\ Found(Memory, S, it, sz) /\ mem = Charged(S, sz)
    BY <2>1 DEF AtSplit
  <2>3. mem' = WithSplit(mem, it, sz) /\ ret' = data(it[3])
    BY DEF SplitStep, WithSplit, size
  <2>4. AllocatedArena(Memory, mem', ret', n)
    BY <2>1, <2>2, <2>3 DEF AllocatedArena, AtSplit
  <2> QED BY <2>4 DEF AllocSoFar, AtDone
<1> QED BY <1>1, <1>2, <1>3, AllocInsideStep

-----------------------------------------------------------------------------
(* Free, step by step.                                                      *)

LEMMA FreePlacesInside ==
  {"return", "mark", "credit", "right", "left", "insert", "freed"} \subseteq FreeInside
  BY DEF FreeInside, FreePlaces, Outside

LEMMA FreeSystemStep ==
  ASSUME TInv, NEW t \in Threads, FreeSystem(t)
  PROVE  TInv' /\ UNCHANGED vars
<1> DEFINE b == metadata(arg[t].mem)
<1>1. Goto(t, "return", "freed") /\ Inside
  BY DEF FreeSystem
<1>2. "return" \in FreeInside /\ "freed" \in FreeInside
  BY FreePlacesInside
<1>3. ASSUME FreeSoFar("return", b, Memory, mem, block)
      PROVE  FreeSoFar("freed", b, Memory, mem', block')
  <2>1. mem = Memory /\ block = b /\ Memory.desc[b].type = "HUGE"
    BY <1>3 DEF FreeSoFar, AtReturn
  <2>2. mem' = Returned(Memory, b)
    BY <2>1 DEF FreeSystem, Returned
  <2> QED BY <2>1, <2>2 DEF FreeSoFar, AtFreed
<1> QED BY <1>1, <1>2, <1>3, FreeInsideStep

LEMMA MarkAsFreeStep ==
  ASSUME TInv, NEW t \in Threads, MarkAsFree(t)
  PROVE  TInv' /\ UNCHANGED vars
<1> DEFINE b == metadata(arg[t].mem)
<1>1. Goto(t, "mark", "credit") /\ Inside
  BY DEF MarkAsFree
<1>2. "mark" \in FreeInside /\ "credit" \in FreeInside
  BY FreePlacesInside
<1>3. ASSUME FreeSoFar("mark", b, Memory, mem, block)
      PROVE  FreeSoFar("credit", b, Memory, mem', block')
  <2>1. mem = Memory /\ block = b /\ Memory.desc[b].type # "HUGE"
    BY <1>3 DEF FreeSoFar, AtMark
  <2>2. mem' = Marked(Memory, b) /\ block' = block
    BY <2>1 DEF MarkAsFree, Marked, locals
  <2> QED BY <2>1, <2>2 DEF FreeSoFar, AtCredit
<1> QED BY <1>1, <1>2, <1>3, FreeInsideStep

LEMMA CreditStep ==
  ASSUME TInv, NEW t \in Threads, Credit(t)
  PROVE  TInv' /\ UNCHANGED vars
<1> DEFINE b == metadata(arg[t].mem)
<1>1. Goto(t, "credit", "right") /\ Inside
  BY DEF Credit
<1>2. "credit" \in FreeInside /\ "right" \in FreeInside
  BY FreePlacesInside
<1>3. ASSUME FreeSoFar("credit", b, Memory, mem, block)
      PROVE  FreeSoFar("right", b, Memory, mem', block')
  <2>1. mem = Marked(Memory, b) /\ block = b /\ Memory.desc[b].type # "HUGE"
    BY <1>3 DEF FreeSoFar, AtCredit
  <2>2. mem' = Credited(mem, b) /\ block' = block
    BY <2>1 DEF Credit, Credited, locals
  <2> QED BY <2>1, <2>2 DEF FreeSoFar, AtRight, Freed
<1> QED BY <1>1, <1>2, <1>3, FreeInsideStep

LEMMA MergeRightStep ==
  ASSUME TInv, NEW t \in Threads, MergeRight(t)
  PROVE  TInv' /\ UNCHANGED vars
<1> DEFINE b == metadata(arg[t].mem)
<1>1. Goto(t, "right", "left") /\ Inside
  BY DEF MergeRight, Merge
<1>2. "right" \in FreeInside /\ "left" \in FreeInside
  BY FreePlacesInside
<1>3. ASSUME FreeSoFar("right", b, Memory, mem, block)
      PROVE  FreeSoFar("left", b, Memory, mem', block')
  <2>1. mem = Freed(Memory, b) /\ block = b /\ Memory.desc[b].type # "HUGE"
    BY <1>3 DEF FreeSoFar, AtRight
  <2>2. mem' = Joined(mem, RightOf(mem, block)) /\ block' = RightOf(mem, block).block
    BY DEF MergeRight, Merge, Joined, RightOf, Now
  <2> QED BY <2>1, <2>2 DEF FreeSoFar, AtLeft, Merged1, Stage1
<1> QED BY <1>1, <1>2, <1>3, FreeInsideStep

LEMMA MergeLeftStep ==
  ASSUME TInv, NEW t \in Threads, MergeLeft(t)
  PROVE  TInv' /\ UNCHANGED vars
<1> DEFINE b == metadata(arg[t].mem)
<1>1. Goto(t, "left", "insert") /\ Inside
  BY DEF MergeLeft, Merge
<1>2. "left" \in FreeInside /\ "insert" \in FreeInside
  BY FreePlacesInside
<1>3. ASSUME FreeSoFar("left", b, Memory, mem, block)
      PROVE  FreeSoFar("insert", b, Memory, mem', block')
  <2>1. /\ mem = Merged1(Memory, b) /\ block = Stage1(Memory, b).block
        /\ Memory.desc[b].type # "HUGE"
    BY <1>3 DEF FreeSoFar, AtLeft
  <2>2. mem' = Joined(mem, LeftOf(mem, block)) /\ block' = LeftOf(mem, block).block
    BY DEF MergeLeft, Merge, Joined, LeftOf, Now
  <2> QED BY <2>1, <2>2 DEF FreeSoFar, AtInsert, Merged2, Stage2
<1> QED BY <1>1, <1>2, <1>3, FreeInsideStep

LEMMA InsertPoolStep ==
  ASSUME TInv, NEW t \in Threads, InsertPool(t)
  PROVE  TInv' /\ UNCHANGED vars
<1> DEFINE b == metadata(arg[t].mem)
<1>1. Goto(t, "insert", "freed") /\ Inside
  BY DEF InsertPool
<1>2. "insert" \in FreeInside /\ "freed" \in FreeInside
  BY FreePlacesInside
<1>3. ASSUME FreeSoFar("insert", b, Memory, mem, block)
      PROVE  FreeSoFar("freed", b, Memory, mem', block')
  <2>1. /\ mem = Merged2(Memory, b) /\ block = Stage2(Memory, b).block
        /\ Memory.desc[b].type # "HUGE"
    BY <1>3 DEF FreeSoFar, AtInsert
  <2>2. mem' = Entered(mem, block)
    BY DEF InsertPool, Entered
  <2> QED BY <2>1, <2>2 DEF FreeSoFar, AtFreed
<1> QED BY <1>1, <1>2, <1>3, FreeInsideStep

-----------------------------------------------------------------------------
(* Calls and mutex_.                                                        *)

LEMMA OutsideStep ==
  ASSUME TInv, NEW t \in Threads, mutex # t, Calls', UNCHANGED <<vars, mem, mutex, locals>>,
         \A u \in Threads \ {t} : pc'[u] = pc[u] /\ arg'[u] = arg[u]
  PROVE  TInv'
<1>1. /\ Memory' = Memory /\ mem' = mem /\ mutex' = mutex /\ state' = state
      /\ index' = index /\ it' = it /\ block' = block /\ ret' = ret
  BY DEF Memory, vars, locals
<1>2. mutex' = NoThread => Released'
  BY <1>1 DEF TInv, Released
<1>3. ASSUME mutex' \in Threads PROVE SoFar(mutex)'
  <2> DEFINE u == mutex
  <2>1. u \in Threads \ {t} /\ SoFar(u)
    BY <1>1, <1>3 DEF TInv
  <2>2. pc'[u] = pc[u] /\ arg'[u] = arg[u]
    BY <2>1
  <2> QED BY <1>1, <2>1, <2>2 DEF SoFar
<1> QED BY <1>2, <1>3 DEF TInv

LEMMA CallAllocStep ==
  ASSUME TInv, NEW t \in Threads, NEW n \in Requests, CallAlloc(t, n)
  PROVE  TInv' /\ UNCHANGED vars
<1>1. /\ pc[t] = "idle" /\ pc' = [pc EXCEPT ![t] = "alloc"]
      /\ arg' = [arg EXCEPT ![t] = Pointer(n)]
      /\ UNCHANGED <<vars, mem, mutex, locals>> /\ live' = live /\ Calls
  BY DEF CallAlloc, TInv, vars
<1>2. Pointer(n) \in [mem : Nat, bytes : Nat] /\ Pointer(n).bytes = n
  BY BuddyConstants DEF Pointer, NULL
<1>3. mutex # t
  BY <1>1 DEF Calls, Outside
<1>4. /\ pc'[t] = "alloc" /\ arg'[t].bytes = n
      /\ \A u \in Threads \ {t} : pc'[u] = pc[u] /\ arg'[u] = arg[u]
  BY <1>1, <1>2 DEF Calls
<1>5. Calls'
  <2>1. /\ pc' \in [Threads -> {"idle"} \cup AllocPlaces \cup FreePlaces]
        /\ arg' \in [Threads -> [mem : Nat, bytes : Nat]]
    BY <1>1, <1>2 DEF Calls, AllocPlaces
  <2>2. "alloc" \in Outside /\ "alloc" \notin FreePlaces
    BY DEF Outside, FreePlaces
  <2>3. \A u \in Threads : pc'[u] \in Outside <=> mutex' # u
    BY <1>1, <1>3, <1>4, <2>2 DEF Calls
  <2> QED BY <1>1, <1>4, <2>1, <2>2, <2>3 DEF Calls
<1> QED BY <1>1, <1>3, <1>4, <1>5, OutsideStep

LEMMA CallFreeStep ==
  ASSUME IInv(MaxChunk), TInv, NEW t \in Threads, NEW m \in live, CallFree(t, m)
  PROVE  TInv' /\ UNCHANGED vars
<1>1. /\ pc[t] = "idle" /\ pc' = [pc EXCEPT ![t] = "free"]
      /\ arg' = [arg EXCEPT ![t] = m] /\ \A u \in Threads : arg[u] # m
      /\ UNCHANGED <<vars, mem, mutex, locals>> /\ live' = live /\ Calls
  BY DEF CallFree, TInv, vars, Freeing
<1>2. m \in [mem : Nat, bytes : Nat]
  <2>1. m \in [mem : Nat, bytes : Requests] /\ Requests \subseteq Nat
    BY BuddyConstants DEF IInv, Served
  <2> QED BY <2>1
<1>3. mutex # t
  BY <1>1 DEF Calls, Outside
<1>4. /\ pc'[t] = "free" /\ arg'[t] = m
      /\ \A u \in Threads \ {t} : pc'[u] = pc[u] /\ arg'[u] = arg[u]
  BY <1>1, <1>2 DEF Calls
<1>5. Calls'
  <2>1. /\ pc' \in [Threads -> {"idle"} \cup AllocPlaces \cup FreePlaces]
        /\ arg' \in [Threads -> [mem : Nat, bytes : Nat]]
    BY <1>1, <1>2 DEF Calls, FreePlaces
  <2>2. "free" \in Outside /\ "free" \notin AllocPlaces
    BY DEF Outside, AllocPlaces
  <2>3. \A u \in Threads : pc'[u] \in Outside <=> mutex' # u
    BY <1>1, <1>3, <1>4, <2>2 DEF Calls
  <2>4. \A u, v \in Threads :
          u # v /\ pc'[u] \in FreePlaces /\ pc'[v] \in FreePlaces => arg'[u] # arg'[v]
    BY <1>1, <1>4 DEF Calls
  <2> QED BY <1>1, <1>4, <2>1, <2>2, <2>3, <2>4 DEF Calls
<1> QED BY <1>1, <1>3, <1>4, <1>5, OutsideStep

(* A thread that takes mutex_ finds mem as the last call left it.           *)
LEMMA LockCalls ==
  ASSUME TInv, NEW t \in Threads, NEW to, pc[t] \in Outside, Acquire(t),
         pc' = [pc EXCEPT ![t] = to], arg' = arg, UNCHANGED vars,
         \/ pc[t] = "alloc" /\ to \in AllocInside
         \/ pc[t] = "free" /\ to \in FreeInside
  PROVE  Calls' /\ mutex' = t /\ pc'[t] = to /\ t # NoThread
<1>1. Calls /\ mutex = NoThread /\ mutex' = t /\ live' = live
  BY DEF TInv, Acquire, vars
<1>2. pc'[t] = to /\ \A u \in Threads \ {t} : pc'[u] = pc[u]
  BY <1>1 DEF Calls
<1>3. t # NoThread /\ \A u \in Threads : pc[u] \in Outside
  BY <1>1, BuddyThreadsConstants DEF Calls
<1>4. to \notin Outside /\ to \in AllocPlaces \cup FreePlaces
  BY DEF AllocInside, FreeInside
<1>5. pc' \in [Threads -> {"idle"} \cup AllocPlaces \cup FreePlaces]
  BY <1>1, <1>4 DEF Calls
<1>6. \A u \in Threads : pc'[u] \in Outside <=> mutex' # u
  BY <1>1, <1>2, <1>3, <1>4
<1>7. \A u \in Threads : /\ pc'[u] \in AllocPlaces => pc[u] \in AllocPlaces
                         /\ pc'[u] \in FreePlaces => pc[u] \in FreePlaces
  <2>1. /\ AllocPlaces \cap FreePlaces = {}
        /\ "alloc" \in AllocPlaces /\ "free" \in FreePlaces
    BY DEF AllocPlaces, FreePlaces
  <2> QED BY <2>1, <1>2 DEF AllocInside, FreeInside
<1> QED BY <1>1, <1>2, <1>3, <1>5, <1>6, <1>7 DEF Calls

LEMMA LockAllocStep ==
  ASSUME IInv(MaxChunk), TInv, NEW t \in Threads, LockAlloc(t)
  PROVE  TInv' /\ UNCHANGED vars
<1> DEFINE n == arg[t].bytes
           to == IF IsHuge(n, MaxChunk) THEN "system" ELSE "find"
<1>1. /\ pc[t] = "alloc" /\ state = "up" /\ Acquire(t) /\ pc' = [pc EXCEPT ![t] = to]
      /\ UNCHANGED <<vars, mem, arg, locals>>
  BY DEF LockAlloc, IsHuge, size
<1>2. to \in AllocInside /\ pc[t] \in Outside /\ to \notin FreePlaces /\ to \in AllocPlaces
  BY <1>1 DEF AllocInside, AllocPlaces, Outside, FreePlaces
<1>3. Calls' /\ mutex' = t /\ pc'[t] = to /\ t # NoThread
  BY <1>1, <1>2, LockCalls
<1>4. mem = Memory /\ index = 0 /\ ret = NULL
  BY <1>1 DEF TInv, Acquire, Released
<1>5. /\ Memory' = Memory /\ mem' = mem /\ state' = "up" /\ index' = 0 /\ ret' = NULL
      /\ arg' = arg
  BY <1>1, <1>4 DEF Memory, vars, locals
<1>6. AllocSoFar(to, n, Memory, mem', ret', index', it')
  <2>1. CASE IsHuge(n, MaxChunk)
    BY <1>4, <1>5, <2>1 DEF AllocSoFar, AtSystem
  <2>2. CASE ~IsHuge(n, MaxChunk)
    <3>1. \A f \in FitsIn(Memory, ChunkSize(n)) : f[1] >= 0
      <4>1. Memory.pool = pool
        BY DEF Memory
      <4> QED BY <4>1, PoolEntries DEF FitsIn
    <3> QED BY <1>4, <1>5, <2>2, <3>1 DEF AllocSoFar, AtFind
  <2> QED BY <2>1, <2>2
<1>7. SoFar(t)'
  BY <1>2, <1>3, <1>5, <1>6 DEF SoFar
<1> QED BY <1>1, <1>3, <1>7 DEF TInv

LEMMA LockFreeStep ==
  ASSUME TInv, NEW t \in Threads, LockFree(t)
  PROVE  TInv' /\ UNCHANGED vars
<1> DEFINE b == metadata(arg[t].mem)
           to == IF Memory.desc[b].type = "HUGE" THEN "return" ELSE "mark"
<1>1. /\ pc[t] = "free" /\ state = "up" /\ Acquire(t) /\ block' = b
      /\ UNCHANGED <<vars, mem, arg, index, it, ret>>
      /\ pc' = [pc EXCEPT ![t] = IF mem.desc[b].type = "HUGE" THEN "return" ELSE "mark"]
  BY DEF LockFree
<1>2. mem = Memory
  BY <1>1 DEF TInv, Acquire, Released
<1>3. pc' = [pc EXCEPT ![t] = to]
  BY <1>1, <1>2
<1>4. to \in FreeInside /\ pc[t] \in Outside /\ to \notin AllocPlaces /\ to \in FreePlaces
  BY <1>1 DEF FreeInside, AllocPlaces, Outside, FreePlaces
<1>5. Calls' /\ mutex' = t /\ pc'[t] = to /\ t # NoThread
  BY <1>1, <1>3, <1>4, LockCalls
<1>6. Memory' = Memory /\ mem' = mem /\ state' = "up" /\ arg' = arg
  BY <1>1 DEF Memory, vars
<1>7. FreeSoFar(to, b, Memory, mem', block')
  BY <1>1, <1>2, <1>6 DEF FreeSoFar, AtReturn, AtMark
<1>8. SoFar(t)'
  BY <1>4, <1>5, <1>6, <1>7 DEF SoFar
<1> QED BY <1>1, <1>5, <1>8 DEF TInv

-----------------------------------------------------------------------------
(* A call returns: what it has made of mem becomes the memory.              *)

Record(d, p, u, f, c, h, z) ==
  [desc |-> d, pool |-> p, used |-> u, free |-> f, fallback |-> c, held |-> h, state |-> z]

IsMemory(M) == M = Record(M.desc, M.pool, M.used, M.free, M.fallback, M.held, M.state)

LEMMA UnlockTInv ==
  ASSUME TInv, NEW t \in Threads, NEW after, Unlock(t, after), pc[t] \notin Outside,
         \/ live \subseteq after
         \/ pc[t] \in FreePlaces /\ after = live \ {arg[t]},
         IsMemory(mem)
  PROVE  TInv'
<1>1. /\ mutex = t /\ mutex' = NoThread /\ live' = after /\ mem' = mem
      /\ pc' = [pc EXCEPT ![t] = "idle"] /\ arg' = [arg EXCEPT ![t] = NoArg]
      /\ index' = 0 /\ ret' = NULL /\ Calls
  BY DEF Unlock, TInv
<1>2. Released'
  BY <1>1 DEF Unlock, Released, Memory, IsMemory, Record
<1>3. NoArg \in [mem : Nat, bytes : Nat]
  BY DEF NoArg, NULL
<1>4. /\ pc' \in [Threads -> {"idle"} \cup AllocPlaces \cup FreePlaces]
      /\ arg' \in [Threads -> [mem : Nat, bytes : Nat]]
  BY <1>1, <1>3 DEF Calls
<1>5. /\ pc'[t] = "idle" /\ "idle" \notin AllocPlaces /\ "idle" \notin FreePlaces
      /\ \A u \in Threads \ {t} : pc'[u] = pc[u] /\ arg'[u] = arg[u]
  BY <1>1 DEF Calls, AllocPlaces, FreePlaces
<1>6. \A u \in Threads : pc'[u] \in Outside <=> mutex' # u
  BY <1>1, <1>5, BuddyThreadsConstants DEF Calls, Outside
<1>7. \A u \in Threads : pc'[u] \in FreePlaces => arg'[u] \in live'
  BY <1>1, <1>5 DEF Calls
<1>8. Calls'
  BY <1>1, <1>4, <1>5, <1>6, <1>7 DEF Calls
<1> QED BY <1>1, <1>2, <1>8, BuddyThreadsConstants DEF TInv

Becomes(M, after) ==
  /\ desc' = M.desc /\ pool' = M.pool /\ total_used' = M.used /\ total_free' = M.free
  /\ fallback' = M.fallback /\ held' = M.held /\ state' = M.state /\ live' = after

LEMMA AddressNotNull ==
  ASSUME NEW p \in Nat PROVE data(p) # NULL
  BY BuddyConstants DEF data, NULL

LEMMA ReturnAllocHuge ==
  ASSUME state = "up", NEW n \in Requests, NEW r, NEW M, AllocatedHuge(Memory, M, r, n),
         Becomes(M, live \cup {[mem |-> r, bytes |-> n]})
  PROVE  AllocHuge(n, MaxChunk) /\ r # NULL
<1>1. PICK p \in Addresses, i \in Indices :
        /\ AvailableIn(held, p, ChunkSize(n))
        /\ M = WithHuge(Memory, p, i, ChunkSize(n)) /\ r = data(p)
  BY DEF AllocatedHuge, Memory
<1>2. /\ M.held = Hold(held, p, ChunkSize(n), i)
      /\ M.desc = Save(desc, p, Desc("HUGE", i, ChunkSize(n), NULL, NULL))
      /\ M.pool = pool /\ M.used = total_used /\ M.free = total_free
      /\ M.fallback = fallback /\ M.state = state
  BY <1>1 DEF WithHuge, Memory
<1>3. Available(p, ChunkSize(n))
  BY <1>1 DEF Available, AvailableIn
<1>4. r # NULL
  BY <1>1, AddressNotNull, BuddyConstants
<1>5. IsHuge(n, MaxChunk)
  BY DEF AllocatedHuge
<1> QED BY <1>1, <1>2, <1>3, <1>4, <1>5 DEF AllocHuge, Becomes

LEMMA ChargedRecord ==
  ASSUME NEW d, NEW p, NEW u, NEW f, NEW c, NEW h, NEW z, NEW sz
  PROVE  Charged(Record(d, p, u, f, c, h, z), sz)
           = Record(d, p, Wrap(u + sz), Wrap(f - sz), c, h, z)
<1>1. PICK M : M = Record(d, p, u, f, c, h, z)
  OBVIOUS
<1>2. PICK x, y : x = Wrap(u + sz) /\ y = Wrap(f - sz)
  OBVIOUS
<1>3. M.used = u /\ M.free = f
  BY <1>1 DEF Record
<1>4. PICK N : N = [M EXCEPT !.used = x, !.free = y]
  OBVIOUS
<1>5. Charged(M, sz) = N
  BY <1>2, <1>3, <1>4 DEF Charged
<1>6. N = Record(N.desc, N.pool, N.used, N.free, N.fallback, N.held, N.state)
  BY <1>1, <1>4 DEF Record
<1>7. /\ N.desc = d /\ N.pool = p /\ N.used = x /\ N.free = y
      /\ N.fallback = c /\ N.held = h /\ N.state = z
  BY <1>1, <1>4 DEF Record
<1>8. N = Record(d, p, x, y, c, h, z)
  BY <1>6, <1>7
<1> QED BY <1>1, <1>2, <1>5, <1>8

LEMMA WithSplitRecord ==
  ASSUME NEW d, NEW p, NEW u, NEW f, NEW c, NEW h, NEW z, NEW e, NEW sz,
         NEW v, v = IF split_asserts(d, e[3], sz) THEN z ELSE "aborted"
  PROVE  LET after == SplitDesc(d, e[3], sz) IN
         WithSplit(Record(d, p, u, f, c, h, z), e, sz)
           = Record(after, (p \ {e}) \cup RemainderEntry(after, e[3]), u, f, c, h, v)
<1> DEFINE after == SplitDesc(d, e[3], sz)
<1>1. PICK M : M = Record(d, p, u, f, c, h, z)
  OBVIOUS
<1>2. PICK x, y : x = after /\ y = (p \ {e}) \cup RemainderEntry(after, e[3])
  OBVIOUS
<1>3. M.desc = d /\ M.pool = p /\ M.state = z
  BY <1>1 DEF Record
<1>4. PICK N : N = [M EXCEPT !.state = v, !.desc = x, !.pool = y]
  OBVIOUS
<1>5. WithSplit(M, e, sz) = N
  BY <1>2, <1>3, <1>4 DEF WithSplit
<1>6. N = Record(N.desc, N.pool, N.used, N.free, N.fallback, N.held, N.state)
  BY <1>1, <1>4 DEF Record
<1>7. /\ N.desc = x /\ N.pool = y /\ N.used = u /\ N.free = f
      /\ N.fallback = c /\ N.held = h /\ N.state = v
  BY <1>1, <1>4 DEF Record
<1>8. N = Record(x, y, u, f, c, h, v)
  BY <1>6, <1>7
<1> QED BY <1>1, <1>2, <1>5, <1>8

LEMMA SplitFields ==
  ASSUME NEW S \in Sources(Memory), NEW e, NEW sz
  PROVE  LET after == SplitDesc(S.desc, e[3], sz) IN
         WithSplit(Charged(S, sz), e, sz)
           = Record(after, (S.pool \ {e}) \cup RemainderEntry(after, e[3]),
                    Wrap(total_used + sz), Wrap(S.free - sz), S.fallback, S.held,
                    IF split_asserts(S.desc, e[3], sz) THEN state ELSE "aborted")
<1>1. S = Record(S.desc, S.pool, total_used, S.free, S.fallback, S.held, state)
  BY SourceShape DEF Record
<1>2. Charged(S, sz)
        = Record(S.desc, S.pool, Wrap(total_used + sz), Wrap(S.free - sz), S.fallback,
                 S.held, state)
  BY <1>1, ChargedRecord
<1>3. PICK v : v = IF split_asserts(S.desc, e[3], sz) THEN state ELSE "aborted"
  OBVIOUS
<1>4. LET after == SplitDesc(S.desc, e[3], sz) IN
      WithSplit(Charged(S, sz), e, sz)
        = Record(after, (S.pool \ {e}) \cup RemainderEntry(after, e[3]),
                 Wrap(total_used + sz), Wrap(S.free - sz), S.fallback, S.held, v)
  BY <1>2, <1>3, WithSplitRecord
<1> QED BY <1>3, <1>4

LEMMA ReturnAllocExisting ==
  ASSUME IInv(MaxChunk), state = "up", NEW n \in Requests, ~IsHuge(n, MaxChunk), NEW M, NEW r, NEW e,
         FoundExisting(Memory, Memory, e, ChunkSize(n)),
         M = WithSplit(Charged(Memory, ChunkSize(n)), e, ChunkSize(n)), r = data(e[3]),
         Becomes(M, live \cup {[mem |-> r, bytes |-> n]})
  PROVE  AllocExisting(n, MaxChunk) /\ r # NULL
<1> DEFINE sz == ChunkSize(n)
<1>1. /\ Memory.desc = desc /\ Memory.pool = pool /\ Memory.free = total_free
      /\ Memory.fallback = fallback /\ Memory.held = held /\ Memory \in Sources(Memory)
  BY DEF Memory, Sources
<1>2. FitsIn(Memory, sz) = Fits(sz)
  BY <1>1 DEF FitsIn, Fits
<1>3. e \in pool /\ FindExistChunk(sz, e)
  BY <1>2 DEF FoundExisting, FindExistChunk, Fits
<1>4. e = Entry(desc, e[3]) /\ e[3] \in Nat
  BY <1>3, PoolEntries
<1> HIDE DEF sz
<1>5. r # NULL
  BY <1>4, AddressNotNull
<1>6. /\ desc' = SplitDesc(desc, e[3], sz)
      /\ pool' = (pool \ {e}) \cup RemainderEntry(SplitDesc(desc, e[3], sz), e[3])
      /\ total_used' = Wrap(total_used + sz) /\ total_free' = Wrap(total_free - sz)
      /\ fallback' = fallback /\ held' = held
      /\ state' = IF split_asserts(desc, e[3], sz) THEN state ELSE "aborted"
      /\ live' = live \cup {[mem |-> r, bytes |-> n]}
  BY <1>1, SplitFields DEF Becomes, sz, Record
<1>7. SplitToAlloc(n, desc, pool, e[3])
  BY <1>4, <1>6 DEF SplitToAlloc, Asserts, sz
<1> QED BY <1>3, <1>5, <1>6, <1>7 DEF AllocExisting, sz

LEMMA ReturnAllocRefill ==
  ASSUME IInv(MaxChunk), state = "up", NEW n \in Requests, ~IsHuge(n, MaxChunk), NEW M, NEW r, NEW e,
         NEW S \in Sources(Memory), FoundFresh(Memory, S, e, ChunkSize(n)),
         M = WithSplit(Charged(S, ChunkSize(n)), e, ChunkSize(n)), r = data(e[3]),
         ChunkSize(n) \in Nat,
         Becomes(M, live \cup {[mem |-> r, bytes |-> n]})
  PROVE  AllocRefill(n, MaxChunk) /\ r # NULL
<1> DEFINE sz == ChunkSize(n)
<1>1. PICK p \in Addresses, i \in Indices :
        /\ AvailableIn(held, p, MaxChunk)
        /\ S = RefilledIn(Memory, p, i) /\ e = Entry(FreshIn(Memory, p, i), p)
  BY DEF FoundFresh, Memory
<1> DEFINE fresh == Save(desc, p, Desc("FREE", i, MaxChunk, NULL, NULL))
<1>2. FreshIn(Memory, p, i) = fresh /\ e = Entry(fresh, p) /\ e[3] = p
  BY <1>1 DEF FreshIn, Memory, Entry
<1> HIDE DEF sz, fresh
<1>3. /\ S.desc = fresh /\ S.pool = pool \cup {Entry(fresh, p)}
      /\ S.held = Hold(held, p, MaxChunk, i)
      /\ S.fallback = CountFallback(i) /\ S.free = Wrap(total_free + MaxChunk)
  BY <1>1, <1>2 DEF RefilledIn, Memory, CountFallback
<1>4. Fits(sz) = {}
  <2>1. FitsIn(Memory, sz) = Fits(sz)
    BY DEF FitsIn, Fits, Memory
  <2> QED BY <2>1 DEF FoundFresh, sz
<1>5. Available(p, MaxChunk)
  BY <1>1 DEF Available, AvailableIn
<1>6. r # NULL
  BY <1>2, AddressNotNull, BuddyConstants
<1>7. Wrap(Wrap(total_free + MaxChunk) - sz) = Wrap((total_free + MaxChunk) - sz)
  <2>1. total_free + MaxChunk \in Int /\ sz \in Int
    BY BuddyConstants DEF IInv, sz
  <2> QED BY <2>1, WrapTwice
<1>8. /\ desc' = SplitDesc(fresh, p, sz)
      /\ pool' = (S.pool \ {e}) \cup RemainderEntry(SplitDesc(fresh, p, sz), p)
      /\ total_used' = Wrap(total_used + sz) /\ total_free' = Wrap(S.free - sz)
      /\ fallback' = S.fallback /\ held' = S.held
      /\ state' = IF split_asserts(fresh, p, sz) THEN state ELSE "aborted"
      /\ live' = live \cup {[mem |-> r, bytes |-> n]}
  BY <1>2, <1>3, SplitFields DEF Becomes, sz, Record
<1>9. SplitToAlloc(n, fresh, pool \cup {Entry(fresh, p)}, p)
  BY <1>2, <1>3, <1>8 DEF SplitToAlloc, Asserts, sz
<1> QED BY <1>3, <1>4, <1>5, <1>6, <1>7, <1>8, <1>9 DEF AllocRefill, sz, fresh

(* Memory after the whole call.                                             *)
LEMMA DoneRecord ==
  ASSUME NEW M, NEW r, NEW n, AtDone(Memory, M, r, n)
  PROVE  IsMemory(M)
<1>1. CASE M = Memory
  BY <1>1 DEF Memory, IsMemory, Record
<1>2. CASE AllocatedHuge(Memory, M, r, n)
  BY <1>2 DEF AllocatedHuge, WithHuge, Memory, IsMemory, Record
<1>3. CASE AllocatedArena(Memory, M, r, n)
  <2>1. PICK S \in Sources(Memory) : \E e :
          M = WithSplit(Charged(S, ChunkSize(n)), e, ChunkSize(n))
    BY <1>3 DEF AllocatedArena
  <2>2. \E d, p, u, f, c, h, z : M = Record(d, p, u, f, c, h, z)
    BY <2>1, SplitFields
  <2> QED BY <2>2 DEF IsMemory, Record
<1> QED BY <1>1, <1>2, <1>3 DEF AtDone

LEMMA ReturnAllocStep ==
  ASSUME RequestsFit, IInv(MaxChunk), TInv, NEW t \in Threads, ReturnAlloc(t)
  PROVE  TInv' /\ [Next]_vars
<1> DEFINE n == arg[t].bytes
           after == IF ret = NULL THEN live ELSE live \cup {[mem |-> ret, bytes |-> n]}
<1>1. pc[t] = "done" /\ Unlock(t, after) /\ Becomes(mem, after) /\ mutex = t
  BY DEF ReturnAlloc, Unlock, Becomes
<1>2. state = "up" /\ n \in Requests /\ AtDone(Memory, mem, ret, n)
  <2>1. Calls /\ SoFar(t)
    BY <1>1 DEF TInv
  <2> QED BY <1>1, <2>1 DEF Calls, SoFar, AllocSoFar, AllocPlaces
<1>3. TInv'
  <2>1. pc[t] \notin Outside /\ live \subseteq after
    BY <1>1 DEF Outside
  <2>2. IsMemory(mem)
    BY <1>2, DoneRecord
  <2> HIDE DEF after
  <2> QED BY <1>1, <2>1, <2>2, UnlockTInv
<1> SUFFICES [Next]_vars
  BY <1>3
<1>4. CASE mem = Memory /\ ret = NULL
  BY <1>1, <1>4 DEF Becomes, Memory, vars
<1>5. CASE AllocatedHuge(Memory, mem, ret, n)
  <2>1. ret # NULL
    <3>1. PICK p \in Addresses : ret = data(p)
      BY <1>5 DEF AllocatedHuge
    <3> QED BY <3>1, AddressNotNull, BuddyConstants
  <2>2. Becomes(mem, live \cup {[mem |-> ret, bytes |-> n]})
    BY <1>1, <2>1
  <2>3. AllocHuge(n, MaxChunk)
    BY <1>2, <1>5, <2>2, ReturnAllocHuge
  <2> QED BY <1>2, <2>3 DEF Next, Alloc
<1>6. CASE AllocatedArena(Memory, mem, ret, n)
  <2>1. ChunkSize(n) \in Nat
    BY <1>2, ChunkSizeHolds
  <2>2. PICK S, e :
          /\ S \in Sources(Memory)
          /\ Found(Memory, S, e, ChunkSize(n))
          /\ mem = WithSplit(Charged(S, ChunkSize(n)), e, ChunkSize(n))
          /\ ret = data(e[3])
    BY <1>6 DEF AllocatedArena
  <2>3. ~IsHuge(n, MaxChunk)
    BY <1>6 DEF AllocatedArena
  <2>4. ret # NULL
    <3>1. CASE FoundExisting(Memory, S, e, ChunkSize(n))
      <4>1. e \in pool
        BY <3>1 DEF FoundExisting, FitsIn, Memory
      <4> QED BY <2>2, <4>1, PoolEntries, AddressNotNull
    <3>2. CASE FoundFresh(Memory, S, e, ChunkSize(n))
      <4>1. PICK p \in Addresses : e[3] = p
        BY <3>2 DEF FoundFresh, Entry
      <4> QED BY <2>2, <4>1, AddressNotNull, BuddyConstants
    <3> QED BY <2>2, <3>1, <3>2 DEF Found
  <2>5. Becomes(mem, live \cup {[mem |-> ret, bytes |-> n]})
    BY <1>1, <2>4
  <2>6. CASE FoundExisting(Memory, S, e, ChunkSize(n))
    <3>1. S = Memory
      BY <2>6 DEF FoundExisting
    <3>2. AllocExisting(n, MaxChunk)
      BY <1>2, <2>2, <2>3, <2>5, <2>6, <3>1, ReturnAllocExisting
    <3> QED BY <1>2, <3>2 DEF Next, Alloc
  <2>7. CASE FoundFresh(Memory, S, e, ChunkSize(n))
    <3>1. AllocRefill(n, MaxChunk)
      BY <1>2, <2>1, <2>2, <2>3, <2>5, <2>7, ReturnAllocRefill
    <3> QED BY <1>2, <3>1 DEF Next, Alloc
  <2> QED BY <2>2, <2>6, <2>7 DEF Found
<1> QED BY <1>2, <1>4, <1>5, <1>6 DEF AtDone

(* The members of the memory after each step of Free.                       *)
LEMMA MarkedFields ==
  ASSUME NEW b
  PROVE  LET M == Marked(Memory, b) IN
         /\ IsMemory(M)
         /\ M.desc = set_type(desc, b, "FREE") /\ M.pool = pool
         /\ M.used = total_used /\ M.free = total_free
         /\ M.fallback = fallback /\ M.held = held
         /\ M.state = IF mark_asserts(desc, b) THEN state ELSE "aborted"
<1>1. PICK x, y : /\ x = IF mark_asserts(desc, b) THEN state ELSE "aborted"
                  /\ y = set_type(desc, b, "FREE")
  OBVIOUS
<1>2. PICK N : N = [Memory EXCEPT !.state = x, !.desc = y]
  OBVIOUS
<1>3. Memory.desc = desc /\ Memory.state = state
  BY DEF Memory
<1>4. Marked(Memory, b) = N
  BY <1>1, <1>2, <1>3 DEF Marked
<1>5. IsMemory(N)
  BY <1>2 DEF Memory, IsMemory, Record
<1>6. /\ N.desc = y /\ N.pool = pool /\ N.used = total_used /\ N.free = total_free
      /\ N.fallback = fallback /\ N.held = held /\ N.state = x
  BY <1>2 DEF Memory
<1> QED BY <1>1, <1>4, <1>5, <1>6

LEMMA CreditedFields ==
  ASSUME NEW M, IsMemory(M), NEW b
  PROVE  LET N == Credited(M, b) IN
         /\ IsMemory(N)
         /\ N.desc = M.desc /\ N.pool = M.pool
         /\ N.used = Wrap(M.used - M.desc[b].total_size)
         /\ N.free = Wrap(M.free + M.desc[b].total_size)
         /\ N.fallback = M.fallback /\ N.held = M.held /\ N.state = M.state
<1>1. PICK d, p, u, f, c, h, z : M = Record(d, p, u, f, c, h, z)
  BY DEF IsMemory
<1>2. PICK x, y : /\ x = Wrap(M.used - M.desc[b].total_size)
                  /\ y = Wrap(M.free + M.desc[b].total_size)
  OBVIOUS
<1>3. PICK N : N = [M EXCEPT !.used = x, !.free = y]
  OBVIOUS
<1>4. Credited(M, b) = N
  BY <1>2, <1>3 DEF Credited
<1>5. IsMemory(N)
  BY <1>1, <1>3 DEF IsMemory, Record
<1>6. /\ N.desc = M.desc /\ N.pool = M.pool /\ N.used = x /\ N.free = y
      /\ N.fallback = M.fallback /\ N.held = M.held /\ N.state = M.state
  BY <1>1, <1>3 DEF Record
<1> QED BY <1>2, <1>4, <1>5, <1>6

LEMMA JoinedFields ==
  ASSUME NEW M, IsMemory(M), NEW s
  PROVE  LET N == Joined(M, s) IN
         /\ IsMemory(N)
         /\ N.desc = s.desc /\ N.pool = s.pool /\ N.used = M.used /\ N.free = M.free
         /\ N.fallback = M.fallback /\ N.held = M.held
         /\ N.state = IF s.ok THEN M.state ELSE "aborted"
<1>1. PICK d, p, u, f, c, h, z : M = Record(d, p, u, f, c, h, z)
  BY DEF IsMemory
<1>2. PICK x, y, v : /\ x = s.desc /\ y = s.pool
                     /\ v = IF s.ok THEN M.state ELSE "aborted"
  OBVIOUS
<1>3. PICK N : N = [M EXCEPT !.desc = x, !.pool = y, !.state = v]
  OBVIOUS
<1>4. Joined(M, s) = N
  BY <1>2, <1>3 DEF Joined
<1>5. IsMemory(N)
  BY <1>1, <1>3 DEF IsMemory, Record
<1>6. /\ N.desc = x /\ N.pool = y /\ N.used = M.used /\ N.free = M.free
      /\ N.fallback = M.fallback /\ N.held = M.held /\ N.state = v
  BY <1>1, <1>3 DEF Record
<1> QED BY <1>2, <1>4, <1>5, <1>6

LEMMA EnteredFields ==
  ASSUME NEW M, IsMemory(M), NEW b
  PROVE  LET N == Entered(M, b) IN
         /\ IsMemory(N)
         /\ N.desc = M.desc /\ N.pool = M.pool \cup {Entry(M.desc, b)}
         /\ N.used = M.used /\ N.free = M.free
         /\ N.fallback = M.fallback /\ N.held = M.held /\ N.state = M.state
<1>1. PICK d, p, u, f, c, h, z : M = Record(d, p, u, f, c, h, z)
  BY DEF IsMemory
<1> QED BY <1>1 DEF Entered, IsMemory, Record

LEMMA ReturnedFields ==
  ASSUME NEW b
  PROVE  LET M == Returned(Memory, b)
             given == Returnable(held, b, desc[b].total_size, desc[b].index)
         IN /\ IsMemory(M)
            /\ M.desc = Drop(desc, b) /\ M.pool = pool
            /\ M.used = total_used /\ M.free = total_free /\ M.fallback = fallback
            /\ M.held = IF given THEN Drop(held, b) ELSE held
            /\ M.state = IF given THEN state ELSE "misfreed"
<1>1. CASE Returnable(held, b, desc[b].total_size, desc[b].index)
  <2>1. Returned(Memory, b) = [Memory EXCEPT !.held = Drop(held, b), !.desc = Drop(desc, b)]
    BY <1>1 DEF Returned, Memory
  <2> QED BY <1>1, <2>1 DEF Memory, IsMemory, Record
<1>2. CASE ~Returnable(held, b, desc[b].total_size, desc[b].index)
  <2>1. Returned(Memory, b) = [Memory EXCEPT !.state = "misfreed", !.desc = Drop(desc, b)]
    BY <1>2 DEF Returned, Memory
  <2> QED BY <1>2, <2>1 DEF Memory, IsMemory, Record
<1> QED BY <1>1, <1>2

LEMMA ReturnFreeHuge ==
  ASSUME state = "up", NEW m \in live, NEW M,
         M = Returned(Memory, metadata(m.mem)), desc[metadata(m.mem)].type = "HUGE",
         Becomes(M, live \ {m})
  PROVE  FreeHuge(m) /\ IsMemory(M)
  BY ReturnedFields DEF FreeHuge, Becomes

(* Free of an arena block: no assertion of mark_as_free or merge fails.     *)
LEMMA ReturnFreeArena ==
  ASSUME IInv(MaxChunk), state = "up", NEW m \in live, NEW M,
         M = Entered(Merged2(Memory, metadata(m.mem)), Stage2(Memory, metadata(m.mem)).block),
         desc[metadata(m.mem)].type # "HUGE",
         Becomes(M, live \ {m})
  PROVE  FreeArena(m) /\ IsMemory(M)
<1> DEFINE b == metadata(m.mem)
           d == set_type(desc, b, "FREE")
           s1 == JoinRight(Stage(d, pool, b, TRUE))
           s2 == JoinLeft(s1)
           F == Freed(Memory, b)
           M1 == Merged1(Memory, b)
           M2 == Merged2(Memory, b)
<1>1. /\ d[b].total_size = desc[b].total_size /\ mark_asserts(desc, b) = TRUE
      /\ desc[b].type = "ARENA" /\ b \in BlocksIn(desc)
  <2>1. b \in BlocksIn(desc) /\ Typed(desc) /\ desc[b].type = "ARENA"
    BY DEF IInv, Served, InUse, BlocksIn, Shape
  <2> QED BY <2>1, RetypeResult DEF Retyped, mark_asserts
<1>2. StageOK(d, pool, b, held, MaxChunk)
  BY <1>1, MaxChunkIsOne, FreedStage
<1> HIDE DEF b, d
<1>3. /\ IsMemory(F) /\ F.desc = d /\ F.pool = pool
      /\ F.used = Wrap(total_used - desc[b].total_size)
      /\ F.free = Wrap(total_free + desc[b].total_size)
      /\ F.fallback = fallback /\ F.held = held /\ F.state = "up"
  BY <1>1, MarkedFields, CreditedFields DEF Freed, d
<1>4. Stage1(Memory, b) = s1
  BY <1>3 DEF Stage1, RightOf
<1>5. /\ s1 = Stage(s1.desc, s1.pool, b, TRUE) /\ RightInUse(s1.desc, b)
      /\ StageOK(s1.desc, s1.pool, b, held, MaxChunk)
  BY <1>2, MaxChunkIsOne, JoinRightStage
<1> HIDE DEF F, s1
<1>6. s1.block = b /\ s1.ok = TRUE
  BY <1>5 DEF Stage
<1>7. /\ IsMemory(M1) /\ M1.desc = s1.desc /\ M1.pool = s1.pool
      /\ M1.used = F.used /\ M1.free = F.free /\ M1.fallback = F.fallback
      /\ M1.held = F.held /\ M1.state = "up"
  BY <1>3, <1>4, <1>6, JoinedFields DEF Merged1, F
<1>8. Stage2(Memory, b) = s2
  BY <1>4, <1>5, <1>6, <1>7 DEF Stage2, LeftOf
<1>9. s2.ok = TRUE
  BY <1>5, MaxChunkIsOne, JoinLeftStage
<1> HIDE DEF M1, s2
<1>10. /\ IsMemory(M2) /\ M2.desc = s2.desc /\ M2.pool = s2.pool
       /\ M2.used = M1.used /\ M2.free = M1.free /\ M2.fallback = M1.fallback
       /\ M2.held = M1.held /\ M2.state = "up"
  BY <1>7, <1>8, <1>9, JoinedFields DEF Merged2, M1
<1> HIDE DEF M2
<1>11. M = Entered(M2, s2.block)
  BY <1>8 DEF M2, b
<1>12. /\ IsMemory(M) /\ M.desc = s2.desc /\ M.pool = s2.pool \cup {Entry(s2.desc, s2.block)}
       /\ M.used = Wrap(total_used - desc[b].total_size)
       /\ M.free = Wrap(total_free + desc[b].total_size)
       /\ M.fallback = fallback /\ M.held = held /\ M.state = "up"
  BY <1>3, <1>7, <1>10, <1>11, EnteredFields
<1>13. /\ desc' = s2.desc /\ pool' = s2.pool \cup {Entry(s2.desc, s2.block)}
       /\ Asserts(s2.ok) /\ desc[b].type # "HUGE"
       /\ s2 = JoinLeft(JoinRight(Stage(set_type(desc, b, "FREE"), pool, b, mark_asserts(desc, b))))
  BY <1>1, <1>9, <1>12 DEF Becomes, Asserts, b, d, s1, s2
<1> QED BY <1>12, <1>13 DEF FreeArena, Becomes, b

LEMMA ReturnFreeStep ==
  ASSUME IInv(MaxChunk), TInv, NEW t \in Threads, ReturnFree(t)
  PROVE  TInv' /\ [Next]_vars
<1> DEFINE m == arg[t]
           b == metadata(m.mem)
<1>1. /\ pc[t] = "freed" /\ Unlock(t, live \ {m}) /\ Becomes(mem, live \ {m}) /\ mutex = t
  BY DEF ReturnFree, Unlock, Becomes
<1>2. "freed" \in FreePlaces /\ "freed" \notin Outside
  BY DEF FreePlaces, Outside
<1>3. state = "up" /\ m \in live /\ AtFreed(Memory, mem, b)
  <2>1. Calls /\ SoFar(t)
    BY <1>1 DEF TInv
  <2> QED BY <1>1, <1>2, <2>1 DEF Calls, SoFar, FreeSoFar
<1>4. Memory.desc = desc
  BY DEF Memory
<1>5. CASE mem = Returned(Memory, b) /\ desc[b].type = "HUGE"
  <2>1. FreeHuge(m) /\ IsMemory(mem)
    BY <1>1, <1>3, <1>5, ReturnFreeHuge
  <2>2. TInv'
    BY <1>1, <1>2, <2>1, UnlockTInv
  <2> QED BY <1>3, <2>1, <2>2 DEF Next
<1>6. CASE /\ mem = Entered(Merged2(Memory, b), Stage2(Memory, b).block)
           /\ desc[b].type # "HUGE"
  <2>1. FreeArena(m) /\ IsMemory(mem)
    BY <1>1, <1>3, <1>6, ReturnFreeArena
  <2>2. TInv'
    BY <1>1, <1>2, <2>1, UnlockTInv
  <2> QED BY <1>3, <2>1, <2>2 DEF Next
<1> QED BY <1>3, <1>4, <1>5, <1>6 DEF AtFreed

-----------------------------------------------------------------------------
LEMMA TInitTInv == TInit => Init /\ TInv
<1> SUFFICES ASSUME TInit PROVE Init /\ TInv
  OBVIOUS
<1>1. NoArg \in [mem : Nat, bytes : Nat]
  BY DEF NoArg, NULL
<1>2. /\ pc = [t \in Threads |-> "idle"] /\ arg = [t \in Threads |-> NoArg]
      /\ mutex = NoThread /\ mem = Memory /\ index = 0 /\ ret = NULL
  BY DEF TInit
<1>3. "idle" \in Outside /\ "idle" \notin AllocPlaces /\ "idle" \notin FreePlaces
  BY DEF Outside, AllocPlaces, FreePlaces
<1>4. Calls
  BY <1>1, <1>2, <1>3, BuddyThreadsConstants DEF Calls
<1> QED BY <1>2, <1>4, BuddyThreadsConstants DEF TInit, TInv, Released

LEMMA TNextTInv ==
  ASSUME RequestsFit, IInv(MaxChunk), TInv, [TNext]_tvars
  PROVE  TInv' /\ [Next]_vars
<1>1. ASSUME UNCHANGED tvars PROVE TInv' /\ [Next]_vars
  BY <1>1 DEF tvars, vars, locals, TInv, Calls, Released, SoFar, Memory
<1>2. ASSUME NEW t \in Threads, NEW n \in Requests, CallAlloc(t, n)
      PROVE  TInv' /\ [Next]_vars
  BY <1>2, CallAllocStep
<1>3. ASSUME NEW t \in Threads, NEW m \in live, CallFree(t, m)
      PROVE  TInv' /\ [Next]_vars
  BY <1>3, CallFreeStep
<1>4. ASSUME NEW t \in Threads, LockAlloc(t) \/ LockFree(t)
      PROVE  TInv' /\ [Next]_vars
  BY <1>4, LockAllocStep, LockFreeStep
<1>5. ASSUME NEW t \in Threads, HolderStep(t)
      PROVE  TInv' /\ [Next]_vars
  BY <1>5, SystemAllocStep, FindExistChunkStep, RefillPoolStep, ChargeStep,
     SplitStepStep, ReturnAllocStep, FreeSystemStep, MarkAsFreeStep, CreditStep,
     MergeRightStep, MergeLeftStep, InsertPoolStep, ReturnFreeStep DEF HolderStep
<1> QED BY <1>1, <1>2, <1>3, <1>4, <1>5 DEF TNext

(* Every behaviour of the threads is one of BuddyAllocator: the calls of    *)
(* Alloc and Free take effect one at a time, each as a whole                *)
(* (buddy_allocator.cc:41, 80), and the loop of FindExistChunk stops at     *)
(* the first entry that is large enough (:205-225).                         *)
THEOREM Implementation ==
  ASSUME RequestsFit
  PROVE  TSpec => ImplementsAtomic
<1>1. TInit => Init /\ IInv(MaxChunk) /\ TInv
  BY TInitTInv, MaxChunkIsOne, InitIInv
<1>2. IInv(MaxChunk) /\ TInv /\ [TNext]_tvars => IInv(MaxChunk)' /\ TInv' /\ [Next]_vars
  BY TNextTInv, NextIInv
<1> QED BY <1>1, <1>2, PTL DEF TSpec, ImplementsAtomic, Spec

(* Threads that share a BuddyAllocator get what an Allocator promises: no   *)
(* pointer is handed to two of them (buddy_allocator.cc:41, 80).            *)
THEOREM ThreadsPromiseKept ==
  ASSUME RequestsFit, AlignedConstants
  PROVE  TSpec => ImplementsHeap
<1>1. TSpec => Spec
  BY Implementation DEF ImplementsAtomic
<1>2. Spec => ImplementsHeap
  BY PromiseKept
<1> QED BY <1>1, <1>2

-----------------------------------------------------------------------------
(* Used(), read without mutex_.                                             *)

(* The clients' arena blocks are the arena blocks.                          *)
LEMMA ClientBlocks ==
  ASSUME IInv(MaxChunk)
  PROVE  /\ ArenaOf(live) = TypeIn(desc, "ARENA")
         /\ \A L \in SUBSET live : ArenaOf(L) \subseteq TypeIn(desc, "ARENA")
         /\ \A m \in live :
              /\ metadata(m.mem) \in BlocksIn(desc)
              /\ desc[metadata(m.mem)].type \in {"ARENA", "HUGE"}
              /\ ArenaOf(live \ {m}) = TypeIn(desc, "ARENA") \ {metadata(m.mem)}
<1>1. /\ \A m \in live : m.mem \in Nat
      /\ \A x : x \in InUse(desc) <=> \E m \in live : x = metadata(m.mem)
      /\ \A m, n \in live : m.mem = n.mem => m = n
  BY DEF IInv, Served
<1>2. \A x : x \in InUse(desc) <=> x \in BlocksIn(desc) /\ desc[x].type \in {"ARENA", "HUGE"}
  BY DEF InUse, BlocksIn
<1>3. \A x : x \in TypeIn(desc, "ARENA") <=> x \in InUse(desc) /\ desc[x].type = "ARENA"
  BY DEF InUse, TypeIn
<1>4. \A m, n \in live : metadata(m.mem) = metadata(n.mem) => m = n
  <2>1. \A a, b \in Nat : metadata(a) = metadata(b) => a = b
    BY BuddyConstants DEF metadata
  <2> QED BY <1>1, <2>1
<1>5. \A L \in SUBSET live : \A x : x \in ArenaOf(L) <=>
        (\E m \in L : x = metadata(m.mem)) /\ desc[x].type = "ARENA"
  BY DEF ArenaOf
<1>6. \A L \in SUBSET live : ArenaOf(L) \subseteq TypeIn(desc, "ARENA")
  BY <1>1, <1>3, <1>5
<1>7. ArenaOf(live) = TypeIn(desc, "ARENA")
  BY <1>1, <1>3, <1>5
<1>8. ASSUME NEW m \in live
      PROVE  ArenaOf(live \ {m}) = TypeIn(desc, "ARENA") \ {metadata(m.mem)}
  <2>1. \A x \in ArenaOf(live \ {m}) : x \in TypeIn(desc, "ARENA") /\ x # metadata(m.mem)
    BY <1>4, <1>5, <1>6
  <2>2. ASSUME NEW x \in TypeIn(desc, "ARENA") \ {metadata(m.mem)}
        PROVE  x \in ArenaOf(live \ {m})
    <3>1. PICK n \in live : x = metadata(n.mem)
      BY <1>1, <1>3
    <3>2. n \in live \ {m} /\ desc[x].type = "ARENA"
      BY <1>3, <3>1
    <3> QED BY <1>5, <3>1, <3>2
  <2> QED BY <2>1, <2>2
<1>9. \A m \in live : /\ metadata(m.mem) \in BlocksIn(desc)
                      /\ desc[metadata(m.mem)].type \in {"ARENA", "HUGE"}
  BY <1>1, <1>2
<1> QED BY <1>6, <1>7, <1>8, <1>9

(* What BlockSizes measures: all clients' blocks are total_used_.           *)
LEMMA BlockSizesMeasure ==
  ASSUME CInv(MaxChunk), state = "up"
  PROVE  /\ total_used \in Nat /\ BlockSizes(ArenaOf(live)) = total_used
         /\ \A L \in SUBSET live :
              BlockSizes(ArenaOf(L)) \in Nat /\ BlockSizes(ArenaOf(L)) <= total_used
         /\ \A m \in live : desc[metadata(m.mem)].type # "HUGE" =>
              /\ desc[metadata(m.mem)].total_size \in Nat
              /\ BlockSizes(ArenaOf(live \ {m})) \in Nat
              /\ BlockSizes(ArenaOf(live \ {m}))
                   = total_used - desc[metadata(m.mem)].total_size
<1> DEFINE T == TypeIn(desc, "ARENA")
           f == Sizes(desc, "ARENA")
<1>1. /\ Counted(desc) /\ total_used = Total(desc, "ARENA") /\ Total(desc, "ARENA") \in Nat
  BY MaxChunkIsOne, CInvCounted
<1>2. /\ IsNatural(f) /\ DOMAIN f = T /\ \A b \in T : f[b] = desc[b].total_size
  BY <1>1, SizesNatural DEF Counted
<1>3. SumFunction(f) = total_used
  BY <1>1 DEF Total
<1>4. \A S : BlockSizes(S) = SumFunction([b \in S |-> desc[b].total_size])
  BY DEF BlockSizes
<1>5. \A S \in SUBSET T : BlockSizes(S) = SumFunction([b \in S |-> f[b]])
  <2> TAKE S \in SUBSET T
  <2>1. [b \in S |-> desc[b].total_size] = [b \in S |-> f[b]]
    BY <1>2
  <2> QED BY <1>4, <2>1
<1>6. IInv(MaxChunk)
  BY DEF CInv
<1>7. f = [b \in T |-> f[b]]
  BY <1>2 DEF Sizes
<1> HIDE DEF f, T
<1>8. BlockSizes(T) = total_used
  BY <1>3, <1>5, <1>7
<1>9. BlockSizes(ArenaOf(live)) = total_used
  BY <1>6, <1>8, ClientBlocks DEF T
<1>10. \A S \in SUBSET T : BlockSizes(S) \in Nat /\ BlockSizes(S) <= total_used
  <2> TAKE S \in SUBSET T
  <2>1. /\ SumFunction([b \in S |-> f[b]]) \in Nat
        /\ SumFunction([b \in S |-> f[b]]) <= SumFunction(f)
    BY <1>2, SumOfPart
  <2> QED BY <1>3, <1>5, <2>1
<1>11. \A L \in SUBSET live :
         BlockSizes(ArenaOf(L)) \in Nat /\ BlockSizes(ArenaOf(L)) <= total_used
  BY <1>6, <1>10, ClientBlocks DEF T
<1>12. ASSUME NEW m \in live, desc[metadata(m.mem)].type # "HUGE"
       PROVE  /\ desc[metadata(m.mem)].total_size \in Nat
              /\ BlockSizes(ArenaOf(live \ {m})) \in Nat
              /\ BlockSizes(ArenaOf(live \ {m}))
                   = total_used - desc[metadata(m.mem)].total_size
  <2> DEFINE b == metadata(m.mem)
  <2>1. b \in BlocksIn(desc) /\ desc[b].type = "ARENA" /\ ArenaOf(live \ {m}) = T \ {b}
    BY <1>6, <1>12, ClientBlocks DEF T
  <2> HIDE DEF b
  <2>2. b \in T
    BY <2>1 DEF T, TypeIn, BlocksIn
  <2>3. IsNatural(Without(f, b)) /\ SumFunction(f) = f[b] + SumFunction(Without(f, b))
    BY <1>2, <2>2, SumWithout
  <2>4. SumFunction(Without(f, b)) \in Nat /\ f[b] \in Nat /\ f[b] = desc[b].total_size
    BY <1>2, <2>2, <2>3, SumNatural DEF IsNatural
  <2>5. [x \in T \ {b} |-> f[x]] = Without(f, b)
    BY <1>2 DEF Without
  <2>6. BlockSizes(T \ {b}) = SumFunction(Without(f, b))
    BY <1>5, <2>5
  <2>7. BlockSizes(T \ {b}) = total_used - desc[b].total_size
    BY <1>3, <2>3, <2>4, <2>6
  <2> QED BY <2>1, <2>4, <2>6, <2>7 DEF b
<1> QED BY <1>1, <1>9, <1>11, <1>12

(* A request that a free block can hold, added to total_used_, does not     *)
(* wrap: once the block is split, the arena blocks have that size.          *)
LEMMA FreeBlockFits ==
  ASSUME RequestsFit, Geometry(MaxChunk), NEW d, NEW h, Shape(d, h, MaxChunk),
         Quiet(d), Served(d, live), Counted(d), DOMAIN h \subseteq Addresses, NEW n \in Requests,
         NEW b \in FreeIn(d), d[b].total_size >= ChunkSize(n)
  PROVE  Total(d, "ARENA") + ChunkSize(n) < SizeModulus
<1> DEFINE e == SplitDesc(d, b, ChunkSize(n))
<1>1. Shape(e, h, MaxChunk)
  BY MaxChunkIsOne, SplitToAllocStep
<1>2. /\ Chunks(ChunkSize(n)) /\ ChunkSize(n) >= DescSize /\ ChunkSize(n) < SizeModulus
  BY ChunkSizeHolds, ChunkSizeMultiple, BuddyConstants DEF Chunks
<1>3. Counted(e) /\ Total(e, "ARENA") = Total(d, "ARENA") + ChunkSize(n)
  BY MaxChunkIsOne, <1>2, SplitToAllocTotals
<1> HIDE DEF e
<1>4. Total(e, "ARENA") < SizeModulus
  BY MaxChunkIsOne, <1>1, <1>3, TotalFits DEF Counted
<1> QED BY <1>3, <1>4

LEMMA ChargeFits ==
  ASSUME RequestsFit, Geometry(MaxChunk), CInv(MaxChunk), state = "up",
         NEW n \in Requests, ~IsHuge(n, MaxChunk), NEW S \in Sources(Memory), NEW e, Found(Memory, S, e, ChunkSize(n))
  PROVE  /\ ChunkSize(n) \in Nat
         /\ Wrap(total_used + ChunkSize(n)) = total_used + ChunkSize(n)
<1> DEFINE sz == ChunkSize(n)
<1>1. sz \in Nat /\ sz <= MaxChunk
  <2>1. sz \in Nat /\ MaxChunk \in Nat
    BY ChunkSizeHolds, BuddyConstants
  <2> QED BY <2>1 DEF IsHuge
<1>2. /\ Counted(desc) /\ Shape(desc, held, MaxChunk) /\ DOMAIN held \subseteq Addresses
      /\ total_used = Total(desc, "ARENA") /\ total_used \in Nat
      /\ IInv(MaxChunk) /\ Quiet(desc) /\ Served(desc, live)
  BY MaxChunkIsOne, CInvCounted DEF CInv, IInv
<1>3. ASSUME FoundExisting(Memory, S, e, sz) PROVE total_used + sz < SizeModulus
  <2>1. e \in pool /\ e[2] >= sz
    BY <1>3 DEF FoundExisting, FitsIn, Memory
  <2>2. e = Entry(desc, e[3]) /\ e[3] \in FreeIn(desc)
    BY <1>2, <2>1, PoolEntries
  <2>3. desc[e[3]].total_size >= sz
    BY <2>1, <2>2 DEF Entry
  <2> QED BY <1>2, <2>2, <2>3, FreeBlockFits
<1>4. ASSUME FoundFresh(Memory, S, e, sz) PROVE total_used + sz < SizeModulus
  <2>1. PICK p \in Addresses, i \in Indices : AvailableIn(held, p, MaxChunk)
    BY <1>4 DEF FoundFresh, Memory
  <2>2. Available(p, MaxChunk) /\ MaxChunk \in Nat /\ MaxChunk >= DescSize
    BY <2>1, BuddyConstants DEF Available, AvailableIn
  <2> DEFINE d == Save(desc, p, Desc("FREE", i, MaxChunk, NULL, NULL))
             h == Hold(held, p, MaxChunk, i)
  <2>3. /\ Shape(d, h, MaxChunk) /\ Quiet(d) /\ p \notin BlocksIn(desc)
        /\ d[p].total_size = MaxChunk /\ FreeIn(d) = FreeIn(desc) \cup {p}
        /\ InUse(d) = InUse(desc) /\ \A x \in BlocksIn(desc) : d[x] = desc[x]
    BY <1>2, <2>2, MaxChunkIsOne, ObtainStep
  <2>4. Counted(d) /\ DOMAIN h \subseteq Addresses /\ Total(d, "ARENA") = total_used
    BY MaxChunkIsOne, <1>2, <2>2, ObtainTotals
  <2> HIDE DEF d, h
  <2>5. Served(d, live)
    <3>1. \A x \in InUse(desc) : d[x].total_size = desc[x].total_size
      BY <2>3 DEF InUse, BlocksIn
    <3> QED BY <1>2, <2>3, <3>1, ServedSame
  <2>6. p \in FreeIn(d) /\ d[p].total_size >= sz
    BY <1>1, <2>2, <2>3
  <2>7. Total(d, "ARENA") + sz < SizeModulus
    BY <2>3, <2>4, <2>5, <2>6, FreeBlockFits
  <2> QED BY <1>2, <2>4, <2>7
<1>5. total_used + sz < SizeModulus
  BY <1>2, <1>3, <1>4 DEF Found
<1> HIDE DEF sz
<1> QED BY <1>1, <1>2, <1>5, WrapSame DEF sz

(* What Used() reads while a call of Alloc is on its way.                   *)
LEMMA UsedInAlloc ==
  ASSUME RequestsFit, Geometry(MaxChunk), CInv(MaxChunk), TInv, NEW t \in Threads, mutex = t,
         pc[t] \in AllocPlaces
  PROVE  /\ size(t) \in Nat
         /\ \/ Used = total_used
            \/ pc[t] \in {"split", "done"} /\ Used = total_used + size(t)
<1> DEFINE n == arg[t].bytes
           sz == ChunkSize(n)
<1>1. n \in Requests /\ SoFar(t) /\ state = "up" /\ pc[t] \notin Outside
  BY DEF TInv, Calls, SoFar
<1>2. size(t) = sz /\ sz \in Nat
  BY <1>1, ChunkSizeHolds DEF size
<1>3. AllocSoFar(pc[t], n, Memory, mem, ret, index, it)
  BY <1>1 DEF SoFar
<1> HIDE DEF n
<1>4. Memory.used = total_used
  BY DEF Memory
<1>5. \A S \in Sources(Memory) :
        S = Record(S.desc, S.pool, total_used, S.free, S.fallback, S.held, state)
  BY SourceShape DEF Record
<1>6. \A S \in Sources(Memory) : S.used = total_used /\ Charged(S, sz).used = Wrap(total_used + sz)
  <2> TAKE S \in Sources(Memory)
  <2>1. Charged(S, sz) = Record(S.desc, S.pool, Wrap(total_used + sz), Wrap(S.free - sz),
                                S.fallback, S.held, state)
    BY <1>5, ChargedRecord
  <2>2. S.used = total_used
    BY <1>5 DEF Record
  <2> QED BY <2>1, <2>2 DEF Record
<1>7. CASE pc[t] \in {"system", "find", "refill"}
  BY <1>2, <1>3, <1>4, <1>7 DEF AllocSoFar, AtSystem, AtFind, AtRefill, Used
<1>8. CASE pc[t] = "count"
  BY <1>2, <1>3, <1>6, <1>8 DEF AllocSoFar, AtCount, Used
<1>9. CASE pc[t] = "split"
  <2>1. PICK S \in Sources(Memory) : Found(Memory, S, it, sz) /\ mem = Charged(S, sz) /\ ~IsHuge(n, MaxChunk)
    BY <1>3, <1>9 DEF AllocSoFar, AtSplit
  <2>2. Wrap(total_used + sz) = total_used + sz
    BY <1>1, <2>1, ChargeFits
  <2> QED BY <1>2, <1>6, <1>9, <2>1, <2>2 DEF Used
<1>10. CASE pc[t] = "done"
  <2>1. AtDone(Memory, mem, ret, n)
    BY <1>3, <1>10 DEF AllocSoFar
  <2>2. CASE mem = Memory
    BY <1>2, <1>4, <2>2 DEF Used
  <2>3. CASE AllocatedHuge(Memory, mem, ret, n)
    <3>1. \E p \in Addresses, i \in Indices : mem = WithHuge(Memory, p, i, sz)
      BY <2>3 DEF AllocatedHuge
    <3>2. mem.used = total_used
      BY <3>1 DEF WithHuge, Memory
    <3> QED BY <1>2, <3>2 DEF Used
  <2>4. CASE AllocatedArena(Memory, mem, ret, n)
    <3>1. PICK S \in Sources(Memory) : \E e :
            Found(Memory, S, e, sz) /\ mem = WithSplit(Charged(S, sz), e, sz) /\ ~IsHuge(n, MaxChunk)
      BY <2>4 DEF AllocatedArena
    <3>2. Wrap(total_used + sz) = total_used + sz
      BY <1>1, <3>1, ChargeFits
    <3>3. mem.used = Wrap(total_used + sz)
      BY <3>1, SplitFields DEF Record
    <3> QED BY <1>2, <1>10, <3>2, <3>3 DEF Used
  <2> QED BY <2>1, <2>2, <2>3, <2>4 DEF AtDone
<1> QED BY <1>1, <1>7, <1>8, <1>9, <1>10 DEF AllocPlaces, Outside

(* What Used() reads while a call of Free is on its way.                    *)
LEMMA UsedInFree ==
  ASSUME CInv(MaxChunk), TInv, NEW t \in Threads, mutex = t, pc[t] \in FreePlaces
  PROVE  LET b == metadata(arg[t].mem) IN
         \/ Used = total_used
         \/ desc[b].type # "HUGE" /\ Used = Wrap(total_used - desc[b].total_size)
<1> DEFINE b == metadata(arg[t].mem)
           d == set_type(desc, b, "FREE")
           F == Freed(Memory, b)
           M1 == Merged1(Memory, b)
           M2 == Merged2(Memory, b)
<1>1. arg[t] \in live /\ SoFar(t) /\ pc[t] \notin Outside
  BY DEF TInv, Calls
<1>2. FreeSoFar(pc[t], b, Memory, mem, block)
  BY <1>1 DEF SoFar
<1>3. b \in BlocksIn(desc) /\ Typed(desc)
  BY <1>1 DEF CInv, IInv, Served, InUse, BlocksIn, Shape
<1>4. Memory.used = total_used /\ Memory.desc = desc
  BY DEF Memory
<1> HIDE DEF b, d
<1>5. d[b].total_size = desc[b].total_size
  BY <1>3, RetypeResult DEF Retyped, d
<1>6. IsMemory(F) /\ F.used = Wrap(total_used - desc[b].total_size)
  BY <1>5, MarkedFields, CreditedFields DEF Freed, d
<1> HIDE DEF F
<1>7. IsMemory(M1) /\ M1.used = F.used
  BY <1>6, JoinedFields DEF Merged1, F
<1> HIDE DEF M1
<1>8. IsMemory(M2) /\ M2.used = M1.used
  BY <1>7, JoinedFields DEF Merged2, M1
<1> HIDE DEF M2
<1>9. CASE pc[t] \in {"return", "mark"}
  BY <1>2, <1>4, <1>9 DEF FreeSoFar, AtReturn, AtMark, Used, b
<1>10. CASE pc[t] = "credit"
  BY <1>2, <1>10, MarkedFields DEF FreeSoFar, AtCredit, Used, b
<1>11. CASE pc[t] = "right"
  BY <1>2, <1>4, <1>6, <1>11 DEF FreeSoFar, AtRight, Used, b, F
<1>12. CASE pc[t] = "left"
  BY <1>2, <1>4, <1>6, <1>7, <1>12 DEF FreeSoFar, AtLeft, Used, b, M1
<1>13. CASE pc[t] = "insert"
  BY <1>2, <1>4, <1>6, <1>7, <1>8, <1>13 DEF FreeSoFar, AtInsert, Used, b, M2
<1>14. CASE pc[t] = "freed"
  <2>1. AtFreed(Memory, mem, b)
    BY <1>2, <1>14 DEF FreeSoFar
  <2>2. CASE mem = Returned(Memory, b)
    BY <2>2, ReturnedFields DEF Used
  <2>3. CASE mem = Entered(M2, Stage2(Memory, b).block) /\ desc[b].type # "HUGE"
    <3>1. mem.used = M2.used
      BY <1>8, <2>3, EnteredFields
    <3> QED BY <1>6, <1>7, <1>8, <2>3, <3>1 DEF Used, b
  <2> QED BY <1>4, <2>1, <2>2, <2>3 DEF AtFreed, M2
<1> QED BY <1>1, <1>9, <1>10, <1>11, <1>12, <1>13, <1>14 DEF FreePlaces, Outside

(* No thread destroys the allocator.                                        *)
Alive == state # "destroyed" /\ "state" \in DOMAIN mem /\ mem.state # "destroyed"

LEMMA StaysAlive ==
  ASSUME Alive, [TNext]_tvars
  PROVE  Alive'
<1>1. ASSUME UNCHANGED <<vars, mem>> PROVE Alive'
  BY <1>1 DEF Alive, vars
<1>2. ASSUME NEW t \in Threads, NEW L, Unlock(t, L) PROVE Alive'
  BY <1>2 DEF Alive, Unlock
<1>3. ASSUME UNCHANGED vars, "state" \in DOMAIN mem', mem'.state # "destroyed" PROVE Alive'
  BY <1>3 DEF Alive, vars
<1>4. ASSUME NEW t \in Threads, SystemAlloc(t) \/ RefillPool(t) PROVE Alive'
  <2>1. UNCHANGED vars /\ "state" \in DOMAIN mem' /\ mem'.state = mem.state
    BY <1>4 DEF SystemAlloc, RefillPool, Inside, Alive
  <2> QED BY <1>3, <2>1 DEF Alive
<1>5. ASSUME NEW t \in Threads, FindExistChunkRound(t) PROVE Alive'
  BY <1>1, <1>5 DEF FindExistChunkRound, Inside
<1>6. ASSUME NEW t \in Threads, Charge(t) \/ Credit(t) \/ InsertPool(t)
      PROVE  Alive'
  <2>1. UNCHANGED vars /\ "state" \in DOMAIN mem' /\ mem'.state = mem.state
    BY <1>6 DEF Charge, Credit, InsertPool, Inside, Alive
  <2> QED BY <1>3, <2>1 DEF Alive
<1>7. ASSUME NEW t \in Threads, MergeRight(t) \/ MergeLeft(t) PROVE Alive'
  <2>1. PICK d, p, v : /\ mem' = [mem EXCEPT !.desc = d, !.pool = p, !.state = v]
                       /\ v \in {mem.state, "aborted"}
    BY <1>7 DEF MergeRight, MergeLeft, Merge
  <2>2. UNCHANGED vars
    BY <1>7 DEF MergeRight, MergeLeft, Merge, Inside
  <2>3. "state" \in DOMAIN mem' /\ mem'.state \in {mem.state, "aborted"}
    BY <2>1 DEF Alive
  <2> QED BY <1>3, <2>2, <2>3 DEF Alive
<1>7a. ASSUME NEW t \in Threads, SplitStep(t) PROVE Alive'
  <2>1. PICK d, p, v : /\ mem' = [mem EXCEPT !.state = v, !.desc = d, !.pool = p]
                       /\ v \in {mem.state, "aborted"}
    BY <1>7a DEF SplitStep
  <2>2. UNCHANGED vars
    BY <1>7a DEF SplitStep, Inside
  <2>3. "state" \in DOMAIN mem' /\ mem'.state \in {mem.state, "aborted"}
    BY <2>1 DEF Alive
  <2> QED BY <1>3, <2>2, <2>3 DEF Alive
<1>8. ASSUME NEW t \in Threads, FreeSystem(t) PROVE Alive'
  <2>1. UNCHANGED vars /\ "state" \in DOMAIN mem' /\ mem'.state \in {mem.state, "misfreed"}
    BY <1>8 DEF FreeSystem, Inside, Alive
  <2> QED BY <1>3, <2>1 DEF Alive
<1>9. ASSUME NEW t \in Threads, MarkAsFree(t) PROVE Alive'
  <2>1. UNCHANGED vars /\ "state" \in DOMAIN mem' /\ mem'.state \in {mem.state, "aborted"}
    BY <1>9 DEF MarkAsFree, Inside, Alive
  <2> QED BY <1>3, <2>1 DEF Alive
<1>10. ASSUME NEW t \in Threads, ReturnAlloc(t) \/ ReturnFree(t) PROVE Alive'
  BY <1>2, <1>10 DEF ReturnAlloc, ReturnFree
<1>11. ASSUME NEW t \in Threads,
              \/ \E bytes \in Requests : CallAlloc(t, bytes)
              \/ \E m \in live : CallFree(t, m)
              \/ LockAlloc(t) \/ LockFree(t)
       PROVE  Alive'
  BY <1>1, <1>11 DEF CallAlloc, CallFree, LockAlloc, LockFree
<1>12. ASSUME NEW t \in Threads, HolderStep(t) PROVE Alive'
  BY <1>4, <1>5, <1>6, <1>7, <1>7a, <1>8, <1>9, <1>10, <1>12 DEF HolderStep
<1> QED BY <1>1, <1>11, <1>12 DEF TNext, tvars

LEMMA UsedCovers ==
  ASSUME RequestsFit, Geometry(MaxChunk), CInv(MaxChunk), TInv, Alive
  PROVE  UsedCoversArena
<1> DEFINE leaving == IF mutex = NoThread THEN {} ELSE {arg[mutex]}
           coming  == IF mutex # NoThread /\ pc[mutex] \in {"split", "done"}
                      THEN size(mutex) ELSE 0
           all  == BlockSizes(ArenaOf(live))
           most == BlockSizes(ArenaOf(live \ leaving))
<1>1. state = "up"
  BY DEF CInv, IInv, Alive
<1>2. total_used \in Nat /\ all = total_used /\ most \in Nat /\ most <= total_used
  <2>1. live \ leaving \in SUBSET live
    OBVIOUS
  <2> QED BY <1>1, <2>1, BlockSizesMeasure
<1>3. CASE mutex = NoThread
  <2>1. Used = total_used
    BY <1>3 DEF TInv, Released, Memory, Used
  <2>2. coming = 0
    BY <1>3
  <2> HIDE DEF all, most, coming
  <2>3. most <= Used /\ Used <= all + coming
    BY <1>2, <2>1, <2>2
  <2> QED BY <2>3 DEF UsedCoversArena, all, most, coming
<1>4. ASSUME NEW t \in Threads, mutex = t PROVE UsedCoversArena
  <2>1. /\ t # NoThread /\ leaving = {arg[t]}
        /\ coming = IF pc[t] \in {"split", "done"} THEN size(t) ELSE 0
    BY <1>4, BuddyThreadsConstants
  <2>2. pc[t] \in AllocPlaces \/ pc[t] \in FreePlaces
    BY <1>4 DEF TInv, Calls, Outside
  <2>3. CASE pc[t] \in AllocPlaces
    <3>1. /\ size(t) \in Nat
          /\ \/ Used = total_used
             \/ pc[t] \in {"split", "done"} /\ Used = total_used + size(t)
      BY <1>4, <2>3, UsedInAlloc
    <3> HIDE DEF all, most, coming
    <3>2. most <= Used /\ Used <= all + coming
      BY <1>2, <2>1, <3>1
    <3> QED BY <3>2 DEF UsedCoversArena, all, most, coming
  <2>4. CASE pc[t] \in FreePlaces
    <3> DEFINE b == metadata(arg[t].mem)
    <3>1. Used = total_used \/ (desc[b].type # "HUGE" /\ Used = Wrap(total_used - desc[b].total_size))
      BY <1>4, <2>4, UsedInFree
    <3>2. arg[t] \in live
      BY <2>4 DEF TInv, Calls
    <3>3. desc[b].type # "HUGE" =>
            /\ desc[b].total_size \in Nat /\ most \in Nat
            /\ most = total_used - desc[b].total_size
      BY <1>1, <2>1, <3>2, BlockSizesMeasure
    <3>4. total_used < SizeModulus
      BY BuddyConstants DEF CInv, IInv
    <3>5. coming = 0
      BY <2>1, <2>4 DEF FreePlaces
    <3> HIDE DEF all, most, coming, b
    <3>6. CASE Used = total_used
      <4>1. most <= Used /\ Used <= all + coming
        BY <1>2, <3>5, <3>6
      <4> QED BY <4>1 DEF UsedCoversArena, all, most, coming
    <3>7. CASE desc[b].type # "HUGE" /\ Used = Wrap(total_used - desc[b].total_size)
      <4>1. total_used - desc[b].total_size \in Nat
            /\ total_used - desc[b].total_size < SizeModulus
        BY <1>2, <3>3, <3>4, <3>7, BuddyConstants
      <4>2. Used = total_used - desc[b].total_size
        BY <3>7, <4>1, WrapSame
      <4>3. most <= Used /\ Used <= all + coming
        BY <1>2, <3>3, <3>5, <3>7, <4>2
      <4> QED BY <4>3 DEF UsedCoversArena, all, most, coming
    <3> QED BY <3>1, <3>6, <3>7
  <2> QED BY <2>2, <2>3, <2>4
<1> QED BY <1>3, <1>4 DEF TInv, Calls

(* Used() may be called at any moment, by a thread that does not hold       *)
(* mutex_: of the arena blocks in use it misses none but that of the Free   *)
(* on its way, and it counts no more than them and the request of the Alloc *)
(* on its way (buddy_allocator.cc:68, 97, 152).  Nothing is said of huge    *)
(* blocks, which are in no counter (:47-49, 84-92).                         *)
THEOREM UsedCoversArenaCorrect ==
  ASSUME RequestsFit, Geometry(MaxChunk)
  PROVE  TSpec => []UsedCoversArena
<1>1. TInit => CInv(MaxChunk) /\ TInv /\ Alive
  <2>1. TInit => Init /\ TInv
    BY TInitTInv
  <2>2. TInit => Alive
    BY DEF TInit, Init, Alive, Memory
  <2> QED BY MaxChunkIsOne, <2>1, <2>2, InitCInv
<1>2. CInv(MaxChunk) /\ TInv /\ Alive /\ [TNext]_tvars => CInv(MaxChunk)' /\ TInv' /\ Alive'
  <2> SUFFICES ASSUME CInv(MaxChunk), TInv, Alive, [TNext]_tvars PROVE CInv(MaxChunk)' /\ TInv' /\ Alive'
    OBVIOUS
  <2>1. TInv' /\ [Next]_vars
    BY TNextTInv DEF CInv
  <2> QED BY <2>1, NextCInv, StaysAlive
<1>3. CInv(MaxChunk) /\ TInv /\ Alive => UsedCoversArena
  BY UsedCovers
<1> QED BY <1>1, <1>2, <1>3, PTL DEF TSpec

-----------------------------------------------------------------------------
(* The search of the pool.                                                  *)

(* The block of a refill is the only one that is large enough.              *)
LEMMA RefilledAlone ==
  ASSUME RequestsFit, IInv(MaxChunk), NEW n \in Requests, ~IsHuge(n, MaxChunk), NEW M, NEW e,
         FoundFresh(Memory, M, e, ChunkSize(n))
  PROVE  e \in FitsIn(M, ChunkSize(n)) /\ \A f \in FitsIn(M, ChunkSize(n)) : Precedes(e, f)
<1> DEFINE sz == ChunkSize(n)
<1>1. PICK p \in Addresses, i \in Indices :
        M = RefilledIn(Memory, p, i) /\ e = Entry(FreshIn(Memory, p, i), p)
  BY DEF FoundFresh
<1>2. e = <<i, MaxChunk, p>>
  BY <1>1 DEF FreshIn, Save, Desc, Entry
<1>3. sz \in Nat /\ sz <= MaxChunk /\ i \in Nat /\ p \in Nat /\ MaxChunk \in Nat
  BY ChunkSizeHolds, BuddyConstants DEF IsHuge
<1>4. M.pool = Memory.pool \cup {e}
  BY <1>1 DEF RefilledIn, Memory
<1> HIDE DEF sz
<1>5. FitsIn(M, sz) = {e}
  <2>1. FitsIn(Memory, sz) = {}
    BY DEF FoundFresh, sz
  <2>2. e[2] >= sz
    BY <1>2, <1>3
  <2> QED BY <1>4, <2>1, <2>2 DEF FitsIn
<1>6. Precedes(e, e)
  BY <1>2, <1>3 DEF Precedes
<1> QED BY <1>5, <1>6 DEF sz

LEMMA SearchIsFirst ==
  ASSUME RequestsFit, IInv(MaxChunk), TInv
  PROVE  SearchFindsFirst
<1> SUFFICES ASSUME mutex # NoThread
             PROVE  /\ pc[mutex] = "find"   => \A e \in Enough : e[1] >= index
                    /\ pc[mutex] = "count"  => it \in Enough /\ \A e \in Enough : Precedes(it, e)
                    /\ pc[mutex] = "refill" => Enough = {}
  BY DEF SearchFindsFirst
<1> DEFINE n == arg[mutex].bytes
           sz == ChunkSize(n)
<1>1. mutex \in Threads /\ Calls /\ SoFar(mutex)
  BY DEF TInv, Calls
<1>2. Enough = FitsIn(mem, sz)
  BY DEF Enough, FitsIn, size
<1>3. {"find", "count", "refill"} \subseteq AllocPlaces
  BY DEF AllocPlaces
<1>4. pc[mutex] \in AllocPlaces =>
        n \in Requests /\ AllocSoFar(pc[mutex], n, Memory, mem, ret, index, it)
  BY <1>1 DEF Calls, SoFar
<1> HIDE DEF n
<1>5. CASE pc[mutex] = "find"
  <2>1. AtFind(Memory, mem, ret, n, index)
    BY <1>3, <1>4, <1>5 DEF AllocSoFar
  <2> QED BY <1>2, <1>5, <2>1 DEF AtFind
<1>6. CASE pc[mutex] = "refill"
  <2>1. AtRefill(Memory, mem, ret, n)
    BY <1>3, <1>4, <1>6 DEF AllocSoFar
  <2> QED BY <1>2, <1>6, <2>1 DEF AtRefill
<1>7. CASE pc[mutex] = "count"
  <2>1. AtCount(Memory, mem, n, it) /\ n \in Requests
    BY <1>3, <1>4, <1>7 DEF AllocSoFar
  <2>2. it \in FitsIn(mem, sz) /\ \A f \in FitsIn(mem, sz) : Precedes(it, f)
    <3>1. CASE FoundExisting(Memory, mem, it, sz)
      BY <3>1 DEF FoundExisting
    <3>2. CASE FoundFresh(Memory, mem, it, sz)
      BY <2>1, <3>2, RefilledAlone DEF AtCount
    <3> QED BY <2>1, <3>1, <3>2 DEF AtCount, Found
  <2> QED BY <1>2, <1>7, <2>2
<1> QED BY <1>5, <1>6, <1>7

(* However many rounds the loop of FindExistChunk makes, it never passes an *)
(* entry that is large enough: it ends at the first of them in the order of *)
(* the pool, and the pool is refilled only when there is none               *)
(* (buddy_allocator.cc:205-225).                                            *)
THEOREM SearchFindsFirstCorrect ==
  ASSUME RequestsFit
  PROVE  TSpec => []SearchFindsFirst
<1>1. TInit => IInv(MaxChunk) /\ TInv
  BY TInitTInv, MaxChunkIsOne, InitIInv
<1>2. IInv(MaxChunk) /\ TInv /\ [TNext]_tvars => IInv(MaxChunk)' /\ TInv'
  BY TNextTInv, NextIInv
<1>3. IInv(MaxChunk) /\ TInv => SearchFindsFirst
  BY SearchIsFirst
<1> QED BY <1>1, <1>2, <1>3, PTL DEF TSpec
=============================================================================
