---------------------------- MODULE BuddyThreads ----------------------------
(***************************************************************************)
(* BuddyAllocator with the threads that call it (buddy_allocator.cc), one  *)
(* step for each piece of work done under mutex_.                          *)
(*                                                                         *)
(* mem is the memory the calls work on.  The variables of BuddyAllocator   *)
(* are a history of it: what it was when mutex_ was last released, with    *)
(* the clients' pointers.  They change when a call returns, and that they  *)
(* do so as BuddyAllocator says is the question.                           *)
(***************************************************************************)
EXTENDS BuddyAllocator

CONSTANTS
  Threads,
  NoThread     \* mutex_ is not held

ASSUME BuddyThreadsConstants == NoThread \notin Threads

VARIABLES
  mem,      \* the members of the allocator, its descriptors, system memory
  mutex,    \* mutex_
  pc,       \* where each thread is
  arg,      \* argument of each thread's call: of Alloc the bytes alone
  index,    \* locals of the call that holds mutex_: index of FindExistChunk,
  it,       \* the entry it found,
  block,    \* the block of Free,
  ret       \* the pointer that Alloc returns

locals == <<index, it, block, ret>>
tvars  == <<vars, mem, mutex, pc, arg, locals>>

Memory ==
  [desc |-> desc, pool |-> pool, used |-> total_used, free |-> total_free,
   fallback |-> fallback, held |-> held, state |-> state]

NoEntry == <<0, 0, NULL>>
NoArg   == [mem |-> NULL, bytes |-> 0]
Pointer(bytes) == [mem |-> NULL, bytes |-> bytes]

size(t) == ChunkSize(arg[t].bytes)

Goto(t, from, to) == mutex = t /\ pc[t] = from /\ pc' = [pc EXCEPT ![t] = to]

(* A step of the call that holds mutex_: it is seen by nobody else but      *)
(* those who do not ask for mutex_.                                         *)
Inside == UNCHANGED <<vars, mutex, arg>>

-----------------------------------------------------------------------------
(* Calls, mutex_.                                                           *)

CallAlloc(t, bytes) ==
  /\ pc[t] = "idle" /\ state = "up"
  /\ pc' = [pc EXCEPT ![t] = "alloc"]
  /\ arg' = [arg EXCEPT ![t] = Pointer(bytes)]
  /\ UNCHANGED <<vars, mem, mutex, locals>>

Freeing(m) == \E t \in Threads : arg[t] = m

CallFree(t, m) ==
  /\ pc[t] = "idle" /\ state = "up" /\ ~Freeing(m)
  /\ pc' = [pc EXCEPT ![t] = "free"]
  /\ arg' = [arg EXCEPT ![t] = m]
  /\ UNCHANGED <<vars, mem, mutex, locals>>

(* Mutant of Acquire: mutex_ is not waited for.                             *)
Acquire_NoWait(t) == mutex' = t

Acquire(t) == mutex = NoThread /\ mutex' = t

LockAlloc(t) ==
  /\ pc[t] = "alloc" /\ state = "up" /\ Acquire(t)
  /\ pc' = [pc EXCEPT ![t] = IF size(t) > MaxChunk THEN "system" ELSE "find"]
  /\ UNCHANGED <<vars, mem, arg, locals>>

LockFree(t) ==
  /\ pc[t] = "free" /\ state = "up" /\ Acquire(t)
  /\ block' = metadata(arg[t].mem)
  /\ pc' = [pc EXCEPT ![t] = IF mem.desc[block'].type = "HUGE" THEN "return" ELSE "mark"]
  /\ UNCHANGED <<vars, mem, arg, index, it, ret>>

(* The call returns: the lock_guard releases mutex_.                        *)
Unlock(t, after) ==
  /\ mutex = t /\ mutex' = NoThread
  /\ pc' = [pc EXCEPT ![t] = "idle"]
  /\ arg' = [arg EXCEPT ![t] = NoArg]
  /\ index' = 0 /\ it' = NoEntry /\ block' = NULL /\ ret' = NULL
  /\ live' = after
  /\ desc' = mem.desc /\ pool' = mem.pool
  /\ total_used' = mem.used /\ total_free' = mem.free /\ fallback' = mem.fallback
  /\ held' = mem.held /\ state' = mem.state
  /\ UNCHANGED mem

ReturnAlloc(t) ==
  /\ pc[t] = "done"
  /\ Unlock(t, IF ret = NULL THEN live
               ELSE live \cup {[mem |-> ret, bytes |-> arg[t].bytes]})

ReturnFree(t) == pc[t] = "freed" /\ Unlock(t, live \ {arg[t]})

-----------------------------------------------------------------------------
(* Alloc.                                                                   *)

AvailableIn(h, p, sz) ==
  /\ p \in Addresses
  /\ \A q \in DOMAIN h : Apart(p, sz, q, h[q].size)

SystemAlloc(t) ==
  /\ Goto(t, "system", "done")
  /\ \/ \E p \in Addresses, i \in Indices :
          /\ AvailableIn(mem.held, p, size(t))
          /\ mem' = [mem EXCEPT
               !.held = Hold(@, p, size(t), i),
               !.desc = Save(@, p, Desc("HUGE", i, size(t), NULL, NULL))]
          /\ ret' = data(p)
     \/ UNCHANGED <<mem, ret>>
  /\ Inside /\ UNCHANGED <<index, it, block>>

(* pool_.lower_bound(IndexSizeAddress(index, size, nullptr))                *)
NotBelow(key) == {e \in mem.pool : Precedes(key, e)}
LowerBound(key, e) == e \in NotBelow(key) /\ \A f \in NotBelow(key) : Precedes(e, f)

(* Mutants of SearchNext: index is not updated; it is moved past the entry. *)
SearchNext_Same(t, e) ==
  /\ Goto(t, "find", "find")
  /\ e[1] > index /\ e[2] < size(t)
  /\ UNCHANGED <<index, it>>

SearchNext_Past(t, e) ==
  /\ Goto(t, "find", "find")
  /\ e[1] > index /\ e[2] < size(t)
  /\ index' = e[1] + 1 /\ UNCHANGED it

(* An entry of a later index that is too small: the search goes on there.   *)
SearchNext(t, e) ==
  /\ Goto(t, "find", "find")
  /\ e[1] > index /\ e[2] < size(t)
  /\ index' = e[1] /\ UNCHANGED it

SearchEnds(t, e) ==
  /\ Goto(t, "find", "count")
  /\ e[1] > index => e[2] >= size(t)
  /\ it' = e /\ UNCHANGED index

(* One round of the loop of FindExistChunk.                                 *)
FindExistChunkRound(t) ==
  LET key == <<index, size(t), NULL>> IN
  /\ \/ \E e \in mem.pool : LowerBound(key, e) /\ (SearchNext(t, e) \/ SearchEnds(t, e))
     \/ NotBelow(key) = {} /\ Goto(t, "find", "refill") /\ UNCHANGED <<index, it>>
  /\ Inside /\ UNCHANGED <<mem, block, ret>>

RefillPool(t) ==
  /\ \/ /\ Goto(t, "refill", "count")
        /\ \E p \in Addresses, i \in Indices :
             LET fresh == Save(mem.desc, p, Desc("FREE", i, MaxChunk, NULL, NULL)) IN
             /\ AvailableIn(mem.held, p, MaxChunk)
             /\ it' = Entry(fresh, p)
             /\ mem' = [mem EXCEPT
                  !.held = Hold(@, p, MaxChunk, i),
                  !.desc = fresh,
                  !.fallback = IF UseGpu /\ i = 1 THEN @ + 1 ELSE @,
                  !.free = Wrap(@ + MaxChunk),
                  !.pool = @ \cup {it'}]
     \/ Goto(t, "refill", "done") /\ UNCHANGED <<mem, it>>
  /\ Inside /\ UNCHANGED <<index, block, ret>>

Charge(t) ==
  /\ Goto(t, "count", "split")
  /\ mem' = [mem EXCEPT !.used = Wrap(@ + size(t)), !.free = Wrap(@ - size(t))]
  /\ Inside /\ UNCHANGED locals

SplitStep(t) ==
  LET b == it[3]
      after == SplitDesc(mem.desc, b, size(t))
  IN /\ Goto(t, "split", "done")
     /\ mem' = [mem EXCEPT !.state = IF split_asserts(mem.desc, b, size(t)) THEN @ ELSE "aborted",
                           !.desc = after,
                           !.pool = (@ \ {it}) \cup RemainderEntry(after, b)]
     /\ ret' = data(b)
     /\ Inside /\ UNCHANGED <<index, it, block>>

-----------------------------------------------------------------------------
(* Free.                                                                    *)

FreeSystem(t) ==
  LET d == mem.desc[block] IN
  /\ Goto(t, "return", "freed")
  /\ mem' = IF Returnable(mem.held, block, d.total_size, d.index)
            THEN [mem EXCEPT !.held = Drop(@, block), !.desc = Drop(@, block)]
            ELSE [mem EXCEPT !.state = "misfreed", !.desc = Drop(@, block)]
  /\ Inside /\ UNCHANGED locals

MarkAsFree(t) ==
  /\ Goto(t, "mark", "credit")
  /\ mem' = [mem EXCEPT
       !.state = IF mark_asserts(mem.desc, block) THEN @ ELSE "aborted",
       !.desc = set_type(@, block, "FREE")]
  /\ Inside /\ UNCHANGED locals

Now == Stage(mem.desc, mem.pool, block, TRUE)

(* Mutant of Credit: the block is merged with its right buddy by then.      *)
Credit_Merged(t) ==
  LET sz == JoinRight(Now).desc[block].total_size IN
  /\ Goto(t, "credit", "right")
  /\ mem' = [mem EXCEPT !.used = Wrap(@ - sz), !.free = Wrap(@ + sz)]
  /\ Inside /\ UNCHANGED locals

Credit(t) ==
  LET sz == mem.desc[block].total_size IN
  /\ Goto(t, "credit", "right")
  /\ mem' = [mem EXCEPT !.used = Wrap(@ - sz), !.free = Wrap(@ + sz)]
  /\ Inside /\ UNCHANGED locals

Merge(t, from, to, stage) ==
  /\ Goto(t, from, to)
  /\ mem' = [mem EXCEPT !.desc = stage.desc, !.pool = stage.pool,
                        !.state = IF stage.ok THEN @ ELSE "aborted"]
  /\ block' = stage.block
  /\ Inside /\ UNCHANGED <<index, it, ret>>

MergeRight(t) == Merge(t, "right", "left", JoinRight(Now))
MergeLeft(t)  == Merge(t, "left", "insert", JoinLeft(Now))

InsertPool(t) ==
  /\ Goto(t, "insert", "freed")
  /\ mem' = [mem EXCEPT !.pool = @ \cup {Entry(mem.desc, block)}]
  /\ Inside /\ UNCHANGED locals

-----------------------------------------------------------------------------
(* Used() reads total_used_ without mutex_, in any state.                   *)
Used == mem.used

TInit ==
  /\ Init /\ mem = Memory /\ mutex = NoThread
  /\ pc = [t \in Threads |-> "idle"] /\ arg = [t \in Threads |-> NoArg]
  /\ index = 0 /\ it = NoEntry /\ block = NULL /\ ret = NULL

(* What the thread that holds mutex_ does next.                             *)
HolderStep(t) ==
  \/ SystemAlloc(t) \/ FindExistChunkRound(t) \/ RefillPool(t)
  \/ Charge(t) \/ SplitStep(t) \/ ReturnAlloc(t)
  \/ FreeSystem(t) \/ MarkAsFree(t) \/ Credit(t)
  \/ MergeRight(t) \/ MergeLeft(t) \/ InsertPool(t) \/ ReturnFree(t)

TNext == \E t \in Threads :
  \/ \E bytes \in Requests : CallAlloc(t, bytes)
  \/ \E m \in live : CallFree(t, m)
  \/ LockAlloc(t) \/ LockFree(t)
  \/ HolderStep(t)

TSpec == TInit /\ [][TNext]_tvars

(* The thread that holds mutex_ is scheduled, and the system allocator      *)
(* answers.  std::mutex is not fair: a thread may wait for ever.            *)
Fairness == \A t \in Threads : WF_tvars(HolderStep(t))

FairTSpec == TSpec /\ Fairness
=============================================================================
