------------------------- MODULE BuddyThreadsProps --------------------------
(***************************************************************************)
(* What threads may rely on when they share a BuddyAllocator.              *)
(***************************************************************************)
EXTENDS BuddyThreads, FiniteSetsExt

(* Every call takes effect at once, as BuddyAllocator's actions say, for    *)
(* all other threads (buddy_allocator.cc:41, 80): in particular the loop of *)
(* FindExistChunk stops at the first entry of the pool that is large enough *)
(* and the pool is refilled only if there is none (:205-225).               *)
ImplementsAtomic == Spec

(* The search of the pool skips no entry that is large enough, whatever     *)
(* index it has come to: it ends at the first one in the order of the pool, *)
(* or at a refill when there is none (buddy_allocator.cc:205-225).          *)
Enough == {e \in mem.pool : e[2] >= size(mutex)}

SearchFindsFirst ==
  mutex # NoThread =>
    /\ pc[mutex] = "find"   => \A e \in Enough : e[1] >= index
    /\ pc[mutex] = "count"  => it \in Enough /\ \A e \in Enough : Precedes(it, e)
    /\ pc[mutex] = "refill" => Enough = {}

ArenaOf(M)    == {b \in {metadata(m.mem) : m \in M} : desc[b].type = "ARENA"}
BlockSizes(S) == SumFunction([b \in S |-> desc[b].total_size])

(* Whatever step a call is at, Used() covers the arena blocks that clients  *)
(* hold but the one being freed, and exceeds the arena blocks by no more    *)
(* than the request being served (buddy_allocator.cc:68, 97, 152).  Huge    *)
(* blocks are in no counter (:47-49, 84-92): Used() leaves them out.        *)
UsedCoversArena ==
  LET leaving == IF mutex = NoThread THEN {} ELSE {arg[mutex]}
      coming  == IF mutex # NoThread /\ pc[mutex] \in {"split", "done"}
                 THEN size(mutex) ELSE 0
  IN /\ BlockSizes(ArenaOf(live \ leaving)) <= Used
     /\ Used <= BlockSizes(ArenaOf(live)) + coming

(* A call that has mutex_ returns: the search of the pool ends, and every   *)
(* path releases the lock (buddy_allocator.cc:208-224, 41, 80).             *)
CallsReturn == \A t \in Threads : mutex = t ~> mutex # t
=============================================================================
