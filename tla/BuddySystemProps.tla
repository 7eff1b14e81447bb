-------------------------- MODULE BuddySystemProps --------------------------
(***************************************************************************)
(* What BuddyAllocator and its SystemAllocator keep true together.         *)
(***************************************************************************)
EXTENDS BuddySystem, FiniteSetsExt

AllHeld     == DOMAIN held
HeldSize(S) == SumFunction([h \in S |-> held[h].size])

(* Blocks that start a huge piece; all other pieces are segments.           *)
Huge     == {h \in AllHeld \cap DOMAIN desc : desc[h].type = "HUGE"}
Segments == AllHeld \ Huge

(* What the system allocator counts is what it gave and did not get back,   *)
(* pinned memory never exceeds its limit, and no assertion of Free fails    *)
(* (system_allocator.cc:125, 141, 171-187, 199-202).                        *)
AccountingExact ==
  /\ state \in {"up", "destroyed", "oom", "outgrown"}
  /\ Counts(system_allocator) => given = HeldSize(AllHeld)
  /\ system_allocator = "pinned" => given <= PinnedLimit

(* Every segment has the present maximum size, though that size is computed *)
(* anew (buddy_allocator.cc:173-176): the destructor gives segments back    *)
(* under max_chunk_size_ (24).                                              *)
SegmentsWhole == state = "up" => \A h \in Segments : held[h].size = max_chunk

(* The destructor leaves nothing of the system's memory behind, though the  *)
(* maximum size changed while huge blocks were held, and the system         *)
(* allocator counts nothing (buddy_allocator.cc:19-28).                     *)
NothingKept == state = "destroyed" => AllHeld = {} /\ given = 0

(* Over every system allocator, at every maximum size, and with the         *)
(* descriptors a GPU keeps of absorbed blocks (meta_cache.cc:25-35, 39-49), *)
(* clients get the promise of an Allocator.                                 *)
SystemAlignment == 32
Promise == INSTANCE Heap WITH Alignment <- SystemAlignment
ImplementsHeap == Promise!Spec
=============================================================================
