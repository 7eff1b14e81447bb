-------------------------------- MODULE Heap --------------------------------
(***************************************************************************)
(* What an Allocator (src/cpp/allocator.h) promises its clients: Alloc     *)
(* returns aligned memory that no live allocation uses, an allocation      *)
(* stays where it is until it is handed back, and only Free ends it.       *)
(***************************************************************************)
EXTENDS Integers

CONSTANTS
  Requests,    \* sizes clients ask for
  Alignment    \* every pointer returned is a multiple of it

VARIABLE
  live         \* allocations held: [mem |-> pointer, bytes |-> size asked for]

Disjoint(r, s) ==
  /\ r.mem # s.mem
  /\ r.mem + r.bytes <= s.mem \/ s.mem + s.bytes <= r.mem

Init == live = {}

(* The new allocation is picked in live', which only a step that adds one   *)
(* can satisfy: where it is placed is left to the implementation.           *)
Alloc == \E r \in live' :
  /\ r \notin live
  /\ live' = live \cup {r}
  /\ r.bytes \in Requests
  /\ r.mem % Alignment = 0
  /\ \A s \in live : Disjoint(r, s)

Free == \E r \in live : live' = live \ {r}

Next == Alloc \/ Free

Spec == Init /\ [][Next]_live
=============================================================================
