------------------------------- MODULE RWLock -------------------------------
(***************************************************************************)
(* RWLock with its guards AutoRDLock and AutoWRLock (rw_lock/rw_lock.h).   *)
(*                                                                         *)
(* A thread runs nested scopes, each opened by the construction of a guard *)
(* and closed by its destruction.  The pthread_rwlock_t inside is external *)
(* and modelled as glibc has it: a lock that the caller holds for writing  *)
(* is refused (EDEADLK), a writer waits for everyone, a reader for writers *)
(* that hold the lock only, and unlocking never reports an error.          *)
(***************************************************************************)
EXTENDS Naturals, Sequences

CONSTANTS
  Threads,
  NoThread,   \* no thread holds the lock for writing
  Depth,      \* scopes with a guard that a thread nests (bound)
  Values,     \* contents of what the lock protects
  None

Kinds == {"read", "write"}

ASSUME RWLockConstants ==
  /\ NoThread \notin Threads
  /\ Depth \in Nat
  /\ None \notin Values \cup Kinds

VARIABLES
  writer,    \* lock_: who holds it for writing
  readers,   \* lock_: how many read locks each thread holds
  guards,    \* the guards alive on the stack of each thread, innermost last
  wants,     \* the guard whose constructor waits in Lock(), or None
  throws,    \* an RWLockException is on its way through the thread's scopes
  data,      \* what the lock protects
  seen       \* what a thread has read of data in its open scopes, or None

vars == <<writer, readers, guards, wants, throws, data, seen>>

Runs(t) == wants[t] = None

-----------------------------------------------------------------------------
(* pthread_rwlock_t.                                                        *)

RefusesLock(t) == writer = t

GrantsRead(t)  == writer = NoThread
GrantsWrite(t) == writer = NoThread /\ \A u \in Threads : readers[u] = 0

pthread_rdlock(t) == readers' = [readers EXCEPT ![t] = @ + 1] /\ UNCHANGED writer
pthread_wrlock(t) == writer' = t /\ UNCHANGED readers

(* The caller's write lock if it has it, else one of its read locks.        *)
pthread_unlock(t) ==
  IF writer = t THEN writer' = NoThread /\ UNCHANGED readers
                ELSE readers' = [readers EXCEPT ![t] = @ - 1] /\ UNCHANGED writer

-----------------------------------------------------------------------------
(* Guards.                                                                  *)

(* A scope is entered: the constructor calls Lock().                        *)
Construct(t, kind) ==
  /\ Runs(t) /\ ~throws[t]
  /\ Len(guards[t]) < Depth
  /\ wants' = [wants EXCEPT ![t] = kind]
  /\ UNCHANGED <<writer, readers, guards, throws, data, seen>>

Constructed(t) ==
  /\ guards' = [guards EXCEPT ![t] = Append(@, wants[t])]
  /\ wants' = [wants EXCEPT ![t] = None]
  /\ UNCHANGED <<throws, data, seen>>

(* Mutant of Throw: the result of pthread_rwlock_rdlock is not looked at.   *)
Throw_Ignored(t) ==
  /\ wants[t] # None /\ RefusesLock(t)
  /\ Constructed(t)
  /\ UNCHANGED <<writer, readers>>

(* Mutant of Throw: the thread stays in the constructor.                    *)
Throw_Retry(t) == FALSE

(* RDLock or WRLock throws out of the constructor: there is no guard, and   *)
(* its destructor will not run.                                             *)
Throw(t) ==
  /\ wants[t] # None /\ RefusesLock(t)
  /\ throws' = [throws EXCEPT ![t] = TRUE]
  /\ wants' = [wants EXCEPT ![t] = None]
  /\ UNCHANGED <<writer, readers, guards, data, seen>>

(* Mutant of AutoWRLock: the constructor locks for reading.                 *)
AutoWRLock_Reads(t) ==
  /\ wants[t] = "write" /\ GrantsRead(t)
  /\ pthread_rdlock(t)
  /\ Constructed(t)

AutoRDLock(t) ==
  /\ wants[t] = "read" /\ GrantsRead(t)
  /\ pthread_rdlock(t)
  /\ Constructed(t)

AutoWRLock(t) ==
  /\ wants[t] = "write" /\ GrantsWrite(t)
  /\ pthread_wrlock(t)
  /\ Constructed(t)

(* The scope of the innermost guard ends, normally or by the exception:     *)
(* its destructor calls UNLock.                                             *)
Outer(s) == SubSeq(s, 1, Len(s) - 1)

Forget(t) == seen' = [seen EXCEPT ![t] = IF Len(guards[t]) = 1 THEN None ELSE @]

(* Mutant of Destroy: the destructor does not unlock.                       *)
Destroy_Keeps(t) ==
  /\ Runs(t) /\ guards[t] # <<>>
  /\ guards' = [guards EXCEPT ![t] = Outer(@)]
  /\ Forget(t)
  /\ UNCHANGED <<writer, readers, wants, throws, data>>

Destroy(t) ==
  /\ Runs(t) /\ guards[t] # <<>>
  /\ pthread_unlock(t)
  /\ guards' = [guards EXCEPT ![t] = Outer(@)]
  /\ Forget(t)
  /\ UNCHANGED <<wants, throws, data>>

(* A scope of the thread handles the exception; the guards of the scopes    *)
(* inside are gone by then.                                                 *)
Catch(t) ==
  /\ throws[t]
  /\ throws' = [throws EXCEPT ![t] = FALSE]
  /\ UNCHANGED <<writer, readers, guards, wants, data, seen>>

(* What threads do inside: read under any guard, write under an AutoWRLock. *)
HasGuard(t, kind) == \E i \in 1 .. Len(guards[t]) : guards[t][i] = kind

Read(t) ==
  /\ Runs(t) /\ ~throws[t] /\ guards[t] # <<>>
  /\ seen' = [seen EXCEPT ![t] = data]
  /\ UNCHANGED <<writer, readers, guards, wants, throws, data>>

Write(t, v) ==
  /\ Runs(t) /\ ~throws[t] /\ HasGuard(t, "write")
  /\ data' = v
  /\ seen' = [seen EXCEPT ![t] = v]
  /\ UNCHANGED <<writer, readers, guards, wants, throws>>

-----------------------------------------------------------------------------
Init ==
  /\ writer = NoThread
  /\ readers = [t \in Threads |-> 0]
  /\ guards = [t \in Threads |-> <<>>]
  /\ wants = [t \in Threads |-> None]
  /\ throws = [t \in Threads |-> FALSE]
  /\ data \in Values
  /\ seen = [t \in Threads |-> None]

Lock(t) == AutoRDLock(t) \/ AutoWRLock(t) \/ Throw(t)

Next == \E t \in Threads :
  \/ \E kind \in Kinds : Construct(t, kind)
  \/ Lock(t)
  \/ Destroy(t)
  \/ Catch(t)
  \/ Read(t)
  \/ \E v \in Values : Write(t, v)

Spec == Init /\ [][Next]_vars

(* A call of Lock() that can return does, and a thread that goes on inside  *)
(* a scope leaves it.  No thread has to enter one, and none has to stop     *)
(* entering them.                                                           *)
Fairness == \A t \in Threads : WF_vars(Lock(t)) /\ WF_vars(Destroy(t)) /\ WF_vars(Catch(t))

FairSpec == Spec /\ Fairness
=============================================================================
