---------------------------- MODULE RWLockProps ----------------------------
(***************************************************************************)
(* What the guards of an RWLock are for, and how threads that use them can *)
(* block each other.                                                       *)
(***************************************************************************)
EXTENDS RWLock

(* A guard stands for exactly one lock of its kind, from the end of its     *)
(* constructor to its destructor, and no guard stands for a lock that       *)
(* another one released (rw_lock.h:63-91): the exception out of a           *)
(* constructor leaves neither a guard without a lock nor a lock behind.     *)
GuardsOwnLock ==
  \A t \in Threads :
    \/ /\ guards[t] = <<"write">>
       /\ writer = t /\ readers[t] = 0
    \/ /\ ~HasGuard(t, "write")
       /\ writer # t /\ readers[t] = Len(guards[t])

(* What a thread has read under its guards is still so: nobody else writes  *)
(* while it is inside (rw_lock_test.cc:38-69).                              *)
SectionsIsolated ==
  \A t \in Threads : seen[t] # None => guards[t] # <<>> /\ seen[t] = data

(* A thread that asks for an AutoWRLock inside an AutoRDLock.               *)
Upgrades(t) == wants[t] = "write" /\ HasGuard(t, "read")

(* Threads never block each other unless one upgrades (rw_lock.h:40-51,     *)
(* 65, 80): if everyone who holds the lock waits for it and none is about   *)
(* to get an answer, one of them waits for its own read lock.               *)
Answered(t) ==
  \/ RefusesLock(t)
  \/ wants[t] = "read" /\ GrantsRead(t)
  \/ wants[t] = "write" /\ GrantsWrite(t)

Stuck(t) == wants[t] # None /\ ~Answered(t)

OnlyUpgradesBlock ==
  (\E t \in Threads : Stuck(t)) =>
    \/ \E t \in Threads : guards[t] # <<>> /\ ~Stuck(t)
    \/ \E t \in Threads : Upgrades(t)

(* A thread that waits in Lock() gets an answer in the end (rw_lock.h:      *)
(* 40-51), and what can keep it is named: a reader waits for ever only if   *)
(* others get the lock for writing, or are refused it inside a section of   *)
(* their own, again and again; a writer only if other calls of Lock()       *)
(* return again and again (pthread_rwlock_t prefers readers), or if a       *)
(* thread upgrades.                                                         *)
OthersWrite(t) == \E u \in Threads \ {t} : AutoWRLock(u) \/ Throw(u)
OthersLock(t)  == \E u \in Threads \ {t} : Lock(u)

WaitersServed ==
  \A t \in Threads :
    /\ \/ []<><<OthersWrite(t)>>_vars
       \/ wants[t] = "read" ~> wants[t] # "read"
    /\ \/ []<><<OthersLock(t)>>_vars
       \/ wants[t] = "write" ~> wants[t] # "write" \/ \E u \in Threads : Upgrades(u)
=============================================================================
