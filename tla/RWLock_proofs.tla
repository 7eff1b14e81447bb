---------------------------- MODULE RWLock_proofs ----------------------------
(***************************************************************************)
(* The guards of RWLock own their locks, critical sections are isolated,   *)
(* and only upgrades block, for any set of threads and any nesting.        *)
(***************************************************************************)
EXTENDS RWLockProps, SequenceTheorems, TLAPS

LockTypes ==
  /\ writer \in Threads \cup {NoThread}
  /\ readers \in [Threads -> Nat]
  /\ guards \in [Threads -> Seq(Kinds)]
  /\ wants \in [Threads -> Kinds \cup {None}]
  /\ seen \in [Threads -> Values \cup {None}]
  /\ data \in Values

Exclusive == writer # NoThread => \A u \in Threads : readers[u] = 0

IInv == LockTypes /\ Exclusive /\ GuardsOwnLock /\ SectionsIsolated

-----------------------------------------------------------------------------
(* A thread has a guard of some kind exactly when its stack is not empty.   *)
LEMMA SomeGuard ==
  ASSUME NEW t \in Threads, guards[t] \in Seq(Kinds)
  PROVE  guards[t] # <<>> <=> \E i \in 1 .. Len(guards[t]) : guards[t][i] \in Kinds
<1>1. ASSUME guards[t] # <<>>
      PROVE  1 \in 1 .. Len(guards[t]) /\ guards[t][1] \in Kinds
  BY <1>1
<1>2. ASSUME NEW i \in 1 .. Len(guards[t]) PROVE guards[t] # <<>>
  BY <1>2
<1> QED BY <1>1, <1>2

(* The innermost guard leaves: the others stay what they are.               *)
LEMMA OuterGuards ==
  ASSUME NEW s \in Seq(Kinds), s # <<>>
  PROVE  /\ Outer(s) \in Seq(Kinds)
         /\ Len(Outer(s)) = Len(s) - 1
         /\ \A i \in 1 .. Len(Outer(s)) : Outer(s)[i] = s[i]
<1> DEFINE n == Len(s) - 1
<1>0. Len(s) \in Nat \ {0} /\ s \in [1 .. Len(s) -> Kinds]
  BY EmptySeq, LenProperties
<1>1. n \in Nat /\ \A i \in 1 .. n : s[i] \in Kinds
  BY <1>0
<1>2. /\ SubSeq(s, 1, n) \in Seq(Kinds)
      /\ Len(SubSeq(s, 1, n)) = IF 1 <= n THEN n - 1 + 1 ELSE 0
      /\ \A i \in 1 .. n - 1 + 1 : SubSeq(s, 1, n)[i] = s[1 + i - 1]
  BY <1>1, SubSeqProperties
<1> DEFINE q == SubSeq(s, 1, n)
<1>3. /\ q \in Seq(Kinds)
      /\ Len(q) = IF 1 <= n THEN n - 1 + 1 ELSE 0
      /\ \A i \in 1 .. n - 1 + 1 : q[i] = s[1 + i - 1]
  BY <1>2
<1>4. q = Outer(s)
  BY DEF Outer
<1>5. n = Len(s) - 1
  OBVIOUS
<1> HIDE DEF q, n
<1>6. Len(q) = n /\ \A i \in 1 .. n : q[i] = s[i]
  BY <1>1, <1>3
<1> QED BY <1>3, <1>4, <1>5, <1>6

(* A new guard is the innermost one.                                        *)
LEMMA InnerGuard ==
  ASSUME NEW s \in Seq(Kinds), NEW kind \in Kinds
  PROVE  /\ Append(s, kind) \in Seq(Kinds)
         /\ Len(Append(s, kind)) = Len(s) + 1
         /\ \A i \in 1 .. Len(s) : Append(s, kind)[i] = s[i]
         /\ Append(s, kind)[Len(s) + 1] = kind
  OBVIOUS

(* Constructor: nobody holds the lock yet, no guard is alive.               *)
LEMMA InitIInv == Init => IInv
<1> SUFFICES ASSUME Init PROVE IInv
  OBVIOUS
<1>1. LockTypes
  BY DEF Init, LockTypes
<1>2. Exclusive
  BY DEF Init, Exclusive
<1>3. GuardsOwnLock
  <2> SUFFICES ASSUME NEW t \in Threads
               PROVE  /\ ~HasGuard(t, "write") /\ writer # t
                      /\ readers[t] = Len(guards[t])
    BY DEF GuardsOwnLock
  <2>1. Len(guards[t]) = 0
    BY EmptySeq DEF Init
  <2> QED BY <2>1, RWLockConstants DEF Init, HasGuard
<1>4. SectionsIsolated
  BY DEF Init, SectionsIsolated
<1> QED BY <1>1, <1>2, <1>3, <1>4 DEF IInv

(* A thread without a write guard does not hold the lock for writing.       *)
LEMMA WriterHasGuard ==
  ASSUME IInv, NEW t \in Threads
  PROVE  /\ writer = t => guards[t] = <<"write">> /\ readers[t] = 0
         /\ writer # t => ~HasGuard(t, "write") /\ readers[t] = Len(guards[t])
<1>1. CASE guards[t] = <<"write">> /\ writer = t /\ readers[t] = 0
  BY <1>1
<1>2. CASE ~HasGuard(t, "write") /\ writer # t /\ readers[t] = Len(guards[t])
  BY <1>2
<1> QED BY <1>1, <1>2 DEF IInv, GuardsOwnLock

(* RDLock returns: one more read lock, one more guard.                      *)
LEMMA ReadKeeps ==
  ASSUME IInv, NEW t \in Threads, AutoRDLock(t)
  PROVE  IInv'
<1> USE DEF AutoRDLock, pthread_rdlock, Constructed, GrantsRead, Kinds
<1>0. guards[t] \in Seq(Kinds)
  BY DEF IInv, LockTypes
<1>1. LockTypes'
  BY <1>0, InnerGuard DEF IInv, LockTypes
<1>2. Exclusive'
  BY DEF Exclusive
<1>3. GuardsOwnLock'
  <2> SUFFICES ASSUME NEW u \in Threads
               PROVE  ~HasGuard(u, "write")' /\ writer' # u /\ readers'[u] = Len(guards'[u])
    BY DEF GuardsOwnLock
  <2>1. ~HasGuard(u, "write") /\ writer # u /\ readers[u] = Len(guards[u])
    BY WriterHasGuard, RWLockConstants
  <2>2. CASE u # t
    BY <2>1, <2>2 DEF HasGuard, IInv, LockTypes
  <2>3. CASE u = t
    <3>1. guards'[t] = Append(guards[t], "read") /\ readers'[t] = readers[t] + 1
      BY DEF IInv, LockTypes
    <3>2. ~HasGuard(t, "write")'
      BY <3>1, <2>1, <2>3, <1>0, InnerGuard DEF HasGuard
    <3> QED BY <3>1, <3>2, <2>1, <2>3, <1>0, InnerGuard
  <2> QED BY <2>2, <2>3
<1>4. SectionsIsolated'
  <2>1. Len(guards'[t]) = Len(guards[t]) + 1 /\ Len(guards[t]) \in Nat
    BY <1>0, InnerGuard, LenProperties DEF IInv, LockTypes
  <2>2. guards'[t] # <<>>
    <3>1. guards'[t] = <<>> => Len(guards'[t]) = 0
      BY EmptySeq
    <3> HIDE DEF AutoRDLock, pthread_rdlock, Constructed, GrantsRead, Kinds
    <3> QED BY <2>1, <3>1
  <2>3. seen' = seen /\ data' = data /\ \A u \in Threads : u # t => guards'[u] = guards[u]
    BY DEF IInv, LockTypes
  <2> QED BY <2>2, <2>3 DEF IInv, SectionsIsolated
<1> QED BY <1>1, <1>2, <1>3, <1>4 DEF IInv

(* WRLock returns: nobody holds anything, so nobody has a guard.            *)
LEMMA WriteKeeps ==
  ASSUME IInv, NEW t \in Threads, AutoWRLock(t)
  PROVE  IInv'
<1> USE DEF AutoWRLock, pthread_wrlock, Constructed, GrantsWrite, Kinds
<1>0. guards[t] \in Seq(Kinds) /\ guards[t] = <<>>
  BY WriterHasGuard, RWLockConstants DEF IInv, LockTypes
<1>1. LockTypes'
  BY <1>0, InnerGuard DEF IInv, LockTypes
<1>2. Exclusive'
  BY DEF Exclusive
<1>3. GuardsOwnLock'
  <2> SUFFICES ASSUME NEW u \in Threads
               PROVE  \/ guards'[u] = <<"write">> /\ writer' = u /\ readers'[u] = 0
                      \/ /\ ~HasGuard(u, "write")' /\ writer' # u
                         /\ readers'[u] = Len(guards'[u])
    BY DEF GuardsOwnLock
  <2>1. CASE u = t
    BY <1>0, <2>1 DEF IInv, LockTypes
  <2>2. CASE u # t
    BY <2>2, WriterHasGuard, RWLockConstants DEF IInv, LockTypes, HasGuard
  <2> QED BY <2>1, <2>2
<1>4. SectionsIsolated'
  <2>1. Len(guards'[t]) = Len(guards[t]) + 1 /\ Len(guards[t]) \in Nat
    BY <1>0, InnerGuard, LenProperties DEF IInv, LockTypes
  <2>2. guards'[t] # <<>>
    <3>1. guards'[t] = <<>> => Len(guards'[t]) = 0
      BY EmptySeq
    <3> HIDE DEF AutoWRLock, pthread_wrlock, Constructed, GrantsWrite, Kinds
    <3> QED BY <2>1, <3>1
  <2>3. seen' = seen /\ data' = data /\ \A u \in Threads : u # t => guards'[u] = guards[u]
    BY DEF IInv, LockTypes
  <2> QED BY <2>2, <2>3 DEF IInv, SectionsIsolated
<1> QED BY <1>1, <1>2, <1>3, <1>4 DEF IInv

(* A destructor: the lock of the innermost guard is released.               *)
LEMMA DestroyKeeps ==
  ASSUME IInv, NEW t \in Threads, Destroy(t)
  PROVE  IInv'
<1> USE DEF Destroy, pthread_unlock, Forget
<1>0. /\ guards[t] \in Seq(Kinds) /\ guards[t] # <<>>
      /\ guards' = [guards EXCEPT ![t] = Outer(guards[t])]
  BY DEF IInv, LockTypes
<1>a. /\ Outer(guards[t]) \in Seq(Kinds)
      /\ Len(Outer(guards[t])) = Len(guards[t]) - 1
      /\ \A i \in 1 .. Len(Outer(guards[t])) : Outer(guards[t])[i] = guards[t][i]
  BY <1>0, OuterGuards
<1>b. \A u \in Threads : u # t => guards'[u] = guards[u] /\ seen'[u] = seen[u]
  BY <1>0 DEF IInv, LockTypes
<1>c. guards'[t] = Outer(guards[t])
  BY <1>0 DEF IInv, LockTypes
<1>4. SectionsIsolated'
  <2> SUFFICES ASSUME NEW u \in Threads, seen'[u] # None
               PROVE  guards'[u] # <<>> /\ seen'[u] = data'
    BY DEF SectionsIsolated
  <2>1. CASE u # t
    BY <1>b, <2>1 DEF IInv, SectionsIsolated
  <2>2. CASE u = t
    <3>1. Len(guards[t]) # 1 /\ seen'[t] = seen[t]
      BY <2>2 DEF IInv, LockTypes
    <3>2. Len(guards[t]) \in Nat /\ Len(guards[t]) # 0
      BY <1>0, EmptySeq
    <3>3. Len(Outer(guards[t])) # 0
      BY <3>1, <3>2, <1>a
    <3>4. guards'[t] # <<>>
      BY <3>3, <1>c, EmptySeq
    <3> QED BY <3>1, <3>4, <2>2 DEF IInv, SectionsIsolated
  <2> QED BY <2>1, <2>2
<1>5. CASE writer = t
  <2>1. /\ guards[t] = <<"write">> /\ readers[t] = 0
        /\ writer' = NoThread /\ readers' = readers
    BY <1>5, WriterHasGuard
  <2>2. Len(guards[t]) = 1
    BY <2>1
  <2>3. Len(guards'[t]) = 0
    BY <2>2, <1>a, <1>c
  <2>4. guards'[t] = <<>>
    BY <2>3, <1>a, <1>c
  <2>5. LockTypes'
    BY <1>a, <1>0, <2>1 DEF IInv, LockTypes
  <2>6. Exclusive'
    BY <2>1 DEF Exclusive
  <2>7. GuardsOwnLock'
    <3> SUFFICES ASSUME NEW u \in Threads
                 PROVE  /\ ~HasGuard(u, "write")' /\ writer' # u
                        /\ readers'[u] = Len(guards'[u])
      BY DEF GuardsOwnLock
    <3>1. CASE u = t
      BY <3>1, <2>1, <2>3, <2>4, RWLockConstants DEF HasGuard
    <3>2. CASE u # t
      BY <3>2, <2>1, <1>5, <1>b, WriterHasGuard, RWLockConstants DEF HasGuard
    <3> QED BY <3>1, <3>2
  <2> QED BY <2>5, <2>6, <2>7, <1>4 DEF IInv
<1>6. CASE writer # t
  <2>1. /\ ~HasGuard(t, "write") /\ readers[t] = Len(guards[t])
        /\ writer' = writer
        /\ readers' = [readers EXCEPT ![t] = readers[t] - 1]
    BY <1>6, WriterHasGuard
  <2>2. Len(guards[t]) \in Nat \ {0}
    BY <1>0
  <2>3. readers[t] # 0
    BY <2>1, <2>2
  <2>4. writer = NoThread
    BY <2>3 DEF IInv, Exclusive
  <2>5. readers[t] - 1 \in Nat
    BY <2>1, <2>2
  <2>6. LockTypes'
    BY <1>a, <1>0, <2>1, <2>5 DEF IInv, LockTypes
  <2>7. Exclusive'
    BY <2>1, <2>4 DEF Exclusive
  <2>8. GuardsOwnLock'
    <3> SUFFICES ASSUME NEW u \in Threads
                 PROVE  /\ ~HasGuard(u, "write")' /\ writer' # u
                        /\ readers'[u] = Len(guards'[u])
      BY DEF GuardsOwnLock
    <3>1. CASE u = t
      <4>1. ~HasGuard(t, "write")'
        BY <2>1, <2>2, <1>a, <1>c DEF HasGuard
      <4>2. readers'[t] = Len(guards'[t])
        BY <2>1, <1>a, <1>c DEF IInv, LockTypes
      <4> QED BY <4>1, <4>2, <3>1, <2>1, <1>6
    <3>2. CASE u # t
      <4>1. ~HasGuard(u, "write") /\ readers[u] = Len(guards[u])
        BY <2>4, WriterHasGuard, RWLockConstants
      <4>2. readers'[u] = readers[u]
        BY <2>1, <3>2 DEF IInv, LockTypes
      <4> QED BY <4>1, <4>2, <3>2, <2>1, <2>4, <1>b, RWLockConstants DEF HasGuard
    <3> QED BY <3>1, <3>2
  <2> QED BY <2>6, <2>7, <2>8, <1>4 DEF IInv
<1> QED BY <1>5, <1>6

(* Whoever writes is alone inside.                                          *)
LEMMA WritingKeeps ==
  ASSUME IInv, NEW t \in Threads, NEW v \in Values, Write(t, v)
  PROVE  IInv'
<1>1. LockTypes' /\ Exclusive' /\ GuardsOwnLock'
  BY DEF Write, IInv, LockTypes, Exclusive, GuardsOwnLock, HasGuard
<1>2. SectionsIsolated'
  <2> SUFFICES ASSUME NEW u \in Threads, seen'[u] # None
               PROVE  guards'[u] # <<>> /\ seen'[u] = data'
    BY DEF SectionsIsolated
  <2>1. writer = t
    BY WriterHasGuard DEF Write
  <2>2. CASE u = t
    <3>1. guards[t] # <<>>
      BY EmptySeq DEF Write, HasGuard
    <3> QED BY <3>1, <2>2 DEF Write, IInv, LockTypes
  <2>3. CASE u # t
    <3>1. readers[u] = 0 /\ readers[u] = Len(guards[u])
      BY <2>1, <2>3, WriterHasGuard, RWLockConstants DEF IInv, Exclusive
    <3>2. guards[u] = <<>>
      BY <3>1 DEF IInv, LockTypes
    <3> QED BY <3>2, <2>3 DEF Write, IInv, LockTypes, SectionsIsolated
  <2> QED BY <2>2, <2>3
<1> QED BY <1>1, <1>2 DEF IInv

(* Calls, exceptions and reads touch neither the lock nor the guards.       *)
LEMMA OthersKeep ==
  ASSUME IInv, NEW t \in Threads,
         \/ \E kind \in Kinds : Construct(t, kind)
         \/ Throw(t)
         \/ Catch(t)
         \/ Read(t)
  PROVE  IInv'
<1>1. /\ UNCHANGED <<writer, readers, guards, data>>
      /\ wants' \in [Threads -> Kinds \cup {None}]
  BY DEF Construct, Throw, Catch, Read, IInv, LockTypes
<1>2. seen' = seen \/ (seen' = [seen EXCEPT ![t] = data] /\ guards[t] # <<>>)
  BY DEF Construct, Throw, Catch, Read
<1>3. LockTypes' /\ Exclusive' /\ GuardsOwnLock'
  BY <1>1, <1>2 DEF IInv, LockTypes, Exclusive, GuardsOwnLock, HasGuard
<1>4. SectionsIsolated'
  BY <1>1, <1>2 DEF IInv, LockTypes, SectionsIsolated
<1> QED BY <1>3, <1>4 DEF IInv

(* Every step keeps the invariant.                                          *)
LEMMA NextIInv == IInv /\ [Next]_vars => IInv'
<1> SUFFICES ASSUME IInv, [Next]_vars PROVE IInv'
  OBVIOUS
<1>1. CASE UNCHANGED vars
  BY <1>1 DEF IInv, vars, LockTypes, Exclusive, GuardsOwnLock, HasGuard, SectionsIsolated
<1>2. ASSUME NEW t \in Threads,
             \/ \E kind \in Kinds : Construct(t, kind)
             \/ Throw(t) \/ Catch(t) \/ Read(t)
      PROVE  IInv'
  BY <1>2, OthersKeep
<1>3. ASSUME NEW t \in Threads, AutoRDLock(t) PROVE IInv'
  BY <1>3, ReadKeeps
<1>4. ASSUME NEW t \in Threads, AutoWRLock(t) PROVE IInv'
  BY <1>4, WriteKeeps
<1>5. ASSUME NEW t \in Threads, Destroy(t) PROVE IInv'
  BY <1>5, DestroyKeeps
<1>6. ASSUME NEW t \in Threads, NEW v \in Values, Write(t, v) PROVE IInv'
  BY <1>6, WritingKeeps
<1> QED BY <1>1, <1>2, <1>3, <1>4, <1>5, <1>6 DEF Next, Lock

(* The inductive invariant of the guards of an RWLock (rw_lock.h:63-91).    *)
THEOREM LockInvariance == Spec => []IInv
<1> QED BY InitIInv, NextIInv, PTL DEF Spec

(* Every guard owns the lock it stands for, whatever the constructors of    *)
(* other guards threw (rw_lock.h:63-91).                                    *)
THEOREM GuardsCorrect == Spec => []GuardsOwnLock
<1>1. IInv => GuardsOwnLock
  BY DEF IInv
<1> QED BY <1>1, LockInvariance, PTL

(* What a thread read under a guard stays true while it is inside           *)
(* (rw_lock_test.cc:38-69).                                                 *)
THEOREM IsolationCorrect == Spec => []SectionsIsolated
<1>1. IInv => SectionsIsolated
  BY DEF IInv
<1> QED BY <1>1, LockInvariance, PTL

(* Threads that all wait for each other include one that holds an           *)
(* AutoRDLock and asks for an AutoWRLock (rw_lock.h:40-51, 65, 80).         *)
THEOREM BlockingCorrect == Spec => []OnlyUpgradesBlock
<1>1. IInv => OnlyUpgradesBlock
  <2> SUFFICES ASSUME IInv, NEW t \in Threads, Stuck(t),
                      \A u \in Threads : guards[u] # <<>> => Stuck(u)
               PROVE  \E u \in Threads : Upgrades(u)
    BY DEF OnlyUpgradesBlock
  <2>1. writer = NoThread
    <3> SUFFICES ASSUME writer # NoThread PROVE FALSE
      OBVIOUS
    <3>1. writer \in Threads
      BY DEF IInv, LockTypes
    <3>2. guards[writer] = <<"write">>
      BY <3>1, WriterHasGuard
    <3>3. guards[writer] # <<>>
      BY <3>2
    <3> QED BY <3>1, <3>3 DEF Stuck, Answered, RefusesLock
  <2>2. wants[t] = "write" /\ ~GrantsWrite(t)
    BY <2>1 DEF Stuck, Answered, GrantsRead, IInv, LockTypes, Kinds
  <2>3. PICK u \in Threads : readers[u] # 0
    BY <2>1, <2>2 DEF GrantsWrite
  <2>4. Len(guards[u]) # 0 /\ ~HasGuard(u, "write") /\ guards[u] \in Seq(Kinds)
    BY <2>1, <2>3, WriterHasGuard, RWLockConstants DEF IInv, LockTypes
  <2>5. Stuck(u)
    BY <2>4
  <2>6. wants[u] = "write"
    BY <2>1, <2>5 DEF Stuck, Answered, GrantsRead, IInv, LockTypes, Kinds
  <2>7. HasGuard(u, "read")
    BY <2>4, SomeGuard DEF HasGuard, Kinds
  <2> QED BY <2>6, <2>7 DEF Upgrades
<1> QED BY <1>1, LockInvariance, PTL
=============================================================================
