--------------------------- MODULE MessagePoolProofs ---------------------------
(***************************************************************************)
(* Proofs about MessagePool for every capacity and every set of threads.   *)
(***************************************************************************)
EXTENDS MessagePool, FiniteSetTheorems, TLAPS

LEMMA Constants ==
  /\ Capacity \in Nat /\ Capacity >= 1
  /\ Messages \subseteq Nat
  /\ \A i \in Nat : i \in Messages <=> i < Capacity
  /\ None \notin Messages
BY PoolAssumption DEF Messages

LEMMA InitPoolInv == Init => PoolInv
<1> SUFFICES ASSUME Init PROVE PoolInv
  OBVIOUS
<1> USE Constants DEF Init
<1>1. TypeOK
  BY DEF TypeOK
<1>2. CallsInProgress /\ OneKindAtATime /\ ClaimsDisjoint
  BY DEF CallsInProgress, OneKindAtATime, ClaimsDisjoint, Acquiring, Releasing
<1>3. NamedOnce
  BY DEF NamedOnce
<1> QED
  BY <1>1, <1>2, <1>3 DEF PoolInv

LEMMA NextTyped == TypeOK /\ CallsInProgress /\ [Next]_vars => TypeOK' /\ CallsInProgress'
<1> SUFFICES ASSUME TypeOK, CallsInProgress, [Next]_vars
             PROVE  TypeOK' /\ CallsInProgress'
  OBVIOUS
<1> USE Constants DEF TypeOK, CallsInProgress, Acquiring, Releasing
<1>1. ASSUME NEW t \in Threads, AcquireLoad(t) PROVE TypeOK' /\ CallsInProgress'
  BY <1>1 DEF AcquireLoad
<1>2. ASSUME NEW t \in Threads, AcquireCas(t) PROVE TypeOK' /\ CallsInProgress'
  BY <1>2 DEF AcquireCas
<1>3. ASSUME NEW t \in Threads, AcquireRetry(t) PROVE TypeOK' /\ CallsInProgress'
  BY <1>3 DEF AcquireRetry
<1>4. ASSUME NEW t \in Threads, AcquireRead(t) PROVE TypeOK' /\ CallsInProgress'
  <2>1. seen[t] - 1 \in Messages
    BY <1>4 DEF AcquireRead
  <2> QED
    BY <1>4, <2>1 DEF AcquireRead
<1>5. ASSUME NEW t \in Threads, ReleaseLoad(t) PROVE TypeOK' /\ CallsInProgress'
  BY <1>5 DEF ReleaseLoad
<1>6. ASSUME NEW t \in Threads, ReleaseCas(t) PROVE TypeOK' /\ CallsInProgress'
  BY <1>6 DEF ReleaseCas
<1>7. ASSUME NEW t \in Threads, ReleaseRetry(t) PROVE TypeOK' /\ CallsInProgress'
  BY <1>7 DEF ReleaseRetry
<1>8. ASSUME NEW t \in Threads, ReleaseWrite(t) PROVE TypeOK' /\ CallsInProgress'
  BY <1>8 DEF ReleaseWrite
<1>9. ASSUME UNCHANGED vars PROVE TypeOK' /\ CallsInProgress'
  BY <1>9 DEF vars
<1> QED
  BY <1>1, <1>2, <1>3, <1>4, <1>5, <1>6, <1>7, <1>8, <1>9 DEF Next, Continue

\* The variables keep their types, whether calls mix or not.
THEOREM PoolTypeCorrect == Spec => []TypeOK
<1>1. Init => TypeOK /\ CallsInProgress
  BY InitPoolInv DEF PoolInv
<1> QED
  BY <1>1, NextTyped, PTL DEF Spec
--------------------------------------------------------------------------------
\* When calls of the two kinds do not mix, they never come to overlap.
LEMMA OneKindPreserved ==
  ASSUME PoolInv, [Next]_vars, ~Mixed
  PROVE  OneKindAtATime'
<1> USE DEF PoolInv, TypeOK, OneKindAtATime, Acquiring, Releasing
<1>1. ASSUME NEW t \in Threads, AcquireLoad(t) PROVE OneKindAtATime'
  BY <1>1 DEF AcquireLoad, MayStart
<1>2. ASSUME NEW t \in Threads, AcquireCas(t) PROVE OneKindAtATime'
  BY <1>2 DEF AcquireCas
<1>3. ASSUME NEW t \in Threads, AcquireRetry(t) PROVE OneKindAtATime'
  BY <1>3 DEF AcquireRetry
<1>4. ASSUME NEW t \in Threads, AcquireRead(t) PROVE OneKindAtATime'
  BY <1>4 DEF AcquireRead
<1>5. ASSUME NEW t \in Threads, ReleaseLoad(t) PROVE OneKindAtATime'
  BY <1>5 DEF ReleaseLoad, MayStart
<1>6. ASSUME NEW t \in Threads, ReleaseCas(t) PROVE OneKindAtATime'
  BY <1>6 DEF ReleaseCas
<1>7. ASSUME NEW t \in Threads, ReleaseRetry(t) PROVE OneKindAtATime'
  BY <1>7 DEF ReleaseRetry
<1>8. ASSUME NEW t \in Threads, ReleaseWrite(t) PROVE OneKindAtATime'
  BY <1>8 DEF ReleaseWrite
<1>9. ASSUME UNCHANGED vars PROVE OneKindAtATime'
  BY <1>9 DEF vars
<1> QED
  BY <1>1, <1>2, <1>3, <1>4, <1>5, <1>6, <1>7, <1>8, <1>9 DEF Next, Continue

\* Claims stay on the far side of head, one claimant each.
LEMMA ClaimsPreserved ==
  ASSUME PoolInv, [Next]_vars, ~Mixed
  PROVE  ClaimsDisjoint'
<1> USE Constants DEF PoolInv, TypeOK, CallsInProgress, ClaimsDisjoint, Acquiring, Releasing
<1>1. ASSUME NEW t \in Threads, AcquireLoad(t) PROVE ClaimsDisjoint'
  BY <1>1 DEF AcquireLoad
<1>2. ASSUME NEW t \in Threads, AcquireCas(t) PROVE ClaimsDisjoint'
  BY <1>2 DEF AcquireCas, OneKindAtATime
<1>3. ASSUME NEW t \in Threads, AcquireRetry(t) PROVE ClaimsDisjoint'
  BY <1>3 DEF AcquireRetry
<1>4. ASSUME NEW t \in Threads, AcquireRead(t) PROVE ClaimsDisjoint'
  BY <1>4 DEF AcquireRead
<1>5. ASSUME NEW t \in Threads, ReleaseLoad(t) PROVE ClaimsDisjoint'
  BY <1>5 DEF ReleaseLoad
<1>6. ASSUME NEW t \in Threads, ReleaseCas(t) PROVE ClaimsDisjoint'
  BY <1>6 DEF ReleaseCas, OneKindAtATime
<1>7. ASSUME NEW t \in Threads, ReleaseRetry(t) PROVE ClaimsDisjoint'
  BY <1>7 DEF ReleaseRetry
<1>8. ASSUME NEW t \in Threads, ReleaseWrite(t) PROVE ClaimsDisjoint'
  BY <1>8 DEF ReleaseWrite
<1>9. ASSUME UNCHANGED vars PROVE ClaimsDisjoint'
  BY <1>9 DEF vars
<1> QED
  BY <1>1, <1>2, <1>3, <1>4, <1>5, <1>6, <1>7, <1>8, <1>9 DEF Next, Continue

\* A step that changes no entry and makes no entry live keeps NamedOnce, also
\* when threads let go of messages.
LEMMA NamedOnceKept ==
  ASSUME NamedOnce, freeList' = freeList,
         \A i \in Messages : Live(i)' => Live(i),
         \A t \in Threads : held'[t] # None => held'[t] = held[t],
         TypeOK, TypeOK'
  PROVE  NamedOnce'
BY Constants DEF NamedOnce, TypeOK

\* Each step of a call keeps every message named once.
LEMMA NamedOncePreserved ==
  ASSUME PoolInv, TypeOK', [Next]_vars
  PROVE  NamedOnce'
<1> USE Constants DEF PoolInv
<1>1. ASSUME NEW t \in Threads, AcquireLoad(t) PROVE NamedOnce'
  <2>1. \A i \in Messages : Live(i)' => Live(i)
    BY <1>1 DEF AcquireLoad, Live, TypeOK
  <2> QED
    BY <1>1, <2>1, NamedOnceKept DEF AcquireLoad
<1>2. ASSUME NEW t \in Threads, AcquireCas(t) PROVE NamedOnce'
  <2>1. ASSUME NEW i \in Messages, Live(i)' PROVE Live(i)
    <3>1. head' = head - 1 /\ seen' = seen /\ seen[t] = head /\ pc[t] = "acq_cas"
      BY <1>2 DEF AcquireCas
    <3>2. \A u \in Threads : pc[u] # "rel_write"
      BY <3>1 DEF OneKindAtATime, Acquiring, Releasing
    <3>3. CASE i < head'
      BY <3>1, <3>2, <3>3 DEF Live, TypeOK
    <3>4. CASE \E u \in Threads : pc'[u] = "acq_read" /\ seen'[u] = i + 1
      <4>1. PICK u \in Threads : pc'[u] = "acq_read" /\ seen[u] = i + 1
        BY <3>1, <3>4
      <4>2. CASE u = t
        BY <3>1, <3>2, <4>1, <4>2 DEF Live, TypeOK
      <4>3. CASE u # t
        <5>1. pc[u] = "acq_read"
          BY <1>2, <4>1, <4>3 DEF AcquireCas, TypeOK
        <5> QED
          BY <4>1, <5>1 DEF Live
      <4> QED
        BY <4>2, <4>3
    <3> QED
      BY <2>1, <3>3, <3>4 DEF Live
  <2> QED
    BY <1>2, <2>1, NamedOnceKept DEF AcquireCas
<1>3. ASSUME NEW t \in Threads, AcquireRetry(t) PROVE NamedOnce'
  <2>1. \A i \in Messages : Live(i)' => Live(i)
    BY <1>3 DEF AcquireRetry, Live, TypeOK
  <2> QED
    BY <1>3, <2>1, NamedOnceKept DEF AcquireRetry
<1>4. ASSUME NEW t \in Threads, AcquireRead(t) PROVE NamedOnce'
  <2> DEFINE k == seen[t] - 1
  <2>1. /\ k \in Messages /\ k >= head /\ k + 1 = seen[t] /\ Live(k)
    BY <1>4 DEF AcquireRead, TypeOK, CallsInProgress, ClaimsDisjoint, Acquiring, Live
  <2>2. /\ freeList' = freeList /\ held[t] = None
        /\ held' = [held EXCEPT ![t] = freeList[k]]
    BY <1>4 DEF AcquireRead, CallsInProgress, Acquiring
  <2>3. \A i \in Messages : Live(i)' => Live(i) /\ i # k
    <3> SUFFICES ASSUME NEW i \in Messages, Live(i)' PROVE Live(i) /\ i # k
      OBVIOUS
    <3>1. head' = head /\ seen' = seen /\ pc[t] = "acq_read" /\ pc' = [pc EXCEPT ![t] = "idle"]
      BY <1>4 DEF AcquireRead
    <3>2. CASE i < head /\ \A u \in Threads : pc'[u] = "rel_write" => seen[u] # i
      BY <2>1, <3>1, <3>2 DEF Live, TypeOK
    <3>3. CASE \E u \in Threads : pc'[u] = "acq_read" /\ seen[u] = i + 1
      <4>1. PICK u \in Threads : u # t /\ pc[u] = "acq_read" /\ seen[u] = i + 1
        BY <3>1, <3>3 DEF TypeOK
      <4>2. seen[u] # seen[t]
        BY <3>1, <4>1 DEF ClaimsDisjoint
      <4> QED
        BY <2>1, <4>1, <4>2 DEF Live
    <3> QED
      BY <3>1, <3>2, <3>3 DEF Live
  <2> HIDE DEF k
  <2>4. freeList[k] \in Messages
    BY <2>1 DEF TypeOK
  <2>5. \A i, j \in Messages :
          Live(i)' /\ Live(j)' /\ freeList[i] = freeList[j] => i = j
    BY <2>3 DEF NamedOnce
  <2>6. \A i \in Messages : \A u \in Threads : Live(i)' => freeList[i] # held'[u]
    BY <2>1, <2>2, <2>3 DEF NamedOnce, TypeOK
  <2>7. \A u, v \in Threads : u # v /\ held'[u] # None => held'[u] # held'[v]
    BY <2>1, <2>2, <2>4 DEF NamedOnce, TypeOK
  <2> QED
    BY <2>2, <2>5, <2>6, <2>7 DEF NamedOnce
<1>5. ASSUME NEW t \in Threads, ReleaseLoad(t) PROVE NamedOnce'
  <2>1. \A i \in Messages : Live(i)' => Live(i)
    BY <1>5 DEF ReleaseLoad, Live, TypeOK
  <2>2. \A u \in Threads : held'[u] # None => held'[u] = held[u]
    BY <1>5 DEF ReleaseLoad, TypeOK
  <2>3. freeList' = freeList
    BY <1>5 DEF ReleaseLoad
  <2> QED
    BY <2>1, <2>2, <2>3, NamedOnceKept
<1>6. ASSUME NEW t \in Threads, ReleaseCas(t) PROVE NamedOnce'
  <2>1. ASSUME NEW i \in Messages, Live(i)' PROVE Live(i)
    <3>1. /\ head' = head + 1 /\ seen' = seen /\ seen[t] = head /\ pc[t] = "rel_cas"
          /\ pc' = [pc EXCEPT ![t] = "rel_write"]
      BY <1>6 DEF ReleaseCas
    <3>2. \A u \in Threads : pc[u] # "acq_read"
      BY <3>1 DEF OneKindAtATime, Acquiring, Releasing
    <3>3. i < head' /\ \A u \in Threads : pc'[u] = "rel_write" => seen[u] # i
      BY <2>1, <3>1, <3>2 DEF Live, TypeOK
    <3>4. i # head
      BY <3>1, <3>3 DEF TypeOK
    <3> QED
      BY <3>1, <3>3, <3>4 DEF Live, TypeOK
  <2> QED
    BY <1>6, <2>1, NamedOnceKept DEF ReleaseCas
<1>7. ASSUME NEW t \in Threads, ReleaseRetry(t) PROVE NamedOnce'
  <2>1. \A i \in Messages : Live(i)' => Live(i)
    BY <1>7 DEF ReleaseRetry, Live, TypeOK
  <2>2. \A u \in Threads : held'[u] # None => held'[u] = held[u]
    BY <1>7 DEF ReleaseRetry, TypeOK
  <2>3. freeList' = freeList
    BY <1>7 DEF ReleaseRetry
  <2> QED
    BY <2>1, <2>2, <2>3, NamedOnceKept
<1>8. ASSUME NEW t \in Threads, ReleaseWrite(t) PROVE NamedOnce'
  <2> DEFINE k == seen[t]
  <2>1. /\ k \in Messages /\ ~Live(k) /\ held[t] \in Messages
        /\ pc[t] = "rel_write" /\ seen[t] < head
    BY <1>8 DEF ReleaseWrite, TypeOK, CallsInProgress, ClaimsDisjoint, OneKindAtATime,
                Acquiring, Releasing, Live
  <2>2. /\ freeList' = [freeList EXCEPT ![k] = held[t]]
        /\ held' = [held EXCEPT ![t] = None]
    BY <1>8 DEF ReleaseWrite
  <2>3. \A i \in Messages : Live(i)' => Live(i) \/ i = k
    <3> SUFFICES ASSUME NEW i \in Messages, Live(i)' PROVE Live(i) \/ i = k
      OBVIOUS
    <3>1. head' = head /\ seen' = seen /\ pc' = [pc EXCEPT ![t] = "idle"]
      BY <1>8 DEF ReleaseWrite
    <3>2. CASE i < head /\ \A u \in Threads : pc'[u] = "rel_write" => seen[u] # i
      BY <2>1, <3>1, <3>2 DEF Live, TypeOK
    <3>3. CASE \E u \in Threads : pc'[u] = "acq_read" /\ seen[u] = i + 1
      BY <2>1, <3>1, <3>3 DEF Live, TypeOK
    <3> QED
      BY <3>1, <3>2, <3>3 DEF Live
  <2> HIDE DEF k
  <2>4. \A i \in Messages : Live(i) => i # k /\ freeList'[i] = freeList[i] /\ freeList[i] # held[t]
    BY <2>1, <2>2 DEF NamedOnce, TypeOK
  <2>5. freeList'[k] = held[t]
    BY <2>1, <2>2 DEF TypeOK
  <2>6. \A i, j \in Messages :
          Live(i)' /\ Live(j)' /\ freeList'[i] = freeList'[j] => i = j
    BY <2>3, <2>4, <2>5 DEF NamedOnce
  <2>7. \A u \in Threads : held'[u] = IF u = t THEN None ELSE held[u]
    BY <2>2 DEF TypeOK
  <2>8. \A i \in Messages : \A u \in Threads : Live(i)' => freeList'[i] # held'[u]
    <3> SUFFICES ASSUME NEW i \in Messages, NEW u \in Threads, Live(i)'
                 PROVE  freeList'[i] # held'[u]
      OBVIOUS
    <3>1. freeList'[i] \in Messages
      BY DEF TypeOK
    <3>2. CASE u = t
      BY <2>7, <3>1, <3>2
    <3>3. CASE u # t /\ i = k
      BY <2>1, <2>5, <2>7, <3>3 DEF NamedOnce
    <3>4. CASE u # t /\ i # k
      BY <2>3, <2>4, <2>7, <3>4 DEF NamedOnce
    <3> QED
      BY <3>2, <3>3, <3>4
  <2>9. \A u, v \in Threads : u # v /\ held'[u] # None => held'[u] # held'[v]
    BY <2>7 DEF NamedOnce
  <2> QED
    BY <2>6, <2>8, <2>9 DEF NamedOnce
<1>9. ASSUME UNCHANGED vars PROVE NamedOnce'
  <2>1. \A i \in Messages : Live(i)' => Live(i)
    BY <1>9 DEF vars, Live
  <2> QED
    BY <1>9, <2>1, NamedOnceKept DEF vars
<1> QED
  BY <1>1, <1>2, <1>3, <1>4, <1>5, <1>6, <1>7, <1>8, <1>9 DEF Next, Continue

\* When acquires never overlap releases, the invariant holds for ever.
THEOREM PoolInvariant ==
  ASSUME ~Mixed
  PROVE  Spec => []PoolInv
<1>1. PoolInv /\ [Next]_vars => PoolInv'
  <2> SUFFICES ASSUME PoolInv, [Next]_vars PROVE PoolInv'
    OBVIOUS
  <2>1. TypeOK' /\ CallsInProgress'
    BY NextTyped DEF PoolInv
  <2> QED
    BY <2>1, OneKindPreserved, ClaimsPreserved, NamedOncePreserved DEF PoolInv
<1> QED
  BY InitPoolInv, <1>1, PTL DEF Spec

\* When acquires never overlap releases, no message ever has two owners.
THEOREM NoDoubleOwner ==
  ASSUME ~Mixed
  PROVE  Spec => []ExclusiveOwnership
<1>1. PoolInv => ExclusiveOwnership
  BY Constants DEF PoolInv, NamedOnce, ExclusiveOwnership, Owns
<1> QED
  BY <1>1, PoolInvariant, PTL
--------------------------------------------------------------------------------
(* Nothing leaks *)

\* The threads that own a message without having read which, and those that
\* hold one that is not back yet.
Claimants == {t \in Threads : pc[t] = "acq_read"}
Holders == {t \in Threads : held[t] # None /\ pc[t] # "rel_write"}

LEMMA CountOf ==
  CountConserved <=> head + Cardinality(Claimants) + Cardinality(Holders) = Capacity
BY DEF CountConserved, Claimants, Holders

LEMMA CountOfLater ==
  CountConserved' <=> head' + Cardinality(Claimants') + Cardinality(Holders') = Capacity
BY DEF CountConserved, Claimants, Holders

LEMMA FiniteCrowds ==
  /\ IsFiniteSet(Claimants) /\ Cardinality(Claimants) \in Nat
  /\ IsFiniteSet(Holders) /\ Cardinality(Holders) \in Nat
<1>1. IsFiniteSet(Threads)
  BY PoolAssumption
<1>2. Claimants \in SUBSET Threads /\ Holders \in SUBSET Threads
  BY DEF Claimants, Holders
<1>3. IsFiniteSet(Claimants) /\ IsFiniteSet(Holders)
  BY <1>1, <1>2, FS_Subset
<1> QED
  BY <1>3, FS_CardinalityType

LEMMA OneMore ==
  ASSUME NEW S, NEW x, IsFiniteSet(S), x \notin S
  PROVE  Cardinality(S \cup {x}) = Cardinality(S) + 1
BY FS_AddElement

LEMMA OneLess ==
  ASSUME NEW S, NEW x, IsFiniteSet(S), x \in S
  PROVE  Cardinality(S \ {x}) = Cardinality(S) - 1
BY FS_RemoveElement

\* As long as somebody holds a message, there is room to release it.
LEMMA RoomToRelease ==
  ASSUME TypeOK, CountConserved, NEW t \in Holders
  PROVE  head < Capacity
<1>1. Cardinality(Holders) # 0
  BY FiniteCrowds, FS_EmptySet
<1> DEFINE c == Cardinality(Claimants)
           h == Cardinality(Holders)
<1>2. c \in Nat /\ h \in Nat /\ h # 0 /\ head \in Nat /\ head + c + h = Capacity
  BY <1>1, FiniteCrowds, CountOf, Constants DEF TypeOK
<1> HIDE DEF c, h
<1> QED
  BY <1>2, Constants

\* Every step moves a message between head, claimants and holders, or none.
LEMMA CountPreserved ==
  ASSUME TypeOK, CallsInProgress, CountConserved, [Next]_vars
  PROVE  CountConserved'
<1> DEFINE c == Cardinality(Claimants)
           h == Cardinality(Holders)
<1>0. c \in Nat /\ h \in Nat /\ head \in Nat /\ head + c + h = Capacity
  BY FiniteCrowds, CountOf, Constants DEF TypeOK
<1>a. ASSUME head' = head, Claimants' = Claimants, Holders' = Holders PROVE CountConserved'
  BY <1>0, <1>a, CountOfLater
<1>1. ASSUME NEW t \in Threads, AcquireLoad(t) PROVE CountConserved'
  <2>1. /\ head' = head /\ held' = held /\ pc[t] = "idle" /\ pc'[t] = "acq_cas"
        /\ \A u \in Threads : u # t => pc'[u] = pc[u]
    BY <1>1 DEF AcquireLoad, TypeOK
  <2>2. Claimants' = Claimants /\ Holders' = Holders
    BY <2>1 DEF Claimants, Holders
  <2> QED
    BY <1>a, <2>1, <2>2
<1>2. ASSUME NEW t \in Threads, AcquireCas(t) PROVE CountConserved'
  <2>1. /\ head' = head - 1 /\ held' = held /\ pc[t] = "acq_cas" /\ pc'[t] = "acq_read"
        /\ held[t] = None /\ \A u \in Threads : u # t => pc'[u] = pc[u]
    BY <1>2 DEF AcquireCas, TypeOK, CallsInProgress, Acquiring
  <2>2. Claimants' = Claimants \cup {t} /\ t \notin Claimants /\ Holders' = Holders
    BY <2>1 DEF Claimants, Holders
  <2>3. Cardinality(Claimants') = c + 1 /\ Cardinality(Holders') = h
    BY <2>2, OneMore, FiniteCrowds
  <2> HIDE DEF c, h
  <2> QED
    BY <1>0, <2>1, <2>3, CountOfLater, Constants
<1>3. ASSUME NEW t \in Threads, AcquireRetry(t) PROVE CountConserved'
  <2>1. /\ head' = head /\ held' = held /\ pc[t] = "acq_cas" /\ pc'[t] \in {"acq_cas", "idle"}
        /\ held[t] = None /\ \A u \in Threads : u # t => pc'[u] = pc[u]
    BY <1>3 DEF AcquireRetry, TypeOK, CallsInProgress, Acquiring
  <2>2. Claimants' = Claimants /\ Holders' = Holders
    BY <2>1 DEF Claimants, Holders
  <2> QED
    BY <1>a, <2>1, <2>2
<1>4. ASSUME NEW t \in Threads, AcquireRead(t) PROVE CountConserved'
  <2>1. seen[t] - 1 \in Messages
    BY <1>4, Constants DEF AcquireRead, TypeOK, CallsInProgress, Acquiring
  <2>2. /\ head' = head /\ held[t] = None /\ held'[t] # None /\ pc[t] = "acq_read" /\ pc'[t] = "idle"
        /\ \A u \in Threads : u # t => pc'[u] = pc[u] /\ held'[u] = held[u]
    BY <1>4, <2>1, Constants DEF AcquireRead, TypeOK, CallsInProgress, Acquiring
  <2>3. /\ Claimants' = Claimants \ {t} /\ t \in Claimants
        /\ Holders' = Holders \cup {t} /\ t \notin Holders
    BY <2>2 DEF Claimants, Holders
  <2>4. Cardinality(Claimants') = c - 1 /\ Cardinality(Holders') = h + 1
    BY <2>3, OneLess, OneMore, FiniteCrowds
  <2> HIDE DEF c, h
  <2> QED
    BY <1>0, <2>2, <2>4, CountOfLater, Constants
<1>5. ASSUME NEW t \in Threads, ReleaseLoad(t) PROVE CountConserved'
  <2>1. t \in Holders
    BY <1>5 DEF ReleaseLoad, Holders
  <2>2. head < Capacity
    BY <2>1, RoomToRelease
  <2>3. /\ head' = head /\ held' = held /\ pc[t] = "idle" /\ pc'[t] = "rel_cas"
        /\ \A u \in Threads : u # t => pc'[u] = pc[u]
    BY <1>5, <2>2 DEF ReleaseLoad, TypeOK
  <2>4. Claimants' = Claimants /\ Holders' = Holders
    BY <2>3 DEF Claimants, Holders
  <2> QED
    BY <1>a, <2>3, <2>4
<1>6. ASSUME NEW t \in Threads, ReleaseCas(t) PROVE CountConserved'
  <2>1. /\ head' = head + 1 /\ held' = held /\ pc[t] = "rel_cas" /\ pc'[t] = "rel_write"
        /\ held[t] # None /\ \A u \in Threads : u # t => pc'[u] = pc[u]
    BY <1>6 DEF ReleaseCas, TypeOK, CallsInProgress, Releasing
  <2>2. Claimants' = Claimants /\ Holders' = Holders \ {t} /\ t \in Holders
    BY <2>1 DEF Claimants, Holders
  <2>3. Cardinality(Claimants') = c /\ Cardinality(Holders') = h - 1
    BY <2>2, OneLess, FiniteCrowds
  <2> HIDE DEF c, h
  <2> QED
    BY <1>0, <2>1, <2>3, CountOfLater, Constants
<1>7. ASSUME NEW t \in Threads, ReleaseRetry(t) PROVE CountConserved'
  <2>1. t \in Holders
    BY <1>7 DEF ReleaseRetry, Holders, CallsInProgress, Releasing
  <2>2. head < Capacity
    BY <2>1, RoomToRelease
  <2>3. head' = head /\ held' = held /\ pc' = pc
    BY <1>7, <2>2 DEF ReleaseRetry
  <2>4. Claimants' = Claimants /\ Holders' = Holders
    BY <2>3 DEF Claimants, Holders
  <2> QED
    BY <1>a, <2>3, <2>4
<1>8. ASSUME NEW t \in Threads, ReleaseWrite(t) PROVE CountConserved'
  <2>1. /\ head' = head /\ held'[t] = None /\ pc[t] = "rel_write" /\ pc'[t] = "idle"
        /\ \A u \in Threads : u # t => pc'[u] = pc[u] /\ held'[u] = held[u]
    BY <1>8 DEF ReleaseWrite, TypeOK
  <2>2. Claimants' = Claimants /\ Holders' = Holders
    BY <2>1 DEF Claimants, Holders
  <2> QED
    BY <1>a, <2>1, <2>2
<1>9. ASSUME UNCHANGED vars PROVE CountConserved'
  <2>1. head' = head /\ Claimants' = Claimants /\ Holders' = Holders
    BY <1>9 DEF vars, Claimants, Holders
  <2> QED
    BY <1>a, <2>1
<1> QED
  BY <1>1, <1>2, <1>3, <1>4, <1>5, <1>6, <1>7, <1>8, <1>9 DEF Next, Continue

LEMMA InitCount == Init => CountConserved
<1> SUFFICES ASSUME Init PROVE CountConserved
  OBVIOUS
<1>1. Claimants = {} /\ Holders = {}
  BY DEF Init, Claimants, Holders
<1>2. Cardinality(Claimants) = 0 /\ Cardinality(Holders) = 0
  BY <1>1, FS_EmptySet
<1> QED
  BY <1>2, CountOf, Constants DEF Init

\* head counts the messages nobody has claimed, whether calls mix or not
\* (message_pool.cpp:66, :100).
THEOREM CountIsConserved == Spec => []CountConserved
<1>1. Init => TypeOK /\ CallsInProgress /\ CountConserved
  BY InitPoolInv, InitCount DEF PoolInv
<1>2. TypeOK /\ CallsInProgress /\ CountConserved /\ [Next]_vars
        => TypeOK' /\ CallsInProgress' /\ CountConserved'
  BY NextTyped, CountPreserved
<1> QED
  BY <1>1, <1>2, PTL DEF Spec

\* Who holds a message before a step, but for a thread that hands it back or
\* takes one.
LEMMA NoneLostPreserved ==
  ASSUME PoolInv, CountConserved, NoneLost, [Next]_vars
  PROVE  NoneLost'
<1> USE Constants DEF PoolInv
<1>0. ASSUME NEW m \in Messages,
             \A i \in Messages : Live(i) => Live(i)', freeList' = freeList, held' = held
      PROVE  (\E i \in Messages : Live(i) /\ freeList[i] = m)'
               \/ (\E t \in Threads : held[t] = m)'
  BY <1>0 DEF NoneLost
<1>1. ASSUME NEW t \in Threads, AcquireLoad(t) PROVE NoneLost'
  <2>1. \A i \in Messages : Live(i) => Live(i)'
    BY <1>1 DEF AcquireLoad, Live, TypeOK
  <2> QED
    BY <1>0, <1>1, <2>1 DEF AcquireLoad, NoneLost
<1>2. ASSUME NEW t \in Threads, AcquireCas(t) PROVE NoneLost'
  <2>1. head' = head - 1 /\ seen' = seen /\ seen[t] = head /\ pc[t] = "acq_cas" /\ pc'[t] = "acq_read"
        /\ \A u \in Threads : u # t => pc'[u] = pc[u]
    BY <1>2 DEF AcquireCas, TypeOK
  <2>2. ASSUME NEW i \in Messages, Live(i) PROVE Live(i)'
    <3>1. CASE \E u \in Threads : pc[u] = "acq_read" /\ seen[u] = i + 1
      BY <2>1, <3>1 DEF Live
    <3>2. CASE i < head /\ \A u \in Threads : pc[u] = "rel_write" => seen[u] # i
      <4>1. CASE i = head - 1
        BY <2>1, <4>1 DEF Live, TypeOK
      <4>2. CASE i # head - 1
        <5>1. i < head'
          BY <2>1, <3>2, <4>2 DEF TypeOK
        <5> QED
          BY <2>1, <3>2, <5>1 DEF Live
      <4> QED
        BY <4>1, <4>2
    <3> QED
      BY <2>2, <3>1, <3>2 DEF Live
  <2> QED
    BY <1>0, <1>2, <2>2 DEF AcquireCas, NoneLost
<1>3. ASSUME NEW t \in Threads, AcquireRetry(t) PROVE NoneLost'
  <2>1. \A i \in Messages : Live(i) => Live(i)'
    BY <1>3 DEF AcquireRetry, Live, TypeOK
  <2> QED
    BY <1>0, <1>3, <2>1 DEF AcquireRetry, NoneLost
<1>4. ASSUME NEW t \in Threads, AcquireRead(t) PROVE NoneLost'
  <2> DEFINE k == seen[t] - 1
  <2>1. /\ pc[t] = "acq_read" /\ pc'[t] = "idle" /\ held[t] = None /\ held'[t] = freeList[k]
        /\ head' = head /\ seen' = seen /\ freeList' = freeList
        /\ \A u \in Threads : u # t => pc'[u] = pc[u] /\ held'[u] = held[u]
    BY <1>4 DEF AcquireRead, TypeOK, CallsInProgress, Acquiring
  <2>2. ASSUME NEW i \in Messages, Live(i), i # k PROVE Live(i)'
    <3>1. CASE i < head /\ \A u \in Threads : pc[u] = "rel_write" => seen[u] # i
      BY <2>1, <3>1 DEF Live
    <3>2. CASE \E u \in Threads : pc[u] = "acq_read" /\ seen[u] = i + 1
      <4>1. PICK u \in Threads : pc[u] = "acq_read" /\ seen[u] = i + 1
        BY <3>2
      <4>2. u # t
        BY <2>2, <4>1 DEF TypeOK
      <4> QED
        BY <2>1, <4>1, <4>2 DEF Live
    <3> QED
      BY <2>2, <3>1, <3>2 DEF Live
  <2> HIDE DEF k
  <2>3. ASSUME NEW m \in Messages
        PROVE  (\E i \in Messages : Live(i)' /\ freeList'[i] = m) \/ \E u \in Threads : held'[u] = m
    <3>1. CASE \E u \in Threads : held[u] = m
      BY <2>1, <3>1
    <3>2. CASE \E i \in Messages : Live(i) /\ freeList[i] = m
      BY <2>1, <2>2, <3>2
    <3> QED
      BY <3>1, <3>2 DEF NoneLost
  <2> QED
    BY <2>3 DEF NoneLost
<1>5. ASSUME NEW t \in Threads, ReleaseLoad(t) PROVE NoneLost'
  <2>1. head < Capacity
    BY <1>5, RoomToRelease DEF ReleaseLoad, Holders
  <2>2. \A i \in Messages : Live(i) => Live(i)'
    BY <1>5, <2>1 DEF ReleaseLoad, Live, TypeOK
  <2> QED
    BY <1>0, <1>5, <2>1, <2>2 DEF ReleaseLoad, NoneLost
<1>6. ASSUME NEW t \in Threads, ReleaseCas(t) PROVE NoneLost'
  <2>1. head' = head + 1 /\ seen' = seen /\ seen[t] = head /\ pc[t] = "rel_cas" /\ pc'[t] = "rel_write"
        /\ \A u \in Threads : u # t => pc'[u] = pc[u]
    BY <1>6 DEF ReleaseCas, TypeOK
  <2>2. ASSUME NEW i \in Messages, Live(i) PROVE Live(i)'
    <3>1. CASE \E u \in Threads : pc[u] = "acq_read" /\ seen[u] = i + 1
      BY <2>1, <3>1 DEF Live
    <3>2. CASE i < head /\ \A u \in Threads : pc[u] = "rel_write" => seen[u] # i
      <4>1. i < head' /\ seen[t] # i
        BY <2>1, <3>2 DEF TypeOK
      <4> QED
        BY <2>1, <3>2, <4>1 DEF Live
    <3> QED
      BY <2>2, <3>1, <3>2 DEF Live
  <2> QED
    BY <1>0, <1>6, <2>2 DEF ReleaseCas, NoneLost
<1>7. ASSUME NEW t \in Threads, ReleaseRetry(t) PROVE NoneLost'
  <2>1. head < Capacity
    BY <1>7, RoomToRelease DEF ReleaseRetry, Holders, CallsInProgress, Releasing
  <2>2. \A i \in Messages : Live(i) => Live(i)'
    BY <1>7, <2>1 DEF ReleaseRetry, Live, TypeOK
  <2> QED
    BY <1>0, <1>7, <2>1, <2>2 DEF ReleaseRetry, NoneLost
<1>8. ASSUME NEW t \in Threads, ReleaseWrite(t) PROVE NoneLost'
  <2> DEFINE k == seen[t]
  <2>1. /\ pc[t] = "rel_write" /\ pc'[t] = "idle" /\ k < head /\ k \in Messages
        /\ freeList'[k] = held[t] /\ head' = head /\ seen' = seen
        /\ \A i \in Messages : i # k => freeList'[i] = freeList[i]
        /\ \A u \in Threads : u # t => pc'[u] = pc[u] /\ held'[u] = held[u]
    BY <1>8 DEF ReleaseWrite, TypeOK, ClaimsDisjoint
  <2>2. \A u \in Threads : pc[u] # "acq_read"
    BY <2>1 DEF OneKindAtATime, Acquiring, Releasing
  <2>3. \A i \in Messages : i = k => ~Live(i) /\ Live(i)'
    BY <2>1, <2>2 DEF Live, ClaimsDisjoint
  <2>4. ASSUME NEW i \in Messages, Live(i) PROVE Live(i)' /\ i # k
    BY <2>1, <2>2, <2>3, <2>4 DEF Live
  <2> HIDE DEF k
  <2>5. ASSUME NEW m \in Messages
        PROVE  (\E i \in Messages : Live(i)' /\ freeList'[i] = m) \/ \E u \in Threads : held'[u] = m
    <3>1. CASE held[t] = m
      BY <2>1, <2>3, <3>1
    <3>2. CASE \E u \in Threads : u # t /\ held[u] = m
      BY <2>1, <3>2
    <3>3. CASE \E i \in Messages : Live(i) /\ freeList[i] = m
      BY <2>1, <2>4, <3>3
    <3> QED
      BY <3>1, <3>2, <3>3 DEF NoneLost
  <2> QED
    BY <2>5 DEF NoneLost
<1>9. ASSUME UNCHANGED vars PROVE NoneLost'
  <2>1. \A i \in Messages : Live(i) => Live(i)'
    BY <1>9 DEF vars, Live
  <2> QED
    BY <1>0, <1>9, <2>1 DEF vars, NoneLost
<1> QED
  BY <1>1, <1>2, <1>3, <1>4, <1>5, <1>6, <1>7, <1>8, <1>9 DEF Next, Continue

\* When acquires never overlap releases, no message leaks: a release never finds
\* the pool full, and a claimed entry is neither overwritten nor forgotten.
THEOREM NothingLeaks ==
  ASSUME ~Mixed
  PROVE  Spec => []NoneLost
<1>1. Init => NoneLost
  BY Constants DEF Init, NoneLost, Live
<1>2. PoolInv /\ CountConserved /\ NoneLost /\ [Next]_vars => NoneLost'
  BY NoneLostPreserved
<1> QED
  BY <1>1, <1>2, PoolInvariant, CountIsConserved, PTL DEF Spec
================================================================================
