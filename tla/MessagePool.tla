------------------------------ MODULE MessagePool ------------------------------
(***************************************************************************)
(* The fixed-size pool of src/message_pool.cpp: a stack of free messages,  *)
(* free_list[0 .. head-1], whose top is an atomic counter.  A call first   *)
(* moves head with a compare-and-swap and only then reads or writes the    *)
(* entry it has claimed, so two calls interleave between the two.          *)
(*                                                                         *)
(* A thread holds at most one message; one that holds several stands for   *)
(* as many threads.                                                        *)
(***************************************************************************)
EXTENDS Naturals, FiniteSets

CONSTANTS
  Capacity,  \* number of messages
  Threads,   \* the callers
  None,      \* a null pointer
  Mixed      \* TRUE: acquire and release calls may overlap in time

ASSUME PoolAssumption ==
  /\ Capacity \in Nat \ {0}
  /\ IsFiniteSet(Threads)
  /\ None \notin 0 .. Capacity - 1
  /\ Mixed \in BOOLEAN

VARIABLES
  head,      \* atomic: number of free messages
  freeList,  \* the free messages, then entries that mean nothing
  pc,        \* where each thread's call stands
  seen,      \* the head each call works with
  held       \* the message each thread owns or is releasing

vars == <<head, freeList, pc, seen, held>>
--------------------------------------------------------------------------------
\* Message i is  data + i * msg_size.
Messages == 0 .. Capacity - 1

Acquiring == {"acq_cas", "acq_read"}
Releasing == {"rel_cas", "rel_write"}

\* Unless calls may mix, a call waits for those of the other kind to return.
MayStart(others) == Mixed \/ \A u \in Threads : pc[u] \notin others

\* pool_create
Init ==
  /\ head = Capacity
  /\ freeList = [i \in Messages |-> i]
  /\ pc = [t \in Threads |-> "idle"]
  /\ seen = [t \in Threads |-> 0]
  /\ held = [t \in Threads |-> None]

(* pool_acquire *)

\* The load of head; on an empty pool the call returns nullptr at once.
AcquireLoad(t) ==
  /\ pc[t] = "idle" /\ held[t] = None
  /\ MayStart(Releasing)
  /\ head > 0
  /\ seen' = [seen EXCEPT ![t] = head]
  /\ pc' = [pc EXCEPT ![t] = "acq_cas"]
  /\ UNCHANGED <<head, freeList, held>>

\* Fault: head is decremented whatever it is by now.
FaultAcquireCas(t) ==
  /\ pc[t] = "acq_cas"
  /\ head > 0
  /\ head' = head - 1
  /\ pc' = [pc EXCEPT ![t] = "acq_read"]
  /\ UNCHANGED <<freeList, seen, held>>

AcquireCas(t) ==
  /\ pc[t] = "acq_cas"
  /\ head = seen[t]
  /\ head' = head - 1
  /\ pc' = [pc EXCEPT ![t] = "acq_read"]
  /\ UNCHANGED <<freeList, seen, held>>

\* Faults: a retry does not test for an empty pool again, and one goes on with
\* the head that has failed.
FaultAcquireSpins(t) ==
  /\ pc[t] = "acq_cas"
  /\ pc' = [pc EXCEPT ![t] = IF seen[t] > 0 THEN "acq_cas" ELSE "idle"]
  /\ UNCHANGED <<head, freeList, seen, held>>

FaultAcquireRetry(t) ==
  /\ pc[t] = "acq_cas"
  /\ seen' = [seen EXCEPT ![t] = head]
  /\ UNCHANGED <<head, freeList, held, pc>>

\* The weak compare-and-swap failed, perhaps spuriously: head is loaded again
\* and the call returns nullptr if the pool is empty by now.
AcquireRetry(t) ==
  /\ pc[t] = "acq_cas"
  /\ seen' = [seen EXCEPT ![t] = head]
  /\ pc' = [pc EXCEPT ![t] = IF head > 0 THEN "acq_cas" ELSE "idle"]
  /\ UNCHANGED <<head, freeList, held>>

AcquireRead(t) ==
  /\ pc[t] = "acq_read"
  /\ held' = [held EXCEPT ![t] = freeList[seen[t] - 1]]
  /\ pc' = [pc EXCEPT ![t] = "idle"]
  /\ UNCHANGED <<head, freeList, seen>>

(* pool_release *)

\* Load of head; a release on a full pool would return without effect.
ReleaseLoad(t) ==
  /\ pc[t] = "idle" /\ held[t] # None
  /\ MayStart(Acquiring)
  /\ seen' = [seen EXCEPT ![t] = head]
  /\ IF head < Capacity
       THEN /\ pc' = [pc EXCEPT ![t] = "rel_cas"]
            /\ UNCHANGED held
       ELSE /\ held' = [held EXCEPT ![t] = None]
            /\ UNCHANGED pc
  /\ UNCHANGED <<head, freeList>>

\* Fault: head is incremented whatever it is by now.
FaultReleaseCas(t) ==
  /\ pc[t] = "rel_cas"
  /\ head < Capacity
  /\ head' = head + 1
  /\ pc' = [pc EXCEPT ![t] = "rel_write"]
  /\ UNCHANGED <<freeList, seen, held>>

ReleaseCas(t) ==
  /\ pc[t] = "rel_cas"
  /\ head = seen[t]
  /\ head' = head + 1
  /\ pc' = [pc EXCEPT ![t] = "rel_write"]
  /\ UNCHANGED <<freeList, seen, held>>

\* Fault: a release returns after one failed compare-and-swap.
FaultReleaseRetry(t) ==
  /\ pc[t] = "rel_cas"
  /\ seen' = [seen EXCEPT ![t] = head]
  /\ pc' = [pc EXCEPT ![t] = "idle"]
  /\ held' = [held EXCEPT ![t] = None]
  /\ UNCHANGED <<head, freeList>>

\* A failed compare-and-swap leaves the current head in the local variable.
ReleaseRetry(t) ==
  /\ pc[t] = "rel_cas"
  /\ seen' = [seen EXCEPT ![t] = head]
  /\ IF head < Capacity
       THEN UNCHANGED <<pc, held>>
       ELSE /\ pc' = [pc EXCEPT ![t] = "idle"]
            /\ held' = [held EXCEPT ![t] = None]
  /\ UNCHANGED <<head, freeList>>

ReleaseWrite(t) ==
  /\ pc[t] = "rel_write"
  /\ freeList' = [freeList EXCEPT ![seen[t]] = held[t]]
  /\ held' = [held EXCEPT ![t] = None]
  /\ pc' = [pc EXCEPT ![t] = "idle"]
  /\ UNCHANGED <<head, seen>>

\* A call under way goes on.
Continue(t) ==
  \/ AcquireCas(t) \/ AcquireRetry(t) \/ AcquireRead(t)
  \/ ReleaseCas(t) \/ ReleaseRetry(t) \/ ReleaseWrite(t)

Next == \E t \in Threads : AcquireLoad(t) \/ ReleaseLoad(t) \/ Continue(t)

Spec == Init /\ [][Next]_vars

\* Every thread is scheduled while it is in a call, and a compare-and-swap on
\* the head of the moment does not fail for ever.  Nobody has to call.
FairSpec == Spec /\ \A t \in Threads : WF_vars(Continue(t))
--------------------------------------------------------------------------------
\* head counts from 0 to the capacity and never wraps below or above, whatever
\* calls race and retry (message_pool.cpp:66, :100), and what a caller holds
\* or the free list names is a message of the pool.
TypeOK ==
  /\ head \in 0 .. Capacity
  /\ freeList \in [Messages -> Messages]
  /\ pc \in [Threads -> {"idle"} \cup Acquiring \cup Releasing]
  /\ seen \in [Threads -> 0 .. Capacity]
  /\ held \in [Threads -> Messages \cup {None}]

\* An entry has a meaning below head, unless a release has claimed it and not
\* yet written it, and at or above head only for the acquire that claimed it.
Live(i) ==
  \/ i < head /\ \A u \in Threads : pc[u] = "rel_write" => seen[u] # i
  \/ \E u \in Threads : pc[u] = "acq_read" /\ seen[u] = i + 1

Owns(t, m) == pc[t] = "idle" /\ held[t] = m

\* A message belongs to one thread at a time: message_pool.hpp:36 promises the
\* pointer of pool_acquire to its caller "until pool_release() called".  It
\* holds as long as no acquire overlaps a release; acquires may overlap each
\* other, and so may releases.
ExclusiveOwnership ==
  \A m \in Messages : \A t, u \in Threads : Owns(t, m) /\ Owns(u, m) => t = u

\* No message leaks: each one is held, or free in an entry with a meaning, or
\* on its way between the two inside a call.
NoneLost ==
  \A m \in Messages :
    \/ \E i \in Messages : Live(i) /\ freeList[i] = m
    \/ \E t \in Threads : held[t] = m

\* head counts exactly the messages that no thread has claimed, through
\* every failed and retried compare-and-swap; so pool_available never lies
\* and a release always finds room.
CountConserved ==
  head + Cardinality({t \in Threads : pc[t] = "acq_read"})
       + Cardinality({t \in Threads : held[t] # None /\ pc[t] # "rel_write"})
    = Capacity

\* A caller is never kept in the retry loop for ever by the others
\* (message_pool.cpp:66, :100): while calls of one kind race, head moves one way
\* and stops, so each of them claims an entry or finds the pool empty.
EveryCallReturns == \A t \in Threads : pc[t] # "idle" ~> pc[t] = "idle"
--------------------------------------------------------------------------------
(* The inductive invariants *)

\* What a call in progress knows; it holds for mixed calls as well.
CallsInProgress ==
  \A t \in Threads :
    /\ pc[t] \in Acquiring => held[t] = None /\ seen[t] > 0
    /\ pc[t] \in Releasing => held[t] # None /\ seen[t] < Capacity

\* No acquire overlaps a release.
OneKindAtATime ==
  \A t, u \in Threads : ~(pc[t] \in Acquiring /\ pc[u] \in Releasing)

\* A claimed entry is on the far side of head and has one claimant.
ClaimsDisjoint ==
  \A t \in Threads :
    /\ pc[t] = "acq_read" => seen[t] > head
    /\ pc[t] = "rel_write" => seen[t] < head
    /\ \A u \in Threads :
         t # u /\ pc[t] = pc[u] /\ pc[t] \in {"acq_read", "rel_write"}
           => seen[t] # seen[u]

\* Every message is named at most once, by a live entry or by a thread.
NamedOnce ==
  /\ \A i, j \in Messages : Live(i) /\ Live(j) /\ freeList[i] = freeList[j] => i = j
  /\ \A i \in Messages : \A t \in Threads : Live(i) => freeList[i] # held[t]
  /\ \A t, u \in Threads : t # u /\ held[t] # None => held[t] # held[u]

PoolInv == TypeOK /\ CallsInProgress /\ OneKindAtATime /\ ClaimsDisjoint /\ NamedOnce
================================================================================
