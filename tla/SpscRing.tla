-------------------------------- MODULE SpscRing --------------------------------
(***************************************************************************)
(* The shared-memory single-producer single-consumer ring of src/ring.cpp, *)
(* at the grain of its memory accesses: every load of an index, every word *)
(* of a memcpy and every store of an index is a step, so that the producer *)
(* (the parser process) and the consumer (the worker process) interleave   *)
(* inside a call.  Either process may be killed between two steps and      *)
(* started again on the same ring.                                         *)
(*                                                                         *)
(* head and tail count modulo Modulus (2^32 in the code); an element lives *)
(* in slot  index & mask, which is index % Slots as Slots is a power of 2. *)
(* An element is copied in Words pieces, in any order; a slot in which     *)
(* every word holds m contains the message m whole.                        *)
(***************************************************************************)
EXTENDS Naturals, Sequences

CONSTANTS
  Slots,       \* number of slots of the ring: mask + 1
  Modulus,     \* number of values of a head or tail counter
  Words,       \* pieces in which memcpy moves one element
  Msgs,        \* messages the producer may push
  Blank,       \* content of the zeroed memory of a fresh ring
  StaleLoads,  \* TRUE: an acquire load may return an older value of the index
  MaxCrashes,  \* bound on process restarts
  AllowReset   \* TRUE: spsc_reset is called while no call is in progress

ASSUME RingAssumption ==
  /\ Slots \in Nat \ {0}
  /\ Modulus \in Nat \ {0}
  /\ \E k \in 1 .. Modulus : Modulus = Slots * k
  /\ Blank \notin Msgs
  /\ StaleLoads \in BOOLEAN
  /\ MaxCrashes \in Nat
  /\ AllowReset \in BOOLEAN

VARIABLES
  head, tail,  \* the shared atomic indices
  data,        \* the shared slots
  pPc, pHead, pTail, pMsg, pDone, pResult,  \* the producer's call
  cPc, cTail, cHead, cBuf, cDone, cResult,  \* the consumer's call
  crashes

prodVars == <<pPc, pHead, pTail, pMsg, pDone, pResult>>
consVars == <<cPc, cTail, cHead, cBuf, cDone, cResult>>
vars == <<head, tail, data, prodVars, consVars, crashes>>
--------------------------------------------------------------------------------
Indices == 0 .. Modulus - 1
Slot(i) == i % Slots

\* Fault: the index grows past the width of its type.
FaultInc(i) == i + 1

\* uint32_t index + 1, which wraps.
Inc(i) == IF i + 1 = Modulus THEN 0 ELSE i + 1

\* How many increments lead from index a to index b.
Dist(a, b) == IF a <= b THEN b - a ELSE b + Modulus - a

\* A load of an index last seen as `seen' and now equal to `current' returns
\* a value it has had since: coherence never goes back.
Visible(seen, current) ==
  IF StaleLoads
    THEN {i \in Indices : Dist(seen, i) <= Dist(seen, current)}
    ELSE {current}

Whole(m) == [w \in Words |-> m]

\* spsc_create and spsc_create_shared: both indices 0 and the slots zeroed.
Init ==
  /\ head = 0 /\ tail = 0
  /\ data = [s \in 0 .. Slots - 1 |-> Whole(Blank)]
  /\ pPc = "idle" /\ pHead = 0 /\ pTail = 0
  /\ pMsg = Blank /\ pDone = {} /\ pResult = "pending"
  /\ cPc = "idle" /\ cTail = 0 /\ cHead = 0
  /\ cBuf = Whole(Blank) /\ cDone = {} /\ cResult = "pending"
  /\ crashes = 0
--------------------------------------------------------------------------------
(* spsc_try_push *)

PushBegin(m) ==
  /\ pPc = "idle"
  /\ pPc' = "load_tail"
  /\ pMsg' = m
  /\ pHead' = head
  /\ pResult' = "pending"
  /\ UNCHANGED <<head, tail, data, pTail, pDone, consVars, crashes>>

PushFull ==
  /\ pPc = "load_tail"
  /\ \E t \in Visible(pTail, tail) :
       /\ Slot(Inc(pHead)) = Slot(t)
       /\ pTail' = t
  /\ pPc' = "idle"
  /\ pResult' = "full"
  /\ UNCHANGED <<head, tail, data, pHead, pMsg, pDone, consVars, crashes>>

\* Faults: the push fills the last slot as well, and it does not test for a full
\* ring at all.
FaultLastSlot ==
  /\ pPc = "load_tail"
  /\ \E t \in Visible(pTail, tail) :
       /\ Dist(t, pHead) < Slots
       /\ pTail' = t
  /\ pPc' = "copy"
  /\ pDone' = {}
  /\ UNCHANGED <<head, tail, data, pHead, pMsg, pResult, consVars, crashes>>

FaultPushFits ==
  /\ pPc = "load_tail"
  /\ pTail' \in Visible(pTail, tail)
  /\ pPc' = "copy"
  /\ pDone' = {}
  /\ UNCHANGED <<head, tail, data, pHead, pMsg, pResult, consVars, crashes>>

PushFits ==
  /\ pPc = "load_tail"
  /\ \E t \in Visible(pTail, tail) :
       /\ Slot(Inc(pHead)) # Slot(t)
       /\ pTail' = t
  /\ pPc' = "copy"
  /\ pDone' = {}
  /\ UNCHANGED <<head, tail, data, pHead, pMsg, pResult, consVars, crashes>>

PushCopy(w) ==
  /\ pPc = "copy"
  /\ w \notin pDone
  /\ data' = [data EXCEPT ![Slot(pHead)][w] = pMsg]
  /\ pDone' = pDone \cup {w}
  /\ UNCHANGED <<head, tail, pPc, pHead, pTail, pMsg, pResult, consVars, crashes>>

\* Fault: head is stored before the element is complete.
FaultPushPublish ==
  /\ pPc = "copy"
  /\ head' = Inc(pHead)
  /\ pPc' = "idle"
  /\ pDone' = {}
  /\ pResult' = "pushed"
  /\ UNCHANGED <<tail, data, pHead, pTail, pMsg, consVars, crashes>>

PushPublish ==
  /\ pPc = "copy"
  /\ pDone = Words
  /\ head' = Inc(pHead)
  /\ pPc' = "idle"
  /\ pDone' = {}
  /\ pResult' = "pushed"
  /\ UNCHANGED <<tail, data, pHead, pTail, pMsg, consVars, crashes>>

ProducerStep ==
  \/ \E m \in Msgs : PushBegin(m)
  \/ PushFull \/ PushFits
  \/ \E w \in Words : PushCopy(w)
  \/ PushPublish
--------------------------------------------------------------------------------
(* spsc_try_pop *)

PopBegin ==
  /\ cPc = "idle"
  /\ cPc' = "load_head"
  /\ cTail' = tail
  /\ cResult' = "pending"
  /\ UNCHANGED <<head, tail, data, cHead, cBuf, cDone, prodVars, crashes>>

PopEmpty ==
  /\ cPc = "load_head"
  /\ cTail \in Visible(cHead, head)
  /\ cHead' = cTail
  /\ cPc' = "idle"
  /\ cResult' = "empty"
  /\ UNCHANGED <<head, tail, data, cTail, cBuf, cDone, prodVars, crashes>>

\* Faults: the last element is never popped, and an empty ring is popped as well.
FaultPopKeepsOne ==
  /\ cPc = "load_head"
  /\ \E h \in Visible(cHead, head) :
       /\ Dist(cTail, h) > 1
       /\ cHead' = h
  /\ cPc' = "copy"
  /\ cDone' = {}
  /\ UNCHANGED <<head, tail, data, cTail, cBuf, cResult, prodVars, crashes>>

FaultPopSome ==
  /\ cPc = "load_head"
  /\ cHead' \in Visible(cHead, head)
  /\ cPc' = "copy"
  /\ cDone' = {}
  /\ UNCHANGED <<head, tail, data, cTail, cBuf, cResult, prodVars, crashes>>

PopSome ==
  /\ cPc = "load_head"
  /\ \E h \in Visible(cHead, head) :
       /\ h # cTail
       /\ cHead' = h
  /\ cPc' = "copy"
  /\ cDone' = {}
  /\ UNCHANGED <<head, tail, data, cTail, cBuf, cResult, prodVars, crashes>>

PopCopy(w) ==
  /\ cPc = "copy"
  /\ w \notin cDone
  /\ cBuf' = [cBuf EXCEPT ![w] = data[Slot(cTail)][w]]
  /\ cDone' = cDone \cup {w}
  /\ UNCHANGED <<head, tail, data, cPc, cTail, cHead, cResult, prodVars, crashes>>

\* Fault: everything seen is released instead of the one element popped.
FaultPopRelease ==
  /\ cPc = "copy"
  /\ cDone = Words
  /\ tail' = cHead
  /\ cPc' = "idle"
  /\ cDone' = {}
  /\ cResult' = "popped"
  /\ UNCHANGED <<head, data, cTail, cHead, cBuf, prodVars, crashes>>

PopRelease ==
  /\ cPc = "copy"
  /\ cDone = Words
  /\ tail' = Inc(cTail)
  /\ cPc' = "idle"
  /\ cDone' = {}
  /\ cResult' = "popped"
  /\ UNCHANGED <<head, data, cTail, cHead, cBuf, prodVars, crashes>>

ConsumerStep ==
  \/ PopBegin \/ PopEmpty \/ PopSome
  \/ \E w \in Words : PopCopy(w)
  \/ PopRelease
--------------------------------------------------------------------------------
(* A killed process leaves the shared memory as it is; its successor       *)
(* attaches to the ring (spsc_attach_shared) and starts with a new call.   *)

ProducerCrash ==
  /\ crashes < MaxCrashes
  /\ crashes' = crashes + 1
  /\ pPc' = "idle"
  /\ pDone' = {}
  /\ pResult' = "pending"
  /\ UNCHANGED <<head, tail, data, pHead, pTail, pMsg, consVars>>

ConsumerCrash ==
  /\ crashes < MaxCrashes
  /\ crashes' = crashes + 1
  /\ cPc' = "idle"
  /\ cDone' = {}
  /\ cResult' = "pending"
  /\ UNCHANGED <<head, tail, data, cTail, cHead, cBuf, prodVars>>


\* spsc_reset; ring.hpp:72 forbids it while a push or a pop runs.
Reset ==
  /\ AllowReset
  /\ pPc = "idle" /\ cPc = "idle"
  /\ head' = 0 /\ tail' = 0
  /\ pTail' = 0 /\ cHead' = 0
  /\ UNCHANGED <<data, pPc, pHead, pMsg, pDone, pResult,
                 cPc, cTail, cBuf, cDone, cResult, crashes>>

Next == ProducerStep \/ ConsumerStep \/ ProducerCrash \/ ConsumerCrash \/ Reset

Spec == Init /\ [][Next]_vars

\* The worker polls the ring for as long as it runs; nothing obliges the
\* parser to push.  A poll may see an old head any number of times, but a store
\* becomes visible in finite time, so not for ever.
Fairness ==
  /\ WF_vars(ConsumerStep)
  /\ SF_vars(PopSome /\ cHead' = head)

FairSpec == Spec /\ Fairness
--------------------------------------------------------------------------------
\* Fault: the difference of the indices is off by one.
FaultOccupancy(h, t) == (Dist(t, h) + 1) % Slots

\* spsc_occupancy as its caller evaluates it on the two values it loaded.
Occupancy(h, t) == Dist(t, h) % Slots

\* The published, not yet popped elements, oldest first.
Contents ==
  [i \in 1 .. Dist(tail, head) |-> data[Slot(tail + i - 1)]]

\* The indices never leave the range of their type (they wrap, ring.cpp:74 and
\* :96), the slots hold only words of messages, and each call is at one of its
\* steps.
TypeOK ==
  /\ head \in Indices /\ tail \in Indices
  /\ data \in [0 .. Slots - 1 -> [Words -> Msgs \cup {Blank}]]
  /\ pPc \in {"idle", "load_tail", "copy"}
  /\ pHead \in Indices /\ pTail \in Indices
  /\ pMsg \in Msgs \cup {Blank}
  /\ pDone \in SUBSET Words
  /\ pResult \in {"pending", "pushed", "full"}
  /\ cPc \in {"idle", "load_head", "copy"}
  /\ cTail \in Indices /\ cHead \in Indices
  /\ cBuf \in [Words -> Msgs \cup {Blank}]
  /\ cDone \in SUBSET Words
  /\ cResult \in {"pending", "popped", "empty"}
  /\ crashes \in 0 .. MaxCrashes
--------------------------------------------------------------------------------
(* Safety *)

\* Around the counters the last tail the producer saw, tail, the last head the
\* consumer saw and head come in this order, and all of them lie within
\* Slots - 1 increments: the wrap of the 32-bit counters, a stale view of the
\* other side and a restart never let head lap tail (src/ring.cpp:61, 85).
IndexOrder ==
  Dist(pTail, tail) + Dist(tail, cHead) + Dist(cHead, head) <= Slots - 1

\* The two memcpy of src/ring.cpp:73 and :95 never run in the same slot.
NoOverlap ==
  pPc = "copy" /\ cPc = "copy" => Slot(pHead) # Slot(cTail)

\* Every published element, and every element a successful pop hands to its
\* caller, is one message whole, never words of two messages: also after
\* the producer was killed half way through a slot, or the consumer half way
\* through its copy.
NothingTorn ==
  /\ \A i \in 1 .. Dist(tail, head) : \E m \in Msgs : Contents[i] = Whole(m)
  /\ cResult = "popped" => \E m \in Msgs : cBuf = Whole(m)

\* What the two calls in progress know: their own index, that there is room
\* or an element, and what they have copied so far.
CallsInProgress ==
  /\ pPc # "idle" => pHead = head
  /\ cPc # "idle" => cTail = tail
  /\ pPc = "idle" \/ pMsg \in Msgs
  /\ pPc = "copy" =>
       /\ Dist(pTail, head) < Slots - 1
       /\ \A w \in pDone : data[Slot(head)][w] = pMsg
  /\ cPc = "copy" =>
       /\ tail # cHead
       /\ \A w \in cDone : cBuf[w] = data[Slot(tail)][w]
  /\ cResult = "popped" => cPc = "idle"

\* The inductive invariant.
IInv == TypeOK /\ IndexOrder /\ CallsInProgress /\ NothingTorn

--------------------------------------------------------------------------------
(* Refinement: the ring is a bounded FIFO of Slots - 1 whole messages.  A  *)
(* push takes effect when head is stored, a pop when tail is stored.       *)

Received == IF cResult = "popped" THEN <<cBuf>> ELSE <<>>

Fifo == INSTANCE BoundedFifo WITH
  Elems <- {Whole(m) : m \in Msgs}, Capacity <- Slots - 1,
  queue <- Contents, pushResult <- pResult, popResult <- cResult,
  received <- Received

\* In every interleaving of the two processes, with their restarts, the ring
\* behaves as the queue that include/ulmd/ring.hpp describes.
ImplementsFifo == Fifo!Spec

(* Liveness *)

\* A worker that keeps polling gets every message the parser published: once
\* nobody resets the ring any more, no message stays in it, or comes back to it
\* again and again, without being handed over again and again, however the
\* parser goes on or stops.
PublishedIsDelivered ==
  <>[][~Reset]_vars =>
    \A m \in Msgs :
      []<>(\E i \in DOMAIN Contents : Contents[i] = Whole(m))
        => []<>(cResult = "popped" /\ cBuf = Whole(m))
================================================================================
