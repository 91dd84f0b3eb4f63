----------------------------- MODULE SpscRingProofs -----------------------------
(***************************************************************************)
(* Proofs about SpscRing for every number of slots, every counter width,   *)
(* every set of messages and words and any number of restarts.             *)
(***************************************************************************)
EXTENDS SpscRing, Integers, SequenceTheorems, TLAPS

--------------------------------------------------------------------------------
(* Counters and slots *)

\* The number of slots is at least 1 and at most the number of counter values.
LEMMA Sizes ==
  /\ Slots \in Nat /\ Slots >= 1
  /\ Modulus \in Nat /\ Modulus >= Slots
  /\ Indices \subseteq Nat
<1>1. PICK k \in 1 .. Modulus : Modulus = Slots * k
  BY RingAssumption
<1>2. Slots \in Nat \ {0} /\ Modulus \in Nat \ {0}
  BY RingAssumption
<1>3. k \in Nat /\ k >= 1
  BY <1>2
<1>4. Slots * k >= Slots
  BY <1>2, <1>3, SMT
<1> QED
  BY <1>1, <1>2, <1>4 DEF Indices

\* Every counter value falls into a slot of the ring.
LEMMA SlotInRing ==
  ASSUME NEW i \in Nat
  PROVE  Slot(i) \in 0 .. Slots - 1
BY Sizes DEF Slot

\* Counters a whole number of laps apart fall into the same slot.
LEMMA SlotLaps ==
  ASSUME NEW i \in Nat, NEW k \in Nat
  PROVE  Slot(i + (Slots * k)) = Slot(i)
<1> DEFINE q == i \div Slots
           r == i % Slots
<1>1. i = (Slots * q) + r /\ q \in Nat /\ r \in 0 .. Slots - 1
  BY Sizes
<1>2. i + (Slots * k) = (Slots * (q + k)) + r
  BY <1>1, Sizes
<1>3. q + k \in Nat
  BY <1>1
<1> HIDE DEF q, r
<1>4. ((Slots * (q + k)) + r) % Slots = r
  BY <1>1, <1>3, Sizes
<1> QED
  BY <1>2, <1>4 DEF Slot, r

\* The wrap of a counter keeps its slot.
LEMMA SlotWrap ==
  ASSUME NEW i \in Nat
  PROVE  Slot(i + Modulus) = Slot(i)
BY RingAssumption, SlotLaps

\* Counters less than a lap apart fall into different slots.
LEMMA SlotsDiffer ==
  ASSUME NEW a \in Nat, NEW b \in Nat, a < b, b - a < Slots
  PROVE  Slot(a) # Slot(b)
<1> DEFINE qa == a \div Slots
           qb == b \div Slots
           ra == a % Slots
           rb == b % Slots
<1>1. a = (Slots * qa) + ra /\ qa \in Nat /\ ra \in 0 .. Slots - 1
  BY Sizes
<1>2. b = (Slots * qb) + rb /\ qb \in Nat /\ rb \in 0 .. Slots - 1
  BY Sizes
<1> HIDE DEF qa, qb, ra, rb
<1>3. SUFFICES ASSUME ra = rb PROVE FALSE
  BY DEF Slot, ra, rb
<1>4. b - a = Slots * (qb - qa)
  BY <1>1, <1>2, <1>3, Sizes
<1>5. CASE qb - qa >= 1
  <2>1. Slots * (qb - qa) >= Slots
    BY <1>1, <1>2, <1>5, Sizes
  <2> QED
    BY <2>1, <1>4, Sizes
<1>6. CASE qb - qa <= 0
  <2>1. Slots * (qb - qa) <= 0
    BY <1>1, <1>2, <1>6, Sizes
  <2> QED
    BY <2>1, <1>4, Sizes
<1> QED
  BY <1>1, <1>2, <1>5, <1>6

\* Distances add up as long as they stay below one turn of the counter.
LEMMA DistAdds ==
  ASSUME NEW a \in Indices, NEW b \in Indices, NEW c \in Indices,
         Dist(a, b) + Dist(b, c) < Modulus
  PROVE  Dist(a, c) = Dist(a, b) + Dist(b, c)
BY Sizes DEF Indices, Dist

\* A distance is a natural number below Modulus, and 0 between equals only.
LEMMA DistRange ==
  ASSUME NEW a \in Indices, NEW b \in Indices
  PROVE  /\ Dist(a, b) \in 0 .. Modulus - 1
         /\ Dist(a, b) = 0 <=> a = b
BY Sizes DEF Indices, Dist

\* Incrementing the far end adds one, incrementing the near end takes one off.
LEMMA DistInc ==
  ASSUME NEW a \in Indices, NEW b \in Indices
  PROVE  /\ Inc(a) \in Indices
         /\ Dist(a, b) < Modulus - 1 => Dist(a, Inc(b)) = Dist(a, b) + 1
         /\ a # b => Dist(Inc(a), b) = Dist(a, b) - 1
BY Sizes DEF Indices, Dist, Inc

\* Going Dist(a, b) increments from a leads to the slot of b.
LEMMA SlotAtDist ==
  ASSUME NEW a \in Indices, NEW b \in Indices
  PROVE  Slot(a + Dist(a, b)) = Slot(b)
<1>1. a \in Nat /\ b \in Nat
  BY Sizes
<1>2. CASE a <= b
  <2>1. a + Dist(a, b) = b
    BY <1>1, <1>2 DEF Dist
  <2> QED
    BY <2>1
<1>3. CASE ~(a <= b)
  <2>1. a + Dist(a, b) = b + Modulus
    BY <1>1, <1>3, Sizes DEF Dist
  <2> QED
    BY <2>1, <1>1, SlotWrap
<1> QED
  BY <1>2, <1>3

\* Incrementing a counter leads to the next slot, also when it wraps.
LEMMA SlotInc ==
  ASSUME NEW a \in Indices
  PROVE  \A i \in Nat : Slot(Inc(a) + i) = Slot(a + 1 + i)
<1> TAKE i \in Nat
<1>1. a \in Nat
  BY Sizes
<1>2. CASE a + 1 = Modulus
  <2>1. a + 1 + i = i + Modulus /\ Inc(a) + i = i
    BY <1>1, <1>2, Sizes DEF Inc
  <2> QED
    BY <2>1, SlotWrap
<1>3. CASE a + 1 # Modulus
  BY <1>3 DEF Inc
<1> QED
  BY <1>2, <1>3

\* The n-th counter value after a and the d-th one are in different slots
\* when both lie within one lap.
LEMMA SlotsWithinLap ==
  ASSUME NEW a \in Indices, NEW b \in Indices, Dist(a, b) < Slots,
         NEW i \in 1 .. Dist(a, b)
  PROVE  Slot(a + i - 1) # Slot(b)
<1>1. a \in Nat /\ Dist(a, b) \in Nat /\ a + i - 1 \in Nat
  BY Sizes, DistRange DEF Indices
<1>2. Slot(a + i - 1) # Slot(a + Dist(a, b))
  BY <1>1, SlotsDiffer, Sizes
<1> QED
  BY <1>2, SlotAtDist

\* The test of src/ring.cpp:61 fails to see room only when Slots - 1 elements
\* lie between the tail it read and the head.
LEMMA FullTest ==
  ASSUME NEW t \in Indices, NEW h \in Indices, Dist(t, h) <= Slots - 1
  PROVE  Slot(Inc(h)) = Slot(t) <=> Dist(t, h) = Slots - 1
<1>1. t \in Nat /\ h \in Nat /\ Dist(t, h) \in Nat /\ Inc(h) \in Nat
  BY Sizes, DistRange, DistInc DEF Indices
<1>2. Slot(Inc(h)) = Slot(h + 1)
  <2>1. Slot(Inc(h) + 0) = Slot(h + 1 + 0)
    BY SlotInc
  <2>2. Inc(h) + 0 = Inc(h) /\ h + 1 + 0 = h + 1
    BY <1>1
  <2> QED
    BY <2>1, <2>2
<1>3. Slot(h + 1) = Slot(t + Dist(t, h) + 1)
  <2>1. CASE t <= h
    <3>1. t + Dist(t, h) + 1 = h + 1
      BY <2>1, <1>1 DEF Dist
    <3> QED
      BY <3>1
  <2>2. CASE ~(t <= h)
    <3>1. t + Dist(t, h) + 1 = h + 1 + Modulus /\ h + 1 \in Nat
      BY <2>2, <1>1, Sizes DEF Dist
    <3> QED
      BY <3>1, SlotWrap
  <2> QED
    BY <2>1, <2>2
<1>4. CASE Dist(t, h) = Slots - 1
  <2>1. t + Dist(t, h) + 1 = t + (Slots * 1)
    BY <1>1, <1>4, Sizes
  <2>2. Slot(t + (Slots * 1)) = Slot(t)
    BY <1>1, SlotLaps
  <2> QED
    BY <1>2, <1>3, <1>4, <2>1, <2>2
<1>5. CASE Dist(t, h) < Slots - 1
  <2>1. t + Dist(t, h) + 1 \in Nat
    BY <1>1
  <2>2. t < t + Dist(t, h) + 1 /\ (t + Dist(t, h) + 1) - t < Slots
    BY <1>1, <1>5, Sizes
  <2>3. Slot(t) # Slot(t + Dist(t, h) + 1)
    BY <1>1, <2>1, <2>2, SlotsDiffer
  <2> QED
    BY <1>2, <1>3, <1>5, <2>3, Sizes
<1> QED
  BY <1>1, <1>4, <1>5, Sizes
--------------------------------------------------------------------------------
(* Type correctness *)

\* A load returns a counter value, no older than the last one seen and no
\* newer than the current one.
LEMMA LoadsAreCoherent ==
  ASSUME NEW seen \in Indices, NEW current \in Indices,
         NEW i \in Visible(seen, current)
  PROVE  /\ i \in Indices
         /\ Dist(seen, i) <= Dist(seen, current)
BY DistRange, Sizes DEF Visible, Indices

LEMMA InitTypeOK == Init => TypeOK
<1> SUFFICES ASSUME Init PROVE TypeOK
  OBVIOUS
<1>1. 0 \in Indices
  BY Sizes DEF Indices
<1>2. 0 \in 0 .. MaxCrashes
  BY RingAssumption
<1>3. Whole(Blank) \in [Words -> Msgs \cup {Blank}]
  BY DEF Whole
<1> QED
  BY <1>1, <1>2, <1>3 DEF Init, TypeOK

LEMMA NextTypeOK == TypeOK /\ [Next]_vars => TypeOK'
<1> SUFFICES ASSUME TypeOK, [Next]_vars PROVE TypeOK'
  OBVIOUS
<1> USE DEF TypeOK
<1>0. 0 \in Indices
  BY Sizes DEF Indices
<1>1. ASSUME NEW m \in Msgs, PushBegin(m) PROVE TypeOK'
  BY <1>1 DEF PushBegin, consVars
<1>2. ASSUME PushFull PROVE TypeOK'
  BY <1>2, LoadsAreCoherent DEF PushFull, consVars
<1>3. ASSUME PushFits PROVE TypeOK'
  BY <1>3, LoadsAreCoherent DEF PushFits, consVars
<1>4. ASSUME NEW w \in Words, PushCopy(w) PROVE TypeOK'
  <2>1. data' \in [0 .. Slots - 1 -> [Words -> Msgs \cup {Blank}]]
    BY <1>4 DEF PushCopy
  <2>2. pDone' \in SUBSET Words
    BY <1>4 DEF PushCopy
  <2> QED
    BY <1>4, <2>1, <2>2 DEF PushCopy, consVars
<1>5. ASSUME PushPublish PROVE TypeOK'
  BY <1>5, DistInc DEF PushPublish, consVars
<1>6. ASSUME PopBegin PROVE TypeOK'
  BY <1>6 DEF PopBegin, prodVars
<1>7. ASSUME PopEmpty PROVE TypeOK'
  BY <1>7 DEF PopEmpty, prodVars
<1>8. ASSUME PopSome PROVE TypeOK'
  BY <1>8, LoadsAreCoherent DEF PopSome, prodVars
<1>9. ASSUME NEW w \in Words, PopCopy(w) PROVE TypeOK'
  <2>1. Slot(cTail) \in 0 .. Slots - 1
    BY SlotInRing, Sizes
  <2>2. data[Slot(cTail)][w] \in Msgs \cup {Blank}
    BY <2>1
  <2>3. cBuf' \in [Words -> Msgs \cup {Blank}]
    BY <1>9, <2>2 DEF PopCopy
  <2>4. cDone' \in SUBSET Words
    BY <1>9 DEF PopCopy
  <2> QED
    BY <1>9, <2>3, <2>4 DEF PopCopy, prodVars
<1>10. ASSUME PopRelease PROVE TypeOK'
  BY <1>10, DistInc DEF PopRelease, prodVars
<1>11. ASSUME ProducerCrash PROVE TypeOK'
  BY <1>11, RingAssumption DEF ProducerCrash, consVars
<1>12. ASSUME ConsumerCrash PROVE TypeOK'
  BY <1>12, RingAssumption DEF ConsumerCrash, prodVars
<1>13. ASSUME Reset PROVE TypeOK'
  BY <1>13, <1>0 DEF Reset
<1>14. ASSUME UNCHANGED vars PROVE TypeOK'
  BY <1>14 DEF vars, prodVars, consVars
<1> QED
  BY <1>1, <1>2, <1>3, <1>4, <1>5, <1>6, <1>7, <1>8, <1>9, <1>10, <1>11,
     <1>12, <1>13, <1>14 DEF Next, ProducerStep, ConsumerStep

\* The variables keep their types in every reachable state.
THEOREM TypeCorrect == Spec => []TypeOK
BY InitTypeOK, NextTypeOK, PTL DEF Spec
--------------------------------------------------------------------------------
(* The inductive invariant *)

\* A value on the way from a to b splits the distance.
LEMMA DistSplits ==
  ASSUME NEW a \in Indices, NEW b \in Indices, NEW i \in Indices,
         Dist(a, i) <= Dist(a, b)
  PROVE  Dist(i, b) = Dist(a, b) - Dist(a, i)
BY Sizes DEF Indices, Dist

\* What the order of the indices says about the slots in use.
LEMMA Occupied ==
  ASSUME TypeOK, IndexOrder
  PROVE  /\ Dist(tail, head) = Dist(tail, cHead) + Dist(cHead, head)
         /\ Dist(pTail, head) = Dist(pTail, tail) + Dist(tail, head)
         /\ Dist(tail, head) \in 0 .. Slots - 1
         /\ Dist(pTail, head) \in 0 .. Slots - 1
<1>1. /\ Dist(pTail, tail) \in Nat
      /\ Dist(tail, cHead) \in Nat
      /\ Dist(cHead, head) \in Nat
  BY DistRange DEF TypeOK
<1>2. Dist(tail, head) = Dist(tail, cHead) + Dist(cHead, head)
  BY <1>1, DistAdds, Sizes DEF TypeOK, IndexOrder
<1>3. Dist(pTail, head) = Dist(pTail, tail) + Dist(tail, head)
  BY <1>1, <1>2, DistAdds, Sizes DEF TypeOK, IndexOrder
<1> QED
  BY <1>1, <1>2, <1>3, Sizes DEF IndexOrder

\* The slot the producer writes holds no unread element.
LEMMA HeadSlotFree ==
  ASSUME TypeOK, IndexOrder
  PROVE  /\ \A i \in 1 .. Dist(tail, head) : Slot(tail + i - 1) # Slot(head)
         /\ tail # head => Slot(tail) # Slot(head)
<1>1. \A i \in 1 .. Dist(tail, head) : Slot(tail + i - 1) # Slot(head)
  BY Occupied, SlotsWithinLap, Sizes DEF TypeOK
<1>2. ASSUME tail # head PROVE Slot(tail) # Slot(head)
  <2>1. 1 \in 1 .. Dist(tail, head)
    <3>1. Dist(tail, head) # 0
      BY <1>2, DistRange DEF TypeOK
    <3>2. Dist(tail, head) \in Nat
      BY Occupied, Sizes
    <3> QED
      BY <3>1, <3>2
  <2>2. tail + 1 - 1 = tail
    BY Sizes DEF TypeOK
  <2> QED
    BY <2>1, <2>2, <1>1
<1> QED
  BY <1>1, <1>2

\* The consumer that saw a head other than tail has an element to copy.
LEMMA SomeToRead ==
  ASSUME TypeOK, IndexOrder, tail # cHead
  PROVE  tail # head /\ Dist(tail, head) >= 1
<1>1. Dist(tail, cHead) \in Nat /\ Dist(tail, cHead) # 0 /\ Dist(cHead, head) \in Nat
  BY DistRange DEF TypeOK
<1>2. Dist(tail, head) >= 1
  BY <1>1, Occupied
<1>3. Dist(tail, head) # 0
  BY <1>2
<1> QED
  BY <1>2, <1>3, DistRange DEF TypeOK

\* A buffer whose every word is a word of m is the message m whole.
LEMMA EveryWord ==
  ASSUME NEW b \in [Words -> Msgs \cup {Blank}], NEW m,
         \A w \in Words : b[w] = m
  PROVE  b = Whole(m)
BY DEF Whole

\* NothingTorn speaks of head, tail, data, cResult and cBuf only.
LEMMA NothingTornKept ==
  ASSUME NothingTorn, UNCHANGED <<head, tail, data>>,
         cResult' = "popped" => cResult = "popped" /\ cBuf' = cBuf
  PROVE  NothingTorn'
BY DEF NothingTorn, Contents

LEMMA InitIInv == Init => IInv
<1> SUFFICES ASSUME Init PROVE IInv
  OBVIOUS
<1>1. TypeOK
  BY InitTypeOK
<1>2. Dist(0, 0) = 0
  BY DEF Dist
<1>3. IndexOrder
  BY <1>2, Sizes DEF Init, IndexOrder
<1>4. CallsInProgress
  BY DEF Init, CallsInProgress
<1>5. NothingTorn
  BY <1>2 DEF Init, NothingTorn
<1> QED
  BY <1>1, <1>3, <1>4, <1>5 DEF IInv

\* Every step of the producer preserves the invariant.
LEMMA ProducerPreserves ==
  ASSUME IInv, TypeOK', ProducerStep
  PROVE  IInv'
<1> USE DEF IInv
<1>1. ASSUME NEW m \in Msgs, PushBegin(m) PROVE IInv'
  <2> USE <1>1 DEF PushBegin, consVars
  <2>1. IndexOrder'
    BY DEF IndexOrder
  <2>2. CallsInProgress'
    BY DEF CallsInProgress
  <2>3. NothingTorn'
    BY NothingTornKept
  <2> QED
    BY <2>1, <2>2, <2>3
<1>2. ASSUME NEW t \in Visible(pTail, tail), pTail' = t, UNCHANGED <<tail, cHead, head>>
      PROVE  /\ IndexOrder'
             /\ Dist(t, head) \in 0 .. Slots - 1
             /\ t \in Indices
  <2>1. t \in Indices /\ Dist(pTail, t) <= Dist(pTail, tail)
    BY LoadsAreCoherent DEF TypeOK
  <2>2. Dist(t, tail) = Dist(pTail, tail) - Dist(pTail, t)
    BY <2>1, DistSplits DEF TypeOK
  <2>3. /\ Dist(pTail, t) \in Nat /\ Dist(pTail, tail) \in Nat
        /\ Dist(tail, cHead) \in Nat /\ Dist(cHead, head) \in Nat
    BY <2>1, DistRange DEF TypeOK
  <2>4. Dist(t, tail) + Dist(tail, cHead) + Dist(cHead, head) <= Slots - 1
    BY <2>2, <2>3, Sizes DEF IndexOrder
  <2>5. IndexOrder'
    BY <1>2, <2>4 DEF IndexOrder
  <2>6. Dist(tail, head) = Dist(tail, cHead) + Dist(cHead, head)
    BY Occupied
  <2>7. Dist(t, tail) + Dist(tail, head) < Modulus
    BY <2>3, <2>4, <2>6, <2>2, Sizes
  <2>8. Dist(t, head) = Dist(t, tail) + Dist(tail, head)
    BY <2>1, <2>7, DistAdds DEF TypeOK
  <2>9. Dist(t, head) \in Nat
    BY <2>1, DistRange DEF TypeOK
  <2> QED
    BY <2>1, <2>3, <2>4, <2>5, <2>6, <2>8, <2>9, <2>2, Sizes
<1>3. ASSUME PushFull PROVE IInv'
  <2>1. IndexOrder'
    BY <1>2, <1>3 DEF PushFull, consVars
  <2>2. CallsInProgress'
    BY <1>3 DEF PushFull, consVars, CallsInProgress
  <2>3. NothingTorn'
    BY <1>3, NothingTornKept DEF PushFull, consVars
  <2> QED
    BY <2>1, <2>2, <2>3
<1>4. ASSUME PushFits PROVE IInv'
  <2>1. IndexOrder'
    BY <1>2, <1>4 DEF PushFits, consVars
  <2>2. Dist(pTail', head) < Slots - 1
    <3>1. pTail' \in Visible(pTail, tail) /\ Slot(Inc(head)) # Slot(pTail')
      BY <1>4 DEF PushFits, CallsInProgress
    <3>2. pTail' \in Indices /\ Dist(pTail', head) \in 0 .. Slots - 1
      BY <3>1, <1>2, <1>4 DEF PushFits, consVars
    <3>3. Dist(pTail', head) # Slots - 1
      BY <3>1, <3>2, FullTest, Sizes DEF TypeOK
    <3> QED
      BY <3>2, <3>3, Sizes
  <2>3. CallsInProgress'
    BY <1>4, <2>2 DEF PushFits, consVars, CallsInProgress
  <2>4. NothingTorn'
    BY <1>4, NothingTornKept DEF PushFits, consVars
  <2> QED
    BY <2>1, <2>3, <2>4
<1>5. ASSUME NEW w \in Words, PushCopy(w) PROVE IInv'
  <2> USE <1>5 DEF PushCopy, consVars
  <2>1. pHead = head /\ Slot(head) \in 0 .. Slots - 1 /\ Slot(tail) \in 0 .. Slots - 1
    BY SlotInRing, Sizes DEF CallsInProgress, TypeOK
  <2>2. IndexOrder'
    BY DEF IndexOrder
  <2>3. \A i \in 1 .. Dist(tail, head) :
          data'[Slot(tail + i - 1)] = data[Slot(tail + i - 1)]
    BY <2>1, HeadSlotFree DEF TypeOK
  <2>4. tail # head => data'[Slot(tail)] = data[Slot(tail)]
    BY <2>1, HeadSlotFree DEF TypeOK
  <2>5. \A v \in pDone' : data'[Slot(head)][v] = pMsg
    BY <2>1 DEF TypeOK, CallsInProgress
  <2>6. cPc = "copy" => tail # head
    BY SomeToRead DEF CallsInProgress
  <2>7. CallsInProgress'
    BY <2>1, <2>4, <2>5, <2>6 DEF CallsInProgress
  <2>8. NothingTorn'
    BY <2>3 DEF NothingTorn, Contents
  <2> QED
    BY <2>2, <2>7, <2>8
<1>6. ASSUME PushPublish PROVE IInv'
  <2> USE <1>6 DEF PushPublish, consVars
  <2>1. pHead = head /\ Dist(pTail, head) < Slots - 1 /\ pMsg \in Msgs
    BY DEF CallsInProgress
  <2>2. /\ Dist(tail, head) \in Nat /\ Dist(cHead, head) \in Nat
        /\ Dist(pTail, tail) \in Nat /\ Dist(tail, cHead) \in Nat
    BY DistRange DEF TypeOK
  <2>3. Dist(tail, head) < Slots - 1 /\ Dist(cHead, head) < Slots - 1
    BY <2>1, <2>2, Occupied, Sizes
  <2>4. /\ Dist(tail, Inc(head)) = Dist(tail, head) + 1
        /\ Dist(cHead, Inc(head)) = Dist(cHead, head) + 1
    BY <2>2, <2>3, DistInc, Sizes DEF TypeOK
  <2>5. IndexOrder'
    BY <2>1, <2>2, <2>4, Occupied, Sizes DEF IndexOrder
  <2>6. CallsInProgress'
    BY DEF CallsInProgress
  <2>7. data[Slot(head)] = Whole(pMsg)
    <3>1. data[Slot(head)] \in [Words -> Msgs \cup {Blank}]
      BY SlotInRing, Sizes DEF TypeOK
    <3>2. \A w \in Words : data[Slot(head)][w] = pMsg
      BY DEF CallsInProgress
    <3> QED
      BY <3>1, <3>2, EveryWord
  <2>8. ASSUME NEW i \in 1 .. Dist(tail, Inc(head))
        PROVE  \E m \in Msgs : data[Slot(tail + i - 1)] = Whole(m)
    <3>1. CASE i \in 1 .. Dist(tail, head)
      BY <3>1 DEF NothingTorn, Contents
    <3>2. CASE i = Dist(tail, head) + 1
      <4>1. tail + i - 1 = tail + Dist(tail, head)
        BY <3>2, <2>2, Sizes DEF TypeOK
      <4>2. Slot(tail + i - 1) = Slot(head)
        BY <4>1, SlotAtDist DEF TypeOK
      <4> QED
        BY <4>2, <2>7, <2>1
    <3> QED
      BY <3>1, <3>2, <2>2, <2>4
  <2>9. NothingTorn'
    BY <2>1, <2>8 DEF NothingTorn, Contents
  <2> QED
    BY <2>5, <2>6, <2>9
<1> QED
  BY <1>1, <1>3, <1>4, <1>5, <1>6 DEF ProducerStep

\* Every step of the consumer preserves the invariant.
LEMMA ConsumerPreserves ==
  ASSUME IInv, TypeOK', ConsumerStep
  PROVE  IInv'
<1> USE DEF IInv
<1>1. ASSUME PopBegin PROVE IInv'
  <2> USE <1>1 DEF PopBegin, prodVars
  <2>1. IndexOrder'
    BY DEF IndexOrder
  <2>2. CallsInProgress'
    BY DEF CallsInProgress
  <2>3. NothingTorn'
    BY NothingTornKept
  <2> QED
    BY <2>1, <2>2, <2>3
<1>2. ASSUME NEW h \in Visible(cHead, head), cHead' = h, UNCHANGED <<pTail, tail, head>>
      PROVE  IndexOrder'
  <2>1. h \in Indices /\ Dist(cHead, h) <= Dist(cHead, head)
    BY LoadsAreCoherent DEF TypeOK
  <2>2. Dist(h, head) = Dist(cHead, head) - Dist(cHead, h)
    BY <2>1, DistSplits DEF TypeOK
  <2>3. /\ Dist(cHead, h) \in Nat /\ Dist(pTail, tail) \in Nat
        /\ Dist(tail, cHead) \in Nat /\ Dist(cHead, head) \in Nat
    BY <2>1, DistRange DEF TypeOK
  <2>4. Dist(tail, cHead) + Dist(cHead, h) < Modulus
    BY <2>1, <2>3, Sizes DEF IndexOrder
  <2>5. Dist(tail, h) = Dist(tail, cHead) + Dist(cHead, h)
    BY <2>1, <2>4, DistAdds DEF TypeOK
  <2>6. Dist(pTail, tail) + Dist(tail, h) + Dist(h, head) <= Slots - 1
    BY <2>2, <2>3, <2>5, Sizes DEF IndexOrder
  <2> QED
    BY <1>2, <2>6 DEF IndexOrder
<1>3. ASSUME PopEmpty PROVE IInv'
  <2>1. IndexOrder'
    BY <1>2, <1>3 DEF PopEmpty, prodVars
  <2>2. CallsInProgress'
    BY <1>3 DEF PopEmpty, prodVars, CallsInProgress
  <2>3. NothingTorn'
    BY <1>3, NothingTornKept DEF PopEmpty, prodVars
  <2> QED
    BY <2>1, <2>2, <2>3
<1>4. ASSUME PopSome PROVE IInv'
  <2>1. IndexOrder'
    BY <1>2, <1>4 DEF PopSome, prodVars
  <2>2. CallsInProgress'
    BY <1>4 DEF PopSome, prodVars, CallsInProgress
  <2>3. NothingTorn'
    BY <1>4, NothingTornKept DEF PopSome, prodVars
  <2> QED
    BY <2>1, <2>2, <2>3
<1>5. ASSUME NEW w \in Words, PopCopy(w) PROVE IInv'
  <2> USE <1>5 DEF PopCopy, prodVars
  <2>1. cTail = tail /\ cResult # "popped"
    BY DEF CallsInProgress
  <2>2. IndexOrder'
    BY DEF IndexOrder
  <2>3. \A v \in cDone' : cBuf'[v] = data[Slot(tail)][v]
    BY <2>1 DEF TypeOK, CallsInProgress
  <2>4. CallsInProgress'
    BY <2>1, <2>3 DEF CallsInProgress
  <2>5. NothingTorn'
    BY <2>1, NothingTornKept
  <2> QED
    BY <2>2, <2>4, <2>5
<1>6. ASSUME PopRelease PROVE IInv'
  <2> USE <1>6 DEF PopRelease, prodVars
  <2>1. cTail = tail /\ tail # cHead
    BY DEF CallsInProgress
  <2>2. tail # head /\ Dist(tail, head) >= 1
    BY <2>1, SomeToRead
  <2>3. /\ Dist(tail, head) \in Nat /\ Dist(cHead, head) \in Nat
        /\ Dist(pTail, tail) \in Nat /\ Dist(tail, cHead) \in Nat
        /\ Dist(tail, cHead) # 0
    BY <2>1, DistRange DEF TypeOK
  <2>4. Dist(pTail, tail) < Modulus - 1
    BY <2>3, Sizes DEF IndexOrder
  <2>5. /\ Dist(pTail, Inc(tail)) = Dist(pTail, tail) + 1
        /\ Dist(Inc(tail), cHead) = Dist(tail, cHead) - 1
        /\ Dist(Inc(tail), head) = Dist(tail, head) - 1
    BY <2>1, <2>2, <2>4, DistInc DEF TypeOK
  <2>6. IndexOrder'
    BY <2>1, <2>3, <2>5, Sizes DEF IndexOrder
  <2>7. CallsInProgress'
    BY DEF CallsInProgress
  <2>8. ASSUME NEW i \in 1 .. Dist(Inc(tail), head)
        PROVE  \E m \in Msgs : data[Slot(Inc(tail) + i - 1)] = Whole(m)
    <3>1. i + 1 \in 1 .. Dist(tail, head) /\ i - 1 \in Nat
      BY <2>3, <2>5
    <3>2. Inc(tail) + i - 1 = Inc(tail) + (i - 1) /\ tail + (i + 1) - 1 = tail + 1 + (i - 1)
      BY <3>1, DistInc, Sizes DEF TypeOK
    <3>3. Slot(Inc(tail) + i - 1) = Slot(tail + (i + 1) - 1)
      BY <3>1, <3>2, SlotInc DEF TypeOK
    <3> QED
      BY <3>1, <3>3 DEF NothingTorn, Contents
  <2>9. \E m \in Msgs : cBuf = Whole(m)
    <3>1. 1 \in 1 .. Dist(tail, head) /\ tail + 1 - 1 = tail
      BY <2>2, <2>3, Sizes DEF TypeOK
    <3>2. PICK m \in Msgs : data[Slot(tail)] = Whole(m)
      BY <3>1 DEF NothingTorn, Contents
    <3>3. \A w \in Words : cBuf[w] = m
      BY <3>2 DEF CallsInProgress, Whole
    <3> QED
      BY <3>3, EveryWord DEF TypeOK
  <2>10. NothingTorn'
    BY <2>1, <2>8, <2>9 DEF NothingTorn, Contents
  <2> QED
    BY <2>6, <2>7, <2>10
<1> QED
  BY <1>1, <1>3, <1>4, <1>5, <1>6 DEF ConsumerStep

\* A restart of either process, and a reset, preserve the invariant.
LEMMA OtherPreserves ==
  ASSUME IInv, TypeOK', ProducerCrash \/ ConsumerCrash \/ Reset \/ UNCHANGED vars
  PROVE  IInv'
<1> USE DEF IInv
<1>1. ASSUME ProducerCrash PROVE IInv'
  <2> USE <1>1 DEF ProducerCrash, consVars
  <2>1. IndexOrder' /\ CallsInProgress'
    BY DEF IndexOrder, CallsInProgress
  <2> QED
    BY <2>1, NothingTornKept
<1>2. ASSUME ConsumerCrash PROVE IInv'
  <2> USE <1>2 DEF ConsumerCrash, prodVars
  <2>1. IndexOrder' /\ CallsInProgress'
    BY DEF IndexOrder, CallsInProgress
  <2> QED
    BY <2>1, NothingTornKept
<1>3. ASSUME Reset PROVE IInv'
  <2> USE <1>3 DEF Reset
  <2>1. Dist(0, 0) = 0
    BY DEF Dist
  <2>2. IndexOrder'
    BY <2>1, Sizes DEF IndexOrder
  <2>3. CallsInProgress'
    BY DEF CallsInProgress
  <2>4. NothingTorn'
    BY <2>1 DEF NothingTorn
  <2> QED
    BY <2>2, <2>3, <2>4
<1>4. ASSUME UNCHANGED vars PROVE IInv'
  <2> USE <1>4 DEF vars, prodVars, consVars
  <2>1. IndexOrder' /\ CallsInProgress'
    BY DEF IndexOrder, CallsInProgress
  <2> QED
    BY <2>1, NothingTornKept
<1> QED
  BY <1>1, <1>2, <1>3, <1>4

\* Every step of the ring preserves the inductive invariant.
LEMMA NextIInv == IInv /\ [Next]_vars => IInv'
<1> SUFFICES ASSUME IInv, [Next]_vars PROVE IInv'
  OBVIOUS
<1>1. TypeOK'
  BY NextTypeOK DEF IInv
<1> QED
  BY <1>1, ProducerPreserves, ConsumerPreserves, OtherPreserves DEF Next

\* The inductive invariant holds in every reachable state.
THEOREM InductiveInvariant == Spec => []IInv
BY InitIInv, NextIInv, PTL DEF Spec

\* Neither the wrap of the counters nor a stale load nor a restart lets the
\* head lap the tail.
THEOREM IndicesStayInOrder == Spec => []IndexOrder
<1>1. IInv => IndexOrder
  BY DEF IInv
<1> QED
  BY <1>1, InductiveInvariant, PTL

\* The producer never writes the slot the consumer reads.
THEOREM NoSlotConflict == Spec => []NoOverlap
<1>1. IInv => NoOverlap
  <2> SUFFICES ASSUME IInv, pPc = "copy", cPc = "copy" PROVE Slot(pHead) # Slot(cTail)
    BY DEF NoOverlap
  <2>1. pHead = head /\ cTail = tail /\ tail # cHead
    BY DEF IInv, CallsInProgress
  <2> QED
    BY <2>1, SomeToRead, HeadSlotFree DEF IInv
<1> QED
  BY <1>1, InductiveInvariant, PTL

\* A call under way relies on an own index nobody moves and on a look at the
\* other one that a slot was free or filled (ring.cpp:55-77, :80-99).
THEOREM CallsRelyOnWhatHolds == Spec => []CallsInProgress
<1>1. IInv => CallsInProgress
  BY DEF IInv
<1> QED
  BY <1>1, InductiveInvariant, PTL

\* Everything in the ring and everything popped is one whole message.
THEOREM MessagesStayWhole == Spec => []NothingTorn
<1>1. IInv => NothingTorn
  BY DEF IInv
<1> QED
  BY <1>1, InductiveInvariant, PTL
--------------------------------------------------------------------------------
(* Refinement *)

\* Append and Tail, element by element.
LEMMA AppendAsFunction ==
  ASSUME NEW S, NEW s \in Seq(S), NEW e \in S
  PROVE  Append(s, e) = [i \in 1 .. Len(s) + 1 |-> IF i = Len(s) + 1 THEN e ELSE s[i]]
<1> DEFINE f == [i \in 1 .. Len(s) + 1 |-> IF i = Len(s) + 1 THEN e ELSE s[i]]
<1>1. Len(s) \in Nat /\ \A i \in 1 .. Len(s) : s[i] \in S
  OBVIOUS
<1>2. f \in Seq(S) /\ Len(f) = Len(s) + 1
  BY <1>1
<1>3. \A i \in 1 .. Len(f) : Append(s, e)[i] = f[i]
  BY <1>1, <1>2, AppendProperties
<1> HIDE DEF f
<1>4. Append(s, e) \in Seq(S) /\ Len(Append(s, e)) = Len(f)
  BY <1>2, AppendProperties
<1>5. Append(s, e) = f
  BY <1>2, <1>3, <1>4, SeqEqual
<1> QED
  BY <1>5 DEF f

LEMMA TailAsFunction ==
  ASSUME NEW S, NEW s \in Seq(S), s # <<>>
  PROVE  Tail(s) = [i \in 1 .. Len(s) - 1 |-> s[i + 1]]
<1> DEFINE f == [i \in 1 .. Len(s) - 1 |-> s[i + 1]]
<1>1. Len(s) \in Nat /\ Len(s) >= 1 /\ \A i \in 1 .. Len(s) : s[i] \in S
  OBVIOUS
<1>2. f \in Seq(S) /\ Len(f) = Len(s) - 1
  BY <1>1
<1>3. \A i \in 1 .. Len(f) : Tail(s)[i] = f[i]
  BY <1>1, <1>2, HeadTailProperties
<1> HIDE DEF f
<1>4. Tail(s) \in Seq(S) /\ Len(Tail(s)) = Len(f)
  BY <1>2, HeadTailProperties
<1>5. Tail(s) = f
  BY <1>2, <1>3, <1>4, SeqEqual
<1> QED
  BY <1>5 DEF f

\* The elements in the ring form a sequence of Dist(tail, head) elements.
LEMMA ContentsIsSeq ==
  ASSUME TypeOK, IndexOrder
  PROVE  /\ Contents \in Seq([Words -> Msgs \cup {Blank}])
         /\ Len(Contents) = Dist(tail, head)
         /\ DOMAIN Contents = 1 .. Dist(tail, head)
<1>1. Dist(tail, head) \in Nat
  BY Occupied, Sizes
<1>2. \A i \in 1 .. Dist(tail, head) :
        data[Slot(tail + i - 1)] \in [Words -> Msgs \cup {Blank}]
  <2> TAKE i \in 1 .. Dist(tail, head)
  <2>1. tail + i - 1 \in Nat
    BY <1>1, Sizes DEF TypeOK
  <2> QED
    BY <2>1, SlotInRing DEF TypeOK
<1> QED
  BY <1>1, <1>2 DEF Contents

\* A step that leaves the unread slots alone leaves the queue alone.
LEMMA ContentsKept ==
  ASSUME UNCHANGED <<head, tail>>,
         \A i \in 1 .. Dist(tail, head) :
           data'[Slot(tail + i - 1)] = data[Slot(tail + i - 1)]
  PROVE  Contents' = Contents
BY DEF Contents

\* A step of the producer is a step of the queue's producer, or none.
LEMMA ProducerRefines ==
  ASSUME IInv, IInv', ProducerStep
  PROVE  Fifo!Next \/ UNCHANGED Fifo!vars
<1> USE DEF IInv
<1>1. ASSUME NEW m \in Msgs, PushBegin(m) PROVE Fifo!Next
  BY <1>1, ContentsKept DEF PushBegin, consVars, Received, Fifo!Next, Fifo!StartPush
<1>2. ASSUME PushFull PROVE Fifo!Next
  <2>1. Contents' = Contents /\ Received' = Received /\ pResult' = "full" /\ cResult' = cResult
    BY <1>2, ContentsKept DEF PushFull, consVars, Received
  <2>2. ASSUME ~StaleLoads PROVE Len(Contents) = Slots - 1
    <3>1. pTail' = tail /\ pHead = head /\ Slot(Inc(head)) = Slot(tail)
      BY <1>2, <2>2 DEF PushFull, Visible, CallsInProgress
    <3>2. Dist(tail, head) <= Slots - 1
      BY Occupied, Sizes
    <3>3. Dist(tail, head) = Slots - 1
      BY <3>1, <3>2, FullTest DEF TypeOK
    <3> QED
      BY <3>3, ContentsIsSeq
  <2> QED
    BY <2>1, <2>2 DEF Fifo!Next, Fifo!RejectPush
<1>3. ASSUME PushFits PROVE UNCHANGED Fifo!vars
  BY <1>3, ContentsKept DEF PushFits, consVars, Received, Fifo!vars
<1>4. ASSUME NEW w \in Words, PushCopy(w) PROVE UNCHANGED Fifo!vars
  <2>1. pHead = head /\ Slot(head) \in 0 .. Slots - 1
    BY <1>4, SlotInRing, Sizes DEF PushCopy, CallsInProgress, TypeOK
  <2>2. Contents' = Contents
    BY <1>4, <2>1, HeadSlotFree, ContentsKept DEF PushCopy, TypeOK
  <2> QED
    BY <1>4, <2>2 DEF PushCopy, consVars, Received, Fifo!vars
<1>5. ASSUME PushPublish PROVE Fifo!Next
  <2>1. pHead = head /\ pMsg \in Msgs /\ Dist(pTail, head) < Slots - 1
    BY <1>5 DEF PushPublish, CallsInProgress
  <2>2. Dist(tail, head) \in Nat /\ Dist(tail, head) < Slots - 1
    <3>1. Dist(pTail, tail) \in Nat
      BY DistRange DEF TypeOK
    <3> QED
      BY <2>1, <3>1, Occupied, Sizes
  <2>3. Dist(tail, head') = Dist(tail, head) + 1 /\ tail' = tail /\ data' = data
    BY <1>5, <2>1, <2>2, DistInc, Sizes DEF PushPublish, TypeOK
  <2>4. data[Slot(head)] = Whole(pMsg)
    <3>1. data[Slot(head)] \in [Words -> Msgs \cup {Blank}]
      BY SlotInRing, Sizes DEF TypeOK
    <3>2. \A w \in Words : data[Slot(head)][w] = pMsg
      BY <1>5 DEF PushPublish, CallsInProgress
    <3> QED
      BY <3>1, <3>2, EveryWord
  <2>5. Slot(tail + (Dist(tail, head) + 1) - 1) = Slot(head)
    <3>1. tail + (Dist(tail, head) + 1) - 1 = tail + Dist(tail, head)
      BY <2>2, Sizes DEF TypeOK
    <3> QED
      BY <3>1, SlotAtDist DEF TypeOK
  <2>6. /\ Contents \in Seq([Words -> Msgs \cup {Blank}])
        /\ Len(Contents) = Dist(tail, head)
    BY ContentsIsSeq
  <2>7. Contents' = [i \in 1 .. Dist(tail, head) + 1 |->
                       IF i = Dist(tail, head) + 1 THEN Whole(pMsg) ELSE Contents[i]]
    BY <2>2, <2>3, <2>4, <2>5 DEF Contents
  <2>8. Contents' = Append(Contents, Whole(pMsg))
    <3>1. Whole(pMsg) \in [Words -> Msgs \cup {Blank}]
      BY <2>1 DEF Whole
    <3> QED
      BY <3>1, <2>6, <2>7, AppendAsFunction
  <2>9. /\ Len(Contents) < Slots - 1
        /\ pResult' = "pushed" /\ cResult' = cResult /\ Received' = Received
    BY <1>5, <2>2, <2>6 DEF PushPublish, consVars, Received
  <2>10. Whole(pMsg) \in {Whole(m) : m \in Msgs}
    BY <2>1
  <2> QED
    BY <2>8, <2>9, <2>10 DEF Fifo!Next, Fifo!Push
<1> QED
  BY <1>1, <1>2, <1>3, <1>4, <1>5 DEF ProducerStep

\* A step of the consumer is a step of the queue's consumer, or none.
LEMMA ConsumerRefines ==
  ASSUME IInv, IInv', ConsumerStep
  PROVE  Fifo!Next \/ UNCHANGED Fifo!vars
<1> USE DEF IInv
<1>1. ASSUME PopBegin PROVE Fifo!Next
  BY <1>1, ContentsKept DEF PopBegin, prodVars, Received, Fifo!Next, Fifo!StartPop
<1>2. ASSUME PopEmpty PROVE Fifo!Next
  <2>1. Contents' = Contents /\ Received' = <<>> /\ cResult' = "empty" /\ pResult' = pResult
    BY <1>2, ContentsKept DEF PopEmpty, prodVars, Received
  <2>2. ASSUME ~StaleLoads PROVE Contents = <<>>
    <3>1. tail = head
      BY <1>2, <2>2 DEF PopEmpty, Visible, CallsInProgress
    <3>2. Len(Contents) = 0
      BY <3>1, DistRange, ContentsIsSeq DEF TypeOK
    <3> QED
      BY <3>2, ContentsIsSeq
  <2> QED
    BY <2>1, <2>2 DEF Fifo!Next, Fifo!ReportEmpty
<1>3. ASSUME PopSome PROVE UNCHANGED Fifo!vars
  BY <1>3, ContentsKept DEF PopSome, prodVars, Received, Fifo!vars
<1>4. ASSUME NEW w \in Words, PopCopy(w) PROVE UNCHANGED Fifo!vars
  <2>1. cResult # "popped"
    BY <1>4 DEF PopCopy, CallsInProgress
  <2> QED
    BY <1>4, <2>1, ContentsKept DEF PopCopy, prodVars, Received, Fifo!vars
<1>5. ASSUME PopRelease PROVE Fifo!Next
  <2>1. cTail = tail /\ tail # cHead /\ data' = data /\ head' = head /\ tail' = Inc(tail)
    BY <1>5 DEF PopRelease, CallsInProgress
  <2>2. tail # head /\ Dist(tail, head) >= 1 /\ Dist(tail, head) \in Nat
    BY <2>1, SomeToRead, Occupied, Sizes
  <2>3. Dist(tail', head) = Dist(tail, head) - 1
    BY <2>1, <2>2, DistInc DEF TypeOK
  <2>4. /\ Contents \in Seq([Words -> Msgs \cup {Blank}])
        /\ Len(Contents) = Dist(tail, head)
        /\ DOMAIN Contents = 1 .. Dist(tail, head)
    BY ContentsIsSeq
  <2>5. Contents # <<>> /\ Head(Contents) = Contents[1]
    BY <2>2, <2>4
  <2>6. cBuf = Contents[1]
    <3>1. 1 \in 1 .. Dist(tail, head) /\ tail + 1 - 1 = tail
      BY <2>2, Sizes DEF TypeOK
    <3>2. Contents[1] = data[Slot(tail)]
      BY <3>1 DEF Contents
    <3>3. data[Slot(tail)] \in [Words -> Msgs \cup {Blank}]
      BY SlotInRing, Sizes DEF TypeOK
    <3>4. \A w \in Words : cBuf[w] = data[Slot(tail)][w]
      BY <1>5 DEF PopRelease, CallsInProgress
    <3> QED
      BY <3>2, <3>3, <3>4 DEF TypeOK
  <2>7. Contents' = [i \in 1 .. Dist(tail, head) - 1 |-> Contents[i + 1]]
    <3>1. ASSUME NEW i \in 1 .. Dist(tail, head) - 1
          PROVE  /\ i + 1 \in 1 .. Dist(tail, head)
                 /\ Slot(Inc(tail) + i - 1) = Slot(tail + (i + 1) - 1)
      <4>1. i + 1 \in 1 .. Dist(tail, head) /\ i - 1 \in Nat
        BY <2>2
      <4>2. /\ Inc(tail) + i - 1 = Inc(tail) + (i - 1)
            /\ tail + (i + 1) - 1 = tail + 1 + (i - 1)
        BY <4>1, DistInc, Sizes DEF TypeOK
      <4> QED
        BY <4>1, <4>2, SlotInc DEF TypeOK
    <3> QED
      BY <2>1, <2>3, <3>1 DEF Contents
  <2>8. Contents' = Tail(Contents)
    BY <2>4, <2>5, <2>7, TailAsFunction
  <2>9. Received' = <<cBuf>> /\ cResult' = "popped" /\ pResult' = pResult
    BY <1>5 DEF PopRelease, prodVars, Received
  <2> QED
    BY <2>5, <2>6, <2>8, <2>9 DEF Fifo!Next, Fifo!Pop
<1> QED
  BY <1>1, <1>2, <1>3, <1>4, <1>5 DEF ConsumerStep

\* In every interleaving, with restarts of either process and with loads that
\* lag behind, the ring is a FIFO queue of Slots - 1 whole messages.
THEOREM RingImplementsFifo == Spec => ImplementsFifo
<1>1. Init => Fifo!Init
  <2> SUFFICES ASSUME Init PROVE Fifo!Init
    OBVIOUS
  <2>1. Contents = <<>>
    BY DEF Init, Contents, Dist
  <2> QED
    BY <2>1 DEF Init, Received, Fifo!Init
<1>2. IInv /\ IInv' /\ [Next]_vars => [Fifo!Next]_(Fifo!vars)
  <2> SUFFICES ASSUME IInv, IInv', [Next]_vars PROVE Fifo!Next \/ UNCHANGED Fifo!vars
    OBVIOUS
  <2>1. ASSUME ProducerCrash PROVE Fifo!Next
    BY <2>1, ContentsKept
       DEF ProducerCrash, consVars, Received, Fifo!Next, Fifo!StartPush
  <2>2. ASSUME ConsumerCrash PROVE Fifo!Next
    BY <2>2, ContentsKept
       DEF ConsumerCrash, prodVars, Received, Fifo!Next, Fifo!StartPop
  <2>3. ASSUME Reset PROVE Fifo!Next
    <3>1. Contents' = <<>>
      BY <2>3 DEF Reset, Contents, Dist
    <3> QED
      BY <2>3, <3>1 DEF Reset, Received, Fifo!Next, Fifo!Clear
  <2>4. ASSUME UNCHANGED vars PROVE UNCHANGED Fifo!vars
    BY <2>4, ContentsKept DEF vars, prodVars, consVars, Received, Fifo!vars
  <2> QED
    BY <2>1, <2>2, <2>3, <2>4, ProducerRefines, ConsumerRefines DEF Next
<1> QED
  BY <1>1, <1>2, InductiveInvariant, PTL DEF Spec, ImplementsFifo, Fifo!Spec
================================================================================
