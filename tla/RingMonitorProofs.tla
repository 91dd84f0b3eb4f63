--------------------------- MODULE RingMonitorProofs ---------------------------
(***************************************************************************)
(* Proofs about RingMonitor for every number of slots, every counter       *)
(* width and any number of restarts and resets.  Reading the occupancy     *)
(* changes nothing in the ring, so what SpscRingProofs shows of the ring   *)
(* holds of the monitored ring as well.                                    *)
(***************************************************************************)
EXTENDS RingMonitor, SpscRingProofs

\* A step of the monitored ring is a step of the ring, or none.
LEMMA MonStepIsRingStep == [MonNext]_allVars => [Next]_vars
<1> SUFFICES ASSUME MonNext PROVE [Next]_vars
  BY DEF allVars, vars
<1>1. CASE RingStep
  BY <1>1 DEF RingStep, Next
<1>2. CASE WorkerRestart
  BY <1>2 DEF WorkerRestart, Next
<1>3. CASE WorkerSample \/ ShowLoadHead \/ ShowLoadTail
  BY <1>3 DEF WorkerSample, ShowLoadHead, ShowLoadTail
<1> QED
  BY <1>1, <1>2, <1>3 DEF MonNext

\* The readers of the occupancy do not disturb the ring: what is shown of Spec,
\* the refinement of the FIFO included, holds of the monitored ring.
THEOREM ReadersDoNotDisturb == MonSpec => Spec
BY MonStepIsRingStep, PTL DEF MonSpec, MonInit, Spec

\* Resets between calls, kills and loads that lag behind do not disturb what a
\* push or a pop in progress relies on.
THEOREM CallsUndisturbed == MonSpec => []CallsInProgress
<1>1. IInv => CallsInProgress
  BY DEF IInv
<1> QED
  BY <1>1, ReadersDoNotDisturb, InductiveInvariant, PTL

LEMMA LargerOf ==
  ASSUME NEW n \in Nat, NEW a \in 0 .. n, NEW b \in 0 .. n
  PROVE  Larger(a, b) \in 0 .. n /\ Larger(a, b) >= a /\ Larger(a, b) >= b
BY DEF Larger

\* An old head makes the ring look emptier, never fuller.
LEMMA StaleIsLess ==
  ASSUME TypeOK, IndexOrder, NEW h \in Visible(cHead, head)
  PROVE  Dist(tail, h) \in 0 .. Slots - 1 /\ Dist(tail, h) <= Dist(tail, head)
<1>1. h \in Indices /\ Dist(cHead, h) <= Dist(cHead, head)
  BY LoadsAreCoherent DEF TypeOK
<1>2. /\ Dist(tail, head) = Dist(tail, cHead) + Dist(cHead, head)
      /\ Dist(tail, head) \in 0 .. Slots - 1
  BY Occupied
<1>3. Dist(tail, cHead) \in Nat /\ Dist(cHead, head) \in Nat /\ Dist(cHead, h) \in Nat
  BY <1>1, DistRange, Sizes DEF TypeOK
<1>4. Dist(tail, cHead) + Dist(cHead, h) < Modulus
  BY <1>1, <1>2, <1>3, Sizes
<1>5. Dist(tail, h) = Dist(tail, cHead) + Dist(cHead, h)
  BY <1>1, <1>4, DistAdds DEF TypeOK
<1> QED
  BY <1>1, <1>2, <1>3, <1>5, Sizes

\* The ring holds at most Slots - 1 elements.
Fits == Dist(tail, head) \in 0 .. Slots - 1

LEMMA OccupiedFits == TypeOK /\ IndexOrder => Fits
BY Occupied DEF Fits

LEMMA SmallModulo ==
  ASSUME NEW n \in 0 .. Slots - 1
  PROVE  n % Slots = n
BY Sizes

LEMMA InitMonInv == MonInit => MonInv
<1> SUFFICES ASSUME MonInit PROVE MonInv
  OBVIOUS
<1>1. IInv
  BY InitIInv DEF MonInit
<1>2. Dist(tail, head) = 0 /\ 0 \in Indices
  BY Sizes DEF MonInit, Init, Dist, Indices
<1> QED
  BY <1>1, <1>2, Sizes DEF MonInv, MonInit, IInv, MonTypeOK, OccupancyMaxIsReal

LEMMA NextMonInv == MonInv /\ [MonNext]_allVars => MonInv'
<1> SUFFICES ASSUME MonInv, [MonNext]_allVars PROVE MonInv'
  OBVIOUS
<1>1. IInv'
  BY MonStepIsRingStep, NextIInv DEF MonInv
<1>2. TypeOK /\ IndexOrder /\ TypeOK' /\ IndexOrder'
  BY <1>1 DEF MonInv, IInv
<1>3. /\ Dist(tail, head) \in 0 .. Slots - 1 /\ Dist(tail', head') \in 0 .. Slots - 1
  <2>1. TypeOK' /\ IndexOrder' => Fits'
    BY OccupiedFits, PTL
  <2> QED
    BY <1>2, <2>1, OccupiedFits DEF Fits
<1>4. /\ peak \in 0 .. Slots /\ sPeak \in 0 .. Slots /\ Slots \in Nat /\ Slots - 1 \in Nat
      /\ occMax \in 0 .. Slots - 1 /\ shown \in 0 .. Slots - 1 /\ sampled \in BOOLEAN
      /\ sPc \in {"idle", "load_tail"} /\ sHead \in Indices
      /\ occMax <= peak /\ Dist(tail, head) <= peak
  BY Sizes DEF MonInv, MonTypeOK, OccupancyMaxIsReal
<1> SUFFICES /\ peak' \in 0 .. Slots /\ sPeak' \in 0 .. Slots
             /\ occMax' \in 0 .. Slots - 1 /\ shown' \in 0 .. Slots - 1
             /\ sampled' \in BOOLEAN /\ sPc' \in {"idle", "load_tail"} /\ sHead' \in Indices
             /\ occMax' <= peak' /\ Dist(tail', head') <= peak'
  BY <1>1 DEF MonInv, IInv, MonTypeOK, OccupancyMaxIsReal
<1>5. CASE UNCHANGED allVars
  BY <1>4, <1>5 DEF allVars, vars, monVars
<1>6. CASE RingStep
  <2> DEFINE d == Dist(tail', head')
  <2>1. /\ peak' = Larger(peak, d) /\ sPeak' = Larger(sPeak, d)
        /\ UNCHANGED <<occMax, sPc, sHead, shown>> /\ sampled' \in BOOLEAN
    BY <1>6 DEF RingStep
  <2>2. d \in 0 .. Slots
    BY <1>3, <1>4
  <2> HIDE DEF d
  <2>3. /\ Larger(peak, d) \in 0 .. Slots /\ Larger(peak, d) >= peak /\ Larger(peak, d) >= d
        /\ Larger(sPeak, d) \in 0 .. Slots
    BY <1>4, <2>2, LargerOf
  <2>4. occMax <= Larger(peak, d) /\ d <= Larger(peak, d)
    BY <1>4, <2>2, <2>3
  <2> QED
    BY <1>4, <2>1, <2>3, <2>4 DEF d
<1>7. CASE WorkerRestart
  BY <1>3, <1>4, <1>7 DEF WorkerRestart, ConsumerCrash
<1>8. CASE WorkerSample
  <2>1. PICK h \in Visible(cHead, head) : occMax' = Larger(occMax, Occupancy(h, tail))
    BY <1>8 DEF WorkerSample
  <2>2. Occupancy(h, tail) = Dist(tail, h) /\ Dist(tail, h) \in 0 .. Slots - 1
        /\ Dist(tail, h) <= Dist(tail, head)
    BY <1>2, StaleIsLess, SmallModulo DEF Occupancy
  <2> DEFINE d == Dist(tail, h)
             e == Dist(tail, head)
  <2>3. occMax' = Larger(occMax, d) /\ d \in 0 .. Slots - 1 /\ d <= e /\ e <= peak
        /\ e \in 0 .. Slots - 1
    BY <1>3, <1>4, <2>1, <2>2
  <2> HIDE DEF d, e
  <2>4. occMax' \in 0 .. Slots - 1 /\ occMax' <= peak
    BY <1>4, <2>3 DEF Larger
  <2> QED
    BY <1>3, <1>4, <1>8, <2>4 DEF WorkerSample, vars
<1>9. CASE ShowLoadHead
  <2>1. head \in Indices /\ Dist(tail, head) \in 0 .. Slots
    BY <1>2, <1>3, <1>4 DEF TypeOK
  <2> QED
    BY <1>4, <1>9, <2>1 DEF ShowLoadHead, vars
<1>10. CASE ShowLoadTail
  <2>1. Occupancy(sHead, tail) \in 0 .. Slots - 1
    <3>1. Dist(tail, sHead) \in Nat
      BY <1>2, <1>4, DistRange, Sizes DEF TypeOK
    <3> QED
      BY <3>1, Sizes DEF Occupancy
  <2> QED
    BY <1>4, <1>10, <2>1 DEF ShowLoadTail, vars
<1> QED
  BY <1>5, <1>6, <1>7, <1>8, <1>9, <1>10 DEF MonNext

\* The inductive invariant of the ring with its readers.
THEOREM MonInvariant == MonSpec => []MonInv
BY InitMonInv, NextMonInv, PTL DEF MonSpec

\* Whatever is recorded or printed is a number of slots a ring can have in use.
THEOREM MonTypeCorrect == MonSpec => []MonTypeOK
<1>1. MonInv => MonTypeOK
  BY DEF MonInv
<1> QED
  BY <1>1, MonInvariant, PTL

\* The high-water mark in the worker's records was reached by the ring, although
\* the head it is computed from may be an old one.
THEOREM HighWaterMarkIsReal == MonSpec => []OccupancyMaxIsReal
<1>1. MonInv => OccupancyMaxIsReal
  BY DEF MonInv
<1> QED
  BY <1>1, MonInvariant, PTL
================================================================================
