------------------------------ MODULE RingMonitor ------------------------------
(***************************************************************************)
(* Who reads the occupancy of a live ring.  spsc_occupancy loads head and  *)
(* then tail, two relaxed loads.  The worker calls it after each pop, in   *)
(* the process that owns tail; "ringctl show" calls it from a third        *)
(* process while the parser and the worker go on between its two loads.    *)
(***************************************************************************)
EXTENDS SpscRing

VARIABLES
  peak,        \* the highest number of elements the ring has held
  occMax,      \* worker_risk.cpp: ring_occupancy_max
  sampled,     \* the worker has taken its sample after the last pop
  sPc, sHead,  \* ringctl show: its call in progress and the head it loaded
  sPeak,       \* the highest number of elements during that call
  shown        \* the occupancy it printed last

monVars == <<peak, occMax, sampled, sPc, sHead, sPeak, shown>>
allVars == <<vars, monVars>>

Larger(a, b) == IF a > b THEN a ELSE b

MonInit ==
  /\ Init
  /\ peak = 0 /\ occMax = 0 /\ sampled = TRUE
  /\ sPc = "idle" /\ sHead = 0 /\ sPeak = 0 /\ shown = 0

\* A step of the ring; the worker samples once between two pops.
RingStep ==
  /\ ProducerStep \/ ConsumerStep \/ ProducerCrash \/ Reset
  /\ PopBegin => sampled
  /\ sampled' = (sampled /\ ~PopRelease)
  /\ peak' = Larger(peak, Dist(tail', head'))
  /\ sPeak' = Larger(sPeak, Dist(tail', head'))
  /\ UNCHANGED <<occMax, sPc, sHead, shown>>

\* The maximum is a local of the worker: its successor starts from 0.
WorkerRestart ==
  /\ ConsumerCrash
  /\ sampled' = TRUE
  /\ occMax' = 0
  /\ UNCHANGED <<peak, sPc, sHead, sPeak, shown>>

\* Fault: the samples are added up instead of compared.
FaultWorkerSample ==
  /\ cPc = "idle" /\ cResult = "popped" /\ ~sampled
  /\ \E h \in Visible(cHead, head) : occMax' = occMax + Occupancy(h, tail)
  /\ sampled' = TRUE
  /\ UNCHANGED <<vars, peak, sPc, sHead, sPeak, shown>>

\* worker_risk.cpp:219-222: the worker's own tail does not move meanwhile.
WorkerSample ==
  /\ cPc = "idle" /\ cResult = "popped" /\ ~sampled
  /\ \E h \in Visible(cHead, head) : occMax' = Larger(occMax, Occupancy(h, tail))
  /\ sampled' = TRUE
  /\ UNCHANGED <<vars, peak, sPc, sHead, sPeak, shown>>

ShowLoadHead ==
  /\ sPc = "idle"
  /\ sPc' = "load_tail"
  /\ sHead' = head
  /\ sPeak' = Dist(tail, head)
  /\ UNCHANGED <<vars, peak, occMax, sampled, shown>>

ShowLoadTail ==
  /\ sPc = "load_tail"
  /\ sPc' = "idle"
  /\ shown' = Occupancy(sHead, tail)
  /\ UNCHANGED <<vars, peak, occMax, sampled, sHead, sPeak>>

MonNext == RingStep \/ WorkerRestart \/ WorkerSample \/ ShowLoadHead \/ ShowLoadTail

MonSpec == MonInit /\ [][MonNext]_allVars
--------------------------------------------------------------------------------
\* What is recorded or printed as an occupancy is a number of slots that a ring
\* can have in use: the mask of ring.cpp:109 keeps it below Slots.
MonTypeOK ==
  /\ TypeOK
  /\ peak \in 0 .. Slots /\ sPeak \in 0 .. Slots
  /\ occMax \in 0 .. Slots - 1 /\ shown \in 0 .. Slots - 1
  /\ sampled \in BOOLEAN
  /\ sPc \in {"idle", "load_tail"} /\ sHead \in Indices

\* The ring_occupancy_max column of the worker's records never exceeds the
\* number of elements the ring really held at some moment, although head is
\* a relaxed load that the producer overtakes.
OccupancyMaxIsReal == occMax <= peak

\* The inductive invariant: that of the ring, and that the peak is one.
MonInv == IInv /\ MonTypeOK /\ OccupancyMaxIsReal /\ Dist(tail, head) <= peak

\* ring.hpp:64: spsc_occupancy returns the "number of elements currently in
\* ring".  So what ringctl prints was reached at some moment of its call.
ShownOccupancyIsReal == sPc = "idle" => shown <= sPeak
================================================================================
