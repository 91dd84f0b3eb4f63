------------------------------ MODULE HealthReportProofs ------------------------------
(***************************************************************************)
(* Proofs about HealthReport for every program, every limit and every      *)
(* period between two reports.                                             *)
(***************************************************************************)
EXTENDS HealthReport, TLAPS

\* The parser hands health_update the time it has just stored, so that it never
\* finds itself stalled (parser.cpp:259-262).
NoVerdictOfStall ==
  program = "parser" => status # "UNHEALTHY" /\ published # "UNHEALTHY"

\* The totals are counts, and each step belongs to a program that has it.
Placed ==
  /\ counted \in Nat /\ total \in Nat
  /\ pc = "write" => WritesStatus
  /\ pc = "metrics" => WritesMetrics

IInv == TypeOK /\ Placed /\ NoVerdictOfStall
--------------------------------------------------------------------------------
(* The operators *)

LEMMA Stops ==
  ASSUME NEW bound \in Nat, NEW n \in 0 .. bound
  PROVE  UpTo(n + 1, bound) \in 0 .. bound /\ UpTo(n + 1, bound) >= n
BY DEF UpTo

\* The verdict is one of the three, and without age it is not that of a stall.
LEMMA Verdict ==
  ASSUME status \in Verdicts, NEW age \in Nat
  PROVE  /\ Assess(age) \in Verdicts
         /\ age = 0 => (Assess(age) = "UNHEALTHY" => status = "UNHEALTHY")
BY HealthAssumption DEF Assess, Verdicts

\* What a file holds after it has been written, or not.
LEMMA Written ==
  ASSUME IInv, published' \in WritesInto
  PROVE  /\ published' \in Verdicts \cup {"absent", "empty"}
         /\ program = "parser" => published' # "UNHEALTHY"
BY DEF IInv, TypeOK, NoVerdictOfStall, WritesInto

LEMMA FinishKeeps ==
  ASSUME IInv, Finish, pc \notin {"stopped", "killed"},
         UNCHANGED <<loopVars, idle, processed, sinceCheck, status, counted>>,
         errors' \in 0 .. MaxErrors
  PROVE  IInv'
<1> USE DEF loopVars, statusFile
<1>1. /\ published' \in Verdicts \cup {"absent", "empty"}
      /\ program = "parser" => published' # "UNHEALTHY"
      /\ fileAge' \in 0 .. Stale + 1
  <2>1. CASE UNCHANGED statusFile
    BY <2>1 DEF IInv, TypeOK, NoVerdictOfStall
  <2>2. CASE published' \in WritesInto /\ fileAge' = 0
    BY <2>2, Written, HealthAssumption
  <2> QED
    BY <2>1, <2>2 DEF Finish
<1>2. total' \in Nat /\ total' <= counted
  BY DEF Finish, MetricsWrite, IInv, TypeOK, Placed
<1>3. TypeOK'
  BY <1>1, <1>2 DEF Finish, IInv, TypeOK
<1>4. Placed'
  BY <1>2 DEF Finish, IInv, Placed
<1>5. NoVerdictOfStall'
  BY <1>1 DEF IInv, NoVerdictOfStall
<1> QED
  BY <1>3, <1>4, <1>5 DEF IInv
--------------------------------------------------------------------------------
(* The inductive invariant *)

LEMMA InitIInv == Init => IInv
<1> SUFFICES ASSUME Init PROVE IInv
  OBVIOUS
<1>1. 0 \in 0 .. Stale + 1 /\ 0 \in 0 .. Period /\ 0 \in 0 .. MaxProcessed /\ 0 \in 0 .. MaxErrors
  BY HealthAssumption
<1>2. TypeOK
  <2>1. /\ idle \in 0 .. Stale + 1 /\ sinceCheck \in 0 .. Period /\ fileAge \in 0 .. Stale + 1
        /\ processed \in 0 .. MaxProcessed /\ errors \in 0 .. MaxErrors
    BY <1>1 DEF Init
  <2>2. program \in Programs /\ stop \in BOOLEAN
    BY DEF Init
  <2>3. total <= counted /\ counted <= processed
    BY DEF Init
  <2>4. /\ pc \in {"loop", "work", "check", "write", "metrics", "stopped", "killed"}
        /\ status \in Verdicts /\ published \in Verdicts \cup {"absent", "empty"}
    BY DEF Init, Verdicts
  <2> QED
    BY <2>1, <2>2, <2>3, <2>4 DEF TypeOK
<1>3. Placed /\ NoVerdictOfStall
  BY DEF Init, Placed, NoVerdictOfStall
<1> QED
  BY <1>2, <1>3 DEF IInv

LEMMA TickIInv == IInv /\ Tick => IInv'
<1> SUFFICES ASSUME IInv, Tick PROVE IInv'
  OBVIOUS
<1>1. idle' \in 0 .. Stale + 1 /\ sinceCheck' \in 0 .. Period /\ fileAge' \in 0 .. Stale + 1
  <2>1. /\ Stale + 1 \in Nat /\ Period \in Nat
        /\ idle \in 0 .. Stale + 1 /\ sinceCheck \in 0 .. Period /\ fileAge \in 0 .. Stale + 1
    BY HealthAssumption DEF IInv, TypeOK
  <2>2. /\ UpTo(idle + 1, Stale + 1) \in 0 .. Stale + 1
        /\ UpTo(sinceCheck + 1, Period) \in 0 .. Period
        /\ UpTo(fileAge + 1, Stale + 1) \in 0 .. Stale + 1
    BY <2>1, Stops
  <2> QED
    BY <2>2 DEF Tick
<1>2. TypeOK'
  BY <1>1 DEF IInv, TypeOK, Tick, loopVars, metrics
<1>3. Placed' /\ NoVerdictOfStall'
  BY DEF IInv, Placed, NoVerdictOfStall, WritesStatus, WritesMetrics, Tick, loopVars, metrics
<1> QED
  BY <1>2, <1>3 DEF IInv

LEMMA SignalIInv == IInv /\ Signal => IInv'
BY DEF IInv, TypeOK, Placed, NoVerdictOfStall, WritesStatus, WritesMetrics, Signal,
       counters, statusFile, metrics

LEMMA KillIInv == IInv /\ Kill => IInv'
BY DEF IInv, TypeOK, Placed, NoVerdictOfStall, WritesStatus, WritesMetrics, Kill,
       loopVars, counters, statusFile, metrics

LEMMA LoopHeadIInv == IInv /\ LoopHead => IInv'
<1> SUFFICES ASSUME IInv, LoopHead PROVE IInv'
  OBVIOUS
<1>1. CASE Finish
  <2>1. errors' \in 0 .. MaxErrors
    BY DEF IInv, TypeOK, LoopHead, counters
  <2> QED
    BY <1>1, <2>1, FinishKeeps DEF LoopHead, counters
<1>2. CASE pc' = "work" /\ UNCHANGED <<statusFile, total>>
  BY <1>2 DEF IInv, TypeOK, Placed, NoVerdictOfStall, LoopHead, loopVars, counters, statusFile
<1> QED
  BY <1>1, <1>2 DEF LoopHead

LEMMA FrameIInv == IInv /\ Frame => IInv'
<1> SUFFICES ASSUME IInv, Frame PROVE IInv'
  OBVIOUS
<1>1. processed' \in 0 .. MaxProcessed /\ processed' >= processed
  BY Stops, HealthAssumption DEF IInv, TypeOK, Frame
<1>2. errors' \in 0 .. MaxErrors
  BY Stops, HealthAssumption DEF IInv, TypeOK, Frame
<1>3. processed \in Nat /\ counted \in Nat /\ counted <= processed
  BY HealthAssumption DEF IInv, TypeOK, Placed
<1>4. TypeOK'
  BY <1>1, <1>2, <1>3, HealthAssumption DEF IInv, TypeOK, Frame, loopVars, statusFile, metrics
<1>5. Placed' /\ NoVerdictOfStall'
  BY DEF IInv, Placed, NoVerdictOfStall, Frame, loopVars, statusFile, metrics
<1> QED
  BY <1>4, <1>5 DEF IInv

LEMMA IdleIInv == IInv /\ Idle => IInv'
BY DEF IInv, TypeOK, Placed, NoVerdictOfStall, Idle, loopVars, counters, statusFile, metrics

LEMMA IngressFailsIInv == IInv /\ IngressFails => IInv'
<1> SUFFICES ASSUME IInv, IngressFails PROVE IInv'
  OBVIOUS
<1>1. errors' \in 0 .. MaxErrors
  BY Stops, HealthAssumption DEF IInv, TypeOK, IngressFails
<1> QED
  BY <1>1, FinishKeeps DEF IngressFails

LEMMA ParserRejectIInv == IInv /\ ParserReject => IInv'
<1> SUFFICES ASSUME IInv, ParserReject PROVE IInv'
  OBVIOUS
<1>1. errors' \in 0 .. MaxErrors
  BY Stops, HealthAssumption DEF IInv, TypeOK, ParserReject
<1> QED
  BY <1>1 DEF IInv, TypeOK, Placed, NoVerdictOfStall, ParserReject, loopVars, statusFile, metrics

LEMMA ParserEofIInv == IInv /\ ParserEof => IInv'
<1> SUFFICES ASSUME IInv, ParserEof PROVE IInv'
  OBVIOUS
<1>1. errors' \in 0 .. MaxErrors
  BY DEF IInv, TypeOK, ParserEof, counters
<1> QED
  BY <1>1, FinishKeeps DEF ParserEof, counters

LEMMA NoReportIInv == IInv /\ NoReport => IInv'
BY DEF IInv, TypeOK, Placed, NoVerdictOfStall, NoReport, loopVars, counters, statusFile, metrics

LEMMA ReportStatusIInv == IInv /\ ReportStatus => IInv'
<1> SUFFICES ASSUME IInv, ReportStatus PROVE IInv'
  OBVIOUS
<1> USE DEF loopVars, counters, statusFile, metrics
<1>1. Age \in Nat /\ (program = "parser" => Age = 0)
  BY HealthAssumption DEF Age, IInv, TypeOK
<1>2. /\ status' \in Verdicts
      /\ program = "parser" => status' # "UNHEALTHY"
  BY <1>1, Verdict DEF ReportStatus, IInv, TypeOK, NoVerdictOfStall
<1>3. /\ published' \in Verdicts \cup {"absent", "empty"} /\ fileAge' \in 0 .. Stale + 1
      /\ program = "parser" => published' # "UNHEALTHY"
  BY HealthAssumption DEF ReportStatus, OpenStatus, IInv, TypeOK, NoVerdictOfStall
<1>4. pc' = "write" \/ pc' = AfterStatus
  BY DEF ReportStatus
<1>5. TypeOK'
  BY <1>2, <1>3, <1>4, HealthAssumption DEF ReportStatus, AfterStatus, IInv, TypeOK
<1>6. Placed'
  BY <1>4 DEF ReportStatus, AfterStatus, IInv, Placed, WritesStatus, WritesMetrics
<1>7. NoVerdictOfStall'
  BY <1>2, <1>3 DEF ReportStatus, NoVerdictOfStall
<1> QED
  BY <1>5, <1>6, <1>7 DEF IInv

LEMMA WriteStatusIInv == IInv /\ WriteStatus => IInv'
<1> SUFFICES ASSUME IInv, WriteStatus PROVE IInv'
  OBVIOUS
<1>1. /\ published' \in Verdicts \cup {"absent", "empty"} /\ fileAge' \in 0 .. Stale + 1
      /\ program = "parser" => published' # "UNHEALTHY"
  BY Written, HealthAssumption DEF WriteStatus
<1>2. TypeOK' /\ Placed' /\ NoVerdictOfStall'
  BY <1>1 DEF WriteStatus, AfterStatus, IInv, TypeOK, Placed, NoVerdictOfStall, WritesStatus,
              WritesMetrics, loopVars, counters, metrics
<1> QED
  BY <1>2 DEF IInv

LEMMA ReportMetricsIInv == IInv /\ ReportMetrics => IInv'
<1> SUFFICES ASSUME IInv, ReportMetrics PROVE IInv'
  OBVIOUS
<1>1. /\ counted' = processed /\ total' \in {processed, total, 0} /\ pc' = "loop"
      /\ sinceCheck' \in {0, sinceCheck}
      /\ UNCHANGED <<loopVars, counters, status, statusFile>>
  BY DEF ReportMetrics, MetricsUpdate, MetricsWrite
<1>2. /\ counted' \in Nat /\ total' \in Nat /\ total' <= counted' /\ counted' <= processed
      /\ sinceCheck' \in 0 .. Period
  BY <1>1, HealthAssumption DEF IInv, TypeOK, Placed
<1>3. TypeOK' /\ Placed' /\ NoVerdictOfStall'
  BY <1>1, <1>2 DEF IInv, TypeOK, Placed, NoVerdictOfStall, loopVars, counters, statusFile
<1> QED
  BY <1>3 DEF IInv

LEMMA StutterIInv == IInv /\ UNCHANGED vars => IInv'
BY DEF IInv, TypeOK, Placed, NoVerdictOfStall, WritesStatus, WritesMetrics, vars,
       loopVars, counters, statusFile, metrics
--------------------------------------------------------------------------------
(* The theorems *)

LEMMA Invariance == Spec => []IInv
<1>1. IInv /\ [Next]_vars => IInv'
  BY TickIInv, SignalIInv, KillIInv, LoopHeadIInv, FrameIInv, IdleIInv, IngressFailsIInv,
     ParserRejectIInv, ParserEofIInv, NoReportIInv, ReportStatusIInv, WriteStatusIInv,
     ReportMetricsIInv, StutterIInv DEF Next, Step
<1> QED
  BY <1>1, InitIInv, PTL DEF Spec

\* Whatever the limits: the status file says a verdict or nothing, and no total
\* in a metrics file is ahead of what was counted (health.cpp:62, metrics.cpp:67).
THEOREM TypeCorrect == Spec => []TypeOK
<1>1. IInv => TypeOK
  BY DEF IInv
<1> QED
  BY <1>1, Invariance, PTL

\* No parser, however long it is idle, has or publishes the verdict UNHEALTHY, as
\* it measures its idleness against the moment it has just stored
\* (parser.cpp:259-262): of its stalls only the age of the file tells.
THEOREM ParserNeverUnhealthy == Spec => []NoVerdictOfStall
<1>1. IInv => NoVerdictOfStall
  BY DEF IInv
<1> QED
  BY <1>1, Invariance, PTL
================================================================================
