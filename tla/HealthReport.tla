----------------------------- MODULE HealthReport -----------------------------
(***************************************************************************)
(* How the programs report on themselves, and what health_monitor.sh makes *)
(* of it: the counters they keep, the verdict health_update draws, the     *)
(* totals of metrics_update_throughput, and when their main loops write    *)
(* them to the status and metrics files that others read at any time.      *)
(*                                                                         *)
(* ingress writes a status file, worker_risk a metrics file, parser both.  *)
(* Time is kept as ages that stop growing once no comparison can tell them *)
(* apart, and the counters stop at a bound, so that a process may run for  *)
(* ever.                                                                   *)
(***************************************************************************)
EXTENDS Naturals

CONSTANTS
  Programs,      \* whose main loop it may be
  Stale,         \* seconds without activity, or without a report, still tolerated: 30
  Recent,        \* seconds within which activity counts as recent: 5
  Period,        \* seconds between two reports: 5
  ErrorPercent,  \* tolerated error rate: 10
  MaxProcessed, MaxErrors  \* where the counters stop

ASSUME HealthAssumption ==
  /\ Programs \subseteq {"ingress", "parser", "worker_risk"}
  /\ Recent \in Nat /\ Stale \in Nat /\ Recent <= Stale
  /\ Period \in Nat \ {0} /\ ErrorPercent \in Nat
  /\ MaxProcessed \in Nat /\ MaxErrors \in Nat

VARIABLES
  program,     \* which of the programs this one is
  pc,          \* its step, or how it ended
  stop,        \* a signal has cleared `running'
  idle,        \* seconds since last_activity_ts
  sinceCheck,  \* seconds since last_health_check, last_metrics
  processed, errors,
  status,      \* the verdict in memory
  published,   \* the verdict in the status file
  fileAge,     \* seconds since the status file was modified
  counted,     \* ThroughputMetrics::message_count
  total        \* total_messages in the metrics file; 0 also if it has none

loopVars == <<program, stop>>
counters == <<idle, processed, errors>>
statusFile == <<published, fileAge>>
metrics == <<counted, total>>
vars == <<loopVars, pc, counters, sinceCheck, status, statusFile, metrics>>
--------------------------------------------------------------------------------
UpTo(n, bound) == IF n < bound THEN n ELSE bound
WritesStatus == program \in {"ingress", "parser"}
WritesMetrics == program \in {"parser", "worker_risk"}
Running == pc \notin {"stopped", "killed"}

\* health_init and metrics_init; nothing is written until the first report.
Init ==
  /\ program \in Programs
  /\ pc = "loop" /\ stop = FALSE
  /\ idle = 0 /\ sinceCheck = 0
  /\ processed = 0 /\ errors = 0
  /\ status = "HEALTHY" /\ published = "absent" /\ fileAge = 0
  /\ counted = 0 /\ total = 0

Tick ==
  /\ idle' = UpTo(idle + 1, Stale + 1)
  /\ sinceCheck' = UpTo(sinceCheck + 1, Period)
  /\ fileAge' = UpTo(fileAge + 1, Stale + 1)
  /\ UNCHANGED <<loopVars, pc, processed, errors, status, published, metrics>>

Signal ==
  /\ stop' = TRUE
  /\ UNCHANGED <<program, pc, counters, sinceCheck, status, statusFile, metrics>>

\* Also between fopen and fclose of a file, which stays empty then.
Kill ==
  /\ Running
  /\ pc' = "killed"
  /\ UNCHANGED <<loopVars, counters, sinceCheck, status, statusFile, metrics>>
--------------------------------------------------------------------------------
(* The verdict and the files *)

HighErrorRate == processed > 0 /\ errors * 100 > ErrorPercent * processed

\* Faults: the error rate hides a stall, the verdict sticks, recent activity
\* hides the error rate.
FaultRateFirst(age) ==
  IF HighErrorRate THEN "DEGRADED"
  ELSE IF age > Stale THEN "UNHEALTHY"
  ELSE IF age <= Recent THEN "HEALTHY"
  ELSE status

FaultSticky(age) ==
  IF age > Stale THEN "UNHEALTHY"
  ELSE IF HighErrorRate THEN "DEGRADED"
  ELSE status

FaultRecentFirst(age) ==
  IF age > Stale THEN "UNHEALTHY"
  ELSE IF age <= Recent THEN "HEALTHY"
  ELSE IF HighErrorRate THEN "DEGRADED"
  ELSE status

\* health_update for an activity `age' seconds ago.
Assess(age) ==
  IF age > Stale THEN "UNHEALTHY"
  ELSE IF HighErrorRate THEN "DEGRADED"
  ELSE IF age <= Recent THEN "HEALTHY"
  ELSE status

\* health_write_status opens the file with "w", which empties it; the text
\* arrives with fclose.  Either may fail, and no caller looks.
OpenStatus == published' = "empty" /\ fileAge' = 0
WritesInto == {status, "empty"}

\* metrics_update_throughput counts what went through by now; metrics_write
\* may fail before it opens the file, or after, which leaves no total in it.
MetricsUpdate == counted' = processed
MetricsWrite(n) == total' \in {n, total, 0}

\* check_service_health of health_monitor.sh would raise an alarm now.
Alarm == published \notin {"HEALTHY", "DEGRADED"} \/ fileAge > Stale
--------------------------------------------------------------------------------
(* The main loops *)

\* execute_shutdown_handlers with the handler of the program, which writes the
\* last verdict and the last totals and draws no new ones.
Finish ==
  /\ pc' = "stopped"
  /\ \/ UNCHANGED statusFile
     \/ WritesStatus /\ published' \in WritesInto /\ fileAge' = 0
  /\ IF WritesMetrics THEN MetricsWrite(counted) ELSE UNCHANGED total

LoopHead ==
  /\ pc = "loop"
  /\ \/ stop /\ Finish
     \/ ~stop /\ pc' = "work" /\ UNCHANGED <<statusFile, total>>
  /\ UNCHANGED <<loopVars, counters, sinceCheck, status, counted>>

\* A frame or message went through: counted, and the moment noted.  When
\* ingress fails to write a frame, it counts an error and a message.
Frame ==
  /\ pc = "work"
  /\ processed' = UpTo(processed + 1, MaxProcessed)
  /\ \/ UNCHANGED errors
     \/ program = "ingress" /\ errors' = UpTo(errors + 1, MaxErrors)
  /\ idle' = 0
  /\ pc' = "check"
  /\ UNCHANGED <<loopVars, sinceCheck, status, statusFile, metrics>>

\* Nothing to do: ingress and worker sleep for a moment and go on to the
\* check, while the parser stays in read().
Idle ==
  /\ program # "parser" /\ pc = "work"
  /\ pc' = "check"
  /\ UNCHANGED <<loopVars, counters, sinceCheck, status, statusFile, metrics>>

\* recv fails for good: counted, and the loop ends.
IngressFails ==
  /\ program = "ingress" /\ pc = "work"
  /\ errors' = UpTo(errors + 1, MaxErrors)
  /\ Finish
  /\ UNCHANGED <<loopVars, idle, processed, sinceCheck, status, counted>>

\* Fault: the check is not skipped.
FaultParserReject ==
  /\ program = "parser" /\ pc = "work"
  /\ errors' = UpTo(errors + 1, MaxErrors)
  /\ pc' = "check"
  /\ UNCHANGED <<loopVars, idle, processed, sinceCheck, status, statusFile, metrics>>

\* An invalid frame or a full ring: `continue' skips the check.
ParserReject ==
  /\ program = "parser" /\ pc = "work"
  /\ errors' = UpTo(errors + 1, MaxErrors)
  /\ pc' = "loop"
  /\ UNCHANGED <<loopVars, idle, processed, sinceCheck, status, statusFile, metrics>>

ParserEof ==
  /\ program = "parser" /\ pc = "work"
  /\ Finish
  /\ UNCHANGED <<loopVars, counters, sinceCheck, status, counted>>

\* What the loop passes to health_update as the current time: ingress reads
\* the clock, the parser reuses the time it has just stored as last activity.
Age == IF program = "ingress" THEN idle ELSE 0

NoReport ==
  /\ pc = "check" /\ sinceCheck < Period
  /\ pc' = "loop"
  /\ UNCHANGED <<loopVars, counters, sinceCheck, status, statusFile, metrics>>

AfterStatus == IF WritesMetrics THEN "metrics" ELSE "loop"

\* The report is due: a new verdict, and the file opened for it.
ReportStatus ==
  /\ WritesStatus /\ pc = "check" /\ sinceCheck >= Period
  /\ status' = Assess(Age)
  /\ sinceCheck' = 0
  /\ \/ OpenStatus /\ pc' = "write"
     \/ UNCHANGED statusFile /\ pc' = AfterStatus
  /\ UNCHANGED <<loopVars, counters, metrics>>

\* Fault: a verdict is missing in the list of names.
FaultWriteStatus ==
  /\ pc = "write"
  /\ published' \in {IF status = "DEGRADED" THEN "UNKNOWN" ELSE status, "empty"}
  /\ fileAge' = 0
  /\ pc' = AfterStatus
  /\ UNCHANGED <<loopVars, counters, sinceCheck, status, metrics>>

WriteStatus ==
  /\ pc = "write"
  /\ published' \in WritesInto /\ fileAge' = 0
  /\ pc' = AfterStatus
  /\ UNCHANGED <<loopVars, counters, sinceCheck, status, metrics>>


ReportMetrics ==
  /\ \/ pc = "metrics"
     \/ program = "worker_risk" /\ pc = "check" /\ sinceCheck >= Period
  /\ MetricsUpdate /\ MetricsWrite(processed)
  /\ sinceCheck' = IF pc = "check" THEN 0 ELSE sinceCheck
  /\ pc' = "loop"
  /\ UNCHANGED <<loopVars, counters, status, statusFile>>

Step ==
  \/ LoopHead \/ Frame \/ Idle \/ IngressFails \/ ParserReject \/ ParserEof
  \/ NoReport \/ ReportStatus \/ WriteStatus \/ ReportMetrics

Next == Step \/ Tick \/ Signal \/ Kill

Spec == Init /\ [][Next]_vars

\* Time passes; the process is scheduled, and a loop that can go on without
\* input does; the files can be written again and again.  Nothing obliges
\* anyone to send a frame.
Fairness ==
  /\ WF_vars(Tick)
  /\ WF_vars(LoopHead \/ Idle \/ NoReport \/ ReportStatus \/ WriteStatus \/ ReportMetrics)
  /\ SF_vars(ReportStatus /\ pc' = "write")
  /\ SF_vars(WriteStatus /\ published' = status)
  /\ SF_vars(ReportMetrics /\ total' = processed)

FairSpec == Spec /\ Fairness
--------------------------------------------------------------------------------
Verdicts == {"HEALTHY", "DEGRADED", "UNHEALTHY"}

\* The ages and counters stay within their bounds, the status file says one of
\* the verdicts or nothing (health.cpp:62), and the published total is never
\* ahead of the counted one nor that of the messages (metrics.cpp:67).
TypeOK ==
  /\ program \in Programs
  /\ pc \in {"loop", "work", "check", "write", "metrics", "stopped", "killed"}
  /\ stop \in BOOLEAN
  /\ idle \in 0 .. Stale + 1 /\ sinceCheck \in 0 .. Period /\ fileAge \in 0 .. Stale + 1
  /\ processed \in 0 .. MaxProcessed /\ errors \in 0 .. MaxErrors
  /\ status \in Verdicts /\ published \in Verdicts \cup {"absent", "empty"}
  /\ total <= counted /\ counted <= processed

\* In the end the file says v and nothing else, but for the moments in which
\* it is being rewritten.
SaysAtLast(v) == <>[](published \in {v, "empty"}) /\ []<>(published = v)

\* Of an ingress that runs and receives nothing any more the status file says
\* UNHEALTHY sooner or later and goes on saying so, also if its error rate is
\* high or a write of the file fails (health.cpp:29, ingress.cpp:178).
IngressStallIsPublished ==
  <>[](program = "ingress" /\ Running /\ idle > Stale) => SaysAtLast("UNHEALTHY")

\* A program that is busy again, with a tolerable error rate, is not called
\* DEGRADED or UNHEALTHY for ever (health.cpp:40): old verdicts wear off.
RecoveryIsPublished ==
  <>[](WritesStatus /\ Running /\ idle <= Recent /\ ~HighErrorRate)
    => SaysAtLast("HEALTHY")

\* A high error rate shows while the program is not stalled (health.cpp:34).
ErrorsArePublished ==
  <>[](WritesStatus /\ Running /\ idle <= Stale /\ HighErrorRate)
    => SaysAtLast("DEGRADED")

\* Whatever becomes of ingress or parser - blocked, rejecting or dropping every
\* frame, ended, killed, even in the middle of a write - once it lets nothing
\* through, health_monitor.sh raises an alarm from some moment on: the age of
\* the file tells where its text does not (health_monitor.sh:19, parser.cpp:230).
StallIsNoticed == <>[](WritesStatus /\ idle > Stale) => <>[]Alarm


(* Stated by the code's comments and not met *)

\* health.cpp:28, "Check for stale activity (no activity for 30 seconds)", and
\* parser.cpp:260, "Update metrics every 5 seconds": a stalled program of either
\* kind is reported.  The parser reports only right after a frame went through.
StallIsPublished ==
  <>[](WritesStatus /\ Running /\ ~stop /\ idle > Stale) => SaysAtLast("UNHEALTHY")
================================================================================
