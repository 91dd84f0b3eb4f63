------------------------------- MODULE Pipeline -------------------------------
(***************************************************************************)
(* The three processes of the data path, end to end:                       *)
(*                                                                         *)
(*   UDP -> ingress -> pipe -> parser -> ring -> worker_risk -> CSV file   *)
(*                                                                         *)
(* apps/ingress.cpp, apps/parser.cpp and apps/worker_risk.cpp run as       *)
(* separate processes that read one clock (the TSC), may be told to stop   *)
(* (SIGTERM sets `running') or be killed at any step.  The ring is the     *)
(* queue that SpscRing implements; a datagram is an id, counted in order   *)
(* of reception, and whether parse_ulmd accepts it.                        *)
(***************************************************************************)
EXTENDS Integers, Sequences

CONSTANTS
  MaxFrames,  \* bound on the datagrams received
  PipeCap,    \* frames the kernel pipe holds before a writer blocks
  RingCap,    \* messages the ring holds: slots - 1
  MaxClock,   \* bound on the clock
  TscMod,     \* number of values of a timestamp: 2^64
  MaxKills    \* bound on the processes killed

ASSUME PipelineAssumption ==
  /\ MaxFrames \in Nat /\ PipeCap \in Nat \ {0} /\ RingCap \in Nat \ {0}
  /\ MaxClock \in Nat /\ TscMod \in Nat /\ TscMod > MaxClock /\ MaxKills \in Nat

VARIABLES
  clock,
  arrived,              \* datagrams received: ingress's messages_processed
  iPc, iStop, iTsc, iOut,
  pipe,
  pPc, pStop, pTsc, pMsg, errors, processed,
  ring,
  wPc, wStop, wTsc, wMsg, csvBuf, csv,
  kills, lost           \* processes killed, frames that went down with them

ingVars == <<arrived, iPc, iStop, iTsc, iOut>>
parVars == <<pPc, pStop, pTsc, pMsg, errors, processed>>
wrkVars == <<wPc, wStop, wTsc, wMsg, csvBuf, csv>>
vars == <<clock, ingVars, pipe, parVars, ring, wrkVars, kills, lost>>
--------------------------------------------------------------------------------
\* What a process has in hand is a sequence of length 0 or 1.
Ended(pc) == pc \in {"stopped", "killed"}

\* uint64_t subtraction of two timestamps.
Elapsed(from, to) == (to - from) % TscMod

\* The programs after start-up: options read, socket bound, ring attached, CSV
\* file opened, handlers registered.
IngressInit == arrived = 0 /\ iPc = "loop" /\ iStop = FALSE /\ iTsc = 0 /\ iOut = <<>>

ParserInit ==
  /\ pPc = "loop" /\ pStop = FALSE /\ pTsc = 0 /\ pMsg = <<>>
  /\ errors = 0 /\ processed = 0

WorkerInit ==
  /\ wPc = "loop" /\ wStop = FALSE /\ wTsc = 0 /\ wMsg = <<>>
  /\ csvBuf = <<>> /\ csv = <<>>

Init ==
  /\ clock = 0 /\ kills = 0 /\ lost = 0 /\ pipe = <<>> /\ ring = <<>>
  /\ IngressInit /\ ParserInit /\ WorkerInit

Tick ==
  /\ clock < MaxClock
  /\ clock' = clock + 1
  /\ UNCHANGED <<ingVars, pipe, parVars, ring, wrkVars, kills, lost>>
--------------------------------------------------------------------------------
(* ingress *)

\* Loop condition, then the timestamp that is taken before recv.
IngressLoop ==
  /\ iPc = "loop"
  /\ IF iStop
       THEN iPc' = "stopped" /\ UNCHANGED iTsc
       ELSE iPc' = "recv" /\ iTsc' = clock
  /\ UNCHANGED <<clock, arrived, iStop, iOut, pipe, parVars, ring, wrkVars, kills, lost>>

\* A datagram of 64 bytes; fwrite puts header and frame into stdout's buffer.
IngressRecv ==
  /\ iPc = "recv" /\ arrived < MaxFrames
  /\ arrived' = arrived + 1
  /\ \E ok \in BOOLEAN : iOut' = <<[id |-> arrived + 1, recv |-> iTsc, ok |-> ok]>>
  /\ iPc' = "write"
  /\ UNCHANGED <<clock, iStop, iTsc, pipe, parVars, ring, wrkVars, kills, lost>>

\* No datagram yet, or one of another size: once more round the loop.
IngressIdle ==
  /\ iPc = "recv"
  /\ iPc' = "loop"
  /\ UNCHANGED <<clock, arrived, iStop, iTsc, iOut, pipe, parVars, ring, wrkVars, kills, lost>>

\* fflush writes the 72 bytes in one piece and blocks while the pipe is full.
IngressWrite ==
  /\ iPc = "write" /\ ~Ended(pPc) /\ Len(pipe) < PipeCap
  /\ pipe' = pipe \o iOut
  /\ iOut' = <<>>
  /\ iPc' = "loop"
  /\ UNCHANGED <<clock, arrived, iStop, iTsc, parVars, ring, wrkVars, kills, lost>>

\* Nobody reads the pipe any more: SIGPIPE ends ingress without its handlers.
IngressBroken ==
  /\ iPc = "write" /\ Ended(pPc)
  /\ iPc' = "killed"
  /\ iOut' = <<>>
  /\ lost' = lost + 1
  /\ UNCHANGED <<clock, arrived, iStop, iTsc, pipe, parVars, ring, wrkVars, kills>>

\* recv fails for good: the loop ends as after a signal.
IngressFails ==
  /\ iPc = "recv"
  /\ iPc' = "stopped"
  /\ UNCHANGED <<clock, arrived, iStop, iTsc, iOut, pipe, parVars, ring, wrkVars, kills, lost>>

IngressStep ==
  \/ IngressLoop \/ IngressRecv \/ IngressIdle \/ IngressFails
  \/ IngressWrite \/ IngressBroken
--------------------------------------------------------------------------------
(* parser *)

\* parse_ulmd: magic number, version and CRC of a frame.
Accepted(frame) == frame.ok

ParserLoop ==
  /\ pPc = "loop"
  /\ pPc' = IF pStop THEN "stopped" ELSE "header"
  /\ UNCHANGED <<clock, ingVars, pipe, pStop, pTsc, pMsg, errors, processed, ring,
                 wrkVars, kills, lost>>

\* read of the 8 bytes of recv_tsc; it blocks while the pipe is empty, also
\* when SIGTERM arrives meanwhile (signal() restarts it).
ParserHeader ==
  /\ pPc = "header" /\ pipe # <<>>
  /\ pTsc' = Head(pipe).recv
  /\ pPc' = "body"
  /\ UNCHANGED <<clock, ingVars, pipe, pStop, pMsg, errors, processed, ring,
                 wrkVars, kills, lost>>

\* Fault: end of file is taken for a short read.
FaultParserEof ==
  /\ pPc = "header" /\ pipe = <<>> /\ Ended(iPc)
  /\ pPc' = "loop"
  /\ UNCHANGED <<clock, ingVars, pipe, pStop, pTsc, pMsg, errors, processed, ring,
                 wrkVars, kills, lost>>

ParserEof ==
  /\ pPc = "header" /\ pipe = <<>> /\ Ended(iPc)
  /\ pPc' = "stopped"
  /\ UNCHANGED <<clock, ingVars, pipe, pStop, pTsc, pMsg, errors, processed, ring,
                 wrkVars, kills, lost>>

\* Fault: an invalid frame stays in the pipe.
FaultParserReject ==
  /\ pPc = "body" /\ ~Accepted(Head(pipe))
  /\ pPc' = "loop"
  /\ UNCHANGED <<clock, ingVars, pipe, pStop, pTsc, pMsg, errors, processed, ring,
                 wrkVars, kills, lost>>

\* read of the 64 bytes, and parse_ulmd: an invalid frame is an error.
ParserReject ==
  /\ pPc = "body" /\ ~Accepted(Head(pipe))
  /\ pipe' = Tail(pipe)
  /\ errors' = errors + 1
  /\ pPc' = "loop"
  /\ UNCHANGED <<clock, ingVars, pStop, pTsc, pMsg, processed, ring, wrkVars, kills, lost>>

\* Fault: the two timestamps of the message change places.
FaultParserAccept ==
  /\ pPc = "body" /\ Accepted(Head(pipe))
  /\ pipe' = Tail(pipe)
  /\ pMsg' = <<[id |-> Head(pipe).id, recv |-> clock, enq |-> pTsc]>>
  /\ pPc' = "push"
  /\ UNCHANGED <<clock, ingVars, pStop, pTsc, errors, processed, ring, wrkVars, kills, lost>>

\* enq_tsc is taken before the push.
ParserAccept ==
  /\ pPc = "body" /\ Accepted(Head(pipe))
  /\ pipe' = Tail(pipe)
  /\ pMsg' = <<[id |-> Head(pipe).id, recv |-> pTsc, enq |-> clock]>>
  /\ pPc' = "push"
  /\ UNCHANGED <<clock, ingVars, pStop, pTsc, errors, processed, ring, wrkVars, kills, lost>>

\* Faults: a push that overruns the ring, and one whose drop is not counted.
FaultPushOverruns ==
  /\ pPc = "push"
  /\ ring' = ring \o pMsg /\ processed' = processed + 1
  /\ pMsg' = <<>>
  /\ pPc' = "loop"
  /\ UNCHANGED <<clock, ingVars, pipe, pStop, pTsc, errors, wrkVars, kills, lost>>

FaultPushForgets ==
  /\ pPc = "push"
  /\ IF Len(ring) < RingCap
       THEN ring' = ring \o pMsg /\ processed' = processed + 1
       ELSE UNCHANGED <<ring, processed>>
  /\ pMsg' = <<>>
  /\ pPc' = "loop"
  /\ UNCHANGED <<clock, ingVars, pipe, pStop, pTsc, errors, wrkVars, kills, lost>>

\* spsc_try_push: a message that finds the ring full is dropped and counted.
ParserPush ==
  /\ pPc = "push"
  /\ IF Len(ring) < RingCap
       THEN ring' = ring \o pMsg /\ processed' = processed + 1 /\ UNCHANGED errors
       ELSE errors' = errors + 1 /\ UNCHANGED <<ring, processed>>
  /\ pMsg' = <<>>
  /\ pPc' = "loop"
  /\ UNCHANGED <<clock, ingVars, pipe, pStop, pTsc, wrkVars, kills, lost>>

ParserStep ==
  ParserLoop \/ ParserHeader \/ ParserEof \/ ParserReject \/ ParserAccept \/ ParserPush
--------------------------------------------------------------------------------
(* worker_risk *)

\* Fault: the shutdown handler leaves the buffer behind.
FaultWorkerLoop ==
  /\ wPc = "loop"
  /\ IF wStop
       THEN wPc' = "stopped" /\ csvBuf' = <<>> /\ UNCHANGED wTsc
       ELSE wPc' = "pop" /\ wTsc' = clock /\ UNCHANGED csvBuf
  /\ UNCHANGED <<clock, ingVars, pipe, parVars, ring, wStop, wMsg, csv, kills, lost>>

\* Loop condition; deq_tsc is taken before the pop is tried.  The shutdown
\* handler flushes and closes the CSV file.
WorkerLoop ==
  /\ wPc = "loop"
  /\ IF wStop
       THEN /\ wPc' = "stopped"
            /\ csv' = csv \o csvBuf /\ csvBuf' = <<>>
            /\ UNCHANGED wTsc
       ELSE /\ wPc' = "pop"
            /\ wTsc' = clock
            /\ UNCHANGED <<csv, csvBuf>>
  /\ UNCHANGED <<clock, ingVars, pipe, parVars, ring, wStop, wMsg, kills, lost>>

WorkerPop ==
  /\ wPc = "pop" /\ ring # <<>>
  /\ wMsg' = <<Head(ring)>>
  /\ ring' = Tail(ring)
  /\ wPc' = "record"
  /\ UNCHANGED <<clock, ingVars, pipe, parVars, wStop, wTsc, csvBuf, csv, kills, lost>>

WorkerEmpty ==
  /\ wPc = "pop" /\ ring = <<>>
  /\ wPc' = "flush"
  /\ UNCHANGED <<clock, ingVars, pipe, parVars, ring, wStop, wTsc, wMsg, csvBuf, csv,
                 kills, lost>>

\* fprintf of one record into the buffer of the CSV file.
WorkerRecord ==
  /\ wPc = "record"
  /\ csvBuf' = Append(csvBuf,
       [id |-> wMsg[1].id, recv |-> wMsg[1].recv, enq |-> wMsg[1].enq, deq |-> wTsc,
        latIngress |-> Elapsed(wMsg[1].recv, wTsc),
        latParse   |-> Elapsed(wMsg[1].enq, wTsc)])
  /\ wMsg' = <<>>
  /\ wPc' = "flush"
  /\ UNCHANGED <<clock, ingVars, pipe, parVars, ring, wStop, wTsc, csv, kills, lost>>

\* Faults: a flush that leaves the buffer full, and one that writes nothing.
FaultFlushKeeps ==
  /\ wPc = "flush"
  /\ csv' = csv \o csvBuf
  /\ wPc' = "loop"
  /\ UNCHANGED <<clock, ingVars, pipe, parVars, ring, wStop, wTsc, wMsg, csvBuf, kills, lost>>

FaultFlushLoses ==
  /\ wPc = "flush"
  /\ csvBuf' = <<>>
  /\ wPc' = "loop"
  /\ UNCHANGED <<clock, ingVars, pipe, parVars, ring, wStop, wTsc, wMsg, csv, kills, lost>>

\* flush_ms have passed since the last flush, or stdio's buffer was full.
WorkerFlush ==
  /\ wPc = "flush"
  /\ csv' = csv \o csvBuf /\ csvBuf' = <<>>
  /\ wPc' = "loop"
  /\ UNCHANGED <<clock, ingVars, pipe, parVars, ring, wStop, wTsc, wMsg, kills, lost>>

WorkerNoFlush ==
  /\ wPc = "flush"
  /\ wPc' = "loop"
  /\ UNCHANGED <<clock, ingVars, pipe, parVars, ring, wStop, wTsc, wMsg, csvBuf, csv,
                 kills, lost>>

WorkerStep ==
  WorkerLoop \/ WorkerPop \/ WorkerEmpty \/ WorkerRecord \/ WorkerFlush \/ WorkerNoFlush
--------------------------------------------------------------------------------
(* Signals, kills and restarts *)

\* SIGINT or SIGTERM: the handler only clears `running'.
StopIngress ==
  /\ ~iStop /\ iStop' = TRUE
  /\ UNCHANGED <<clock, arrived, iPc, iTsc, iOut, pipe, parVars, ring, wrkVars, kills, lost>>

StopParser ==
  /\ ~pStop /\ pStop' = TRUE
  /\ UNCHANGED <<clock, ingVars, pipe, pPc, pTsc, pMsg, errors, processed, ring,
                 wrkVars, kills, lost>>

StopWorker ==
  /\ ~wStop /\ wStop' = TRUE
  /\ UNCHANGED <<clock, ingVars, pipe, parVars, ring, wPc, wTsc, wMsg, csvBuf, csv,
                 kills, lost>>

\* A kill takes what the process has in hand with it; pipe and ring stay.
KillIngress ==
  /\ ~Ended(iPc) /\ kills < MaxKills
  /\ iPc' = "killed" /\ iOut' = <<>>
  /\ lost' = lost + Len(iOut) /\ kills' = kills + 1
  /\ UNCHANGED <<clock, arrived, iStop, iTsc, pipe, parVars, ring, wrkVars>>

KillParser ==
  /\ ~Ended(pPc) /\ kills < MaxKills
  /\ pPc' = "killed" /\ pMsg' = <<>>
  /\ lost' = lost + Len(pMsg) /\ kills' = kills + 1
  /\ UNCHANGED <<clock, ingVars, pipe, pStop, pTsc, errors, processed, ring, wrkVars>>

KillWorker ==
  /\ ~Ended(wPc) /\ kills < MaxKills
  /\ wPc' = "killed" /\ wMsg' = <<>> /\ csvBuf' = <<>>
  /\ lost' = lost + Len(wMsg) + Len(csvBuf) /\ kills' = kills + 1
  /\ UNCHANGED <<clock, ingVars, pipe, parVars, ring, wStop, wTsc, csv>>

\* A new worker attaches to the same ring and opens the CSV file with "w".
StartWorker ==
  /\ Ended(wPc)
  /\ wPc' = "loop" /\ wStop' = FALSE /\ csv' = <<>>
  /\ lost' = lost + Len(csv)
  /\ UNCHANGED <<clock, ingVars, pipe, parVars, ring, wTsc, wMsg, csvBuf, kills>>

Environment ==
  \/ Tick \/ StopIngress \/ StopParser \/ StopWorker
  \/ KillIngress \/ KillParser \/ KillWorker \/ StartWorker

Next == IngressStep \/ ParserStep \/ WorkerStep \/ Environment

Spec == Init /\ [][Next]_vars

\* The scheduler runs every process; flush_ms pass again and again.  Nothing
\* obliges anyone to send a datagram or a signal.
Fairness ==
  /\ WF_vars(IngressLoop \/ IngressIdle \/ IngressWrite \/ IngressBroken)
  /\ WF_vars(ParserStep)
  /\ WF_vars(WorkerStep) /\ SF_vars(WorkerFlush)

FairSpec == Spec /\ Fairness
--------------------------------------------------------------------------------
Stamps == 0 .. MaxClock
Numbers == 1 .. MaxFrames
Latencies == 0 .. TscMod - 1

\* Header and frame in the pipe, a ParsedMessage, and a line of the CSV file.
Frames == [id : Numbers, recv : Stamps, ok : BOOLEAN]
Messages == [id : Numbers, recv : Stamps, enq : Stamps]
Records == [id : Numbers, recv : Stamps, enq : Stamps, deq : Stamps,
            latIngress : Latencies, latParse : Latencies]

\* Ring and pipe never hold more than they can, a process has a frame in hand
\* exactly when it stands between taking it and passing it on (ingress.cpp:147,
\* parser.cpp:241, worker_risk.cpp:218), and the counters are bounded by the
\* datagrams received.
TypeOK ==
  /\ clock \in Stamps /\ arrived \in 0 .. MaxFrames /\ kills \in 0 .. MaxKills
  /\ iPc \in {"loop", "recv", "write", "stopped", "killed"}
  /\ pPc \in {"loop", "header", "body", "push", "stopped", "killed"}
  /\ wPc \in {"loop", "pop", "record", "flush", "stopped", "killed"}
  /\ {iStop, pStop, wStop} \subseteq BOOLEAN
  /\ {iTsc, pTsc, wTsc} \subseteq Stamps
  /\ {errors, processed, lost} \subseteq 0 .. MaxFrames
  /\ iOut \in Seq(Frames) /\ Len(iOut) = (IF iPc = "write" THEN 1 ELSE 0)
  /\ pipe \in Seq(Frames) /\ Len(pipe) <= PipeCap
  /\ pMsg \in Seq(Messages) /\ Len(pMsg) = (IF pPc = "push" THEN 1 ELSE 0)
  /\ ring \in Seq(Messages) /\ Len(ring) <= RingCap
  /\ wMsg \in Seq(Messages) /\ Len(wMsg) = (IF wPc = "record" THEN 1 ELSE 0)
  /\ csvBuf \in Seq(Records) /\ csv \in Seq(Records)

\* Everything that is on its way to the file, oldest first, and with the file.
Transit == csvBuf \o wMsg \o ring \o pMsg \o pipe \o iOut
Path == csv \o Transit

\* No datagram disappears unnoticed and none is counted or recorded twice:
\* whatever ingress received is on its way, recorded, in the parser's error
\* count (invalid, or dropped on a full ring), or went down with a process.
EveryFrameAccounted == arrived = Len(Path) + errors + lost

\* From the socket to the CSV file datagrams keep the order of reception, and
\* with it the order of their recv_tsc, through drops, kills and restarts.
InOrder ==
  \A i, j \in 1 .. Len(Path) :
    i < j => Path[i].id < Path[j].id /\ Path[i].recv <= Path[j].recv

\* The timestamps of a message are causal: received, then enqueued, with the
\* recv_tsc of its own header although header and frame are two reads.
StampsCausal ==
  \A m \in {(csvBuf \o wMsg \o ring \o pMsg)[i] :
              i \in 1 .. Len(csvBuf \o wMsg \o ring \o pMsg)} :
    m.recv <= m.enq /\ m.enq <= clock

\* The parser reads a header and its frame from the pipe in two calls; the
\* frame it is about to read is the one that followed the header.
HeaderOfFrame == pPc = "body" => pipe # <<>> /\ pTsc = Head(pipe).recv

\* Numbers and receive stamps on the way are old ones, and no process has read
\* a time that is still to come.
StampsOfThePast ==
  /\ \A i \in 1 .. Len(Path) : Path[i].id <= arrived /\ Path[i].recv <= iTsc
  /\ {iTsc, pTsc, wTsc} \subseteq 0 .. clock

\* What the parser has dealt with, with what it has still to come, is no more
\* than what arrived.
ParserBehind == processed + errors + Len(pMsg \o pipe \o iOut) <= arrived

\* The inductive invariant.
IInv ==
  /\ TypeOK /\ EveryFrameAccounted /\ InOrder /\ StampsCausal
  /\ HeaderOfFrame /\ StampsOfThePast /\ ParserBehind

Ids(s) == [i \in DOMAIN s |-> s[i].id]

Channel == INSTANCE LossyChannel WITH
  sent <- arrived,
  transit <- Ids(Transit),
  delivered <- Ids(csv),
  losses <- errors + lost

\* The programs together are an ordered channel that delivers at most once and
\* counts what it loses (ingress.cpp:151, parser.cpp:241, worker_risk.cpp:258):
\* what was lost never turns up later, and a file grows at its end until a
\* new worker begins it anew (worker_risk.cpp:149).
ImplementsChannel == Channel!Spec

\* A message the parser pushed reaches the CSV file, unless the worker is told
\* to stop or killed first: it is never left behind while the worker runs.
PushedIsRecorded ==
  \A n \in 1 .. MaxFrames :
    (\E i \in DOMAIN ring : ring[i].id = n)
      ~> ((\E i \in DOMAIN csv : csv[i].id = n) \/ wStop \/ kills > 0)

\* When ingress ends, by signal or not, the parser reads what is left in the
\* pipe and ends as well.
StopPropagates == Ended(iPc) ~> Ended(pPc)

\* SIGTERM ends ingress even if it is blocked on a full pipe at that moment,
\* since the parser never waits for the ring.
IngressStops == iStop ~> Ended(iPc)

\* LOW_LEVEL_DESIGN.md:206: "CSV records with precise latency metrics"; and
\* worker_risk_shard.hpp:15: "Captures dequeue timestamp and computes
\* latencies".  So no latency exceeds the time that has passed at all.
LatencyIsElapsed ==
  \A i \in 1 .. Len(csvBuf) : csvBuf[i].latParse <= clock /\ csvBuf[i].latIngress <= clock
================================================================================
