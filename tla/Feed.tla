---------------------------------- MODULE Feed ----------------------------------
(***************************************************************************)
(* From apps/ulmdsim.cpp to the socket of apps/ingress.cpp: the start of   *)
(* both programs from options and one configuration file, the schedule of  *)
(* the simulator (a burst, or a rate held for a while), and the socket in  *)
(* between, which drops what finds it full or closed.  ingress may start   *)
(* late, end and start again.                                              *)
(*                                                                         *)
(* The clock is that of the simulator; the programs may be delayed at any  *)
(* step.  An interval is a whole number of ticks.                          *)
(***************************************************************************)
EXTENDS Config

CONSTANTS
  Files,      \* configuration files there may be
  SimArgs,    \* options the simulator may be started with
  IngArgs,    \* options ingress may be started with
  Second,     \* clock ticks in a second
  MaxQps,     \* highest rate accepted: 1000000
  Duration,   \* ticks for which a rate is held: 5 seconds
  SocketCap,  \* datagrams the socket holds
  MaxClock,   \* bound on the clock
  MaxStarts   \* bound on the starts of ingress

SimOptions == [name : {"config", "port", "qps", "burst"}, text : Texts]
IngOptions == [name : {"config", "port", "tsc_hz"}, text : Texts]

ASSUME FeedAssumption ==
  /\ Files \subseteq [readable : BOOLEAN, lines : Seq(Lines)]
  /\ SimArgs \subseteq Seq(SimOptions) /\ IngArgs \subseteq Seq(IngOptions)
  /\ Second \in Nat \ {0} /\ MaxQps \in 1 .. Second
  /\ Duration \in Nat \ {0} /\ MaxClock \in Nat /\ MaxClock >= Duration + Second
  /\ SocketCap \in Nat \ {0} /\ MaxStarts \in Nat

VARIABLES
  file, clock,
  sPc, sArgs, sAddr, sPort, interval, burst,  \* the simulator and its settings
  start, nextSend, sent, seqNo,        \* its schedule, messages_sent, seq_no
  iPc, iArgs, iPort, starts,           \* ingress
  socket, received, lost               \* sequence numbers; lost is counted

simVars == <<sPc, sArgs, sAddr, sPort, interval, burst, start, nextSend, sent, seqNo>>
ingVars == <<iPc, iArgs, iPort, starts>>
netVars == <<socket, received, lost>>
vars == <<file, clock, simVars, ingVars, netVars>>
--------------------------------------------------------------------------------
Init ==
  /\ file \in Files
  /\ clock = 0
  /\ sPc = "start" /\ sArgs = <<>> /\ sAddr = Loopback /\ sPort = 0 /\ interval = 0 /\ burst = 0
  /\ start = 0 /\ nextSend = 0 /\ sent = 0 /\ seqNo = 1
  /\ iPc = "down" /\ iArgs = <<>> /\ iPort = 0 /\ starts = 0
  /\ socket = <<>> /\ received = <<>> /\ lost = 0

Tick ==
  /\ clock < MaxClock
  /\ clock' = clock + 1
  /\ UNCHANGED <<file, simVars, ingVars, netVars>>
--------------------------------------------------------------------------------
(* Start of the simulator *)

SimDefaults == [config |-> Defaults, qps |-> 0, burst |-> 0, ok |-> TRUE]

\* Fault: the port is kept in a wider type.
FaultWidePort(s, option) ==
  IF ~s.ok THEN s ELSE
  CASE option.name = "config" /\ ~file.readable -> [s EXCEPT !.ok = FALSE]
    [] option.name = "config" /\ file.readable ->
         [s EXCEPT !.config = LoadConfig(file, s.config)]
    [] option.name = "port" -> [s EXCEPT !.config.port = option.text.n]
    [] option.name = "qps" -> [s EXCEPT !.qps = option.text.n]
    [] option.name = "burst" -> [s EXCEPT !.burst = option.text.n]

\* --config ends the program if it fails; the others are atoi, the port cut
\* down to its type.
SimOption(s, option) ==
  IF ~s.ok THEN s ELSE
  CASE option.name = "config" /\ ~file.readable -> [s EXCEPT !.ok = FALSE]
    [] option.name = "config" /\ file.readable ->
         [s EXCEPT !.config = LoadConfig(file, s.config)]
    [] option.name = "port" -> [s EXCEPT !.config.port = option.text.n % PortMod]
    [] option.name = "qps" -> [s EXCEPT !.qps = option.text.n]
    [] option.name = "burst" -> [s EXCEPT !.burst = option.text.n]

SimSettings(args) == FoldLeft(SimOption, SimDefaults, args)
SimRuns(s) == s.ok /\ s.config.port # 0 /\ s.qps \in 1 .. MaxQps

SimStart(args) ==
  LET s == SimSettings(args) IN
  /\ sPc = "start" /\ clock + Duration + Second <= MaxClock
  /\ sArgs' = args
  /\ IF SimRuns(s)
       THEN /\ sPc' = "loop" /\ sAddr' = s.config.bind_address /\ sPort' = s.config.port
            /\ interval' = Second \div s.qps /\ burst' = s.burst
            /\ start' = clock /\ nextSend' = clock
       ELSE sPc' = "failed" /\ UNCHANGED <<sAddr, sPort, interval, burst, start, nextSend>>
  /\ UNCHANGED <<file, clock, sent, seqNo, ingVars, netVars>>
--------------------------------------------------------------------------------
(* The sending loop *)

Sustained == burst = 0

\* Faults: the elapsed time is compared with one too much, and not at all.
FaultTimeIsLate == clock - start > Duration
FaultTimeIsNever == FALSE

TimeIsUp == clock - start >= Duration

SimLoop ==
  /\ sPc = "loop"
  /\ sPc' = IF (IF Sustained THEN TimeIsUp ELSE sent >= burst) THEN "done" ELSE "send"
  /\ UNCHANGED <<file, clock, sArgs, sAddr, sPort, interval, burst, start, nextSend, sent, seqNo,
                 ingVars, netVars>>

\* sendto: the socket takes the datagram, or it is lost, which the sender does
\* not learn.  ingress listens on the loopback address only.
Deliver ==
  IF iPc = "up" /\ iPort = sPort /\ sAddr = Loopback /\ Len(socket) < SocketCap
    THEN socket' = Append(socket, seqNo) /\ UNCHANGED lost
    ELSE lost' = lost + 1 /\ UNCHANGED socket

\* Fault: the next datagram is due an interval from now on.
FaultNextDue == clock + interval

NextDue == nextSend + interval

\* Fault: a burst skips the counting of the number.
FaultSimRepeats ==
  /\ sPc = "send"
  /\ Deliver
  /\ sent' = sent + 1 /\ seqNo' = IF Sustained THEN seqNo + 1 ELSE seqNo
  /\ nextSend' = IF Sustained THEN NextDue ELSE nextSend
  /\ sPc' = IF Sustained /\ nextSend' > clock THEN "sleep" ELSE "loop"
  /\ UNCHANGED <<file, clock, sArgs, sAddr, sPort, interval, burst, start, ingVars, received>>

\* A datagram leaves; a burst goes on at once, a rate when the next is due.
SimSend ==
  /\ sPc = "send"
  /\ Deliver
  /\ sent' = sent + 1 /\ seqNo' = seqNo + 1
  /\ nextSend' = IF Sustained THEN NextDue ELSE nextSend
  /\ sPc' = IF Sustained /\ nextSend' > clock THEN "sleep" ELSE "loop"
  /\ UNCHANGED <<file, clock, sArgs, sAddr, sPort, interval, burst, start, ingVars, received>>

\* sendto fails.
SimFails ==
  /\ sPc = "send"
  /\ sPc' = "failed"
  /\ UNCHANGED <<file, clock, sArgs, sAddr, sPort, interval, burst, start, nextSend, sent, seqNo,
                 ingVars, netVars>>

SimWake ==
  /\ sPc = "sleep" /\ clock >= nextSend
  /\ sPc' = "loop"
  /\ UNCHANGED <<file, clock, sArgs, sAddr, sPort, interval, burst, start, nextSend, sent, seqNo,
                 ingVars, netVars>>

SimStep ==
  \/ \E args \in SimArgs : SimStart(args)
  \/ SimLoop \/ SimSend \/ SimFails \/ SimWake
--------------------------------------------------------------------------------
(* ingress *)

IngDefaults == [config |-> Defaults, ok |-> TRUE]

\* Unlike the simulator, ingress ends on a port that is not one.
IngOption(s, option) ==
  IF ~s.ok THEN s ELSE
  CASE option.name = "config" /\ ~file.readable -> [s EXCEPT !.ok = FALSE]
    [] option.name = "config" /\ file.readable ->
         [s EXCEPT !.config = LoadConfig(file, s.config)]
    [] option.name = "port" /\ ~ValidPort(option.text) -> [s EXCEPT !.ok = FALSE]
    [] option.name = "port" /\ ValidPort(option.text) ->
         [s EXCEPT !.config.port = option.text.n]
    [] option.name = "tsc_hz" -> [s EXCEPT !.config.tsc_hz = option.text.n]

IngSettings(args) == FoldLeft(IngOption, IngDefaults, args)
IngRuns(s) == s.ok /\ s.config.port # 0 /\ s.config.tsc_hz > 0

\* The socket may also be refused, when another program is bound to the port.
IngressStart(args) ==
  LET s == IngSettings(args) IN
  /\ iPc = "down" /\ starts < MaxStarts
  /\ starts' = starts + 1
  /\ iArgs' = args
  /\ \/ UNCHANGED <<iPc, iPort>>
     \/ IngRuns(s) /\ iPc' = "up" /\ iPort' = s.config.port
  /\ UNCHANGED <<file, clock, simVars, netVars>>

\* Fault: what waits in the socket is read and only the newest is used.
FaultIngressRecv ==
  /\ iPc = "up" /\ socket # <<>>
  /\ received' = Append(received, Last(socket))
  /\ socket' = <<>>
  /\ lost' = lost + Len(socket) - 1
  /\ UNCHANGED <<file, clock, simVars, ingVars>>

IngressRecv ==
  /\ iPc = "up" /\ socket # <<>>
  /\ received' = Append(received, Head(socket))
  /\ socket' = Tail(socket)
  /\ UNCHANGED <<file, clock, simVars, ingVars, lost>>

\* By a signal, an error or a kill; what is left in the socket goes with it.
IngressEnds ==
  /\ iPc = "up"
  /\ iPc' = "down"
  /\ socket' = <<>>
  /\ lost' = lost + Len(socket)
  /\ UNCHANGED <<file, clock, simVars, iArgs, iPort, starts, received>>

IngressStep == (\E args \in IngArgs : IngressStart(args)) \/ IngressRecv \/ IngressEnds

Next == SimStep \/ IngressStep \/ Tick

Spec == Init /\ [][Next]_vars

\* Time passes and the programs are scheduled; nobody has to start them.
Fairness ==
  /\ WF_vars(Tick)
  /\ WF_vars(SimLoop \/ SimSend \/ SimWake)
  /\ WF_vars(IngressRecv)

FairSpec == Spec /\ Fairness
--------------------------------------------------------------------------------
SimIsRunning == sPc \in {"loop", "send", "sleep"}

\* The programs are at one of their steps, ports are numbers of their type, and
\* the socket holds no more than it can and nothing while it is closed.
TypeOK ==
  /\ file \in Files /\ clock \in 0 .. MaxClock
  /\ sPc \in {"start", "loop", "send", "sleep", "done", "failed"}
  /\ iPc \in {"down", "up"} /\ starts \in 0 .. MaxStarts
  /\ sPort \in 0 .. PortMod - 1 /\ iPort \in 0 .. PortMod - 1
  /\ interval \in 0 .. Second /\ burst \in Int
  /\ sent \in Nat /\ seqNo \in Nat /\ lost \in Nat
  /\ Len(socket) <= SocketCap /\ (iPc = "down" => socket = <<>>)

\* What a program was told of the port: by the last option that says something,
\* where a file speaks through its last valid line.
Told(f, args) ==
  LET Speaks(option) ==
        \/ option.name = "port"
        \/ option.name = "config" /\ LastValid(f, "port", 0) # 0
      n == SelectLastInSeq(args, Speaks)
  IN  IF n = 0 THEN Defaults.port
      ELSE IF args[n].name = "port" THEN args[n].text.n % PortMod
      ELSE LastValid(f, "port", 0)

\* Both programs use the port they were told, whatever the order of options and
\* lines and whatever stands in lines that are not valid (config.cpp:45-62);
\* so the same words mean the same port to both.
PortIsAsTold ==
  /\ iPc = "up" => iPort = Told(file, iArgs)
  /\ SimIsRunning => sPort = Told(file, sArgs)

\* The simulator holds its rate (ulmdsim.cpp:263): however it is delayed, no
\* datagram leaves before its time, and it never sleeps past the time of the
\* next, so that it catches up.
OnSchedule ==
  Sustained =>
    /\ sent > 0 => start + (sent - 1) * interval <= clock
    /\ sPc = "sleep" => nextSend <= start + sent * interval

\* A rate is held for Duration (ulmdsim.cpp:221): nothing that is due later is
\* sent, and a burst is as long as it was said to be unless sendto fails
\* (ulmdsim.cpp:217).
NoMoreThanAsked ==
  /\ sent > 0 => IF Sustained THEN (sent - 1) * interval < Duration ELSE sent <= burst
  /\ sPc = "done" /\ burst > 0 => sent = burst

\* The sequence numbers of what reaches ingress increase, and a gap between them
\* is what was lost in the socket or by a restart of ingress, no more, no less.
GapsAreLosses ==
  LET seen == received \o socket IN
  /\ \A i, j \in DOMAIN seen : i < j => seen[i] < seen[j]
  /\ seqNo - 1 = Len(seen) + lost

\* The simulator ends: after its burst, or when its time is up (ulmdsim.cpp:219).
SimEnds == SimIsRunning ~> sPc \in {"done", "failed"}

\* What the socket took is received, unless ingress ends (ingress.cpp:144).
QueuedIsReceived ==
  \A n \in 1 .. MaxClock :
    (n \in Range(socket)) ~> (n \in Range(received) \/ iPc = "down")
--------------------------------------------------------------------------------
(* The inductive invariant *)

\* The settings of the simulator are those it was started with, and what is in
\* flight are sequence numbers.
Settled ==
  /\ start \in Nat /\ nextSend \in Nat
  /\ socket \in Seq(Nat) /\ received \in Seq(Nat)
  /\ sPc = "start" => sent = 0 /\ burst = 0
  /\ SimIsRunning => interval > 0

\* Where the schedule stands at each step of the loop.
Scheduled ==
  Sustained =>
    /\ nextSend = start + sent * interval
    /\ sPc \in {"loop", "send"} => nextSend <= clock
    /\ sPc = "send" => nextSend - start < Duration

BurstCounted ==
  /\ ~Sustained /\ sent > 0 => sent <= burst
  /\ ~Sustained /\ sPc = "send" => sent < burst

\* A number on its way or received has been given out.
NumbersGivenOut ==
  \A i \in DOMAIN (received \o socket) : (received \o socket)[i] < seqNo

IInv ==
  /\ TypeOK /\ Settled /\ Scheduled /\ BurstCounted /\ NumbersGivenOut
  /\ PortIsAsTold /\ OnSchedule /\ NoMoreThanAsked /\ GapsAreLosses
================================================================================
