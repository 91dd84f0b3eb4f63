---------------------------------- MODULE MCFeed ----------------------------------
EXTENDS Feed

Port(text) == [key |-> "port", text |-> text]
Option(name, text) == [name |-> name, text |-> text]
FromFile == Option("config", Text(0))

File(lines) == [readable |-> TRUE, lines |-> lines]
NoFile == [readable |-> FALSE, lines |-> <<>>]
Line(key, n) == [key |-> key, text |-> Text(n)]

\* Files that say nothing, something, or first one thing and then another, valid
\* or not: 5 is no port, as PortMod is 4.
MCFiles == {
  NoFile, File(<<>>), File(<<Port(Text(2)), Port(Text(5))>>),
  File(<<Port(Garbled(3)), Port(Text(2)), Line("tsc_hz", 0)>>),
  File(<<Line("bind_address", 1)>>)}

Rate(n) == <<Option("qps", Text(n)), Option("burst", Text(0))>>
Burst(n) == <<Option("qps", Text(1)), Option("burst", Text(n))>>

MCSimArgs == {
  <<FromFile>> \o Rate(1), <<Option("port", Text(6)), FromFile>> \o Rate(2),
  <<FromFile, Option("port", Text(2))>> \o Burst(3), <<FromFile>> \o Rate(4), Burst(-1)}

MCIngArgs == {
  <<FromFile>>, <<Option("port", Text(2)), FromFile>>, <<Option("port", Text(6)), FromFile>>,
  <<FromFile, Option("tsc_hz", Text(0))>>}
================================================================================
