----------------------------- MODULE PipelineProofs -----------------------------
(***************************************************************************)
(* Proofs about Pipeline for every number of datagrams, every capacity of  *)
(* pipe and ring, every clock and any number of kills.                     *)
(***************************************************************************)
EXTENDS Pipeline, SequenceTheorems, TLAPS

--------------------------------------------------------------------------------
(* Sequences of numbered, stamped items *)

\* The order of InOrder and the bound of StampsOfThePast, for any sequence.
Sorted(s) ==
  \A i, j \in 1 .. Len(s) : i < j => s[i].id < s[j].id /\ s[i].recv <= s[j].recv

Below(s, n, t) == \A i \in 1 .. Len(s) : s[i].id <= n /\ s[i].recv <= t

\* Two sequences that differ at most in fields other than number and stamp.
SameTags(s, t) ==
  /\ Len(s) = Len(t)
  /\ \A i \in 1 .. Len(s) : s[i].id = t[i].id /\ s[i].recv = t[i].recv

Items == Frames \cup Messages \cup Records

\* What has a number and a stamp has natural ones.
LEMMA ItemFields ==
  ASSUME NEW x \in Items
  PROVE  x.id \in Nat /\ x.recv \in Nat
BY PipelineAssumption DEF Items, Frames, Messages, Records, Numbers, Stamps

\* Concatenation, to reason about it without the definition of \o.
s ++ t == s \o t

LEMMA CatIsSeq ==
  ASSUME NEW S
  PROVE  \A s, t \in Seq(S) : s ++ t \in Seq(S)
BY ConcatProperties DEF ++

LEMMA CatEmpty ==
  ASSUME NEW S
  PROVE  \A s \in Seq(S) : s ++ <<>> = s /\ <<>> ++ s = s
BY ConcatEmptySeq DEF ++

LEMMA CatItems ==
  ASSUME NEW S, NEW s \in Seq(S), NEW t \in Seq(S)
  PROVE  /\ Len(s ++ t) = Len(s) + Len(t)
         /\ \A i \in 1 .. Len(s) : (s ++ t)[i] = s[i]
         /\ \A i \in Len(s) + 1 .. Len(s) + Len(t) : (s ++ t)[i] = t[i - Len(s)]
BY DEF ++

LEMMA CatAssociative ==
  ASSUME NEW S
  PROVE  \A s, t, u \in Seq(S) : (s ++ t) ++ u = s ++ (t ++ u)
BY DEF ++

\* Six sequences in a row may be split after any of them.
LEMMA Splits ==
  ASSUME NEW S, NEW a \in Seq(S), NEW b \in Seq(S), NEW c \in Seq(S),
         NEW d \in Seq(S), NEW e \in Seq(S), NEW f \in Seq(S)
  PROVE  LET s == a ++ b ++ c ++ d ++ e ++ f
         IN  /\ s \in Seq(S)
             /\ s = a ++ (b ++ c ++ d ++ e ++ f)
             /\ s = (a ++ b) ++ (c ++ d ++ e ++ f)
             /\ s = (a ++ b ++ c) ++ (d ++ e ++ f)
             /\ s = (a ++ b ++ c ++ d) ++ (e ++ f)
             /\ /\ (a ++ b) \in Seq(S) /\ (a ++ b ++ c) \in Seq(S)
                /\ (a ++ b ++ c ++ d) \in Seq(S) /\ (a ++ b ++ c ++ d ++ e) \in Seq(S)
             /\ /\ (b ++ c ++ d ++ e ++ f) \in Seq(S) /\ (c ++ d ++ e ++ f) \in Seq(S)
                /\ (d ++ e ++ f) \in Seq(S) /\ (e ++ f) \in Seq(S)
<1>1. \A s, t \in Seq(S) : s ++ t \in Seq(S)
  BY CatIsSeq
<1>2. \A s, t, u \in Seq(S) : (s ++ t) ++ u = s ++ (t ++ u)
  BY CatAssociative
<1>3. /\ a ++ b \in Seq(S) /\ a ++ b ++ c \in Seq(S)
      /\ a ++ b ++ c ++ d \in Seq(S) /\ a ++ b ++ c ++ d ++ e \in Seq(S)
      /\ a ++ b ++ c ++ d ++ e ++ f \in Seq(S)
  BY <1>1
<1>4. /\ e ++ f \in Seq(S) /\ d ++ e ++ f \in Seq(S) /\ c ++ d ++ e ++ f \in Seq(S)
      /\ b ++ c ++ d ++ e ++ f \in Seq(S)
  BY <1>1
<1>5. /\ d ++ e \in Seq(S) /\ c ++ d \in Seq(S) /\ c ++ d ++ e \in Seq(S)
      /\ b ++ c \in Seq(S) /\ b ++ c ++ d \in Seq(S) /\ b ++ c ++ d ++ e \in Seq(S)
  BY <1>1
<1>6. d ++ (e ++ f) = d ++ e ++ f
  BY <1>2
<1>7. c ++ (d ++ e ++ f) = c ++ d ++ e ++ f
  <2>1. c ++ ((d ++ e) ++ f) = (c ++ (d ++ e)) ++ f
    BY <1>2, <1>5
  <2>2. c ++ (d ++ e) = (c ++ d) ++ e
    BY <1>2
  <2> QED
    BY <2>1, <2>2
<1>8. b ++ (c ++ d ++ e ++ f) = b ++ c ++ d ++ e ++ f
  <2>1. b ++ ((c ++ d ++ e) ++ f) = (b ++ (c ++ d ++ e)) ++ f
    BY <1>2, <1>5
  <2>2. b ++ ((c ++ d) ++ e) = (b ++ (c ++ d)) ++ e
    BY <1>2, <1>5
  <2>3. b ++ (c ++ d) = (b ++ c) ++ d
    BY <1>2
  <2> QED
    BY <2>1, <2>2, <2>3
<1>9. (a ++ b ++ c ++ d ++ e) ++ f = (a ++ b ++ c ++ d) ++ (e ++ f)
  BY <1>2, <1>3
<1>10. (a ++ b ++ c ++ d) ++ (e ++ f) = (a ++ b ++ c) ++ (d ++ e ++ f)
  <2>1. a ++ b ++ c \in Seq(S) /\ e ++ f \in Seq(S)
    BY <1>3, <1>4
  <2>2. ((a ++ b ++ c) ++ d) ++ (e ++ f) = (a ++ b ++ c) ++ (d ++ (e ++ f))
    BY <1>2, <2>1
  <2> QED
    BY <1>6, <2>2
<1>11. (a ++ b ++ c) ++ (d ++ e ++ f) = (a ++ b) ++ (c ++ d ++ e ++ f)
  <2>1. a ++ b \in Seq(S) /\ d ++ e ++ f \in Seq(S)
    BY <1>3, <1>4
  <2>2. ((a ++ b) ++ c) ++ (d ++ e ++ f) = (a ++ b) ++ (c ++ (d ++ e ++ f))
    BY <1>2, <2>1
  <2> QED
    BY <1>7, <2>2
<1>12. (a ++ b) ++ (c ++ d ++ e ++ f) = a ++ (b ++ c ++ d ++ e ++ f)
  BY <1>2, <1>4, <1>8
<1> QED
  BY <1>3, <1>4, <1>9, <1>10, <1>11, <1>12

\* Where the i-th item of s ++ u is in s ++ t ++ u.
BeforeCut(s, t, i) == IF i <= Len(s) THEN i ELSE i + Len(t)

LEMMA CutKeepsOrder ==
  ASSUME NEW s \in Seq(Items), NEW t \in Seq(Items), NEW u \in Seq(Items)
  PROVE  /\ \A i \in 1 .. Len(s ++ u) :
              /\ BeforeCut(s, t, i) \in 1 .. Len(s ++ t ++ u)
              /\ (s ++ u)[i] = (s ++ t ++ u)[BeforeCut(s, t, i)]
         /\ \A i, j \in 1 .. Len(s ++ u) : i < j => BeforeCut(s, t, i) < BeforeCut(s, t, j)
<1> USE DEF ++
<1>1. /\ Len(s) \in Nat /\ Len(t) \in Nat /\ Len(u) \in Nat
      /\ (s ++ t) \in Seq(Items) /\ Len(s ++ t) = Len(s) + Len(t)
      /\ Len(s ++ u) = Len(s) + Len(u)
      /\ Len(s ++ t ++ u) = Len(s) + Len(t) + Len(u)
  BY ConcatProperties, LenProperties
<1>2. ASSUME NEW i \in 1 .. Len(s ++ u)
      PROVE  /\ BeforeCut(s, t, i) \in 1 .. Len(s ++ t ++ u)
             /\ (s ++ u)[i] = (s ++ t ++ u)[BeforeCut(s, t, i)]
  <2>1. CASE i <= Len(s)
    BY <1>1, <2>1, ConcatProperties DEF BeforeCut
  <2>2. CASE i > Len(s)
    <3>1. i - Len(s) = i + Len(t) - Len(s ++ t) /\ i + Len(t) > Len(s ++ t)
      BY <1>1, <2>2
    <3> QED
      BY <1>1, <2>2, <3>1, ConcatProperties DEF BeforeCut
  <2> QED
    BY <1>1, <2>1, <2>2
<1>3. ASSUME NEW i \in 1 .. Len(s ++ u), NEW j \in 1 .. Len(s ++ u), i < j
      PROVE  BeforeCut(s, t, i) < BeforeCut(s, t, j)
  BY <1>1, <1>3 DEF BeforeCut
<1> QED
  BY <1>2, <1>3

\* What is cut out of a sequence leaves it sorted and below its bounds.
LEMMA CutSorted ==
  ASSUME NEW s \in Seq(Items), NEW t \in Seq(Items), NEW u \in Seq(Items),
         NEW n, NEW r, Sorted(s ++ t ++ u), Below(s ++ t ++ u, n, r)
  PROVE  Sorted(s ++ u) /\ Below(s ++ u, n, r)
<1>1. /\ \A i \in 1 .. Len(s ++ u) :
              /\ BeforeCut(s, t, i) \in 1 .. Len(s ++ t ++ u)
              /\ (s ++ u)[i] = (s ++ t ++ u)[BeforeCut(s, t, i)]
      /\ \A i, j \in 1 .. Len(s ++ u) : i < j => BeforeCut(s, t, i) < BeforeCut(s, t, j)
  BY CutKeepsOrder
<1>2. Below(s ++ u, n, r)
  BY <1>1 DEF Below
<1>3. ASSUME NEW i \in 1 .. Len(s ++ u), NEW j \in 1 .. Len(s ++ u), i < j
      PROVE  (s ++ u)[i].id < (s ++ u)[j].id /\ (s ++ u)[i].recv <= (s ++ u)[j].recv
  <2>1. BeforeCut(s, t, i) < BeforeCut(s, t, j)
    BY <1>1, <1>3
  <2> QED
    BY <1>1, <2>1 DEF Sorted
<1>4. Sorted(s ++ u)
  BY <1>3 DEF Sorted
<1> QED
  BY <1>2, <1>4

\* Order and bounds depend on numbers and stamps alone.
LEMMA SameTagsSorted ==
  ASSUME NEW s \in Seq(Items), NEW t \in Seq(Items), SameTags(s, t),
         NEW n, NEW r, Sorted(s), Below(s, n, r)
  PROVE  Sorted(t) /\ Below(t, n, r)
BY DEF SameTags, Sorted, Below

LEMMA SameTagsConcat ==
  ASSUME NEW s \in Seq(Items), NEW t \in Seq(Items), NEW x \in Seq(Items),
         NEW y \in Seq(Items), SameTags(s, t), SameTags(x, y)
  PROVE  SameTags(s ++ x, t ++ y)
<1> USE DEF ++
<1>0. /\ Len(s) \in Nat /\ Len(x) \in Nat /\ Len(t) = Len(s) /\ Len(y) = Len(x)
  BY LenProperties DEF SameTags
<1>1. Len(s ++ x) = Len(s) + Len(x) /\ Len(t ++ y) = Len(t) + Len(y)
  <2>1. Len(s ++ x) = Len(s) + Len(x)
    BY ConcatProperties
  <2>2. Len(t ++ y) = Len(t) + Len(y)
    BY ConcatProperties
  <2> QED
    BY <2>1, <2>2
<1>2. ASSUME NEW i \in 1 .. Len(s) + Len(x)
      PROVE  (s ++ x)[i].id = (t ++ y)[i].id /\ (s ++ x)[i].recv = (t ++ y)[i].recv
  <2>1. CASE i <= Len(s)
    BY <1>0, <1>1, <2>1, ConcatProperties DEF SameTags
  <2>2. CASE i > Len(s)
    <3>1. i - Len(s) \in 1 .. Len(x)
      BY <1>0, <2>2
    <3> QED
      BY <1>0, <1>1, <2>2, <3>1, ConcatProperties DEF SameTags
  <2> QED
    BY <1>0, <2>1, <2>2
<1> QED
  BY <1>0, <1>1, <1>2 DEF SameTags

LEMMA SameTagsReflexive ==
  ASSUME NEW s PROVE SameTags(s, s)
BY DEF SameTags

LEMMA SameTagsOne ==
  ASSUME NEW x, NEW y, x.id = y.id, x.recv = y.recv
  PROVE  SameTags(<<x>>, <<y>>)
BY DEF SameTags

\* A new item with a number above the bound, and no older than any before it.
LEMMA AppendSorted ==
  ASSUME NEW s \in Seq(Items), NEW x \in Items, NEW n \in Nat, NEW r \in Nat,
         Sorted(s), Below(s, n, r), x.id = n + 1, x.recv = r
  PROVE  Sorted(s ++ <<x>>) /\ Below(s ++ <<x>>, n + 1, r)
<1> USE DEF ++
<1>1. /\ Len(s) \in Nat /\ <<x>> \in Seq(Items) /\ Len(<<x>>) = 1 /\ <<x>>[1] = x
      /\ Len(s ++ <<x>>) = Len(s) + 1
  BY ConcatProperties, LenProperties
<1>2. (s ++ <<x>>)[Len(s) + 1] = x
  BY <1>1, ConcatProperties
<1>3. ASSUME NEW i \in 1 .. Len(s)
      PROVE  (s ++ <<x>>)[i] = s[i] /\ s[i].id \in Nat /\ s[i].id <= n /\ s[i].recv <= r
  BY <1>1, ElementOfSeq, ItemFields, ConcatProperties DEF Below
<1>4. Below(s ++ <<x>>, n + 1, r)
  <2> SUFFICES ASSUME NEW i \in 1 .. Len(s) + 1
               PROVE  (s ++ <<x>>)[i].id <= n + 1 /\ (s ++ <<x>>)[i].recv <= r
    BY <1>1 DEF Below
  <2>1. CASE i = Len(s) + 1
    BY <1>2, <2>1
  <2>2. CASE i \in 1 .. Len(s)
    BY <1>3, <2>2
  <2> QED
    BY <1>1, <2>1, <2>2
<1>5. Sorted(s ++ <<x>>)
  <2> SUFFICES ASSUME NEW i \in 1 .. Len(s) + 1, NEW j \in 1 .. Len(s) + 1, i < j
               PROVE  /\ (s ++ <<x>>)[i].id < (s ++ <<x>>)[j].id
                      /\ (s ++ <<x>>)[i].recv <= (s ++ <<x>>)[j].recv
    BY <1>1 DEF Sorted
  <2>1. CASE j = Len(s) + 1
    <3>1. i \in 1 .. Len(s)
      BY <1>1, <2>1
    <3> QED
      BY <1>2, <1>3, <2>1, <3>1
  <2>2. CASE j \in 1 .. Len(s)
    <3>1. i \in 1 .. Len(s)
      BY <1>1, <2>2
    <3> QED
      BY <1>3, <2>2, <3>1 DEF Sorted
  <2> QED
    BY <1>1, <2>1, <2>2
<1> QED
  BY <1>4, <1>5

--------------------------------------------------------------------------------
(* Types *)

\* TypeOK without the bounds of the counters, which follow from what they count.
Shape ==
  /\ clock \in Stamps /\ arrived \in 0 .. MaxFrames /\ kills \in 0 .. MaxKills
  /\ iPc \in {"loop", "recv", "write", "stopped", "killed"}
  /\ pPc \in {"loop", "header", "body", "push", "stopped", "killed"}
  /\ wPc \in {"loop", "pop", "record", "flush", "stopped", "killed"}
  /\ iStop \in BOOLEAN /\ pStop \in BOOLEAN /\ wStop \in BOOLEAN
  /\ iTsc \in Stamps /\ pTsc \in Stamps /\ wTsc \in Stamps
  /\ errors \in Nat /\ processed \in Nat /\ lost \in Nat
  /\ iOut \in Seq(Frames) /\ Len(iOut) = (IF iPc = "write" THEN 1 ELSE 0)
  /\ pipe \in Seq(Frames) /\ Len(pipe) <= PipeCap
  /\ pMsg \in Seq(Messages) /\ Len(pMsg) = (IF pPc = "push" THEN 1 ELSE 0)
  /\ ring \in Seq(Messages) /\ Len(ring) <= RingCap
  /\ wMsg \in Seq(Messages) /\ Len(wMsg) = (IF wPc = "record" THEN 1 ELSE 0)
  /\ csvBuf \in Seq(Records) /\ csv \in Seq(Records)

LEMMA TypeOKShape == TypeOK => Shape
BY DEF TypeOK, Shape

\* The empty sequence, and what is left when one is taken off or put on.
LEMMA EmptyOut == ASSUME NEW S PROVE <<>> \in Seq(S) /\ Len(<<>>) = 0
BY EmptySeq

LEMMA OneOut == ASSUME NEW S, NEW x \in S PROVE <<x>> \in Seq(S) /\ Len(<<x>>) = 1
OBVIOUS

LEMMA IngressShape == Shape /\ IngressStep => Shape'
<1> SUFFICES ASSUME Shape, IngressStep PROVE Shape'
  OBVIOUS
<1> USE DEF Shape, parVars, wrkVars
<1>1. CASE IngressLoop
  BY <1>1 DEF IngressLoop
<1>2. CASE IngressRecv
  <2>1. PICK ok \in BOOLEAN : iOut' = <<[id |-> arrived + 1, recv |-> iTsc, ok |-> ok]>>
    BY <1>2 DEF IngressRecv
  <2>2. arrived + 1 \in Numbers /\ arrived + 1 \in 0 .. MaxFrames
    BY <1>2, PipelineAssumption DEF IngressRecv, Numbers
  <2>3. [id |-> arrived + 1, recv |-> iTsc, ok |-> ok] \in Frames
    BY <2>2 DEF Frames
  <2>4. iOut' \in Seq(Frames) /\ Len(iOut') = 1
    BY <2>1, <2>3, OneOut
  <2> QED
    BY <1>2, <2>2, <2>4 DEF IngressRecv
<1>3. CASE IngressIdle
  BY <1>3 DEF IngressIdle
<1>4. CASE IngressFails
  BY <1>4 DEF IngressFails
<1>5. CASE IngressWrite
  <2>1. pipe \o iOut \in Seq(Frames) /\ Len(pipe \o iOut) = Len(pipe) + Len(iOut)
    BY ConcatProperties
  <2>2. iPc = "write" /\ Len(iOut) = 1 /\ Len(pipe) \in Nat /\ Len(pipe) < PipeCap
    BY <1>5, LenProperties DEF IngressWrite
  <2>3. Len(pipe') <= PipeCap
    BY <1>5, <2>1, <2>2, PipelineAssumption DEF IngressWrite
  <2> QED
    BY <1>5, <2>1, <2>3, EmptyOut DEF IngressWrite
<1>6. CASE IngressBroken
  BY <1>6, EmptyOut DEF IngressBroken
<1> QED
  BY <1>1, <1>2, <1>3, <1>4, <1>5, <1>6 DEF IngressStep

LEMMA ParserShape == Shape /\ HeaderOfFrame /\ ParserStep => Shape'
<1> SUFFICES ASSUME Shape, HeaderOfFrame, ParserStep PROVE Shape'
  OBVIOUS
<1> USE DEF Shape, ingVars, wrkVars
<1>1. CASE ParserLoop
  BY <1>1 DEF ParserLoop
<1>2. CASE ParserHeader
  <2>1. Head(pipe) \in Frames
    BY <1>2, HeadTailProperties DEF ParserHeader
  <2>2. Head(pipe).recv \in Stamps
    BY <2>1 DEF Frames
  <2> QED
    BY <1>2, <2>2 DEF ParserHeader
<1>3. CASE ParserEof
  BY <1>3 DEF ParserEof
<1>4. ASSUME pPc = "body"
      PROVE  /\ Head(pipe) \in Frames
             /\ Tail(pipe) \in Seq(Frames) /\ Len(Tail(pipe)) <= PipeCap
  BY <1>4, HeadTailProperties, LenProperties, PipelineAssumption DEF HeaderOfFrame
<1>5. CASE ParserReject
  BY <1>4, <1>5 DEF ParserReject
<1>6. CASE ParserAccept
  <2>1. [id |-> Head(pipe).id, recv |-> pTsc, enq |-> clock] \in Messages
    BY <1>4, <1>6 DEF ParserAccept, Frames, Messages
  <2>2. pMsg' \in Seq(Messages) /\ Len(pMsg') = 1
    BY <1>6, <2>1, OneOut DEF ParserAccept
  <2> QED
    BY <1>4, <1>6, <2>2 DEF ParserAccept
<1>7. CASE ParserPush
  <2>1. /\ ring \o pMsg \in Seq(Messages) /\ Len(ring \o pMsg) = Len(ring) + Len(pMsg)
        /\ Len(ring) \in Nat /\ Len(pMsg) = 1
    BY <1>7, ConcatProperties, LenProperties DEF ParserPush
  <2>2. ring' \in Seq(Messages) /\ Len(ring') <= RingCap
    <3>1. CASE Len(ring) < RingCap
      <4>1. ring' = ring \o pMsg
        BY <1>7, <3>1 DEF ParserPush
      <4> QED
        BY <2>1, <3>1, <4>1, PipelineAssumption
    <3>2. CASE ~(Len(ring) < RingCap)
      BY <1>7, <3>2 DEF ParserPush
    <3> QED
      BY <3>1, <3>2
  <2>3. errors' \in Nat /\ processed' \in Nat
    <3>1. errors \in Nat /\ processed \in Nat
      OBVIOUS
    <3>2. \/ processed' = processed + 1 /\ errors' = errors
          \/ errors' = errors + 1 /\ processed' = processed
      BY <1>7 DEF ParserPush
    <3> HIDE DEF Shape
    <3> QED
      BY <3>1, <3>2
  <2> QED
    BY <1>7, <2>2, <2>3, EmptyOut DEF ParserPush
<1> QED
  BY <1>1, <1>2, <1>3, <1>5, <1>6, <1>7 DEF ParserStep

LEMMA WorkerShape == Shape /\ WorkerStep => Shape'
<1> SUFFICES ASSUME Shape, WorkerStep PROVE Shape'
  OBVIOUS
<1> USE DEF Shape, ingVars, parVars
<1>1. csv \o csvBuf \in Seq(Records) /\ <<>> \in Seq(Records)
  BY ConcatProperties, EmptyOut
<1>2. CASE WorkerLoop
  BY <1>1, <1>2 DEF WorkerLoop
<1>3. CASE WorkerPop
  <2>1. Head(ring) \in Messages /\ Tail(ring) \in Seq(Messages) /\ Len(Tail(ring)) <= RingCap
    BY <1>3, HeadTailProperties, LenProperties, PipelineAssumption DEF WorkerPop
  <2>2. wMsg' \in Seq(Messages) /\ Len(wMsg') = 1
    BY <1>3, <2>1, OneOut DEF WorkerPop
  <2> QED
    BY <1>3, <2>1, <2>2 DEF WorkerPop
<1>4. CASE WorkerEmpty
  BY <1>4 DEF WorkerEmpty
<1>5. CASE WorkerRecord
  <2>1. wMsg[1] \in Messages
    <3>1. wMsg \in Seq(Messages) /\ 1 \in 1 .. Len(wMsg)
      BY <1>5 DEF WorkerRecord
    <3> HIDE DEF Shape
    <3> QED
      BY <3>1, ElementOfSeq
  <2>2. ASSUME NEW from \in Stamps, NEW to \in Stamps PROVE Elapsed(from, to) \in Latencies
    BY PipelineAssumption DEF Elapsed, Latencies, Stamps
  <2> DEFINE r == [id |-> wMsg[1].id, recv |-> wMsg[1].recv, enq |-> wMsg[1].enq,
                   deq |-> wTsc, latIngress |-> Elapsed(wMsg[1].recv, wTsc),
                   latParse |-> Elapsed(wMsg[1].enq, wTsc)]
  <2>3. r \in Records
    BY <2>1, <2>2 DEF Messages, Records
  <2>4. csvBuf' = Append(csvBuf, r)
    BY <1>5 DEF WorkerRecord
  <2> HIDE DEF r
  <2>5. csvBuf' \in Seq(Records)
    BY <2>3, <2>4, AppendProperties
  <2> QED
    BY <1>5, <2>5, EmptyOut DEF WorkerRecord
<1>6. CASE WorkerFlush
  BY <1>1, <1>6 DEF WorkerFlush
<1>7. CASE WorkerNoFlush
  BY <1>7 DEF WorkerNoFlush
<1> QED
  BY <1>2, <1>3, <1>4, <1>5, <1>6, <1>7 DEF WorkerStep

LEMMA Counts ==
  Shape => /\ errors \in Nat /\ lost \in Nat
           /\ Len(iOut) \in Nat /\ Len(pMsg) \in Nat /\ Len(wMsg) \in Nat
           /\ Len(csvBuf) \in Nat /\ Len(csv) \in Nat
BY LenProperties DEF Shape

LEMMA EnvironmentShape == Shape /\ Environment => Shape'
<1> SUFFICES ASSUME Shape, Environment PROVE Shape'
  OBVIOUS
<1> USE DEF Shape, ingVars, parVars, wrkVars
<1>1. /\ Len(iOut) \in Nat /\ Len(pMsg) \in Nat /\ Len(wMsg) \in Nat
      /\ Len(csvBuf) \in Nat /\ Len(csv) \in Nat
  BY LenProperties
<1>2. CASE Tick
  BY <1>2, PipelineAssumption DEF Tick, Stamps
<1>3. CASE StopIngress \/ StopParser \/ StopWorker
  <2>1. CASE StopIngress
    BY <2>1 DEF StopIngress
  <2>2. CASE StopParser
    BY <2>2 DEF StopParser
  <2>3. CASE StopWorker
    BY <2>3 DEF StopWorker
  <2> QED
    BY <1>3, <2>1, <2>2, <2>3
<1>4. CASE KillIngress
  BY <1>1, <1>4, EmptyOut, PipelineAssumption DEF KillIngress
<1>5. CASE KillParser
  BY <1>1, <1>5, EmptyOut, PipelineAssumption DEF KillParser
<1>6. CASE KillWorker
  BY <1>1, <1>6, EmptyOut, PipelineAssumption DEF KillWorker
<1>7. CASE StartWorker
  <2>1. wPc # "record" /\ wPc' = "loop"
    BY <1>7 DEF StartWorker, Ended
  <2>2. csv' \in Seq(Records) /\ wStop' \in BOOLEAN
    BY <1>7, EmptyOut DEF StartWorker
  <2>3. lost' \in Nat
    <3>1. lost' = lost + Len(csv) /\ lost \in Nat
      BY <1>7 DEF StartWorker
    <3> HIDE DEF Shape
    <3> QED
      BY <1>1, <3>1
  <2> QED
    BY <1>7, <2>1, <2>2, <2>3 DEF StartWorker
<1> QED
  BY <1>2, <1>3, <1>4, <1>5, <1>6, <1>7 DEF Environment

LEMMA ShapeStep == Shape /\ HeaderOfFrame /\ [Next]_vars => Shape'
<1>1. Shape /\ UNCHANGED vars => Shape'
  BY DEF vars, ingVars, parVars, wrkVars, Shape
<1> QED
  BY <1>1, IngressShape, ParserShape, WorkerShape, EnvironmentShape DEF Next

--------------------------------------------------------------------------------
(* What a step does to the datagrams on their way *)

Parts ==
  /\ csvBuf \in Seq(Items) /\ wMsg \in Seq(Items) /\ ring \in Seq(Items)
  /\ pMsg \in Seq(Items) /\ pipe \in Seq(Items) /\ iOut \in Seq(Items)
  /\ csv \in Seq(Items) /\ Transit \in Seq(Items)

TransitSplits ==
  /\ Transit = (csvBuf ++ wMsg ++ ring ++ pMsg ++ pipe) ++ iOut
  /\ Transit = csvBuf ++ (wMsg ++ ring ++ pMsg ++ pipe ++ iOut)
  /\ Transit = (csvBuf ++ wMsg) ++ (ring ++ pMsg ++ pipe ++ iOut)
  /\ Transit = (csvBuf ++ wMsg ++ ring) ++ (pMsg ++ pipe ++ iOut)
  /\ Transit = (csvBuf ++ wMsg ++ ring ++ pMsg) ++ (pipe ++ iOut)
  /\ (csvBuf ++ wMsg) \in Seq(Items) /\ (csvBuf ++ wMsg ++ ring) \in Seq(Items)
  /\ (csvBuf ++ wMsg ++ ring ++ pMsg) \in Seq(Items)
  /\ (csvBuf ++ wMsg ++ ring ++ pMsg ++ pipe) \in Seq(Items)
  /\ (wMsg ++ ring ++ pMsg ++ pipe ++ iOut) \in Seq(Items)
  /\ (ring ++ pMsg ++ pipe ++ iOut) \in Seq(Items)
  /\ (pMsg ++ pipe ++ iOut) \in Seq(Items) /\ (pipe ++ iOut) \in Seq(Items)

LEMMA ShapeParts == Shape => Parts /\ TransitSplits
<1> SUFFICES ASSUME Shape PROVE Parts /\ TransitSplits
  OBVIOUS
<1>1. /\ csvBuf \in Seq(Items) /\ wMsg \in Seq(Items) /\ ring \in Seq(Items)
      /\ pMsg \in Seq(Items) /\ pipe \in Seq(Items) /\ iOut \in Seq(Items)
      /\ csv \in Seq(Items)
  <2>1. Frames \subseteq Items /\ Messages \subseteq Items /\ Records \subseteq Items
    BY DEF Items
  <2> HIDE DEF Items
  <2> QED
    BY <2>1, SeqMonotonic DEF Shape
<1>2. Transit = csvBuf ++ wMsg ++ ring ++ pMsg ++ pipe ++ iOut
  BY DEF Transit, ++
<1> QED
  BY <1>1, <1>2, Splits DEF Parts, TransitSplits

\* Everything stays on its way, if only in another buffer and another form.
Stays ==
  /\ arrived' = arrived /\ csv' = csv /\ errors' + lost' = errors + lost
  /\ SameTags(Transit, Transit')

\* A datagram is received.
Arrives ==
  /\ arrived' = arrived + 1 /\ csv' = csv /\ errors' + lost' = errors + lost
  /\ \E x \in Items : /\ x.id = arrived + 1 /\ x.recv = iTsc /\ iTsc' = iTsc
                      /\ Transit' = Transit ++ <<x>>

\* What lies between two points of the way is lost.
Loses ==
  /\ arrived' = arrived /\ csv' = csv
  /\ \E s, t, u \in Seq(Items) : /\ Transit = s ++ t ++ u /\ Transit' = s ++ u
                                 /\ errors' + lost' = errors + lost + Len(t)

\* The front of it all reaches the file.
Delivers ==
  /\ arrived' = arrived /\ errors' + lost' = errors + lost
  /\ \E s, u \in Seq(Items) : Transit = s ++ u /\ Transit' = u /\ csv' = csv ++ s

\* The file is begun anew.
Begins ==
  /\ arrived' = arrived /\ errors' + lost' = errors + lost + Len(csv)
  /\ csv' = <<>> /\ Transit' = Transit

StepKind == Stays \/ Arrives \/ Loses \/ Delivers \/ Begins

\* A step that touches none of the buffers.
LEMMA UnchangedStays ==
  ASSUME UNCHANGED <<arrived, errors, lost, csvBuf, wMsg, ring, pMsg, pipe, iOut, csv>>
  PROVE  Stays
BY SameTagsReflexive DEF Stays, Transit

LEMMA IngressKind ==
  ASSUME Shape, Parts, TransitSplits, Parts', TransitSplits',
         IngressStep \/ KillIngress
  PROVE  StepKind
<1> USE DEF parVars, wrkVars
<1> DEFINE front == csvBuf ++ wMsg ++ ring ++ pMsg
<1>1. CASE IngressLoop \/ IngressIdle \/ IngressFails
  BY <1>1, UnchangedStays DEF IngressLoop, IngressIdle, IngressFails, StepKind
<1>2. CASE IngressRecv
  <2>1. PICK ok \in BOOLEAN : iOut' = <<[id |-> arrived + 1, recv |-> iTsc, ok |-> ok]>>
    BY <1>2 DEF IngressRecv
  <2> DEFINE x == [id |-> arrived + 1, recv |-> iTsc, ok |-> ok]
  <2>2. x \in Items
    <3>1. iOut' \in Seq(Items) /\ 1 \in 1 .. Len(iOut') /\ iOut'[1] = x
      BY <2>1 DEF Parts
    <3> QED
      BY <3>1, ElementOfSeq
  <2>3. iOut = <<>>
    BY <1>2, EmptySeq DEF IngressRecv, Shape
  <2>4. front' = front /\ pipe' = pipe
    BY <1>2 DEF IngressRecv
  <2>5. Transit = front ++ pipe /\ Transit' = front ++ pipe ++ <<x>>
    BY <2>1, <2>3, <2>4, CatEmpty DEF Parts, TransitSplits
  <2>6. Transit' = Transit ++ <<x>>
    BY <2>5
  <2>7. x.id = arrived + 1 /\ x.recv = iTsc
    OBVIOUS
  <2> HIDE DEF x
  <2> QED
    BY <1>2, <2>2, <2>6, <2>7 DEF IngressRecv, Arrives, StepKind
<1>3. CASE IngressWrite
  <2>1. front' = front /\ pipe' = pipe ++ iOut /\ iOut' = <<>>
    BY <1>3 DEF IngressWrite, ++
  <2>2. Transit' = front ++ ((pipe ++ iOut) ++ <<>>)
    BY <2>1 DEF TransitSplits
  <2>3. Transit' = Transit
    BY <2>2, CatEmpty DEF TransitSplits
  <2> QED
    BY <1>3, <2>3, SameTagsReflexive DEF IngressWrite, Stays, StepKind
<1>4. CASE IngressBroken \/ KillIngress
  <2>1. /\ Transit = (front ++ pipe) ++ iOut ++ <<>>
        /\ Transit' = (front ++ pipe) ++ <<>>
    BY <1>4, CatEmpty DEF IngressBroken, KillIngress, TransitSplits, Parts
  <2>2. lost' = lost + Len(iOut) /\ Len(iOut) \in Nat
    BY <1>4, LenProperties DEF IngressBroken, KillIngress, Shape
  <2>3. /\ (front ++ pipe) \in Seq(Items) /\ iOut \in Seq(Items) /\ <<>> \in Seq(Items)
        /\ errors' + lost' = errors + lost + Len(iOut)
    <3>1. errors' = errors
      BY <1>4 DEF IngressBroken, KillIngress
    <3>2. errors' + lost' = errors + lost + Len(iOut)
      BY <2>2, <3>1, Counts
    <3> QED
      BY <3>2, EmptyOut DEF Parts, TransitSplits
  <2> QED
    BY <1>4, <2>1, <2>3 DEF IngressBroken, KillIngress, Loses, StepKind
<1> QED
  BY <1>1, <1>2, <1>3, <1>4 DEF IngressStep

\* A sequence is its head and its tail.
LEMMA HeadAndTail ==
  ASSUME NEW S, NEW s \in Seq(S), s # <<>>
  PROVE  s = <<Head(s)>> ++ Tail(s)
<1>1. Len(s) \in Nat /\ Len(s) >= 1
  BY EmptySeq
<1>2. SubSeq(s, 1, Len(s)) = <<s[1]>> ++ SubSeq(s, 2, Len(s))
  BY <1>1, SubSeqRecursiveFirst DEF ++
<1>3. SubSeq(s, 1, Len(s)) = s /\ Tail(s) = SubSeq(s, 2, Len(s)) /\ Head(s) = s[1]
  BY SubSeqFull, TailIsSubSeq
<1> QED
  BY <1>2, <1>3

LEMMA RegroupHead ==
  ASSUME NEW S, NEW s \in Seq(S), NEW h \in Seq(S), NEW t \in Seq(S), NEW u \in Seq(S)
  PROVE  s ++ ((h ++ t) ++ u) = (s ++ h) ++ (t ++ u)
<1>1. t ++ u \in Seq(S)
  BY CatIsSeq
<1>2. (h ++ t) ++ u = h ++ (t ++ u)
  BY CatAssociative
<1>3. s ++ (h ++ (t ++ u)) = (s ++ h) ++ (t ++ u)
  BY <1>1, CatAssociative
<1> QED
  BY <1>2, <1>3

\* Items with the same number and stamp may replace each other in a sequence.
LEMMA SameTagsReplace ==
  ASSUME NEW s \in Seq(Items), NEW x \in Items, NEW y \in Items, NEW u \in Seq(Items),
         x.id = y.id, x.recv = y.recv
  PROVE  SameTags((s ++ <<x>>) ++ u, (s ++ <<y>>) ++ u)
<1>1. <<x>> \in Seq(Items) /\ <<y>> \in Seq(Items) /\ SameTags(<<x>>, <<y>>)
  BY SameTagsOne
<1>2. SameTags(s ++ <<x>>, s ++ <<y>>)
  BY <1>1, SameTagsReflexive, SameTagsConcat
<1>3. (s ++ <<x>>) \in Seq(Items) /\ (s ++ <<y>>) \in Seq(Items)
  BY <1>1, CatIsSeq, CatItems
<1> QED
  BY <1>2, <1>3, SameTagsReflexive, SameTagsConcat

LEMMA ParserKind ==
  ASSUME Shape, Parts, TransitSplits, Shape', Parts', TransitSplits', HeaderOfFrame,
         ParserStep \/ KillParser
  PROVE  StepKind
<1> USE DEF ingVars, wrkVars
<1> DEFINE front == csvBuf ++ wMsg ++ ring
<1>1. CASE ParserLoop \/ ParserHeader \/ ParserEof
  BY <1>1, UnchangedStays DEF ParserLoop, ParserHeader, ParserEof, StepKind
<1>2. ASSUME pPc = "body"
      PROVE  /\ pipe = <<Head(pipe)>> ++ Tail(pipe)
             /\ <<Head(pipe)>> \in Seq(Items) /\ Head(pipe) \in Items /\ Tail(pipe) \in Seq(Items)
             /\ Len(<<Head(pipe)>>) = 1 /\ Head(pipe).recv = pTsc
             /\ pMsg = <<>>
  <2>1. pipe # <<>> /\ pipe \in Seq(Items) /\ Head(pipe).recv = pTsc
    BY <1>2 DEF HeaderOfFrame, Parts
  <2>2. Head(pipe) \in Items /\ Tail(pipe) \in Seq(Items)
    BY <2>1, HeadTailProperties
  <2>3. pMsg = <<>>
    BY <1>2, EmptySeq DEF Shape
  <2> QED
    BY <2>1, <2>2, <2>3, HeadAndTail, OneOut
<1>3. CASE ParserReject
  <2> DEFINE h == <<Head(pipe)>>
  <2>1. /\ pipe = h ++ Tail(pipe) /\ h \in Seq(Items) /\ Tail(pipe) \in Seq(Items)
        /\ Len(h) = 1 /\ pMsg = <<>>
    BY <1>2, <1>3 DEF ParserReject
  <2>2. /\ front' = front /\ pMsg' = <<>> /\ pipe' = Tail(pipe) /\ iOut' = iOut
        /\ csv' = csv /\ arrived' = arrived
        /\ errors' + lost' = errors + lost + 1
    BY <1>3, <2>1 DEF ParserReject, Shape
  <2> HIDE DEF h
  <2>3. front \in Seq(Items) /\ iOut \in Seq(Items)
    BY DEF Parts, TransitSplits
  <2>4. Tail(pipe) ++ iOut \in Seq(Items)
    BY <2>1, <2>3, CatIsSeq, CatItems
  <2>5. Transit = front ++ ((h ++ Tail(pipe)) ++ iOut) /\ Transit' = front ++ (Tail(pipe) ++ iOut)
    BY <2>1, <2>2, <2>3, CatEmpty DEF TransitSplits
  <2>6. Transit = (front ++ h) ++ (Tail(pipe) ++ iOut)
    <3> DEFINE s == front
               t == Tail(pipe)
    <3>1. s \in Seq(Items) /\ h \in Seq(Items) /\ t \in Seq(Items) /\ iOut \in Seq(Items)
      BY <2>1, <2>3
    <3> HIDE DEF s, t
    <3>2. s ++ ((h ++ t) ++ iOut) = (s ++ h) ++ (t ++ iOut)
      BY <3>1, RegroupHead
    <3> QED
      BY <2>5, <3>2 DEF s, t
  <2> QED
    BY <2>1, <2>2, <2>3, <2>4, <2>5, <2>6 DEF Loses, StepKind
<1>4. CASE ParserAccept
  <2> DEFINE h == Head(pipe)
             m == [id |-> Head(pipe).id, recv |-> pTsc, enq |-> clock]
  <2>1. /\ pipe = <<h>> ++ Tail(pipe) /\ <<h>> \in Seq(Items) /\ h \in Items
        /\ Tail(pipe) \in Seq(Items) /\ pMsg = <<>>
    BY <1>2, <1>4 DEF ParserAccept
  <2>2. h.id = m.id /\ h.recv = m.recv
    BY <1>2, <1>4 DEF ParserAccept
  <2>3. /\ front' = front /\ pMsg' = <<m>> /\ pipe' = Tail(pipe) /\ iOut' = iOut
        /\ csv' = csv /\ arrived' = arrived /\ errors' + lost' = errors + lost
    BY <1>4 DEF ParserAccept
  <2> HIDE DEF h, m
  <2>4. m \in Items
    <3>1. <<m>> \in Seq(Items) /\ 1 \in 1 .. Len(<<m>>) /\ <<m>>[1] = m
      BY <2>3 DEF Parts
    <3> QED
      BY <3>1, ElementOfSeq
  <2>5. front \in Seq(Items) /\ iOut \in Seq(Items)
    BY DEF Parts, TransitSplits
  <2>6. (Tail(pipe) ++ iOut) \in Seq(Items)
    BY <2>1, <2>5, CatIsSeq, CatItems
  <2>7. Transit = (front ++ <<h>>) ++ (Tail(pipe) ++ iOut)
    <3>1. Transit = front ++ ((<<h>> ++ Tail(pipe)) ++ iOut)
      BY <2>1, <2>5, CatEmpty DEF TransitSplits
    <3> QED
      <4> DEFINE s == front
                 x == <<h>>
                 t == Tail(pipe)
      <4>1. s \in Seq(Items) /\ x \in Seq(Items) /\ t \in Seq(Items) /\ iOut \in Seq(Items)
        BY <2>1, <2>5
      <4> HIDE DEF s, x, t
      <4>2. s ++ ((x ++ t) ++ iOut) = (s ++ x) ++ (t ++ iOut)
        BY <4>1, RegroupHead
      <4> QED
        BY <3>1, <4>2 DEF s, x, t
  <2>8. Transit' = (front ++ <<m>>) ++ (Tail(pipe) ++ iOut)
    BY <2>3 DEF TransitSplits
  <2>9. SameTags(Transit, Transit')
    BY <2>1, <2>2, <2>4, <2>5, <2>6, <2>7, <2>8, SameTagsReplace
  <2> QED
    BY <2>3, <2>9 DEF Stays, StepKind
<1>5. CASE ParserPush /\ Len(ring) < RingCap
  <2>1. /\ csvBuf' = csvBuf /\ wMsg' = wMsg /\ ring' = ring ++ pMsg /\ pMsg' = <<>>
        /\ pipe' = pipe /\ iOut' = iOut
        /\ csv' = csv /\ arrived' = arrived /\ errors' + lost' = errors + lost
    BY <1>5 DEF ParserPush, ++
  <2>2. Transit' = (csvBuf ++ wMsg) ++ (((ring ++ pMsg) ++ <<>>) ++ pipe ++ iOut)
    BY <2>1 DEF TransitSplits
  <2>3. ring ++ pMsg \in Seq(Items)
    BY CatIsSeq, CatItems DEF Parts
  <2>4. Transit' = Transit
    BY <2>2, <2>3, CatEmpty DEF TransitSplits
  <2> QED
    BY <2>1, <2>4, SameTagsReflexive DEF Stays, StepKind
<1>6. CASE (ParserPush /\ ~(Len(ring) < RingCap)) \/ KillParser
  <2>1. /\ front' = front /\ pMsg' = <<>> /\ pipe' = pipe /\ iOut' = iOut
        /\ csv' = csv /\ arrived' = arrived
    BY <1>6 DEF ParserPush, KillParser
  <2>2. errors' + lost' = errors + lost + Len(pMsg)
    <3>1. CASE KillParser
      BY <3>1, Counts DEF KillParser
    <3>2. CASE ParserPush /\ ~(Len(ring) < RingCap)
      <4>1. Len(pMsg) = 1 /\ errors' = errors + 1 /\ lost' = lost
        BY <3>2 DEF ParserPush, Shape
      <4> QED
        BY <4>1, Counts
    <3> QED
      BY <1>6, <3>1, <3>2
  <2>3. /\ front \in Seq(Items) /\ pMsg \in Seq(Items) /\ (pipe ++ iOut) \in Seq(Items)
    BY DEF Parts, TransitSplits
  <2>4. Transit = front ++ pMsg ++ (pipe ++ iOut) /\ Transit' = front ++ <<>> ++ (pipe ++ iOut)
    BY <2>1 DEF TransitSplits
  <2>5. Transit' = front ++ (pipe ++ iOut)
    BY <2>3, <2>4, CatEmpty
  <2> QED
    BY <2>1, <2>2, <2>3, <2>4, <2>5 DEF Loses, StepKind
<1> QED
  BY <1>1, <1>3, <1>4, <1>5, <1>6 DEF ParserStep

LEMMA WorkerKind ==
  ASSUME Shape, Parts, TransitSplits, Shape', Parts', TransitSplits',
         WorkerStep \/ KillWorker \/ StartWorker
  PROVE  StepKind
<1> USE DEF ingVars, parVars
<1> DEFINE rest == ring ++ pMsg ++ pipe ++ iOut
<1>1. CASE WorkerEmpty \/ WorkerNoFlush \/ (WorkerLoop /\ ~wStop)
  BY <1>1, UnchangedStays DEF WorkerEmpty, WorkerNoFlush, WorkerLoop, StepKind
<1>2. CASE WorkerFlush \/ (WorkerLoop /\ wStop)
  <2>1. /\ csv' = csv ++ csvBuf /\ csvBuf' = <<>>
        /\ UNCHANGED <<arrived, errors, lost, wMsg, ring, pMsg, pipe, iOut>>
    BY <1>2 DEF WorkerFlush, WorkerLoop, ++
  <2> DEFINE u == wMsg ++ ring ++ pMsg ++ pipe ++ iOut
  <2>2. u' = u
    BY <2>1
  <2>3. Transit = csvBuf ++ u /\ Transit' = <<>> ++ u' /\ csvBuf \in Seq(Items) /\ u \in Seq(Items)
    BY <2>1 DEF TransitSplits, Parts
  <2> HIDE DEF u
  <2>4. Transit' = u
    BY <2>2, <2>3, CatEmpty
  <2> QED
    BY <2>1, <2>3, <2>4 DEF Delivers, StepKind
<1>3. CASE WorkerPop
  <2> DEFINE h == <<Head(ring)>>
             back == pMsg ++ pipe ++ iOut
  <2>1. /\ wMsg' = h /\ ring' = Tail(ring) /\ ring # <<>>
        /\ UNCHANGED <<arrived, errors, lost, csvBuf, csv, pMsg, pipe, iOut>>
    BY <1>3 DEF WorkerPop
  <2>2. wMsg = <<>>
    BY <1>3, EmptySeq DEF WorkerPop, Shape
  <2>3. ring = h ++ Tail(ring) /\ Tail(ring) \in Seq(Items) /\ h \in Seq(Items)
    BY <2>1, HeadAndTail, HeadTailProperties, OneOut DEF Parts
  <2>4. csvBuf \in Seq(Items) /\ back \in Seq(Items) /\ back' = back
    BY <2>1 DEF Parts, TransitSplits
  <2> HIDE DEF h, back
  <2>5. Transit = (csvBuf ++ ring) ++ back
    BY <2>2, <2>4, CatEmpty DEF TransitSplits, back
  <2>6. Transit' = ((csvBuf ++ h) ++ Tail(ring)) ++ back
    BY <2>1, <2>4 DEF TransitSplits, back
  <2>7. Transit' = Transit
    <3>1. (csvBuf ++ h) ++ Tail(ring) = csvBuf ++ (h ++ Tail(ring))
      <4> DEFINE t == Tail(ring)
      <4>1. t \in Seq(Items) /\ h \in Seq(Items) /\ csvBuf \in Seq(Items)
        BY <2>3, <2>4
      <4> HIDE DEF t
      <4>2. (csvBuf ++ h) ++ t = csvBuf ++ (h ++ t)
        BY <4>1, CatAssociative
      <4> QED
        BY <4>2 DEF t
    <3> QED
      BY <2>3, <2>5, <2>6, <3>1
  <2> QED
    BY <2>1, <2>7, SameTagsReflexive DEF Stays, StepKind
<1>4. CASE WorkerRecord
  <2> DEFINE x == wMsg[1]
             r == [id |-> wMsg[1].id, recv |-> wMsg[1].recv, enq |-> wMsg[1].enq,
                   deq |-> wTsc, latIngress |-> Elapsed(wMsg[1].recv, wTsc),
                   latParse |-> Elapsed(wMsg[1].enq, wTsc)]
  <2>1. /\ csvBuf' = Append(csvBuf, r) /\ wMsg' = <<>>
        /\ UNCHANGED <<arrived, errors, lost, csv, ring, pMsg, pipe, iOut>>
    BY <1>4 DEF WorkerRecord
  <2>2. wMsg = <<x>> /\ x \in Items
    <3>1. Len(wMsg) = 1 /\ wMsg \in Seq(Items)
      BY <1>4 DEF WorkerRecord, Shape, Parts
    <3> QED
      BY <3>1
  <2>3. x.id = r.id /\ x.recv = r.recv
    OBVIOUS
  <2>4. rest' = rest /\ rest \in Seq(Items) /\ csvBuf \in Seq(Items)
    BY <2>1 DEF Parts, TransitSplits
  <2> HIDE DEF x, r, rest
  <2>5. r \in Items /\ csvBuf' = csvBuf ++ <<r>>
    <3>1. Append(csvBuf, r) = csvBuf ++ <<r>>
      BY <2>4, AppendIsConcat DEF ++
    <3>2. Append(csvBuf, r) \in Seq(Items) /\ Append(csvBuf, r)[Len(csvBuf) + 1] = r
      BY <2>1, <2>4, AppendProperties DEF Parts
    <3>3. Len(csvBuf) + 1 \in 1 .. Len(Append(csvBuf, r))
      BY <2>4
    <3> QED
      BY <2>1, <3>1, <3>2, <3>3, ElementOfSeq
  <2>6. Transit = (csvBuf ++ <<x>>) ++ rest
    BY <2>2 DEF TransitSplits, rest
  <2>7. Transit' = ((csvBuf ++ <<r>>) ++ <<>>) ++ rest
    BY <2>1, <2>4, <2>5 DEF TransitSplits, rest
  <2>8. Transit' = (csvBuf ++ <<r>>) ++ rest
    <3>1. (csvBuf ++ <<r>>) \in Seq(Items)
      BY <2>1, <2>5 DEF Parts
    <3> QED
      BY <2>7, <3>1, CatEmpty
  <2>9. SameTags(Transit, Transit')
    BY <2>2, <2>3, <2>4, <2>5, <2>6, <2>8, SameTagsReplace
  <2> QED
    BY <2>1, <2>9 DEF Stays, StepKind
<1>5. CASE KillWorker
  <2>1. /\ csvBuf' = <<>> /\ wMsg' = <<>>
        /\ UNCHANGED <<arrived, errors, csv, ring, pMsg, pipe, iOut>>
    BY <1>5 DEF KillWorker
  <2> DEFINE t == csvBuf ++ wMsg
  <2>2. t \in Seq(Items) /\ Len(t) = Len(csvBuf) + Len(wMsg)
    BY CatIsSeq, CatItems DEF Parts
  <2>3. errors' + lost' = errors + lost + Len(t)
    <3>1. errors' = errors /\ lost' = lost + Len(wMsg) + Len(csvBuf)
      BY <1>5 DEF KillWorker
    <3> QED
      BY <2>2, <3>1, Counts
  <2>4. rest' = rest /\ rest \in Seq(Items)
    BY <2>1 DEF TransitSplits
  <2>5. Transit = t ++ rest /\ Transit' = (<<>> ++ <<>>) ++ rest'
    BY <2>1 DEF TransitSplits
  <2> HIDE DEF t, rest
  <2>6. <<>> \in Seq(Items) /\ <<>> ++ t = t /\ <<>> ++ <<>> = <<>>
    BY <2>2, EmptyOut, CatEmpty
  <2>7. Transit = (<<>> ++ t) ++ rest /\ Transit' = <<>> ++ rest
    BY <2>4, <2>5, <2>6
  <2> QED
    BY <2>1, <2>2, <2>3, <2>4, <2>6, <2>7 DEF Loses, StepKind
<1>6. CASE StartWorker
  <2>1. /\ csv' = <<>> /\ errors' + lost' = errors + lost + Len(csv) /\ arrived' = arrived
    BY <1>6, LenProperties DEF StartWorker, Shape
  <2>2. Transit' = Transit
    BY <1>6 DEF StartWorker, Transit
  <2> QED
    BY <2>1, <2>2 DEF Begins, StepKind
<1> QED
  BY <1>1, <1>2, <1>3, <1>4, <1>5, <1>6 DEF WorkerStep

LEMMA EnvironmentKind ==
  ASSUME Shape, Parts, TransitSplits, Shape', Parts', TransitSplits', HeaderOfFrame,
         Environment
  PROVE  StepKind
<1>1. CASE Tick \/ StopIngress \/ StopParser \/ StopWorker
  BY <1>1, UnchangedStays
     DEF Tick, StopIngress, StopParser, StopWorker, ingVars, parVars, wrkVars, StepKind
<1> QED
  BY <1>1, IngressKind, ParserKind, WorkerKind DEF Environment

\* Every step is of one of the five kinds.
LEMMA StepHasKind == Shape /\ HeaderOfFrame /\ [Next]_vars => StepKind
<1> SUFFICES ASSUME Shape, HeaderOfFrame, [Next]_vars PROVE StepKind
  OBVIOUS
<1>1. Shape'
  BY ShapeStep
<1>2. Parts /\ TransitSplits
  BY ShapeParts
<1>3. Shape' => Parts' /\ TransitSplits'
  BY ShapeParts, PTL
<1>4. CASE UNCHANGED vars
  BY <1>4, UnchangedStays DEF vars, ingVars, parVars, wrkVars, StepKind
<1> QED
  BY <1>1, <1>2, <1>3, <1>4, IngressKind, ParserKind, WorkerKind, EnvironmentKind DEF Next

--------------------------------------------------------------------------------
(* Accounting and order *)

LEMMA LenCat ==
  ASSUME NEW s \in Seq(Items), NEW t \in Seq(Items)
  PROVE  Len(s ++ t) = Len(s) + Len(t) /\ Len(s) \in Nat /\ Len(t) \in Nat
BY CatItems, LenProperties

LEMMA KindAccounted ==
  ASSUME Shape, Shape', Parts, Parts', EveryFrameAccounted, StepKind
  PROVE  EveryFrameAccounted'
<1> DEFINE c == Len(csv)
           n == Len(Transit)
           d == Len(csv')
           m == Len(Transit')
<1>1. c \in Nat /\ n \in Nat /\ d \in Nat /\ m \in Nat
  BY LenProperties DEF Parts
<1>2. Len(Path) = c + n /\ Len(Path') = d + m
  <2>1. Path = csv ++ Transit /\ Path' = csv' ++ Transit'
    BY DEF Path, ++
  <2>2. Len(csv ++ Transit) = c + n
    BY LenCat DEF Parts
  <2>3. Len(csv' ++ Transit') = d + m
    BY LenCat DEF Parts
  <2> QED
    BY <2>1, <2>2, <2>3
<1>3. /\ arrived \in Nat /\ errors \in Nat /\ lost \in Nat
      /\ arrived' \in Nat /\ errors' \in Nat /\ lost' \in Nat
  BY DEF Shape
<1>4. arrived = c + n + errors + lost
  BY <1>2 DEF EveryFrameAccounted
\* It is enough to say how many are lost and how many arrive.
<1>5. ASSUME NEW k \in Nat, NEW j \in Nat,
             errors' + lost' = errors + lost + k, d + m + k = c + n + j, arrived' = arrived + j
      PROVE  EveryFrameAccounted'
  <2>1. arrived' = d + m + errors' + lost'
    <3> DEFINE a1 == arrived'
               e1 == errors'
               l1 == lost'
    <3>1. /\ a1 \in Nat /\ e1 \in Nat /\ l1 \in Nat
          /\ e1 + l1 = errors + lost + k /\ a1 = arrived + j
      BY <1>3, <1>5
    <3>2. a1 = d + m + e1 + l1
      <4> HIDE DEF a1, e1, l1, c, n, d, m
      <4> QED
        BY <1>1, <1>3, <1>4, <1>5, <3>1
    <3> QED
      BY <3>2
  <2> QED
    BY <1>2, <2>1 DEF EveryFrameAccounted
\* The same when nothing is lost.
<1>6. ASSUME NEW j \in Nat,
             errors' + lost' = errors + lost, d + m = c + n + j, arrived' = arrived + j
      PROVE  EveryFrameAccounted'
  <2> DEFINE x == errors' + lost'
             y == d + m
  <2>1. x = errors + lost + 0 /\ y + 0 = c + n + j
    <3>1. x = errors + lost /\ y = c + n + j
      BY <1>6
    <3> HIDE DEF x, y, c, n
    <3> QED
      BY <1>1, <1>3, <3>1
  <2> QED
    BY <1>5, <1>6, <2>1
<1>7. CASE Stays
  <2>1. d = c /\ m = n
    BY <1>7 DEF Stays, SameTags
  <2>2. d + m = c + n + 0 /\ arrived + 0 = arrived
    BY <1>1, <1>3, <2>1
  <2> QED
    BY <1>6, <1>7, <2>2 DEF Stays
<1>8. CASE Arrives
  <2>1. PICK x \in Items : Transit' = Transit ++ <<x>>
    BY <1>8 DEF Arrives
  <2>2. <<x>> \in Seq(Items) /\ Len(<<x>>) = 1
    BY OneOut
  <2>3. d = c /\ m = n + 1
    BY <1>8, <2>1, <2>2, LenCat DEF Parts, Arrives
  <2>4. d + m = c + n + 1
    <3> HIDE DEF c, n, d, m
    <3> QED
      BY <1>1, <2>3
  <2> QED
    BY <1>6, <1>8, <2>4 DEF Arrives
<1>9. CASE Loses
  <2>1. PICK s, t, u \in Seq(Items) : /\ Transit = s ++ t ++ u /\ Transit' = s ++ u
                                      /\ errors' + lost' = errors + lost + Len(t)
    BY <1>9 DEF Loses
  <2>2. Len((s ++ t) ++ u) = Len(s ++ t) + Len(u)
    BY CatIsSeq, LenCat
  <2>3. Len(s ++ t) = Len(s) + Len(t) /\ Len(s) \in Nat /\ Len(t) \in Nat
    BY LenCat
  <2>4. Len(s ++ u) = Len(s) + Len(u) /\ Len(u) \in Nat
    BY LenCat
  <2>5. d = c /\ arrived' = arrived /\ arrived + 0 = arrived
    BY <1>3, <1>9 DEF Loses
  <2>6. n = m + Len(t)
    BY <2>1, <2>2, <2>3, <2>4
  <2>7. d + m + Len(t) = c + n + 0
    <3> HIDE DEF c, n, d, m
    <3> QED
      BY <1>1, <2>3, <2>5, <2>6
  <2> QED
    BY <1>5, <2>1, <2>3, <2>5, <2>7
<1>10. CASE Delivers
  <2>1. PICK s, u \in Seq(Items) : Transit = s ++ u /\ Transit' = u /\ csv' = csv ++ s
    BY <1>10 DEF Delivers
  <2>2. n = Len(s) + m /\ Len(s) \in Nat
    BY <2>1, LenCat
  <2>3. d = c + Len(s)
    BY <2>1, LenCat DEF Parts
  <2>4. d + m = c + n + 0
    <3> HIDE DEF c, n, d, m
    <3> QED
      BY <1>1, <2>2, <2>3
  <2>5. arrived + 0 = arrived
    BY <1>3
  <2> QED
    BY <1>6, <1>10, <2>4, <2>5 DEF Delivers
<1>11. CASE Begins
  <2>1. d = 0 /\ m = n
    BY <1>11, EmptyOut DEF Begins
  <2>2. d + m + c = c + n + 0 /\ arrived + 0 = arrived
    <3> HIDE DEF c, n, d, m
    <3> QED
      BY <1>1, <1>3, <2>1
  <2> QED
    BY <1>1, <1>5, <1>11, <2>2 DEF Begins
<1> QED
  BY <1>7, <1>8, <1>9, <1>10, <1>11 DEF StepKind

LEMMA KindSorted ==
  ASSUME Parts, Parts', arrived \in Nat, iTsc \in Nat, StepKind,
         Sorted(Path), Below(Path, arrived, iTsc)
  PROVE  Sorted(Path') /\ Below(Path', arrived', iTsc)
<1>1. Path = csv ++ Transit /\ Path' = csv' ++ Transit'
  BY DEF Path, ++
<1>2. /\ csv \in Seq(Items) /\ Transit \in Seq(Items) /\ Path \in Seq(Items)
      /\ csv' \in Seq(Items) /\ Transit' \in Seq(Items) /\ Path' \in Seq(Items)
  BY <1>1, CatIsSeq DEF Parts
<1>3. CASE Stays
  <2>1. SameTags(Path, Path') /\ arrived' = arrived
    BY <1>1, <1>2, <1>3, SameTagsReflexive, SameTagsConcat DEF Stays
  <2> QED
    BY <1>2, <2>1, SameTagsSorted
<1>4. CASE Arrives
  <2>1. PICK x \in Items : x.id = arrived + 1 /\ x.recv = iTsc /\ Transit' = Transit ++ <<x>>
    BY <1>4 DEF Arrives
  <2>2. Path' = Path ++ <<x>>
    <3>1. csv' = csv /\ <<x>> \in Seq(Items)
      BY <1>4, OneOut DEF Arrives
    <3> DEFINE y == <<x>>
    <3>2. y \in Seq(Items) /\ Transit' = Transit ++ y
      BY <2>1, <3>1
    <3> HIDE DEF y
    <3>3. csv ++ (Transit ++ y) = (csv ++ Transit) ++ y
      BY <1>2, <3>2, CatAssociative
    <3>4. Path' = Path ++ y
      BY <1>1, <3>1, <3>2, <3>3
    <3> QED
      BY <3>4 DEF y
  <2>3. arrived' = arrived + 1
    BY <1>4 DEF Arrives
  <2> QED
    BY <1>2, <2>1, <2>2, <2>3, AppendSorted
<1>5. CASE Loses
  <2>1. PICK s, t, u \in Seq(Items) : Transit = s ++ t ++ u /\ Transit' = s ++ u
    BY <1>5 DEF Loses
  <2>2. csv' = csv /\ arrived' = arrived
    BY <1>5 DEF Loses
  <2>3. csv ++ s \in Seq(Items) /\ s ++ t \in Seq(Items)
    BY <1>2, CatIsSeq
  <2>4. Path = (csv ++ (s ++ t)) ++ u
    BY <1>1, <1>2, <2>1, <2>3, CatAssociative
  <2>5. Path = (csv ++ s) ++ t ++ u
    BY <1>2, <2>4, CatAssociative
  <2>6. Path' = (csv ++ s) ++ u
    BY <1>1, <1>2, <2>1, <2>2, CatAssociative
  <2> QED
    BY <2>2, <2>3, <2>5, <2>6, CutSorted
<1>6. CASE Delivers
  <2>1. PICK s, u \in Seq(Items) : Transit = s ++ u /\ Transit' = u /\ csv' = csv ++ s
    BY <1>6 DEF Delivers
  <2>2. Path' = Path
    BY <1>1, <1>2, <2>1, CatAssociative
  <2> QED
    BY <1>6, <2>2 DEF Delivers
<1>7. CASE Begins
  <2>1. Path = <<>> ++ csv ++ Transit /\ Path' = <<>> ++ Transit /\ arrived' = arrived
    BY <1>1, <1>2, <1>7, CatEmpty DEF Begins
  <2> QED
    BY <1>2, <2>1, EmptyOut, CutSorted
<1> QED
  BY <1>3, <1>4, <1>5, <1>6, <1>7 DEF StepKind

--------------------------------------------------------------------------------
(* Header and frame, clock and counters *)

\* The first frame of the pipe stays first when another one is written.
LEMMA HeadOfCat ==
  ASSUME NEW S, NEW s \in Seq(S), NEW t \in Seq(S), s # <<>>
  PROVE  s ++ t # <<>> /\ Head(s ++ t) = Head(s)
<1>1. Len(s) \in Nat /\ Len(s) >= 1 /\ Len(t) \in Nat
  BY EmptySeq, LenProperties
<1>2. Len(s ++ t) = Len(s) + Len(t) /\ (s ++ t)[1] = s[1]
  BY <1>1, CatItems
<1>3. s ++ t \in Seq(S) /\ Len(s ++ t) >= 1
  BY <1>1, <1>2, CatIsSeq
<1>4. s ++ t # <<>>
  BY <1>3, EmptySeq
<1>5. Head(s ++ t) = (s ++ t)[1] /\ Head(s) = s[1]
  BY <1>3, <1>4, HeadTailProperties
<1> QED
  BY <1>2, <1>4, <1>5

LEMMA HeaderStep == Shape /\ HeaderOfFrame /\ [Next]_vars => HeaderOfFrame'
<1> SUFFICES ASSUME Shape, HeaderOfFrame, [Next]_vars, pPc' = "body"
             PROVE  pipe' # <<>> /\ pTsc' = Head(pipe').recv
  BY DEF HeaderOfFrame
<1> USE DEF ingVars, parVars, wrkVars
<1>1. ASSUME UNCHANGED <<pipe, pPc, pTsc>>
      PROVE  pipe' # <<>> /\ pTsc' = Head(pipe').recv
  BY <1>1 DEF HeaderOfFrame
<1>2. CASE UNCHANGED vars
  BY <1>1, <1>2 DEF vars
<1>3. CASE IngressStep
  <2>1. CASE IngressWrite
    <3>1. pPc = "body" /\ pTsc' = pTsc /\ pipe' = pipe ++ iOut
      BY <2>1 DEF IngressWrite, ++
    <3>2. pipe \in Seq(Frames) /\ iOut \in Seq(Frames)
      BY DEF Shape
    <3> QED
      BY <3>1, <3>2, HeadOfCat DEF HeaderOfFrame
  <2>2. CASE IngressLoop \/ IngressRecv \/ IngressIdle \/ IngressFails \/ IngressBroken
    BY <1>1, <2>2 DEF IngressLoop, IngressRecv, IngressIdle, IngressFails, IngressBroken
  <2> QED
    BY <1>3, <2>1, <2>2 DEF IngressStep
<1>4. CASE ParserStep
  BY <1>4 DEF ParserStep, ParserLoop, ParserHeader, ParserEof, ParserReject, ParserAccept,
              ParserPush
<1>5. CASE WorkerStep
  BY <1>1, <1>5 DEF WorkerStep, WorkerLoop, WorkerPop, WorkerEmpty, WorkerRecord,
                    WorkerFlush, WorkerNoFlush
<1>6. CASE Environment
  <2>1. CASE KillParser
    BY <2>1 DEF KillParser
  <2>2. CASE Tick \/ StopIngress \/ StopParser \/ StopWorker \/ KillIngress \/ KillWorker
             \/ StartWorker
    BY <1>1, <2>2 DEF Tick, StopIngress, StopParser, StopWorker, KillIngress, KillWorker,
                      StartWorker
  <2> QED
    BY <1>6, <2>1, <2>2 DEF Environment
<1> QED
  BY <1>2, <1>3, <1>4, <1>5, <1>6 DEF Next

\* What holds of all holds of a piece.
LEMMA BelowPiece ==
  ASSUME NEW s \in Seq(Items), NEW t \in Seq(Items), NEW u \in Seq(Items), NEW n, NEW r,
         Below(s ++ (t ++ u), n, r), t # <<>>
  PROVE  Head(t).recv <= r
<1>1. /\ Len(s) \in Nat /\ Len(t) \in Nat /\ Len(t) >= 1 /\ Len(u) \in Nat
      /\ Head(t) = t[1]
  BY EmptySeq, LenProperties, HeadTailProperties
<1>2. t ++ u \in Seq(Items) /\ Len(t ++ u) = Len(t) + Len(u) /\ (t ++ u)[1] = t[1]
  BY <1>1, CatItems, CatIsSeq
<1> DEFINE v == t ++ u
<1>3. v \in Seq(Items) /\ Len(v) \in Nat /\ Len(v) >= 1 /\ v[1] = t[1] /\ Below(s ++ v, n, r)
  BY <1>1, <1>2
<1> HIDE DEF v
<1>4. Len(s ++ v) = Len(s) + Len(v) /\ (s ++ v)[Len(s) + 1] = v[1]
  <2> DEFINE k == Len(s) + 1
  <2>1. k \in Len(s) + 1 .. Len(s) + Len(v) /\ k - Len(s) = 1
    BY <1>1, <1>3
  <2> HIDE DEF k
  <2>2. Len(s ++ v) = Len(s) + Len(v) /\ (s ++ v)[k] = v[k - Len(s)]
    BY <1>3, <2>1, CatItems
  <2> QED
    BY <1>3, <2>1, <2>2 DEF k
<1>5. Len(s) + 1 \in 1 .. Len(s ++ v)
  BY <1>1, <1>3, <1>4
<1> QED
  BY <1>1, <1>3, <1>4, <1>5 DEF Below

\* The frame at the head of the pipe was received no later than the last one.
LEMMA HeadOfPipe ==
  ASSUME Parts, TransitSplits, StampsOfThePast, pipe # <<>>
  PROVE  Head(pipe).recv <= iTsc
<1> DEFINE front == csvBuf ++ wMsg ++ ring ++ pMsg
           s == csv ++ front
<1>1. Path = csv ++ (front ++ (pipe ++ iOut))
  BY DEF Path, TransitSplits, ++
<1>2. front \in Seq(Items) /\ csv \in Seq(Items) /\ (pipe ++ iOut) \in Seq(Items)
      /\ pipe \in Seq(Items) /\ iOut \in Seq(Items)
  BY DEF Parts, TransitSplits
<1> HIDE DEF front
<1>3. Path = s ++ (pipe ++ iOut) /\ s \in Seq(Items)
  <2> DEFINE u == pipe ++ iOut
  <2>1. u \in Seq(Items) /\ Path = csv ++ (front ++ u)
    BY <1>1, <1>2
  <2> HIDE DEF u
  <2>2. (csv ++ front) ++ u = csv ++ (front ++ u) /\ csv ++ front \in Seq(Items)
    BY <1>2, <2>1, CatAssociative, CatIsSeq
  <2> QED
    BY <2>1, <2>2 DEF u
<1>4. Below(Path, arrived, iTsc)
  BY DEF StampsOfThePast, Below
<1> HIDE DEF s
<1> QED
  BY <1>2, <1>3, <1>4, BelowPiece

LEMMA BelowLater ==
  ASSUME NEW s \in Seq(Items), NEW n, NEW r \in Nat, NEW t \in Nat, r <= t, Below(s, n, r)
  PROVE  Below(s, n, t)
<1> SUFFICES ASSUME NEW i \in 1 .. Len(s)
             PROVE  s[i].id <= n /\ s[i].recv <= t
  BY DEF Below
<1>1. s[i].recv \in Nat /\ s[i].recv <= r /\ s[i].id <= n
  BY ElementOfSeq, ItemFields DEF Below
<1> QED
  BY <1>1

\* No process has read a time that is still to come, and ingress's only grows.
LEMMA ClockStep ==
  Shape /\ HeaderOfFrame /\ StampsOfThePast /\ [Next]_vars
    => {iTsc, pTsc, wTsc}' \subseteq 0 .. clock' /\ iTsc <= iTsc'
<1> SUFFICES ASSUME Shape, HeaderOfFrame, StampsOfThePast, [Next]_vars
             PROVE  {iTsc, pTsc, wTsc}' \subseteq 0 .. clock' /\ iTsc <= iTsc'
  OBVIOUS
<1>1. /\ clock \in Nat /\ iTsc \in 0 .. clock /\ pTsc \in 0 .. clock /\ wTsc \in 0 .. clock
      /\ iTsc \in Nat
  BY PipelineAssumption DEF Shape, Stamps, StampsOfThePast
<1> USE DEF ingVars, parVars, wrkVars
<1>2. ASSUME clock' = clock, iTsc' \in {iTsc, clock}, pTsc' \in 0 .. clock, wTsc' \in {wTsc, clock}
      PROVE  {iTsc, pTsc, wTsc}' \subseteq 0 .. clock' /\ iTsc <= iTsc'
  BY <1>1, <1>2
<1>3. CASE UNCHANGED vars
  BY <1>1, <1>2, <1>3 DEF vars
<1>4. CASE IngressStep
  BY <1>1, <1>2, <1>4 DEF IngressStep, IngressLoop, IngressRecv, IngressIdle, IngressFails,
                          IngressWrite, IngressBroken
<1>5. CASE ParserStep
  <2>1. CASE ParserHeader
    <3>1. Head(pipe).recv <= iTsc
      BY <2>1, ShapeParts, HeadOfPipe DEF ParserHeader
    <3>2. Head(pipe).recv \in Nat
      <4>1. Head(pipe) \in Frames
        BY <2>1, HeadTailProperties DEF ParserHeader, Shape
      <4> QED
        BY <4>1 DEF Frames, Stamps
    <3>3. Head(pipe).recv \in 0 .. clock
      BY <1>1, <3>1, <3>2
    <3> QED
      BY <1>2, <2>1, <3>3 DEF ParserHeader
  <2>2. CASE ParserLoop \/ ParserEof \/ ParserReject \/ ParserAccept \/ ParserPush
    BY <1>1, <1>2, <2>2 DEF ParserLoop, ParserEof, ParserReject, ParserAccept, ParserPush
  <2> QED
    BY <1>5, <2>1, <2>2 DEF ParserStep
<1>6. CASE WorkerStep
  BY <1>1, <1>2, <1>6 DEF WorkerStep, WorkerLoop, WorkerPop, WorkerEmpty, WorkerRecord,
                          WorkerFlush, WorkerNoFlush
<1>7. CASE Environment
  <2>1. CASE Tick
    BY <1>1, <2>1 DEF Tick
  <2>2. CASE StopIngress \/ StopParser \/ StopWorker \/ KillIngress \/ KillParser
             \/ KillWorker \/ StartWorker
    BY <1>1, <1>2, <2>2 DEF StopIngress, StopParser, StopWorker, KillIngress, KillParser,
                            KillWorker, StartWorker
  <2> QED
    BY <1>7, <2>1, <2>2 DEF Environment
<1> QED
  BY <1>3, <1>4, <1>5, <1>6, <1>7 DEF Next

LEMMA LenThree ==
  ASSUME NEW s \in Seq(Items), NEW t \in Seq(Items), NEW u \in Seq(Items)
  PROVE  /\ Len(s \o t \o u) = Len(s) + Len(t) + Len(u)
         /\ Len(s) \in Nat /\ Len(t) \in Nat /\ Len(u) \in Nat
<1>1. Len(s ++ t) = Len(s) + Len(t) /\ s ++ t \in Seq(Items)
  BY CatIsSeq, LenCat
<1>2. Len((s ++ t) ++ u) = Len(s ++ t) + Len(u)
  BY <1>1, LenCat
<1>3. s \o t \o u = (s ++ t) ++ u
  BY DEF ++
<1> QED
  BY <1>1, <1>2, <1>3, LenProperties

\* Numbers of the step's two states, to add up without primes.
LEMMA BehindStep == Shape /\ HeaderOfFrame /\ ParserBehind /\ [Next]_vars => ParserBehind'
<1> SUFFICES ASSUME Shape, HeaderOfFrame, ParserBehind, [Next]_vars PROVE ParserBehind'
  OBVIOUS
<1>1. Shape'
  BY ShapeStep
<1>2. /\ Len(pMsg) \in Nat /\ Len(pipe) \in Nat /\ Len(iOut) \in Nat
      /\ processed + errors + (Len(pMsg) + Len(pipe) + Len(iOut)) <= arrived
  BY ShapeParts, LenThree DEF Parts, ParserBehind
<1>3. /\ processed \in Nat /\ errors \in Nat /\ arrived \in Nat
      /\ processed' \in Nat /\ errors' \in Nat /\ arrived' \in Nat
  BY <1>1 DEF Shape
<1>4. /\ Len(pMsg') \in Nat /\ Len(pipe') \in Nat /\ Len(iOut') \in Nat
      /\ Len(pMsg' \o pipe' \o iOut') = Len(pMsg') + Len(pipe') + Len(iOut')
  <2>1. Shape' => Parts'
    BY ShapeParts, PTL
  <2> QED
    BY <1>1, <2>1, LenThree DEF Parts
<1> DEFINE p == processed + errors
           q == processed' + errors'
           a == arrived
           b == arrived'
           x == Len(pMsg)
           y == Len(pipe)
           z == Len(iOut)
           u == Len(pMsg')
           v == Len(pipe')
           w == Len(iOut')
<1>5. /\ p \in Nat /\ q \in Nat /\ a \in Nat /\ b \in Nat
      /\ x \in Nat /\ y \in Nat /\ z \in Nat /\ u \in Nat /\ v \in Nat /\ w \in Nat
      /\ p + (x + y + z) <= a
  <2>1. p \in Nat /\ a \in Nat /\ b \in Nat /\ x \in Nat /\ y \in Nat /\ z \in Nat
    BY <1>2, <1>3
  <2>2. q \in Nat
    <3> DEFINE i == processed'
               j == errors'
    <3>1. i \in Nat /\ j \in Nat
      BY <1>3
    <3>2. i + j \in Nat
      <4> HIDE DEF i, j
      <4> QED
        BY <3>1
    <3> QED
      BY <3>2
  <2>3. u \in Nat /\ v \in Nat /\ w \in Nat
    BY <1>4
  <2> QED
    BY <1>2, <2>1, <2>2, <2>3
\* Every case below comes to an inequality between sums.
<1>6. ASSUME q + (u + v + w) <= b PROVE ParserBehind'
  BY <1>4, <1>6 DEF ParserBehind
<1>7. ASSUME q = p, a <= b, u + v + w <= x + y + z PROVE ParserBehind'
  <2>1. q + (u + v + w) <= b
    <3> HIDE DEF p, q, a, b, x, y, z, u, v, w
    <3> QED
      BY <1>5, <1>7
  <2> QED
    BY <1>6, <2>1
<1>8. ASSUME UNCHANGED <<processed, errors, arrived, pMsg, pipe, iOut>> PROVE ParserBehind'
  BY <1>8 DEF ParserBehind
<1> USE DEF ingVars, parVars, wrkVars
<1>9. CASE UNCHANGED vars
  BY <1>8, <1>9 DEF vars
<1>10. CASE IngressStep \/ KillIngress
  <2>1. CASE IngressLoop \/ IngressIdle \/ IngressFails
    BY <1>8, <2>1 DEF IngressLoop, IngressIdle, IngressFails
  <2>2. CASE IngressRecv
    <3>1. q = p /\ u = x /\ v = y
      BY <2>2 DEF IngressRecv
    <3>2. z = 0 /\ w = 1 /\ b = a + 1
      BY <1>1, <2>2 DEF IngressRecv, Shape
    <3>3. q + (u + v + w) <= b
      <4> HIDE DEF p, q, a, b, x, y, z, u, v, w
      <4> QED
        BY <1>5, <3>1, <3>2
    <3> QED
      BY <1>6, <3>3
  <2>3. CASE IngressWrite
    <3>1. q = p /\ u = x /\ b = a /\ w = 0
      BY <2>3, EmptyOut DEF IngressWrite
    <3>2. v = y + z
      <4>1. pipe' = pipe \o iOut /\ pipe \in Seq(Frames) /\ iOut \in Seq(Frames)
        BY <2>3 DEF IngressWrite, Shape
      <4> QED
        BY <4>1, ConcatProperties
    <3>3. a <= b /\ u + v + w <= x + y + z
      <4> HIDE DEF p, q, a, b, x, y, z, u, v, w
      <4> QED
        BY <1>5, <3>1, <3>2
    <3> QED
      BY <1>7, <3>1, <3>3
  <2>4. CASE IngressBroken \/ KillIngress
    <3>1. q = p /\ u = x /\ v = y /\ b = a /\ w = 0
      BY <2>4, EmptyOut DEF IngressBroken, KillIngress
    <3>2. a <= b /\ u + v + w <= x + y + z
      <4> HIDE DEF p, q, a, b, x, y, z, u, v, w
      <4> QED
        BY <1>5, <3>1
    <3> QED
      BY <1>7, <3>1, <3>2
  <2> QED
    BY <1>10, <2>1, <2>2, <2>3, <2>4 DEF IngressStep
<1>11. CASE ParserStep \/ KillParser
  <2>1. CASE ParserLoop \/ ParserHeader \/ ParserEof
    BY <1>8, <2>1 DEF ParserLoop, ParserHeader, ParserEof
  <2>2. ASSUME pPc = "body", pipe' = Tail(pipe) PROVE v + 1 = y
    BY <2>2, HeadTailProperties, LenProperties, EmptySeq DEF HeaderOfFrame, Shape
  <2>3. CASE ParserReject
    <3>1. b = a /\ u = x /\ w = z /\ v + 1 = y
      BY <2>2, <2>3 DEF ParserReject
    <3>2. q = p + 1
      <4>1. processed' = processed /\ errors' = errors + 1
        BY <2>3 DEF ParserReject
      <4> QED
        BY <1>3, <4>1
    <3>3. q + (u + v + w) <= b
      <4> HIDE DEF p, q, a, b, x, y, z, u, v, w
      <4> QED
        BY <1>5, <3>1, <3>2
    <3> QED
      BY <1>6, <3>3
  <2>4. CASE ParserAccept
    <3>1. q = p /\ b = a /\ w = z /\ v + 1 = y
      BY <2>2, <2>4 DEF ParserAccept
    <3>2. u = 1 /\ x = 0
      BY <1>1, <2>4 DEF ParserAccept, Shape
    <3>3. a <= b /\ u + v + w <= x + y + z
      <4> HIDE DEF p, q, a, b, x, y, z, u, v, w
      <4> QED
        BY <1>5, <3>1, <3>2
    <3> QED
      BY <1>7, <3>1, <3>3
  <2>5. CASE ParserPush
    <3>1. b = a /\ v = y /\ w = z /\ u = 0
      BY <2>5, EmptyOut DEF ParserPush
    <3>2. x = 1
      BY <2>5 DEF ParserPush, Shape
    <3>3. q = p + 1
      <4>1. \/ processed' = processed + 1 /\ errors' = errors
            \/ processed' = processed /\ errors' = errors + 1
        BY <2>5 DEF ParserPush
      <4>2. q = (processed + 1) + errors \/ q = processed + (errors + 1)
        BY <4>1
      <4> HIDE DEF q
      <4> QED
        BY <1>3, <4>2
    <3>4. q + (u + v + w) <= b
      <4> HIDE DEF p, q, a, b, x, y, z, u, v, w
      <4> QED
        BY <1>5, <3>1, <3>2, <3>3
    <3> QED
      BY <1>6, <3>4
  <2>6. CASE KillParser
    <3>1. q = p /\ b = a /\ v = y /\ w = z /\ u = 0
      BY <2>6, EmptyOut DEF KillParser
    <3>2. a <= b /\ u + v + w <= x + y + z
      <4> HIDE DEF p, q, a, b, x, y, z, u, v, w
      <4> QED
        BY <1>5, <3>1
    <3> QED
      BY <1>7, <3>1, <3>2
  <2> QED
    BY <1>11, <2>1, <2>3, <2>4, <2>5, <2>6 DEF ParserStep
<1>12. CASE WorkerStep
  BY <1>8, <1>12 DEF WorkerStep, WorkerLoop, WorkerPop, WorkerEmpty, WorkerRecord,
                     WorkerFlush, WorkerNoFlush
<1>13. CASE Tick \/ StopIngress \/ StopParser \/ StopWorker \/ KillWorker \/ StartWorker
  BY <1>8, <1>13 DEF Tick, StopIngress, StopParser, StopWorker, KillWorker, StartWorker
<1> QED
  BY <1>9, <1>10, <1>11, <1>12, <1>13 DEF Next, Environment

--------------------------------------------------------------------------------
(* Causal timestamps *)

\* The condition of StampsCausal on one sequence, at time t.
Causal(s, t) == \A i \in 1 .. Len(s) : s[i].recv <= s[i].enq /\ s[i].enq <= t

Stamped == Messages \cup Records

LEMMA StampedFields ==
  ASSUME NEW x \in Stamped
  PROVE  x.enq \in Nat
BY PipelineAssumption DEF Stamped, Messages, Records, Stamps

LEMMA CausalCat ==
  ASSUME NEW s \in Seq(Stamped), NEW u \in Seq(Stamped), NEW t
  PROVE  Causal(s ++ u, t) <=> Causal(s, t) /\ Causal(u, t)
<1>1. Len(s) \in Nat /\ Len(u) \in Nat
  BY LenProperties
<1>2. Len(s ++ u) = Len(s) + Len(u)
  BY CatItems
<1>3. ASSUME Causal(s ++ u, t) PROVE Causal(s, t)
  <2> SUFFICES ASSUME NEW i \in 1 .. Len(s) PROVE s[i].recv <= s[i].enq /\ s[i].enq <= t
    BY DEF Causal
  <2>1. (s ++ u)[i] = s[i] /\ i \in 1 .. Len(s ++ u)
    BY <1>1, <1>2, CatItems
  <2> QED
    BY <1>3, <2>1 DEF Causal
<1>4. ASSUME Causal(s ++ u, t) PROVE Causal(u, t)
  <2> SUFFICES ASSUME NEW i \in 1 .. Len(u) PROVE u[i].recv <= u[i].enq /\ u[i].enq <= t
    BY DEF Causal
  <2> DEFINE k == Len(s) + i
  <2>1. k \in Len(s) + 1 .. Len(s) + Len(u) /\ k - Len(s) = i /\ k \in 1 .. Len(s) + Len(u)
    BY <1>1
  <2> HIDE DEF k
  <2>2. (s ++ u)[k] = u[i] /\ k \in 1 .. Len(s ++ u)
    BY <1>2, <2>1, CatItems
  <2> QED
    BY <1>4, <2>2 DEF Causal
<1>5. ASSUME Causal(s, t), Causal(u, t) PROVE Causal(s ++ u, t)
  <2> SUFFICES ASSUME NEW i \in 1 .. Len(s) + Len(u)
               PROVE  (s ++ u)[i].recv <= (s ++ u)[i].enq /\ (s ++ u)[i].enq <= t
    BY <1>2 DEF Causal
  <2>1. CASE i \in 1 .. Len(s)
    BY <1>5, <2>1, CatItems DEF Causal
  <2>2. CASE i \in Len(s) + 1 .. Len(s) + Len(u)
    <3>1. i - Len(s) \in 1 .. Len(u)
      BY <1>1, <2>2
    <3>2. (s ++ u)[i] = u[i - Len(s)]
      BY <2>2, CatItems
    <3> QED
      BY <1>5, <3>1, <3>2 DEF Causal
  <2> QED
    BY <1>1, <2>1, <2>2
<1> QED
  BY <1>3, <1>4, <1>5

LEMMA CausalLater ==
  ASSUME NEW s \in Seq(Stamped), NEW t \in Nat, NEW u \in Nat, t <= u, Causal(s, t)
  PROVE  Causal(s, u)
<1> SUFFICES ASSUME NEW i \in 1 .. Len(s) PROVE s[i].recv <= s[i].enq /\ s[i].enq <= u
  BY DEF Causal
<1>1. s[i].enq \in Nat /\ s[i].recv <= s[i].enq /\ s[i].enq <= t
  BY ElementOfSeq, StampedFields DEF Causal
<1> QED
  BY <1>1

LEMMA CausalNone == ASSUME NEW t PROVE Causal(<<>>, t)
BY EmptyOut DEF Causal

LEMMA CausalOne ==
  ASSUME NEW x, NEW t
  PROVE  Causal(<<x>>, t) <=> x.recv <= x.enq /\ x.enq <= t
BY DEF Causal

LEMMA CausalSplit ==
  ASSUME NEW s \in Seq(Stamped), NEW t, s # <<>>, Causal(s, t)
  PROVE  Causal(<<Head(s)>>, t) /\ Causal(Tail(s), t)
<1>1. <<Head(s)>> \in Seq(Stamped) /\ Tail(s) \in Seq(Stamped)
  BY HeadTailProperties, OneOut
<1>2. s = <<Head(s)>> ++ Tail(s)
  BY HeadAndTail
<1> DEFINE h == <<Head(s)>>
           r == Tail(s)
<1>3. h \in Seq(Stamped) /\ r \in Seq(Stamped) /\ Causal(h ++ r, t)
  BY <1>1, <1>2
<1> HIDE DEF h, r
<1>4. Causal(h, t) /\ Causal(r, t)
  BY <1>3, CausalCat
<1> QED
  BY <1>4 DEF h, r

\* StampsCausal, part by part.
CausalParts(t) == Causal(csvBuf, t) /\ Causal(wMsg, t) /\ Causal(ring, t) /\ Causal(pMsg, t)

StampedParts ==
  /\ csvBuf \in Seq(Stamped) /\ wMsg \in Seq(Stamped)
  /\ ring \in Seq(Stamped) /\ pMsg \in Seq(Stamped)

LEMMA ShapeStamped == Shape => StampedParts
<1>1. Messages \subseteq Stamped /\ Records \subseteq Stamped
  BY DEF Stamped
<1> HIDE DEF Stamped
<1> QED
  BY <1>1, SeqMonotonic DEF Shape, StampedParts

LEMMA CausalByParts == Shape => (StampsCausal <=> CausalParts(clock))
<1> SUFFICES ASSUME Shape PROVE StampsCausal <=> CausalParts(clock)
  OBVIOUS
<1> DEFINE s == csvBuf \o wMsg \o ring \o pMsg
<1>1. StampsCausal <=> Causal(s, clock)
  BY DEF StampsCausal, Causal
<1>2. StampedParts
  BY ShapeStamped
<1>3. s = ((csvBuf ++ wMsg) ++ ring) ++ pMsg
  BY DEF ++
<1>4. csvBuf ++ wMsg \in Seq(Stamped) /\ (csvBuf ++ wMsg) ++ ring \in Seq(Stamped)
  BY <1>2, CatIsSeq DEF StampedParts
<1>5. Causal(((csvBuf ++ wMsg) ++ ring) ++ pMsg, clock)
        <=> Causal((csvBuf ++ wMsg) ++ ring, clock) /\ Causal(pMsg, clock)
  BY <1>2, <1>4, CausalCat DEF StampedParts
<1>6. Causal((csvBuf ++ wMsg) ++ ring, clock)
        <=> Causal(csvBuf ++ wMsg, clock) /\ Causal(ring, clock)
  BY <1>2, <1>4, CausalCat DEF StampedParts
<1>7. Causal(csvBuf ++ wMsg, clock) <=> Causal(csvBuf, clock) /\ Causal(wMsg, clock)
  BY <1>2, CausalCat DEF StampedParts
<1> QED
  BY <1>1, <1>3, <1>5, <1>6, <1>7 DEF CausalParts

LEMMA CausalStep ==
  Shape /\ HeaderOfFrame /\ StampsOfThePast /\ StampsCausal /\ [Next]_vars => StampsCausal'
<1> SUFFICES ASSUME Shape, HeaderOfFrame, StampsOfThePast, StampsCausal, [Next]_vars
             PROVE  StampsCausal'
  OBVIOUS
<1>1. Shape'
  BY ShapeStep
<1>2. StampedParts /\ CausalParts(clock)
  BY ShapeStamped, CausalByParts
<1>3. ASSUME Causal(csvBuf', clock'), Causal(wMsg', clock'), Causal(ring', clock'),
             Causal(pMsg', clock')
      PROVE  StampsCausal'
  <2>1. Shape' => (StampsCausal' <=> CausalParts(clock)')
    BY CausalByParts, PTL
  <2>2. CausalParts(clock)'
    BY <1>3 DEF CausalParts
  <2> QED
    BY <1>1, <2>1, <2>2
<1> USE DEF CausalParts
<1>4. ASSUME UNCHANGED <<clock, csvBuf, wMsg, ring, pMsg>> PROVE StampsCausal'
  BY <1>2, <1>3, <1>4
<1> USE DEF ingVars, parVars, wrkVars
<1>5. CASE UNCHANGED vars
  BY <1>4, <1>5 DEF vars
<1>6. CASE IngressStep
  BY <1>4, <1>6 DEF IngressStep, IngressLoop, IngressRecv, IngressIdle, IngressFails,
                    IngressWrite, IngressBroken
<1>7. CASE ParserStep
  <2>1. CASE ParserLoop \/ ParserHeader \/ ParserEof \/ ParserReject
    BY <1>4, <2>1 DEF ParserLoop, ParserHeader, ParserEof, ParserReject
  <2>2. CASE ParserAccept
    <3> DEFINE m == [id |-> Head(pipe).id, recv |-> pTsc, enq |-> clock]
    <3>1. pTsc <= clock /\ clock <= clock
      BY PipelineAssumption DEF StampsOfThePast, Shape, Stamps
    <3>2. m.recv <= m.enq /\ m.enq <= clock
      BY <3>1
    <3>3. pMsg' = <<m>> /\ UNCHANGED <<clock, csvBuf, wMsg, ring>>
      BY <2>2 DEF ParserAccept
    <3> HIDE DEF m
    <3>4. Causal(<<m>>, clock)
      BY <3>2, CausalOne
    <3> QED
      BY <1>2, <1>3, <3>3, <3>4
  <2>3. CASE ParserPush
    <3>1. UNCHANGED <<clock, csvBuf, wMsg>> /\ pMsg' = <<>> /\ ring' \in {ring ++ pMsg, ring}
      BY <2>3 DEF ParserPush, ++
    <3>2. Causal(ring ++ pMsg, clock)
      BY <1>2, CausalCat DEF StampedParts
    <3> QED
      BY <1>2, <1>3, <3>1, <3>2, CausalNone
  <2> QED
    BY <1>7, <2>1, <2>2, <2>3 DEF ParserStep
<1>8. CASE WorkerStep
  <2>1. CASE WorkerEmpty \/ WorkerNoFlush
    BY <1>4, <2>1 DEF WorkerEmpty, WorkerNoFlush
  <2>2. CASE WorkerLoop \/ WorkerFlush
    <3>1. UNCHANGED <<clock, wMsg, ring, pMsg>> /\ csvBuf' \in {csvBuf, <<>>}
      BY <2>2 DEF WorkerLoop, WorkerFlush
    <3> QED
      BY <1>2, <1>3, <3>1, CausalNone
  <2>3. CASE WorkerPop
    <3>1. /\ UNCHANGED <<clock, csvBuf, pMsg>> /\ ring # <<>>
          /\ wMsg' = <<Head(ring)>> /\ ring' = Tail(ring)
      BY <2>3 DEF WorkerPop
    <3>2. Causal(<<Head(ring)>>, clock) /\ Causal(Tail(ring), clock)
      BY <1>2, <3>1, CausalSplit DEF StampedParts
    <3> QED
      BY <1>2, <1>3, <3>1, <3>2
  <2>4. CASE WorkerRecord
    <3> DEFINE r == [id |-> wMsg[1].id, recv |-> wMsg[1].recv, enq |-> wMsg[1].enq,
                     deq |-> wTsc, latIngress |-> Elapsed(wMsg[1].recv, wTsc),
                     latParse |-> Elapsed(wMsg[1].enq, wTsc)]
    <3>1. UNCHANGED <<clock, ring, pMsg>> /\ wMsg' = <<>> /\ csvBuf' = Append(csvBuf, r)
      BY <2>4 DEF WorkerRecord
    <3>2. wMsg[1].recv <= wMsg[1].enq /\ wMsg[1].enq <= clock
      <4>1. Len(wMsg) = 1 /\ Causal(wMsg, clock)
        BY <1>2, <2>4 DEF WorkerRecord, Shape
      <4> QED
        BY <4>1 DEF Causal
    <3>3. r.recv <= r.enq /\ r.enq <= clock
      BY <3>2
    <3>4. csvBuf' \in Seq(Stamped) /\ csvBuf \in Seq(Stamped)
      <4>1. Shape' => StampedParts'
        BY ShapeStamped, PTL
      <4> QED
        BY <1>1, <1>2, <4>1 DEF StampedParts
    <3> HIDE DEF r
    <3>5. r \in Stamped /\ Append(csvBuf, r) = csvBuf ++ <<r>>
      <4>1. Append(csvBuf, r)[Len(csvBuf) + 1] = r
        BY <3>4, AppendProperties
      <4>2. Len(csvBuf) + 1 \in 1 .. Len(Append(csvBuf, r))
        BY <3>4, LenProperties
      <4>3. Append(csvBuf, r) \in Seq(Stamped)
        BY <3>1, <3>4
      <4>4. Append(csvBuf, r) = csvBuf ++ <<r>>
        BY <3>4, AppendIsConcat DEF ++
      <4> QED
        BY <4>1, <4>2, <4>3, <4>4, ElementOfSeq
    <3>6. Causal(csvBuf ++ <<r>>, clock)
      <4>1. <<r>> \in Seq(Stamped) /\ Causal(<<r>>, clock)
        BY <3>3, <3>5, OneOut, CausalOne
      <4> DEFINE y == <<r>>
      <4>2. y \in Seq(Stamped) /\ Causal(y, clock)
        BY <4>1
      <4> HIDE DEF y
      <4>3. Causal(csvBuf ++ y, clock)
        BY <1>2, <3>4, <4>2, CausalCat
      <4> QED
        BY <4>3 DEF y
    <3> QED
      BY <1>2, <1>3, <3>1, <3>5, <3>6, CausalNone
  <2> QED
    BY <1>8, <2>1, <2>2, <2>3, <2>4 DEF WorkerStep
<1>9. CASE Environment
  <2>1. CASE Tick
    <3>1. UNCHANGED <<csvBuf, wMsg, ring, pMsg>> /\ clock' = clock + 1
      BY <2>1 DEF Tick
    <3>2. clock \in Nat /\ clock + 1 \in Nat /\ clock <= clock + 1
      BY PipelineAssumption DEF Shape, Stamps
    <3>3. CausalParts(clock + 1)
      <4> HIDE DEF CausalParts
      <4> QED
        BY <1>2, <3>2, CausalLater DEF CausalParts, StampedParts
    <3> QED
      BY <1>3, <3>1, <3>3
  <2>2. CASE StopIngress \/ StopParser \/ StopWorker \/ KillIngress \/ StartWorker
    BY <1>4, <2>2 DEF StopIngress, StopParser, StopWorker, KillIngress, StartWorker
  <2>3. CASE KillParser
    BY <1>2, <1>3, <2>3, CausalNone DEF KillParser
  <2>4. CASE KillWorker
    BY <1>2, <1>3, <2>4, CausalNone DEF KillWorker
  <2> QED
    BY <1>9, <2>1, <2>2, <2>3, <2>4 DEF Environment
<1> QED
  BY <1>5, <1>6, <1>7, <1>8, <1>9 DEF Next

--------------------------------------------------------------------------------
(* The inductive invariant *)

\* The bounds of the counters follow from what they count.
LEMMA ShapeTypeOK == Shape /\ EveryFrameAccounted /\ ParserBehind => TypeOK
<1> SUFFICES ASSUME Shape, EveryFrameAccounted, ParserBehind PROVE TypeOK
  OBVIOUS
<1> DEFINE n == Len(Path)
           k == Len(pMsg \o pipe \o iOut)
<1>1. n \in Nat /\ k \in Nat
  <2>1. Parts
    BY ShapeParts
  <2>2. Path \in Seq(Items)
    BY <2>1, ConcatProperties DEF Parts, Path
  <2>3. pMsg \o pipe \o iOut \in Seq(Items)
    BY <2>1, ConcatProperties DEF Parts
  <2> QED
    BY <2>2, <2>3, LenProperties
<1>2. arrived = n + errors + lost /\ processed + errors + k <= arrived
  BY DEF EveryFrameAccounted, ParserBehind
<1>3. /\ errors \in Nat /\ processed \in Nat /\ lost \in Nat
      /\ arrived \in Nat /\ arrived <= MaxFrames /\ MaxFrames \in Nat
  BY PipelineAssumption DEF Shape
<1>4. errors \in 0 .. MaxFrames /\ processed \in 0 .. MaxFrames /\ lost \in 0 .. MaxFrames
  <2> HIDE DEF n, k
  <2> QED
    BY <1>1, <1>2, <1>3
<1> QED
  BY <1>4 DEF Shape, TypeOK

LEMMA InitInv == Init => IInv
<1> SUFFICES ASSUME Init PROVE IInv
  OBVIOUS
<1> USE PipelineAssumption DEF Init, IngressInit, ParserInit, WorkerInit
<1>1. Shape
  <2>1. /\ <<>> \in Seq(Frames) /\ <<>> \in Seq(Messages) /\ <<>> \in Seq(Records)
        /\ Len(<<>>) = 0
    BY EmptyOut
  <2>2. 0 \in Stamps /\ 0 \in 0 .. MaxFrames /\ 0 \in 0 .. MaxKills
        /\ 0 <= PipeCap /\ 0 <= RingCap
    BY DEF Stamps
  <2>3. /\ clock \in Stamps /\ arrived \in 0 .. MaxFrames /\ kills \in 0 .. MaxKills
        /\ iTsc \in Stamps /\ pTsc \in Stamps /\ wTsc \in Stamps
        /\ errors \in Nat /\ processed \in Nat /\ lost \in Nat
    BY <2>2
  <2>4. /\ iOut \in Seq(Frames) /\ Len(iOut) = 0 /\ pipe \in Seq(Frames) /\ Len(pipe) <= PipeCap
        /\ pMsg \in Seq(Messages) /\ Len(pMsg) = 0
        /\ ring \in Seq(Messages) /\ Len(ring) <= RingCap
        /\ wMsg \in Seq(Messages) /\ Len(wMsg) = 0
        /\ csvBuf \in Seq(Records) /\ csv \in Seq(Records)
    BY <2>1, <2>2
  <2> QED
    BY <2>3, <2>4 DEF Shape
<1>2. Path = <<>> /\ Len(Path) = 0
  BY EmptyOut, ConcatEmptySeq DEF Path, Transit
<1>3. Len(pMsg \o pipe \o iOut) = 0 /\ Len(csvBuf \o wMsg \o ring \o pMsg) = 0
  BY EmptyOut, ConcatEmptySeq
<1>4. EveryFrameAccounted /\ InOrder /\ HeaderOfFrame
  BY <1>2 DEF EveryFrameAccounted, InOrder, HeaderOfFrame
<1>5. StampsOfThePast
  BY <1>2 DEF StampsOfThePast
<1>6. StampsCausal
  BY <1>3 DEF StampsCausal
<1>7. ParserBehind
  BY <1>3 DEF ParserBehind
<1> QED
  BY <1>1, <1>4, <1>5, <1>6, <1>7, ShapeTypeOK DEF IInv

LEMMA StepInv == IInv /\ [Next]_vars => IInv'
<1> SUFFICES ASSUME IInv, [Next]_vars PROVE IInv'
  OBVIOUS
<1>1. /\ Shape /\ EveryFrameAccounted /\ InOrder /\ StampsCausal /\ HeaderOfFrame
      /\ StampsOfThePast /\ ParserBehind
  BY TypeOKShape DEF IInv
<1>2. Shape' /\ HeaderOfFrame' /\ ParserBehind' /\ StampsCausal'
  BY <1>1, ShapeStep, HeaderStep, BehindStep, CausalStep
<1>3. Parts /\ Parts' /\ StepKind
  <2>1. Shape' => Parts'
    BY ShapeParts, PTL
  <2> QED
    BY <1>1, <1>2, <2>1, ShapeParts, StepHasKind
<1>4. EveryFrameAccounted'
  BY <1>1, <1>2, <1>3, KindAccounted
<1>5. /\ {iTsc, pTsc, wTsc}' \subseteq 0 .. clock' /\ iTsc <= iTsc'
      /\ arrived \in Nat /\ iTsc \in Nat /\ iTsc' \in Nat
  BY <1>1, <1>2, ClockStep, PipelineAssumption DEF Shape, Stamps
<1>6. Sorted(Path) /\ Below(Path, arrived, iTsc)
  BY <1>1 DEF InOrder, Sorted, StampsOfThePast, Below
<1>7. Sorted(Path') /\ Below(Path', arrived', iTsc)
  BY <1>3, <1>5, <1>6, KindSorted
<1>8. InOrder'
  BY <1>7 DEF InOrder, Sorted
<1>9. StampsOfThePast'
  <2>1. Path' = csv' ++ Transit' /\ Path' \in Seq(Items)
    BY <1>3, CatIsSeq DEF Parts, Path, ++
  <2>2. Below(Path', arrived', iTsc')
    BY <1>5, <1>7, <2>1, BelowLater
  <2> QED
    BY <1>5, <2>2 DEF StampsOfThePast, Below
<1>10. TypeOK'
  <2>1. Shape' /\ EveryFrameAccounted' /\ ParserBehind' => TypeOK'
    BY ShapeTypeOK, PTL
  <2> QED
    BY <1>2, <1>4, <2>1
<1> QED
  BY <1>2, <1>4, <1>8, <1>9, <1>10 DEF IInv

THEOREM Invariance == Spec => []IInv
BY InitInv, StepInv, PTL DEF Spec

\* Ring and pipe never hold more than they can, a process has a frame in hand
\* exactly when it stands between taking and passing on, and the counters are
\* bounded by the datagrams received.
THEOREM TypeCorrect == Spec => []TypeOK
<1>1. IInv => TypeOK
  BY DEF IInv
<1> QED
  BY <1>1, Invariance, PTL

\* No datagram disappears unnoticed and none is counted or recorded twice.
THEOREM Accounted == Spec => []EveryFrameAccounted
<1>1. IInv => EveryFrameAccounted
  BY DEF IInv
<1> QED
  BY <1>1, Invariance, PTL

\* Datagrams keep the order of reception from the socket to the file.
THEOREM Ordered == Spec => []InOrder
<1>1. IInv => InOrder
  BY DEF IInv
<1> QED
  BY <1>1, Invariance, PTL

\* A message carries the stamp of its own header, and was received no later
\* than it was enqueued.
THEOREM CausalStamps == Spec => []StampsCausal
<1>1. IInv => StampsCausal
  BY DEF IInv
<1> QED
  BY <1>1, Invariance, PTL

--------------------------------------------------------------------------------
(* The channel *)

LEMMA IdsSeq ==
  ASSUME NEW s \in Seq(Items)
  PROVE  /\ Ids(s) \in Seq(Nat) /\ Len(Ids(s)) = Len(s)
         /\ \A i \in 1 .. Len(s) : Ids(s)[i] = s[i].id
<1>1. Ids(s) = [i \in 1 .. Len(s) |-> s[i].id] /\ Len(s) \in Nat
  BY LenProperties DEF Ids
<1>2. \A i \in 1 .. Len(s) : s[i].id \in Nat
  BY ElementOfSeq, ItemFields
<1> QED
  BY <1>1, <1>2

LEMMA IdsCat ==
  ASSUME NEW s \in Seq(Items), NEW t \in Seq(Items)
  PROVE  Ids(s ++ t) = Ids(s) ++ Ids(t)
<1> DEFINE a == Ids(s)
           b == Ids(t)
           c == Ids(s ++ t)
<1>1. s ++ t \in Seq(Items) /\ Len(s) \in Nat /\ Len(t) \in Nat /\ Len(s ++ t) = Len(s) + Len(t)
  BY CatIsSeq, LenCat
<1>2. /\ a \in Seq(Nat) /\ Len(a) = Len(s) /\ \A i \in 1 .. Len(s) : a[i] = s[i].id
      /\ b \in Seq(Nat) /\ Len(b) = Len(t) /\ \A i \in 1 .. Len(t) : b[i] = t[i].id
  BY IdsSeq
<1>3. c \in Seq(Nat) /\ Len(c) = Len(s) + Len(t)
      /\ \A i \in 1 .. Len(s) + Len(t) : c[i] = (s ++ t)[i].id
  BY <1>1, IdsSeq
<1> HIDE DEF a, b, c
<1>4. /\ a ++ b \in Seq(Nat) /\ Len(a ++ b) = Len(s) + Len(t)
      /\ \A i \in 1 .. Len(s) : (a ++ b)[i] = a[i]
      /\ \A i \in Len(s) + 1 .. Len(s) + Len(t) : (a ++ b)[i] = b[i - Len(s)]
  <2>1. a ++ b \in Seq(Nat) /\ Len(a ++ b) = Len(a) + Len(b)
    BY <1>2, CatIsSeq, CatItems
  <2>2. ASSUME NEW i \in 1 .. Len(s) PROVE (a ++ b)[i] = a[i]
    BY <1>2, CatItems
  <2>3. ASSUME NEW i \in Len(a) + 1 .. Len(a) + Len(b) PROVE (a ++ b)[i] = b[i - Len(a)]
    BY <1>2, CatItems
  <2> QED
    BY <1>2, <2>1, <2>2, <2>3
<1>5. ASSUME NEW i \in 1 .. Len(s) + Len(t) PROVE c[i] = (a ++ b)[i]
  <2>1. CASE i \in 1 .. Len(s)
    <3>1. (s ++ t)[i] = s[i]
      BY <2>1, CatItems
    <3> QED
      BY <1>2, <1>3, <1>4, <2>1, <3>1
  <2>2. CASE i \in Len(s) + 1 .. Len(s) + Len(t)
    <3>1. i - Len(s) \in 1 .. Len(t)
      BY <1>1, <2>2
    <3>2. (s ++ t)[i] = t[i - Len(s)]
      BY <2>2, CatItems
    <3> QED
      BY <1>2, <1>3, <1>4, <2>2, <3>1, <3>2
  <2> QED
    BY <1>1, <2>1, <2>2
<1>6. c = a ++ b
  BY <1>3, <1>4, <1>5, SeqEqual
<1> QED
  BY <1>6 DEF a, b, c

LEMMA IdsSameTags ==
  ASSUME NEW s \in Seq(Items), NEW t \in Seq(Items), SameTags(s, t)
  PROVE  Ids(s) = Ids(t)
<1>1. Len(Ids(s)) = Len(Ids(t)) /\ \A i \in 1 .. Len(Ids(s)) : Ids(s)[i] = Ids(t)[i]
  BY IdsSeq DEF SameTags
<1> QED
  BY <1>1, IdsSeq, SeqEqual

\* The two halves of a concatenation are found again by their lengths.
LEMMA FrontAndBack ==
  ASSUME NEW S, NEW s \in Seq(S), NEW t \in Seq(S)
  PROVE  /\ SubSeq(s ++ t, 1, Len(s)) = s
         /\ SubSeq(s ++ t, Len(s) + 1, Len(s) + Len(t)) = t
<1>1. SubSeq(s ++ t, 1, Len(s)) = s
  BY DEF ++
<1>2. SubSeq(s ++ t, Len(s) + 1, Len(s) + Len(t)) = t
  BY SeqEqual DEF ++
<1> QED
  BY <1>1, <1>2

\* Each kind of step is a step of the channel, or none.
LEMMA KindRefines ==
  ASSUME Parts, Parts', arrived \in Nat, errors + lost \in Nat, StepKind
  PROVE  Channel!Next \/ UNCHANGED Channel!vars
<1> DEFINE T == Ids(Transit)
           U == Ids(Transit')
<1>1. CASE Stays
  <2>1. U = T
    BY <1>1, IdsSameTags DEF Parts, Stays
  <2> QED
    BY <1>1, <2>1 DEF Stays, Channel!vars
<1>2. CASE Arrives
  <2>1. PICK x \in Items : x.id = arrived + 1 /\ Transit' = Transit ++ <<x>>
    BY <1>2 DEF Arrives
  <2> DEFINE y == <<x>>
             z == <<arrived + 1>>
  <2>2. y \in Seq(Items) /\ Ids(y) = z
    <3>1. y \in Seq(Items) /\ Len(y) = 1 /\ y[1] = x
      BY OneOut
    <3> HIDE DEF y
    <3>2. Ids(y) \in Seq(Nat) /\ Len(Ids(y)) = 1 /\ Ids(y)[1] = arrived + 1
      BY <2>1, <3>1, IdsSeq
    <3> QED
      BY <3>1, <3>2
  <2>3. Transit' = Transit ++ y /\ Transit \in Seq(Items)
    BY <2>1 DEF Parts
  <2> HIDE DEF y
  <2>4. U = T ++ z
    BY <2>2, <2>3, IdsCat
  <2>5. T ++ z = Append(T, arrived + 1)
    <3>1. T \in Seq(Nat) /\ arrived + 1 \in Nat
      BY <2>3, IdsSeq
    <3> HIDE DEF T
    <3> QED
      BY <3>1, AppendIsConcat DEF ++
  <2>6. arrived' = arrived + 1 /\ csv' = csv /\ errors' + lost' = errors + lost
    BY <1>2 DEF Arrives
  <2> QED
    BY <2>4, <2>5, <2>6 DEF Channel!Next, Channel!Send
<1>3. CASE Loses
  <2>1. PICK s, t, u \in Seq(Items) : /\ Transit = s ++ t ++ u /\ Transit' = s ++ u
                                      /\ errors' + lost' = errors + lost + Len(t)
    BY <1>3 DEF Loses
  <2>2. arrived' = arrived /\ csv' = csv
    BY <1>3 DEF Loses
  <2>3. CASE t = <<>>
    <3>1. s ++ t = s /\ Len(t) = 0
      BY <2>3, CatEmpty, EmptyOut
    <3>2. Transit' = Transit
      BY <2>1, <3>1
    <3>3. errors' + lost' = errors + lost
      BY <2>1, <3>1
    <3> QED
      BY <2>2, <3>2, <3>3 DEF Channel!vars
  <2>4. CASE t # <<>>
    <3> DEFINE a == Ids(s)
               b == Ids(t)
               c == Ids(u)
               l == Len(s)
               m == Len(t)
               n == Len(u)
    <3>1. /\ a \in Seq(Nat) /\ b \in Seq(Nat) /\ c \in Seq(Nat)
          /\ Len(a) = l /\ Len(b) = m /\ Len(c) = n
      BY IdsSeq
    <3>2. l \in Nat /\ m \in Nat /\ m >= 1 /\ n \in Nat
      BY <2>4, EmptySeq, LenProperties
    <3>3. T = (a ++ b) ++ c /\ U = a ++ c
      <4>1. Ids(s ++ t) = a ++ b /\ s ++ t \in Seq(Items) /\ Ids(s ++ u) = a ++ c
        BY IdsCat, CatIsSeq
      <4>2. Ids((s ++ t) ++ u) = Ids(s ++ t) ++ c
        BY <4>1, IdsCat
      <4> QED
        BY <2>1, <4>1, <4>2
    <3>4. errors' + lost' = errors + lost + m
      BY <2>1
    <3> HIDE DEF a, b, c, l, m, n, T, U
    <3>5. a ++ b \in Seq(Nat) /\ Len(a ++ b) = l + m /\ b ++ c \in Seq(Nat)
      BY <3>1, CatIsSeq, CatItems
    <3>6. Len(T) = l + m + n /\ T \in Seq(Nat)
      BY <3>1, <3>3, <3>5, CatIsSeq, CatItems
    <3>7. T = a ++ (b ++ c)
      BY <3>1, <3>3, CatAssociative
    <3>8. SubSeq(T, 1, l) = a
      <4>1. SubSeq(a ++ (b ++ c), 1, Len(a)) = a
        BY <3>1, <3>5, FrontAndBack
      <4> QED
        BY <3>1, <3>7, <4>1
    <3>9. SubSeq(T, l + m + 1, l + m + n) = c
      <4> DEFINE v == a ++ b
      <4>1. v \in Seq(Nat) /\ Len(v) = l + m /\ T = v ++ c
        BY <3>3, <3>5
      <4> HIDE DEF v
      <4>2. SubSeq(v ++ c, Len(v) + 1, Len(v) + Len(c)) = c
        BY <3>1, <4>1, FrontAndBack
      <4> QED
        BY <3>1, <4>1, <4>2
    <3> DEFINE i == l + 1
               j == l + m
    <3>10. /\ i \in 1 .. Len(T) /\ j \in 1 .. Len(T) /\ i <= j
           /\ i - 1 = l /\ j + 1 = l + m + 1 /\ j + 1 - i = m
      BY <3>2, <3>6
    <3> HIDE DEF i, j
    <3>11. U = SubSeq(T, 1, i - 1) ++ SubSeq(T, j + 1, Len(T))
      BY <3>3, <3>6, <3>8, <3>9, <3>10
    <3>12. errors' + lost' = errors + lost + (j + 1 - i)
      BY <3>4, <3>10
    <3>13. Channel!Lose(i, j)
      BY <2>2, <3>11, <3>12 DEF T, U, Channel!Lose, ++
    <3> QED
      BY <3>10, <3>13 DEF T, Channel!Next
  <2> QED
    BY <2>3, <2>4
<1>4. CASE Delivers
  <2>1. PICK s, u \in Seq(Items) : Transit = s ++ u /\ Transit' = u /\ csv' = csv ++ s
    BY <1>4 DEF Delivers
  <2>2. arrived' = arrived /\ errors' + lost' = errors + lost
    BY <1>4 DEF Delivers
  <2>3. CASE s = <<>>
    <3>1. s ++ u = u /\ csv ++ s = csv
      BY <2>3, CatEmpty DEF Parts
    <3> QED
      BY <2>1, <2>2, <3>1 DEF Channel!vars
  <2>4. CASE s # <<>>
    <3> DEFINE a == Ids(s)
               c == Ids(u)
               d == Ids(csv)
               e == Ids(csv')
               n == Len(s)
    <3>1. a \in Seq(Nat) /\ c \in Seq(Nat) /\ Len(a) = n /\ Len(c) = Len(u)
      BY IdsSeq
    <3>2. n \in Nat /\ n >= 1 /\ Len(u) \in Nat
      BY <2>4, EmptySeq, LenProperties
    <3>3. T = a ++ c /\ U = c /\ e = d ++ a
      BY <2>1, IdsCat DEF Parts
    <3> HIDE DEF a, c, d, e, n, T, U
    <3>4. Len(T) = n + Len(u)
      BY <3>1, <3>3, CatItems
    <3>5. SubSeq(T, 1, n) = a /\ SubSeq(T, n + 1, n + Len(u)) = c
      <4>1. /\ SubSeq(a ++ c, 1, Len(a)) = a
            /\ SubSeq(a ++ c, Len(a) + 1, Len(a) + Len(c)) = c
        BY <3>1, FrontAndBack
      <4> QED
        BY <3>1, <3>3, <4>1
    <3>6. n \in 1 .. Len(T)
      BY <3>2, <3>4
    <3>7. e = d \o SubSeq(T, 1, n) /\ U = SubSeq(T, n + 1, Len(T))
      BY <3>3, <3>4, <3>5 DEF ++
    <3>8. Channel!Deliver(n)
      BY <2>2, <3>7 DEF T, U, d, e, Channel!Deliver
    <3> QED
      BY <3>6, <3>8 DEF T, Channel!Next
  <2> QED
    BY <2>3, <2>4
<1>5. CASE Begins
  <2>1. Len(Ids(csv)) = Len(csv) /\ Ids(<<>>) = <<>>
    <3>1. <<>> \in Seq(Items) /\ Len(<<>>) = 0
      BY EmptyOut
    <3>2. Ids(<<>>) \in Seq(Nat) /\ Len(Ids(<<>>)) = 0
      BY <3>1, IdsSeq
    <3> QED
      BY <3>2, EmptySeq, IdsSeq DEF Parts
  <2> QED
    BY <1>5, <2>1 DEF Begins, Channel!Next, Channel!BeginAnew
<1> QED
  BY <1>1, <1>2, <1>3, <1>4, <1>5 DEF StepKind

\* Ingress, parser and worker together are an ordered channel that delivers at
\* most once and counts what it loses, through drops, kills and restarts.
THEOREM PipelineImplementsChannel == Spec => ImplementsChannel
<1>1. Init => Channel!Init
  <2> SUFFICES ASSUME Init PROVE Channel!Init
    OBVIOUS
  <2>1. Ids(<<>>) = <<>>
    <3>1. Ids(<<>>) \in Seq(Nat) /\ Len(Ids(<<>>)) = 0
      BY EmptyOut, IdsSeq
    <3> QED
      BY <3>1, EmptySeq
  <2>2. Transit = <<>> /\ csv = <<>> /\ errors + lost = 0 /\ arrived = 0
    BY EmptyOut, ConcatEmptySeq DEF Transit, Init, IngressInit, ParserInit, WorkerInit
  <2> QED
    BY <2>1, <2>2 DEF Channel!Init
<1>2. IInv /\ IInv' /\ [Next]_vars => [Channel!Next]_(Channel!vars)
  <2> SUFFICES ASSUME IInv, IInv', [Next]_vars PROVE Channel!Next \/ UNCHANGED Channel!vars
    OBVIOUS
  <2>1. Shape /\ HeaderOfFrame
    BY TypeOKShape DEF IInv
  <2>2. TypeOK' => Shape'
    BY TypeOKShape, PTL
  <2>3. Shape' => Parts'
    BY ShapeParts, PTL
  <2>4. Parts' /\ Parts /\ StepKind
    BY <2>1, <2>2, <2>3, ShapeParts, StepHasKind DEF IInv
  <2>5. arrived \in Nat /\ errors + lost \in Nat
    BY <2>1 DEF Shape
  <2> QED
    BY <2>4, <2>5, KindRefines
<1> QED
  BY <1>1, <1>2, Invariance, PTL DEF Spec, ImplementsChannel, Channel!Spec
================================================================================
