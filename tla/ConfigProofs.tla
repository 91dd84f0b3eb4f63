------------------------------ MODULE ConfigProofs ------------------------------
(***************************************************************************)
(* Proofs about Config for files of any length: what load_config leaves in *)
(* the settings, line after line.  The folds of the community modules are  *)
(* functions on the sets of positions; that they exist is proved here by   *)
(* least counterexample.                                                   *)
(***************************************************************************)
EXTENDS Config, WellFoundedInduction, TLAPS

--------------------------------------------------------------------------------
(* Induction and folds *)

LEMMA LeastElement ==
  ASSUME NEW T, T \subseteq Nat, T # {}
  PROVE  \E x \in T : \A y \in T : x <= y
<1> DEFINE R == OpToRel(<, Nat)
<1>1. IsWellFoundedOn(R, Nat)
  BY NatLessThanWellFounded
<1>2. \A x, y \in Nat : x < y => <<x, y>> \in R
  BY DEF OpToRel
<1> HIDE DEF R
<1>3. PICK x \in T : \A y \in T : ~ (<<y, x>> \in R)
  BY <1>1, WFMin
<1>4. ASSUME NEW y \in T PROVE x <= y
  <2>1. x \in Nat /\ y \in Nat /\ ~ (y < x)
    BY <1>2, <1>3
  <2> QED
    BY <2>1
<1> QED
  BY <1>4

LEMMA UpTo ==
  ASSUME NEW n \in Nat, NEW T, 0 \in T, \A k \in 0 .. n - 1 : k \in T => k + 1 \in T
  PROVE  \A k \in 0 .. n : k \in T
<1> SUFFICES ASSUME NEW m \in 0 .. n, m \notin T PROVE FALSE
  OBVIOUS
<1> DEFINE U == {k \in 0 .. n : k \notin T}
<1>1. PICK x \in U : \A y \in U : x <= y
  <2>1. U \subseteq Nat /\ U # {}
    OBVIOUS
  <2> HIDE DEF U
  <2> QED
    BY <2>1, LeastElement
<1>2. x # 0 /\ x - 1 \in 0 .. n - 1 /\ x - 1 \notin U
  BY <1>1
<1> QED
  BY <1>1, <1>2

LEMMA MaxIs ==
  ASSUME NEW S, S \subseteq Int, NEW m \in S, \A y \in S : m >= y
  PROVE  Max(S) = m
<1>1. \E x \in S : \A y \in S : x >= y
  OBVIOUS
<1>2. Max(S) \in S /\ \A y \in S : Max(S) >= y
  BY <1>1 DEF Max
<1>3. Max(S) \in Int /\ m \in Int /\ Max(S) >= m /\ m >= Max(S)
  BY <1>2
<1> QED
  BY <1>3

LEMMA MaxInside ==
  ASSUME NEW n \in Nat, NEW S \in SUBSET (1 .. n), S # {}
  PROVE  Max(S) \in S /\ \A y \in S : Max(S) >= y
<1> DEFINE T == {n - x : x \in S}
<1>1. PICK d \in T : \A y \in T : d <= y
  <2>1. T \subseteq Nat /\ T # {}
    OBVIOUS
  <2> HIDE DEF T
  <2> QED
    BY <2>1, LeastElement
<1>2. n - d \in S /\ \A y \in S : n - d >= y
  BY <1>1
<1>3. Max(S) = n - d
  <2>1. S \subseteq Int
    OBVIOUS
  <2> HIDE DEF T
  <2> QED
    BY <1>2, <2>1, MaxIs
<1> QED
  BY <1>2, <1>3

LEMMA MaxUpTo ==
  ASSUME NEW k \in Nat
  PROVE  Max(1 .. k + 1) = k + 1 /\ (1 .. k + 1) \ {k + 1} = 1 .. k
<1> DEFINE S == 1 .. k + 1
<1>1. S \subseteq Int /\ k + 1 \in S /\ \A y \in S : k + 1 >= y
  OBVIOUS
<1>2. (1 .. k + 1) \ {k + 1} = 1 .. k
  OBVIOUS
<1> HIDE DEF S
<1>3. Max(S) = k + 1
  BY <1>1, MaxIs
<1> QED
  BY <1>2, <1>3 DEF S

\* f gives for every set of positions what is left of base when G is applied for
\* each of them, the last position last.
IsFold(n, V, base, G, f) ==
  /\ f \in [SUBSET (1 .. n) -> V]
  /\ \A s \in SUBSET (1 .. n) :
       f[s] = IF s = {} THEN base ELSE G[Max(s)][f[s \ {Max(s)}]]

LEMMA FoldExists ==
  ASSUME NEW n \in Nat, NEW V, NEW base \in V, NEW G \in [1 .. n -> [V -> V]]
  PROVE  \E f : IsFold(n, V, base, G, f)
<1> DEFINE Folds(k, f) ==
             \A s \in SUBSET (1 .. k) :
               f[s] = IF s = {} THEN base ELSE G[Max(s)][f[s \ {Max(s)}]]
           T == {k \in 0 .. n : \E f \in [SUBSET (1 .. k) -> V] : Folds(k, f)}
<1>1. 0 \in T
  <2>1. SUBSET (1 .. 0) = {{}}
    OBVIOUS
  <2> DEFINE g == [s \in SUBSET (1 .. 0) |-> base]
  <2>2. g \in [SUBSET (1 .. 0) -> V]
    OBVIOUS
  <2>3. ASSUME NEW s \in SUBSET (1 .. 0) PROVE s = {} /\ g[s] = base
    BY <2>1
  <2> HIDE DEF g
  <2>4. Folds(0, g)
    BY <2>3
  <2>5. 0 \in 0 .. n
    OBVIOUS
  <2> HIDE DEF Folds
  <2> QED
    BY <2>2, <2>4, <2>5
<1>2. ASSUME NEW k \in 0 .. n - 1, k \in T PROVE k + 1 \in T
  <2>1. PICK f \in [SUBSET (1 .. k) -> V] : Folds(k, f)
    BY <1>2
  <2> DEFINE g == [s \in SUBSET (1 .. k + 1) |->
                     IF k + 1 \in s THEN G[k + 1][f[s \ {k + 1}]] ELSE f[s]]
  <2>2. ASSUME NEW s \in SUBSET (1 .. k + 1), k + 1 \in s
        PROVE  /\ s \ {k + 1} \in SUBSET (1 .. k) /\ Max(s) = k + 1
               /\ g[s] = G[k + 1][f[s \ {k + 1}]] /\ g[s \ {k + 1}] = f[s \ {k + 1}] /\ g[s] \in V
    <3>1. s \ {k + 1} \in SUBSET (1 .. k)
      OBVIOUS
    <3>2. Max(s) = k + 1
      <4>1. s \subseteq Int /\ \A y \in s : k + 1 >= y
        OBVIOUS
      <4> HIDE DEF g, T
      <4> QED
        BY <2>2, <4>1, MaxIs
    <3>3. g[s] = G[k + 1][f[s \ {k + 1}]] /\ g[s \ {k + 1}] = f[s \ {k + 1}]
      BY <2>2, <3>1
    <3>4. k + 1 \in 1 .. n /\ f[s \ {k + 1}] \in V
      BY <3>1
    <3> QED
      BY <3>1, <3>2, <3>3, <3>4
  <2>3. ASSUME NEW s \in SUBSET (1 .. k + 1), k + 1 \notin s
        PROVE  /\ s \in SUBSET (1 .. k) /\ g[s] = f[s] /\ g[s] \in V
               /\ g[s \ {Max(s)}] = f[s \ {Max(s)}]
    <3>1. s \subseteq 1 .. k
      BY <2>3
    <3> DEFINE m == s \ {Max(s)}
    <3>2. m \subseteq s
      OBVIOUS
    <3> HIDE DEF m
    <3>3. m \in SUBSET (1 .. k) /\ m \in SUBSET (1 .. k + 1) /\ k + 1 \notin m
      BY <2>3, <3>1, <3>2
    <3> QED
      BY <2>3, <3>1, <3>3 DEF m
  <2> HIDE DEF g
  <2>4. ASSUME NEW s \in SUBSET (1 .. k + 1)
        PROVE  g[s] = IF s = {} THEN base ELSE G[Max(s)][g[s \ {Max(s)}]]
    <3>1. CASE k + 1 \in s
      BY <2>2, <3>1
    <3>2. CASE k + 1 \notin s
      BY <2>1, <2>3, <3>2
    <3> QED
      BY <3>1, <3>2
  <2>5. g \in [SUBSET (1 .. k + 1) -> V]
    <3>1. \A s \in SUBSET (1 .. k + 1) : g[s] \in V
      BY <2>2, <2>3
    <3> QED
      BY <3>1 DEF g
  <2>6. k + 1 \in 0 .. n
    OBVIOUS
  <2> QED
    BY <2>4, <2>5, <2>6
<1> HIDE DEF T
<1>3. \A k \in 0 .. n : k \in T
  BY <1>1, <1>2, UpTo
<1>4. n \in T
  BY <1>3
<1> HIDE DEF Folds
<1>5. PICK f \in [SUBSET (1 .. n) -> V] : Folds(n, f)
  BY <1>4 DEF T
<1> QED
  BY <1>5 DEF Folds, IsFold

--------------------------------------------------------------------------------
(* load_config *)

\* Settings and lines of a file.
Configs == [bind_address : Int, port : 0 .. PortMod - 1, tsc_hz : Int, sleep_us : Int,
            ring_slots : Int, ring_elem_size : Int, flush_interval_ms : Int,
            csv_output : Int, ring_name : Int]

Keys == {"bind_address", "port", "tsc_hz", "sleep_us", "ring_slots", "ring_elem_size",
         "flush_interval_ms", "csv_output", "ring_name"}

LEMMA DefaultsTyped == Defaults \in Configs /\ DOMAIN Defaults = Keys
BY ConfigAssumption DEF Defaults, Configs, Keys, Loopback

LEMMA ApplyTyped ==
  ASSUME NEW config \in Configs, NEW line \in Lines
  PROVE  /\ ApplyLine(config, line) \in Configs
         /\ \A key \in Keys :
              ApplyLine(config, line)[key] =
                IF line.key = key /\ Takes(key, line.text) THEN line.text.n ELSE config[key]
<1>1. CASE ~Takes(line.key, line.text)
  BY <1>1 DEF ApplyLine
<1>2. CASE Takes(line.key, line.text)
  <2>1. line.key \in Keys
    BY <1>2 DEF Takes, Keys
  <2>2. line.key = "port" => line.text.n \in 0 .. PortMod - 1
    BY <1>2 DEF Takes, ValidPort
  <2>3. ApplyLine(config, line) = [config EXCEPT ![line.key] = line.text.n]
    BY <1>2 DEF ApplyLine
  <2>4. line.text.n \in Int
    BY DEF Lines, Texts
  <2> HIDE DEF Keys
  <2>5. DOMAIN config = Keys
    BY DEF Configs, Keys
  <2>6. \A key \in Keys :
          ApplyLine(config, line)[key] = IF line.key = key THEN line.text.n ELSE config[key]
    BY <2>1, <2>3, <2>5
  <2>7. ApplyLine(config, line) \in Configs
    BY <2>1, <2>2, <2>3, <2>4 DEF Configs, Keys
  <2> QED
    BY <1>2, <2>6, <2>7
<1> QED
  BY <1>1, <1>2

\* The settings after each line of a file.
LEMMA LoadSteps ==
  ASSUME NEW config \in Configs, NEW file, file.lines \in Seq(Lines)
  PROVE  \E c \in [0 .. Len(file.lines) -> Configs] :
           /\ c[0] = config
           /\ \A k \in 0 .. Len(file.lines) - 1 : c[k + 1] = ApplyLine(c[k], file.lines[k + 1])
           /\ LoadConfig(file, config) = c[Len(file.lines)]
<1> DEFINE lines == file.lines
           n == Len(lines)
           Steps(f) ==
             f = [s \in SUBSET (1 .. n) |->
                    IF s = {} THEN config ELSE ApplyLine(f[s \ {Max(s)}], lines[Max(s)])]
           fold == CHOOSE f : Steps(f)
           c == [k \in 0 .. n |-> fold[1 .. k]]
<1>1. n \in Nat /\ DOMAIN lines = 1 .. n /\ \A i \in 1 .. n : lines[i] \in Lines
  OBVIOUS
<1>2. LoadConfig(file, config) = fold[1 .. n]
  BY <1>1 DEF LoadConfig, FoldLeft, MapThenFoldSet
<1>3. \E f : Steps(f)
  <2> DEFINE G == [i \in 1 .. n |-> [v \in Configs |-> ApplyLine(v, lines[i])]]
  <2>1. G \in [1 .. n -> [Configs -> Configs]]
    BY <1>1, ApplyTyped
  <2> HIDE DEF n
  <2>2. PICK f : IsFold(n, Configs, config, G, f)
    <3> HIDE DEF G, fold, c
    <3> QED
      BY <1>1, <2>1, FoldExists
  <2>3. ASSUME NEW s \in SUBSET (1 .. n), s # {}
        PROVE  f[s] = ApplyLine(f[s \ {Max(s)}], lines[Max(s)])
    <3>1. Max(s) \in 1 .. n /\ s \ {Max(s)} \in SUBSET (1 .. n)
      BY <1>1, <2>3, MaxInside
    <3> QED
      BY <2>2, <2>3, <3>1 DEF IsFold
  <2>4. Steps(f)
    BY <2>2, <2>3 DEF IsFold
  <2> QED
    BY <2>4
<1> HIDE DEF n
<1>4. Steps(fold)
  BY <1>3
<1> HIDE DEF fold
<1>5. fold[1 .. 0] = config
  BY <1>1, <1>4
<1>6. ASSUME NEW k \in 0 .. n - 1
      PROVE  fold[1 .. k + 1] = ApplyLine(fold[1 .. k], lines[k + 1])
  <2> DEFINE s == 1 .. k + 1
  <2>1. s \in SUBSET (1 .. n) /\ s # {} /\ k \in Nat
    <3>1. k + 1 <= n /\ k \in Nat /\ n \in Nat /\ k + 1 \in s
      BY <1>1
    <3>2. \A i \in s : i \in 1 .. n
      BY <3>1
    <3> HIDE DEF s
    <3> QED
      BY <3>1, <3>2
  <2>2. Max(s) = k + 1 /\ s \ {k + 1} = 1 .. k
    BY <2>1, MaxUpTo
  <2> HIDE DEF s
  <2>3. fold[s] = ApplyLine(fold[s \ {Max(s)}], lines[Max(s)])
    BY <1>4, <2>1
  <2> QED
    BY <2>2, <2>3 DEF s
<1>7. \A k \in 0 .. n : c[k] \in Configs
  <2> DEFINE T == {k \in 0 .. n : fold[1 .. k] \in Configs}
  <2>1. 0 \in T
    BY <1>1, <1>5
  <2>2. ASSUME NEW k \in 0 .. n - 1, k \in T PROVE k + 1 \in T
    BY <1>1, <1>6, <2>2, ApplyTyped
  <2> HIDE DEF T
  <2>3. \A k \in 0 .. n : k \in T
    BY <1>1, <2>1, <2>2, UpTo
  <2> QED
    BY <2>3 DEF T
<1>8. c \in [0 .. n -> Configs] /\ c[0] = config /\ c[n] = LoadConfig(file, config)
  BY <1>1, <1>2, <1>5, <1>7
<1>9. \A k \in 0 .. n - 1 : c[k + 1] = ApplyLine(c[k], lines[k + 1])
  BY <1>1, <1>6
<1> HIDE DEF c
<1> QED
  BY <1>8, <1>9 DEF n

\* What stands under a key after the first k lines.
SaysUpTo(lines, key, default, k, value) ==
  \/ /\ \A i \in 1 .. k : ~(lines[i].key = key /\ Takes(key, lines[i].text))
     /\ value = default
  \/ \E j \in 1 .. k :
       /\ lines[j].key = key /\ Takes(key, lines[j].text)
       /\ \A i \in j + 1 .. k : ~(lines[i].key = key /\ Takes(key, lines[i].text))
       /\ value = lines[j].text.n

LEMMA SaysMore ==
  ASSUME NEW lines \in Seq(Lines), NEW config \in Configs, NEW key \in Keys, NEW default,
         NEW k \in 0 .. Len(lines) - 1, SaysUpTo(lines, key, default, k, config[key])
  PROVE  SaysUpTo(lines, key, default, k + 1, ApplyLine(config, lines[k + 1])[key])
<1> DEFINE Valid(i) == lines[i].key = key /\ Takes(key, lines[i].text)
           next == ApplyLine(config, lines[k + 1])[key]
<1>1. lines[k + 1] \in Lines /\ k \in Nat /\ k + 1 \in 1 .. k + 1
  OBVIOUS
<1>2. next = IF Valid(k + 1) THEN lines[k + 1].text.n ELSE config[key]
  BY <1>1, ApplyTyped
<1> HIDE DEF next
<1>3. CASE Valid(k + 1)
  <2>1. \A i \in k + 1 + 1 .. k + 1 : FALSE
    BY <1>1
  <2> QED
    BY <1>1, <1>2, <1>3, <2>1 DEF SaysUpTo, next
<1>4. CASE ~Valid(k + 1)
  <2>1. next = config[key]
    BY <1>2, <1>4
  <2>2. CASE (\A i \in 1 .. k : ~Valid(i)) /\ config[key] = default
    <3>1. ASSUME NEW i \in 1 .. k + 1 PROVE ~Valid(i)
      <4>1. i = k + 1 \/ i \in 1 .. k
        BY <1>1
      <4> QED
        BY <1>4, <2>2, <4>1
    <3> HIDE DEF Valid
    <3> QED
      BY <2>1, <2>2, <3>1 DEF SaysUpTo, next, Valid
  <2>3. ASSUME NEW j \in 1 .. k, Valid(j), \A i \in j + 1 .. k : ~Valid(i),
               config[key] = lines[j].text.n
        PROVE  SaysUpTo(lines, key, default, k + 1, next)
    <3>1. ASSUME NEW i \in j + 1 .. k + 1 PROVE ~Valid(i)
      <4>1. i = k + 1 \/ i \in j + 1 .. k
        BY <1>1
      <4> QED
        BY <1>4, <2>3, <4>1
    <3>2. j \in 1 .. k + 1
      BY <1>1
    <3> QED
      BY <2>1, <2>3, <3>1, <3>2 DEF SaysUpTo
  <2> QED
    BY <2>2, <2>3 DEF SaysUpTo, next
<1> QED
  BY <1>3, <1>4

LEMMA SaysLast ==
  ASSUME NEW file, file.lines \in Seq(Lines), NEW key, NEW default, NEW value,
         SaysUpTo(file.lines, key, default, Len(file.lines), value)
  PROVE  value = LastValid(file, key, default)
<1> DEFINE lines == file.lines
           n == Len(lines)
           Valid(i) == lines[i].key = key /\ Takes(key, lines[i].text)
           I == {i \in 1 .. n : Valid(i)}
           last == IF I # {} THEN Max(I) ELSE 0
<1>1. LastValid(file, key, default) = IF last = 0 THEN default ELSE lines[last].text.n
  BY DEF LastValid, SelectLastInSeq
<1>2. n \in Nat /\ I \subseteq Int
  OBVIOUS
<1>3. CASE (\A i \in 1 .. n : ~Valid(i)) /\ value = default
  BY <1>1, <1>3
<1>4. ASSUME NEW j \in 1 .. n, Valid(j), \A i \in j + 1 .. n : ~Valid(i),
             value = lines[j].text.n
      PROVE  value = LastValid(file, key, default)
  <2>1. j \in I /\ j \in Nat /\ j # 0
    BY <1>4
  <2>2. ASSUME NEW i \in I PROVE j >= i
    <3>1. i \in 1 .. n /\ i \notin j + 1 .. n
      BY <1>4
    <3> QED
      BY <1>2, <3>1
  <2> HIDE DEF I
  <2>3. Max(I) = j
    BY <1>2, <2>1, <2>2, MaxIs
  <2> QED
    BY <1>1, <1>4, <2>1, <2>3
<1> QED
  BY <1>3, <1>4 DEF SaysUpTo

\* However long the file and whatever stands in its other lines: a setting has
\* the value of the last valid line of its key, or what it had before
\* (config.cpp:32-104).
THEOREM LastValidLineDecides ==
  ASSUME NEW config \in Configs, NEW file, file.lines \in Seq(Lines), NEW key \in Keys
  PROVE  /\ LoadConfig(file, config) \in Configs
         /\ LoadConfig(file, config)[key] = LastValid(file, key, config[key])
<1> DEFINE lines == file.lines
           n == Len(lines)
<1>1. PICK c \in [0 .. n -> Configs] :
        /\ c[0] = config
        /\ \A k \in 0 .. n - 1 : c[k + 1] = ApplyLine(c[k], lines[k + 1])
        /\ LoadConfig(file, config) = c[n]
  BY LoadSteps
<1> DEFINE T == {k \in 0 .. n : SaysUpTo(lines, key, config[key], k, c[k][key])}
<1>2. n \in Nat
  OBVIOUS
<1> HIDE DEF n
<1>3. 0 \in T
  BY <1>1, <1>2 DEF SaysUpTo
<1>4. ASSUME NEW k \in 0 .. n - 1, k \in T PROVE k + 1 \in T
  <2>1. k \in 0 .. n /\ k + 1 \in 0 .. n /\ c[k] \in Configs
    BY <1>2
  <2>2. SaysUpTo(lines, key, config[key], k + 1, ApplyLine(c[k], lines[k + 1])[key])
    BY <1>4, <2>1, SaysMore DEF n
  <2> QED
    BY <1>1, <2>1, <2>2
<1> HIDE DEF T
<1>5. \A k \in 0 .. n : k \in T
  BY <1>2, <1>3, <1>4, UpTo
<1>6. SaysUpTo(lines, key, config[key], n, c[n][key])
  BY <1>2, <1>5 DEF T
<1>7. c[n][key] = LastValid(file, key, config[key])
  BY <1>6, SaysLast DEF n
<1> QED
  BY <1>1, <1>2, <1>7
================================================================================
