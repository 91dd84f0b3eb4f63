-------------------------------- MODULE FeedProofs --------------------------------
(***************************************************************************)
(* Proofs about Feed for options and files of any length, any rate and     *)
(* burst, and any number of datagrams and of starts of ingress.            *)
(***************************************************************************)
EXTENDS Feed, ConfigProofs

--------------------------------------------------------------------------------
(* The options, one after the other *)

SimSetup == [config : Configs, qps : Int, burst : Int, ok : BOOLEAN]
IngSetup == [config : Configs, ok : BOOLEAN]

\* Whether an option says something of the port, and what.
Speaks(option) ==
  \/ option.name = "port"
  \/ option.name = "config" /\ LastValid(file, "port", 0) # 0
Says(option) ==
  IF option.name = "port" THEN option.text.n % PortMod ELSE LastValid(file, "port", 0)

LEMMA FileTyped ==
  ASSUME file \in Files
  PROVE  file.readable \in BOOLEAN /\ file.lines \in Seq(Lines)
BY FeedAssumption

\* A valid port is not 0, so that 0 tells that there is none.
LEMMA PortOfFile ==
  ASSUME file \in Files, NEW config \in Configs
  PROVE  /\ LoadConfig(file, config) \in Configs
         /\ LoadConfig(file, config).port =
              IF LastValid(file, "port", 0) # 0 THEN LastValid(file, "port", 0) ELSE config.port
<1>1. "port" \in Keys
  BY DEF Keys
<1>2. /\ LoadConfig(file, config) \in Configs
      /\ LoadConfig(file, config).port = LastValid(file, "port", config.port)
  BY <1>1, FileTyped, LastValidLineDecides
<1> DEFINE lines == file.lines
           Valid(i) == lines[i].key = "port" /\ Takes("port", lines[i].text)
           I == {i \in 1 .. Len(lines) : Valid(i)}
           last == IF I # {} THEN Max(I) ELSE 0
<1>3. \A default : LastValid(file, "port", default) = IF last = 0 THEN default ELSE lines[last].text.n
  BY DEF LastValid, SelectLastInSeq
<1>4. last = 0 \/ last \in I
  <2>1. Len(lines) \in Nat /\ I \in SUBSET (1 .. Len(lines))
    BY FileTyped
  <2> HIDE DEF I
  <2> QED
    BY <2>1, MaxInside
<1> HIDE DEF last
<1>5. last # 0 => lines[last].text.n # 0
  <2>1. last # 0 => ValidPort(lines[last].text)
    BY <1>4 DEF Takes
  <2> QED
    BY <2>1 DEF ValidPort
<1> QED
  BY <1>2, <1>3, <1>5

LEMMA SimOptionStep ==
  ASSUME file \in Files, NEW s \in SimSetup, NEW option \in SimOptions
  PROVE  /\ SimOption(s, option) \in SimSetup
         /\ SimOption(s, option).ok =>
              /\ s.ok
              /\ SimOption(s, option).config.port =
                   IF Speaks(option) THEN Says(option) ELSE s.config.port
<1> DEFINE t == SimOption(s, option)
<1>0. /\ s.config \in Configs /\ s.ok \in BOOLEAN /\ option.text.n \in Int
      /\ option.name \in {"config", "port", "qps", "burst"}
      /\ file.readable \in BOOLEAN
  BY FileTyped DEF SimSetup, SimOptions, Texts
<1>1. CASE ~s.ok
  <2>1. t = s
    BY <1>1 DEF SimOption
  <2> QED
    BY <1>1, <2>1
<1>2. CASE s.ok /\ option.name = "config" /\ ~file.readable
  <2>1. t = [s EXCEPT !.ok = FALSE]
    BY <1>2 DEF SimOption
  <2> QED
    BY <2>1 DEF SimSetup
<1>3. CASE s.ok /\ option.name = "config" /\ file.readable
  <2>1. t = [s EXCEPT !.config = LoadConfig(file, s.config)]
    BY <1>3 DEF SimOption
  <2>2. t.config = LoadConfig(file, s.config) /\ t \in SimSetup
    BY <1>0, <2>1, PortOfFile DEF SimSetup
  <2> QED
    BY <1>0, <1>3, <2>2, PortOfFile DEF Speaks, Says
<1>4. CASE s.ok /\ option.name = "port"
  <2>1. t = [s EXCEPT !.config.port = option.text.n % PortMod]
    BY <1>4 DEF SimOption
  <2>2. option.text.n % PortMod \in 0 .. PortMod - 1
    BY <1>0, ConfigAssumption
  <2>3. t \in SimSetup /\ t.config.port = option.text.n % PortMod
    BY <1>0, <2>1, <2>2 DEF SimSetup, Configs
  <2>4. Speaks(option) /\ Says(option) = option.text.n % PortMod
    BY <1>4 DEF Speaks, Says
  <2> HIDE DEF t
  <2> QED
    BY <1>4, <2>3, <2>4 DEF t
<1>5. CASE s.ok /\ option.name \in {"qps", "burst"}
  <2>1. t \in {[s EXCEPT !.qps = option.text.n], [s EXCEPT !.burst = option.text.n]}
    BY <1>5 DEF SimOption
  <2>2. t \in SimSetup /\ t.config = s.config
    BY <1>0, <2>1 DEF SimSetup
  <2> QED
    BY <1>5, <2>2 DEF Speaks
<1> QED
  BY <1>0, <1>1, <1>2, <1>3, <1>4, <1>5

LEMMA IngOptionStep ==
  ASSUME file \in Files, NEW s \in IngSetup, NEW option \in IngOptions
  PROVE  /\ IngOption(s, option) \in IngSetup
         /\ IngOption(s, option).ok =>
              /\ s.ok
              /\ IngOption(s, option).config.port =
                   IF Speaks(option) THEN Says(option) ELSE s.config.port
<1> DEFINE t == IngOption(s, option)
<1>0. /\ s.config \in Configs /\ s.ok \in BOOLEAN /\ option.text.n \in Int
      /\ option.name \in {"config", "port", "tsc_hz"}
      /\ file.readable \in BOOLEAN
  BY FileTyped DEF IngSetup, IngOptions, Texts
<1>1. CASE ~s.ok
  <2>1. t = s
    BY <1>1 DEF IngOption
  <2> QED
    BY <1>1, <2>1
<1>2. CASE /\ s.ok
           /\ \/ option.name = "config" /\ ~file.readable
              \/ option.name = "port" /\ ~ValidPort(option.text)
  <2>1. t = [s EXCEPT !.ok = FALSE]
    BY <1>2 DEF IngOption
  <2> QED
    BY <2>1 DEF IngSetup
<1>3. CASE s.ok /\ option.name = "config" /\ file.readable
  <2>1. t = [s EXCEPT !.config = LoadConfig(file, s.config)]
    BY <1>3 DEF IngOption
  <2>2. t.config = LoadConfig(file, s.config) /\ t \in IngSetup
    BY <1>0, <2>1, PortOfFile DEF IngSetup
  <2> QED
    BY <1>0, <1>3, <2>2, PortOfFile DEF Speaks, Says
<1>4. CASE s.ok /\ option.name = "port" /\ ValidPort(option.text)
  <2>1. t = [s EXCEPT !.config.port = option.text.n]
    BY <1>4 DEF IngOption
  <2>2. option.text.n \in 1 .. PortMod - 1
    BY <1>4 DEF ValidPort
  <2>3. option.text.n % PortMod = option.text.n
    BY <2>2, ConfigAssumption
  <2>4. t \in IngSetup /\ t.config.port = option.text.n
    BY <1>0, <2>1, <2>2, ConfigAssumption DEF IngSetup, Configs
  <2>5. Speaks(option) /\ Says(option) = option.text.n
    BY <1>4, <2>3 DEF Speaks, Says
  <2> HIDE DEF t
  <2> QED
    BY <1>4, <2>4, <2>5 DEF t
<1>5. CASE s.ok /\ option.name = "tsc_hz"
  <2>1. t = [s EXCEPT !.config.tsc_hz = option.text.n]
    BY <1>5 DEF IngOption
  <2>2. t \in IngSetup /\ t.config.port = s.config.port
    BY <1>0, <2>1 DEF IngSetup, Configs
  <2> QED
    BY <1>5, <2>2 DEF Speaks
<1> QED
  BY <1>0, <1>1, <1>2, <1>3, <1>4, <1>5

\* The settings after each option of the simulator.
LEMMA SimSteps ==
  ASSUME file \in Files, NEW args \in Seq(SimOptions)
  PROVE  \E c \in [0 .. Len(args) -> SimSetup] :
           /\ c[0] = SimDefaults
           /\ \A k \in 0 .. Len(args) - 1 : c[k + 1] = SimOption(c[k], args[k + 1])
           /\ SimSettings(args) = c[Len(args)]
<1> DEFINE n == Len(args)
           Steps(f) ==
             f = [s \in SUBSET (1 .. n) |->
                    IF s = {} THEN SimDefaults ELSE SimOption(f[s \ {Max(s)}], args[Max(s)])]
           fold == CHOOSE f : Steps(f)
           c == [k \in 0 .. n |-> fold[1 .. k]]
<1>0. SimDefaults \in SimSetup
  BY DefaultsTyped DEF SimDefaults, SimSetup
<1>1. n \in Nat /\ DOMAIN args = 1 .. n /\ \A i \in 1 .. n : args[i] \in SimOptions
  OBVIOUS
<1>2. SimSettings(args) = fold[1 .. n]
  BY <1>1 DEF SimSettings, FoldLeft, MapThenFoldSet
<1>3. \E f : Steps(f)
  <2> DEFINE G == [i \in 1 .. n |-> [v \in SimSetup |-> SimOption(v, args[i])]]
  <2>1. G \in [1 .. n -> [SimSetup -> SimSetup]]
    BY <1>1, SimOptionStep
  <2> HIDE DEF n
  <2>2. PICK f : IsFold(n, SimSetup, SimDefaults, G, f)
    <3> HIDE DEF G, fold, c
    <3> QED
      BY <1>0, <1>1, <2>1, FoldExists
  <2>3. ASSUME NEW s \in SUBSET (1 .. n), s # {}
        PROVE  f[s] = SimOption(f[s \ {Max(s)}], args[Max(s)])
    <3>1. Max(s) \in 1 .. n /\ s \ {Max(s)} \in SUBSET (1 .. n)
      BY <1>1, <2>3, MaxInside
    <3> QED
      BY <2>2, <2>3, <3>1 DEF IsFold
  <2>4. Steps(f)
    BY <2>2, <2>3 DEF IsFold
  <2> QED
    BY <2>4
<1> HIDE DEF n
<1>4. Steps(fold)
  BY <1>3
<1> HIDE DEF fold
<1>5. fold[1 .. 0] = SimDefaults
  BY <1>1, <1>4
<1>6. ASSUME NEW k \in 0 .. n - 1
      PROVE  fold[1 .. k + 1] = SimOption(fold[1 .. k], args[k + 1])
  <2> DEFINE s == 1 .. k + 1
  <2>1. s \in SUBSET (1 .. n) /\ s # {} /\ k \in Nat
    <3>1. k + 1 <= n /\ k \in Nat /\ n \in Nat /\ k + 1 \in s
      BY <1>1
    <3>2. \A i \in s : i \in 1 .. n
      BY <3>1
    <3> HIDE DEF s
    <3> QED
      BY <3>1, <3>2
  <2>2. Max(s) = k + 1 /\ s \ {k + 1} = 1 .. k
    BY <2>1, MaxUpTo
  <2> HIDE DEF s
  <2>3. fold[s] = SimOption(fold[s \ {Max(s)}], args[Max(s)])
    BY <1>4, <2>1
  <2> QED
    BY <2>2, <2>3 DEF s
<1>7. \A k \in 0 .. n : c[k] \in SimSetup
  <2> DEFINE T == {k \in 0 .. n : fold[1 .. k] \in SimSetup}
  <2>1. 0 \in T
    BY <1>0, <1>1, <1>5
  <2>2. ASSUME NEW k \in 0 .. n - 1, k \in T PROVE k + 1 \in T
    BY <1>1, <1>6, <2>2, SimOptionStep
  <2> HIDE DEF T
  <2>3. \A k \in 0 .. n : k \in T
    BY <1>1, <2>1, <2>2, UpTo
  <2> QED
    BY <2>3 DEF T
<1>8. c \in [0 .. n -> SimSetup] /\ c[0] = SimDefaults /\ c[n] = SimSettings(args)
  BY <1>1, <1>2, <1>5, <1>7
<1>9. \A k \in 0 .. n - 1 : c[k + 1] = SimOption(c[k], args[k + 1])
  BY <1>1, <1>6
<1> HIDE DEF c
<1> QED
  BY <1>8, <1>9 DEF n

\* The settings after each option of ingress.
LEMMA IngSteps ==
  ASSUME file \in Files, NEW args \in Seq(IngOptions)
  PROVE  \E c \in [0 .. Len(args) -> IngSetup] :
           /\ c[0] = IngDefaults
           /\ \A k \in 0 .. Len(args) - 1 : c[k + 1] = IngOption(c[k], args[k + 1])
           /\ IngSettings(args) = c[Len(args)]
<1> DEFINE n == Len(args)
           Steps(f) ==
             f = [s \in SUBSET (1 .. n) |->
                    IF s = {} THEN IngDefaults ELSE IngOption(f[s \ {Max(s)}], args[Max(s)])]
           fold == CHOOSE f : Steps(f)
           c == [k \in 0 .. n |-> fold[1 .. k]]
<1>0. IngDefaults \in IngSetup
  BY DefaultsTyped DEF IngDefaults, IngSetup
<1>1. n \in Nat /\ DOMAIN args = 1 .. n /\ \A i \in 1 .. n : args[i] \in IngOptions
  OBVIOUS
<1>2. IngSettings(args) = fold[1 .. n]
  BY <1>1 DEF IngSettings, FoldLeft, MapThenFoldSet
<1>3. \E f : Steps(f)
  <2> DEFINE G == [i \in 1 .. n |-> [v \in IngSetup |-> IngOption(v, args[i])]]
  <2>1. G \in [1 .. n -> [IngSetup -> IngSetup]]
    BY <1>1, IngOptionStep
  <2> HIDE DEF n
  <2>2. PICK f : IsFold(n, IngSetup, IngDefaults, G, f)
    <3> HIDE DEF G, fold, c
    <3> QED
      BY <1>0, <1>1, <2>1, FoldExists
  <2>3. ASSUME NEW s \in SUBSET (1 .. n), s # {}
        PROVE  f[s] = IngOption(f[s \ {Max(s)}], args[Max(s)])
    <3>1. Max(s) \in 1 .. n /\ s \ {Max(s)} \in SUBSET (1 .. n)
      BY <1>1, <2>3, MaxInside
    <3> QED
      BY <2>2, <2>3, <3>1 DEF IsFold
  <2>4. Steps(f)
    BY <2>2, <2>3 DEF IsFold
  <2> QED
    BY <2>4
<1> HIDE DEF n
<1>4. Steps(fold)
  BY <1>3
<1> HIDE DEF fold
<1>5. fold[1 .. 0] = IngDefaults
  BY <1>1, <1>4
<1>6. ASSUME NEW k \in 0 .. n - 1
      PROVE  fold[1 .. k + 1] = IngOption(fold[1 .. k], args[k + 1])
  <2> DEFINE s == 1 .. k + 1
  <2>1. s \in SUBSET (1 .. n) /\ s # {} /\ k \in Nat
    <3>1. k + 1 <= n /\ k \in Nat /\ n \in Nat /\ k + 1 \in s
      BY <1>1
    <3>2. \A i \in s : i \in 1 .. n
      BY <3>1
    <3> HIDE DEF s
    <3> QED
      BY <3>1, <3>2
  <2>2. Max(s) = k + 1 /\ s \ {k + 1} = 1 .. k
    BY <2>1, MaxUpTo
  <2> HIDE DEF s
  <2>3. fold[s] = IngOption(fold[s \ {Max(s)}], args[Max(s)])
    BY <1>4, <2>1
  <2> QED
    BY <2>2, <2>3 DEF s
<1>7. \A k \in 0 .. n : c[k] \in IngSetup
  <2> DEFINE T == {k \in 0 .. n : fold[1 .. k] \in IngSetup}
  <2>1. 0 \in T
    BY <1>0, <1>1, <1>5
  <2>2. ASSUME NEW k \in 0 .. n - 1, k \in T PROVE k + 1 \in T
    BY <1>1, <1>6, <2>2, IngOptionStep
  <2> HIDE DEF T
  <2>3. \A k \in 0 .. n : k \in T
    BY <1>1, <2>1, <2>2, UpTo
  <2> QED
    BY <2>3 DEF T
<1>8. c \in [0 .. n -> IngSetup] /\ c[0] = IngDefaults /\ c[n] = IngSettings(args)
  BY <1>1, <1>2, <1>5, <1>7
<1>9. \A k \in 0 .. n - 1 : c[k + 1] = IngOption(c[k], args[k + 1])
  BY <1>1, <1>6
<1> HIDE DEF c
<1> QED
  BY <1>8, <1>9 DEF n
--------------------------------------------------------------------------------
(* The port a program was told *)

\* What the first k options say of the port.
ToldUpTo(args, k, port) ==
  \/ (\A i \in 1 .. k : ~Speaks(args[i])) /\ port = Defaults.port
  \/ \E j \in 1 .. k :
       /\ Speaks(args[j])
       /\ \A i \in j + 1 .. k : ~Speaks(args[i])
       /\ port = Says(args[j])

LEMMA ToldMore ==
  ASSUME NEW args, NEW k \in Nat, NEW port, ToldUpTo(args, k, port)
  PROVE  ToldUpTo(args, k + 1, IF Speaks(args[k + 1]) THEN Says(args[k + 1]) ELSE port)
<1>1. k + 1 \in 1 .. k + 1 /\ k + 1 \in Nat
  OBVIOUS
<1>2. CASE Speaks(args[k + 1])
  <2>1. \A i \in k + 1 + 1 .. k + 1 : FALSE
    BY <1>1
  <2> QED
    BY <1>1, <1>2, <2>1 DEF ToldUpTo
<1>3. CASE ~Speaks(args[k + 1])
  <2>1. CASE (\A i \in 1 .. k : ~Speaks(args[i])) /\ port = Defaults.port
    <3>1. ASSUME NEW i \in 1 .. k + 1 PROVE ~Speaks(args[i])
      <4>1. i = k + 1 \/ i \in 1 .. k
        OBVIOUS
      <4> QED
        BY <1>3, <2>1, <4>1
    <3> QED
      BY <1>3, <2>1, <3>1 DEF ToldUpTo
  <2>2. ASSUME NEW j \in 1 .. k, Speaks(args[j]), \A i \in j + 1 .. k : ~Speaks(args[i]),
               port = Says(args[j])
        PROVE  ToldUpTo(args, k + 1, port)
    <3>1. ASSUME NEW i \in j + 1 .. k + 1 PROVE ~Speaks(args[i])
      <4>1. i = k + 1 \/ i \in j + 1 .. k
        OBVIOUS
      <4> QED
        BY <1>3, <2>2, <4>1
    <3>2. j \in 1 .. k + 1
      OBVIOUS
    <3> QED
      BY <2>2, <3>1, <3>2 DEF ToldUpTo
  <2> QED
    BY <1>3, <2>1, <2>2 DEF ToldUpTo
<1> QED
  BY <1>2, <1>3

LEMMA ToldLast ==
  ASSUME NEW S, NEW args \in Seq(S), NEW port, ToldUpTo(args, Len(args), port)
  PROVE  port = Told(file, args)
<1> DEFINE n == Len(args)
           I == {i \in 1 .. n : Speaks(args[i])}
           last == IF I # {} THEN Max(I) ELSE 0
<1>1. Told(file, args) = IF last = 0 THEN Defaults.port ELSE Says(args[last])
  BY DEF Told, SelectLastInSeq, Speaks, Says
<1>2. n \in Nat /\ I \subseteq Int
  OBVIOUS
<1>3. CASE (\A i \in 1 .. n : ~Speaks(args[i])) /\ port = Defaults.port
  BY <1>1, <1>3
<1>4. ASSUME NEW j \in 1 .. n, Speaks(args[j]), \A i \in j + 1 .. n : ~Speaks(args[i]),
             port = Says(args[j])
      PROVE  port = Told(file, args)
  <2>1. j \in I /\ j \in Nat /\ j # 0
    BY <1>4
  <2>2. ASSUME NEW i \in I PROVE j >= i
    <3>1. i \in 1 .. n /\ i \notin j + 1 .. n
      BY <1>4
    <3> QED
      BY <1>2, <3>1
  <2> HIDE DEF I
  <2>3. Max(I) = j
    BY <1>2, <2>1, <2>2, MaxIs
  <2> QED
    BY <1>1, <1>4, <2>1, <2>3
<1> QED
  BY <1>3, <1>4 DEF ToldUpTo

\* The port in settings c[0], c[1], ... that follow the options one by one.
PortFollows(args, c) ==
  /\ c[0].config.port = Defaults.port
  /\ \A k \in 0 .. Len(args) - 1 :
       c[k + 1].ok =>
         /\ c[k].ok
         /\ c[k + 1].config.port =
              IF Speaks(args[k + 1]) THEN Says(args[k + 1]) ELSE c[k].config.port

\* Such settings end with the port told last.
LEMMA PortChain ==
  ASSUME NEW S, NEW args \in Seq(S), NEW c, PortFollows(args, c), c[Len(args)].ok
  PROVE  c[Len(args)].config.port = Told(file, args)
<1> DEFINE n == Len(args)
           T == {k \in 0 .. n : c[k].ok => ToldUpTo(args, k, c[k].config.port)}
<1>1. n \in Nat
  OBVIOUS
<1> HIDE DEF n
<1>2. 0 \in T
  BY <1>1 DEF ToldUpTo, PortFollows
<1>3. ASSUME NEW k \in 0 .. n - 1, k \in T PROVE k + 1 \in T
  <2>1. k \in Nat /\ k + 1 \in 0 .. n
    BY <1>1
  <2>2. ASSUME c[k + 1].ok PROVE ToldUpTo(args, k + 1, c[k + 1].config.port)
    <3>1. /\ ToldUpTo(args, k, c[k].config.port)
          /\ c[k + 1].config.port =
               IF Speaks(args[k + 1]) THEN Says(args[k + 1]) ELSE c[k].config.port
      BY <1>3, <2>2 DEF n, PortFollows
    <3>2. ToldUpTo(args, k + 1,
                   IF Speaks(args[k + 1]) THEN Says(args[k + 1]) ELSE c[k].config.port)
      BY <2>1, <3>1, ToldMore
    <3> QED
      BY <3>1, <3>2
  <2> QED
    BY <2>1, <2>2
<1> HIDE DEF T
<1>4. \A k \in 0 .. n : k \in T
  BY <1>1, <1>2, <1>3, UpTo
<1>5. ToldUpTo(args, n, c[n].config.port)
  BY <1>1, <1>4 DEF T, n
<1> QED
  BY <1>5, ToldLast DEF n

\* What a simulator that runs has been set to.
LEMMA SimIsTold ==
  ASSUME file \in Files, NEW args \in SimArgs
  PROVE  /\ SimSettings(args) \in SimSetup
         /\ SimSettings(args).ok => SimSettings(args).config.port = Told(file, args)
<1>1. args \in Seq(SimOptions) /\ Len(args) \in Nat
  BY FeedAssumption
<1>2. PICK c \in [0 .. Len(args) -> SimSetup] :
        /\ c[0] = SimDefaults
        /\ \A k \in 0 .. Len(args) - 1 : c[k + 1] = SimOption(c[k], args[k + 1])
        /\ SimSettings(args) = c[Len(args)]
  BY <1>1, SimSteps
<1>3. ASSUME NEW k \in 0 .. Len(args) - 1, c[k + 1].ok
      PROVE  /\ c[k].ok
             /\ c[k + 1].config.port =
                  IF Speaks(args[k + 1]) THEN Says(args[k + 1]) ELSE c[k].config.port
  <2>1. c[k] \in SimSetup /\ args[k + 1] \in SimOptions
    BY <1>1
  <2> QED
    BY <1>2, <1>3, <2>1, SimOptionStep
<1>4. PortFollows(args, c)
  BY <1>2, <1>3 DEF PortFollows, SimDefaults
<1>5. SimSettings(args) \in SimSetup
  BY <1>1, <1>2
<1>6. c[Len(args)].ok => c[Len(args)].config.port = Told(file, args)
  BY <1>1, <1>4, PortChain
<1> QED
  BY <1>2, <1>5, <1>6

LEMMA IngIsTold ==
  ASSUME file \in Files, NEW args \in IngArgs
  PROVE  /\ IngSettings(args) \in IngSetup
         /\ IngSettings(args).ok => IngSettings(args).config.port = Told(file, args)
<1>1. args \in Seq(IngOptions) /\ Len(args) \in Nat
  BY FeedAssumption
<1>2. PICK c \in [0 .. Len(args) -> IngSetup] :
        /\ c[0] = IngDefaults
        /\ \A k \in 0 .. Len(args) - 1 : c[k + 1] = IngOption(c[k], args[k + 1])
        /\ IngSettings(args) = c[Len(args)]
  BY <1>1, IngSteps
<1>3. ASSUME NEW k \in 0 .. Len(args) - 1, c[k + 1].ok
      PROVE  /\ c[k].ok
             /\ c[k + 1].config.port =
                  IF Speaks(args[k + 1]) THEN Says(args[k + 1]) ELSE c[k].config.port
  <2>1. c[k] \in IngSetup /\ args[k + 1] \in IngOptions
    BY <1>1
  <2> QED
    BY <1>2, <1>3, <2>1, IngOptionStep
<1>4. PortFollows(args, c)
  BY <1>2, <1>3 DEF PortFollows, IngDefaults
<1>5. IngSettings(args) \in IngSetup
  BY <1>1, <1>2
<1>6. c[Len(args)].ok => c[Len(args)].config.port = Told(file, args)
  BY <1>1, <1>4, PortChain
<1> QED
  BY <1>2, <1>5, <1>6
--------------------------------------------------------------------------------
(* Sequences of numbers *)

LEMMA AppendOnRight ==
  ASSUME NEW S, NEW s \in Seq(S), NEW t \in Seq(S), NEW e \in S
  PROVE  s \o Append(t, e) = Append(s \o t, e)
OBVIOUS

LEMMA HeadMoves ==
  ASSUME NEW S, NEW s \in Seq(S), NEW t \in Seq(S), t # <<>>
  PROVE  Append(s, Head(t)) \o Tail(t) = s \o t
OBVIOUS

LEMMA ConcatTyped ==
  ASSUME NEW S, NEW s \in Seq(S), NEW t \in Seq(S)
  PROVE  /\ s \o t \in Seq(S) /\ Len(s \o t) = Len(s) + Len(t)
         /\ \A i \in 1 .. Len(s) : (s \o t)[i] = s[i]
OBVIOUS

LEMMA Shorter ==
  ASSUME NEW S, NEW t \in Seq(S), t # <<>>
  PROVE  Tail(t) \in Seq(S) /\ Head(t) \in S /\ Len(Tail(t)) = Len(t) - 1 /\ Len(t) \in Nat
OBVIOUS

\* Numbers seen so far, in order and accounted for.
Seen(seen, next, gone) ==
  /\ \A i \in DOMAIN seen : seen[i] < next
  /\ \A i, j \in DOMAIN seen : i < j => seen[i] < seen[j]
  /\ next - 1 = Len(seen) + gone

LEMMA SeenIs == NumbersGivenOut /\ GapsAreLosses <=> Seen(received \o socket, seqNo, lost)
BY DEF NumbersGivenOut, GapsAreLosses, Seen

LEMMA SeenMore ==
  ASSUME NEW seen \in Seq(Nat), NEW next \in Nat, NEW gone \in Nat, Seen(seen, next, gone)
  PROVE  Seen(Append(seen, next), next + 1, gone) /\ Seen(seen, next + 1, gone + 1)
<1> DEFINE t == Append(seen, next)
<1>1. /\ t \in Seq(Nat) /\ Len(t) = Len(seen) + 1 /\ t[Len(t)] = next
      /\ \A i \in 1 .. Len(seen) : t[i] = seen[i]
      /\ DOMAIN t = 1 .. Len(t) /\ DOMAIN seen = 1 .. Len(seen) /\ Len(seen) \in Nat
  OBVIOUS
<1>2. \A i \in DOMAIN seen : seen[i] \in Nat
  OBVIOUS
<1> HIDE DEF t
<1>3. \A i \in DOMAIN t : i \in DOMAIN seen \/ i = Len(t)
  BY <1>1
<1>4. ASSUME NEW i \in DOMAIN t PROVE t[i] < next + 1
  BY <1>1, <1>2, <1>3 DEF Seen
<1>5. ASSUME NEW i \in DOMAIN t, NEW j \in DOMAIN t, i < j PROVE t[i] < t[j]
  <2>1. i \in DOMAIN seen
    BY <1>1, <1>3, <1>5
  <2> QED
    BY <1>1, <1>3, <1>5, <2>1 DEF Seen
<1>6. next + 1 - 1 = Len(t) + gone
  BY <1>1 DEF Seen
<1>7. Seen(t, next + 1, gone)
  BY <1>4, <1>5, <1>6 DEF Seen
<1>8. Seen(seen, next + 1, gone + 1)
  BY <1>1, <1>2 DEF Seen
<1> QED
  BY <1>7, <1>8 DEF t

\* What is in the socket is lost with it.
LEMMA SeenCut ==
  ASSUME NEW s \in Seq(Nat), NEW t \in Seq(Nat), NEW next \in Nat, NEW gone \in Nat,
         Seen(s \o t, next, gone)
  PROVE  Seen(s \o <<>>, next, gone + Len(t))
<1>1. s \o <<>> = s /\ DOMAIN s = 1 .. Len(s) /\ Len(s) \in Nat /\ Len(t) \in Nat
  OBVIOUS
<1>2. /\ s \o t \in Seq(Nat) /\ Len(s \o t) = Len(s) + Len(t)
      /\ \A i \in 1 .. Len(s) : (s \o t)[i] = s[i]
  BY ConcatTyped
<1> DEFINE u == s \o t
<1> HIDE DEF u
<1>3. /\ \A i \in DOMAIN s : i \in DOMAIN u /\ u[i] = s[i]
      /\ Len(u) = Len(s) + Len(t)
  BY <1>1, <1>2 DEF u
<1>4. Seen(u, next, gone)
  BY DEF u
<1>5. Seen(s, next, gone + Len(t))
  BY <1>1, <1>3, <1>4 DEF Seen
<1> QED
  BY <1>1, <1>5
--------------------------------------------------------------------------------
(* The inductive invariant *)

LEMMA WholeInterval ==
  ASSUME NEW q \in 1 .. MaxQps
  PROVE  Second \div q \in 1 .. Second
<1> DEFINE k == Second \div q
<1>1. q \in Nat /\ q >= 1 /\ q <= Second /\ Second \in Nat
  BY FeedAssumption
<1>2. k \in Int /\ q * k <= Second /\ Second < q * k + q
  BY <1>1
<1> HIDE DEF k
<1>3. k > 0
  <2>1. SUFFICES ASSUME k <= 0 PROVE FALSE
    BY <1>2
  <2>2. q * k <= 0
    BY <1>1, <1>2, <2>1
  <2> QED
    BY <1>1, <1>2, <2>2
<1>4. k <= Second
  <2>1. k <= q * k
    BY <1>1, <1>2, <1>3
  <2> QED
    BY <1>1, <1>2, <2>1
<1> QED
  BY <1>1, <1>2, <1>3, <1>4 DEF k

\* The time at which the n-th datagram after the first is due.
LEMMA OneMoreInterval ==
  ASSUME NEW n \in Int, NEW d \in Int
  PROVE  (n + 1) * d = n * d + d /\ n * d \in Int /\ (n + 1 - 1) * d = n * d
OBVIOUS

LEMMA InitIInv == Init => IInv
<1> SUFFICES ASSUME Init PROVE IInv
  OBVIOUS
<1> USE DEF Init
<1>1. TypeOK
  BY ConfigAssumption, FeedAssumption DEF TypeOK
<1>2. Settled /\ Scheduled /\ BurstCounted
  BY DEF Settled, Scheduled, BurstCounted, SimIsRunning
<1>3. received \o socket = <<>> /\ Len(<<>>) = 0 /\ DOMAIN (received \o socket) = {}
  OBVIOUS
<1>4. NumbersGivenOut /\ GapsAreLosses
  BY <1>3 DEF NumbersGivenOut, GapsAreLosses
<1>5. PortIsAsTold /\ OnSchedule /\ NoMoreThanAsked
  BY DEF PortIsAsTold, OnSchedule, NoMoreThanAsked, SimIsRunning
<1> QED
  BY <1>1, <1>2, <1>4, <1>5 DEF IInv

\* What the simulator has to do with stays while only the clock goes on.
LEMMA SimUndisturbed ==
  ASSUME IInv, UNCHANGED <<file, simVars>>, clock' \in Int, clock' >= clock
  PROVE  /\ Scheduled' /\ BurstCounted' /\ OnSchedule' /\ NoMoreThanAsked'
         /\ SimIsRunning => sPort' = Told(file, sArgs)'
<1> USE DEF simVars
<1>0. clock \in Int /\ start \in Int /\ nextSend \in Int /\ sent \in Int /\ interval \in Int
  BY DEF IInv, TypeOK, Settled
<1>1. Scheduled'
  BY <1>0 DEF IInv, Scheduled, Sustained
<1>2. BurstCounted'
  BY DEF IInv, BurstCounted, Sustained
<1>3. OnSchedule'
  <2> DEFINE due == start + (sent - 1) * interval
  <2>1. Sustained /\ sent > 0 => due <= clock
    BY DEF IInv, OnSchedule
  <2>2. due \in Int /\ due' = due
    BY <1>0
  <2> HIDE DEF due
  <2>3. Sustained /\ sent > 0 => due' <= clock'
    BY <1>0, <2>1, <2>2
  <2>4. Sustained /\ sPc = "sleep" => nextSend <= start + sent * interval
    BY DEF IInv, OnSchedule
  <2> QED
    BY <2>3, <2>4 DEF OnSchedule, Sustained, due
<1>4. NoMoreThanAsked'
  BY DEF IInv, NoMoreThanAsked, Sustained
<1>5. SimIsRunning => sPort' = Told(file, sArgs)'
  BY DEF IInv, PortIsAsTold
<1> QED
  BY <1>1, <1>2, <1>3, <1>4, <1>5

\* What is in flight stays while the simulator is at a step of its own.
LEMMA NetUndisturbed ==
  ASSUME IInv, UNCHANGED <<file, seqNo, ingVars, netVars>>
  PROVE  /\ NumbersGivenOut' /\ GapsAreLosses'
         /\ iPc' = "up" => iPort' = Told(file, iArgs)'
BY DEF IInv, NumbersGivenOut, GapsAreLosses, PortIsAsTold, ingVars, netVars

LEMMA TickIInv == IInv /\ Tick => IInv'
<1> SUFFICES ASSUME IInv, Tick PROVE IInv'
  OBVIOUS
<1>1. /\ clock' \in 0 .. MaxClock /\ clock' >= clock
      /\ UNCHANGED <<file, simVars, ingVars, netVars>>
  BY FeedAssumption DEF Tick, IInv, TypeOK
<1>2. TypeOK'
  BY <1>1 DEF IInv, TypeOK, simVars, ingVars, netVars
<1>3. Settled'
  BY <1>1 DEF IInv, Settled, SimIsRunning, simVars, netVars
<1>4. Scheduled' /\ BurstCounted' /\ OnSchedule' /\ NoMoreThanAsked'
  BY <1>1, SimUndisturbed
<1>5. NumbersGivenOut' /\ GapsAreLosses'
  BY <1>1, NetUndisturbed DEF simVars
<1>6. PortIsAsTold'
  BY <1>1 DEF IInv, PortIsAsTold, SimIsRunning, simVars, ingVars
<1> QED
  BY <1>2, <1>3, <1>4, <1>5, <1>6 DEF IInv

LEMMA SimStartIInv ==
  ASSUME IInv, NEW args \in SimArgs, SimStart(args)
  PROVE  IInv'
<1> DEFINE s == SimSettings(args)
<1>1. /\ file \in Files /\ clock \in Nat /\ sPc = "start" /\ sent = 0 /\ burst = 0 /\ start \in Nat
      /\ nextSend \in Nat /\ interval \in Int
  BY FeedAssumption DEF IInv, TypeOK, Settled, SimStart
<1>2. UNCHANGED <<file, clock, sent, seqNo, ingVars, netVars>> /\ sArgs' = args
  BY DEF SimStart
<1>3. s \in SimSetup /\ (s.ok => s.config.port = Told(file, args))
  BY <1>1, SimIsTold
<1>4. CASE SimRuns(s)
  <2>1. /\ sPc' = "loop" /\ sPort' = s.config.port /\ interval' = Second \div s.qps
        /\ burst' = s.burst /\ start' = clock /\ nextSend' = clock
    BY <1>4 DEF SimStart
  <2>2. /\ s.ok /\ s.qps \in 1 .. MaxQps /\ s.burst \in Int
        /\ s.config.port \in 0 .. PortMod - 1
    BY <1>3, <1>4 DEF SimRuns, SimSetup, Configs
  <2> HIDE DEF s
  <2>3. interval' \in 1 .. Second
    BY <2>1, <2>2, WholeInterval
  <2>4. TypeOK'
    BY <1>2, <2>1, <2>2, <2>3 DEF IInv, TypeOK, ingVars, netVars
  <2>5. Settled'
    BY <1>1, <1>2, <2>1, <2>3 DEF IInv, Settled, SimIsRunning, netVars
  <2>6. sent' * interval' = 0
    <3> DEFINE d == interval'
    <3>1. d \in Int
      BY <2>3, FeedAssumption
    <3> HIDE DEF d
    <3>2. 0 * d = 0
      BY <3>1
    <3> QED
      BY <1>1, <1>2, <3>2 DEF d
  <2>7. Scheduled' /\ BurstCounted' /\ OnSchedule' /\ NoMoreThanAsked'
    BY <1>1, <1>2, <2>1, <2>6 DEF Scheduled, BurstCounted, OnSchedule, NoMoreThanAsked
  <2>8. PortIsAsTold'
    BY <1>2, <1>3, <2>1, <2>2, NetUndisturbed DEF PortIsAsTold
  <2> QED
    BY <1>2, <2>4, <2>5, <2>7, <2>8, NetUndisturbed DEF IInv
<1>5. CASE ~SimRuns(s)
  <2>1. sPc' = "failed" /\ UNCHANGED <<sAddr, sPort, interval, burst, start, nextSend>>
    BY <1>5 DEF SimStart
  <2>2. TypeOK' /\ Settled'
    BY <1>2, <2>1 DEF IInv, TypeOK, Settled, SimIsRunning, ingVars, netVars
  <2>3. BurstCounted' /\ OnSchedule' /\ NoMoreThanAsked'
    BY <1>1, <1>2, <2>1 DEF BurstCounted, OnSchedule, NoMoreThanAsked
  <2>4. Scheduled'
    BY <1>1, <1>2, <2>1 DEF IInv, Scheduled, Sustained
  <2>5. PortIsAsTold'
    BY <1>2, <2>1, NetUndisturbed DEF PortIsAsTold, SimIsRunning
  <2> QED
    BY <1>2, <2>2, <2>3, <2>4, <2>5, NetUndisturbed DEF IInv
<1> QED
  BY <1>4, <1>5

\* A step that only takes the simulator elsewhere in its loop.
LEMMA SimMovesTyped ==
  ASSUME IInv, sPc \in {"loop", "send", "sleep"},
         sPc' \in {"loop", "send", "sleep", "done", "failed"},
         UNCHANGED <<file, clock, sArgs, sAddr, sPort, interval, burst, start, nextSend, sent, seqNo,
                     ingVars, netVars>>
  PROVE  /\ TypeOK' /\ Settled' /\ PortIsAsTold' /\ NumbersGivenOut' /\ GapsAreLosses'
         /\ Sustained' = Sustained
         /\ clock \in Int /\ start \in Int /\ nextSend \in Int /\ sent \in Nat /\ burst \in Int
<1>1. TypeOK'
  BY DEF IInv, TypeOK, ingVars, netVars
<1>2. Settled'
  BY DEF IInv, Settled, SimIsRunning, netVars
<1>3. PortIsAsTold'
  BY DEF IInv, PortIsAsTold, SimIsRunning, ingVars
<1>4. clock \in Int /\ start \in Int /\ nextSend \in Int /\ sent \in Nat /\ burst \in Int
  BY DEF IInv, TypeOK, Settled
<1> QED
  BY <1>1, <1>2, <1>3, <1>4, NetUndisturbed DEF Sustained

LEMMA SimLoopIInv == IInv /\ SimLoop => IInv'
<1> SUFFICES ASSUME IInv, SimLoop PROVE IInv'
  OBVIOUS
<1>1. /\ sPc = "loop" /\ sPc' \in {"done", "send"}
      /\ UNCHANGED <<file, clock, sArgs, sAddr, sPort, interval, burst, start, nextSend, sent, seqNo,
                     ingVars, netVars>>
      /\ sPc' = "done" <=> IF Sustained THEN TimeIsUp ELSE sent >= burst
  BY DEF SimLoop
<1>2. /\ TypeOK' /\ Settled' /\ PortIsAsTold' /\ NumbersGivenOut' /\ GapsAreLosses'
      /\ Sustained' = Sustained
      /\ clock \in Int /\ start \in Int /\ nextSend \in Int /\ sent \in Nat /\ burst \in Int
  BY <1>1, SimMovesTyped
<1>3. Scheduled'
  <2>1. Sustained => nextSend = start + sent * interval /\ nextSend <= clock
    BY <1>1 DEF IInv, Scheduled
  <2>2. sPc' = "send" /\ Sustained => nextSend - start < Duration
    BY <1>1, <1>2, <2>1, FeedAssumption DEF TimeIsUp
  <2> QED
    BY <1>1, <1>2, <2>1, <2>2 DEF Scheduled
<1>4. BurstCounted'
  BY <1>1, <1>2 DEF IInv, BurstCounted
<1>5. OnSchedule'
  BY <1>1, <1>2 DEF IInv, OnSchedule
<1>6. NoMoreThanAsked'
  <2>1. sPc' = "done" /\ burst > 0 => sent = burst
    <3>1. SUFFICES ASSUME sPc' = "done", burst > 0 PROVE sent = burst
      OBVIOUS
    <3>2. ~Sustained /\ sent >= burst
      BY <1>1, <1>2, <3>1 DEF Sustained
    <3> QED
      BY <1>2, <3>1, <3>2 DEF IInv, BurstCounted
  <2> QED
    BY <1>1, <1>2, <2>1 DEF IInv, NoMoreThanAsked
<1> QED
  BY <1>2, <1>3, <1>4, <1>5, <1>6 DEF IInv

LEMMA SimFailsIInv == IInv /\ SimFails => IInv'
<1> SUFFICES ASSUME IInv, SimFails PROVE IInv'
  OBVIOUS
<1>1. /\ sPc = "send" /\ sPc' = "failed"
      /\ UNCHANGED <<file, clock, sArgs, sAddr, sPort, interval, burst, start, nextSend, sent, seqNo,
                     ingVars, netVars>>
  BY DEF SimFails
<1>2. /\ TypeOK' /\ Settled' /\ PortIsAsTold' /\ NumbersGivenOut' /\ GapsAreLosses'
      /\ Sustained' = Sustained
  BY <1>1, SimMovesTyped
<1>3. Scheduled' /\ BurstCounted' /\ OnSchedule' /\ NoMoreThanAsked'
  BY <1>1, <1>2 DEF IInv, Scheduled, BurstCounted, OnSchedule, NoMoreThanAsked
<1> QED
  BY <1>2, <1>3 DEF IInv

LEMMA SimWakeIInv == IInv /\ SimWake => IInv'
<1> SUFFICES ASSUME IInv, SimWake PROVE IInv'
  OBVIOUS
<1>1. /\ sPc = "sleep" /\ sPc' = "loop" /\ clock >= nextSend
      /\ UNCHANGED <<file, clock, sArgs, sAddr, sPort, interval, burst, start, nextSend, sent, seqNo,
                     ingVars, netVars>>
  BY DEF SimWake
<1>2. /\ TypeOK' /\ Settled' /\ PortIsAsTold' /\ NumbersGivenOut' /\ GapsAreLosses'
      /\ Sustained' = Sustained
      /\ clock \in Int /\ nextSend \in Int
  BY <1>1, SimMovesTyped
<1>3. Scheduled' /\ BurstCounted' /\ OnSchedule' /\ NoMoreThanAsked'
  BY <1>1, <1>2 DEF IInv, Scheduled, BurstCounted, OnSchedule, NoMoreThanAsked
<1> QED
  BY <1>2, <1>3 DEF IInv

LEMMA SimSendIInv == IInv /\ SimSend => IInv'
<1> SUFFICES ASSUME IInv, SimSend PROVE IInv'
  OBVIOUS
<1> DEFINE due == sent * interval
<1>1. /\ sPc = "send" /\ Deliver
      /\ sent' = sent + 1 /\ seqNo' = seqNo + 1
      /\ nextSend' = IF Sustained THEN nextSend + interval ELSE nextSend
      /\ sPc' = IF Sustained /\ nextSend' > clock THEN "sleep" ELSE "loop"
      /\ UNCHANGED <<file, clock, sArgs, sAddr, sPort, interval, burst, start, ingVars, received>>
  BY DEF SimSend, NextDue
<1>2. /\ clock \in Int /\ start \in Nat /\ nextSend \in Nat /\ sent \in Nat /\ burst \in Int
      /\ interval \in Nat /\ seqNo \in Nat /\ lost \in Nat
      /\ socket \in Seq(Nat) /\ received \in Seq(Nat) /\ Len(socket) <= SocketCap
  BY FeedAssumption DEF IInv, TypeOK, Settled
<1>3. /\ due \in Int /\ sent' * interval' = due + interval
      /\ (sent' - 1) * interval' = due
  BY <1>1, <1>2, OneMoreInterval
<1>4. /\ sent' \in Nat /\ sent' > 0 /\ sent' - 1 = sent /\ seqNo' \in Nat /\ nextSend' \in Nat
      /\ Sustained' = Sustained /\ sPc' \in {"loop", "sleep"}
  BY <1>1, <1>2 DEF Sustained
<1>5. Sustained => nextSend = start + due /\ nextSend <= clock /\ nextSend - start < Duration
  BY <1>1 DEF IInv, Scheduled
<1> HIDE DEF due
<1>6. /\ Seen(received' \o socket', seqNo', lost') /\ socket' \in Seq(Nat) /\ lost' \in Nat
      /\ Len(socket') <= SocketCap /\ (iPc = "down" => socket' = <<>>)
  <2>1. Seen(received \o socket, seqNo, lost) /\ received \o socket \in Seq(Nat)
    BY <1>2, SeenIs, ConcatTyped DEF IInv
  <2>2. CASE /\ iPc = "up" /\ Len(socket) < SocketCap
             /\ socket' = Append(socket, seqNo) /\ UNCHANGED lost
    <3>1. /\ socket' \in Seq(Nat) /\ Len(socket') = Len(socket) + 1
          /\ received' \o socket' = Append(received \o socket, seqNo)
      BY <1>1, <1>2, <2>2, AppendOnRight
    <3>2. Seen(received' \o socket', seqNo', lost')
      BY <1>1, <1>2, <2>1, <2>2, <3>1, SeenMore
    <3> QED
      BY <1>2, <2>2, <3>1, <3>2, FeedAssumption
  <2>3. CASE lost' = lost + 1 /\ UNCHANGED socket
    <3>1. Seen(received' \o socket', seqNo', lost')
      BY <1>1, <1>2, <2>1, <2>3, SeenMore
    <3> QED
      BY <1>2, <2>3, <3>1 DEF IInv, TypeOK
  <2> QED
    BY <1>1, <2>2, <2>3 DEF Deliver
<1>7. NumbersGivenOut' /\ GapsAreLosses'
  BY <1>6 DEF Seen, NumbersGivenOut, GapsAreLosses
<1>8. TypeOK'
  BY <1>1, <1>4, <1>6 DEF IInv, TypeOK, ingVars
<1>9. Settled'
  BY <1>1, <1>4, <1>6 DEF IInv, Settled, SimIsRunning
<1>10. Scheduled'
  <2>1. Sustained => nextSend' = start + sent' * interval'
    BY <1>1, <1>2, <1>3, <1>5
  <2>2. Sustained /\ sPc' = "loop" => nextSend' <= clock
    BY <1>1, <1>2, <1>5
  <2> QED
    BY <1>1, <1>4, <2>1, <2>2 DEF Scheduled
<1>11. OnSchedule'
  <2>1. Sustained => start + (sent' - 1) * interval' <= clock
    BY <1>2, <1>3, <1>5
  <2>2. Sustained => nextSend' = start + sent' * interval' /\ nextSend' \in Int
    BY <1>1, <1>2, <1>3, <1>5
  <2>3. Sustained => nextSend' <= start + sent' * interval'
    BY <2>2
  <2> QED
    BY <1>1, <1>4, <2>1, <2>3 DEF OnSchedule
<1>12. BurstCounted' /\ NoMoreThanAsked'
  <2>1. Sustained => (sent' - 1) * interval' < Duration
    <3>1. Sustained => due = nextSend - start
      BY <1>2, <1>3, <1>5
    <3> QED
      BY <1>3, <1>5, <3>1
  <2>2. ~Sustained => sent' <= burst
    BY <1>1, <1>2 DEF IInv, BurstCounted
  <2> QED
    BY <1>1, <1>4, <2>1, <2>2 DEF BurstCounted, NoMoreThanAsked
<1>13. PortIsAsTold'
  BY <1>1 DEF IInv, PortIsAsTold, SimIsRunning, ingVars
<1> QED
  BY <1>7, <1>8, <1>9, <1>10, <1>11, <1>12, <1>13 DEF IInv

\* A step of ingress, or of its socket, does not disturb the simulator.
LEMMA IngMovesTyped ==
  ASSUME IInv, UNCHANGED <<file, clock, simVars>>
  PROVE  /\ Scheduled' /\ BurstCounted' /\ OnSchedule' /\ NoMoreThanAsked'
         /\ SimIsRunning' => sPort' = Told(file, sArgs)'
<1>1. clock' \in Int /\ clock' >= clock
  BY FeedAssumption DEF IInv, TypeOK
<1>2. UNCHANGED <<file, simVars>> /\ SimIsRunning' = SimIsRunning
  BY DEF SimIsRunning, simVars
<1> QED
  BY <1>1, <1>2, SimUndisturbed

LEMMA IngressStartIInv ==
  ASSUME IInv, NEW args \in IngArgs, IngressStart(args)
  PROVE  IInv'
<1> DEFINE s == IngSettings(args)
<1>1. /\ iPc = "down" /\ starts < MaxStarts /\ starts' = starts + 1 /\ iArgs' = args
      /\ UNCHANGED <<file, clock, simVars, netVars>>
      /\ \/ UNCHANGED <<iPc, iPort>>
         \/ s.ok /\ iPc' = "up" /\ iPort' = s.config.port
  BY DEF IngressStart, IngRuns
<1>2. s \in IngSetup /\ (s.ok => s.config.port = Told(file, args))
  BY IngIsTold DEF IInv, TypeOK
<1>3. s.config.port \in 0 .. PortMod - 1
  BY <1>2 DEF IngSetup, Configs
<1> HIDE DEF s
<1>4. TypeOK'
  <2>1. iPc' \in {"down", "up"} /\ iPort' \in 0 .. PortMod - 1 /\ starts' \in 0 .. MaxStarts
    BY <1>1, <1>3, FeedAssumption DEF IInv, TypeOK
  <2> QED
    BY <1>1, <2>1 DEF IInv, TypeOK, simVars, netVars
<1>5. Settled'
  BY <1>1 DEF IInv, Settled, SimIsRunning, simVars, netVars
<1>6. PortIsAsTold'
  <2>1. iPc' = "up" => iPort' = Told(file, iArgs)'
    BY <1>1, <1>2
  <2> QED
    BY <1>1, <2>1, IngMovesTyped DEF PortIsAsTold
<1>7. NumbersGivenOut' /\ GapsAreLosses'
  BY <1>1 DEF IInv, NumbersGivenOut, GapsAreLosses, simVars, netVars
<1> QED
  BY <1>1, <1>4, <1>5, <1>6, <1>7, IngMovesTyped DEF IInv

LEMMA IngressRecvIInv == IInv /\ IngressRecv => IInv'
<1> SUFFICES ASSUME IInv, IngressRecv PROVE IInv'
  OBVIOUS
<1>1. /\ iPc = "up" /\ socket # <<>>
      /\ received' = Append(received, Head(socket)) /\ socket' = Tail(socket)
      /\ UNCHANGED <<file, clock, simVars, ingVars, lost>>
  BY DEF IngressRecv
<1>2. socket \in Seq(Nat) /\ received \in Seq(Nat) /\ Len(socket) <= SocketCap
  BY DEF IInv, TypeOK, Settled
<1>3. /\ socket' \in Seq(Nat) /\ received' \in Seq(Nat) /\ Len(socket') <= SocketCap
      /\ received' \o socket' = received \o socket
  <2>1. Tail(socket) \in Seq(Nat) /\ Head(socket) \in Nat /\ Len(Tail(socket)) <= SocketCap
    BY <1>1, <1>2, Shorter, FeedAssumption
  <2>2. Append(received, Head(socket)) \in Seq(Nat)
    BY <1>2, <2>1
  <2>3. Append(received, Head(socket)) \o Tail(socket) = received \o socket
    BY <1>1, <1>2, HeadMoves
  <2> QED
    BY <1>1, <2>1, <2>2, <2>3
<1>4. TypeOK'
  BY <1>1, <1>3 DEF IInv, TypeOK, simVars, ingVars
<1>5. Settled'
  BY <1>1, <1>3 DEF IInv, Settled, SimIsRunning, simVars
<1>6. NumbersGivenOut' /\ GapsAreLosses'
  BY <1>1, <1>3 DEF IInv, NumbersGivenOut, GapsAreLosses, simVars
<1>7. PortIsAsTold'
  BY <1>1, IngMovesTyped DEF IInv, PortIsAsTold, ingVars
<1> QED
  BY <1>1, <1>4, <1>5, <1>6, <1>7, IngMovesTyped DEF IInv

LEMMA IngressEndsIInv == IInv /\ IngressEnds => IInv'
<1> SUFFICES ASSUME IInv, IngressEnds PROVE IInv'
  OBVIOUS
<1>1. /\ iPc' = "down" /\ socket' = <<>> /\ lost' = lost + Len(socket)
      /\ UNCHANGED <<file, clock, simVars, iArgs, iPort, starts, received>>
  BY DEF IngressEnds
<1>2. /\ socket \in Seq(Nat) /\ received \in Seq(Nat) /\ seqNo \in Nat /\ lost \in Nat
      /\ Len(socket) \in Nat
  BY DEF IInv, TypeOK, Settled
<1>3. Seen(received' \o socket', seqNo', lost')
  BY <1>1, <1>2, SeenIs, SeenCut DEF IInv, simVars
<1>4. TypeOK'
  BY <1>1, <1>2, FeedAssumption DEF IInv, TypeOK, simVars
<1>5. Settled'
  BY <1>1 DEF IInv, Settled, SimIsRunning, simVars
<1>6. NumbersGivenOut' /\ GapsAreLosses'
  BY <1>3 DEF Seen, NumbersGivenOut, GapsAreLosses
<1>7. PortIsAsTold'
  BY <1>1, IngMovesTyped DEF PortIsAsTold
<1> QED
  BY <1>1, <1>4, <1>5, <1>6, <1>7, IngMovesTyped DEF IInv

LEMMA StutterIInv == IInv /\ UNCHANGED vars => IInv'
<1> SUFFICES ASSUME IInv, UNCHANGED vars PROVE IInv'
  OBVIOUS
<1>1. UNCHANGED <<file, clock, simVars, ingVars, netVars>>
  BY DEF vars
<1>2. TypeOK' /\ Settled'
  BY <1>1 DEF IInv, TypeOK, Settled, SimIsRunning, simVars, ingVars, netVars
<1>3. NumbersGivenOut' /\ GapsAreLosses'
  BY <1>1, NetUndisturbed DEF simVars
<1>4. PortIsAsTold'
  BY <1>1 DEF IInv, PortIsAsTold, SimIsRunning, simVars, ingVars
<1> QED
  BY <1>1, <1>2, <1>3, <1>4, IngMovesTyped DEF IInv
--------------------------------------------------------------------------------
(* The theorems *)

\* The inductive invariant holds in every state of every run: the schedule stands
\* where the loop of the simulator needs it (ulmdsim.cpp:215-269), the burst is
\* counted, and every number seen has been given out.
THEOREM Invariance == Spec => []IInv
<1>1. Init => IInv
  BY InitIInv
<1>2. IInv /\ [Next]_vars => IInv'
  <2> SUFFICES ASSUME IInv, [Next]_vars PROVE IInv'
    OBVIOUS
  <2>1. ASSUME NEW args \in SimArgs, SimStart(args) PROVE IInv'
    BY <2>1, SimStartIInv
  <2>2. ASSUME NEW args \in IngArgs, IngressStart(args) PROVE IInv'
    BY <2>2, IngressStartIInv
  <2>3. SimLoop \/ SimSend \/ SimFails \/ SimWake => IInv'
    BY SimLoopIInv, SimSendIInv, SimFailsIInv, SimWakeIInv
  <2>4. IngressRecv \/ IngressEnds \/ Tick => IInv'
    BY IngressRecvIInv, IngressEndsIInv, TickIInv
  <2> QED
    BY <2>1, <2>2, <2>3, <2>4, StutterIInv DEF Next, SimStep, IngressStep
<1> QED
  BY <1>1, <1>2, PTL DEF Spec

\* The programs keep to their steps, the ports fit their type, and a socket that
\* is closed holds nothing (ulmdsim.cpp, ingress.cpp).
THEOREM TypeCorrect == Spec => []TypeOK
<1>1. IInv => TypeOK
  BY DEF IInv
<1> QED
  BY <1>1, Invariance, PTL

\* Whatever the options and lines say, in whatever order and number, both programs
\* use the port they were told last (config.cpp:45-62, ulmdsim.cpp, ingress.cpp).
THEOREM PortAsTold == Spec => []PortIsAsTold
<1>1. IInv => PortIsAsTold
  BY DEF IInv
<1> QED
  BY <1>1, Invariance, PTL

\* For every rate: no datagram leaves before its time, however the simulator is
\* delayed, and it never sleeps past the time of the next (ulmdsim.cpp:263).
THEOREM RateKept == Spec => []OnSchedule
<1>1. IInv => OnSchedule
  BY DEF IInv
<1> QED
  BY <1>1, Invariance, PTL

\* Nothing due after Duration is sent, and a burst is as long as it was said to be
\* unless sendto fails (ulmdsim.cpp:217-221).
THEOREM NoMoreSent == Spec => []NoMoreThanAsked
<1>1. IInv => NoMoreThanAsked
  BY DEF IInv
<1> QED
  BY <1>1, Invariance, PTL

\* A gap in the numbers that reach ingress, over any number of its restarts, is
\* what was lost on the way, no more and no less (ingress.cpp:144).
THEOREM GapsTellLosses == Spec => []GapsAreLosses
<1>1. IInv => GapsAreLosses
  BY DEF IInv
<1> QED
  BY <1>1, Invariance, PTL
================================================================================
