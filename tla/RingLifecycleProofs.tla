-------------------------- MODULE RingLifecycleProofs --------------------------
(***************************************************************************)
(* Proofs about RingLifecycle for any number of ringctl processes, of      *)
(* objects, elements, kills and destroys.                                  *)
(***************************************************************************)
EXTENDS RingLifecycle, Integers, TLAPS

--------------------------------------------------------------------------------
(* The stores of a creator *)

\* What the first n stores of spsc_create_shared set.
SetBy(n) == {Stores[i] : i \in 1 .. n} \cap {"mask", "elem"}

LEMMA FourStores ==
  /\ Len(Stores) = 4
  /\ Stores[1] = "head" /\ Stores[2] = "tail" /\ Stores[3] = "mask" /\ Stores[4] = "elem"
BY DEF Stores

LEMMA SetByStores ==
  /\ SetBy(0) = {} /\ SetBy(1) = {} /\ SetBy(2) = {}
  /\ SetBy(3) = {"mask"} /\ SetBy(4) = {"mask", "elem"}
<1>1. 1 .. 0 = {} /\ 1 .. 1 = {1} /\ 1 .. 2 = {1, 2} /\ 1 .. 3 = {1, 2, 3} /\ 1 .. 4 = {1, 2, 3, 4}
  OBVIOUS
<1>2. SetBy(0) = {}
  BY <1>1 DEF SetBy
<1>3. SetBy(1) = {} /\ SetBy(2) = {}
  BY <1>1, FourStores DEF SetBy
<1>4. SetBy(3) = {"mask"} /\ SetBy(4) = {"mask", "elem"}
  BY <1>1, FourStores DEF SetBy
<1> QED
  BY <1>2, <1>3, <1>4

\* What CreatorsApart says of one creator.
LEMMA CreatorKnows ==
  ASSUME TypeOK, CreatorsApart, NEW c \in Ctls, cPc[c] # "idle"
  PROVE  /\ cObj[c] \in Objects /\ cObj[c] \in 1 .. made
         /\ \A d \in Ctls : cPc[d] # "idle" /\ cObj[d] = cObj[c] => d = c
         /\ cPc[c] \in {"truncate", "map"} => obj[cObj[c]].set = {} /\ cStored[c] = 0
         /\ cPc[c] \in {"map", "store"} => obj[cObj[c]].sized
         /\ cPc[c] = "store" => /\ cStored[c] \in 0 .. 3
                                /\ obj[cObj[c]].set = SetBy(cStored[c])
<1>1. c \in InProgress
  BY DEF InProgress
<1>2. cObj[c] \in 1 .. made /\ cObj[c] \in Objects
  BY LifecycleAssumption DEF TypeOK, Objects
<1>3. cPc[c] = "store" => cStored[c] \in 0 .. 3
  BY FourStores DEF TypeOK
<1> QED
  BY <1>1, <1>2, <1>3 DEF CreatorsApart, InProgress, SetBy

\* A ring is incomplete as long as its creator works on it.
LEMMA InProgressIncomplete ==
  ASSUME TypeOK, CreatorsApart, NEW c \in Ctls, cPc[c] # "idle"
  PROVE  ~Usable(cObj[c])
<1>1. cPc[c] \in {"truncate", "map", "store"}
  BY DEF TypeOK
<1>2. CASE cPc[c] \in {"truncate", "map"}
  BY <1>2, CreatorKnows DEF Usable
<1>3. CASE cPc[c] = "store"
  <2>1. obj[cObj[c]].set = SetBy(cStored[c]) /\ cStored[c] \in 0 .. 3
    BY <1>3, CreatorKnows
  <2>2. cStored[c] = 0 \/ cStored[c] = 1 \/ cStored[c] = 2 \/ cStored[c] = 3
    BY <2>1
  <2>3. SetBy(cStored[c]) \in {{}, {"mask"}}
    BY <2>2, SetByStores
  <2> QED
    BY <2>1, <2>3 DEF Usable
<1> QED
  BY <1>1, <1>2, <1>3

\* One more store changes only what is set: the indices it resets are 0.
LEMMA StoreEffect ==
  ASSUME TypeOK, CreatorsApart, UntouchedUntilUsable, NEW c \in Ctls, CreateStore(c)
  PROVE  /\ obj' = [obj EXCEPT ![cObj[c]].set = SetBy(cStored[c] + 1)]
         /\ SetBy(cStored[c] + 1) \in SUBSET {"mask", "elem"}
         /\ cObj[c] \in Objects /\ cStored[c] \in 0 .. 3 /\ obj[cObj[c]] \in Memory
<1> DEFINE o == cObj[c]
           n == cStored[c]
           memory == obj[o]
<1>1. /\ o \in Objects /\ n \in 0 .. 3 /\ memory.set = SetBy(n)
  BY CreatorKnows DEF CreateStore
<1>2. memory \in Memory
  BY <1>1 DEF TypeOK
<1>3. memory.head = 0 /\ memory.tail = 0
  BY <1>1, InProgressIncomplete DEF UntouchedUntilUsable, CreateStore
<1>4. obj' = [obj EXCEPT ![o] = Stored(memory, Stores[n + 1])]
  BY DEF CreateStore
<1> HIDE DEF o, n, memory
<1>5. Stored(memory, Stores[n + 1]) = [memory EXCEPT !.set = SetBy(n + 1)]
  <2>1. CASE n = 0
    <3>1. Stored(memory, Stores[n + 1]) = [memory EXCEPT !.head = 0]
      BY <2>1, FourStores DEF Stored
    <3>2. [memory EXCEPT !.head = 0] = memory
      BY <1>2, <1>3 DEF Memory
    <3>3. [memory EXCEPT !.set = SetBy(n + 1)] = memory
      BY <1>1, <1>2, <2>1, SetByStores DEF Memory
    <3> QED
      BY <3>1, <3>2, <3>3
  <2>2. CASE n = 1
    <3>1. Stored(memory, Stores[n + 1]) = [memory EXCEPT !.tail = 0]
      BY <2>2, FourStores DEF Stored
    <3>2. [memory EXCEPT !.tail = 0] = memory
      BY <1>2, <1>3 DEF Memory
    <3>3. [memory EXCEPT !.set = SetBy(n + 1)] = memory
      BY <1>1, <1>2, <2>2, SetByStores DEF Memory
    <3> QED
      BY <3>1, <3>2, <3>3
  <2>3. CASE n = 2
    <3>1. Stored(memory, Stores[n + 1]) = [memory EXCEPT !.set = @ \cup {"mask"}]
      BY <2>3, FourStores DEF Stored
    <3>2. memory.set \cup {"mask"} = SetBy(n + 1)
      BY <1>1, <2>3, SetByStores
    <3> QED
      BY <3>1, <3>2
  <2>4. CASE n = 3
    <3>1. Stored(memory, Stores[n + 1]) = [memory EXCEPT !.set = @ \cup {"elem"}]
      BY <2>4, FourStores DEF Stored
    <3>2. memory.set \cup {"elem"} = SetBy(n + 1)
      BY <1>1, <2>4, SetByStores
    <3> QED
      BY <3>1, <3>2
  <2> QED
    BY <1>1, <2>1, <2>2, <2>3, <2>4
<1>6. obj' = [obj EXCEPT ![cObj[c]].set = SetBy(cStored[c] + 1)]
  BY <1>4, <1>5 DEF o, n, memory
<1>7. SetBy(cStored[c] + 1) \in SUBSET {"mask", "elem"}
  BY DEF SetBy
<1> QED
  BY <1>1, <1>2, <1>6, <1>7 DEF o, n, memory

--------------------------------------------------------------------------------
(* Types *)

LEMMA InitTypeOK == Init => TypeOK
<1> SUFFICES ASSUME Init PROVE TypeOK
  OBVIOUS
<1>1. 0 \in 0 .. MaxObjects /\ 0 \in 0 .. MaxKills /\ 0 \in 0 .. MaxDestroys /\ 0 \in 0 .. MaxPushes
      /\ 0 \in 0 .. 0
  BY LifecycleAssumption
<1>2. Fresh \in Memory
  BY <1>1 DEF Fresh, Memory
<1>3. Fresh.tail = 0 /\ Fresh.head = 0 /\ 0 <= 0 + Capacity /\ Fresh.set = {}
  BY LifecycleAssumption DEF Fresh
<1>4. 0 \in 0 .. Len(Stores)
  BY FourStores
<1> QED
  BY <1>1, <1>2, <1>3, <1>4 DEF Init, TypeOK, None

--------------------------------------------------------------------------------
(* What a step does to the memory of the rings *)

\* What memory n may become of memory m: nothing that was given is taken back,
\* and only a complete ring holds elements.
Grows(m, n) ==
  /\ n \in Memory
  /\ n.head >= m.head /\ n.tail >= m.tail
  /\ m.sized => n.sized
  /\ m.set \subseteq n.set
  /\ n.tail <= n.head /\ n.head <= n.tail + Capacity
  /\ n.set # {} => n.sized
  /\ n.set # {"mask", "elem"} => n.head = 0 /\ n.tail = 0

LEMMA StaysAsItIs ==
  ASSUME TypeOK, UntouchedUntilUsable, NEW o \in Objects
  PROVE  Grows(obj[o], obj[o])
<1>1. obj[o] \in Memory /\ obj[o].head \in Nat /\ obj[o].tail \in Nat
  BY LifecycleAssumption DEF TypeOK, Memory
<1> QED
  BY <1>1 DEF Grows, TypeOK, UntouchedUntilUsable, Usable

\* A step that writes to one object at most, and lets it grow.
LEMMA OneGrows ==
  ASSUME TypeOK, UntouchedUntilUsable, NEW o \in 1 .. made, NEW n,
         Grows(obj[o], n), obj' = [obj EXCEPT ![o] = n], UNCHANGED made
  PROVE  /\ obj' \in [Objects -> Memory]
         /\ \A p \in Objects : Grows(obj[p], obj'[p])
         /\ \A p \in Objects : p > made' => obj'[p] = Fresh
<1>1. o \in Objects /\ n \in Memory /\ obj \in [Objects -> Memory]
  BY LifecycleAssumption DEF TypeOK, Objects, Grows
<1>2. ASSUME NEW p \in Objects PROVE Grows(obj[p], obj'[p])
  BY <1>1, StaysAsItIs
<1>3. ASSUME NEW p \in Objects, p > made' PROVE obj'[p] = Fresh
  <2>1. p # o /\ p > made
    BY <1>3, LifecycleAssumption DEF TypeOK, Objects
  <2> QED
    BY <1>1, <2>1 DEF UntouchedUntilUsable
<1> QED
  BY <1>1, <1>2, <1>3

LEMMA MemoryStep ==
  ASSUME TypeOK, CreatorsApart, UntouchedUntilUsable, [Next]_vars
  PROVE  /\ obj' \in [Objects -> Memory]
         /\ \A p \in Objects : Grows(obj[p], obj'[p])
         /\ \A p \in Objects : p > made' => obj'[p] = Fresh
<1>1. CASE obj' = obj /\ made' \in Nat /\ made' >= made
  <2>1. obj \in [Objects -> Memory] /\ \A p \in Objects : Grows(obj[p], obj[p])
    BY StaysAsItIs DEF TypeOK
  <2>2. ASSUME NEW p \in Objects, p > made' PROVE p > made
    BY <1>1, <2>2, LifecycleAssumption DEF TypeOK, Objects
  <2> QED
    BY <1>1, <2>1, <2>2 DEF UntouchedUntilUsable
<1>2. ASSUME NEW c \in Ctls, CreateTruncate(c)
      PROVE  /\ obj' \in [Objects -> Memory]
             /\ \A p \in Objects : Grows(obj[p], obj'[p])
             /\ \A p \in Objects : p > made' => obj'[p] = Fresh
  <2> DEFINE o == cObj[c]
             n == [obj[o] EXCEPT !.sized = TRUE]
  <2>1. o \in 1 .. made /\ o \in Objects
    BY <1>2, CreatorKnows DEF CreateTruncate
  <2>2. obj[o] \in Memory /\ Grows(obj[o], obj[o])
    BY <2>1, StaysAsItIs DEF TypeOK
  <2>3. Grows(obj[o], n)
    BY <2>2 DEF Grows, Memory
  <2>4. obj' = [obj EXCEPT ![o] = n] /\ made' = made
    BY <1>2 DEF CreateTruncate
  <2> HIDE DEF o, n
  <2> QED
    BY <2>1, <2>3, <2>4, OneGrows
<1>3. ASSUME NEW c \in Ctls, CreateStore(c)
      PROVE  /\ obj' \in [Objects -> Memory]
             /\ \A p \in Objects : Grows(obj[p], obj'[p])
             /\ \A p \in Objects : p > made' => obj'[p] = Fresh
  <2> DEFINE o == cObj[c]
             n == [obj[o] EXCEPT !.set = SetBy(cStored[c] + 1)]
  <2>1. o \in 1 .. made /\ o \in Objects /\ obj[o].sized /\ obj[o].set = SetBy(cStored[c])
        /\ cStored[c] \in 0 .. 3 /\ ~Usable(o)
    BY <1>3, CreatorKnows, InProgressIncomplete DEF CreateStore
  <2>2. obj[o] \in Memory /\ Grows(obj[o], obj[o]) /\ obj[o].head = 0 /\ obj[o].tail = 0
    BY <2>1, StaysAsItIs DEF TypeOK, UntouchedUntilUsable
  <2>3. SetBy(cStored[c]) \subseteq SetBy(cStored[c] + 1)
    BY <2>1 DEF SetBy
  <2>4. Grows(obj[o], n)
    BY <1>3, <2>1, <2>2, <2>3, StoreEffect DEF Grows, Memory
  <2>5. obj' = [obj EXCEPT ![o] = n] /\ made' = made
    BY <1>3, StoreEffect DEF CreateStore
  <2> HIDE DEF o, n
  <2> QED
    BY <2>1, <2>4, <2>5, OneGrows
<1>4. CASE Push
  <2> DEFINE o == uObj["parser"]
             n == [obj[o] EXCEPT !.head = @ + 1]
  <2>1. "parser" \in Users /\ o \in 1 .. made /\ o \in Objects
    BY <1>4, LifecycleAssumption DEF Push, Users, TypeOK, Objects
  <2>2. obj[o] \in Memory /\ Grows(obj[o], obj[o]) /\ obj[o].set = {"mask", "elem"}
    BY <1>4, <2>1, StaysAsItIs DEF TypeOK, Push, Usable
  <2>3. obj[o].head < MaxPushes /\ obj[o].head - obj[o].tail < Capacity
    BY <1>4 DEF Push
  <2>4. Grows(obj[o], n)
    BY <2>2, <2>3, LifecycleAssumption DEF Grows, Memory
  <2>5. obj' = [obj EXCEPT ![o] = n] /\ made' = made
    BY <1>4 DEF Push
  <2> HIDE DEF o, n
  <2> QED
    BY <2>1, <2>4, <2>5, OneGrows
<1>5. CASE Pop
  <2> DEFINE o == uObj["worker"]
             n == [obj[o] EXCEPT !.tail = @ + 1]
  <2>1. "worker" \in Users /\ o \in 1 .. made /\ o \in Objects
    BY <1>5, LifecycleAssumption DEF Pop, Users, TypeOK, Objects
  <2>2. obj[o] \in Memory /\ Grows(obj[o], obj[o]) /\ obj[o].set = {"mask", "elem"}
    BY <1>5, <2>1, StaysAsItIs DEF TypeOK, Pop, Usable
  <2>3. obj[o].tail # obj[o].head
    BY <1>5 DEF Pop
  <2>4. Grows(obj[o], n)
    BY <2>2, <2>3, LifecycleAssumption DEF Grows, Memory
  <2>5. obj' = [obj EXCEPT ![o] = n] /\ made' = made
    BY <1>5 DEF Pop
  <2> HIDE DEF o, n
  <2> QED
    BY <2>1, <2>4, <2>5, OneGrows
<1>6. \/ obj' = obj /\ made' \in Nat /\ made' >= made
      \/ \E c \in Ctls : CreateTruncate(c) \/ CreateStore(c)
      \/ Push \/ Pop
  <2>1. made \in Nat /\ made >= made /\ made + 1 \in Nat /\ made + 1 >= made
    BY LifecycleAssumption DEF TypeOK
  <2>2. CASE Next
    BY <2>1, <2>2 DEF Next, CreateOpen, CreateMap, CreateFails, KillCtl, Destroy,
                      AttachOpen, AttachMap, Detach
  <2>3. CASE UNCHANGED vars
    BY <2>1, <2>3 DEF vars
  <2> QED
    BY <2>2, <2>3
<1> QED
  BY <1>1, <1>2, <1>3, <1>4, <1>5, <1>6

--------------------------------------------------------------------------------
(* What a step does to the processes *)

\* Which objects there are, and who works on which.
Places ==
  /\ made \in 0 .. MaxObjects /\ name \in 0 .. made
  /\ kills \in 0 .. MaxKills /\ destroys \in 0 .. MaxDestroys
  /\ cPc \in [Ctls -> {"idle", "truncate", "map", "store"}]
  /\ cObj \in [Ctls -> 0 .. MaxObjects] /\ cStored \in [Ctls -> 0 .. Len(Stores)]
  /\ \A c \in Ctls :
       /\ cPc[c] # "idle" => cObj[c] \in 1 .. made
       /\ cPc[c] \in {"truncate", "map"} => cStored[c] = 0
       /\ cPc[c] = "store" => cStored[c] < Len(Stores)
  /\ uPc \in [Users -> {"detached", "opened", "attached"}]
  /\ uObj \in [Users -> 0 .. MaxObjects]
  /\ \A u \in Users : uPc[u] # "detached" => uObj[u] \in 1 .. made

LEMMA PlacesCreate ==
  ASSUME Places, NEW c \in Ctls,
         CreateOpen(c) \/ CreateTruncate(c) \/ CreateMap(c)
           \/ CreateFails(c) \/ CreateStore(c) \/ KillCtl(c)
  PROVE  Places'
<1> USE FourStores, LifecycleAssumption DEF Places, ctlVars, userVars
<1>1. CASE CreateOpen(c)
  <2>1. made' \in 1 .. MaxObjects /\ made' = made + 1 /\ name' = made + 1 /\ 0 \in 0 .. Len(Stores)
    BY <1>1 DEF CreateOpen
  <2>2. name' \in 1 .. made' /\ made + 1 \in 0 .. MaxObjects /\ \A n \in 1 .. made : n \in 1 .. made'
    BY <2>1
  <2>3. ASSUME NEW d \in Ctls
        PROVE  /\ cPc'[d] # "idle" => cObj'[d] \in 1 .. made'
               /\ cPc'[d] \in {"truncate", "map"} => cStored'[d] = 0
               /\ cPc'[d] = "store" => cStored'[d] < Len(Stores)
    <3>1. CASE d = c
      BY <1>1, <2>1, <3>1 DEF CreateOpen
    <3>2. CASE d # c
      BY <1>1, <2>2, <3>2 DEF CreateOpen
    <3> QED
      BY <3>1, <3>2
  <2>4. /\ cPc' \in [Ctls -> {"idle", "truncate", "map", "store"}]
        /\ cObj' \in [Ctls -> 0 .. MaxObjects] /\ cStored' \in [Ctls -> 0 .. Len(Stores)]
    BY <1>1, <2>1, <2>2 DEF CreateOpen
  <2> QED
    BY <1>1, <2>1, <2>2, <2>3, <2>4 DEF CreateOpen
<1>2. CASE CreateTruncate(c) \/ CreateMap(c)
  <2>1. /\ cPc' \in [Ctls -> {"idle", "truncate", "map", "store"}] /\ UNCHANGED <<cObj, cStored, made>>
        /\ cPc[c] # "idle" /\ cStored[c] = 0 /\ cPc'[c] \in {"map", "store"} /\ \A d \in Ctls \ {c} : cPc'[d] = cPc[d]
    BY <1>2 DEF CreateTruncate, CreateMap
  <2> QED
    BY <1>2, <2>1 DEF CreateTruncate, CreateMap
<1>3. CASE CreateFails(c) \/ KillCtl(c)
  <2>1. /\ cPc' \in [Ctls -> {"idle", "truncate", "map", "store"}] /\ UNCHANGED <<cObj, made, cStored>>
        /\ cPc'[c] = "idle" /\ \A d \in Ctls \ {c} : cPc'[d] = cPc[d]
    BY <1>3 DEF CreateFails, KillCtl
  <2>2. name' \in 0 .. made /\ kills' \in 0 .. MaxKills
    BY <1>3 DEF CreateFails, KillCtl, None
  <2> QED
    BY <1>3, <2>1, <2>2 DEF CreateFails, KillCtl
<1>4. CASE CreateStore(c)
  <2>1. cStored[c] \in 0 .. 3 /\ cPc[c] = "store"
    BY <1>4 DEF CreateStore
  <2>2. /\ cPc' \in [Ctls -> {"idle", "truncate", "map", "store"}] /\ UNCHANGED <<cObj, made>>
        /\ cPc'[c] = IF cStored[c] + 1 = 4 THEN "idle" ELSE "store"
        /\ cStored' \in [Ctls -> 0 .. 4] /\ cStored'[c] = cStored[c] + 1
        /\ \A d \in Ctls \ {c} : cPc'[d] = cPc[d] /\ cStored'[d] = cStored[d]
    BY <1>4, <2>1 DEF CreateStore
  <2> QED
    BY <1>4, <2>1, <2>2 DEF CreateStore
<1> QED
  BY <1>1, <1>2, <1>3, <1>4

LEMMA PlacesOther ==
  ASSUME Places,
         \/ Destroy \/ Push \/ Pop \/ UNCHANGED vars
         \/ \E u \in Users : AttachOpen(u) \/ AttachMap(u) \/ Detach(u)
  PROVE  Places'
<1> USE LifecycleAssumption DEF Places, ctlVars, userVars
<1>1. CASE Destroy
  BY <1>1 DEF Destroy, None
<1>2. CASE Push \/ Pop \/ UNCHANGED vars
  BY <1>2 DEF Push, Pop, vars
<1>3. ASSUME NEW u \in Users, AttachOpen(u) PROVE Places'
  <2>1. name \in 1 .. made /\ name \in 0 .. MaxObjects
    BY <1>3 DEF AttachOpen, None
  <2> QED
    BY <1>3, <2>1 DEF AttachOpen
<1>4. ASSUME NEW u \in Users, AttachMap(u) \/ Detach(u) PROVE Places'
  BY <1>4 DEF AttachMap, Detach
<1> QED
  BY <1>1, <1>2, <1>3, <1>4

LEMMA PlacesStep == ASSUME Places, [Next]_vars PROVE Places'
BY PlacesCreate, PlacesOther DEF Next

\* What a process has mapped has a size, before and after.
LEMMA MappedStep ==
  ASSUME TypeOK, CreatorsApart, UntouchedUntilUsable, [Next]_vars,
         NEW u \in Users, uPc'[u] = "attached"
  PROVE  obj'[uObj'[u]].sized
<1>1. \/ uPc[u] = "attached" /\ uObj'[u] = uObj[u]
      \/ uPc[u] = "opened" /\ uObj'[u] = uObj[u] /\ obj[uObj[u]].sized
  <2>1. ASSUME NEW v \in Users, AttachOpen(v) \/ AttachMap(v) \/ Detach(v)
        PROVE  \/ uPc[u] = "attached" /\ uObj'[u] = uObj[u]
               \/ uPc[u] = "opened" /\ uObj'[u] = uObj[u] /\ obj[uObj[u]].sized
    BY <2>1 DEF TypeOK, AttachOpen, AttachMap, Detach
  <2>2. CASE UNCHANGED userVars
    BY <2>2 DEF userVars
  <2>3. UNCHANGED userVars \/ \E v \in Users : AttachOpen(v) \/ AttachMap(v) \/ Detach(v)
    BY DEF Next, vars, userVars, CreateOpen, CreateTruncate, CreateMap, CreateFails,
           CreateStore, KillCtl, Destroy, Push, Pop
  <2> QED
    BY <2>1, <2>2, <2>3
<1>2. uObj[u] \in Objects /\ obj[uObj[u]].sized
  BY <1>1, LifecycleAssumption DEF TypeOK, Objects
<1> QED
  BY <1>1, <1>2, MemoryStep DEF Grows

LEMMA NextTypeOK ==
  ASSUME TypeOK, CreatorsApart, UntouchedUntilUsable, [Next]_vars PROVE TypeOK'
<1>1. Places'
  <2>1. Places
    BY CreatorKnows DEF TypeOK, Places
  <2> QED
    BY <2>1, PlacesStep
<1>2. obj' \in [Objects -> Memory]
  BY MemoryStep
<1>3. ASSUME NEW o \in Objects
      PROVE  /\ obj'[o].tail <= obj'[o].head /\ obj'[o].head <= obj'[o].tail + Capacity
             /\ obj'[o].set # {} => obj'[o].sized
  BY MemoryStep DEF Grows
<1>4. ASSUME NEW u \in Users, uPc'[u] = "attached" PROVE obj'[uObj'[u]].sized
  BY <1>4, MappedStep
<1> QED
  BY <1>1, <1>2, <1>3, <1>4 DEF TypeOK, Places

--------------------------------------------------------------------------------
(* Creators stay apart *)

\* What CreatorsApart says of one creator at work.
Knows(pc, stored, memory) ==
  /\ pc \in {"truncate", "map"} => memory.set = {} /\ stored = 0
  /\ pc \in {"map", "store"} => memory.sized
  /\ pc = "store" => memory.set = SetBy(stored)

LEMMA ApartIsKnows ==
  CreatorsApart <=>
    /\ \A c, d \in InProgress : cObj[c] = cObj[d] => c = d
    /\ \A c \in InProgress : Knows(cPc[c], cStored[c], obj[cObj[c]])
BY DEF CreatorsApart, Knows, SetBy

\* The same, one state later.
LEMMA ApartIsKnowsLater ==
  CreatorsApart' <=>
    /\ \A c, d \in InProgress' : cObj'[c] = cObj'[d] => c = d
    /\ \A c \in InProgress' : Knows(cPc'[c], cStored'[c], obj'[cObj'[c]])
BY DEF CreatorsApart, Knows, SetBy

\* A creator that works on leaves the others alone.
LEMMA OneWorks ==
  ASSUME TypeOK, CreatorsApart, NEW c \in Ctls, cPc[c] # "idle", UNCHANGED cObj,
         cPc' \in [Ctls -> {"idle", "truncate", "map", "store"}],
         \A d \in Ctls \ {c} :
           /\ cPc'[d] = cPc[d] /\ cStored'[d] = cStored[d]
           /\ cPc[d] # "idle" => obj'[cObj[d]] = obj[cObj[d]],
         cPc'[c] # "idle" => Knows(cPc'[c], cStored'[c], obj'[cObj[c]])
  PROVE  CreatorsApart'
<1>1. InProgress' \subseteq InProgress
  BY DEF InProgress
<1>2. ASSUME NEW d \in InProgress' PROVE Knows(cPc'[d], cStored'[d], obj'[cObj'[d]])
  <2>1. CASE d = c
    BY <2>1 DEF InProgress
  <2>2. CASE d # c
    <3>1. d \in InProgress /\ d \in Ctls \ {c} /\ cPc[d] # "idle"
      BY <1>1, <2>2 DEF InProgress
    <3> QED
      BY <3>1, ApartIsKnows
  <2> QED
    BY <2>1, <2>2
<1>3. ASSUME NEW d \in InProgress', NEW e \in InProgress', cObj'[d] = cObj'[e] PROVE d = e
  BY <1>1, <1>3, ApartIsKnows
<1> QED
  BY <1>2, <1>3, ApartIsKnowsLater

LEMMA CreatorsApartStep ==
  ASSUME TypeOK, CreatorsApart, UntouchedUntilUsable, [Next]_vars PROVE CreatorsApart'
<1>1. ASSUME NEW c \in Ctls, CreateOpen(c) PROVE CreatorsApart'
  <2>1. /\ cPc[c] = "idle" /\ cPc'[c] = "truncate" /\ cStored'[c] = 0 /\ cObj'[c] = made + 1
        /\ \A d \in Ctls \ {c} : cPc'[d] = cPc[d] /\ cStored'[d] = cStored[d] /\ cObj'[d] = cObj[d]
        /\ obj' = obj /\ made + 1 \in Objects /\ made + 1 > made
    BY <1>1, LifecycleAssumption DEF CreateOpen, TypeOK, Objects
  <2>2. obj'[made + 1].set = {}
    BY <2>1 DEF UntouchedUntilUsable, Fresh
  <2>3. ASSUME NEW d \in InProgress', d # c
        PROVE  d \in InProgress /\ d \in Ctls \ {c} /\ cObj'[d] \in 1 .. made
    <3>1. d \in InProgress /\ d \in Ctls \ {c}
      BY <2>1, <2>3 DEF InProgress
    <3> QED
      BY <2>1, <3>1 DEF TypeOK, InProgress
  <2>4. ASSUME NEW d \in InProgress' PROVE Knows(cPc'[d], cStored'[d], obj'[cObj'[d]])
    <3>1. CASE d = c
      BY <2>1, <2>2, <3>1 DEF Knows
    <3>2. CASE d # c
      BY <2>1, <2>3, <3>2, ApartIsKnows
    <3> QED
      BY <3>1, <3>2
  <2>5. ASSUME NEW d \in InProgress', NEW e \in InProgress', cObj'[d] = cObj'[e] PROVE d = e
    <3>1. made + 1 \notin 1 .. made
      BY LifecycleAssumption DEF TypeOK
    <3>2. CASE d = c \/ e = c
      BY <2>1, <2>3, <2>5, <3>1, <3>2
    <3>3. CASE d # c /\ e # c
      BY <2>1, <2>3, <2>5, <3>3, ApartIsKnows
    <3> QED
      BY <3>2, <3>3
  <2> QED
    BY <2>4, <2>5, ApartIsKnowsLater
<1>2. ASSUME NEW c \in Ctls,
             CreateTruncate(c) \/ CreateMap(c) \/ CreateFails(c) \/ CreateStore(c) \/ KillCtl(c)
      PROVE CreatorsApart'
  <2>1. cPc[c] # "idle" /\ UNCHANGED cObj /\ cObj[c] \in Objects /\ obj[cObj[c]] \in Memory
    <3>1. cPc[c] # "idle" /\ UNCHANGED cObj
      BY <1>2 DEF CreateTruncate, CreateMap, CreateFails, CreateStore, KillCtl
    <3> QED
      BY <3>1, CreatorKnows DEF TypeOK
  <2>2. cPc' \in [Ctls -> {"idle", "truncate", "map", "store"}]
    BY <1>2, FourStores DEF CreateTruncate, CreateMap, CreateFails, CreateStore, KillCtl, TypeOK
  <2>3. ASSUME NEW d \in Ctls \ {c}
        PROVE  /\ cPc'[d] = cPc[d] /\ cStored'[d] = cStored[d]
               /\ cPc[d] # "idle" => obj'[cObj[d]] = obj[cObj[d]]
    <3>1. cPc'[d] = cPc[d] /\ cStored'[d] = cStored[d]
      BY <1>2, <2>1 DEF CreateTruncate, CreateMap, CreateFails, CreateStore, KillCtl, TypeOK
    <3>2. ASSUME cPc[d] # "idle" PROVE cObj[d] # cObj[c] /\ cObj[d] \in Objects
      BY <2>1, <3>2, CreatorKnows
    <3>3. ASSUME cPc[d] # "idle" PROVE obj'[cObj[d]] = obj[cObj[d]]
      BY <1>2, <2>1, <3>2, <3>3
         DEF CreateTruncate, CreateMap, CreateFails, CreateStore, KillCtl, TypeOK
    <3> QED
      BY <3>1, <3>3
  <2>4. ASSUME cPc'[c] # "idle" PROVE Knows(cPc'[c], cStored'[c], obj'[cObj[c]])
    <3>1. CASE CreateTruncate(c)
      <4>1. /\ cPc'[c] = "map" /\ cStored'[c] = 0
            /\ obj'[cObj[c]] = [obj[cObj[c]] EXCEPT !.sized = TRUE] /\ obj[cObj[c]].set = {}
        BY <2>1, <3>1, CreatorKnows DEF CreateTruncate, TypeOK
      <4> QED
        BY <2>1, <4>1 DEF Knows, Memory
    <3>2. CASE CreateMap(c)
      <4>1. /\ cPc'[c] = "store" /\ cStored'[c] = 0
            /\ obj' = obj /\ obj[cObj[c]].set = {} /\ obj[cObj[c]].sized
        BY <2>1, <3>2, CreatorKnows DEF CreateMap, TypeOK
      <4> QED
        BY <4>1, SetByStores DEF Knows
    <3>3. CASE CreateFails(c) \/ KillCtl(c)
      BY <2>4, <3>3 DEF CreateFails, KillCtl, TypeOK
    <3>4. CASE CreateStore(c)
      <4>1. /\ cPc'[c] = "store" /\ cStored'[c] = cStored[c] + 1 /\ obj[cObj[c]].sized
            /\ obj'[cObj[c]] = [obj[cObj[c]] EXCEPT !.set = SetBy(cStored[c] + 1)]
        <5>1. obj' = [obj EXCEPT ![cObj[c]].set = SetBy(cStored[c] + 1)]
          BY <3>4, StoreEffect
        <5>2. cPc'[c] \in {"idle", "store"} /\ cStored'[c] = cStored[c] + 1
          BY <3>4 DEF CreateStore, TypeOK
        <5>3. obj[cObj[c]].sized
          BY <3>4, CreatorKnows DEF CreateStore
        <5> QED
          BY <2>1, <2>4, <5>1, <5>2, <5>3 DEF TypeOK
      <4> QED
        BY <2>1, <4>1 DEF Knows, Memory
    <3> QED
      BY <1>2, <3>1, <3>2, <3>3, <3>4
  <2> QED
    BY <2>1, <2>2, <2>3, <2>4, OneWorks
<1>3. ASSUME \/ Destroy \/ Push \/ Pop \/ UNCHANGED vars
             \/ \E u \in Users : AttachOpen(u) \/ AttachMap(u) \/ Detach(u)
      PROVE CreatorsApart'
  <2>1. UNCHANGED ctlVars
    BY <1>3 DEF Destroy, Push, Pop, vars, AttachOpen, AttachMap, Detach
  <2>2. \A o \in Objects : obj'[o].sized = obj[o].sized /\ obj'[o].set = obj[o].set
    <3>1. CASE Push
      BY <3>1 DEF Push, TypeOK, Memory
    <3>2. CASE Pop
      BY <3>2 DEF Pop, TypeOK, Memory
    <3>3. CASE ~Push /\ ~Pop
      BY <1>3, <3>3 DEF Destroy, vars, AttachOpen, AttachMap, Detach
    <3> QED
      BY <3>1, <3>2, <3>3
  <2>3. InProgress' = InProgress
    BY <2>1 DEF InProgress, ctlVars
  <2>4. ASSUME NEW d \in InProgress PROVE Knows(cPc'[d], cStored'[d], obj'[cObj'[d]])
    <3>1. cObj[d] \in Objects /\ Knows(cPc[d], cStored[d], obj[cObj[d]])
      BY ApartIsKnows, CreatorKnows DEF InProgress
    <3> QED
      BY <2>1, <2>2, <3>1 DEF Knows, ctlVars
  <2> QED
    BY <2>1, <2>3, <2>4, ApartIsKnows, ApartIsKnowsLater DEF ctlVars
<1> QED
  BY <1>1, <1>2, <1>3 DEF Next

--------------------------------------------------------------------------------
(* The inductive invariant *)

LEMMA UntouchedStep ==
  ASSUME TypeOK, CreatorsApart, UntouchedUntilUsable, [Next]_vars
  PROVE  UntouchedUntilUsable'
BY MemoryStep DEF UntouchedUntilUsable, Grows, Usable

\* A complete ring stays complete.
LEMMA UsableStays ==
  ASSUME TypeOK, CreatorsApart, UntouchedUntilUsable, [Next]_vars,
         NEW o \in Objects, Usable(o)
  PROVE  Usable(o)'
<1>1. obj[o].set = {"mask", "elem"} /\ obj[o].set \subseteq obj'[o].set /\ obj'[o] \in Memory
  BY MemoryStep DEF Grows, Usable
<1> QED
  BY <1>1 DEF Memory, Usable

\* A creator at work is at work on the same object after the step, or it failed,
\* was killed, or completed the ring.
LEMMA CreatorStep ==
  ASSUME TypeOK, CreatorsApart, UntouchedUntilUsable, [Next]_vars, NEW d \in InProgress
  PROVE  /\ cObj'[d] = cObj[d] /\ d \in Ctls
         /\ \/ d \in InProgress'
            \/ CreateFails(d) \/ KillCtl(d)
            \/ Usable(cObj[d])'
<1>1. d \in Ctls /\ cPc[d] # "idle"
  BY DEF InProgress
<1>2. ASSUME NEW c \in Ctls, c # d,
             CreateOpen(c) \/ CreateTruncate(c) \/ CreateMap(c)
               \/ CreateFails(c) \/ CreateStore(c) \/ KillCtl(c)
      PROVE  cObj'[d] = cObj[d] /\ d \in InProgress'
  BY <1>1, <1>2 DEF CreateOpen, CreateTruncate, CreateMap, CreateFails, CreateStore, KillCtl,
                    InProgress, TypeOK
<1>3. ASSUME CreateTruncate(d) \/ CreateMap(d)
      PROVE  cObj'[d] = cObj[d] /\ d \in InProgress'
  BY <1>1, <1>3 DEF CreateTruncate, CreateMap, InProgress, TypeOK
<1>4. ASSUME CreateFails(d) \/ KillCtl(d) PROVE cObj'[d] = cObj[d]
  BY <1>4 DEF CreateFails, KillCtl
<1>5. ASSUME CreateStore(d)
      PROVE  cObj'[d] = cObj[d] /\ (d \in InProgress' \/ Usable(cObj[d])')
  <2>1. /\ obj' = [obj EXCEPT ![cObj[d]].set = SetBy(cStored[d] + 1)]
        /\ cObj[d] \in Objects /\ cStored[d] \in 0 .. 3 /\ obj[cObj[d]] \in Memory
    BY <1>1, <1>5, StoreEffect
  <2>2. cObj' = cObj /\ cPc'[d] = IF cStored[d] + 1 = 4 THEN "idle" ELSE "store"
    BY <1>1, <1>5, FourStores DEF CreateStore, TypeOK
  <2>3. CASE cStored[d] + 1 = 4
    <3>1. obj'[cObj[d]].set = {"mask", "elem"}
      BY <2>1, <2>3, SetByStores DEF TypeOK, Memory
    <3> QED
      BY <2>2, <3>1 DEF Usable
  <2>4. CASE cStored[d] + 1 # 4
    BY <1>1, <2>2, <2>4 DEF InProgress
  <2> QED
    BY <2>3, <2>4
<1>6. ASSUME \/ Destroy \/ Push \/ Pop \/ UNCHANGED vars
             \/ \E u \in Users : AttachOpen(u) \/ AttachMap(u) \/ Detach(u)
      PROVE  cObj'[d] = cObj[d] /\ d \in InProgress'
  BY <1>1, <1>6 DEF Destroy, Push, Pop, vars, AttachOpen, AttachMap, Detach, ctlVars, InProgress
<1>7. ~CreateOpen(d)
  BY <1>1 DEF CreateOpen
<1> QED
  BY <1>1, <1>2, <1>3, <1>4, <1>5, <1>6, <1>7 DEF Next

LEMMA NamedIsMindedStep ==
  ASSUME IInv, [Next]_vars PROVE NamedIsMinded'
<1> USE DEF IInv
<1> SUFFICES ASSUME kills' = 0, name' # None
             PROVE  Usable(name)' \/ \E c \in InProgress' : cObj'[c] = name'
  BY DEF NamedIsMinded
<1>1. ASSUME NEW c \in Ctls, CreateOpen(c) PROVE c \in InProgress' /\ cObj'[c] = name'
  BY <1>1 DEF CreateOpen, InProgress, TypeOK
<1>2. CASE name' = name /\ kills = 0
  <2>1. name \in Objects
    BY <1>2, LifecycleAssumption DEF TypeOK, Objects, None
  <2>2. CASE Usable(name)
    BY <1>2, <2>1, <2>2, UsableStays DEF Usable
  <2>3. ASSUME NEW d \in InProgress, cObj[d] = name
        PROVE  Usable(name)' \/ \E c \in InProgress' : cObj'[c] = name'
    <3>1. ~CreateFails(d) /\ ~KillCtl(d)
      BY <1>2 DEF CreateFails, KillCtl
    <3> QED
      BY <1>2, <2>3, <3>1, CreatorStep DEF Usable
  <2> QED
    BY <1>2, <2>2, <2>3 DEF NamedIsMinded
<1>3. (name' = name /\ kills = 0) \/ \E c \in Ctls : CreateOpen(c)
  <2>1. kills = 0
    <3>1. kills' = kills \/ kills' = kills + 1
      BY DEF Next, vars, CreateOpen, CreateTruncate, CreateMap, CreateFails, CreateStore, KillCtl,
             Destroy, AttachOpen, AttachMap, Detach, Push, Pop
    <3>2. kills \in Nat
      BY LifecycleAssumption DEF TypeOK
    <3> QED
      BY <3>1, <3>2
  <2>2. name' = name \/ \E c \in Ctls : CreateOpen(c)
    BY DEF Next, vars, CreateTruncate, CreateMap, CreateFails, CreateStore, KillCtl,
           Destroy, AttachOpen, AttachMap, Detach, Push, Pop
  <2> QED
    BY <2>1, <2>2
<1> QED
  BY <1>1, <1>2, <1>3

LEMMA CreatorHasNameStep ==
  ASSUME IInv, [Next]_vars PROVE CreatorHasName'
<1> USE DEF IInv
<1> SUFFICES ASSUME destroys' = 0, NEW d \in InProgress' PROVE cObj'[d] = name'
  BY DEF CreatorHasName
<1>1. destroys = 0 /\ ~Destroy
  <2>1. destroys' = destroys \/ (Destroy /\ destroys' = destroys + 1)
    BY DEF Next, vars, CreateOpen, CreateTruncate, CreateMap, CreateFails, CreateStore, KillCtl,
           Destroy, AttachOpen, AttachMap, Detach, Push, Pop
  <2>2. destroys \in Nat
    BY LifecycleAssumption DEF TypeOK
  <2> QED
    BY <2>1, <2>2 DEF Destroy
<1>2. \A c \in InProgress : cObj[c] = name
  BY <1>1 DEF CreatorHasName
<1>3. ASSUME NEW c \in Ctls, CreateOpen(c) PROVE cObj'[d] = name'
  <2>1. InProgress = {}
    <3>1. ASSUME NEW e \in InProgress PROVE cObj[e] # None
      BY CreatorKnows, LifecycleAssumption DEF InProgress, None, Objects
    <3> QED
      BY <1>2, <1>3, <3>1 DEF CreateOpen
  <2>2. d = c
    BY <1>3, <2>1 DEF CreateOpen, InProgress, TypeOK
  <2> QED
    BY <1>3, <2>2 DEF CreateOpen, TypeOK
<1>4. ASSUME NEW c \in Ctls, CreateFails(c) PROVE cObj'[d] = name'
  <2>1. c \in InProgress /\ d # c /\ d \in InProgress
    BY <1>4 DEF CreateFails, InProgress, TypeOK
  <2> QED
    BY <1>2, <2>1 DEF CreatorsApart
<1>5. CASE name' = name /\ cObj' = cObj /\ InProgress' \subseteq InProgress
  BY <1>2, <1>5
<1>6. \/ name' = name /\ cObj' = cObj /\ InProgress' \subseteq InProgress
      \/ \E c \in Ctls : CreateOpen(c) \/ CreateFails(c)
  <2>1. ASSUME NEW c \in Ctls, CreateTruncate(c) \/ CreateMap(c) \/ CreateStore(c) \/ KillCtl(c)
        PROVE  name' = name /\ cObj' = cObj /\ InProgress' \subseteq InProgress
    BY <2>1 DEF CreateTruncate, CreateMap, CreateStore, KillCtl, InProgress, TypeOK
  <2>2. ASSUME \/ Push \/ Pop \/ UNCHANGED vars
               \/ \E u \in Users : AttachOpen(u) \/ AttachMap(u) \/ Detach(u)
        PROVE  name' = name /\ cObj' = cObj /\ InProgress' \subseteq InProgress
    BY <2>2 DEF Push, Pop, vars, AttachOpen, AttachMap, Detach, ctlVars, InProgress
  <2> QED
    BY <1>1, <2>1, <2>2 DEF Next
<1> QED
  BY <1>3, <1>4, <1>5, <1>6

LEMMA InitIInv == Init => IInv
<1> SUFFICES ASSUME Init PROVE IInv
  OBVIOUS
<1>1. TypeOK
  BY InitTypeOK
<1>2. InProgress = {} /\ name = None
  BY DEF Init, InProgress
<1>3. \A o \in Objects : obj[o] = Fresh
  BY DEF Init
<1>4. UntouchedUntilUsable
  BY <1>3 DEF UntouchedUntilUsable, Fresh
<1> QED
  BY <1>1, <1>2, <1>4 DEF IInv, CreatorsApart, NamedIsMinded, CreatorHasName

LEMMA NextIInv == ASSUME IInv, [Next]_vars PROVE IInv'
<1>1. TypeOK /\ CreatorsApart /\ UntouchedUntilUsable
  BY DEF IInv
<1>2. TypeOK' /\ CreatorsApart' /\ UntouchedUntilUsable'
  BY <1>1, NextTypeOK, CreatorsApartStep, UntouchedStep
<1>3. NamedIsMinded' /\ CreatorHasName'
  BY NamedIsMindedStep, CreatorHasNameStep
<1> QED
  BY <1>2, <1>3 DEF IInv

\* Every creator works alone on an object of its own, in the order of the
\* stores, and nobody touches a ring that is not complete
\* (ring.cpp:138-170, :189).
THEOREM Invariance == Spec => []IInv
<1>1. Init => IInv
  BY InitIInv
<1>2. IInv /\ [Next]_vars => IInv'
  BY NextIInv
<1> QED
  BY <1>1, <1>2, PTL DEF Spec

\* What a process has mapped has a size, and no ring ever holds fewer than no
\* elements or more than fit (ring.cpp:138-199).
THEOREM TypeCorrect == Spec => []TypeOK
<1>1. IInv => TypeOK
  BY DEF IInv
<1> QED
  BY <1>1, Invariance, PTL

\* Without a kill, and with no create in progress, the name bears a complete
\* ring: a create that fails leaves no trace (ring.cpp:149, :160).
THEOREM Complete == Spec => []NamedIsComplete
<1>1. IInv => NamedIsComplete
  BY DEF IInv, NamedIsMinded, NamedIsComplete, InProgress
<1> QED
  BY <1>1, Invariance, PTL

\* No store of a creator takes an index back, whoever attached meanwhile
\* (ring.cpp:164-165).
THEOREM NeverBack == Spec => IndicesNeverMoveBack
<1>1. IInv /\ [Next]_vars =>
        [\A o \in Objects : obj'[o].head >= obj[o].head /\ obj'[o].tail >= obj[o].tail]_vars
  BY MemoryStep DEF IInv, Grows
<1> QED
  BY <1>1, Invariance, PTL DEF Spec, IndicesNeverMoveBack

\* As long as nobody destroys a ring, a complete ring keeps its name: an error
\* path unlinks the object its own create has made (ring.cpp:149, :160).
THEOREM KeepsName == Spec => OnlyDestroyRemoves
<1>1. ASSUME IInv, [Next]_vars, destroys' = 0, name # None, Usable(name)
      PROVE  name' = name
  <2>1. destroys = 0 /\ ~Destroy
    <3>1. destroys' = destroys \/ (Destroy /\ destroys' = destroys + 1)
      BY <1>1 DEF Next, vars, CreateOpen, CreateTruncate, CreateMap, CreateFails, CreateStore,
                  KillCtl, Destroy, AttachOpen, AttachMap, Detach, Push, Pop
    <3>2. destroys \in Nat
      BY <1>1, LifecycleAssumption DEF IInv, TypeOK
    <3> QED
      BY <1>1, <3>1, <3>2 DEF Destroy
  <2>2. ASSUME NEW c \in Ctls PROVE ~CreateFails(c)
    <3>1. CASE cPc[c] # "idle"
      <4>1. cObj[c] = name /\ ~Usable(cObj[c])
        BY <1>1, <2>1, <3>1, InProgressIncomplete DEF IInv, CreatorHasName, InProgress
      <4> QED
        BY <1>1, <4>1
    <3> QED
      BY <3>1 DEF CreateFails
  <2>3. ASSUME NEW c \in Ctls PROVE ~CreateOpen(c)
    BY <1>1 DEF CreateOpen
  <2> QED
    BY <1>1, <2>1, <2>2, <2>3
       DEF Next, vars, CreateTruncate, CreateMap, CreateStore, KillCtl, AttachOpen, AttachMap,
           Detach, Push, Pop
<1>2. IInv /\ [Next]_vars => [destroys' = 0 /\ name # None /\ Usable(name) => name' = name]_vars
  BY <1>1
<1> QED
  BY <1>2, Invariance, PTL DEF Spec, OnlyDestroyRemoves
================================================================================
