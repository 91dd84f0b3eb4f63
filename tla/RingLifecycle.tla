----------------------------- MODULE RingLifecycle -----------------------------
(***************************************************************************)
(* The life of a ring under one shared-memory name: ringctl processes that *)
(* create and destroy it, and the parser and the worker that attach to it  *)
(* at any time, also while it is being created or after it was destroyed.  *)
(*                                                                         *)
(* An object outlives its name as long as a process maps it.  Creation is  *)
(* modelled call by call and store by store (src/ring.cpp:138-170), since  *)
(* nothing keeps an attacher out until it is complete.                     *)
(***************************************************************************)
EXTENDS Naturals, Sequences

CONSTANTS
  Ctls,        \* ringctl processes that create
  MaxObjects,  \* bound on the objects created
  Capacity,    \* elements that fit in a ring
  MaxPushes,   \* bound on the pushes to one object
  MaxKills,    \* bound on the ringctl processes killed
  MaxDestroys  \* bound on the rings destroyed

ASSUME LifecycleAssumption ==
  /\ MaxObjects \in Nat \ {0} /\ Capacity \in Nat \ {0}
  /\ MaxPushes \in Nat /\ MaxKills \in Nat /\ MaxDestroys \in Nat

VARIABLES
  name,     \* the object the name refers to, or None
  made,     \* objects created so far, numbered 1 .. made
  obj,      \* their memory
  cPc, cObj, cStored,  \* ringctl create: step, its object, stores done
  uPc, uObj,           \* parser and worker: step and object
  kills, destroys

ctlVars == <<cPc, cObj, cStored>>
userVars == <<uPc, uObj>>
vars == <<name, made, obj, ctlVars, userVars, kills, destroys>>
--------------------------------------------------------------------------------
None == 0
Users == {"parser", "worker"}
Objects == 1 .. MaxObjects

\* What shm_open creates: size 0, and once it has a size all zero.
Fresh == [sized |-> FALSE, head |-> 0, tail |-> 0, set |-> {}]

\* Fault: the header is filled in before the indices are reset.
FaultStores == <<"mask", "elem", "head", "tail">>

\* The stores of spsc_create_shared in their order.
Stores == <<"head", "tail", "mask", "elem">>

\* With elem_size 0 a push and a pop return false at once, and with mask 0
\* the ring looks full to a push: until both are set the ring does nothing.
Usable(o) == obj[o].set = {"mask", "elem"}

Init ==
  /\ name = None /\ made = 0 /\ kills = 0 /\ destroys = 0
  /\ obj = [o \in Objects |-> Fresh]
  /\ cPc = [c \in Ctls |-> "idle"]
  /\ cObj = [c \in Ctls |-> None]
  /\ cStored = [c \in Ctls |-> 0]
  /\ uPc = [u \in Users |-> "detached"]
  /\ uObj = [u \in Users |-> None]
--------------------------------------------------------------------------------
(* spsc_create_shared *)

\* Fault: O_CREAT without O_EXCL opens a ring that exists.
FaultCreateOpen(c) ==
  /\ cPc[c] = "idle" /\ made < MaxObjects
  /\ made' = IF name = None THEN made + 1 ELSE made
  /\ name' = IF name = None THEN made + 1 ELSE name
  /\ cObj' = [cObj EXCEPT ![c] = name']
  /\ cPc' = [cPc EXCEPT ![c] = "truncate"]
  /\ cStored' = [cStored EXCEPT ![c] = 0]
  /\ UNCHANGED <<obj, userVars, kills, destroys>>

\* shm_open with O_CREAT and O_EXCL; it fails without effect on a name in use.
CreateOpen(c) ==
  /\ cPc[c] = "idle" /\ name = None /\ made < MaxObjects
  /\ made' = made + 1
  /\ name' = made + 1
  /\ cObj' = [cObj EXCEPT ![c] = made + 1]
  /\ cPc' = [cPc EXCEPT ![c] = "truncate"]
  /\ cStored' = [cStored EXCEPT ![c] = 0]
  /\ UNCHANGED <<obj, userVars, kills, destroys>>

CreateTruncate(c) ==
  /\ cPc[c] = "truncate"
  /\ obj' = [obj EXCEPT ![cObj[c]].sized = TRUE]
  /\ cPc' = [cPc EXCEPT ![c] = "map"]
  /\ UNCHANGED <<name, made, cObj, cStored, userVars, kills, destroys>>

CreateMap(c) ==
  /\ cPc[c] = "map"
  /\ cPc' = [cPc EXCEPT ![c] = "store"]
  /\ UNCHANGED <<name, made, obj, cObj, cStored, userVars, kills, destroys>>

\* Fault: the name is not removed when mmap fails.
FaultCreateFails(c) ==
  /\ cPc[c] \in {"truncate", "map"}
  /\ name' = IF cPc[c] = "truncate" THEN None ELSE name
  /\ cPc' = [cPc EXCEPT ![c] = "idle"]
  /\ UNCHANGED <<made, obj, cObj, cStored, userVars, kills, destroys>>

\* ftruncate or mmap fails: the name is unlinked, whatever it refers to by now.
CreateFails(c) ==
  /\ cPc[c] \in {"truncate", "map"}
  /\ name' = None
  /\ cPc' = [cPc EXCEPT ![c] = "idle"]
  /\ UNCHANGED <<made, obj, cObj, cStored, userVars, kills, destroys>>

Stored(memory, field) ==
  CASE field = "head" -> [memory EXCEPT !.head = 0]
    [] field = "tail" -> [memory EXCEPT !.tail = 0]
    [] OTHER -> [memory EXCEPT !.set = @ \cup {field}]

CreateStore(c) ==
  /\ cPc[c] = "store"
  /\ obj' = [obj EXCEPT ![cObj[c]] = Stored(@, Stores[cStored[c] + 1])]
  /\ cStored' = [cStored EXCEPT ![c] = @ + 1]
  /\ cPc' = [cPc EXCEPT ![c] = IF cStored[c] + 1 = Len(Stores) THEN "idle" ELSE "store"]
  /\ UNCHANGED <<name, made, cObj, userVars, kills, destroys>>

KillCtl(c) ==
  /\ cPc[c] # "idle" /\ kills < MaxKills
  /\ cPc' = [cPc EXCEPT ![c] = "idle"]
  /\ kills' = kills + 1
  /\ UNCHANGED <<name, made, obj, cObj, cStored, userVars, destroys>>

\* spsc_destroy_shared, by ringctl or one of the scripts, at any time.
Destroy ==
  /\ name # None /\ destroys < MaxDestroys
  /\ name' = None
  /\ destroys' = destroys + 1
  /\ UNCHANGED <<made, obj, ctlVars, userVars, kills>>
--------------------------------------------------------------------------------
(* The parser and the worker *)

\* shm_open in spsc_attach_shared.
AttachOpen(u) ==
  /\ uPc[u] = "detached" /\ name # None
  /\ uObj' = [uObj EXCEPT ![u] = name]
  /\ uPc' = [uPc EXCEPT ![u] = "opened"]
  /\ UNCHANGED <<name, made, obj, ctlVars, kills, destroys>>

\* Fault: the result of mmap is not tested.
FaultAttachMap(u) ==
  /\ uPc[u] = "opened"
  /\ uPc' = [uPc EXCEPT ![u] = "attached"]
  /\ UNCHANGED <<name, made, obj, ctlVars, uObj, kills, destroys>>

\* fstat and mmap, which fails as long as the size is 0.
AttachMap(u) ==
  /\ uPc[u] = "opened"
  /\ uPc' = [uPc EXCEPT ![u] = IF obj[uObj[u]].sized THEN "attached" ELSE "detached"]
  /\ UNCHANGED <<name, made, obj, ctlVars, uObj, kills, destroys>>

\* A push that succeeds; any other changes nothing in the ring.
Push ==
  LET o == uObj["parser"] IN
  /\ uPc["parser"] = "attached" /\ Usable(o)
  /\ obj[o].head - obj[o].tail < Capacity /\ obj[o].head < MaxPushes
  /\ obj' = [obj EXCEPT ![o].head = @ + 1]
  /\ UNCHANGED <<name, made, ctlVars, userVars, kills, destroys>>

Pop ==
  LET o == uObj["worker"] IN
  /\ uPc["worker"] = "attached" /\ Usable(o)
  /\ obj[o].tail # obj[o].head
  /\ obj' = [obj EXCEPT ![o].tail = @ + 1]
  /\ UNCHANGED <<name, made, ctlVars, userVars, kills, destroys>>

\* The process ends, by itself or killed; the kernel unmaps the object.
Detach(u) ==
  /\ uPc[u] # "detached"
  /\ uPc' = [uPc EXCEPT ![u] = "detached"]
  /\ UNCHANGED <<name, made, obj, ctlVars, uObj, kills, destroys>>

Next ==
  \/ \E c \in Ctls :
       \/ CreateOpen(c) \/ CreateTruncate(c) \/ CreateMap(c)
       \/ CreateFails(c) \/ CreateStore(c) \/ KillCtl(c)
  \/ Destroy
  \/ \E u \in Users : AttachOpen(u) \/ AttachMap(u) \/ Detach(u)
  \/ Push \/ Pop

Spec == Init /\ [][Next]_vars
--------------------------------------------------------------------------------
\* The memory of an object, once it has a size.
Memory == [sized : BOOLEAN, head : 0 .. MaxPushes, tail : 0 .. MaxPushes,
           set : SUBSET {"mask", "elem"}]

\* What a process has mapped is an object with a size (ring.cpp:189), and the
\* indices of every object are those of a ring with at most Capacity elements.
TypeOK ==
  /\ made \in 0 .. MaxObjects /\ name \in 0 .. made
  /\ kills \in 0 .. MaxKills /\ destroys \in 0 .. MaxDestroys
  /\ obj \in [Objects -> Memory]
  /\ \A o \in Objects :
       /\ obj[o].tail <= obj[o].head /\ obj[o].head <= obj[o].tail + Capacity
       /\ obj[o].set # {} => obj[o].sized
  /\ cPc \in [Ctls -> {"idle", "truncate", "map", "store"}]
  /\ cObj \in [Ctls -> 0 .. MaxObjects] /\ cStored \in [Ctls -> 0 .. Len(Stores)]
  /\ \A c \in Ctls :
       /\ cPc[c] # "idle" => cObj[c] \in 1 .. made
       /\ cPc[c] = "store" => cStored[c] < Len(Stores)
  /\ uPc \in [Users -> {"detached", "opened", "attached"}]
  /\ uObj \in [Users -> 0 .. MaxObjects]
  /\ \A u \in Users :
       /\ uPc[u] # "detached" => uObj[u] \in 1 .. made
       /\ uPc[u] = "attached" => obj[uObj[u]].sized

\* Creating a ring never discards a message: no store of ring.cpp:164-165 takes
\* an index back, although a parser may attach and push before the creator is
\* done, and several ringctl processes create and destroy at the same time.
IndicesNeverMoveBack ==
  [][\A o \in Objects :
       obj'[o].head >= obj[o].head /\ obj'[o].tail >= obj[o].tail]_vars

\* A create that fails half way leaves no trace: unless a ringctl was killed,
\* what the name refers to when no create is in progress is a complete ring, and
\* the next create or attach does not trip over a remainder.
NamedIsComplete ==
  kills = 0 /\ name # None /\ (\A c \in Ctls : cPc[c] = "idle") => Usable(name)

\* As long as nobody destroys a ring, no error path does: CreateFails unlinks by
\* name (ring.cpp:149, :160), but a complete ring under that name keeps it, also
\* when several ringctl processes create at the same time.
OnlyDestroyRemoves ==
  [][destroys' = 0 /\ name # None /\ Usable(name) => name' = name]_vars
--------------------------------------------------------------------------------
(* What the creators in progress know *)

InProgress == {c \in Ctls : cPc[c] # "idle"}

\* Every creator works on an object of its own, has given it a size before it
\* maps it, and has done its stores in their order.
CreatorsApart ==
  /\ \A c, d \in InProgress : cObj[c] = cObj[d] => c = d
  /\ \A c \in InProgress :
       LET memory == obj[cObj[c]] IN
       /\ cPc[c] \in {"truncate", "map"} => memory.set = {} /\ cStored[c] = 0
       /\ cPc[c] \in {"map", "store"} => memory.sized
       /\ cPc[c] = "store" =>
            memory.set = {Stores[i] : i \in 1 .. cStored[c]} \cap {"mask", "elem"}

\* Nobody pushes to or pops from a ring that is not complete, and an object
\* nobody has created yet is as shm_open will make it.
UntouchedUntilUsable ==
  \A o \in Objects :
    /\ ~Usable(o) => obj[o].head = 0 /\ obj[o].tail = 0
    /\ o > made => obj[o] = Fresh

\* Without a kill, whatever bears the name is complete or being completed.
NamedIsMinded ==
  kills = 0 /\ name # None => Usable(name) \/ \E c \in InProgress : cObj[c] = name

\* Without a destroy, a creator in progress holds the name, so it is alone.
CreatorHasName == destroys = 0 => \A c \in InProgress : cObj[c] = name

\* The inductive invariant.
IInv == TypeOK /\ CreatorsApart /\ UntouchedUntilUsable /\ NamedIsMinded /\ CreatorHasName
================================================================================
