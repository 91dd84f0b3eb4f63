------------------------------ MODULE BoundedFifo ------------------------------
(***************************************************************************)
(* What include/ulmd/ring.hpp promises of a ring: one bounded FIFO queue   *)
(* with one producer and one consumer.  A push either appends a whole      *)
(* element or reports that the queue is full; a pop either hands over the  *)
(* oldest element or reports that the queue is empty.  SpscRing shows that *)
(* the shared-memory implementation of src/ring.cpp does this.             *)
(***************************************************************************)
EXTENDS Naturals, Sequences

CONSTANTS
  Elems,      \* the elements that are pushed
  Capacity,   \* how many of them fit
  StaleLoads  \* TRUE: a caller may act on an old view of the other side

VARIABLES
  queue,       \* what has been pushed and not yet popped, oldest first
  pushResult,  \* what the producer's last call returned
  popResult,   \* what the consumer's last call returned
  received     \* the element of a successful pop, as a sequence of length <= 1

vars == <<queue, pushResult, popResult, received>>

PushResults == {"pending", "pushed", "full"}
PopResults  == {"pending", "popped", "empty"}

Init ==
  /\ queue = <<>>
  /\ pushResult = "pending"
  /\ popResult = "pending"
  /\ received = <<>>

StartPush ==
  /\ pushResult' = "pending"
  /\ UNCHANGED <<queue, popResult, received>>

Push(e) ==
  /\ Len(queue) < Capacity
  /\ queue' = Append(queue, e)
  /\ pushResult' = "pushed"
  /\ UNCHANGED <<popResult, received>>

RejectPush ==
  /\ StaleLoads \/ Len(queue) = Capacity
  /\ pushResult' = "full"
  /\ UNCHANGED <<queue, popResult, received>>

StartPop ==
  /\ popResult' = "pending"
  /\ received' = <<>>
  /\ UNCHANGED <<queue, pushResult>>

Pop ==
  /\ queue # <<>>
  /\ received' = <<Head(queue)>>
  /\ queue' = Tail(queue)
  /\ popResult' = "popped"
  /\ UNCHANGED pushResult

ReportEmpty ==
  /\ StaleLoads \/ queue = <<>>
  /\ popResult' = "empty"
  /\ received' = <<>>
  /\ UNCHANGED <<queue, pushResult>>

\* spsc_reset: both sides are between calls, so no call is pending.
Clear ==
  /\ queue' = <<>>
  /\ UNCHANGED <<pushResult, popResult, received>>

Next ==
  \/ StartPush \/ RejectPush
  \/ \E e \in Elems : Push(e)
  \/ StartPop \/ Pop \/ ReportEmpty
  \/ Clear

Spec == Init /\ [][Next]_vars
================================================================================
