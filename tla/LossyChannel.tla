----------------------------- MODULE LossyChannel -----------------------------
(***************************************************************************)
(* What the programs promise together: datagrams numbered in order of      *)
(* reception travel to a file in that order, at most once each.  Some may  *)
(* be lost on the way, all at once those that one process or buffer holds, *)
(* and the file may be begun anew; every loss is counted.  Pipeline shows  *)
(* that ingress, parser and worker_risk do this.                           *)
(***************************************************************************)
EXTENDS Naturals, Sequences

VARIABLES
  sent,       \* how many datagrams have been received from the socket
  transit,    \* the numbers of those on their way, oldest first
  delivered,  \* the numbers of those in the file
  losses      \* how many have been lost

vars == <<sent, transit, delivered, losses>>

Init == sent = 0 /\ transit = <<>> /\ delivered = <<>> /\ losses = 0

Send ==
  /\ sent' = sent + 1
  /\ transit' = Append(transit, sent + 1)
  /\ UNCHANGED <<delivered, losses>>

\* The first n arrive.
Deliver(n) ==
  /\ delivered' = delivered \o SubSeq(transit, 1, n)
  /\ transit' = SubSeq(transit, n + 1, Len(transit))
  /\ UNCHANGED <<sent, losses>>

\* Those from the i-th to the j-th are lost.
Lose(i, j) ==
  /\ transit' = SubSeq(transit, 1, i - 1) \o SubSeq(transit, j + 1, Len(transit))
  /\ losses' = losses + (j + 1 - i)
  /\ UNCHANGED <<sent, delivered>>

BeginAnew ==
  /\ losses' = losses + Len(delivered)
  /\ delivered' = <<>>
  /\ UNCHANGED <<sent, transit>>

Next ==
  \/ Send \/ BeginAnew
  \/ \E n \in 1 .. Len(transit) : Deliver(n)
  \/ \E i, j \in 1 .. Len(transit) : i <= j /\ Lose(i, j)

Spec == Init /\ [][Next]_vars
================================================================================
