------------------------------- MODULE Ledger -------------------------------
(***************************************************************************)
(* What the traffic statistics promise: every megabyte the kernel counted  *)
(* is booked in the traffic logs once, or lost, and none is booked that    *)
(* was not counted.                                                        *)
(***************************************************************************)
EXTENDS Naturals

VARIABLES
  pending,       \* counted and not booked yet
  booked         \* in the traffic logs

Init == pending = 0 /\ booked = 0

Count == pending' = pending + 1 /\ UNCHANGED booked

Book ==
  /\ pending > 0
  /\ pending' = pending - 1
  /\ booked' = booked + 1

(* Counters are reset, or a process dies with what it has read.            *)
Lose ==
  /\ \E n \in 0..pending : pending' = n
  /\ UNCHANGED booked

Next == Count \/ Book \/ Lose

Spec == Init /\ [][Next]_<<pending, booked>>
=============================================================================
