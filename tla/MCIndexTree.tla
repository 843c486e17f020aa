---------------------------- MODULE MCIndexTree ----------------------------
(***************************************************************************)
(* Every subset of a pool of addresses that part at different levels, with *)
(* thresholds of one address and four top indexes (24 and 12 in the code). *)
(* Those of the pool lie in two class A networks and in two IPv6 networks  *)
(* that no level puts together, which is as many as the second threshold   *)
(* lets pass.  The IPv6 network of a range with an uplink is there twice.  *)
(***************************************************************************)
EXTENDS IndexTree

IPv4(a, b, c, d) == [v6 |-> FALSE, part |-> <<a, b, c, d>>]
IPv6(c, d) == [v6 |-> TRUE, part |-> <<10753, 1072, c, d>>]

Pool == <<
  IPv4(10, 1, 1, 1), IPv4(10, 1, 1, 6), IPv4(10, 3, 1, 1), IPv4(10, 200, 1, 1),
  IPv4(192, 168, 1, 1),
  IPv6(2, 23), IPv6(2, 4096), IPv6(36864, 1), IPv6(2, 23) >>

MCInputs ==
  {LET chosen == SelectSeq([i \in 1..Len(Pool) |-> i], LAMBDA i : i \in S)
   IN [n \in 1..Len(chosen) |-> Pool[chosen[n]]] : S \in SUBSET (1..Len(Pool))}
=============================================================================
