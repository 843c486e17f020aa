----------------------------- MODULE MCSummary -----------------------------
(***************************************************************************)
(* Directories of up to Longest logs out of nine: with records before and  *)
(* after the month, one record of the month, none, no record at all, no    *)
(* traffic, less than a GB, two records of one second, and logs that begin *)
(* later.                                                                  *)
(***************************************************************************)
EXTENDS Summary

CONSTANT Longest

Rec(time, of, traffic) == [time |-> time, of |-> of, traffic |-> traffic, guaranted |-> time]

Logs == {
  <<Rec(1, FALSE, 8), Rec(2, TRUE, 8), Rec(3, TRUE, 4), Rec(4, FALSE, 16), Rec(5, FALSE, 16)>>,
  <<Rec(2, TRUE, 8), Rec(3, TRUE, 4), Rec(6, FALSE, 2)>>,
  <<Rec(3, TRUE, 1), Rec(4, FALSE, 2)>>,
  <<Rec(2, TRUE, 16)>>,
  <<Rec(1, FALSE, 8)>>,
  <<>>,
  <<Rec(2, TRUE, 0), Rec(3, TRUE, 0)>>,
  <<Rec(2, TRUE, 6), Rec(3, TRUE, 5)>>,
  <<Rec(2, TRUE, 3), Rec(2, TRUE, 1), Rec(9, TRUE, 0)>> }

MCDirectories == UNION {[1..n -> Logs] : n \in 0..Longest}
=============================================================================
