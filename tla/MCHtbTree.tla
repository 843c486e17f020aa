----------------------------- MODULE MCHtbTree -----------------------------
(***************************************************************************)
(* Interfaces of different speeds, one of them slower than the largest     *)
(* guarantee; up to six groups, whose rates make the digital divide hit    *)
(* its floor at different places; below each group an address of its own,  *)
(* and addresses that share the class of another one, before it in the     *)
(* list or after it, IPv4 and IPv6; addresses with a rate that share a     *)
(* mark, which leaves a mark without a class; a class line with free-min 0 *)
(* and what was counted for 0.0.0.0/0.                                     *)
(***************************************************************************)
EXTENDS HtbTree

CONSTANTS Nestings, Sizes

MCSpeed == <<40, 15, 64>>

Rates == <<16, 12, 8, 6, 4, 2>>
Group(k) == [id |-> 10 + k, min |-> Rates[k]]
Own(k, limit) ==
  [mark |-> 20 + k, group |-> 10 + k, min |-> Rates[k] - 1, max |-> Rates[k] + 4,
   limited |-> limit, v6 |-> FALSE]
Shares(k, limit, six) ==
  [mark |-> 20 + k, group |-> 0, min |-> 0, max |-> 0, limited |-> limit, v6 |-> six]
Unmarked == [Shares(0, FALSE, FALSE) EXCEPT !.mark = 0]
Unregistered == [Unmarked EXCEPT !.min = 2, !.max = 4]
Unrated(k) == [Own(k, FALSE) EXCEPT !.min = 0]

Lists(n) ==
  IF n = 0 THEN {<<>>, <<Unmarked>>}
  ELSE {[k \in 1..n |-> Own(k, FALSE)],
        <<Shares(n, TRUE, FALSE), Unmarked>> \o [k \in 1..n |-> Own(k, k = n)],
        [k \in 1..n |-> Own(k, k = 1)] \o <<Shares(1, TRUE, TRUE), Shares(n, n = 1, FALSE)>>,
        <<Shares(1, FALSE, FALSE)>> \o [k \in 1..n |-> [Own(k, FALSE) EXCEPT !.mark = 20 + n]]
          \o <<Unregistered>>,
        [k \in 1..n |-> IF k = n THEN Unrated(k) ELSE Own(k, FALSE)]}

MCConfig ==
  UNION {[groups : {[k \in 1..n |-> Group(k)]}, ips : Lists(n), nesting : Nestings,
          divide : {0, 1, 2}, classify : BOOLEAN, freeMin : {0, 2}, freeMax : {4},
          overlimitMin : {2}, overlimitMax : {3}]
           : n \in Sizes}
=============================================================================
