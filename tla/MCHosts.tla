------------------------------- MODULE MCHosts -------------------------------
(***************************************************************************)
(* A hosts file of up to MaxLines lines, drawn from nine that between them *)
(* repeat addresses, ranges and guaranteed rates, fall below MinGroup and  *)
(* below free_min, name their own range, and have ceilings on both sides   *)
(* of every test; it is read with counters and without any.  The id space  *)
(* left to groups is two, so that it overflows within the bound.           *)
(***************************************************************************)
EXTENDS Hosts

MCAddr == {"a1", "a2", "a3", "range1", "range2", "uplink1", "net1", "any"}
MCName == {"ann", "bob", "net"}
MCKey == {"plain", "fine"}
MCReserveMin == [plain |-> 0, fine |-> 2]
MCReserveMax == [plain |-> 8, fine |-> 1]
MCAvgMtu == [plain |-> 0, fine |-> 512]
MCNoMax == -1
MCWithin == {<<"a1", "net1">>, <<"a2", "net1">>} \cup
            {<<a, a>> : a \in {"a1", "a2", "a3"}}

Class(a, n, k, min, max, r, u) ==
  [kind |-> "class", addr |-> a, name |-> n, key |-> k, target |-> n,
   min |-> min, max |-> max, range |-> r, uplink |-> u]
Other(kind, a, n, t, r, u) ==
  [kind |-> kind, addr |-> a, name |-> n, key |-> "plain", target |-> t,
   min |-> 0, max |-> NoMax, range |-> r, uplink |-> u]

MCLine == {
  Class("a1", "ann", "plain", 4, 20, "range1", NoAddr),
  Class("a1", "ann", "fine", 10, NoMax, NoAddr, "uplink1"),
  Class("a2", "bob", "fine", 10, 12, NoAddr, NoAddr),
  Class("a2", "bob", "plain", 8, 12, "range1", NoAddr),
  Class("a3", "ann", "plain", 0, 40, NoAddr, NoAddr),
  Class("range2", "bob", "plain", 6, 30, "range2", NoAddr),
  Other("sharing", "a2", "bob", "ann", "range1", "uplink1"),
  Other("sharing", "a3", "bob", "bob", NoAddr, "uplink1"),
  Other("network", "net1", "net", "net", "range1", NoAddr) }

MCCounted == {<<>>, <<"any", "a1">>, <<"range1", "a2">>}
=============================================================================
