----------------------------- MODULE MCTraffic -----------------------------
(***************************************************************************)
(* Hosts files of up to Longest lines out of nine: two customers with a    *)
(* class, one of them with an IPv6 range, IPs that share with them, with   *)
(* one that shares in its turn and with nobody, a network with an uplink,  *)
(* a line that is its own range and one with an empty code.  The long      *)
(* listing counts all of their addresses, one in no hosts file and         *)
(* 0.0.0.0/0, in sizes that are told apart in any sum, one of which rounds *)
(* up, one down and one to nothing.                                        *)
(***************************************************************************)
EXTENDS Traffic

CONSTANT Longest

MCAddr == {"10.0.0.1", "10.0.0.2", "10.0.0.3", "10.0.0.4", "10.0.0.9", "0.0.0.0/0",
           "2001:db8::", "2001:db8::+"}
MCV6 == {"2001:db8::", "2001:db8::+"}
MCName == MCAddr \cup {"a", "b", "d", "e", "f", "n", "nobody", "(unregistered)"}
MCCode == {"c1", "c2", ""}

Range6 == "2001:db8::"
Uplink6 == "2001:db8::+"

Class(addr, name, mark, code, range) ==
  [kind |-> "class", addr |-> addr, name |-> name, sharing |-> name, mark |-> mark,
   pps_limit |-> mark \div 2, code |-> code, range |-> range, uplink |-> NoAddr]
Sharer(addr, name, sharing, range, uplink) ==
  [kind |-> "sharing", addr |-> addr, name |-> name, sharing |-> sharing, mark |-> 0,
   pps_limit |-> 0, code |-> NoCode, range |-> range, uplink |-> uplink]

HostsLines == {
  Class("10.0.0.1", "a", 20, "c1", Range6), Class("10.0.0.2", "b", 21, "c2", NoAddr),
  Class("10.0.0.3", "d", 22, "", NoAddr),
  Sharer("10.0.0.3", "d", "a", NoAddr, NoAddr), Sharer("10.0.0.3", "d", "b", Range6, Uplink6),
  Sharer("10.0.0.4", "e", "d", NoAddr, NoAddr),
  Sharer("10.0.0.4", "e", "nobody", NoAddr, Uplink6), Sharer(Range6, "f", "a", Range6, NoAddr),
  [Sharer("10.0.0.1", "n", "n", NoAddr, Uplink6) EXCEPT !.kind = "network"] }

MCHostsFiles ==
  {h \in UNION {[1..n -> HostsLines] : n \in 0..Longest} :
     \A i, j \in 1..Len(h) : i # j => h[i] # h[j]}

HeadOf(chain) == [kind |-> "chain", chain |-> chain]
Mark(bytes, src, dst) ==
  [kind |-> "rule", target |-> "mark", bytes |-> bytes, src |-> src, dst |-> dst]
Other(target, bytes) == [Mark(bytes, "0.0.0.0/0", "0.0.0.0/0") EXCEPT !.target = target]

Net0 == "0.0.0.0/0"
IPv4 == <<
  [kind |-> "start"],
  HeadOf("FORWARD"), Other("jump", 4000),
  HeadOf("POSTROUTING"), Other("accept", 4000),
  HeadOf("forw"), Mark(4, "10.0.0.1", Net0), Mark(9, "10.0.0.2", Net0), Mark(1, "10.0.0.4", Net0),
  HeadOf("forw_common"), Mark(16, Net0, Net0),
  HeadOf("post"), Mark(30, Net0, "10.0.0.1"), Mark(64, Net0, "10.0.0.1"),
  Mark(129, Net0, "10.0.0.3"), Mark(256, Net0, "10.0.0.9"),
  HeadOf("other"), Mark(512, Net0, "10.0.0.4") >>
IPv6 == <<
  [kind |-> "start"], Mark(7, "2001:db8::", Net0),
  HeadOf("forw"), Mark(1024, "2001:db8::", Net0),
  HeadOf("post"), Mark(2048, Net0, "2001:db8::") >>
Unmarked == SubSeq(IPv4, 1, 5)

MCListings == {<<>>, Unmarked, IPv4, IPv4 \o IPv6}
MCConfig == [include_upload : BOOLEAN, popups : BOOLEAN]
=============================================================================
