------------------------------- MODULE Sharing -------------------------------
(***************************************************************************)
(* "Resolving shared connections": after parse_hosts, main() goes through  *)
(* the list of IPs once and hands the traffic of every IP that shares a    *)
(* class over to the IP whose class it shares, whose mark it takes.        *)
(*                                                                         *)
(* list is the C list from its head, the line of the hosts file that came  *)
(* last first: a name is looked up in that order.                          *)
(***************************************************************************)
EXTENDS Integers, Sequences, SequencesExt, FiniteSetsExt

CONSTANTS
  Addr,          \* ip->addr
  Name, NoName,  \* ip->name; no ip->sharing
  Code, NoCode   \* ip->code, and the "-----" of an IP without one

IpType ==
  [addr : Addr, name : Name, sharing : Name \cup {NoName}, code : Code \cup {NoCode},
   mark : Nat, pps_limit : Nat, v6 : BOOLEAN, uplink : BOOLEAN,
   traffic : Nat, direct : Nat, upload : Nat, traffic_down : Nat, traffic_up : Nat]

ASSUME SharingAssumption == NoName \notin Name /\ NoCode \notin Code

VARIABLES
  given,         \* the list as parse_hosts left it
  list,
  pos,           \* `ip' of the outer loop
  prefixes,      \* <<uplink, IP>>: the IPv4 address an uplink was given
  unresolved     \* the IPs that were reported

sharing_vars == <<given, list, pos, prefixes, unresolved>>

(* eq(sharedip->name, ip->sharing), the first one of the list              *)
SharedIp(ip) == SelectInSeq(list, LAMBDA e : e.name = ip.sharing)

\* Seeded fault: all of the traffic is taken for download.
Credited_Down(e, ip) ==
  [e EXCEPT !.traffic = @ + ip.traffic, !.traffic_down = @ + ip.traffic]

(* What the sharer's totals become.                                        *)
Credited(e, ip) ==
  [e EXCEPT !.traffic = @ + ip.traffic,
            !.traffic_down = @ + ip.direct,
            !.traffic_up = @ + ip.upload]

\* Seeded fault: the traffic stays.
Debited_Kept(ip, e) ==
  [ip EXCEPT !.mark = e.mark, !.code = e.code, !.pps_limit = e.pps_limit]

\* Seeded fault: what the sharer has by now is subtracted.
Debited_Subtracted(ip, e) ==
  [ip EXCEPT !.traffic = @ - e.traffic, !.mark = e.mark, !.code = e.code,
             !.pps_limit = e.pps_limit]

(* What becomes of the IP that shares: it keeps direct and upload.         *)
Debited(ip, e) ==
  [ip EXCEPT !.traffic = 0, !.mark = e.mark, !.code = e.code,
             !.pps_limit = e.pps_limit]

(* An IPv6 uplink is completed by the IPv4 address of the IP it is for.    *)
Prefixed(ip, e) == ip.uplink /\ ~e.v6

StartSharing == given' = list /\ pos' = 1

Own ==
  /\ pos <= Len(list) /\ list[pos].sharing = NoName
  /\ pos' = pos + 1
  /\ UNCHANGED <<given, list, prefixes, unresolved>>

Resolve ==
  LET s == SharedIp(list[pos])
      credited == [list EXCEPT ![s] = Credited(@, list[pos])]
  IN
  /\ pos <= Len(list) /\ list[pos].sharing # NoName /\ s # 0
  /\ list' = [credited EXCEPT ![pos] = Debited(@, credited[s])]
  /\ prefixes' = IF Prefixed(list[pos], list[s])
                 THEN prefixes \cup {<<pos, s>>} ELSE prefixes
  /\ pos' = pos + 1
  /\ UNCHANGED <<given, unresolved>>

Unresolved ==
  /\ pos <= Len(list) /\ list[pos].sharing # NoName /\ SharedIp(list[pos]) = 0
  /\ unresolved' = unresolved \cup {pos}
  /\ pos' = pos + 1
  /\ UNCHANGED <<given, list, prefixes>>

Share == Own \/ Resolve \/ Unresolved

-----------------------------------------------------------------------------

(* The pass has gone through the list: pos is 0 before it.                 *)
Ended == pos = Len(list) + 1 /\ Len(given) = Len(list)

(* The hosts files that mean something: the IP whose class is shared has a *)
(* class of its own, and no IP is named after the one it shares with.      *)
Direct(l) ==
  \A i \in 1..Len(l) : l[i].sharing # NoName =>
    \A j \in 1..Len(l) : l[j].name = l[i].sharing => l[j].sharing = NoName

(* What the pass is for, as one equation per IP, whatever the order of the *)
(* lines: an IP that shares hands over everything, and the first IP of a   *)
(* name gets what all those that share it had counted.  One that finds     *)
(* nobody of the name, and stays without a class, is reported.             *)
FirstOf(l, n) == SelectInSeq(l, LAMBDA e : e.name = n)
SharersOf(l, i) ==
  {j \in 1..Len(l) : l[j].sharing # NoName /\ FirstOf(l, l[j].sharing) = i}

Resolved ==
  Ended /\ Direct(given) =>
    \A i \in 1..Len(list) :
      LET s == FirstOf(given, given[i].sharing) IN
      IF given[i].sharing # NoName /\ s # 0
      THEN /\ list[i].traffic = 0
           /\ list[i].mark = given[s].mark /\ list[i].code = given[s].code
           /\ list[i].pps_limit = given[s].pps_limit
           /\ Prefixed(given[i], given[s]) => <<i, s>> \in prefixes
      ELSE /\ given[i].sharing # NoName <=> i \in unresolved
           /\ list[i].traffic = given[i].traffic
                + SumFunctionOnSet([j \in 1..Len(given) |-> given[j].traffic], SharersOf(given, i))
           /\ list[i].traffic_down = given[i].traffic_down
                + SumFunctionOnSet([j \in 1..Len(given) |-> given[j].direct], SharersOf(given, i))
           /\ list[i].traffic_up = given[i].traffic_up
                + SumFunctionOnSet([j \in 1..Len(given) |-> given[j].upload], SharersOf(given, i))

(* No step of the pass loses or invents traffic, chains included, unless   *)
(* an IP shares with its own name: it finds itself before any older line.  *)
TrafficConserved ==
  pos > 0 /\ (\A i \in 1..Len(given) : FirstOf(given, given[i].sharing) # i) =>
    SumFunction([i \in 1..Len(list) |-> list[i].traffic])
      = SumFunction([i \in 1..Len(given) |-> given[i].traffic])
=============================================================================
