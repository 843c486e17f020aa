-------------------------------- MODULE Hosts --------------------------------
(***************************************************************************)
(* parse_hosts: the hosts file becomes the list of IPs with their HTB      *)
(* class ids, and the list of QoS groups (one group per guaranteed rate).  *)
(*                                                                         *)
(* A hosts line is a record: its kind (what the strstr tests of            *)
(* parse_hosts make of it), the addresses and names it holds and its two   *)
(* numbers.  A line that starts with no digit, or in which no keyword is   *)
(* found, changes nothing.  The IPv6 parts of a line are `range' (xxxx::)  *)
(* and `uplink' (xxxx::+), NoAddr when absent.                             *)
(*                                                                         *)
(* The C list `ips' grows at its head.  Here `ips' and `nets' are in order *)
(* of creation, so that the list is read from the last element to the      *)
(* first; `groups' is in list order.                                       *)
(***************************************************************************)
EXTENDS Cll1

CONSTANTS
  Addr,          \* what stands in an address field, IPv6 ranges and uplinks too
  NoAddr,        \* no such IPv6 part in the line
  Name,          \* the names of hosts; an IPv6 entry is named by its address
  NoName,        \* "" of ip->name, NULL of ip->sharing
  Key,           \* the keywords of prometheus.conf
  FirstKey,      \* head of the keywords list
  DefaultKey,    \* defaultkeyword
  ReserveMin,    \* keyword->reserve_min
  ReserveMax,    \* keyword->reserve_max
  AvgMtu,        \* keyword->allowed_avgmtu, 0 for no packet limit
  FreeMin,       \* free_min of prometheus.conf
  FreeMax,       \* free_max of prometheus.conf
  Unregistered,  \* 0.0.0.0/0, the counters of the catch-all rule
  Ip6,           \* ip6prefix is set
  Within,        \* <<a, n>>: address a lies in network n (locate_network);
                 \* an IPv4 address lies in itself
  FIRSTGROUPID, FIRSTIPCLASS,
  PpsCap,        \* 10000, the largest packet limit iptables takes
  MinGroup,      \* 8, the least rate of a group
  NoMax,         \* a class line without the "-max" part
  Line,          \* the lines a hosts file can be made of
  Counted,       \* the address lists get_traffic_statistics can have left
  MaxLines       \* bound on the length of the hosts file

LineType ==
  [kind : {"class", "sharing", "network"}, addr : Addr, name : Name, key : Key,
   target : Name, min : Nat, max : Nat \cup {NoMax},
   range : Addr \cup {NoAddr}, uplink : Addr \cup {NoAddr}]

ASSUME HostsAssumption ==
  /\ NoAddr \notin Addr /\ NoName \notin Name \cup Addr
  /\ FirstKey \in Key /\ DefaultKey \in Key
  /\ ReserveMin \in [Key -> Nat] /\ ReserveMax \in [Key -> Nat]
  /\ AvgMtu \in [Key -> Nat]
  /\ FreeMin \in Nat /\ FreeMax \in Nat /\ Unregistered \in Addr
  /\ PpsCap \in Nat /\ MinGroup \in Nat \ {0}
  /\ FIRSTGROUPID \in Nat \ {0} /\ FIRSTIPCLASS \in Nat
  /\ FIRSTGROUPID < FIRSTIPCLASS
  /\ NoMax \in Int \ Nat
  /\ Ip6 \in BOOLEAN
  /\ Line \subseteq LineType
  /\ Counted \subseteq Seq(Addr)
  /\ \A c \in Counted : \A i, j \in 1..Len(c) : i # j => c[i] # c[j]
  /\ \A l \in Line : l.uplink # NoAddr =>      \* it alone holds a "::+"
       /\ \A m \in Line : l.uplink \notin {m.addr, m.range}
       /\ \A c \in Counted : \A i \in 1..Len(c) : c[i] # l.uplink
  /\ MaxLines \in Nat

VARIABLES
  ips,           \* struct IP list, oldest first
  nets,          \* struct IP list `networks', oldest first
  groups,        \* struct Group list, head first
  keyCount,      \* keyword->ip_count
  class_count,
  groupidx,
  lines          \* lines of the hosts file read so far

vars == <<ips, nets, groups, keyCount, class_count, groupidx, lines>>

(* TheIP: a new IP, which push puts in front of the list.  ip->group is    *)
(* left to malloc: a class line sets it, and only networks, which count    *)
(* members in it that nobody looks at, use it before.  0 stands for        *)
(* whatever it holds.                                                      *)
TheIP(a) ==
  [addr |-> a, name |-> NoName, sharing |-> NoName, key |-> FirstKey,
   uplink |-> FALSE, mark |-> 0, group |-> 0, min |-> 0, max |-> 0,
   desired |-> 0, fixedprio |-> FALSE, pps_limit |-> 0]

(* An IP that get_traffic_statistics met in the counters.                  *)
CountedIP(a) ==
  IF a = Unregistered
  THEN [TheIP(a) EXCEPT !.min = FreeMin, !.max = FreeMax, !.desired = FreeMax]
  ELSE [TheIP(a) EXCEPT !.name = a]

(* if_exists(ip, list, eq(ip->addr, a)): its index, 0 when there is none.  *)
Find(list, a) == SelectLastInSeq(list, LAMBDA e : e.addr = a)

(* if_exists ... else TheIP(a, ...): the list in which a surely stands.    *)
FoundOrNew(list, a) ==
  IF Find(list, a) = 0 THEN Append(list, TheIP(a)) ELSE list

HasRange(l)  == Ip6 /\ l.range # NoAddr
HasUplink(l) == Ip6 /\ l.uplink # NoAddr

\* Seeded fault: the range is pushed without looking for it.
WithRange_Unchecked(list, l, owner) ==
  IF ~HasRange(l) THEN list
  ELSE Append(list, [TheIP(l.range) EXCEPT !.name = l.range, !.key = DefaultKey,
                                           !.sharing = owner])

RangeEntry(e, a, owner) ==
  [e EXCEPT !.name = a, !.key = DefaultKey,
            !.sharing = IF owner = NoName THEN e.sharing ELSE owner]

(* The IPv6 range of a line: unique, so that a second line naming it takes *)
(* over the entry.  It shares the class of `owner', if the line gives one. *)
WithRange(list, l, owner) ==
  IF ~HasRange(l) THEN list
  ELSE LET s == FoundOrNew(list, l.range) IN
       [s EXCEPT ![Find(s, l.range)] = RangeEntry(@, l.range, owner)]

(* The IPv6 uplink of a line: always a new IP.                             *)
WithUplink(list, l, owner) ==
  IF ~HasUplink(l) THEN list
  ELSE Append(list, [TheIP(l.uplink) EXCEPT !.name = l.uplink,
                       !.key = DefaultKey, !.sharing = owner, !.uplink = TRUE])

(* The IPv6 parts of a line, and the sharing of lastIP6range and           *)
(* lastIP6uplink that the two callers on `ips' set after the call.         *)
WithParts(l, owner) == WithUplink(WithRange(ips, l, owner), l, owner)

(* parse_and_append_ip looks the address up from the head that the caller  *)
(* passed, which is older than the parts of the line: a line with its own  *)
(* address for a range adds it a second time.                              *)
Named(l, owner) ==
  [IF Find(ips, l.addr) = 0 THEN TheIP(l.addr)
   ELSE WithParts(l, owner)[Find(ips, l.addr)] EXCEPT !.name = l.name]

(* A head that is NULL is taken for that of `networks' when that one is    *)
(* NULL too: the new IP becomes a network.                                 *)
Stray == ips = <<>> /\ nets = <<>>

(* parse_and_append_ip on `ips', once the caller made e of Named(l, owner) *)
ParseAndAppendIp(l, owner, e) ==
  IF Stray THEN WithParts(l, owner)
  ELSE IF Find(ips, l.addr) = 0 THEN Append(WithParts(l, owner), e)
  ELSE [WithParts(l, owner) EXCEPT ![Find(ips, l.addr)] = e]

-----------------------------------------------------------------------------

Init ==
  /\ \E c \in Counted : ips = [i \in 1..Len(c) |-> CountedIP(c[i])]
  /\ nets = <<>>
  /\ groups = <<>>
  /\ keyCount = [k \in Key |-> 0]
  /\ class_count = 0
  /\ groupidx = FIRSTGROUPID
  /\ lines = 0

(* "sharing-NAME": the IP has no class of its own.                         *)
SharingLine ==
  \E l \in Line :
    LET e == [Named(l, l.target) EXCEPT !.sharing = l.target, !.key = DefaultKey] IN
    /\ l.kind = "sharing"
    /\ lines < MaxLines
    /\ ips' = ParseAndAppendIp(l, l.target, e)
    /\ nets' = IF Stray THEN <<e>> ELSE nets
    /\ lines' = lines + 1
    /\ UNCHANGED <<groups, keyCount, class_count, groupidx>>

(* "#255.": a network.  Its line's IPv6 parts become IPs all the same, and *)
(* nobody sets their sharing.                                              *)
NetworkLine ==
  \E l \in Line :
    LET s == FoundOrNew(nets, l.addr) IN
    /\ l.kind = "network"
    /\ lines < MaxLines
    /\ nets' = [s EXCEPT ![Find(s, l.addr)] = [@ EXCEPT !.name = l.name]]
    /\ ips' = WithParts(l, NoName)
    /\ lines' = lines + 1
    /\ UNCHANGED <<groups, keyCount, class_count, groupidx>>

(* min and max of a class line: "0" asks for free_min; a ceiling that does *)
(* not exceed the rate is replaced by rate + reserve_min, another one is   *)
(* lowered by reserve_max, but never below the rate.  Without "-max" the   *)
(* ceiling is what the entry holds already (0 for a new one).              *)
MinOf(l) == IF l.min = 0 THEN FreeMin ELSE l.min
TopOf(l, e) == IF l.max = NoMax THEN e.max ELSE l.max
Fixed(l, e) == TopOf(l, e) <= MinOf(l)

\* Seeded fault: the reserve is taken off without a floor.
MaxOf_NoFloor(l, e) ==
  IF Fixed(l, e) THEN MinOf(l) + ReserveMin[l.key]
  ELSE TopOf(l, e) - ReserveMax[l.key]

MaxOf(l, e) ==
  IF Fixed(l, e) THEN MinOf(l) + ReserveMin[l.key]
  ELSE IF TopOf(l, e) - ReserveMax[l.key] < MinOf(l) THEN MinOf(l)
  ELSE TopOf(l, e) - ReserveMax[l.key]

PacketRatio(k) == (AvgMtu[k] * 8) \div 1024

PacketLimit(l, e) ==
  LET limit == MaxOf(l, e) \div PacketRatio(l.key) IN
  IF PacketRatio(l.key) = 0 THEN e.pps_limit
  ELSE IF limit > PpsCap THEN 0 ELSE limit

\* Seeded fault: the ceiling asked for is kept when the line asks for none.
Classified_NoCeiling(l, e) ==
  [e EXCEPT !.key = l.key, !.min = MinOf(l), !.max = MaxOf(l, e),
            !.desired = l.max, !.mark = FIRSTIPCLASS + 1 + class_count]

\* Seeded fault: the mark counts the classes of the keyword, not all of them.
Classified_PerKeyword(l, e) ==
  [e EXCEPT !.key = l.key, !.min = MinOf(l), !.max = MaxOf(l, e),
            !.mark = FIRSTIPCLASS + 1 + keyCount[l.key]]

(* The IP after the main branch of parse_hosts, up to its group.           *)
Classified(l, e) ==
  [e EXCEPT !.key = l.key,
            !.min = MinOf(l),
            !.max = MaxOf(l, e),
            !.desired = IF l.max = NoMax THEN @ ELSE l.max,
            !.fixedprio = @ \/ Fixed(l, e),
            !.pps_limit = PacketLimit(l, e),
            !.mark = FIRSTIPCLASS + 1 + class_count]

(* update_network: the newest network that holds the address adds the IP   *)
(* up.                                                                     *)
NetworkOf(a) == SelectLastInSeq(nets, LAMBDA n : <<a, n.addr>> \in Within)

Larger(a, b) == IF a > b THEN a ELSE b

WithMember(n, e) ==
  [n EXCEPT !.group = @ + 1,
            !.min = @ + e.min,
            !.max = Larger(e.max, @),
            !.desired = Larger(Larger(e.max, n.max), n.min + e.min) \div 1024]

UpdateNetwork(a, e) ==
  IF NetworkOf(a) = 0 THEN nets
  ELSE [nets EXCEPT ![NetworkOf(a)] = WithMember(@, e)]

(* The IP that became a network is the first one to look in, and holds     *)
(* itself: it doubles its own rate.  (For an IPv6 one locate_network reads *)
(* `total' before it is set: it skips it, or dies.)                        *)
Counting(a, e) == IF Stray /\ <<a, a>> \in Within THEN WithMember(e, e) ELSE e

\* Seeded fault: any group that is large enough will do.
GroupOf_Larger(min) == IfExists(groups, LAMBDA g : g.min >= min)

(* The group of a guaranteed rate: an existing one, or a new one whose     *)
(* rate is raised to MinGroup after the search and before the insertion.   *)
GroupOf(min) == IfExists(groups, LAMBDA g : g.min = min)

\* Seeded fault: a group starts without its first member.
NewGroup_Empty(min) ==
  [id |-> groupidx, min |-> IF min < MinGroup THEN MinGroup ELSE min,
   count |-> 0, desired |-> 0]

NewGroup(min) ==
  [id |-> groupidx, min |-> IF min < MinGroup THEN MinGroup ELSE min,
   count |-> 1, desired |-> min]

\* Seeded fault: order_by instead of desc_order_by.
LessMin_Rising(b, a) == b.min > a.min

Joined(g, min) ==
  [g EXCEPT !.count = @ + 1, !.desired = @ + min]

(* desc_order_by on min *)
LessMin(b, a) == b.min < a.min

(* A line with a keyword: the IP gets its own HTB class, marked with the   *)
(* next class id, below the group of its guaranteed rate.                  *)
ClassLine ==
  \E l \in Line :
    LET c  == Classified(l, Named(l, l.name))
        n  == Counting(l.addr, c)
        gi == GroupOf(n.min)
        e  == [n EXCEPT !.group = IF gi = 0 THEN groupidx ELSE groups[gi].id]
    IN
    /\ l.kind = "class"
    /\ lines < MaxLines
    /\ ips' = ParseAndAppendIp(l, l.name, e)
    /\ nets' = IF Stray THEN <<e>> ELSE UpdateNetwork(l.addr, c)
    /\ keyCount' = [keyCount EXCEPT ![l.key] = @ + 1]
    /\ class_count' = class_count + 1
    /\ lines' = lines + 1
    /\ \/ /\ gi # 0
          /\ groups' = [groups EXCEPT ![gi] = Joined(@, n.min)]
          /\ UNCHANGED groupidx
       \/ /\ gi = 0
          /\ groups' = Insert(NewGroup(n.min), groups, LessMin)
          /\ groupidx' = groupidx + 1

Next == SharingLine \/ NetworkLine \/ ClassLine

Spec == Init /\ [][Next]_vars

-----------------------------------------------------------------------------

IpType ==
  [addr : Addr, name : Name \cup Addr \cup {NoName},
   sharing : Name \cup {NoName}, key : Key, uplink : BOOLEAN,
   mark : Nat, group : Nat, min : Nat, max : Nat, desired : Nat,
   fixedprio : BOOLEAN, pps_limit : Nat]

GroupType == [id : Nat, min : Nat, count : Nat, desired : Nat]

(* Every variable keeps its type: the lists hold well-formed records, the  *)
(* counters are naturals.                                                  *)
TypeOK ==
  /\ ips \in Seq(IpType)
  /\ nets \in Seq(IpType)
  /\ groups \in Seq(GroupType)
  /\ keyCount \in [Key -> Nat]
  /\ class_count \in Nat
  /\ groupidx \in Nat
  /\ lines \in 0..MaxLines

(* prometheus.c nests each group under the group before it, which is right *)
(* only when the list is in order of falling guaranteed rates.  The order  *)
(* is made by single insertions (parsehosts.c:424), after the rate of a    *)
(* small group was raised to 8.                                            *)
GroupsSorted == \A i, j \in 1..Len(groups) : i < j => groups[i].min >= groups[j].min

(* The class of an IP is hung under the id in ip->group: that group must   *)
(* exist, and must guarantee at least what the IP is guaranteed.           *)
GroupFits ==
  \A i \in 1..Len(ips) :
    ips[i].mark # 0 =>
      \E g \in 1..Len(groups) :
        /\ groups[g].id = ips[i].group
        /\ groups[g].min = IF ips[i].min < MinGroup THEN MinGroup ELSE ips[i].min

(* One tc namespace holds the ids of all classes: two IPs, two groups, or  *)
(* an IP and a group never get the same one, as long as the groups stay    *)
(* below FIRSTIPCLASS (parsehosts.c:6-7 leave 1024 ids to them, and        *)
(* nothing counts them: every IP below 8 kb/s makes a group of its own).   *)
ClassIdsDistinct ==
  /\ \A i, j \in 1..Len(ips) :
       i # j /\ ips[i].mark # 0 => ips[i].mark # ips[j].mark
  /\ \A g, h \in 1..Len(groups) : g # h => groups[g].id # groups[h].id
  /\ groupidx <= FIRSTIPCLASS + 1 =>
       \A i \in 1..Len(ips), g \in 1..Len(groups) : ips[i].mark # groups[g].id

(* The lists of one guaranteed rate never disagree with their members: a   *)
(* group counts at least the IPs that hang under it (more when a hosts     *)
(* line repeats an address), and what it says it wants covers them.        *)
Members(id) == {i \in 1..Len(ips) : ips[i].mark # 0 /\ ips[i].group = id}

GroupCoversMembers ==
  \A g \in 1..Len(groups) :
    /\ Cardinality(Members(groups[g].id)) <= groups[g].count
    /\ SumFunctionOnSet([i \in 1..Len(ips) |-> ips[i].min], Members(groups[g].id))
         <= groups[g].desired

(* A ceiling below the rate would take back what the rate guarantees, and  *)
(* HTB refuses a class without a rate: every class has min <= max, and a   *)
(* rate of 0 only when free-min is 0, whatever the reserves of its keyword *)
(* and the numbers of earlier lines of the same address were.  Without a   *)
(* class only the entry of the unregistered addresses has a rate.          *)
RateBelowCeil ==
  \A i \in 1..Len(ips) :
    /\ ips[i].mark # 0 =>
         ips[i].min <= ips[i].max /\ (ips[i].min = 0 => FreeMin = 0)
    /\ ips[i].mark = 0 /\ ips[i].min > 0 => ips[i].addr = Unregistered

(* An address is one entry of the list, however many lines and counters    *)
(* name it; only IPv6 uplinks may repeat, and the addresses of lines that  *)
(* name their own address as their range (parsehosts.c:140 looks the range *)
(* up, :177 an older list).                                                *)
OwnRange(a) == \E l \in Line : HasRange(l) /\ l.range = l.addr /\ l.addr = a

OneEntryPerAddress ==
  \A i, j \in 1..Len(ips) :
    i # j /\ ips[i].addr = ips[j].addr =>
      \/ ips[i].uplink /\ ips[j].uplink
      \/ OwnRange(ips[i].addr)

-----------------------------------------------------------------------------

(* What the repository says and the code does not do.                      *)

(* A line "192.168.1.2 mypc #via-prometheus-256-512 sets HTB rate for      *)
(* 192.168.1.2" (conf/prometheus.conf:26): once a class line is read, the  *)
(* list that becomes the HTB classes holds an IP with a class.             *)
ClassIsListed == class_count > 0 => \E i \in 1..Len(ips) : ips[i].mark # 0
=============================================================================
