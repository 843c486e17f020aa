------------------------------- MODULE HtbTree -------------------------------
(***************************************************************************)
(* The class tree main() builds with tc and the marks it writes for        *)
(* iptables, one step per turn of its loops: root classes, QoS groups,     *)
(* addresses, free and over-limit classes, restore of the rules.           *)
(*                                                                         *)
(* cfg is what parse_hosts, the sharing pass and the configuration left    *)
(* behind.  classes and filters are the kernel's: what tc makes of a       *)
(* command is modelled from the way HTB uses its arguments.                *)
(***************************************************************************)
EXTENDS Integers, Sequences, FiniteSets

CONSTANTS
  Config,        \* what the earlier passes can have left
  NDev,          \* number of interfaces
  Speed,         \* interface->speed, in kb/s
  Medium,        \* the medium's speed
  MaxDepth       \* TC_HTB_MAXDEPTH, the levels of an HTB tree

FREE_CLASS == 3
OVERLIMIT_CLASS == 4

Dev == 1..NDev

GroupType == [id : Nat, min : Nat]
IpType == [mark : Nat, group : Nat, min : Nat, max : Nat,
           limited : BOOLEAN, v6 : BOOLEAN]
ConfigType ==
  [groups : Seq(GroupType), ips : Seq(IpType), nesting : Nat, divide : Nat,
   classify : BOOLEAN, freeMin : Nat, freeMax : Nat, overlimitMin : Nat,
   overlimitMax : Nat]

(* What parse_hosts and the sharing pass leave, as long as the groups stay *)
(* below FIRSTIPCLASS (GroupsSorted, GroupFits, ClassIdsDistinct of Hosts).*)
(* A mark may be that of several addresses, with a rate or without; it may *)
(* be that of no address with a rate, if the one it was made for shares    *)
(* with another or free-min is 0; and a rate may be without a mark, that   *)
(* of 0.0.0.0/0 always.  No guarantee is compared with a speed.            *)
GoodLists(c) ==
  /\ \A i, j \in 1..Len(c.groups) : i < j => c.groups[i].min >= c.groups[j].min
  /\ \A i, j \in 1..Len(c.groups) : i # j => c.groups[i].id # c.groups[j].id
  /\ \A i \in 1..Len(c.groups) : c.groups[i].id > OVERLIMIT_CLASS
  /\ \A i \in 1..Len(c.ips) : c.ips[i].mark > 0 =>
       /\ c.ips[i].mark > OVERLIMIT_CLASS
       /\ \A g \in 1..Len(c.groups) : c.groups[g].id # c.ips[i].mark
       /\ c.ips[i].min > 0 =>
            \E g \in 1..Len(c.groups) :
              c.groups[g].id = c.ips[i].group /\ c.groups[g].min >= c.ips[i].min

ASSUME HtbAssumption ==
  /\ NDev \in Nat \ {0}
  /\ Speed \in [Dev -> Nat]
  /\ Medium \in Nat
  /\ MaxDepth \in Nat
  /\ Config \subseteq ConfigType
  /\ \A c \in Config : GoodLists(c)

VARIABLES
  cfg,
  phase,         \* the loop main() is in
  dev,           \* its interface
  pos,           \* its group or its IP
  parent,        \* `parent', 1 when the program starts
  rate,          \* `rate'
  nested,        \* group_count
  limited,       \* *limit_pkts, the buffer holds a limit
  classes,       \* HTB classes of the interfaces
  refused,       \* <<interface, id>> of class commands tc turned down
  filters,       \* <<interface, mark>> of the fw filters
  rules,         \* marks the iptables rules set
  classmapped    \* indexes of the IPs in the class map

vars == <<cfg, phase, dev, pos, parent, rate, nested, limited, classes,
          refused, filters, rules, classmapped>>

-----------------------------------------------------------------------------

(* The kernel's HTB.  A parent that is not a class of the interface makes  *)
(* a root class, an id in use and a level below the last are refused.      *)
Known(cs, d, id) == \E c \in cs : c.dev = d /\ c.id = id
Depth(cs, d, id) ==
  IF Known(cs, d, id) THEN (CHOOSE c \in cs : c.dev = d /\ c.id = id).depth ELSE 0

Accepts(cs, d, p, id) == ~Known(cs, d, id) /\ Depth(cs, d, p) < MaxDepth

HtbClass(cs, d, p, id, r, ceil) ==
  [dev |-> d, id |-> id, parent |-> IF Known(cs, d, p) THEN p ELSE 0,
   rate |-> r, ceil |-> ceil, depth |-> Depth(cs, d, p) + 1]

ClassAdd(cs, d, p, id, r, ceil) ==
  IF Accepts(cs, d, p, id) THEN cs \cup {HtbClass(cs, d, p, id, r, ceil)} ELSE cs

Refusal(cs, d, p, id) == IF Accepts(cs, d, p, id) THEN {} ELSE {<<d, id>>}

(* Where a packet with a mark goes: to the leaf class the mark names, past *)
(* HTB altogether (0) when nothing classifies it, since the default class  *)
(* 1:1 is no leaf.  The fw filters are "protocol ip", IPv4 only.           *)
IsLeaf(d, id) == Known(classes, d, id) /\ \A c \in classes : c.dev = d => c.parent # id
Destination(d, mark, v6) ==
  IF IsLeaf(d, mark) /\ (cfg.classify \/ (<<d, mark>> \in filters /\ ~v6))
  THEN mark ELSE 0

-----------------------------------------------------------------------------

Init ==
  /\ cfg \in Config
  /\ phase = "root" /\ dev = 1 /\ pos = 1
  /\ parent = 1
  /\ rate = Speed[1] /\ nested = 0
  /\ limited = FALSE
  /\ classes = {} /\ refused = {} /\ filters = {}
  /\ rules = {} /\ classmapped = {}

(* for_each(interface, interfaces): the next turn, or the next loop.       *)
NextDev(next) ==
  IF dev < NDev THEN dev' = dev + 1 /\ UNCHANGED phase
                ELSE dev' = 1 /\ phase' = next

(* The root qdisc, the medium's class 1:2 and the line's class 1:1.        *)
RootClasses ==
  LET medium == ClassAdd(classes, dev, 0, 2, Medium, Medium) IN
  /\ phase = "root"
  /\ classes' = ClassAdd(medium, dev, 2, 1, Speed[dev], Speed[dev])
  /\ refused' = refused \cup Refusal(classes, dev, 0, 2) \cup Refusal(medium, dev, 2, 1)
  /\ NextDev("groups")
  /\ UNCHANGED <<cfg, pos, parent, rate, nested, limited, filters, rules, classmapped>>

(* Groups are nested in each other until the limit, then side by side.     *)
\* Seeded fault: one level too many.
ParentAfter_OneMore(g) == IF nested <= cfg.nesting THEN g.id ELSE parent

ParentAfter(g) == IF nested < cfg.nesting THEN g.id ELSE parent

\* Seeded fault: the rate of the next group has no floor.
RateAfter_NoFloor(g) == rate - cfg.divide * g.min

\* Seeded fault: the floor is taken from the interface.
RateAfter_Swapped(g) ==
  IF rate - cfg.divide * g.min < g.min THEN rate + g.min
  ELSE rate - cfg.divide * g.min

(* What the next group is guaranteed.                                      *)
RateAfter(g) ==
  IF rate - cfg.divide * g.min < g.min THEN g.min ELSE rate - cfg.divide * g.min

\* Seeded fault: the parent is set before the class is made.
GroupParent_Late(g) == ParentAfter(g)

GroupParent(g) == parent

GroupClass ==
  LET g == cfg.groups[pos] IN
  /\ phase = "groups" /\ pos <= Len(cfg.groups)
  /\ classes' = ClassAdd(classes, dev, GroupParent(g), g.id, rate, Speed[dev])
  /\ refused' = refused \cup Refusal(classes, dev, GroupParent(g), g.id)
  /\ parent' = ParentAfter(g)
  /\ nested' = nested + 1
  /\ rate' = RateAfter(g)
  /\ pos' = pos + 1
  /\ UNCHANGED <<cfg, phase, dev, limited, filters, rules, classmapped>>

(* The next interface starts from its own speed, but keeps `parent'.       *)
GroupsDone ==
  /\ phase = "groups" /\ pos > Len(cfg.groups)
  /\ NextDev("ips")
  /\ pos' = 1 /\ nested' = 0
  /\ rate' = IF dev < NDev THEN Speed[dev + 1] ELSE rate
  /\ UNCHANGED <<cfg, parent, limited, classes, refused, filters, rules, classmapped>>

(* for_each(ip, ips) if(ip->mark > 0)                                      *)
SkipIp ==
  /\ phase = "ips" /\ pos <= Len(cfg.ips) /\ cfg.ips[pos].mark = 0
  /\ pos' = pos + 1
  /\ UNCHANGED <<cfg, phase, dev, parent, rate, nested, limited, classes,
                 refused, filters, rules, classmapped>>

\* Seeded fault: the first rule of a limited address accepts what it marks.
IpRules_Unlimited(ip) ==
  {[dev |-> dev, over |-> FALSE, v6 |-> ip.v6, owner |-> ip.mark,
    mark |-> IF ip.limited THEN OVERLIMIT_CLASS ELSE ip.mark]}

(* The marks that packets of an address leave its chain with: its own, and *)
(* that of the over-limit class for those beyond its packet limit.         *)
IpRules(ip) ==
  {[dev |-> dev, over |-> o, v6 |-> ip.v6, owner |-> ip.mark,
    mark |-> IF o THEN OVERLIMIT_CLASS ELSE ip.mark]
      : o \in IF ip.limited THEN BOOLEAN ELSE {FALSE}}

\* Seeded fault: an address that shares a class is written too.
Mapped_All(ip) == ip.mark > 0

(* A line of the class map: the address has a class of its own.            *)
Mapped(ip) == ip.min > 0

(* One address on one interface: its rules and, unless it shares the class *)
(* of another, its class and its filter; its class map line at the end.    *)
IpClass ==
  LET ip == cfg.ips[pos] IN
  /\ phase = "ips" /\ pos <= Len(cfg.ips) /\ ip.mark > 0
  /\ limited' = ip.limited
  /\ rules' = rules \cup IpRules(ip)
  /\ \/ /\ ip.min > 0
        /\ classes' = ClassAdd(classes, dev, ip.group, ip.mark, ip.min, ip.max)
        /\ refused' = refused \cup Refusal(classes, dev, ip.group, ip.mark)
        /\ filters' = IF cfg.classify THEN filters ELSE filters \cup {<<dev, ip.mark>>}
     \/ /\ ip.min = 0
        /\ UNCHANGED <<classes, refused, filters>>
  /\ IF dev < NDev
     THEN dev' = dev + 1 /\ UNCHANGED <<pos, classmapped>>
     ELSE /\ dev' = 1 /\ pos' = pos + 1
          /\ classmapped' = IF Mapped(ip) THEN classmapped \cup {pos} ELSE classmapped
  /\ UNCHANGED <<cfg, phase, parent, rate, nested>>

IpsDone ==
  /\ phase = "ips" /\ pos > Len(cfg.ips)
  /\ phase' = "free"
  /\ UNCHANGED <<cfg, dev, pos, parent, rate, nested, limited, classes,
                 refused, filters, rules, classmapped>>

(* The free class, if free_min is not zero, and the over-limit class, if   *)
(* the address that came last in the list has a packet limit.              *)
FreeClass ==
  LET free == IF cfg.freeMin = 0 THEN classes
              ELSE ClassAdd(classes, dev, parent, FREE_CLASS, cfg.freeMin, cfg.freeMax)
  IN
  /\ phase = "free"
  /\ classes' = IF limited
                THEN ClassAdd(free, dev, parent, OVERLIMIT_CLASS,
                              cfg.overlimitMin, cfg.overlimitMax)
                ELSE free
  /\ refused' = refused
       \cup (IF cfg.freeMin = 0 THEN {} ELSE Refusal(classes, dev, parent, FREE_CLASS))
       \cup (IF limited THEN Refusal(free, dev, parent, OVERLIMIT_CLASS) ELSE {})
  /\ filters' = IF cfg.freeMin = 0 THEN filters ELSE filters \cup {<<dev, FREE_CLASS>>}
  /\ rules' = IF cfg.freeMin = 0 THEN rules
              ELSE rules \cup {[dev |-> dev, over |-> FALSE, v6 |-> FALSE,
                                owner |-> FREE_CLASS, mark |-> FREE_CLASS]}
  /\ NextDev("restore")
  /\ UNCHANGED <<cfg, pos, parent, rate, nested, limited, classmapped>>

(* run_iptables_restore: the rules are in force.                           *)
Restore ==
  /\ phase = "restore"
  /\ phase' = "done"
  /\ UNCHANGED <<cfg, dev, pos, parent, rate, nested, limited, classes,
                 refused, filters, rules, classmapped>>

Next ==
  \/ RootClasses
  \/ GroupClass \/ GroupsDone
  \/ SkipIp \/ IpClass \/ IpsDone
  \/ FreeClass
  \/ Restore

Spec == Init /\ [][Next]_vars

-----------------------------------------------------------------------------

ClassType ==
  [dev : Dev, id : Nat, parent : Nat, rate : Int, ceil : Int, depth : Nat]

(* Every variable keeps its type.                                          *)
TypeOK ==
  /\ cfg \in Config
  /\ phase \in {"root", "groups", "ips", "free", "restore", "done"}
  /\ dev \in Dev /\ pos \in Nat \ {0}
  /\ parent \in Nat /\ rate \in Nat /\ nested \in Nat /\ limited \in BOOLEAN
  /\ classes \subseteq ClassType
  /\ refused \subseteq Dev \X Nat
  /\ filters \subseteq Dev \X Nat
  /\ rules \subseteq [dev : Dev, over : BOOLEAN, v6 : BOOLEAN, owner : Nat, mark : Nat]
  /\ classmapped \subseteq Nat

(* The ids of the groups, and the marks for which a class is made.         *)
GroupIds == {cfg.groups[g].id : g \in 1..Len(cfg.groups)}
Rated(i) == cfg.ips[i].mark > 0 /\ cfg.ips[i].min > 0
OwnMarks == {cfg.ips[i].mark : i \in {i \in 1..Len(cfg.ips) : Rated(i)}}

(* An interface that carries the largest guarantee: nobody sees to that    *)
(* ("TODO - min and max should not exceed interface->speed").              *)
Carries(d) == \A g \in 1..Len(cfg.groups) : cfg.groups[g].min <= Speed[d]

(* What the digital divide leaves to a group never falls below the group's *)
(* own guarantee nor rises above the line (prometheus.c:1038-1042: the     *)
(* floor that is applied is that of the group before it).  On a line that  *)
(* is slower than the largest guarantee the first group gets the line and  *)
(* no other one more than the largest guarantee.                           *)
GroupKeepsItsRate ==
  \A c \in classes, g \in 1..Len(cfg.groups) :
    cfg.groups[g].id = c.id =>
      \/ cfg.groups[g].min <= c.rate /\ c.rate <= Speed[c.dev]
      \/ /\ ~Carries(c.dev)
         /\ IF g = 1 THEN c.rate = Speed[c.dev]
            ELSE cfg.groups[g].min <= c.rate /\ c.rate <= cfg.groups[1].min

(* HTB gives a class its rate whatever its parent has left, so that a tree *)
(* keeps its promises only if no group and no address is guaranteed more   *)
(* than the class it hangs under, on every interface that carries the      *)
(* groups: `parent' is carried from one interface to the next              *)
(* (prometheus.c:472).                                                     *)
RatesNest ==
  \A c, p \in classes :
    /\ c.dev = p.dev /\ c.parent = p.id /\ c.id \in GroupIds \cup OwnMarks
    /\ Carries(c.dev)
    => c.rate <= p.rate

(* One class with the ceiling of the line is above all that is shaped on   *)
(* an interface.  It is 1:1 on the first one; on the others `parent' names *)
(* no class yet when the first group is added, which becomes a root class  *)
(* beside 1:2: that is right only because it is the only one, because its  *)
(* ceiling is the line's and because nothing else stays under 1:1.         *)
Tops(d) ==
  {IF c.parent = 0 THEN c.id ELSE 1 :
     c \in {c \in classes : c.dev = d /\ c.id > 2 /\ c.parent \in {0, 1}}}

LineShared ==
  \A d \in Dev :
    /\ Cardinality(Tops(d)) <= 1
    /\ \A c \in classes : c.dev = d /\ c.id \in Tops(d) => c.ceil = Speed[d]

(* tc accepts every command (safe_run does not look at the answer): no     *)
(* class is deeper than HTB's levels, and no id is used twice but the mark *)
(* that two addresses with a rate share.                                   *)
TwiceRated ==
  {m \in OwnMarks :
     \E i, j \in 1..Len(cfg.ips) :
       /\ i # j /\ Rated(i) /\ Rated(j)
       /\ cfg.ips[i].mark = m /\ cfg.ips[j].mark = m}

ClassesAccepted == \A r \in refused : r[2] \in TwiceRated

(* In the end every packet within its limit of an address with a mark, its *)
(* own or a shared one, and every other packet, reaches the leaf class of  *)
(* its mark on every interface, if an address of this mark has a rate:     *)
(* without a class HTB lets it pass unshaped.  IPv6 packets are left to    *)
(* the "classify" filter type: the filters of "mark" are for IPv4.         *)
Shaped ==
  phase = "done" =>
    /\ \A r \in rules : ~r.over /\ (cfg.classify \/ ~r.v6) =>
         Destination(r.dev, r.mark, r.v6)
           = IF r.owner \in OwnMarks \cup {FREE_CLASS} THEN r.owner ELSE 0
    /\ \A i \in 1..Len(cfg.ips), d \in Dev : cfg.ips[i].mark > 0 =>
         \E r \in rules : r.dev = d /\ ~r.over /\ r.owner = cfg.ips[i].mark

(* -s, -q, -2 and -4 change the class of every address of the class map,   *)
(* on every interface: such a class exists, at the rate of the address,    *)
(* or of the first in the list that shares its mark and has a rate.        *)
IsFirst(j, m) ==
  /\ Rated(j) /\ cfg.ips[j].mark = m
  /\ \A k \in 1..(j - 1) : Rated(k) => cfg.ips[k].mark # m

ClassmapBacked ==
  \A i \in classmapped, d \in Dev :
    \E c \in classes, j \in 1..Len(cfg.ips) :
      /\ c.dev = d /\ c.id = cfg.ips[i].mark
      /\ IsFirst(j, cfg.ips[i].mark) /\ c.rate = cfg.ips[j].min
=============================================================================
