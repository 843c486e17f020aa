------------------------------ MODULE IndexTree ------------------------------
(***************************************************************************)
(* The index of iptables chains: with many addresses, main() hangs the     *)
(* rules of an address under a chain for its /29 or (IPv6) /61, and these  *)
(* under chains for larger and larger subnets, until few are at the top.   *)
(*                                                                         *)
(* One interface.  An address is four octets, or the four groups of an     *)
(* IPv6 address that stand before its "::".  (With fewer the code rounds a *)
(* number that it has not read.)  idxs is the C list from its head; an     *)
(* index is known by its id, which holds its bitmask, so that idx->parent  *)
(* is an id too.                                                           *)
(***************************************************************************)
EXTENDS Cll1

CONSTANTS
  Inputs,              \* the addresses of struct IP *ips, in list order
  NoIndex,             \* NULL of idx->parent
  idxtable_treshold1,  \* an index is built for more addresses than this
  idxtable_treshold2   \* levels are added for more top indexes than this

idxtable_bitmask1 == 3
idxtable_bitmask2 == 3

Octet == 0..255
Group16 == 0..65535
Address ==
  [v6 : {FALSE}, part : [1..4 -> Octet]] \cup [v6 : {TRUE}, part : [1..4 -> Group16]]

VARIABLES
  ips,
  phase,         \* the loop main() is in
  todo,          \* what its for_each has still to visit
  idxs,
  idxcount,
  bitmask,
  lines          \* what has been written to iptablesfile

vars == <<ips, phase, todo, idxs, idxcount, bitmask, lines>>

-----------------------------------------------------------------------------

(* The length of the prefix at a level, and the width of a part.           *)
Bits(a, b) == IF a.v6 THEN b + 32 ELSE b
Width(a) == IF a.v6 THEN 16 ELSE 8

(* very_ugly_ipv4_code and very_ugly_ipv6_code: the parts that are copied, *)
(* at least one, and what is made of the part behind them.                 *)
Copied(a, b) == IF b < Width(a) THEN 1 ELSE b \div Width(a)

\* Seeded fault: the part is rounded to the wrong power of two.
Rounded_Low(a, b) ==
  LET n == a.part[Copied(a, b) + 1]  bits == b % Width(a) IN
  IF bits = 0 THEN 0 ELSE n - (n % (2^bits))

Rounded(a, b) ==
  LET n == a.part[Copied(a, b) + 1]  bits == b % Width(a) IN
  IF bits = 0 THEN 0 ELSE n - (n % (2^(Width(a) - bits)))

index_id(a, b) == <<SubSeq(a.part, 1, Copied(a, b)), Rounded(a, b), b>>

ASSUME IndexAssumption ==
  /\ Inputs \subseteq Seq(Address)
  \* an IPv6 network may hold a range and uplinks
  /\ \A in \in Inputs : \A i, j \in 1..Len(in) : i # j /\ in[i] = in[j] => in[i].v6
  /\ idxtable_treshold1 \in Nat /\ idxtable_treshold2 \in Nat
  \* NULL is no index
  /\ \A in \in Inputs : \A i \in 1..Len(in), b \in 5..29 :
       NoIndex # index_id(in[i], Bits(in[i], b))

(* ".0" is appended once for each 8 bits that b lacks from 24; "::" stands *)
(* for all the groups that are missing.                                    *)
Zeros(a, b) ==
  LET n == IF a.v6 THEN 3 - Copied(a, b) ELSE (31 - b) \div 8 IN [i \in 1..n |-> 0]
subnet_id(a, b) ==
  SubSeq(a.part, 1, Copied(a, b)) \o <<Rounded(a, b)>> \o Zeros(a, b)

(* iptables: address a is in net/b.                                        *)
Matches(a, net, b) ==
  /\ \A i \in 1..(b \div Width(a)) : a.part[i] = net[i]
  /\ (b % Width(a)) # 0 =>
       LET o == (b \div Width(a)) + 1  unit == 2^(Width(a) - (b % Width(a))) IN
       a.part[o] \div unit = net[o] \div unit

-----------------------------------------------------------------------------

Index(a, b) ==
  [addr |-> a, id |-> index_id(a, b), bitmask |-> b, parent |-> NoIndex, children |-> 0]

Place(id) == IfExists(idxs, LAMBDA x : x.id = id)

(* if_exists(idx, idxs, eq(idx->id, buf)) idx->children++ else push        *)
Counted(list, a, b) ==
  LET at == IfExists(list, LAMBDA x : x.id = index_id(a, b)) IN
  IF at = 0 THEN Push(Index(a, b), list)
  ELSE [list EXCEPT ![at].children = @ + 1]

IsNew(list, a, b) == IfExists(list, LAMBDA x : x.id = index_id(a, b)) = 0

Init ==
  /\ ips \in Inputs
  /\ phase = IF Len(ips) > idxtable_treshold1 THEN "leaf" ELSE "flat"
  /\ todo = ips
  /\ idxs = <<>> /\ idxcount = 0 /\ bitmask = 32 - idxtable_bitmask1
  /\ lines = <<>>

(* for_each(ip, ips): the /29 or /61 of an address.                        *)
Leaf ==
  /\ phase = "leaf" /\ todo # <<>>
  /\ idxs' = Counted(idxs, Head(todo), Bits(Head(todo), bitmask))
  /\ idxcount' = IF IsNew(idxs, Head(todo), Bits(Head(todo), bitmask)) THEN idxcount + 1 ELSE idxcount
  /\ todo' = Tail(todo)
  /\ UNCHANGED <<ips, phase, bitmask, lines>>

\* Seeded fault: the limit on the number of top indexes is one too high.
Crowded_OneMore == idxcount > idxtable_treshold2 + 1

(* while(idxcount > idxtable_treshold2 && bitmask > 2*idxtable_bitmask2)   *)
Crowded == idxcount > idxtable_treshold2

\* Seeded fault: the indexes of the last level stay in the count.
NextLevel_KeepCount ==
  /\ phase \in {"leaf", "group"} /\ todo = <<>>
  /\ Crowded /\ bitmask > 2 * idxtable_bitmask2
  /\ phase' = "group"
  /\ bitmask' = bitmask - idxtable_bitmask2
  /\ todo' = [i \in 1..Len(idxs) |-> idxs[i].id]
  /\ UNCHANGED <<ips, idxs, idxcount, lines>>

NextLevel ==
  /\ phase \in {"leaf", "group"} /\ todo = <<>>
  /\ Crowded /\ bitmask > 2 * idxtable_bitmask2
  /\ phase' = "group"
  /\ bitmask' = bitmask - idxtable_bitmask2
  /\ idxcount' = 0
  /\ todo' = [i \in 1..Len(idxs) |-> idxs[i].id]
  /\ UNCHANGED <<ips, idxs, lines>>

\* Seeded fault: an index that has a parent is given another one.
Parentless_Any(x) == TRUE

Parentless(x) == x.parent = NoIndex

(* An index without parent is put under the index of its larger subnet.    *)
Group ==
  LET x == idxs[Place(Head(todo))]
      b == Bits(x.addr, bitmask)
      counted == Counted(idxs, x.addr, b)
      at == IfExists(counted, LAMBDA y : y.id = x.id)
  IN
  /\ phase = "group" /\ todo # <<>>
  /\ todo' = Tail(todo)
  /\ IF Parentless(x)
     THEN /\ idxs' = [counted EXCEPT ![at].parent = index_id(x.addr, b)]
          /\ idxcount' = IF IsNew(idxs, x.addr, b) THEN idxcount + 1 ELSE idxcount
     ELSE UNCHANGED <<idxs, idxcount>>
  /\ UNCHANGED <<ips, phase, bitmask, lines>>

(* sort by children, falling, then by bitmask, rising.                     *)
FewerChildren(b, a) == b.children < a.children

\* Seeded fault: the larger bitmask first.
LongerMask_Falling(b, a) == b.bitmask < a.bitmask

LongerMask(b, a) == b.bitmask > a.bitmask

Sorting ==
  LET sorted == Sort(Sort(idxs, FewerChildren), LongerMask) IN
  /\ phase \in {"leaf", "group"} /\ todo = <<>>
  /\ ~(Crowded /\ bitmask > 2 * idxtable_bitmask2)
  /\ idxs' = sorted
  /\ phase' = "write"
  /\ todo' = [i \in 1..Len(sorted) |-> sorted[i].id]
  /\ UNCHANGED <<ips, idxcount, bitmask, lines>>

(* The chain of an index, and the jumps to it and to the common chain from *)
(* the chain of its parent, or from the interface's chain; IPv4 and IPv6   *)
(* go to files of their own.                                               *)
Chain(v6, id) == [kind |-> "chain", v6 |-> v6, id |-> id]
Jump(in, a, b, to) ==
  [kind |-> "jump", v6 |-> a.v6, in |-> in, net |-> subnet_id(a, b), mask |-> b, to |-> to]

Write ==
  LET x == idxs[Place(Head(todo))] IN
  /\ phase = "write" /\ todo # <<>>
  /\ lines' = lines \o <<Chain(x.addr.v6, x.id),
                         Jump(x.parent, x.addr, x.bitmask, x.id),
                         Jump(x.parent, x.addr, x.bitmask, NoIndex)>>
  /\ todo' = Tail(todo)
  /\ UNCHANGED <<ips, phase, idxs, idxcount, bitmask>>

Written ==
  /\ phase = "write" /\ todo = <<>>
  /\ phase' = "done"
  /\ UNCHANGED <<ips, todo, idxs, idxcount, bitmask, lines>>

Next == Leaf \/ NextLevel \/ Group \/ Sorting \/ Write \/ Written

Spec == Init /\ [][Next]_vars

-----------------------------------------------------------------------------

(* Every variable keeps its type.                                          *)
TypeOK ==
  /\ ips \in Inputs
  /\ phase \in {"flat", "leaf", "group", "write", "done"}
  /\ idxcount \in 0..Len(ips) /\ bitmask \in 5..29
  /\ \A i \in 1..Len(idxs) : idxs[i].addr \in Address /\ idxs[i].children \in Nat
  /\ Len(todo) <= Len(ips) + Len(idxs)

(* An id stands for one index, whose parent is the index of the same       *)
(* address one level up, and only those of the top level have none.        *)
WellLinked ==
  /\ \A i, j \in 1..Len(idxs) : i # j => idxs[i].id # idxs[j].id
  /\ \A i \in 1..Len(idxs) : idxs[i].parent # NoIndex =>
       /\ idxs[i].parent = index_id(idxs[i].addr, idxs[i].bitmask - idxtable_bitmask2)
       /\ Place(idxs[i].parent) # 0
  /\ phase \in {"write", "done"} =>
       \A i \in 1..Len(idxs) : idxs[i].parent = NoIndex <=> idxs[i].bitmask = Bits(idxs[i].addr, bitmask)

(* The first line that takes an address out of a chain.                    *)
FirstMatch(in, a) ==
  IfExists(lines, LAMBDA l : /\ l.kind = "jump" /\ l.v6 = a.v6 /\ l.in = in
                             /\ Len(l.net) = 4 /\ Matches(a, l.net, l.mask))

(* A packet finds the chain that holds the rules of its address: in every  *)
(* chain on its way from the interface's chain to its smallest subnet's,   *)
(* the first rule that takes it is the jump to the next one.  What a subnet's  *)
(* chain does not take goes to the common chain and does not come back.    *)
Routed ==
  phase = "done" =>
    \A k \in 1..Len(ips) :
      /\ Place(index_id(ips[k], Bits(ips[k], 32 - idxtable_bitmask1))) # 0
      /\ \A i \in 1..Len(idxs) :
           idxs[i].addr.v6 = ips[k].v6 /\ idxs[i].id = index_id(ips[k], idxs[i].bitmask) =>
           LET m == FirstMatch(idxs[i].parent, ips[k]) IN
           m # 0 /\ lines[m].to = idxs[i].id

(* iptables-restore reads the file line by line and takes none of it when  *)
(* a chain is used before its line, or a subnet is no address.             *)
Loadable ==
  phase = "done" => \A n \in 1..Len(lines) : lines[n].kind = "jump" =>
    /\ Len(lines[n].net) = 4
    /\ \A c \in {lines[n].in, lines[n].to} \ {NoIndex} :
         \E m \in 1..(n - 1) : lines[m] = Chain(lines[n].v6, c)

(* No interface's chain is left with more jumps than the threshold, as     *)
(* long as there is a larger subnet to put them under.                     *)
FewAtTheTop ==
  LET top == {n \in 1..Len(lines) : lines[n].kind = "jump" /\ lines[n].in = NoIndex}
  IN phase = "done" /\ bitmask > 2 * idxtable_bitmask2 =>
       Cardinality(top) <= 2 * idxtable_treshold2
=============================================================================
