--------------------------- MODULE IndexTreeProofs ---------------------------
(***************************************************************************)
(* The index of chains for any list of addresses and any thresholds: its   *)
(* links, its routes, the order of its lines and the size of its top.      *)
(***************************************************************************)
EXTENDS IndexTree, Cll1Proofs

(* The levels, what an index is apart from its count of children, and      *)
(* these of a list.                                                        *)
Masks == {5, 8, 11, 14, 17, 20, 23, 26, 29}
Core(x) == [addr |-> x.addr, id |-> x.id, bitmask |-> x.bitmask, parent |-> x.parent]
Cores(list) == {Core(list[j]) : j \in 1..Len(list)}
IdsOf(list) == {list[j].id : j \in 1..Len(list)}
Distinct(list) == \A i, j \in 1..Len(list) : i # j => list[i].id # list[j].id
Level(a) == Bits(a, bitmask)
IsTop(c) == c.bitmask = Level(c.addr)

(* An index is that of an address of the hosts file at one of the levels   *)
(* so far; its parent, if it has one, is in the list.                      *)
GoodCore(c) ==
  /\ \E k \in 1..Len(ips) : c.addr = ips[k]
  /\ \E m \in Masks : m >= bitmask /\ c.bitmask = Bits(c.addr, m)
  /\ c.id = index_id(c.addr, c.bitmask)
  /\ c.parent # NoIndex =>
       /\ c.parent = index_id(c.addr, c.bitmask - idxtable_bitmask2)
       /\ c.parent \in IdsOf(idxs) /\ ~IsTop(c)

TopOf(list, m) == {c.id : c \in {c \in Cores(list) : c.bitmask = Bits(c.addr, m)}}
TopIds == TopOf(idxs, bitmask)

Linked ==
  /\ Distinct(idxs) /\ \A c \in Cores(idxs) : GoodCore(c)
  /\ bitmask \in Masks
  /\ idxcount = Cardinality(TopIds)

(* Every address that has been visited has its smallest index.             *)
LeafId(k) == index_id(ips[k], Bits(ips[k], 32 - idxtable_bitmask1))
Indexed ==
  /\ phase = "flat" => idxs = <<>> /\ todo = ips
  /\ phase = "leaf" =>
       /\ bitmask = 29 /\ Len(todo) <= Len(ips)
       /\ \A c \in Cores(idxs) : IsTop(c)
       /\ \A j \in 1..Len(todo) : todo[j] = ips[(Len(ips) - Len(todo)) + j]
       /\ \A k \in 1..(Len(ips) - Len(todo)) : LeafId(k) \in IdsOf(idxs)
  /\ phase \in {"group", "write", "done"} =>
       \A k \in 1..Len(ips) : LeafId(k) \in IdsOf(idxs)

(* What has no parent yet is of this level, or of the level before and     *)
(* still to be visited.                                                    *)
Grouped ==
  /\ phase = "group" =>
       /\ Len(todo) <= Len(idxs)
       /\ \A c \in Cores(idxs) : c.parent = NoIndex =>
            \/ IsTop(c)
            \/ /\ c.bitmask = Level(c.addr) + 3
               /\ \E k \in 1..Len(todo) : todo[k] = c.id
       /\ \A k \in 1..Len(todo) : \E c \in Cores(idxs) : c.id = todo[k] /\ ~IsTop(c)
  /\ phase \in {"write", "done"} =>
       /\ \A c \in Cores(idxs) : c.parent = NoIndex => IsTop(c)
       /\ bitmask > 2 * idxtable_bitmask2 => idxcount <= idxtable_treshold2

(* A parent comes before its children in the list that is written.         *)
ByMask(list) == \A i, j \in 1..Len(list) : i < j => list[i].bitmask <= list[j].bitmask

(* The jumps to an index's chain and past it.                              *)
JumpFrom(x, to) == Jump(x.parent, x.addr, x.bitmask, to)

(* The three lines of the indexes that have been visited.                  *)
Filed ==
  /\ phase \in {"flat", "leaf", "group"} => lines = <<>>
  /\ phase \in {"write", "done"} =>
       LET n == Len(idxs) - Len(todo) IN
       /\ Len(todo) <= Len(idxs) /\ (phase = "done" => todo = <<>>)
       /\ ByMask(idxs) /\ Len(lines) = 3 * n
       /\ \A k \in 1..Len(todo) : todo[k] = idxs[n + k].id
       /\ \A j \in 1..n :
            /\ lines[3 * j - 2] = Chain(idxs[j].addr.v6, idxs[j].id)
            /\ lines[3 * j - 1] = JumpFrom(idxs[j], idxs[j].id)
            /\ lines[3 * j] = JumpFrom(idxs[j], NoIndex)

(* The hypothesis of the last two theorems: the addresses are of no more   *)
(* networks at the level of /8 and /40 than the second threshold lets      *)
(* pass.  With more the loop goes down to /5, for which no IPv4 subnet of  *)
(* four octets is written (MCIndexTreeWide).                               *)
FewNetworks ==
  \A in \in Inputs :
    Cardinality({index_id(in[k], Bits(in[k], 8)) : k \in 1..Len(in)}) <= idxtable_treshold2

(* An id is read as the address of its index and the length of its prefix. *)
IdSet == {index_id(x[1], x[2]) : x \in Address \X Nat}
IndexType ==
  [addr : Address, id : IdSet, bitmask : Nat, parent : IdSet \cup {NoIndex}, children : Nat]
LineSet ==
  {Chain(x[1], x[2]) : x \in BOOLEAN \X IdSet} \cup
  {Jump(x[1], x[2], x[3], x[4]) :
     x \in (IdSet \cup {NoIndex}) \X Address \X Nat \X (IdSet \cup {NoIndex})}

Typed ==
  /\ ips \in Inputs /\ ips \in Seq(Address)
  /\ phase \in {"flat", "leaf", "group", "write", "done"}
  /\ todo \in Seq(IdSet \cup Address)
  /\ idxs \in Seq(IndexType) /\ lines \in Seq(LineSet)

IInv == Typed /\ Linked /\ Indexed /\ Grouped /\ Filed

PlaceIn(list, id) == IfExists(list, LAMBDA x : x.id = id)
Renewed(list, at, p) == [list EXCEPT ![at].parent = p]
Adopted(c, p) == [addr |-> c.addr, id |-> c.id, bitmask |-> c.bitmask, parent |-> p]

(* IfExists finds the element with an id, if there is one.                 *)
LEMMA PlaceProperties ==
  ASSUME NEW list, Len(list) \in Nat, NEW id
  PROVE  \/ /\ PlaceIn(list, id) \in 1..Len(list) /\ PlaceIn(list, id) # 0
            /\ list[PlaceIn(list, id)].id = id /\ id \in IdsOf(list)
         \/ PlaceIn(list, id) = 0 /\ id \notin IdsOf(list)
  <1>. DEFINE I == {i \in 1..Len(list) : list[i].id = id}
  <1>1. PlaceIn(list, id) = IF I # {} THEN Min(I) ELSE 0
    BY DEF PlaceIn, IfExists, SelectInSeq
  <1>2. CASE I = {}
    BY <1>1, <1>2 DEF IdsOf
  <1>3. CASE I # {}
    <2>1. Min(I) \in I
      <3>1. I \in SUBSET (1..Len(list))
        OBVIOUS
      <3>. HIDE DEF I
      <3>. QED  BY <1>3, <3>1, FirstIndex
    <2>2. Min(I) \in 1..Len(list) /\ list[Min(I)].id = id /\ Min(I) # 0
      BY <2>1
    <2>. QED  BY <1>1, <1>3, <2>2 DEF IdsOf
  <1>. QED  BY <1>2, <1>3

LEMMA PlaceOfDistinct ==
  ASSUME NEW list, Len(list) \in Nat, Distinct(list), NEW j \in 1..Len(list)
  PROVE  PlaceIn(list, list[j].id) = j
  <1>1. list[j].id \in IdsOf(list)
    BY DEF IdsOf
  <1>. QED  BY <1>1, PlaceProperties DEF Distinct

LEMMA IndexTyped ==
  ASSUME NEW a \in Address, NEW b \in Nat
  PROVE  index_id(a, b) \in IdSet /\ Index(a, b) \in IndexType
  <1>1. index_id(a, b) \in IdSet
    <2>1. <<a, b>> \in Address \X Nat
      OBVIOUS
    <2>. QED  BY <2>1 DEF IdSet
  <1>. QED  BY <1>1 DEF Index, IndexType

(* if_exists(...) children++ else push: the list has the id afterwards,    *)
(* and apart from the count of children nothing else is new.               *)
LEMMA CountedProperties ==
  ASSUME NEW list \in Seq(IndexType), Distinct(list), NEW a \in Address, NEW b \in Nat
  PROVE  LET new == Counted(list, a, b) IN
         /\ new \in Seq(IndexType) /\ Distinct(new) /\ Len(new) \in Nat
         /\ Len(new) >= Len(list)
         /\ IdsOf(new) = IdsOf(list) \cup {index_id(a, b)}
         /\ IsNew(list, a, b) <=> index_id(a, b) \notin IdsOf(list)
         /\ Cores(new) = IF index_id(a, b) \in IdsOf(list) THEN Cores(list)
                         ELSE Cores(list) \cup {Core(Index(a, b))}
  <1>. DEFINE id == index_id(a, b)
              at == PlaceIn(list, id)
              new == Counted(list, a, b)
  <1>1. new = IF at = 0 THEN <<Index(a, b)>> \o list
              ELSE [list EXCEPT ![at] =
                      [list[at] EXCEPT !.children = list[at].children + 1]]
    <2>1. at = IfExists(list, LAMBDA x : x.id = index_id(a, b))
      BY DEF PlaceIn
    <2>2. \A n : [list EXCEPT ![n].children = @ + 1]
                = [list EXCEPT ![n] = [list[n] EXCEPT !.children = list[n].children + 1]]
      OBVIOUS
    <2>. QED  BY <2>1, <2>2 DEF Counted, Push, IfExists, SelectInSeq
  <1>2. IsNew(list, a, b) <=> at = 0
    BY DEF IsNew, PlaceIn
  <1>3. Len(list) \in Nat /\ Index(a, b) \in IndexType /\ Index(a, b).id = id
    BY IndexTyped DEF Index
  <1>4. \/ at \in 1..Len(list) /\ at # 0 /\ list[at].id = id /\ id \in IdsOf(list)
        \/ at = 0 /\ id \notin IdsOf(list)
    BY <1>3, PlaceProperties
  <1>. HIDE DEF at, id, new
  <1>5. CASE at = 0
    <2>. DEFINE x == Index(a, b)
    <2>1. new = <<x>> \o list
      BY <1>1, <1>5
    <2>. HIDE DEF x
    <2>2. x \in IndexType /\ x.id = id
      BY <1>3 DEF x
    <2>3. /\ new \in Seq(IndexType) /\ Len(new) = Len(list) + 1
          /\ new[1] = x /\ \A i \in 1..Len(list) : new[i + 1] = list[i]
      BY <2>1, <2>2
    <2>4. \A i \in 1..Len(new) : i = 1 \/ (i - 1 \in 1..Len(list) /\ new[i] = list[i - 1])
      BY <1>3, <2>3
    <2>5. id \notin IdsOf(list)
      BY <1>4, <1>5
    <2>6. IdsOf(new) = IdsOf(list) \cup {id}
      <3>1. ASSUME NEW i \in 1..Len(new)
            PROVE  new[i].id \in IdsOf(list) \cup {id}
        <4>1. CASE i = 1
          BY <2>2, <2>3, <4>1
        <4>2. CASE i - 1 \in 1..Len(list) /\ new[i] = list[i - 1]
          BY <4>2 DEF IdsOf
        <4>. QED  BY <2>4, <4>1, <4>2
      <3>2. ASSUME NEW y \in IdsOf(list)
            PROVE  y \in IdsOf(new)
        <4>1. PICK i \in 1..Len(list) : y = list[i].id
          BY DEF IdsOf
        <4>2. i + 1 \in 1..Len(new) /\ new[i + 1].id = y
          BY <1>3, <2>3, <4>1
        <4>. QED  BY <4>2 DEF IdsOf
      <3>3. id \in IdsOf(new)
        <4>1. 1 \in 1..Len(new)
          BY <1>3, <2>3
        <4>. QED  BY <2>2, <2>3, <4>1 DEF IdsOf
      <3>. QED  BY <3>1, <3>2, <3>3 DEF IdsOf
    <2>7. Cores(new) = Cores(list) \cup {Core(x)}
      <3>1. Cores(new) \subseteq Cores(list) \cup {Core(x)}
        BY <2>3, <2>4 DEF Cores
      <3>2. ASSUME NEW y \in Cores(list)
            PROVE  y \in Cores(new)
        <4>1. PICK i \in 1..Len(list) : y = Core(list[i])
          BY DEF Cores
        <4>2. i + 1 \in 1..Len(new) /\ Core(new[i + 1]) = y
          BY <1>3, <2>3, <4>1
        <4>. QED  BY <4>2 DEF Cores
      <3>3. Core(x) \in Cores(new)
        <4>1. 1 \in 1..Len(new)
          BY <1>3, <2>3
        <4>. QED  BY <2>3, <4>1 DEF Cores
      <3>. QED  BY <3>1, <3>2, <3>3
    <2>8. Distinct(new)
      <3>. SUFFICES ASSUME NEW i \in 1..Len(new), NEW j \in 1..Len(new), i # j
                    PROVE  new[i].id # new[j].id
        BY DEF Distinct
      <3>1. \A k \in 1..Len(list) : list[k].id # id
        BY <2>5 DEF IdsOf
      <3>2. CASE i = 1 \/ j = 1
        BY <2>2, <2>3, <2>4, <3>1, <3>2
      <3>3. CASE i # 1 /\ j # 1
        <4>1. i - 1 \in 1..Len(list) /\ j - 1 \in 1..Len(list) /\ i - 1 # j - 1
          BY <2>4, <3>3
        <4>. QED  BY <2>4, <3>3, <4>1 DEF Distinct
      <3>. QED  BY <3>2, <3>3
    <2>. QED  BY <1>2, <1>3, <1>5, <2>3, <2>5, <2>6, <2>7, <2>8 DEF id, new, x
  <1>6. CASE at # 0
    <2>. DEFINE x == [list[at] EXCEPT !.children = list[at].children + 1]
    <2>1. at \in 1..Len(list) /\ list[at].id = id /\ id \in IdsOf(list)
      BY <1>4, <1>6
    <2>2. new = [list EXCEPT ![at] = x]
      BY <1>1, <1>6
    <2>3. list[at] \in IndexType
      BY <2>1
    <2>4. x \in IndexType /\ x.id = id /\ Core(x) = Core(list[at])
      BY <2>1, <2>3 DEF IndexType, Core
    <2>. HIDE DEF x
    <2>5. /\ new \in Seq(IndexType) /\ Len(new) = Len(list)
          /\ \A i \in 1..Len(list) : new[i] = IF i = at THEN x ELSE list[i]
      BY <2>1, <2>2, <2>4
    <2>6. \A i \in 1..Len(list) : new[i].id = list[i].id /\ Core(new[i]) = Core(list[i])
      BY <2>1, <2>4, <2>5
    <2>7. IdsOf(new) = IdsOf(list) /\ Cores(new) = Cores(list) /\ Distinct(new)
      <3>. HIDE DEF new
      <3>1. Len(new) = Len(list)
        BY <2>5
      <3>2. IdsOf(new) = IdsOf(list)
        BY <2>6, <3>1 DEF IdsOf
      <3>3. Cores(new) = Cores(list)
        BY <2>6, <3>1 DEF Cores
      <3>4. Distinct(new)
        BY <2>6, <3>1 DEF Distinct
      <3>. QED  BY <3>2, <3>3, <3>4
    <2>. QED  BY <1>2, <1>3, <1>6, <2>1, <2>5, <2>7 DEF id, new
  <1>. QED  BY <1>5, <1>6

(* idx->parent=metaindex.                                                  *)
LEMMA RenewedProperties ==
  ASSUME NEW list \in Seq(IndexType), Distinct(list), NEW at \in 1..Len(list),
         NEW p \in IdSet
  PROVE  LET new == Renewed(list, at, p) IN
         /\ new \in Seq(IndexType) /\ Distinct(new) /\ Len(new) = Len(list)
         /\ IdsOf(new) = IdsOf(list)
         /\ Core(list[at]) \in Cores(list)
         /\ Cores(new) = (Cores(list) \ {Core(list[at])}) \cup {Adopted(Core(list[at]), p)}
  <1>. DEFINE x == [list[at] EXCEPT !.parent = p]
              new == Renewed(list, at, p)
  <1>1. new = [list EXCEPT ![at] = x]
    BY DEF Renewed
  <1>2. list[at] \in IndexType /\ Len(list) \in Nat
    OBVIOUS
  <1>3. x \in IndexType /\ x.id = list[at].id /\ Core(x) = Adopted(Core(list[at]), p)
    BY <1>2 DEF IndexType, Core, Adopted
  <1>. HIDE DEF x, new
  <1>4. /\ new \in Seq(IndexType) /\ Len(new) = Len(list)
        /\ \A i \in 1..Len(list) : new[i] = IF i = at THEN x ELSE list[i]
    BY <1>1, <1>3
  <1>5. \A i \in 1..Len(list) : new[i].id = list[i].id
    BY <1>3, <1>4
  <1>6. IdsOf(new) = IdsOf(list) /\ Distinct(new)
    BY <1>4, <1>5 DEF IdsOf, Distinct
  <1>7. Core(list[at]) \in Cores(list)
    BY DEF Cores
  <1>8. \A i \in 1..Len(list) : i # at => Core(list[i]) # Core(list[at])
    <2>1. ASSUME NEW i \in 1..Len(list), i # at, Core(list[i]) = Core(list[at])
          PROVE  FALSE
      <3>1. Core(list[i]).id = list[i].id /\ Core(list[at]).id = list[at].id
        BY DEF Core
      <3>. QED  BY <2>1, <3>1 DEF Distinct
    <2>. QED  BY <2>1
  <1>9. Cores(new) \subseteq (Cores(list) \ {Core(list[at])}) \cup {Core(x)}
    <2>. SUFFICES ASSUME NEW i \in 1..Len(list)
                  PROVE  Core(new[i]) \in (Cores(list) \ {Core(list[at])}) \cup {Core(x)}
      BY <1>4 DEF Cores
    <2>1. Core(list[i]) \in Cores(list)
      BY DEF Cores
    <2>. QED  BY <1>4, <1>8, <2>1
  <1>10. ASSUME NEW c \in Cores(list), c # Core(list[at])
         PROVE  c \in Cores(new)
    <2>1. PICK i \in 1..Len(list) : c = Core(list[i])
      BY DEF Cores
    <2>2. i # at /\ new[i] = list[i]
      BY <1>4, <1>10, <2>1
    <2>. QED  BY <1>4, <2>1, <2>2 DEF Cores
  <1>11. Core(x) \in Cores(new)
    BY <1>4 DEF Cores
  <1>. QED  BY <1>3, <1>4, <1>6, <1>7, <1>9, <1>10, <1>11 DEF new

(* Ids of different levels differ.                                         *)
LEMMA IdHasLevel ==
  ASSUME NEW a, NEW b, NEW c, NEW d, index_id(a, b) = index_id(c, d)
  PROVE  b = d
  BY DEF index_id

-----------------------------------------------------------------------------

(* The first key of sort: more children stand before fewer.                *)
ByChildren == {x \in IndexType \X IndexType : x[1].children < x[2].children}

LEMMA FewerChildrenIsKey ==
  /\ IsKey(ByChildren, IndexType)
  /\ \A b, a \in IndexType : <<b, a>> \in ByChildren <=> FewerChildren(b, a)
  <1>1. \A e \in IndexType : e.children \in Nat
    BY DEF IndexType
  <1>2. \A b, a \in IndexType : <<b, a>> \in ByChildren <=> b.children < a.children
    BY DEF ByChildren
  <1>. QED  BY <1>1, <1>2 DEF IsKey, FewerChildren

LEMMA ChildrenStops ==
  ASSUME NEW u \in Seq(IndexType), NEW a \in IndexType
  PROVE  \E q : /\ StopsAt(q, a, u, ByChildren)
                /\ Insert(a, u, FewerChildren) = InsertAt(u, q, a)
  <1>. DEFINE q == InsertPlace(a, u, FewerChildren)
  <1>1. \A k \in 1..Len(u) : <<u[k], a>> \in ByChildren <=> FewerChildren(u[k], a)
    BY FewerChildrenIsKey
  <1>2. \E k \in 1..(Len(u) + 1) : StopsAt(k, a, u, ByChildren)
    BY PlaceExists
  <1>3. Len(u) \in Nat
    OBVIOUS
  <1>4. \A k \in 1..(Len(u) + 1) : StopsAt(k, a, u, ByChildren) <=>
          /\ k = Len(u) + 1 \/ FewerChildren(u[k], a)
          /\ \A p \in 1..(k - 1) : ~FewerChildren(u[p], a)
    <2>1. ASSUME NEW k \in 1..(Len(u) + 1)
          PROVE  StopsAt(k, a, u, ByChildren) <=>
                   /\ k = Len(u) + 1 \/ FewerChildren(u[k], a)
                   /\ \A p \in 1..(k - 1) : ~FewerChildren(u[p], a)
      <3>1. \A p \in 1..(k - 1) : p \in 1..Len(u)
        BY <1>3
      <3>2. k # Len(u) + 1 => k \in 1..Len(u)
        BY <1>3
      <3>. QED  BY <1>1, <3>1, <3>2 DEF StopsAt
    <2>. QED  BY <2>1
  <1>5. q \in 1..(Len(u) + 1) /\ StopsAt(q, a, u, ByChildren)
    <2>1. q = CHOOSE k \in 1..(Len(u) + 1) :
                /\ k = Len(u) + 1 \/ FewerChildren(u[k], a)
                /\ \A p \in 1..(k - 1) : ~FewerChildren(u[p], a)
      BY DEF InsertPlace
    <2>. HIDE DEF q
    <2>. QED  BY <1>2, <1>4, <2>1
  <1>6. Insert(a, u, FewerChildren) = InsertAt(u, q, a)
    BY DEF Insert
  <1>. QED  BY <1>5, <1>6

LEMMA ChildrenSorted ==
  ASSUME NEW B \in Seq(IndexType)
  PROVE  LET u == Sort(B, FewerChildren)
         IN  u \in Seq(IndexType) /\ InOrder(u, ByChildren) /\ Reordered(u, B, Len(B))
  <1>. DEFINE n == Len(B)
              Step(r, t) == IF t = {} THEN <<>>
                            ELSE Insert(B[Max(t)], r[t \ {Max(t)}], FewerChildren)
              Solves(r) == r = [t \in SUBSET (1..n) |-> Step(r, t)]
              step == [x \in (1..n) \X Seq(IndexType) |->
                         Insert(B[x[1]], x[2], FewerChildren)]
  <1>1. n \in Nat /\ DOMAIN B = 1..n /\ <<>> \in Seq(IndexType)
    OBVIOUS
  <1>2. Sort(B, FewerChildren) = (CHOOSE r : Solves(r))[1..n]
    BY <1>1 DEF Sort, FoldLeft, MapThenFoldSet
  <1>3. step \in [(1..n) \X Seq(IndexType) -> Seq(IndexType)]
    <2>1. ASSUME NEW x \in (1..n) \X Seq(IndexType)
          PROVE  Insert(B[x[1]], x[2], FewerChildren) \in Seq(IndexType)
      <3>1. B[x[1]] \in IndexType /\ x[2] \in Seq(IndexType)
        OBVIOUS
      <3>2. PICK q : /\ StopsAt(q, B[x[1]], x[2], ByChildren)
                     /\ Insert(B[x[1]], x[2], FewerChildren) = InsertAt(x[2], q, B[x[1]])
        BY <3>1, ChildrenStops
      <3>3. q \in 1..(Len(x[2]) + 1)
        BY <3>2 DEF StopsAt
      <3>. QED  BY <3>1, <3>2, <3>3, InsertAtProperties
    <2>. QED  BY <2>1
  <1>4. PICK r \in [SUBSET (1..n) -> Seq(IndexType)] : IsFold(r, n, <<>>, step)
    <2>1. StepsIn(step, n, Seq(IndexType))
      BY <1>3 DEF StepsIn
    <2>. HIDE DEF step, n
    <2>. QED  BY <1>1, <2>1, FoldSolutionExists
  <1>5. \E g : Solves(g)
    <2>1. ASSUME NEW t \in SUBSET (1..n), t # {}
          PROVE  step[<<Max(t), r[t \ {Max(t)}]>>]
                   = Insert(B[Max(t)], r[t \ {Max(t)}], FewerChildren)
      <3>1. Max(t) \in 1..n
        BY <1>1, <2>1, LastIndex
      <3>2. r[t \ {Max(t)}] \in Seq(IndexType)
        BY <1>4
      <3>. QED  BY <3>1, <3>2
    <2>2. \A t \in SUBSET (1..n) : r[t] = Step(r, t)
      BY <1>4, <2>1 DEF IsFold
    <2>. HIDE DEF step, Step
    <2>. QED  BY <1>4, <2>2
  <1>6. Solves(CHOOSE g : Solves(g))
    BY <1>5
  <1>. DEFINE g == CHOOSE g : Solves(g)
  <1>. HIDE DEF Solves
  <1>7. \A t \in SUBSET (1..n) : g[t] = Step(g, t)
    BY <1>6 DEF Solves
  <1>. HIDE DEF g
  <1>. SUFFICES /\ g[1..n] \in Seq(IndexType) /\ InOrder(g[1..n], ByChildren)
                /\ Reordered(g[1..n], B, n)
    BY <1>2 DEF g
  <1>8. g[{}] = <<>>
    BY <1>7
  <1>9. \A k \in 1..n : g[1..k] = Insert(B[k], g[1..(k - 1)], FewerChildren)
    <2>1. ASSUME NEW k \in 1..n
          PROVE  g[1..k] = Insert(B[k], g[1..(k - 1)], FewerChildren)
      <3>1. Max(1..k) = k /\ (1..k) \ {k} = 1..(k - 1)
        BY MaxOfInterval
      <3>2. 1..k \in SUBSET (1..n) /\ 1..k # {}
        BY <1>1
      <3>. QED  BY <1>7, <3>1, <3>2
    <2>. QED  BY <2>1
  <1>10. \A k \in 0..n : g[1..k] \in Seq(IndexType)
    <2>. DEFINE T == {k \in Nat : k <= n => g[1..k] \in Seq(IndexType)}
    <2>1. 0 \in T
      <3>1. 1..0 = {}
        OBVIOUS
      <3>. QED  BY <1>1, <1>8, <3>1
    <2>2. ASSUME NEW k \in Nat, k \in T
          PROVE  k + 1 \in T
      <3>. SUFFICES ASSUME k + 1 <= n
                    PROVE  g[1..(k + 1)] \in Seq(IndexType)
        OBVIOUS
      <3>1. /\ k + 1 \in 1..n /\ k + 1 - 1 = k
            /\ B[k + 1] \in IndexType /\ g[1..k] \in Seq(IndexType)
        BY <1>1, <2>2
      <3>2. PICK q : /\ StopsAt(q, B[k + 1], g[1..k], ByChildren)
                     /\ Insert(B[k + 1], g[1..k], FewerChildren)
                          = InsertAt(g[1..k], q, B[k + 1])
        BY <3>1, ChildrenStops
      <3>3. q \in 1..(Len(g[1..k]) + 1)
        BY <3>2 DEF StopsAt
      <3>4. InsertAt(g[1..k], q, B[k + 1]) \in Seq(IndexType)
        BY <3>1, <3>3, InsertAtProperties
      <3>. QED  BY <1>9, <3>1, <3>2, <3>4
    <2>3. \A k \in Nat : k \in T
      <3>. HIDE DEF T
      <3>. QED  BY <2>1, <2>2, NatInSet
    <2>. QED  BY <1>1, <2>3
  <1>11. \A k \in 1..Len(B) : \E q :
           /\ StopsAt(q, B[k], g[1..(k - 1)], ByChildren)
           /\ g[1..k] = InsertAt(g[1..(k - 1)], q, B[k])
    <2>1. ASSUME NEW k \in 1..n
          PROVE  \E q : /\ StopsAt(q, B[k], g[1..(k - 1)], ByChildren)
                        /\ g[1..k] = InsertAt(g[1..(k - 1)], q, B[k])
      <3>1. k - 1 \in 0..n /\ B[k] \in IndexType
        BY <1>1
      <3>2. g[1..(k - 1)] \in Seq(IndexType)
        BY <1>10, <3>1
      <3>. QED  BY <1>9, <3>1, <3>2, ChildrenStops
    <2>. QED  BY <2>1
  <1>. QED  BY <1>8, <1>11, FewerChildrenIsKey, SortProperties

(* The second key of sort: a shorter prefix stands before a longer one.    *)
ByBitmask == {x \in IndexType \X IndexType : x[1].bitmask > x[2].bitmask}

LEMMA LongerMaskIsKey ==
  /\ IsKey(ByBitmask, IndexType)
  /\ \A b, a \in IndexType : <<b, a>> \in ByBitmask <=> LongerMask(b, a)
  <1>1. \A e \in IndexType : e.bitmask \in Nat
    BY DEF IndexType
  <1>2. \A b, a \in IndexType : <<b, a>> \in ByBitmask <=> b.bitmask > a.bitmask
    BY DEF ByBitmask
  <1>. QED  BY <1>1, <1>2 DEF IsKey, LongerMask

LEMMA BitmaskStops ==
  ASSUME NEW u \in Seq(IndexType), NEW a \in IndexType
  PROVE  \E q : StopsAt(q, a, u, ByBitmask) /\ Insert(a, u, LongerMask) = InsertAt(u, q, a)
  <1>. DEFINE q == InsertPlace(a, u, LongerMask)
  <1>1. \A k \in 1..Len(u) : <<u[k], a>> \in ByBitmask <=> LongerMask(u[k], a)
    BY LongerMaskIsKey
  <1>2. \E k \in 1..(Len(u) + 1) : StopsAt(k, a, u, ByBitmask)
    BY PlaceExists
  <1>3. Len(u) \in Nat
    OBVIOUS
  <1>4. \A k \in 1..(Len(u) + 1) : StopsAt(k, a, u, ByBitmask) <=>
          /\ k = Len(u) + 1 \/ LongerMask(u[k], a)
          /\ \A p \in 1..(k - 1) : ~LongerMask(u[p], a)
    <2>1. ASSUME NEW k \in 1..(Len(u) + 1)
          PROVE  StopsAt(k, a, u, ByBitmask) <=>
                   /\ k = Len(u) + 1 \/ LongerMask(u[k], a)
                   /\ \A p \in 1..(k - 1) : ~LongerMask(u[p], a)
      <3>1. \A p \in 1..(k - 1) : p \in 1..Len(u)
        BY <1>3
      <3>2. k # Len(u) + 1 => k \in 1..Len(u)
        BY <1>3
      <3>. QED  BY <1>1, <3>1, <3>2 DEF StopsAt
    <2>. QED  BY <2>1
  <1>5. q \in 1..(Len(u) + 1) /\ StopsAt(q, a, u, ByBitmask)
    <2>1. q = CHOOSE k \in 1..(Len(u) + 1) :
                /\ k = Len(u) + 1 \/ LongerMask(u[k], a)
                /\ \A p \in 1..(k - 1) : ~LongerMask(u[p], a)
      BY DEF InsertPlace
    <2>. HIDE DEF q
    <2>. QED  BY <1>2, <1>4, <2>1
  <1>6. Insert(a, u, LongerMask) = InsertAt(u, q, a)
    BY DEF Insert
  <1>. QED  BY <1>5, <1>6

LEMMA BitmaskSorted ==
  ASSUME NEW B \in Seq(IndexType)
  PROVE  LET u == Sort(B, LongerMask)
         IN  u \in Seq(IndexType) /\ InOrder(u, ByBitmask) /\ Reordered(u, B, Len(B))
  <1>. DEFINE n == Len(B)
              Step(r, t) == IF t = {} THEN <<>>
                            ELSE Insert(B[Max(t)], r[t \ {Max(t)}], LongerMask)
              Solves(r) == r = [t \in SUBSET (1..n) |-> Step(r, t)]
              step == [x \in (1..n) \X Seq(IndexType) |-> Insert(B[x[1]], x[2], LongerMask)]
  <1>1. n \in Nat /\ DOMAIN B = 1..n /\ <<>> \in Seq(IndexType)
    OBVIOUS
  <1>2. Sort(B, LongerMask) = (CHOOSE r : Solves(r))[1..n]
    BY <1>1 DEF Sort, FoldLeft, MapThenFoldSet
  <1>3. step \in [(1..n) \X Seq(IndexType) -> Seq(IndexType)]
    <2>1. ASSUME NEW x \in (1..n) \X Seq(IndexType)
          PROVE  Insert(B[x[1]], x[2], LongerMask) \in Seq(IndexType)
      <3>1. B[x[1]] \in IndexType /\ x[2] \in Seq(IndexType)
        OBVIOUS
      <3>2. PICK q : /\ StopsAt(q, B[x[1]], x[2], ByBitmask)
                     /\ Insert(B[x[1]], x[2], LongerMask) = InsertAt(x[2], q, B[x[1]])
        BY <3>1, BitmaskStops
      <3>3. q \in 1..(Len(x[2]) + 1)
        BY <3>2 DEF StopsAt
      <3>. QED  BY <3>1, <3>2, <3>3, InsertAtProperties
    <2>. QED  BY <2>1
  <1>4. PICK r \in [SUBSET (1..n) -> Seq(IndexType)] : IsFold(r, n, <<>>, step)
    <2>1. StepsIn(step, n, Seq(IndexType))
      BY <1>3 DEF StepsIn
    <2>. HIDE DEF step, n
    <2>. QED  BY <1>1, <2>1, FoldSolutionExists
  <1>5. \E g : Solves(g)
    <2>1. ASSUME NEW t \in SUBSET (1..n), t # {}
          PROVE  step[<<Max(t), r[t \ {Max(t)}]>>]
                   = Insert(B[Max(t)], r[t \ {Max(t)}], LongerMask)
      <3>1. Max(t) \in 1..n
        BY <1>1, <2>1, LastIndex
      <3>2. r[t \ {Max(t)}] \in Seq(IndexType)
        BY <1>4
      <3>. QED  BY <3>1, <3>2
    <2>2. \A t \in SUBSET (1..n) : r[t] = Step(r, t)
      BY <1>4, <2>1 DEF IsFold
    <2>. HIDE DEF step, Step
    <2>. QED  BY <1>4, <2>2
  <1>6. Solves(CHOOSE g : Solves(g))
    BY <1>5
  <1>. DEFINE g == CHOOSE g : Solves(g)
  <1>. HIDE DEF Solves
  <1>7. \A t \in SUBSET (1..n) : g[t] = Step(g, t)
    BY <1>6 DEF Solves
  <1>. HIDE DEF g
  <1>. SUFFICES /\ g[1..n] \in Seq(IndexType) /\ InOrder(g[1..n], ByBitmask)
                /\ Reordered(g[1..n], B, n)
    BY <1>2 DEF g
  <1>8. g[{}] = <<>>
    BY <1>7
  <1>9. \A k \in 1..n : g[1..k] = Insert(B[k], g[1..(k - 1)], LongerMask)
    <2>1. ASSUME NEW k \in 1..n
          PROVE  g[1..k] = Insert(B[k], g[1..(k - 1)], LongerMask)
      <3>1. Max(1..k) = k /\ (1..k) \ {k} = 1..(k - 1)
        BY MaxOfInterval
      <3>2. 1..k \in SUBSET (1..n) /\ 1..k # {}
        BY <1>1
      <3>. QED  BY <1>7, <3>1, <3>2
    <2>. QED  BY <2>1
  <1>10. \A k \in 0..n : g[1..k] \in Seq(IndexType)
    <2>. DEFINE T == {k \in Nat : k <= n => g[1..k] \in Seq(IndexType)}
    <2>1. 0 \in T
      <3>1. 1..0 = {}
        OBVIOUS
      <3>. QED  BY <1>1, <1>8, <3>1
    <2>2. ASSUME NEW k \in Nat, k \in T
          PROVE  k + 1 \in T
      <3>. SUFFICES ASSUME k + 1 <= n
                    PROVE  g[1..(k + 1)] \in Seq(IndexType)
        OBVIOUS
      <3>1. /\ k + 1 \in 1..n /\ k + 1 - 1 = k
            /\ B[k + 1] \in IndexType /\ g[1..k] \in Seq(IndexType)
        BY <1>1, <2>2
      <3>2. PICK q : /\ StopsAt(q, B[k + 1], g[1..k], ByBitmask)
                     /\ Insert(B[k + 1], g[1..k], LongerMask)
                          = InsertAt(g[1..k], q, B[k + 1])
        BY <3>1, BitmaskStops
      <3>3. q \in 1..(Len(g[1..k]) + 1)
        BY <3>2 DEF StopsAt
      <3>4. InsertAt(g[1..k], q, B[k + 1]) \in Seq(IndexType)
        BY <3>1, <3>3, InsertAtProperties
      <3>. QED  BY <1>9, <3>1, <3>2, <3>4
    <2>3. \A k \in Nat : k \in T
      <3>. HIDE DEF T
      <3>. QED  BY <2>1, <2>2, NatInSet
    <2>. QED  BY <1>1, <2>3
  <1>11. \A k \in 1..Len(B) : \E q :
           /\ StopsAt(q, B[k], g[1..(k - 1)], ByBitmask)
           /\ g[1..k] = InsertAt(g[1..(k - 1)], q, B[k])
    <2>1. ASSUME NEW k \in 1..n
          PROVE  \E q : /\ StopsAt(q, B[k], g[1..(k - 1)], ByBitmask)
                        /\ g[1..k] = InsertAt(g[1..(k - 1)], q, B[k])
      <3>1. k - 1 \in 0..n /\ B[k] \in IndexType
        BY <1>1
      <3>2. g[1..(k - 1)] \in Seq(IndexType)
        BY <1>10, <3>1
      <3>. QED  BY <1>9, <3>1, <3>2, BitmaskStops
    <2>. QED  BY <2>1
  <1>. QED  BY <1>8, <1>11, LongerMaskIsKey, SortProperties

-----------------------------------------------------------------------------

(* What sort does to a list, its order apart, leaves its indexes as they   *)
(* are.                                                                    *)
LEMMA ReorderedIndexes ==
  ASSUME NEW B \in Seq(IndexType), NEW u \in Seq(IndexType), Reordered(u, B, Len(B)),
         Distinct(B)
  PROVE  /\ Len(u) = Len(B) /\ Distinct(u)
         /\ Cores(u) = Cores(B) /\ IdsOf(u) = IdsOf(B)
  <1>1. PICK p \in Perm(Len(B)) : \A i \in 1..Len(B) : u[i] = B[p[i]]
    BY DEF Reordered
  <1>2. /\ Len(u) = Len(B)
        /\ p \in [1..Len(B) -> 1..Len(B)]
        /\ \A i, j \in 1..Len(B) : p[i] = p[j] => i = j
        /\ \A k \in 1..Len(B) : \E i \in 1..Len(B) : p[i] = k
    BY DEF Reordered, Perm
  <1>3. Distinct(u)
    <2>1. ASSUME NEW i \in 1..Len(u), NEW j \in 1..Len(u), i # j
          PROVE  u[i].id # u[j].id
      <3>1. p[i] \in 1..Len(B) /\ p[j] \in 1..Len(B) /\ p[i] # p[j]
        BY <1>2, <2>1
      <3>2. u[i] = B[p[i]] /\ u[j] = B[p[j]]
        BY <1>1, <1>2
      <3>. QED  BY <3>1, <3>2 DEF Distinct
    <2>. QED  BY <2>1 DEF Distinct
  <1>4. Cores(u) = Cores(B)
    <2>1. \A i \in 1..Len(B) : p[i] \in 1..Len(B) /\ Core(u[i]) = Core(B[p[i]])
      BY <1>1, <1>2
    <2>2. \A k \in 1..Len(B) : \E i \in 1..Len(u) : Core(u[i]) = Core(B[k])
      BY <1>1, <1>2
    <2>. QED  BY <1>2, <2>1, <2>2 DEF Cores
  <1>5. IdsOf(u) = IdsOf(B)
    <2>1. \A i \in 1..Len(B) : p[i] \in 1..Len(B) /\ u[i].id = B[p[i]].id
      BY <1>1, <1>2
    <2>2. ASSUME NEW k \in 1..Len(B)
          PROVE  \E i \in 1..Len(u) : u[i].id = B[k].id
      <3>1. PICK i \in 1..Len(B) : p[i] = k
        BY <1>2
      <3>. QED  BY <1>1, <1>2, <3>1
    <2>3. IdsOf(u) \subseteq IdsOf(B)
      <3>1. ASSUME NEW i \in 1..Len(u)
            PROVE  u[i].id \in IdsOf(B)
        <4>1. p[i] \in 1..Len(B) /\ u[i].id = B[p[i]].id
          BY <1>2, <2>1
        <4>. QED  BY <4>1 DEF IdsOf
      <3>. QED  BY <3>1 DEF IdsOf
    <2>4. IdsOf(B) \subseteq IdsOf(u)
      BY <2>2 DEF IdsOf
    <2>. QED  BY <2>3, <2>4
  <1>. QED  BY <1>2, <1>3, <1>4, <1>5

(* Both sorts: a prefix comes before the longer ones.                      *)
LEMMA SortedIndexes ==
  ASSUME NEW B \in Seq(IndexType), Distinct(B)
  PROVE  LET u == Sort(Sort(B, FewerChildren), LongerMask) IN
         /\ u \in Seq(IndexType) /\ Len(u) = Len(B) /\ Distinct(u)
         /\ Cores(u) = Cores(B) /\ IdsOf(u) = IdsOf(B) /\ ByMask(u)
  <1>. DEFINE v == Sort(B, FewerChildren)
              u == Sort(v, LongerMask)
  <1>1. v \in Seq(IndexType) /\ Reordered(v, B, Len(B))
    BY ChildrenSorted
  <1>. HIDE DEF v
  <1>2. u \in Seq(IndexType) /\ Reordered(u, v, Len(v)) /\ InOrder(u, ByBitmask)
    BY <1>1, BitmaskSorted
  <1>. HIDE DEF u
  <1>3. Len(v) = Len(B) /\ Distinct(v) /\ Cores(v) = Cores(B) /\ IdsOf(v) = IdsOf(B)
    BY <1>1, ReorderedIndexes
  <1>4. Len(u) = Len(v) /\ Distinct(u) /\ Cores(u) = Cores(v) /\ IdsOf(u) = IdsOf(v)
    BY <1>1, <1>2, <1>3, ReorderedIndexes
  <1>5. ByMask(u)
    <2>1. ASSUME NEW i \in 1..Len(u), NEW j \in 1..Len(u), i < j
          PROVE  u[i].bitmask <= u[j].bitmask
      <3>1. u[i] \in IndexType /\ u[j] \in IndexType /\ <<u[i], u[j]>> \notin ByBitmask
        BY <1>2, <2>1 DEF InOrder
      <3>2. u[i].bitmask \in Nat /\ u[j].bitmask \in Nat
        BY <3>1 DEF IndexType
      <3>. QED  BY <3>1, <3>2 DEF ByBitmask
    <2>. QED  BY <2>1 DEF ByMask
  <1>. QED  BY <1>2, <1>3, <1>4, <1>5 DEF u, v

(* An id stands for one index.                                             *)
LEMMA CoreOfId ==
  ASSUME NEW list, Distinct(list), NEW c \in Cores(list), NEW d \in Cores(list), c.id = d.id
  PROVE  c = d
  <1>1. PICK i \in 1..Len(list) : c = Core(list[i])
    BY DEF Cores
  <1>2. PICK j \in 1..Len(list) : d = Core(list[j])
    BY DEF Cores
  <1>3. list[i].id = list[j].id
    BY <1>1, <1>2 DEF Core
  <1>. QED  BY <1>1, <1>2, <1>3 DEF Distinct

(* The ids of a list are those of its cores, whose fields are typed.       *)
LEMMA CoresTyped ==
  ASSUME NEW list \in Seq(IndexType)
  PROVE  /\ \A c \in Cores(list) : /\ c.addr \in Address /\ c.id \in IdsOf(list)
                                    /\ c.bitmask \in Nat
                                    /\ c.parent \in IdSet \cup {NoIndex}
         /\ \A j \in 1..Len(list) : Core(list[j]) \in Cores(list) /\ list[j] \in IndexType
         /\ \A id \in IdsOf(list) : \E c \in Cores(list) : c.id = id
         /\ IsFiniteSet(IdsOf(list))
  <1>1. \A j \in 1..Len(list) : Core(list[j]) \in Cores(list) /\ list[j] \in IndexType
    BY DEF Cores
  <1>2. ASSUME NEW c \in Cores(list)
        PROVE  /\ c.addr \in Address /\ c.id \in IdsOf(list) /\ c.bitmask \in Nat
               /\ c.parent \in IdSet \cup {NoIndex}
    <2>1. PICK j \in 1..Len(list) : c = Core(list[j])
      BY DEF Cores
    <2>2. list[j] \in IndexType /\ list[j].id \in IdsOf(list)
      BY DEF IdsOf
    <2>. QED  BY <2>1, <2>2 DEF Core, IndexType
  <1>3. ASSUME NEW id \in IdsOf(list)
        PROVE  \E c \in Cores(list) : c.id = id
    <2>1. PICK j \in 1..Len(list) : id = list[j].id
      BY DEF IdsOf
    <2>2. Core(list[j]).id = id
      BY <2>1 DEF Core
    <2>. QED  BY <1>1, <2>2
  <1>4. IsFiniteSet(IdsOf(list))
    <2>. DEFINE f == [j \in 1..Len(list) |-> list[j].id]
    <2>1. f \in Surjection(1..Len(list), IdsOf(list))
      BY DEF Surjection, IdsOf
    <2>2. IsFiniteSet(1..Len(list))
      BY CountUpTo
    <2>. QED  BY <2>1, <2>2, FS_Surjection
  <1>. QED  BY <1>1, <1>2, <1>3, <1>4

LEMMA TopFinite ==
  ASSUME NEW list \in Seq(IndexType), NEW m
  PROVE  TopOf(list, m) \subseteq IdsOf(list) /\ IsFiniteSet(TopOf(list, m))
  <1>1. TopOf(list, m) \subseteq IdsOf(list)
    BY CoresTyped DEF TopOf
  <1>2. IsFiniteSet(IdsOf(list))
    BY CoresTyped
  <1>. QED  BY <1>1, <1>2, FS_Subset

(* What is counted: an index of the level is added to the top's.           *)
LEMMA TopCounted ==
  ASSUME NEW list \in Seq(IndexType), Distinct(list), NEW a \in Address, NEW m \in Nat,
         NEW n, n = Cardinality(TopOf(list, m)),
         \A c \in Cores(list) : c.id = index_id(c.addr, c.bitmask)
  PROVE  LET new == Counted(list, a, Bits(a, m)) IN
         (IF IsNew(list, a, Bits(a, m)) THEN n + 1 ELSE n) = Cardinality(TopOf(new, m))
  <1>. DEFINE b == Bits(a, m)
              id == index_id(a, b)
              x == Core(Index(a, b))
              new == Counted(list, a, b)
  <1>1. b \in Nat
    BY DEF Bits
  <1>2. x.id = id /\ x.addr = a /\ x.bitmask = b
    BY DEF Core, Index
  <1>3. /\ IsNew(list, a, b) <=> id \notin IdsOf(list)
        /\ Cores(new) = IF id \in IdsOf(list) THEN Cores(list) ELSE Cores(list) \cup {x}
    <2>. HIDE DEF b
    <2>. QED  BY <1>1, CountedProperties
  <1>4. CASE id \in IdsOf(list)
    BY <1>3, <1>4 DEF TopOf
  <1>5. CASE id \notin IdsOf(list)
    <2>1. Cores(new) = Cores(list) \cup {x} /\ x.bitmask = Bits(x.addr, m)
      BY <1>2, <1>3, <1>5
    <2>2. TopOf(new, m) = TopOf(list, m) \cup {x.id}
      <3>. HIDE DEF x, new
      <3>. QED  BY <2>1 DEF TopOf
    <2>3. id \notin TopOf(list, m) /\ IsFiniteSet(TopOf(list, m))
      BY <1>5, TopFinite
    <2>4. Cardinality(TopOf(new, m)) = Cardinality(TopOf(list, m)) + 1
      <3>. HIDE DEF x, new, id
      <3>. QED  BY <1>2, <2>2, <2>3, FS_AddElement
    <2>. QED  BY <1>3, <1>5, <2>4
  <1>. QED  BY <1>4, <1>5

(* An index that is given a parent stays on its level.                     *)
LEMMA TopRenewed ==
  ASSUME NEW list \in Seq(IndexType), Distinct(list), NEW at \in 1..Len(list),
         NEW p \in IdSet, NEW m
  PROVE  TopOf(Renewed(list, at, p), m) = TopOf(list, m)
  <1>. DEFINE x == Core(list[at])
              y == Adopted(x, p)
  <1>1. y.id = x.id /\ y.addr = x.addr /\ y.bitmask = x.bitmask
    BY DEF Adopted
  <1>2. x \in Cores(list) /\ Cores(Renewed(list, at, p)) = (Cores(list) \ {x}) \cup {y}
    BY RenewedProperties
  <1>. HIDE DEF x, y
  <1>3. ASSUME NEW c \in Cores(list), c.bitmask = Bits(c.addr, m)
        PROVE  \E d \in Cores(Renewed(list, at, p)) :
                 d.id = c.id /\ d.bitmask = Bits(d.addr, m)
    BY <1>1, <1>2, <1>3
  <1>4. ASSUME NEW d \in Cores(Renewed(list, at, p)), d.bitmask = Bits(d.addr, m)
        PROVE  \E c \in Cores(list) : d.id = c.id /\ c.bitmask = Bits(c.addr, m)
    BY <1>1, <1>2, <1>4
  <1>. QED  BY <1>3, <1>4 DEF TopOf

LEMMA AddressTyped ==
  ASSUME NEW a \in Address
  PROVE  a.v6 \in BOOLEAN /\ a.part \in [1..4 -> Nat]
  <1>. DEFINE v4 == [v6 : {FALSE}, part : [1..4 -> Octet]]
              v6 == [v6 : {TRUE}, part : [1..4 -> Group16]]
  <1>1. a \in v4 \/ a \in v6
    BY DEF Address
  <1>2. a \in v4 => a.v6 \in {FALSE} /\ a.part \in [1..4 -> Octet]
    OBVIOUS
  <1>3. a \in v6 => a.v6 \in {TRUE} /\ a.part \in [1..4 -> Group16]
    OBVIOUS
  <1>4. a.v6 \in BOOLEAN
    BY <1>1, <1>2, <1>3, Zenon
  <1>5. Octet \subseteq Nat /\ Group16 \subseteq Nat
    BY DEF Octet, Group16
  <1>6. a.part \in [1..4 -> Octet] \/ a.part \in [1..4 -> Group16]
    BY <1>1, <1>2, <1>3, Zenon
  <1>7. a.part \in [1..4 -> Nat]
    BY <1>5, <1>6
  <1>. QED  BY <1>4, <1>7

(* The lengths of prefixes.                                                *)
LEMMA BitsProperties ==
  ASSUME NEW a \in Address
  PROVE  /\ \A m \in Nat : Bits(a, m) \in Nat
         /\ \A m, k \in Nat : (Bits(a, m) = Bits(a, k) <=> m = k)
         /\ \A m \in Nat : m >= 3 => Bits(a, m) - 3 = Bits(a, m - 3)
  BY DEF Bits

LEMMA MasksProperties ==
  \A m \in Masks : /\ m \in Nat /\ m \in 5..29 /\ 29 \in Masks
                   /\ m > 6 => m - 3 \in Masks /\ m - 3 < m /\ m - 3 + 3 = m
  BY DEF Masks

-----------------------------------------------------------------------------

LEMMA InitIInv == Init => IInv
  <1>. SUFFICES ASSUME Init PROVE IInv
    OBVIOUS
  <1>1. /\ ips \in Inputs /\ idxs = <<>> /\ idxcount = 0 /\ bitmask = 29
        /\ lines = <<>> /\ todo = ips
        /\ phase \in {"leaf", "flat"}
    BY DEF Init, idxtable_bitmask1
  <1>2. ips \in Seq(Address) /\ Len(ips) \in Nat
    BY <1>1, IndexAssumption
  <1>3. Cores(idxs) = {} /\ Distinct(idxs) /\ TopIds = {}
    BY <1>1 DEF Cores, Distinct, TopIds, TopOf
  <1>4. Typed
    <2>1. todo \in Seq(IdSet \cup Address)
      BY <1>1, <1>2
    <2>2. idxs \in Seq(IndexType) /\ lines \in Seq(LineSet)
      BY <1>1
    <2>. QED  BY <1>1, <1>2, <2>1, <2>2 DEF Typed
  <1>5. Linked
    BY <1>1, <1>3, FS_EmptySet DEF Linked, Masks
  <1>6. Indexed
    <2>1. Len(ips) - Len(todo) = 0
      BY <1>1, <1>2
    <2>2. \A j \in 1..Len(todo) : todo[j] = ips[(Len(ips) - Len(todo)) + j]
      BY <1>1, <1>2, <2>1
    <2>3. \A k \in 1..(Len(ips) - Len(todo)) : FALSE
      BY <2>1
    <2>4. Len(todo) <= Len(ips)
      BY <1>1, <1>2
    <2>. QED  BY <1>1, <1>3, <2>2, <2>3, <2>4 DEF Indexed
  <1>7. Grouped /\ Filed
    BY <1>1 DEF Grouped, Filed
  <1>. QED  BY <1>4, <1>5, <1>6, <1>7 DEF IInv

LEMMA LeafIInv ==
  ASSUME IInv, Leaf
  PROVE  IInv'
  <1>. DEFINE a == Head(todo)
              b == Bits(a, bitmask)
              id == index_id(a, b)
              n == Len(ips) - Len(todo)
              x == Core(Index(a, b))
  <1>1. /\ phase = "leaf" /\ todo # <<>> /\ todo' = Tail(todo)
        /\ idxs' = Counted(idxs, a, b)
        /\ idxcount' = IF IsNew(idxs, a, b) THEN idxcount + 1 ELSE idxcount
        /\ ips' = ips /\ phase' = phase /\ bitmask' = bitmask /\ lines' = lines
    BY DEF Leaf
  <1>2. /\ ips \in Inputs /\ ips \in Seq(Address) /\ todo \in Seq(IdSet \cup Address)
        /\ idxs \in Seq(IndexType) /\ lines \in Seq(LineSet)
        /\ Distinct(idxs) /\ \A c \in Cores(idxs) : GoodCore(c)
        /\ bitmask \in Masks /\ idxcount = Cardinality(TopOf(idxs, bitmask))
    BY DEF IInv, Typed, Linked, TopIds
  <1>3. /\ bitmask = 29 /\ Len(todo) <= Len(ips)
        /\ \A c \in Cores(idxs) : IsTop(c)
        /\ \A j \in 1..Len(todo) : todo[j] = ips[n + j]
        /\ \A k \in 1..n : LeafId(k) \in IdsOf(idxs)
    BY <1>1 DEF IInv, Indexed
  <1>4. lines = <<>>
    BY <1>1 DEF IInv, Filed
  <1>5. /\ Len(ips) \in Nat /\ Len(todo) \in Nat /\ Len(todo) >= 1 /\ n \in Nat
        /\ n + 1 \in 1..Len(ips)
        /\ todo' \in Seq(IdSet \cup Address) /\ Len(todo') = Len(todo) - 1
        /\ \A j \in 1..Len(todo') : todo'[j] = todo[j + 1] /\ j + 1 \in 1..Len(todo)
    BY <1>1, <1>2, <1>3
  <1>6. a = todo[1] /\ a = ips[n + 1] /\ a \in Address
    <2>1. a = todo[1]
      BY <1>1, <1>2
    <2>2. todo[1] = ips[n + 1]
      BY <1>3, <1>5
    <2>. QED  BY <1>2, <1>5, <2>1, <2>2
  <1>7. b \in Nat /\ bitmask \in Nat /\ b = Bits(a, 29)
    <2>. HIDE DEF a
    <2>. QED  BY <1>3, <1>6, BitsProperties
  <1>. HIDE DEF a, n
  <1>8. /\ idxs' \in Seq(IndexType) /\ Distinct(idxs')
        /\ IdsOf(idxs') = IdsOf(idxs) \cup {id}
        /\ \A c \in Cores(idxs') : c \in Cores(idxs) \/ c = x
    <2>. HIDE DEF b
    <2>. QED  BY <1>1, <1>2, <1>6, <1>7, CountedProperties
  <1>9. x.id = id /\ x.addr = a /\ x.bitmask = b /\ x.parent = NoIndex
    BY DEF Core, Index
  <1>10. Typed'
    BY <1>1, <1>2, <1>5, <1>8 DEF Typed
  <1>11. Linked'
    <2>1. \A c \in Cores(idxs) : c.id = index_id(c.addr, c.bitmask)
      BY <1>2 DEF GoodCore
    <2>2. idxcount' = Cardinality(TopOf(Counted(idxs, a, b), bitmask))
      BY <1>1, <1>2, <1>6, <1>7, <2>1, TopCounted
    <2>3. idxcount' = Cardinality(TopIds)'
      BY <1>1, <2>2 DEF TopIds
    <2>4. ASSUME NEW c \in Cores(idxs')
          PROVE  GoodCore(c)'
      <3>1. CASE c \in Cores(idxs)
        BY <1>1, <1>2, <1>8, <3>1 DEF GoodCore, IsTop, Level
      <3>2. CASE c = x
        <4>1. \E k \in 1..Len(ips) : c.addr = ips[k]
          BY <1>5, <1>6, <1>9, <3>2
        <4>2. 29 \in Masks /\ 29 >= bitmask /\ c.bitmask = Bits(c.addr, 29)
          BY <1>3, <1>7, <1>9, <3>2, MasksProperties DEF Masks
        <4>. HIDE DEF x
        <4>. QED  BY <1>1, <1>9, <3>2, <4>1, <4>2 DEF GoodCore
      <3>. QED  BY <1>8, <3>1, <3>2
    <2>. QED  BY <1>1, <1>2, <1>8, <2>3, <2>4 DEF Linked
  <1>12. Indexed'
    <2>1. ASSUME NEW c \in Cores(idxs')
          PROVE  IsTop(c)'
      <3>. HIDE DEF x
      <3>. QED  BY <1>1, <1>3, <1>7, <1>8, <1>9 DEF IsTop, Level
    <2>2. Len(ips) - Len(todo') = n + 1
      BY <1>5 DEF n
    <2>3. \A j \in 1..Len(todo') : todo'[j] = ips[n + 1 + j]
      <3>1. \A j \in 1..Len(todo') : todo[j + 1] = ips[n + (j + 1)]
        BY <1>3, <1>5
      <3>2. \A j \in 1..Len(todo') : n + (j + 1) = n + 1 + j
        BY <1>5
      <3>. QED  BY <1>5, <3>1, <3>2
    <2>4. ASSUME NEW k \in 1..(n + 1)
          PROVE  LeafId(k)' \in IdsOf(idxs')
      <3>1. CASE k \in 1..n
        BY <1>1, <1>3, <1>8, <3>1 DEF LeafId
      <3>2. CASE k = n + 1
        BY <1>1, <1>6, <1>7, <1>8, <3>2 DEF LeafId, idxtable_bitmask1
      <3>. QED  BY <1>5, <3>1, <3>2
    <2>5. Len(todo') <= Len(ips)
      BY <1>3, <1>5
    <2>. QED  BY <1>1, <1>3, <2>1, <2>2, <2>3, <2>4, <2>5 DEF Indexed
  <1>13. Grouped' /\ Filed'
    BY <1>1, <1>4 DEF Grouped, Filed
  <1>. QED  BY <1>10, <1>11, <1>12, <1>13 DEF IInv

LEMMA NextLevelIInv ==
  ASSUME IInv, NextLevel
  PROVE  IInv'
  <1>1. /\ phase \in {"leaf", "group"} /\ todo = <<>> /\ bitmask > 6
        /\ phase' = "group" /\ bitmask' = bitmask - 3 /\ idxcount' = 0
        /\ todo' = [i \in 1..Len(idxs) |-> idxs[i].id]
        /\ ips' = ips /\ idxs' = idxs /\ lines' = lines
    BY DEF NextLevel, idxtable_bitmask2
  <1>2. /\ ips \in Inputs /\ ips \in Seq(Address) /\ idxs \in Seq(IndexType)
        /\ lines \in Seq(LineSet)
        /\ Distinct(idxs) /\ \A c \in Cores(idxs) : GoodCore(c)
        /\ bitmask \in Masks
    BY DEF IInv, Typed, Linked
  <1>3. bitmask \in Nat /\ bitmask' \in Masks /\ bitmask' \in Nat /\ bitmask' < bitmask
        /\ bitmask' + 3 = bitmask
    BY <1>1, <1>2, MasksProperties
  <1>4. ASSUME NEW c \in Cores(idxs)
        PROVE  ~IsTop(c)' /\ GoodCore(c)'
    <2>1. PICK m \in Masks : m >= bitmask /\ c.bitmask = Bits(c.addr, m)
      BY <1>2 DEF GoodCore
    <2>2. m \in Nat /\ m >= bitmask' /\ m # bitmask'
      BY <1>3, <2>1, MasksProperties
    <2>3. c.addr \in Address
      BY <1>2, CoresTyped
    <2>4. c.bitmask # Bits(c.addr, bitmask')
      BY <1>3, <2>1, <2>2, <2>3, BitsProperties
    <2>5. ~IsTop(c)'
      BY <2>4 DEF IsTop, Level
    <2>. QED  BY <1>1, <1>2, <2>1, <2>2, <2>5 DEF GoodCore
  <1>5. Typed'
    <2>1. todo' \in Seq(IdSet \cup Address)
      <3>1. \A i \in 1..Len(idxs) : idxs[i].id \in IdSet
        <4>1. \A i \in 1..Len(idxs) : idxs[i] \in IndexType
          BY <1>2
        <4>. QED  BY <4>1 DEF IndexType
      <3>2. Len(idxs) \in Nat
        BY <1>2
      <3>. QED  BY <1>1, <3>1, <3>2
    <2>. QED  BY <1>1, <1>2, <2>1 DEF Typed
  <1>6. Linked'
    <2>1. TopIds' = {}
      BY <1>1, <1>4 DEF TopIds, TopOf, IsTop, Level
    <2>. QED  BY <1>1, <1>2, <1>3, <1>4, <2>1, FS_EmptySet DEF Linked
  <1>7. Indexed'
    <2>1. Len(ips) - Len(todo) = Len(ips)
      BY <1>1, <1>2
    <2>2. \A k \in 1..Len(ips) : LeafId(k) \in IdsOf(idxs)
      BY <1>1, <2>1 DEF IInv, Indexed
    <2>3. \A k \in 1..Len(ips) : LeafId(k)' = LeafId(k)
      BY <1>1 DEF LeafId
    <2>. QED  BY <1>1, <2>2, <2>3 DEF Indexed
  <1>8. Grouped'
    <2>1. Len(idxs) \in Nat /\ Len(todo') = Len(idxs)
      BY <1>1, <1>2
    <2>2. ASSUME NEW c \in Cores(idxs), c.parent = NoIndex
          PROVE  IsTop(c)
      BY <1>1, <2>2 DEF IInv, Indexed, Grouped
    <2>3. ASSUME NEW c \in Cores(idxs), c.parent = NoIndex
          PROVE  /\ c.bitmask = Level(c.addr)' + 3
                 /\ \E k \in 1..Len(todo') : todo'[k] = c.id
      <3>1. c.bitmask = Bits(c.addr, bitmask)
        BY <2>2, <2>3 DEF IsTop, Level
      <3>2. c.bitmask = Bits(c.addr, bitmask') + 3
        <4>1. c.addr \in Address /\ bitmask >= 3 /\ bitmask' = bitmask - 3
          BY <1>1, <1>2, <1>3, CoresTyped
        <4>2. /\ Bits(c.addr, bitmask) - 3 = Bits(c.addr, bitmask')
              /\ Bits(c.addr, bitmask) \in Nat
          BY <1>3, <4>1, BitsProperties
        <4>. QED  BY <3>1, <4>2
      <3>3. PICK k \in 1..Len(idxs) : c = Core(idxs[k])
        BY DEF Cores
      <3>4. todo'[k] = c.id
        BY <1>1, <3>3 DEF Core
      <3>. QED  BY <2>1, <3>2, <3>4 DEF Level
    <2>4. ASSUME NEW k \in 1..Len(todo')
          PROVE  \E c \in Cores(idxs) : c.id = todo'[k] /\ ~IsTop(c)'
      <3>1. Core(idxs[k]) \in Cores(idxs) /\ Core(idxs[k]).id = todo'[k]
        BY <1>1, <2>1 DEF Cores, Core
      <3>. QED  BY <1>4, <3>1
    <2>. QED  BY <1>1, <2>1, <2>3, <2>4 DEF Grouped
  <1>9. Filed'
    BY <1>1 DEF IInv, Filed
  <1>. QED  BY <1>5, <1>6, <1>7, <1>8, <1>9 DEF IInv

(* The index of the next id of a list of visits.                           *)
LEMMA GroupFacts ==
  ASSUME IInv, phase = "group", todo # <<>>
  PROVE  LET x == idxs[Place(Head(todo))] IN
         /\ Place(Head(todo)) \in 1..Len(idxs)
         /\ x \in IndexType /\ Core(x) \in Cores(idxs) /\ x.id = Head(todo)
         /\ ~IsTop(Core(x))
         /\ Head(todo) = todo[1]
         /\ Tail(todo) \in Seq(IdSet \cup Address) /\ Len(Tail(todo)) = Len(todo) - 1
         /\ \A j \in 1..Len(Tail(todo)) :
              Tail(todo)[j] = todo[j + 1] /\ j + 1 \in 1..Len(todo)
  <1>. DEFINE at == Place(Head(todo))
  <1>1. /\ todo \in Seq(IdSet \cup Address) /\ idxs \in Seq(IndexType) /\ Distinct(idxs)
        /\ \A k \in 1..Len(todo) : \E c \in Cores(idxs) : c.id = todo[k] /\ ~IsTop(c)
    BY DEF IInv, Typed, Linked, Grouped
  <1>2. /\ Len(todo) \in Nat /\ 1 \in 1..Len(todo) /\ Head(todo) = todo[1]
        /\ Tail(todo) \in Seq(IdSet \cup Address) /\ Len(Tail(todo)) = Len(todo) - 1
        /\ \A j \in 1..Len(Tail(todo)) :
             Tail(todo)[j] = todo[j + 1] /\ j + 1 \in 1..Len(todo)
    BY <1>1
  <1>3. PICK c \in Cores(idxs) : c.id = Head(todo) /\ ~IsTop(c)
    BY <1>1, <1>2
  <1>4. c.id \in IdsOf(idxs)
    BY <1>1, CoresTyped
  <1>5. at = PlaceIn(idxs, Head(todo)) /\ Len(idxs) \in Nat
    <2>1. at = IfExists(idxs, LAMBDA y : y.id = Head(todo))
      BY DEF Place
    <2>. QED  BY <1>1, <2>1 DEF PlaceIn, IfExists, SelectInSeq
  <1>6. at \in 1..Len(idxs) /\ idxs[at].id = Head(todo)
    BY <1>3, <1>4, <1>5, PlaceProperties
  <1>7. idxs[at] \in IndexType /\ Core(idxs[at]) \in Cores(idxs)
    BY <1>1, <1>6, CoresTyped
  <1>8. Core(idxs[at]).id = Head(todo)
    BY <1>6 DEF Core
  <1>9. Core(idxs[at]) = c
    BY <1>1, <1>3, <1>7, <1>8, CoreOfId
  <1>. QED  BY <1>2, <1>3, <1>6, <1>7, <1>9

LEMMA GroupIdle ==
  ASSUME IInv, Group, idxs[Place(Head(todo))].parent # NoIndex
  PROVE  IInv'
  <1>. DEFINE x == idxs[Place(Head(todo))]
  <1>1. /\ phase = "group" /\ todo # <<>> /\ todo' = Tail(todo)
        /\ ips' = ips /\ phase' = phase /\ bitmask' = bitmask /\ lines' = lines
        /\ idxs' = idxs /\ idxcount' = idxcount
    BY DEF Group, Parentless
  <1>2. /\ x \in IndexType /\ Core(x) \in Cores(idxs) /\ x.id = Head(todo)
        /\ Head(todo) = todo[1]
        /\ Tail(todo) \in Seq(IdSet \cup Address) /\ Len(Tail(todo)) = Len(todo) - 1
        /\ \A j \in 1..Len(Tail(todo)) :
             Tail(todo)[j] = todo[j + 1] /\ j + 1 \in 1..Len(todo)
    BY <1>1, GroupFacts
  <1>3. x.parent # NoIndex
    OBVIOUS
  <1>. HIDE DEF x
  <1>4. Typed'
    BY <1>1, <1>2 DEF IInv, Typed
  <1>5. Linked'
    <2>1. \A c : GoodCore(c)' = GoodCore(c)
      BY <1>1 DEF GoodCore, IsTop, Level
    <2>. QED  BY <1>1, <2>1 DEF IInv, Linked, TopIds
  <1>6. Indexed'
    <2>1. \A k : LeafId(k)' = LeafId(k)
      BY <1>1 DEF LeafId
    <2>. QED  BY <1>1, <2>1 DEF IInv, Indexed
  <1>7. Grouped'
    <2>1. /\ Len(todo) <= Len(idxs) /\ Distinct(idxs)
          /\ \A c \in Cores(idxs) : c.parent = NoIndex =>
               \/ IsTop(c)
               \/ /\ c.bitmask = Level(c.addr) + 3
                  /\ \E k \in 1..Len(todo) : todo[k] = c.id
          /\ \A k \in 1..Len(todo) : \E c \in Cores(idxs) : c.id = todo[k] /\ ~IsTop(c)
      BY <1>1 DEF IInv, Linked, Grouped
    <2>2. Len(todo) \in Nat /\ Len(idxs) \in Nat /\ Len(todo') = Len(todo) - 1
      BY <1>1, <1>2 DEF IInv, Typed
    <2>3. \A c : IsTop(c)' = IsTop(c) /\ \A d : Level(d)' = Level(d)
      BY <1>1 DEF IsTop, Level
    <2>4. ASSUME NEW c \in Cores(idxs), c.parent = NoIndex, ~IsTop(c)
          PROVE  /\ c.bitmask = Level(c.addr)' + 3
                 /\ \E k \in 1..Len(todo') : todo'[k] = c.id
      <3>1. PICK k \in 1..Len(todo) : todo[k] = c.id
        BY <2>1, <2>4
      <3>2. k # 1
        <4>1. SUFFICES ASSUME k = 1 PROVE FALSE
          OBVIOUS
        <4>2. Core(x).id = c.id /\ Core(x).parent # NoIndex
          BY <1>2, <1>3, <3>1, <4>1 DEF Core
        <4>. QED  BY <1>2, <2>1, <2>4, <4>2, CoreOfId
      <3>3. k - 1 \in 1..Len(todo') /\ (k - 1) + 1 = k
        BY <2>2, <3>2
      <3>4. todo'[k - 1] = todo[k]
        BY <1>1, <1>2, <3>3
      <3>. QED  BY <2>1, <2>3, <2>4, <3>1, <3>3, <3>4
    <2>5. ASSUME NEW k \in 1..Len(todo')
          PROVE  \E c \in Cores(idxs) : c.id = todo'[k] /\ ~IsTop(c)'
      BY <1>1, <1>2, <2>1, <2>3
    <2>. QED  BY <1>1, <2>1, <2>2, <2>3, <2>4, <2>5 DEF Grouped
  <1>8. Filed'
    BY <1>1 DEF IInv, Filed
  <1>. QED  BY <1>4, <1>5, <1>6, <1>7, <1>8 DEF IInv

(* What the visit of an index without parent does.                         *)
LEMMA GroupAdopts ==
  ASSUME IInv, Group, idxs[Place(Head(todo))].parent = NoIndex
  PROVE  LET x == idxs[Place(Head(todo))]
             b == Bits(x.addr, bitmask)
             p == index_id(x.addr, b)
             new == Core(Index(x.addr, b))
             old == Core(x)
         IN
         /\ idxs' \in Seq(IndexType) /\ Distinct(idxs') /\ Len(idxs') >= Len(idxs)
         /\ IdsOf(idxs') = IdsOf(idxs) \cup {p}
         /\ old \in Cores(idxs) /\ Adopted(old, p) \in Cores(idxs')
         /\ \A c \in Cores(idxs') : \/ c \in Cores(idxs) /\ c # old
                                    \/ c = new
                                    \/ c = Adopted(old, p)
         /\ \A c \in Cores(idxs) : c # old => c \in Cores(idxs')
         /\ idxcount' = Cardinality(TopOf(idxs', bitmask))
  <1>. DEFINE x == idxs[Place(Head(todo))]
              b == Bits(x.addr, bitmask)
              p == index_id(x.addr, b)
              counted == Counted(idxs, x.addr, b)
              at == PlaceIn(counted, x.id)
  <1>1. /\ phase = "group" /\ todo # <<>>
        /\ idxs' = Renewed(counted, at, p)
        /\ idxcount' = IF IsNew(idxs, x.addr, b) THEN idxcount + 1 ELSE idxcount
    <2>1. at = IfExists(counted, LAMBDA y : y.id = x.id)
      BY DEF PlaceIn
    <2>. QED  BY <2>1 DEF Group, Parentless, Renewed, IfExists, SelectInSeq
  <1>2. /\ idxs \in Seq(IndexType) /\ Distinct(idxs) /\ \A c \in Cores(idxs) : GoodCore(c)
        /\ bitmask \in Masks /\ idxcount = Cardinality(TopOf(idxs, bitmask))
    BY DEF IInv, Typed, Linked, TopIds
  <1>3. x \in IndexType /\ Core(x) \in Cores(idxs) /\ Core(x).id = x.id
    BY <1>1, GroupFacts DEF Core
  <1>4. x.addr \in Address /\ bitmask \in Nat /\ b \in Nat
    <2>1. x.addr \in Address /\ bitmask \in Nat
      BY <1>2, <1>3, MasksProperties DEF IndexType
    <2>. QED  BY <2>1, BitsProperties
  <1>5. p \in IdSet
    <2>. HIDE DEF b, x
    <2>. QED  BY <1>4, IndexTyped
  <1>. HIDE DEF x
  <1>6. /\ counted \in Seq(IndexType) /\ Distinct(counted) /\ Len(counted) \in Nat
        /\ Len(counted) >= Len(idxs)
        /\ IdsOf(counted) = IdsOf(idxs) \cup {p}
        /\ Cores(counted) = IF p \in IdsOf(idxs) THEN Cores(idxs)
                            ELSE Cores(idxs) \cup {Core(Index(x.addr, b))}
    <2>. HIDE DEF b
    <2>. QED  BY <1>2, <1>4, CountedProperties
  <1>7. \A c \in Cores(idxs) : c.id = index_id(c.addr, c.bitmask)
    BY <1>2 DEF GoodCore
  <1>8. idxcount' = Cardinality(TopOf(counted, bitmask))
    BY <1>1, <1>2, <1>4, <1>7, TopCounted
  <1>. HIDE DEF counted, p, b
  <1>9. Core(x) \in Cores(counted) /\ x.id \in IdsOf(counted)
    BY <1>2, <1>3, <1>6, CoresTyped
  <1>10. at \in 1..Len(counted) /\ counted[at].id = x.id
    <2>. HIDE DEF at
    <2>. QED  BY <1>6, <1>9, PlaceProperties DEF at
  <1>. HIDE DEF at
  <1>11. Core(counted[at]) = Core(x)
    <2>1. Core(counted[at]) \in Cores(counted) /\ Core(counted[at]).id = Core(x).id
      BY <1>3, <1>10 DEF Cores, Core
    <2>. QED  BY <1>6, <1>9, <2>1, CoreOfId
  <1>12. /\ idxs' \in Seq(IndexType) /\ Distinct(idxs') /\ Len(idxs') = Len(counted)
         /\ IdsOf(idxs') = IdsOf(counted)
         /\ Cores(idxs') = (Cores(counted) \ {Core(x)}) \cup {Adopted(Core(x), p)}
    BY <1>1, <1>5, <1>6, <1>10, <1>11, RenewedProperties
  <1>13. TopOf(idxs', bitmask) = TopOf(counted, bitmask)
    BY <1>1, <1>5, <1>6, <1>10, TopRenewed
  <1>. QED  BY <1>3, <1>6, <1>8, <1>12, <1>13 DEF x, b, p

LEMMA GroupIInv ==
  ASSUME IInv, Group
  PROVE  IInv'
  <1>1. CASE idxs[Place(Head(todo))].parent # NoIndex
    BY <1>1, GroupIdle
  <1>2. CASE idxs[Place(Head(todo))].parent = NoIndex
    <2>. DEFINE x == idxs[Place(Head(todo))]
                b == Bits(x.addr, bitmask)
                p == index_id(x.addr, b)
                new == Core(Index(x.addr, b))
                old == Core(x)
                adopted == Adopted(old, p)
    <2>1. /\ phase = "group" /\ todo # <<>> /\ todo' = Tail(todo)
          /\ ips' = ips /\ phase' = phase /\ bitmask' = bitmask /\ lines' = lines
      BY DEF Group
    <2>2. /\ ips \in Inputs /\ ips \in Seq(Address) /\ idxs \in Seq(IndexType)
          /\ lines \in Seq(LineSet) /\ Distinct(idxs) /\ \A c \in Cores(idxs) : GoodCore(c)
          /\ bitmask \in Masks
      BY DEF IInv, Typed, Linked
    <2>3. /\ Len(todo) <= Len(idxs)
          /\ \A c \in Cores(idxs) : c.parent = NoIndex =>
               \/ IsTop(c)
               \/ /\ c.bitmask = Level(c.addr) + 3
                  /\ \E k \in 1..Len(todo) : todo[k] = c.id
          /\ \A k \in 1..Len(todo) : \E c \in Cores(idxs) : c.id = todo[k] /\ ~IsTop(c)
      BY <2>1 DEF IInv, Grouped
    <2>4. /\ x \in IndexType /\ old \in Cores(idxs) /\ x.id = Head(todo) /\ ~IsTop(old)
          /\ Head(todo) = todo[1]
          /\ Tail(todo) \in Seq(IdSet \cup Address) /\ Len(Tail(todo)) = Len(todo) - 1
          /\ \A j \in 1..Len(Tail(todo)) :
               Tail(todo)[j] = todo[j + 1] /\ j + 1 \in 1..Len(todo)
      BY <2>1, GroupFacts
    <2>5. /\ idxs' \in Seq(IndexType) /\ Distinct(idxs') /\ Len(idxs') >= Len(idxs)
          /\ IdsOf(idxs') = IdsOf(idxs) \cup {p}
          /\ adopted \in Cores(idxs')
          /\ \A c \in Cores(idxs') : (c \in Cores(idxs) /\ c # old) \/ c = new \/ c = adopted
          /\ \A c \in Cores(idxs) : c # old => c \in Cores(idxs')
          /\ idxcount' = Cardinality(TopOf(idxs', bitmask))
      BY <1>2, GroupAdopts
    <2>6. /\ new.id = p /\ new.addr = x.addr /\ new.bitmask = b /\ new.parent = NoIndex
          /\ old.id = x.id /\ old.addr = x.addr /\ old.bitmask = x.bitmask
          /\ old.parent = NoIndex
          /\ adopted.id = x.id /\ adopted.addr = x.addr /\ adopted.bitmask = x.bitmask
          /\ adopted.parent = p
      BY <1>2 DEF Core, Index, Adopted
    <2>. HIDE DEF x, new, old, adopted
    <2>7. old.bitmask = b + 3 /\ b \in Nat /\ bitmask \in Nat /\ x.addr \in Address
      <3>1. old.bitmask = Level(old.addr) + 3
        BY <2>3, <2>4, <2>6
      <3>2. bitmask \in Nat /\ x.addr \in Address
        BY <2>2, <2>4, MasksProperties DEF IndexType
      <3>. QED  BY <2>6, <3>1, <3>2, BitsProperties DEF Level
    <2>8. PICK k \in 1..Len(ips) : x.addr = ips[k]
      BY <2>2, <2>4, <2>6 DEF GoodCore
    <2>9. p # NoIndex
      <3>1. bitmask \in 5..29
        BY <2>2, MasksProperties
      <3>. QED  BY <2>2, <2>8, <3>1, IndexAssumption
    <2>10. \A c : IsTop(c)' = IsTop(c) /\ Level(c)' = Level(c)
      BY <2>1 DEF IsTop, Level
    <2>11. IsTop(new) /\ ~IsTop(adopted)
      BY <2>4, <2>6 DEF IsTop, Level
    <2>12. Typed'
      BY <2>1, <2>2, <2>4, <2>5 DEF Typed
    <2>13. Linked'
      <3>1. ASSUME NEW c \in Cores(idxs')
            PROVE  GoodCore(c)'
        <4>1. CASE c \in Cores(idxs)
          BY <2>1, <2>2, <2>5, <2>10, <4>1 DEF GoodCore
        <4>2. CASE c = new
          <5>1. bitmask >= bitmask /\ c.bitmask = Bits(c.addr, bitmask)
            BY <2>6, <2>7, <4>2
          <5>. QED  BY <2>1, <2>2, <2>6, <2>8, <4>2, <5>1 DEF GoodCore
        <4>3. CASE c = adopted
          <5>1. /\ \E m \in Masks : m >= bitmask /\ old.bitmask = Bits(old.addr, m)
                /\ old.id = index_id(old.addr, old.bitmask)
            BY <2>2, <2>4 DEF GoodCore
          <5>2. c.parent = index_id(c.addr, c.bitmask - 3)
            <6>1. c.bitmask - 3 = b /\ c.addr = x.addr
              BY <2>6, <2>7, <4>3
            <6>. QED  BY <2>6, <4>3, <6>1
          <5>3. c.addr = old.addr /\ c.id = old.id /\ c.bitmask = old.bitmask
            BY <2>6, <4>3
          <5>4. c.parent \in IdsOf(idxs') /\ ~IsTop(c)'
            BY <2>5, <2>6, <2>10, <2>11, <4>3
          <5>5. \E j \in 1..Len(ips) : c.addr = ips[j]
            BY <2>6, <2>8, <4>3
          <5>. QED  BY <2>1, <5>1, <5>2, <5>3, <5>4, <5>5 DEF GoodCore, idxtable_bitmask2
        <4>. QED  BY <2>5, <4>1, <4>2, <4>3
      <3>. QED  BY <2>1, <2>2, <2>5, <3>1 DEF Linked, TopIds
    <2>14. Indexed'
      <3>1. \A j : LeafId(j)' = LeafId(j)
        BY <2>1 DEF LeafId
      <3>2. \A j \in 1..Len(ips) : LeafId(j) \in IdsOf(idxs)
        BY <2>1 DEF IInv, Indexed
      <3>. QED  BY <2>1, <2>5, <3>1, <3>2 DEF Indexed
    <2>15. Grouped'
      <3>1. Len(todo) \in Nat /\ Len(idxs) \in Nat /\ Len(idxs') \in Nat
            /\ Len(todo') = Len(todo) - 1
        BY <2>1, <2>2, <2>4, <2>5 DEF IInv, Typed
      <3>2. ASSUME NEW c \in Cores(idxs'), c.parent = NoIndex, ~IsTop(c)
            PROVE  /\ c.bitmask = Level(c.addr)' + 3
                   /\ \E j \in 1..Len(todo') : todo'[j] = c.id
        <4>1. c \in Cores(idxs) /\ c # old
          BY <2>5, <2>6, <2>9, <2>11, <3>2
        <4>2. PICK j \in 1..Len(todo) : todo[j] = c.id
          BY <2>3, <3>2, <4>1
        <4>3. j # 1
          BY <2>2, <2>4, <2>6, <4>1, <4>2, CoreOfId
        <4>4. j - 1 \in 1..Len(todo') /\ (j - 1) + 1 = j
          BY <3>1, <4>3
        <4>5. todo'[j - 1] = todo[j]
          BY <2>1, <2>4, <4>4
        <4>. QED  BY <2>3, <2>10, <3>2, <4>1, <4>2, <4>4, <4>5
      <3>3. ASSUME NEW j \in 1..Len(todo')
            PROVE  \E c \in Cores(idxs') : c.id = todo'[j] /\ ~IsTop(c)'
        <4>1. todo'[j] = todo[j + 1] /\ j + 1 \in 1..Len(todo)
          BY <2>1, <2>4
        <4>2. PICK c \in Cores(idxs) : c.id = todo'[j] /\ ~IsTop(c)
          BY <2>3, <4>1
        <4>3. CASE c = old
          BY <2>5, <2>6, <2>10, <2>11, <4>2, <4>3
        <4>4. CASE c # old
          BY <2>5, <2>10, <4>2, <4>4
        <4>. QED  BY <4>3, <4>4
      <3>4. Len(todo') <= Len(idxs')
        BY <2>3, <2>5, <3>1
      <3>. QED  BY <2>1, <2>10, <3>2, <3>3, <3>4 DEF Grouped
    <2>16. Filed'
      BY <2>1 DEF IInv, Filed
    <2>. QED  BY <2>12, <2>13, <2>14, <2>15, <2>16 DEF IInv
  <1>. QED  BY <1>1, <1>2

LEMMA SortingIInv ==
  ASSUME IInv, Sorting
  PROVE  IInv'
  <1>1. /\ phase \in {"leaf", "group"} /\ todo = <<>> /\ phase' = "write"
        /\ ~(idxcount > idxtable_treshold2 /\ bitmask > 2 * idxtable_bitmask2)
        /\ idxs' = Sort(Sort(idxs, FewerChildren), LongerMask)
        /\ todo' = [i \in 1..Len(idxs') |-> idxs'[i].id]
        /\ ips' = ips /\ idxcount' = idxcount /\ bitmask' = bitmask /\ lines' = lines
    BY DEF Sorting, Crowded
  <1>2. /\ ips \in Inputs /\ ips \in Seq(Address) /\ idxs \in Seq(IndexType)
        /\ lines \in Seq(LineSet) /\ Distinct(idxs) /\ \A c \in Cores(idxs) : GoodCore(c)
        /\ bitmask \in Masks /\ idxcount = Cardinality(TopOf(idxs, bitmask))
    BY DEF IInv, Typed, Linked, TopIds
  <1>3. /\ idxs' \in Seq(IndexType) /\ Len(idxs') = Len(idxs) /\ Distinct(idxs')
        /\ Cores(idxs') = Cores(idxs) /\ IdsOf(idxs') = IdsOf(idxs) /\ ByMask(idxs')
    BY <1>1, <1>2, SortedIndexes
  <1>4. Len(idxs') \in Nat /\ Len(todo') = Len(idxs')
    BY <1>1, <1>3
  <1>5. Typed'
    <2>1. \A i \in 1..Len(idxs') : idxs'[i].id \in IdSet
      <3>1. \A i \in 1..Len(idxs') : idxs'[i] \in IndexType
        BY <1>3
      <3>. QED  BY <3>1 DEF IndexType
    <2>2. todo' \in Seq(IdSet \cup Address)
      BY <1>1, <1>4, <2>1
    <2>. QED  BY <1>1, <1>2, <1>3, <2>2 DEF Typed
  <1>6. \A c : IsTop(c)' = IsTop(c) /\ Level(c)' = Level(c)
    BY <1>1 DEF IsTop, Level
  <1>7. Linked'
    <2>1. \A c : GoodCore(c)' = GoodCore(c)
      BY <1>1, <1>3, <1>6 DEF GoodCore
    <2>2. TopIds' = TopOf(idxs, bitmask)
      BY <1>1, <1>3 DEF TopIds, TopOf
    <2>. QED  BY <1>1, <1>2, <1>3, <2>1, <2>2 DEF Linked
  <1>8. Indexed'
    <2>1. \A j : LeafId(j)' = LeafId(j)
      BY <1>1 DEF LeafId
    <2>2. Len(ips) - Len(todo) = Len(ips)
      BY <1>1, <1>2
    <2>3. \A j \in 1..Len(ips) : LeafId(j) \in IdsOf(idxs)
      BY <1>1, <2>2 DEF IInv, Indexed
    <2>. QED  BY <1>1, <1>3, <2>1, <2>3 DEF Indexed
  <1>9. Grouped'
    <2>1. ASSUME NEW c \in Cores(idxs), c.parent = NoIndex
          PROVE  IsTop(c)
      BY <1>1, <2>1 DEF IInv, Indexed, Grouped
    <2>2. bitmask > 2 * idxtable_bitmask2 => idxcount <= idxtable_treshold2
      <3>1. idxcount \in Nat
        <4>1. IsFiniteSet(TopOf(idxs, bitmask))
          BY <1>2, TopFinite
        <4>. QED  BY <1>2, <4>1, FS_CardinalityType
      <3>. QED  BY <1>1, <3>1, IndexAssumption
    <2>. QED  BY <1>1, <1>3, <1>6, <2>1, <2>2 DEF Grouped
  <1>10. Filed'
    <2>1. lines' = <<>> /\ Len(idxs') - Len(todo') = 0
      BY <1>1, <1>4 DEF IInv, Filed
    <2>2. \A k \in 1..Len(todo') : todo'[k] = idxs'[0 + k].id
      BY <1>1, <1>4
    <2>3. Len(todo') <= Len(idxs') /\ Len(lines') = 3 * 0
      BY <1>4, <2>1
    <2>. QED  BY <1>1, <1>3, <2>1, <2>2, <2>3 DEF Filed
  <1>. QED  BY <1>5, <1>7, <1>8, <1>9, <1>10 DEF IInv

LEMMA WriteIInv ==
  ASSUME IInv, Write
  PROVE  IInv'
  <1>. DEFINE n == Len(idxs) - Len(todo)
              x == idxs[Place(Head(todo))]
              new == <<Chain(x.addr.v6, x.id), JumpFrom(x, x.id), JumpFrom(x, NoIndex)>>
              Lines(s, j) == /\ s[3 * j - 2] = Chain(idxs[j].addr.v6, idxs[j].id)
                             /\ s[3 * j - 1] = JumpFrom(idxs[j], idxs[j].id)
                             /\ s[3 * j] = JumpFrom(idxs[j], NoIndex)
  <1>1. /\ phase = "write" /\ todo # <<>> /\ todo' = Tail(todo) /\ lines' = lines \o new
        /\ ips' = ips /\ phase' = phase /\ idxs' = idxs /\ idxcount' = idxcount
        /\ bitmask' = bitmask
    BY DEF Write, JumpFrom
  <1>2. /\ idxs \in Seq(IndexType) /\ Distinct(idxs) /\ todo \in Seq(IdSet \cup Address)
        /\ lines \in Seq(LineSet)
    BY DEF IInv, Typed, Linked
  <1>3. /\ Len(todo) <= Len(idxs) /\ ByMask(idxs) /\ Len(lines) = 3 * n
        /\ \A k \in 1..Len(todo) : todo[k] = idxs[n + k].id
        /\ \A j \in 1..n : Lines(lines, j)
    BY <1>1 DEF IInv, Filed
  <1>4. /\ Len(todo) \in Nat /\ Len(idxs) \in Nat /\ n \in Nat /\ n + 1 \in 1..Len(idxs)
        /\ Head(todo) = todo[1] /\ 1 \in 1..Len(todo)
        /\ Tail(todo) \in Seq(IdSet \cup Address) /\ Len(Tail(todo)) = Len(todo) - 1
        /\ \A k \in 1..Len(Tail(todo)) :
             Tail(todo)[k] = todo[k + 1] /\ k + 1 \in 1..Len(todo)
        /\ Len(idxs) - Len(Tail(todo)) = n + 1
    BY <1>1, <1>2, <1>3
  <1>5. x = idxs[n + 1] /\ x \in IndexType
    <2>1. Head(todo) = idxs[n + 1].id
      BY <1>3, <1>4
    <2>2. Place(Head(todo)) = PlaceIn(idxs, Head(todo))
      <3>1. Place(Head(todo)) = IfExists(idxs, LAMBDA y : y.id = Head(todo))
        BY DEF Place
      <3>. QED  BY <3>1 DEF PlaceIn, IfExists, SelectInSeq
    <2>3. PlaceIn(idxs, idxs[n + 1].id) = n + 1
      <3>. HIDE DEF n
      <3>. QED  BY <1>2, <1>4, PlaceOfDistinct
    <2>. QED  BY <1>2, <1>4, <2>1, <2>2, <2>3
  <1>. HIDE DEF x
  <1>6. new \in Seq(LineSet)
    <2>1. /\ x.addr \in Address /\ x.id \in IdSet /\ x.bitmask \in Nat
          /\ x.parent \in IdSet \cup {NoIndex}
      BY <1>5 DEF IndexType
    <2>2. x.addr.v6 \in BOOLEAN
      BY <2>1, AddressTyped
    <2>3. <<x.addr.v6, x.id>> \in BOOLEAN \X IdSet
      BY <2>1, <2>2
    <2>4. Chain(x.addr.v6, x.id) \in LineSet
      BY <2>3 DEF LineSet
    <2>5. ASSUME NEW to \in IdSet \cup {NoIndex}
          PROVE  JumpFrom(x, to) \in LineSet
      <3>. DEFINE y == <<x.parent, x.addr, x.bitmask, to>>
      <3>1. y \in (IdSet \cup {NoIndex}) \X Address \X Nat \X (IdSet \cup {NoIndex})
        BY <2>1
      <3>2. JumpFrom(x, to) = Jump(y[1], y[2], y[3], y[4])
        BY DEF JumpFrom
      <3>. HIDE DEF y
      <3>. QED  BY <3>1, <3>2 DEF LineSet
    <2>6. JumpFrom(x, x.id) \in LineSet /\ JumpFrom(x, NoIndex) \in LineSet
      BY <2>1, <2>5
    <2>. QED  BY <2>4, <2>6
  <1>7. Len(new) = 3
    OBVIOUS
  <1>8. /\ new[1] = Chain(x.addr.v6, x.id) /\ new[2] = JumpFrom(x, x.id)
        /\ new[3] = JumpFrom(x, NoIndex)
    OBVIOUS
  <1>. HIDE DEF new, n
  <1>9. /\ lines' \in Seq(LineSet) /\ Len(lines') = 3 * (n + 1)
        /\ \A k \in 1..(3 * n) : lines'[k] = lines[k]
        /\ \A k \in 1..3 : lines'[3 * n + k] = new[k]
    <2>. DEFINE m == 3 * n
    <2>1. m \in Nat /\ Len(lines) = m /\ m + 3 = 3 * (n + 1)
      BY <1>3, <1>4
    <2>. HIDE DEF m
    <2>2. /\ lines' \in Seq(LineSet) /\ Len(lines') = m + 3
          /\ \A k \in 1..(m + 3) : lines'[k] = IF k <= m THEN lines[k] ELSE new[k - m]
      <3>1. \A s, t \in Seq(LineSet) :
              /\ s \o t \in Seq(LineSet) /\ Len(s \o t) = Len(s) + Len(t)
              /\ \A k \in 1..(Len(s) + Len(t)) :
                   (s \o t)[k] = IF k <= Len(s) THEN s[k] ELSE t[k - Len(s)]
        OBVIOUS
      <3>2. lines' = lines \o new /\ lines \in Seq(LineSet)
        BY <1>1, <1>2
      <3>3. /\ lines \o new \in Seq(LineSet) /\ Len(lines \o new) = Len(lines) + Len(new)
            /\ \A k \in 1..(Len(lines) + Len(new)) :
                 (lines \o new)[k] = IF k <= Len(lines) THEN lines[k] ELSE new[k - Len(lines)]
        BY <1>6, <3>1, <3>2
      <3>. QED  BY <1>7, <2>1, <3>2, <3>3
    <2>3. \A k \in 1..m : lines'[k] = lines[k]
      BY <2>1, <2>2
    <2>4. \A k \in 1..3 : m + k \in 1..(m + 3) /\ ~ (m + k <= m) /\ (m + k) - m = k
      BY <2>1
    <2>5. \A k \in 1..3 : lines'[m + k] = new[k]
      BY <2>2, <2>4
    <2>. QED  BY <2>1, <2>2, <2>3, <2>5 DEF m
  <1>10. \A j \in 1..(n + 1) : Lines(lines', j)
    <2>1. ASSUME NEW j \in 1..n
          PROVE  Lines(lines', j)
      <3>1. 3 * j - 2 \in 1..(3 * n) /\ 3 * j - 1 \in 1..(3 * n) /\ 3 * j \in 1..(3 * n)
        BY <1>4
      <3>. QED  BY <1>3, <1>9, <3>1
    <2>2. Lines(lines', n + 1)
      <3>1. /\ 3 * (n + 1) - 2 = 3 * n + 1 /\ 3 * (n + 1) - 1 = 3 * n + 2
            /\ 3 * (n + 1) = 3 * n + 3
        BY <1>4
      <3>2. 1 \in 1..3 /\ 2 \in 1..3 /\ 3 \in 1..3
        OBVIOUS
      <3>. QED  BY <1>5, <1>8, <1>9, <3>1, <3>2
    <2>3. \A j \in 1..(n + 1) : j \in 1..n \/ j = n + 1
      BY <1>4
    <2>. HIDE DEF Lines
    <2>. QED  BY <2>1, <2>2, <2>3
  <1>11. Typed'
    BY <1>1, <1>4, <1>9 DEF IInv, Typed
  <1>12. Linked'
    <2>1. \A c : GoodCore(c)' = GoodCore(c)
      BY <1>1 DEF GoodCore, IsTop, Level
    <2>. QED  BY <1>1, <2>1 DEF IInv, Linked, TopIds
  <1>13. Indexed'
    <2>1. \A k : LeafId(k)' = LeafId(k)
      BY <1>1 DEF LeafId
    <2>. QED  BY <1>1, <2>1 DEF IInv, Indexed
  <1>14. Grouped'
    BY <1>1 DEF IInv, Grouped, IsTop, Level
  <1>15. Filed'
    <2>1. \A k \in 1..Len(todo') : todo'[k] = idxs'[n + 1 + k].id
      <3>1. \A k \in 1..Len(todo') : todo[k + 1] = idxs[n + (k + 1)].id
        BY <1>1, <1>3, <1>4
      <3>2. \A k \in 1..Len(todo') : n + (k + 1) = n + 1 + k
        BY <1>1, <1>4
      <3>. QED  BY <1>1, <1>4, <3>1, <3>2
    <2>2. Len(todo') <= Len(idxs') /\ Len(idxs') - Len(todo') = n + 1
      BY <1>1, <1>3, <1>4
    <2>. QED  BY <1>1, <1>3, <1>9, <1>10, <2>1, <2>2 DEF Filed
  <1>. QED  BY <1>11, <1>12, <1>13, <1>14, <1>15 DEF IInv

LEMMA WrittenIInv ==
  ASSUME IInv, Written
  PROVE  IInv'
  <1>1. /\ phase = "write" /\ todo = <<>> /\ phase' = "done"
        /\ ips' = ips /\ todo' = todo /\ idxs' = idxs /\ idxcount' = idxcount
        /\ bitmask' = bitmask /\ lines' = lines
    BY DEF Written
  <1>2. \A c : /\ GoodCore(c)' = GoodCore(c) /\ IsTop(c)' = IsTop(c)
               /\ LeafId(c)' = LeafId(c)
    BY <1>1 DEF GoodCore, IsTop, Level, LeafId
  <1>3. Typed' /\ Linked' /\ Indexed' /\ Grouped'
    BY <1>1, <1>2 DEF IInv, Typed, Linked, TopIds, Indexed, Grouped
  <1>4. Filed'
    BY <1>1 DEF IInv, Filed
  <1>. QED  BY <1>3, <1>4 DEF IInv

(* The inductive invariant.                                                *)
LEMMA Invariance == Spec => []IInv
  <1>1. Init => IInv
    BY InitIInv
  <1>2. IInv /\ [Next]_vars => IInv'
    <2>. SUFFICES ASSUME IInv, [Next]_vars PROVE IInv'
      OBVIOUS
    <2>1. CASE Leaf
      BY <2>1, LeafIInv
    <2>2. CASE NextLevel
      BY <2>2, NextLevelIInv
    <2>3. CASE Group
      BY <2>3, GroupIInv
    <2>4. CASE Sorting
      BY <2>4, SortingIInv
    <2>5. CASE Write
      BY <2>5, WriteIInv
    <2>6. CASE Written
      BY <2>6, WrittenIInv
    <2>7. CASE UNCHANGED vars
      <3>1. \A c : /\ GoodCore(c)' = GoodCore(c) /\ IsTop(c)' = IsTop(c)
                   /\ LeafId(c)' = LeafId(c) /\ Level(c)' = Level(c)
        BY <2>7 DEF GoodCore, IsTop, Level, LeafId, vars
      <3>. QED  BY <2>7, <3>1 DEF vars, IInv, Typed, Linked, TopIds, Indexed, Grouped, Filed
    <2>. QED  BY <2>1, <2>2, <2>3, <2>4, <2>5, <2>6, <2>7 DEF Next
  <1>. QED  BY <1>1, <1>2, PTL DEF Spec

-----------------------------------------------------------------------------

(* The top indexes are those of addresses.                                 *)
LEMMA TopIsOfAddresses ==
  ASSUME IInv
  PROVE  /\ TopIds \subseteq {index_id(ips[k], Bits(ips[k], bitmask)) : k \in 1..Len(ips)}
         /\ IsFiniteSet(TopIds)
  <1>1. TopIds \subseteq {index_id(ips[k], Bits(ips[k], bitmask)) : k \in 1..Len(ips)}
    <2>1. ASSUME NEW c \in Cores(idxs), c.bitmask = Bits(c.addr, bitmask)
          PROVE  \E k \in 1..Len(ips) : c.id = index_id(ips[k], Bits(ips[k], bitmask))
      BY <2>1 DEF IInv, Linked, GoodCore
    <2>. QED  BY <2>1 DEF TopIds, TopOf
  <1>2. idxs \in Seq(IndexType)
    BY DEF IInv, Typed
  <1>. QED  BY <1>1, <1>2, TopFinite DEF TopIds

(* Every variable keeps its type: there are never more indexes of a level  *)
(* than addresses, nor a level that the loop of main() does not have.      *)
THEOREM TypeCorrect == Spec => []TypeOK
  <1>1. ASSUME IInv PROVE TypeOK
    <2>1. /\ ips \in Inputs /\ ips \in Seq(Address) /\ idxs \in Seq(IndexType)
          /\ todo \in Seq(IdSet \cup Address)
          /\ phase \in {"flat", "leaf", "group", "write", "done"}
          /\ bitmask \in Masks /\ idxcount = Cardinality(TopIds)
      BY <1>1 DEF IInv, Typed, Linked
    <2>2. Len(ips) \in Nat /\ Len(idxs) \in Nat /\ Len(todo) \in Nat
      BY <2>1
    <2>3. idxcount \in 0..Len(ips)
      <3>. DEFINE f == [k \in 1..Len(ips) |-> index_id(ips[k], Bits(ips[k], bitmask))]
                  T == {index_id(ips[k], Bits(ips[k], bitmask)) : k \in 1..Len(ips)}
      <3>1. f \in Surjection(1..Len(ips), T)
        BY DEF Surjection
      <3>2. IsFiniteSet(1..Len(ips)) /\ Cardinality(1..Len(ips)) = Len(ips)
        <4>. DEFINE n == Len(ips)
        <4>1. n \in Nat /\ 1 \in Int /\ n \in Int
          BY <2>2
        <4>. HIDE DEF n
        <4>2. IsFiniteSet(1..n) /\ Cardinality(1..n) = n
          BY <4>1, CountUpTo
        <4>3. Cardinality(1..n) = n
          BY <4>1, <4>2
        <4>. QED  BY <4>2, <4>3 DEF n
      <3>3. IsFiniteSet(T) /\ Cardinality(T) <= Len(ips)
        <4>. HIDE DEF f, T
        <4>. QED  BY <3>1, <3>2, FS_Surjection
      <3>4. TopIds \subseteq T /\ IsFiniteSet(TopIds)
        BY <1>1, TopIsOfAddresses
      <3>. HIDE DEF T
      <3>5. Cardinality(TopIds) <= Cardinality(T)
        BY <3>3, <3>4, FS_Subset
      <3>6. Cardinality(TopIds) \in Nat /\ Cardinality(T) \in Nat
        BY <3>3, <3>4, FS_CardinalityType
      <3>. QED  BY <2>1, <2>2, <3>3, <3>5, <3>6
    <2>4. \A i \in 1..Len(idxs) : idxs[i].addr \in Address /\ idxs[i].children \in Nat
      <3>1. \A i \in 1..Len(idxs) : idxs[i] \in IndexType
        BY <2>1
      <3>. QED  BY <3>1 DEF IndexType
    <2>5. Len(todo) <= Len(ips) + Len(idxs)
      <3>1. phase \in {"flat", "leaf"} => Len(todo) <= Len(ips)
        BY <1>1, <2>2 DEF IInv, Indexed
      <3>2. phase \in {"group", "write", "done"} => Len(todo) <= Len(idxs)
        BY <1>1 DEF IInv, Grouped, Filed
      <3>. QED  BY <2>1, <2>2, <3>1, <3>2
    <2>6. bitmask \in 5..29
      BY <2>1, MasksProperties
    <2>. QED  BY <2>1, <2>3, <2>4, <2>5, <2>6 DEF TypeOK
  <1>2. IInv => TypeOK
    BY <1>1
  <1>. QED  BY <1>2, Invariance, PTL

(* An id stands for one index: every index is under the index of its       *)
(* larger subnet, which is in the list, and when the lines are written     *)
(* only those of the top level are under none.                             *)
THEOREM LinksAreGood == Spec => []WellLinked
  <1>1. ASSUME IInv PROVE WellLinked
    <2>1. idxs \in Seq(IndexType) /\ Distinct(idxs) /\ \A c \in Cores(idxs) : GoodCore(c)
      BY <1>1 DEF IInv, Typed, Linked
    <2>2. \A i \in 1..Len(idxs) :
            /\ GoodCore(Core(idxs[i])) /\ Core(idxs[i]) \in Cores(idxs)
            /\ Core(idxs[i]).parent = idxs[i].parent /\ Core(idxs[i]).addr = idxs[i].addr
            /\ Core(idxs[i]).bitmask = idxs[i].bitmask
      BY <2>1 DEF Cores, Core
    <2>3. ASSUME NEW i \in 1..Len(idxs), idxs[i].parent # NoIndex
          PROVE  /\ idxs[i].parent
                      = index_id(idxs[i].addr, idxs[i].bitmask - idxtable_bitmask2)
                 /\ Place(idxs[i].parent) # 0
                 /\ ~IsTop(Core(idxs[i]))
      <3>1. /\ idxs[i].parent = index_id(idxs[i].addr, idxs[i].bitmask - idxtable_bitmask2)
            /\ idxs[i].parent \in IdsOf(idxs) /\ ~IsTop(Core(idxs[i]))
        BY <2>2, <2>3 DEF GoodCore
      <3>2. Place(idxs[i].parent) = PlaceIn(idxs, idxs[i].parent)
        <4>1. Place(idxs[i].parent) = IfExists(idxs, LAMBDA y : y.id = idxs[i].parent)
          BY DEF Place
        <4>. QED  BY <4>1 DEF PlaceIn, IfExists, SelectInSeq
      <3>3. Len(idxs) \in Nat
        BY <2>1
      <3>. QED  BY <3>1, <3>2, <3>3, PlaceProperties
    <2>4. ASSUME phase \in {"write", "done"}, NEW i \in 1..Len(idxs)
          PROVE  idxs[i].parent = NoIndex <=> idxs[i].bitmask = Bits(idxs[i].addr, bitmask)
      <3>1. IsTop(Core(idxs[i])) <=> idxs[i].bitmask = Bits(idxs[i].addr, bitmask)
        BY <2>2 DEF IsTop, Level
      <3>2. idxs[i].parent = NoIndex => IsTop(Core(idxs[i]))
        BY <1>1, <2>2, <2>4 DEF IInv, Grouped
      <3>. QED  BY <2>3, <3>1, <3>2
    <2>. QED  BY <2>1, <2>3, <2>4 DEF WellLinked, Distinct
  <1>2. IInv => WellLinked
    BY <1>1
  <1>. QED  BY <1>2, Invariance, PTL

-----------------------------------------------------------------------------

(* What stands in the file when it is done: three lines for each index.    *)
LEMMA WholeFile ==
  ASSUME IInv, phase = "done"
  PROVE  /\ idxs \in Seq(IndexType) /\ Len(idxs) \in Nat /\ Distinct(idxs) /\ ByMask(idxs)
         /\ Len(lines) = 3 * Len(idxs)
         /\ \A j \in 1..Len(idxs) :
              /\ 3 * j - 2 \in 1..Len(lines) /\ 3 * j - 1 \in 1..Len(lines)
              /\ 3 * j \in 1..Len(lines)
              /\ lines[3 * j - 2] = Chain(idxs[j].addr.v6, idxs[j].id)
              /\ lines[3 * j - 1] = JumpFrom(idxs[j], idxs[j].id)
              /\ lines[3 * j] = JumpFrom(idxs[j], NoIndex)
         /\ \A n \in 1..Len(lines) : \E j \in 1..Len(idxs) :
              n = 3 * j - 2 \/ n = 3 * j - 1 \/ n = 3 * j
         /\ \A n \in 1..Len(lines) : lines[n].kind = "jump" => \E j \in 1..Len(idxs) :
              \/ n = 3 * j - 1 /\ lines[n] = JumpFrom(idxs[j], idxs[j].id)
              \/ n = 3 * j /\ lines[n] = JumpFrom(idxs[j], NoIndex)
  <1>1. idxs \in Seq(IndexType) /\ Len(idxs) \in Nat /\ Distinct(idxs)
    BY DEF IInv, Typed, Linked
  <1>2. Len(idxs) - Len(todo) = Len(idxs)
    <2>1. todo = <<>>
      BY DEF IInv, Filed
    <2>. QED  BY <1>1, <2>1
  <1>3. /\ ByMask(idxs) /\ Len(lines) = 3 * Len(idxs)
        /\ \A j \in 1..Len(idxs) :
              /\ lines[3 * j - 2] = Chain(idxs[j].addr.v6, idxs[j].id)
              /\ lines[3 * j - 1] = JumpFrom(idxs[j], idxs[j].id)
              /\ lines[3 * j] = JumpFrom(idxs[j], NoIndex)
    BY <1>2 DEF IInv, Filed
  <1>. DEFINE m == Len(idxs)
  <1>4. \A j \in 1..m : /\ 3 * j - 2 \in 1..Len(lines) /\ 3 * j - 1 \in 1..Len(lines)
                        /\ 3 * j \in 1..Len(lines)
    <2>. HIDE DEF m
    <2>1. m \in Nat /\ Len(lines) = 3 * m
      BY <1>1, <1>3 DEF m
    <2>. QED  BY <2>1
  <1>5. ASSUME NEW n \in 1..Len(lines)
        PROVE  \E j \in 1..m : n = 3 * j - 2 \/ n = 3 * j - 1 \/ n = 3 * j
    <2>. HIDE DEF m
    <2>1. m \in Nat /\ n \in 1..(3 * m)
      BY <1>1, <1>3 DEF m
    <2>. DEFINE j == (n + 2) \div 3
    <2>2. j \in 1..m /\ (n = 3 * j - 2 \/ n = 3 * j - 1 \/ n = 3 * j)
      BY <2>1
    <2>. QED  BY <2>2
  <1>6. ASSUME NEW n \in 1..Len(lines), lines[n].kind = "jump"
        PROVE  \E j \in 1..m : \/ n = 3 * j - 1 /\ lines[n] = JumpFrom(idxs[j], idxs[j].id)
                               \/ n = 3 * j /\ lines[n] = JumpFrom(idxs[j], NoIndex)
    <2>1. PICK j \in 1..m : n = 3 * j - 2 \/ n = 3 * j - 1 \/ n = 3 * j
      BY <1>5
    <2>2. n # 3 * j - 2
      <3>1. Chain(idxs[j].addr.v6, idxs[j].id).kind = "chain"
        BY DEF Chain
      <3>. QED  BY <1>3, <1>6, <3>1
    <2>. QED  BY <1>3, <2>1, <2>2
  <1>. QED  BY <1>1, <1>3, <1>4, <1>5, <1>6

(* No interface's chain is left with more jumps than the threshold: there  *)
(* are two for each index without parent, and these are the ones counted.  *)
THEOREM TopIsSmall == Spec => []FewAtTheTop
  <1>1. ASSUME IInv, phase = "done", bitmask > 2 * idxtable_bitmask2
        PROVE  Cardinality({n \in 1..Len(lines) :
                              lines[n].kind = "jump" /\ lines[n].in = NoIndex})
                 <= 2 * idxtable_treshold2
    <2>. DEFINE top == {n \in 1..Len(lines) :
                          lines[n].kind = "jump" /\ lines[n].in = NoIndex}
                J == {j \in 1..Len(idxs) : idxs[j].parent = NoIndex}
                A == {3 * j - 1 : j \in J}
                B == {3 * j : j \in J}
                f == [j \in J |-> idxs[j].id]
    <2>1. /\ idxs \in Seq(IndexType) /\ Len(idxs) \in Nat /\ Distinct(idxs)
          /\ \A n \in 1..Len(lines) : lines[n].kind = "jump" => \E j \in 1..Len(idxs) :
              \/ n = 3 * j - 1 /\ lines[n] = JumpFrom(idxs[j], idxs[j].id)
              \/ n = 3 * j /\ lines[n] = JumpFrom(idxs[j], NoIndex)
      BY <1>1, WholeFile
    <2>2. IsFiniteSet(J)
      <3>1. IsFiniteSet(1..Len(idxs)) /\ J \in SUBSET (1..Len(idxs))
        BY <2>1, CountUpTo
      <3>. QED  BY <3>1, FS_Subset
    <2>3. top \subseteq A \cup B
      <3>1. ASSUME NEW n \in top
            PROVE  n \in A \cup B
        <4>1. PICK j \in 1..Len(idxs) :
                \/ n = 3 * j - 1 /\ lines[n] = JumpFrom(idxs[j], idxs[j].id)
                \/ n = 3 * j /\ lines[n] = JumpFrom(idxs[j], NoIndex)
          BY <2>1
        <4>2. idxs[j].parent = NoIndex
          BY <4>1 DEF JumpFrom, Jump
        <4>. QED  BY <4>1, <4>2
      <3>. QED  BY <3>1
    <2>4. idxcount <= idxtable_treshold2 /\ idxcount = Cardinality(TopIds)
      BY <1>1 DEF IInv, Grouped, Linked
    <2>5. IsFiniteSet(TopIds)
      BY <1>1, TopIsOfAddresses
    <2>6. f \in Injection(J, TopIds)
      <3>1. ASSUME NEW j \in J
            PROVE  idxs[j].id \in TopIds
        <4>1. /\ Core(idxs[j]) \in Cores(idxs) /\ Core(idxs[j]).parent = NoIndex
              /\ Core(idxs[j]).id = idxs[j].id
          BY DEF Cores, Core
        <4>2. IsTop(Core(idxs[j]))
          BY <1>1, <4>1 DEF IInv, Grouped
        <4>. QED  BY <4>1, <4>2 DEF TopIds, TopOf, IsTop, Level
      <3>2. \A i, j \in J : idxs[i].id = idxs[j].id => i = j
        BY <2>1 DEF Distinct
      <3>3. f \in [J -> TopIds] /\ \A i, j \in J : f[i] = f[j] => i = j
        <4>. HIDE DEF J
        <4>. QED  BY <3>1, <3>2
      <3>. HIDE DEF f, J
      <3>4. DOMAIN f = J
        BY <3>3
      <3>. QED  BY <3>3, <3>4 DEF Injection, IsInjective
    <2>. HIDE DEF top
    <2>7. /\ IsFiniteSet(A) /\ Cardinality(A) <= Cardinality(J)
          /\ IsFiniteSet(B) /\ Cardinality(B) <= Cardinality(J)
      <3>1. [j \in J |-> 3 * j - 1] \in Surjection(J, A)
        BY DEF Surjection
      <3>2. [j \in J |-> 3 * j] \in Surjection(J, B)
        BY DEF Surjection
      <3>. HIDE DEF J, A, B
      <3>. QED  BY <2>2, <3>1, <3>2, FS_Surjection
    <2>8. Cardinality(J) <= Cardinality(TopIds)
      <3>. HIDE DEF J, f
      <3>. QED  BY <2>5, <2>6, FS_Injection
    <2>. HIDE DEF J, A, B
    <2>9. /\ IsFiniteSet(A \cup B)
          /\ Cardinality(A \cup B) = Cardinality(A) + Cardinality(B) - Cardinality(A \cap B)
          /\ IsFiniteSet(A \cap B)
      BY <2>7, FS_Union, FS_Intersection
    <2>10. Cardinality(top) <= Cardinality(A \cup B) /\ IsFiniteSet(top)
      BY <2>3, <2>9, FS_Subset
    <2>11. /\ Cardinality(A) \in Nat /\ Cardinality(B) \in Nat /\ Cardinality(J) \in Nat
           /\ Cardinality(A \cap B) \in Nat /\ Cardinality(TopIds) \in Nat
           /\ Cardinality(top) \in Nat /\ Cardinality(A \cup B) \in Nat
      BY <2>2, <2>5, <2>7, <2>9, <2>10, FS_CardinalityType
    <2>12. idxtable_treshold2 \in Nat
      BY IndexAssumption
    <2>13. Cardinality(top) <= 2 * idxtable_treshold2
      BY <2>4, <2>7, <2>8, <2>9, <2>10, <2>11, <2>12
    <2>. QED  BY <2>13 DEF top
  <1>2. IInv => FewAtTheTop
    BY <1>1 DEF FewAtTheTop
  <1>. QED  BY <1>2, Invariance, PTL

-----------------------------------------------------------------------------

(* The units to which a part is rounded.                                   *)
LEMMA UnitIsPositive ==
  ASSUME NEW k \in 0..16
  PROVE  2^k \in Nat /\ 2^k # 0
  <1>. DEFINE Positive == Nat \ {0}
  <1>1. \/ k = 0 \/ k = 1 \/ k = 2 \/ k = 3 \/ k = 4 \/ k = 5 \/ k = 6 \/ k = 7 \/ k = 8
        \/ k = 9 \/ k = 10 \/ k = 11 \/ k = 12 \/ k = 13 \/ k = 14 \/ k = 15 \/ k = 16
    OBVIOUS
  <1>2. /\ 2^0 \in Positive /\ 2^1 \in Positive /\ 2^2 \in Positive /\ 2^3 \in Positive
        /\ 2^4 \in Positive /\ 2^5 \in Positive /\ 2^6 \in Positive /\ 2^7 \in Positive
        /\ 2^8 \in Positive /\ 2^9 \in Positive /\ 2^10 \in Positive /\ 2^11 \in Positive
        /\ 2^12 \in Positive /\ 2^13 \in Positive /\ 2^14 \in Positive
        /\ 2^15 \in Positive /\ 2^16 \in Positive
    OBVIOUS
  <1>. HIDE DEF Positive
  <1>3. 2^k \in Positive
    BY <1>1, <1>2, Zenon
  <1>. QED  BY <1>3 DEF Positive

LEMMA PartsAreSequence ==
  ASSUME NEW n \in Nat, NEW f \in [1..n -> Nat]
  PROVE  f \in Seq(Nat) /\ Len(f) = n
  OBVIOUS

LEMMA FrontParts ==
  ASSUME NEW p \in Seq(Nat), NEW q \in 1..Len(p)
  PROVE  /\ SubSeq(p, 1, q) \in Seq(Nat) /\ Len(SubSeq(p, 1, q)) = q
         /\ \A i \in 1..q : SubSeq(p, 1, q)[i] = p[i]
  <1>1. q \in Nat /\ 1 \in Nat /\ q <= Len(p) /\ Len(p) \in Nat
    OBVIOUS
  <1>. QED  BY <1>1

(* The subnet of an address at a level above /5 and /37: four parts, those *)
(* that the prefix holds as a whole, then the rounded one.                 *)
LEMMA SubnetShape ==
  ASSUME NEW a \in Address, NEW m \in Masks, m > 5
  PROVE  LET b == Bits(a, m)
             q == b \div Width(a)
         IN
         /\ b \in Nat /\ Width(a) \in Nat /\ q \in 1..3 /\ Copied(a, b) = q
         /\ Len(subnet_id(a, b)) = 4
         /\ \A i \in 1..q : subnet_id(a, b)[i] = a.part[i]
         /\ subnet_id(a, b)[q + 1] = Rounded(a, b)
         /\ Rounded(a, b) \in Int
  <1>. DEFINE b == Bits(a, m)
              q == b \div Width(a)
              R == Rounded(a, b)
              Z == Zeros(a, b)
  <1>1. a.v6 \in BOOLEAN /\ a.part \in [1..4 -> Nat]
    BY AddressTyped
  <1>2. a.part \in Seq(Nat) /\ Len(a.part) = 4
    <2>1. 4 \in Nat
      OBVIOUS
    <2>. QED  BY <1>1, <2>1, PartsAreSequence
  <1>3. /\ b \in Nat /\ Width(a) \in Nat /\ q \in 1..3 /\ Copied(a, b) = q
        /\ (IF a.v6 THEN 3 - q ELSE (31 - b) \div 8) = 3 - q
    <2>1. CASE a.v6
      <3>1. b = m + 32 /\ Width(a) = 16
        BY <2>1 DEF Bits, Width
      <3>2. m \in {8, 11, 14, 17, 20, 23, 26, 29}
        BY DEF Masks
      <3>3. b \in Nat /\ q \in 1..3 /\ ~ (b < 16)
        BY <3>1, <3>2
      <3>4. Copied(a, b) = q
        BY <3>1, <3>3 DEF Copied
      <3>. QED  BY <2>1, <3>1, <3>3, <3>4
    <2>2. CASE ~a.v6
      <3>1. b = m /\ Width(a) = 8
        BY <2>2 DEF Bits, Width
      <3>2. m \in {8, 11, 14, 17, 20, 23, 26, 29}
        BY DEF Masks
      <3>3. b \in Nat /\ q \in 1..3 /\ ~ (b < 8) /\ (31 - b) \div 8 = 3 - q
        BY <3>1, <3>2
      <3>4. Copied(a, b) = q
        BY <3>1, <3>3 DEF Copied
      <3>. QED  BY <2>2, <3>1, <3>3, <3>4
    <2>. QED  BY <1>1, <2>1, <2>2
  <1>4. Z = [i \in 1..(3 - q) |-> 0]
    BY <1>3 DEF Zeros
  <1>5. R \in Int
    <2>1. q + 1 \in 1..4
      BY <1>3
    <2>2. a.part[q + 1] \in Nat
      BY <1>1, <2>1
    <2>. DEFINE bits == b % Width(a)
                unit == 2^(Width(a) - bits)
    <2>3. bits \in Nat /\ Width(a) - bits \in 0..16
      BY <1>3 DEF Width
    <2>4. unit \in Nat /\ unit # 0
      BY <2>3, UnitIsPositive
    <2>5. R = IF bits = 0 THEN 0 ELSE a.part[q + 1] - (a.part[q + 1] % unit)
      BY <1>3 DEF Rounded
    <2>. HIDE DEF bits, unit, R, q
    <2>. QED  BY <2>2, <2>4, <2>5
  <1>. HIDE DEF b, q, R, Z
  <1>6. /\ SubSeq(a.part, 1, q) \in Seq(Nat) /\ Len(SubSeq(a.part, 1, q)) = q
        /\ \A i \in 1..q : SubSeq(a.part, 1, q)[i] = a.part[i]
    BY <1>2, <1>3
  <1>7. Z \in Seq(Int) /\ Len(Z) = 3 - q
    BY <1>3, <1>4
  <1>. DEFINE s == SubSeq(a.part, 1, q) \o <<R>> \o Z
  <1>8. subnet_id(a, b) = s
    BY <1>3 DEF subnet_id, R, Z
  <1>9. Len(s) = 4 /\ s[q + 1] = R /\ \A i \in 1..q : s[i] = a.part[i]
    <2>. DEFINE front == SubSeq(a.part, 1, q)
    <2>1. front \in Seq(Int) /\ Len(front) = q /\ \A i \in 1..q : front[i] = a.part[i]
      BY <1>6
    <2>. HIDE DEF front
    <2>. SUFFICES /\ Len((front \o <<R>>) \o Z) = 4 /\ ((front \o <<R>>) \o Z)[q + 1] = R
                  /\ \A i \in 1..q : ((front \o <<R>>) \o Z)[i] = a.part[i]
      BY DEF front
    <2>2. /\ front \o <<R>> \in Seq(Int) /\ Len(front \o <<R>>) = q + 1
          /\ (front \o <<R>>)[q + 1] = R /\ \A i \in 1..q : (front \o <<R>>)[i] = a.part[i]
      BY <1>3, <1>5, <2>1
    <2>. DEFINE t == front \o <<R>>
    <2>. HIDE DEF t
    <2>3. /\ t \in Seq(Int) /\ Len(t) = q + 1
          /\ t[q + 1] = R /\ \A i \in 1..q : t[i] = a.part[i]
      BY <2>2 DEF t
    <2>4. /\ Len(t \o Z) = 4 /\ (t \o Z)[q + 1] = R
          /\ \A i \in 1..q : (t \o Z)[i] = a.part[i]
      <3>1. q \in Nat /\ Len(t) + Len(Z) = 4
        BY <1>3, <1>7, <2>3
      <3>2. /\ Len(t \o Z) = Len(t) + Len(Z)
            /\ \A i \in 1..(Len(t) + Len(Z)) : i <= Len(t) => (t \o Z)[i] = t[i]
        <4>1. \A u, v \in Seq(Int) :
                /\ Len(u \o v) = Len(u) + Len(v)
                /\ \A i \in 1..(Len(u) + Len(v)) : i <= Len(u) => (u \o v)[i] = u[i]
          OBVIOUS
        <4>2. t \in Seq(Int) /\ Z \in Seq(Int)
          BY <1>7, <2>3
        <4>. HIDE DEF s
        <4>. QED  BY <4>1, <4>2
      <3>3. \A i \in 1..(q + 1) : i \in 1..(Len(t) + Len(Z)) /\ i <= Len(t)
        BY <1>3, <1>7, <2>3, <3>1
      <3>4. \A i \in 1..(q + 1) : (t \o Z)[i] = t[i]
        BY <3>2, <3>3
      <3>. QED  BY <2>3, <3>1, <3>2, <3>4
    <2>. QED  BY <2>4 DEF t
  <1>. QED  BY <1>3, <1>5, <1>8, <1>9 DEF b, q, R

LEMMA RoundedUnit ==
  ASSUME NEW n \in Nat, NEW k \in Nat, NEW u \in Nat, u # 0
  PROVE  n \div u = (k - (k % u)) \div u <=> n - (n % u) = k - (k % u)
  <1>1. \A x \in Nat : /\ (x - (x % u)) \div u = x \div u
                       /\ x - (x % u) = u * (x \div u)
                       /\ x \div u \in Nat
    OBVIOUS
  <1>. DEFINE d == n \div u
              e == k \div u
  <1>2. d \in Nat /\ e \in Nat /\ n - (n % u) = u * d /\ k - (k % u) = u * e
        /\ (k - (k % u)) \div u = e
    BY <1>1
  <1>3. (u * d) \div u = d /\ (u * e) \div u = e
    BY <1>1, <1>2
  <1>4. d = e <=> u * d = u * e
    <2>. HIDE DEF d, e
    <2>. QED  BY <1>3
  <1>. QED  BY <1>2, <1>4

(* iptables takes an address for a subnet when the code gave both the same *)
(* index.                                                                  *)
LEMMA MatchesItsIndex ==
  ASSUME NEW a \in Address, NEW c \in Address, a.v6 = c.v6, NEW m \in Masks, m > 5
  PROVE  LET b == Bits(a, m) IN
         /\ Bits(c, m) = b
         /\ Matches(a, subnet_id(c, b), b) <=> index_id(a, b) = index_id(c, b)
  <1>. DEFINE b == Bits(a, m)
              w == Width(a)
              q == b \div w
              bits == b % w
              unit == 2^(w - bits)
              net == subnet_id(c, b)
              n == a.part[q + 1]
              k == c.part[q + 1]
  <1>1. Bits(c, m) = b /\ Width(c) = w
    BY DEF Bits, Width
  <1>2. /\ b \in Nat /\ w \in Nat /\ q \in 1..3 /\ Copied(a, b) = q /\ Copied(c, b) = q
        /\ Len(net) = 4 /\ net[q + 1] = Rounded(c, b)
        /\ \A i \in 1..q : net[i] = c.part[i]
    BY <1>1, SubnetShape
  <1>3. /\ a.part \in [1..4 -> Nat] /\ c.part \in [1..4 -> Nat]
        /\ a.part \in Seq(Nat) /\ c.part \in Seq(Nat) /\ Len(a.part) = 4 /\ Len(c.part) = 4
    <2>1. a.part \in [1..4 -> Nat] /\ c.part \in [1..4 -> Nat] /\ 4 \in Nat
      BY AddressTyped
    <2>. QED  BY <2>1, PartsAreSequence
  <1>4. n \in Nat /\ k \in Nat
    <2>1. q + 1 \in 1..4
      BY <1>2
    <2>. QED  BY <1>3, <2>1
  <1>5. bits \in Nat /\ unit \in Nat /\ unit # 0
    <2>1. bits \in Nat /\ w - bits \in 0..16
      BY <1>2 DEF Width
    <2>. QED  BY <2>1, UnitIsPositive
  <1>6. /\ Rounded(a, b) = IF bits = 0 THEN 0 ELSE n - (n % unit)
        /\ Rounded(c, b) = IF bits = 0 THEN 0 ELSE k - (k % unit)
    BY <1>1, <1>2 DEF Rounded
  <1>7. Matches(a, net, b) <=> /\ \A i \in 1..q : a.part[i] = net[i]
                               /\ bits # 0 => n \div unit = net[q + 1] \div unit
    BY DEF Matches
  <1>8. index_id(a, b) = index_id(c, b) <=>
          /\ SubSeq(a.part, 1, q) = SubSeq(c.part, 1, q)
          /\ Rounded(a, b) = Rounded(c, b)
    BY <1>2 DEF index_id
  <1>. HIDE DEF b, w, q, bits, unit, net, n, k
  <1>9. SubSeq(a.part, 1, q) = SubSeq(c.part, 1, q)
          <=> \A i \in 1..q : a.part[i] = c.part[i]
    <2>. DEFINE s == SubSeq(a.part, 1, q)
                t == SubSeq(c.part, 1, q)
    <2>1. /\ s \in Seq(Nat) /\ Len(s) = q /\ \A i \in 1..q : s[i] = a.part[i]
          /\ t \in Seq(Nat) /\ Len(t) = q /\ \A i \in 1..q : t[i] = c.part[i]
      <3>1. q \in 1..Len(a.part) /\ q \in 1..Len(c.part)
        BY <1>2, <1>3
      <3>. QED  BY <1>3, <3>1, FrontParts
    <2>. HIDE DEF s, t
    <2>2. s = t <=> \A i \in 1..q : s[i] = t[i]
      BY <2>1
    <2>. QED  BY <2>1, <2>2 DEF s, t
  <1>10. (\A i \in 1..q : a.part[i] = net[i]) <=> \A i \in 1..q : a.part[i] = c.part[i]
    BY <1>2
  <1>11. (bits # 0 => n \div unit = net[q + 1] \div unit) <=> Rounded(a, b) = Rounded(c, b)
    <2>1. CASE bits = 0
      BY <1>6, <2>1
    <2>2. CASE bits # 0
      <3>1. n \div unit = (k - (k % unit)) \div unit <=> n - (n % unit) = k - (k % unit)
        BY <1>4, <1>5, RoundedUnit
      <3>. QED  BY <1>2, <1>6, <2>2, <3>1
    <2>. QED  BY <2>1, <2>2
  <1>. QED  BY <1>1, <1>7, <1>8, <1>9, <1>10, <1>11 DEF b, net

-----------------------------------------------------------------------------

(* With few networks at the level of /8 and /40 no more than the threshold *)
(* stand at the top there, and the loop of main() ends.                    *)
LEMMA NeverBelowEight == FewNetworks => (Spec => [](bitmask > 5))
  <1>. SUFFICES ASSUME FewNetworks PROVE Spec => [](bitmask > 5)
    OBVIOUS
  <1>1. Init => bitmask > 5
    BY DEF Init, idxtable_bitmask1
  <1>2. ASSUME IInv, bitmask > 5, [Next]_vars
        PROVE  bitmask' > 5
    <2>1. CASE NextLevel
      <3>1. /\ idxcount > idxtable_treshold2 /\ bitmask > 6 /\ bitmask' = bitmask - 3
            /\ bitmask \in Masks /\ ips \in Inputs /\ ips \in Seq(Address)
            /\ idxcount = Cardinality(TopIds)
        BY <1>2, <2>1 DEF NextLevel, Crowded, idxtable_bitmask2, IInv, Typed, Linked
      <3>2. bitmask = 8 \/ bitmask' > 5
        BY <3>1 DEF Masks
      <3>3. bitmask # 8
        <4>. SUFFICES ASSUME bitmask = 8 PROVE FALSE
          OBVIOUS
        <4>. DEFINE T == {index_id(ips[k], Bits(ips[k], 8)) : k \in 1..Len(ips)}
                    f == [k \in 1..Len(ips) |-> index_id(ips[k], Bits(ips[k], 8))]
        <4>1. TopIds \subseteq T
          BY <1>2, TopIsOfAddresses
        <4>2. Cardinality(T) <= idxtable_treshold2
          BY <3>1 DEF FewNetworks
        <4>3. IsFiniteSet(T)
          <5>1. f \in Surjection(1..Len(ips), T)
            BY DEF Surjection
          <5>2. IsFiniteSet(1..Len(ips))
            BY <3>1, CountUpTo
          <5>. HIDE DEF f, T
          <5>. QED  BY <5>1, <5>2, FS_Surjection
        <4>. HIDE DEF T
        <4>4. Cardinality(TopIds) <= Cardinality(T) /\ IsFiniteSet(TopIds)
          BY <4>1, <4>3, FS_Subset
        <4>5. Cardinality(TopIds) \in Nat /\ Cardinality(T) \in Nat
          BY <4>3, <4>4, FS_CardinalityType
        <4>. QED  BY <3>1, <4>2, <4>4, <4>5, IndexAssumption
      <3>. QED  BY <3>2, <3>3
    <2>2. CASE ~NextLevel
      BY <1>2, <2>2 DEF Next, vars, Leaf, Group, Sorting, Write, Written
    <2>. QED  BY <2>1, <2>2
  <1>3. IInv /\ bitmask > 5 /\ [Next]_vars => (bitmask > 5)'
    BY <1>2
  <1>. QED  BY <1>1, <1>3, Invariance, PTL DEF Spec

(* What the routes and the order of the file need of an index.             *)
LEMMA IndexFacts ==
  ASSUME IInv, bitmask > 5, NEW j \in 1..Len(idxs)
  PROVE  LET x == idxs[j] IN
         /\ x.addr \in Address /\ x.bitmask \in Nat /\ x.id = index_id(x.addr, x.bitmask)
         /\ \E m \in Masks : m > 5 /\ x.bitmask = Bits(x.addr, m)
         /\ x.parent # NoIndex =>
              /\ x.parent = index_id(x.addr, x.bitmask - 3)
              /\ \E i \in 1..Len(idxs) : idxs[i].id = x.parent
         /\ phase \in {"write", "done"} /\ x.parent = NoIndex =>
              x.bitmask = Bits(x.addr, bitmask)
  <1>. DEFINE x == idxs[j]
  <1>1. /\ idxs \in Seq(IndexType) /\ \A c \in Cores(idxs) : GoodCore(c)
        /\ bitmask \in Masks
    BY DEF IInv, Typed, Linked
  <1>2. x \in IndexType /\ Core(x) \in Cores(idxs)
    BY <1>1 DEF Cores
  <1>3. /\ Core(x).addr = x.addr /\ Core(x).id = x.id /\ Core(x).bitmask = x.bitmask
        /\ Core(x).parent = x.parent
    BY DEF Core
  <1>4. GoodCore(Core(x))
    BY <1>1, <1>2
  <1>5. phase \in {"write", "done"} /\ x.parent = NoIndex =>
          x.bitmask = Bits(x.addr, bitmask)
    BY <1>2, <1>3 DEF IInv, Grouped, IsTop, Level
  <1>. HIDE DEF x
  <1>6. x.addr \in Address /\ x.bitmask \in Nat
    BY <1>2 DEF IndexType
  <1>7. PICK m \in Masks : m >= bitmask /\ x.bitmask = Bits(x.addr, m)
    BY <1>3, <1>4 DEF GoodCore
  <1>8. m > 5
    <2>1. m \in Nat /\ bitmask \in Nat
      BY <1>1, MasksProperties
    <2>. QED  BY <1>7, <2>1
  <1>9. x.id = index_id(x.addr, x.bitmask)
    BY <1>3, <1>4 DEF GoodCore
  <1>10. x.parent # NoIndex => /\ x.parent = index_id(x.addr, x.bitmask - 3)
                               /\ \E i \in 1..Len(idxs) : idxs[i].id = x.parent
    BY <1>3, <1>4 DEF GoodCore, idxtable_bitmask2, IdsOf
  <1>. QED  BY <1>5, <1>6, <1>7, <1>8, <1>9, <1>10 DEF x

(* IPv4 and IPv6 have no level in common, nor two that follow each other.  *)
LEMMA FamiliesApart ==
  ASSUME NEW a \in Address, NEW c \in Address, NEW m \in Masks, NEW k \in Masks
  PROVE  /\ Bits(a, m) = Bits(c, k) => a.v6 = c.v6 /\ m = k
         /\ Bits(a, m) = Bits(c, k) - 3 => a.v6 = c.v6
  <1>1. a.v6 \in BOOLEAN /\ c.v6 \in BOOLEAN /\ m \in 5..29 /\ k \in 5..29
    BY AddressTyped, MasksProperties
  <1>. QED  BY <1>1 DEF Bits

(* iptables-restore can load the file: every subnet has four parts, and    *)
(* the chain of an index, and the one that jumps to it, have their line    *)
(* before the jump.  It is the order of the two sorts that makes it so.    *)
THEOREM FileIsLoadable == FewNetworks => (Spec => []Loadable)
  <1>. SUFFICES ASSUME FewNetworks PROVE Spec => []Loadable
    OBVIOUS
  <1>1. ASSUME IInv, bitmask > 5, phase = "done",
               NEW n \in 1..Len(lines), lines[n].kind = "jump"
        PROVE  /\ Len(lines[n].net) = 4
               /\ \A c \in {lines[n].in, lines[n].to} \ {NoIndex} :
                    \E m \in 1..(n - 1) : lines[m] = Chain(lines[n].v6, c)
    <2>1. /\ idxs \in Seq(IndexType) /\ Len(idxs) \in Nat /\ ByMask(idxs)
          /\ Len(lines) = 3 * Len(idxs)
          /\ \A j \in 1..Len(idxs) : lines[3 * j - 2] = Chain(idxs[j].addr.v6, idxs[j].id)
          /\ \E j \in 1..Len(idxs) :
              \/ n = 3 * j - 1 /\ lines[n] = JumpFrom(idxs[j], idxs[j].id)
              \/ n = 3 * j /\ lines[n] = JumpFrom(idxs[j], NoIndex)
      BY <1>1, WholeFile
    <2>2. PICK j \in 1..Len(idxs) :
            \/ n = 3 * j - 1 /\ lines[n] = JumpFrom(idxs[j], idxs[j].id)
            \/ n = 3 * j /\ lines[n] = JumpFrom(idxs[j], NoIndex)
      BY <2>1
    <2>. DEFINE x == idxs[j]
    <2>3. /\ lines[n].net = subnet_id(x.addr, x.bitmask) /\ lines[n].in = x.parent
          /\ lines[n].to \in {x.id, NoIndex} /\ lines[n].v6 = x.addr.v6
      BY <2>2 DEF JumpFrom, Jump
    <2>4. /\ x.addr \in Address /\ x.bitmask \in Nat /\ x.id = index_id(x.addr, x.bitmask)
          /\ \E m \in Masks : m > 5 /\ x.bitmask = Bits(x.addr, m)
          /\ x.parent # NoIndex =>
              /\ x.parent = index_id(x.addr, x.bitmask - 3)
              /\ \E i \in 1..Len(idxs) : idxs[i].id = x.parent
      BY <1>1, IndexFacts
    <2>. HIDE DEF x
    <2>5. PICK k \in Masks : k > 5 /\ x.bitmask = Bits(x.addr, k)
      BY <2>4
    <2>6. Len(lines[n].net) = 4
      BY <2>3, <2>4, <2>5, SubnetShape
    <2>7. ASSUME lines[n].to # NoIndex
          PROVE  \E m \in 1..(n - 1) : lines[m] = Chain(lines[n].v6, lines[n].to)
      <3>1. 3 * j - 2 \in 1..(n - 1)
        BY <2>1, <2>2
      <3>. QED  BY <2>1, <2>3, <2>7, <3>1 DEF x
    <2>8. ASSUME lines[n].in # NoIndex
          PROVE  \E m \in 1..(n - 1) : lines[m] = Chain(lines[n].v6, lines[n].in)
      <3>1. PICK i \in 1..Len(idxs) : idxs[i].id = x.parent
        BY <2>3, <2>4, <2>8
      <3>. DEFINE y == idxs[i]
      <3>2. /\ y.addr \in Address /\ y.bitmask \in Nat /\ y.id = index_id(y.addr, y.bitmask)
            /\ \E m \in Masks : m > 5 /\ y.bitmask = Bits(y.addr, m)
        BY <1>1, IndexFacts
      <3>3. y.bitmask = x.bitmask - 3
        <4>1. index_id(y.addr, y.bitmask) = index_id(x.addr, x.bitmask - 3)
          BY <2>3, <2>4, <2>8, <3>1, <3>2
        <4>. QED  BY <4>1, IdHasLevel
      <3>4. y.addr.v6 = x.addr.v6
        <4>1. PICK m \in Masks : y.bitmask = Bits(y.addr, m)
          BY <3>2
        <4>. HIDE DEF y
        <4>. QED  BY <2>4, <2>5, <3>2, <3>3, <4>1, FamiliesApart
      <3>5. i < j
        <4>1. ~ (j < i) /\ i # j
          BY <2>1, <2>4, <3>2, <3>3 DEF ByMask, x
        <4>. QED  BY <2>1, <4>1
      <3>6. 3 * i - 2 \in 1..(n - 1)
        BY <2>1, <2>2, <3>5
      <3>7. lines[3 * i - 2] = Chain(lines[n].v6, lines[n].in)
        BY <2>1, <2>3, <3>1, <3>4
      <3>. QED  BY <3>6, <3>7
    <2>. QED  BY <2>6, <2>7, <2>8
  <1>2. IInv /\ bitmask > 5 => Loadable
    BY <1>1 DEF Loadable
  <1>. QED  BY <1>2, Invariance, NeverBelowEight, PTL

-----------------------------------------------------------------------------

(* The line is a jump out of a chain that takes an address.                *)
Takes(l, in, a) ==
  /\ l.kind = "jump" /\ l.v6 = a.v6 /\ l.in = in
  /\ Len(l.net) = 4 /\ Matches(a, l.net, l.mask)

LEMMA FirstMatchIsFirst ==
  ASSUME NEW in, NEW a, Len(lines) \in Nat, NEW k \in 1..Len(lines), Takes(lines[k], in, a)
  PROVE  /\ FirstMatch(in, a) \in 1..Len(lines) /\ FirstMatch(in, a) # 0
         /\ Takes(lines[FirstMatch(in, a)], in, a) /\ FirstMatch(in, a) <= k
  <1>. DEFINE I == {i \in 1..Len(lines) : Takes(lines[i], in, a)}
  <1>1. FirstMatch(in, a) = IF I # {} THEN Min(I) ELSE 0
    BY DEF FirstMatch, IfExists, SelectInSeq, Takes
  <1>2. k \in I /\ I \in SUBSET (1..Len(lines))
    OBVIOUS
  <1>3. Min(I) \in I /\ \A i \in I : Min(I) <= i
    <2>. HIDE DEF I
    <2>1. I \in SUBSET Nat /\ I # {}
      BY <1>2
    <2>2. \E x \in I : \A y \in I : x <= y
      BY <2>1, LeastNatural
    <2>. QED  BY <2>2 DEF Min
  <1>. QED  BY <1>1, <1>2, <1>3

(* A packet finds the chain with the rules of its address: each chain on   *)
(* its way has, before any other rule that takes it, the jump to the next  *)
(* one, for no two indexes under one parent hold the same address.         *)
THEOREM PacketsAreRouted == FewNetworks => (Spec => []Routed)
  <1>. SUFFICES ASSUME FewNetworks PROVE Spec => []Routed
    OBVIOUS
  <1>1. ASSUME IInv, phase = "done", NEW k \in 1..Len(ips)
        PROVE  Place(index_id(ips[k], Bits(ips[k], 32 - idxtable_bitmask1))) # 0
    <2>1. LeafId(k) \in IdsOf(idxs) /\ idxs \in Seq(IndexType)
      BY <1>1 DEF IInv, Typed, Indexed
    <2>2. Place(LeafId(k)) = PlaceIn(idxs, LeafId(k))
      <3>1. Place(LeafId(k)) = IfExists(idxs, LAMBDA y : y.id = LeafId(k))
        BY DEF Place
      <3>. QED  BY <3>1 DEF PlaceIn, IfExists, SelectInSeq
    <2>3. Len(idxs) \in Nat
      BY <2>1
    <2>4. Place(LeafId(k)) # 0
      BY <2>1, <2>2, <2>3, PlaceProperties
    <2>. QED  BY <2>4 DEF LeafId
  <1>2. ASSUME IInv, bitmask > 5, phase = "done", NEW k \in 1..Len(ips),
               NEW i \in 1..Len(idxs), idxs[i].addr.v6 = ips[k].v6,
               idxs[i].id = index_id(ips[k], idxs[i].bitmask)
        PROVE  LET m == FirstMatch(idxs[i].parent, ips[k]) IN
               m # 0 /\ lines[m].to = idxs[i].id
    <2>. DEFINE a == ips[k]
                x == idxs[i]
                first == FirstMatch(x.parent, a)
    <2>1. /\ idxs \in Seq(IndexType) /\ Len(idxs) \in Nat /\ Distinct(idxs)
          /\ Len(lines) = 3 * Len(idxs)
          /\ 3 * i - 1 \in 1..Len(lines) /\ lines[3 * i - 1] = JumpFrom(x, x.id)
          /\ \A n \in 1..Len(lines) : lines[n].kind = "jump" => \E j \in 1..Len(idxs) :
              \/ n = 3 * j - 1 /\ lines[n] = JumpFrom(idxs[j], idxs[j].id)
              \/ n = 3 * j /\ lines[n] = JumpFrom(idxs[j], NoIndex)
      BY <1>2, WholeFile
    <2>2. a \in Address /\ bitmask \in Masks /\ Len(lines) \in Nat
      BY <1>2 DEF IInv, Typed, Linked
    <2>3. /\ x.addr \in Address /\ x.id = index_id(x.addr, x.bitmask) /\ x.bitmask \in Nat
          /\ \E m \in Masks : m > 5 /\ x.bitmask = Bits(x.addr, m)
          /\ x.parent # NoIndex => x.parent = index_id(x.addr, x.bitmask - 3)
          /\ x.parent = NoIndex => x.bitmask = Bits(x.addr, bitmask)
      BY <1>2, IndexFacts
    <2>4. x.addr.v6 = a.v6 /\ x.id = index_id(a, x.bitmask)
      BY <1>2
    <2>. HIDE DEF a, x
    <2>5. Takes(lines[3 * i - 1], x.parent, a)
      <3>1. PICK m \in Masks : m > 5 /\ x.bitmask = Bits(x.addr, m)
        BY <2>3
      <3>2. /\ lines[3 * i - 1].kind = "jump" /\ lines[3 * i - 1].v6 = x.addr.v6
            /\ lines[3 * i - 1].in = x.parent /\ lines[3 * i - 1].mask = x.bitmask
            /\ lines[3 * i - 1].net = subnet_id(x.addr, x.bitmask)
        BY <2>1 DEF JumpFrom, Jump
      <3>3. Len(subnet_id(x.addr, x.bitmask)) = 4
        BY <2>3, <3>1, SubnetShape
      <3>4. Bits(a, m) = x.bitmask
        BY <2>4, <3>1 DEF Bits
      <3>5. Matches(a, subnet_id(x.addr, x.bitmask), x.bitmask)
        <4>1. Matches(a, subnet_id(x.addr, Bits(a, m)), Bits(a, m))
                <=> index_id(a, Bits(a, m)) = index_id(x.addr, Bits(a, m))
          BY <2>2, <2>3, <2>4, <3>1, MatchesItsIndex
        <4>. QED  BY <2>3, <2>4, <3>4, <4>1
      <3>. QED  BY <2>4, <3>2, <3>3, <3>5 DEF Takes
    <2>6. /\ first \in 1..Len(lines) /\ first # 0 /\ first <= 3 * i - 1
          /\ Takes(lines[first], x.parent, a)
      BY <2>1, <2>2, <2>5, FirstMatchIsFirst
    <2>. HIDE DEF first
    <2>7. PICK j \in 1..Len(idxs) :
            \/ first = 3 * j - 1 /\ lines[first] = JumpFrom(idxs[j], idxs[j].id)
            \/ first = 3 * j /\ lines[first] = JumpFrom(idxs[j], NoIndex)
      BY <2>1, <2>6 DEF Takes
    <2>. DEFINE y == idxs[j]
    <2>8. /\ y.addr \in Address /\ y.id = index_id(y.addr, y.bitmask) /\ y.bitmask \in Nat
          /\ \E m \in Masks : m > 5 /\ y.bitmask = Bits(y.addr, m)
          /\ y.parent # NoIndex => y.parent = index_id(y.addr, y.bitmask - 3)
          /\ y.parent = NoIndex => y.bitmask = Bits(y.addr, bitmask)
      BY <1>2, IndexFacts
    <2>9. /\ y.addr.v6 = a.v6 /\ y.parent = x.parent
          /\ Matches(a, subnet_id(y.addr, y.bitmask), y.bitmask)
      BY <2>6, <2>7 DEF JumpFrom, Jump, Takes
    <2>10. y.id = index_id(a, y.bitmask)
      <3>. HIDE DEF y
      <3>1. PICK m \in Masks : m > 5 /\ y.bitmask = Bits(y.addr, m)
        BY <2>8
      <3>2. Bits(a, m) = y.bitmask
        BY <2>9, <3>1 DEF Bits
      <3>. QED  BY <2>2, <2>8, <2>9, <3>1, <3>2, MatchesItsIndex
    <2>11. y.bitmask = x.bitmask
      <3>. HIDE DEF y
      <3>1. CASE x.parent = NoIndex
        <4>1. Bits(x.addr, bitmask) = Bits(y.addr, bitmask)
          BY <2>4, <2>9 DEF Bits
        <4>. QED  BY <2>3, <2>8, <2>9, <3>1, <4>1
      <3>2. CASE x.parent # NoIndex
        <4>1. index_id(x.addr, x.bitmask - 3) = index_id(y.addr, y.bitmask - 3)
          BY <2>3, <2>8, <2>9, <3>2
        <4>2. x.bitmask - 3 = y.bitmask - 3
          BY <4>1, IdHasLevel
        <4>. QED  BY <2>3, <2>8, <4>2
      <3>. QED  BY <3>1, <3>2
    <2>12. i = j
      BY <2>1, <2>4, <2>10, <2>11 DEF Distinct, x
    <2>13. lines[first] = JumpFrom(x, x.id)
      <3>1. first # 3 * i
        BY <2>6
      <3>. QED  BY <2>7, <2>12, <3>1 DEF x
    <2>14. lines[first].to = x.id
      BY <2>13 DEF JumpFrom, Jump
    <2>. QED  BY <2>6, <2>14 DEF first, x, a
  <1>3. IInv /\ bitmask > 5 => Routed
    BY <1>1, <1>2 DEF Routed
  <1>. QED  BY <1>3, Invariance, NeverBelowEight, PTL
=============================================================================
