----------------------------- MODULE HostsProofs -----------------------------
(***************************************************************************)
(* Proofs about module Hosts, for every hosts file, every set of counters  *)
(* and every configuration that satisfies HostsAssumption.                 *)
(***************************************************************************)
EXTENDS Hosts, Cll1Proofs

(* The addresses that only IPv6 uplinks bear.                              *)
Uplinks == {l.uplink : l \in Line} \ {NoAddr}

(* OneEntryPerAddress of any list, with what makes it inductive.           *)
Unique(s) ==
  /\ \A i, j \in 1..Len(s) :
       i # j /\ s[i].addr = s[j].addr =>
         \/ s[i].uplink /\ s[j].uplink
         \/ OwnRange(s[i].addr)
  /\ \A i \in 1..Len(s) : ~s[i].uplink => s[i].addr \notin Uplinks

(* List t is list s with new entries, none of which has a class or a rate. *)
Grown(s, t) ==
  /\ Len(s) <= Len(t)
  /\ \A i \in 1..Len(s) :
       /\ t[i].addr = s[i].addr
       /\ t[i].mark = s[i].mark
       /\ t[i].group = s[i].group
       /\ t[i].min = s[i].min
       /\ t[i].max = s[i].max
  /\ \A i \in 1..Len(t) : i > Len(s) => t[i].mark = 0 /\ t[i].min = 0

(* Every class id handed out so far lies in its range.                     *)
IdsInRange ==
  /\ \A i \in 1..Len(ips) :
       ips[i].mark # 0 => /\ FIRSTIPCLASS < ips[i].mark
                          /\ ips[i].mark <= FIRSTIPCLASS + class_count
  /\ FIRSTGROUPID <= groupidx
  /\ \A g \in 1..Len(groups) :
       /\ FIRSTGROUPID <= groups[g].id
       /\ groups[g].id < groupidx
       /\ MinGroup <= groups[g].min

(* The inductive invariant.                                                *)
IInv ==
  /\ TypeOK
  /\ GroupsSorted
  /\ GroupFits
  /\ ClassIdsDistinct
  /\ RateBelowCeil
  /\ GroupCoversMembers
  /\ IdsInRange
  /\ Unique(ips)

-----------------------------------------------------------------------------

(* The constants the arithmetic steps below are about.                     *)
LEMMA Numbers ==
  /\ MaxLines \in Nat
  /\ FIRSTIPCLASS \in Nat
  /\ FIRSTGROUPID \in Nat /\ FIRSTGROUPID # 0
  /\ FIRSTGROUPID < FIRSTIPCLASS
  /\ MinGroup \in Nat /\ MinGroup # 0
  BY HostsAssumption

(* One more line read stays within the bound on lines.                     *)
LEMMA LineCounted ==
  ASSUME IInv, lines < MaxLines, lines' = lines + 1
  PROVE  lines' \in 0..MaxLines
  <1>1. lines \in 0..MaxLines
    BY DEF IInv, TypeOK
  <1>. QED  BY <1>1, Numbers

LEMMA TheIPType ==
  ASSUME NEW a \in Addr
  PROVE  TheIP(a) \in IpType
  BY HostsAssumption DEF TheIP, IpType

(* What if_exists(ip, ...) finds.                                          *)
LEMMA FindProperties ==
  ASSUME NEW s \in Seq(IpType), NEW a
  PROVE  /\ Find(s, a) \in 0..Len(s)
         /\ Find(s, a) # 0 => s[Find(s, a)].addr = a
         /\ Find(s, a) = 0 => \A i \in 1..Len(s) : s[i].addr # a
  <1>. DEFINE I == {i \in 1..Len(s) : s[i].addr = a}
  <1>1. Find(s, a) = IF I # {} THEN Max(I) ELSE 0
    BY DEF Find, SelectLastInSeq
  <1>2. CASE I = {}
    BY <1>1, <1>2
  <1>3. CASE I # {}
    <2>1. Max(I) \in I
      <3>1. I \in SUBSET (1..Len(s)) /\ Len(s) \in Nat
        OBVIOUS
      <3>. HIDE DEF I
      <3>. QED  BY <1>3, <3>1, LastIndex
    <2>. QED  BY <1>1, <1>3, <2>1
  <1>. QED  BY <1>2, <1>3

LEMMA FoundOrNewProperties ==
  ASSUME NEW s \in Seq(IpType), NEW a \in Addr
  PROVE  LET t == FoundOrNew(s, a)
         IN  /\ t \in Seq(IpType)
             /\ Grown(s, t)
             /\ Find(t, a) \in 1..Len(t)
             /\ t[Find(t, a)].addr = a
             /\ Unique(s) /\ a \notin Uplinks => Unique(t)
             /\ \A i \in 1..Len(t) : i > Len(s) => t[i].addr = a
  <1>. DEFINE t == FoundOrNew(s, a)
  <1>1. CASE Find(s, a) # 0
    <2>1. t = s
      BY <1>1 DEF FoundOrNew
    <2>. QED  BY <1>1, <2>1, FindProperties DEF Grown
  <1>2. CASE Find(s, a) = 0
    <2>1. t = Append(s, TheIP(a))
      BY <1>2 DEF FoundOrNew
    <2>2. TheIP(a) \in IpType
      BY TheIPType
    <2>3. /\ t \in Seq(IpType) /\ Len(t) = Len(s) + 1
          /\ \A i \in 1..Len(s) : t[i] = s[i]
          /\ t[Len(t)] = TheIP(a)
      BY <2>1, <2>2, AppendProperties
    <2>4. TheIP(a).addr = a /\ TheIP(a).mark = 0 /\ TheIP(a).min = 0
      BY DEF TheIP
    <2>. HIDE DEF t
    <2>8. \A i \in 1..Len(t) : i > Len(s) => t[i].addr = a
      BY <2>3, <2>4
    <2>5. Grown(s, t)
      BY <2>3, <2>4 DEF Grown
    <2>6. Find(t, a) \in 1..Len(t) /\ t[Find(t, a)].addr = a
      BY <2>3, <2>4, FindProperties
    <2>7. ASSUME Unique(s), a \notin Uplinks
          PROVE  Unique(t)
      <3>1. \A i \in 1..Len(s) : s[i].addr # a
        BY <1>2, FindProperties
      <3>. QED  BY <2>3, <2>4, <2>7, <3>1 DEF Unique
    <2>. QED  BY <2>3, <2>5, <2>6, <2>7, <2>8 DEF t
  <1>. QED  BY <1>1, <1>2

(* Renaming an entry, or giving it a keyword or an owner, leaves every     *)
(* class as it is.                                                         *)
LEMMA RenameProperties ==
  ASSUME NEW s \in Seq(IpType), NEW k \in 1..Len(s), NEW e \in IpType,
         e.addr = s[k].addr, e.uplink = s[k].uplink, e.mark = s[k].mark,
         e.group = s[k].group, e.min = s[k].min, e.max = s[k].max
  PROVE  LET t == [s EXCEPT ![k] = e]
         IN  /\ t \in Seq(IpType)
             /\ Len(t) = Len(s)
             /\ Grown(s, t)
             /\ \A i \in 1..Len(s) : t[i].addr = s[i].addr
             /\ Unique(s) => Unique(t)
  <1>. DEFINE t == [s EXCEPT ![k] = e]
  <1>1. /\ t \in Seq(IpType) /\ Len(t) = Len(s)
        /\ \A i \in 1..Len(s) : t[i] = IF i = k THEN e ELSE s[i]
    BY ExceptSeq
  <1>. HIDE DEF t
  <1>2. \A i \in 1..Len(s) : /\ t[i].addr = s[i].addr /\ t[i].uplink = s[i].uplink
                             /\ t[i].mark = s[i].mark /\ t[i].group = s[i].group
                             /\ t[i].min = s[i].min   /\ t[i].max = s[i].max
    BY <1>1
  <1>3. Len(s) \in Nat
    OBVIOUS
  <1>. QED  BY <1>1, <1>2, <1>3 DEF Grown, Unique, t

LEMMA GrownTransitive ==
  ASSUME NEW s \in Seq(IpType), NEW t \in Seq(IpType), NEW u \in Seq(IpType),
         Grown(s, t), Grown(t, u)
  PROVE  Grown(s, u)
  <1>1. Len(s) \in Nat /\ Len(t) \in Nat /\ Len(u) \in Nat
    OBVIOUS
  <1>2. Len(s) <= Len(t) /\ Len(t) <= Len(u)
    BY DEF Grown
  <1>3. ASSUME NEW i \in 1..Len(s)
        PROVE  /\ u[i].addr = s[i].addr
               /\ u[i].mark = s[i].mark /\ u[i].group = s[i].group
               /\ u[i].min = s[i].min /\ u[i].max = s[i].max
    <2>1. i \in 1..Len(t)
      BY <1>1, <1>2
    <2>. QED  BY <2>1 DEF Grown
  <1>4. ASSUME NEW i \in 1..Len(u), i > Len(s)
        PROVE  u[i].mark = 0 /\ u[i].min = 0
    <2>1. CASE i \in 1..Len(t)
      <3>1. t[i].mark = 0 /\ t[i].min = 0
        BY <1>4, <2>1 DEF Grown
      <3>. QED  BY <2>1, <3>1 DEF Grown
    <2>2. CASE i > Len(t)
      BY <2>2 DEF Grown
    <2>. QED  BY <1>1, <2>1, <2>2
  <1>. QED  BY <1>1, <1>2, <1>3, <1>4 DEF Grown

LEMMA WithRangeProperties ==
  ASSUME NEW s \in Seq(IpType), NEW l \in Line, NEW owner \in Name \cup {NoName}
  PROVE  LET t == WithRange(s, l, owner)
         IN  /\ t \in Seq(IpType)
             /\ Grown(s, t)
             /\ Unique(s) => Unique(t)
             /\ \A i \in 1..Len(t) :
                  i > Len(s) => HasRange(l) /\ t[i].addr = l.range
  <1>1. CASE ~HasRange(l)
    BY <1>1 DEF WithRange, Grown
  <1>2. CASE HasRange(l)
    <2>. DEFINE f == FoundOrNew(s, l.range)
                k == Find(f, l.range)
                e == RangeEntry(f[k], l.range, owner)
    <2>1. l.range \in Addr /\ l.range \notin Uplinks
      BY <1>2, HostsAssumption DEF HasRange, LineType, Uplinks
    <2>2. /\ f \in Seq(IpType) /\ Grown(s, f) /\ k \in 1..Len(f)
          /\ Unique(s) => Unique(f)
          /\ \A i \in 1..Len(f) : i > Len(s) => f[i].addr = l.range
      BY <2>1, FoundOrNewProperties
    <2>3. WithRange(s, l, owner) = [f EXCEPT ![k] = e]
      BY <1>2 DEF WithRange
    <2>. HIDE DEF f, k
    <2>4. f[k] \in IpType
      BY <2>2
    <2>5. /\ e \in IpType
          /\ e.addr = f[k].addr /\ e.uplink = f[k].uplink /\ e.mark = f[k].mark
          /\ e.group = f[k].group /\ e.min = f[k].min /\ e.max = f[k].max
      BY <2>1, <2>4, HostsAssumption DEF RangeEntry, IpType
    <2>. HIDE DEF e
    <2>6. /\ [f EXCEPT ![k] = e] \in Seq(IpType) /\ Grown(f, [f EXCEPT ![k] = e])
          /\ Unique(f) => Unique([f EXCEPT ![k] = e])
          /\ Len([f EXCEPT ![k] = e]) = Len(f)
          /\ \A i \in 1..Len(f) : [f EXCEPT ![k] = e][i].addr = f[i].addr
      BY <2>2, <2>5, RenameProperties
    <2>7. Grown(s, [f EXCEPT ![k] = e])
      BY <2>2, <2>6, GrownTransitive
    <2>. QED  BY <1>2, <2>2, <2>3, <2>6, <2>7
  <1>. QED  BY <1>1, <1>2

LEMMA WithUplinkProperties ==
  ASSUME NEW s \in Seq(IpType), NEW l \in Line, NEW owner \in Name \cup {NoName}
  PROVE  LET t == WithUplink(s, l, owner)
         IN  /\ t \in Seq(IpType)
             /\ Grown(s, t)
             /\ Unique(s) => Unique(t)
             /\ \A i \in 1..Len(t) : i > Len(s) => t[i].addr \in Uplinks
  <1>1. CASE ~HasUplink(l)
    BY <1>1 DEF WithUplink, Grown
  <1>2. CASE HasUplink(l)
    <2>. DEFINE e == [TheIP(l.uplink) EXCEPT !.name = l.uplink, !.key = DefaultKey,
                                             !.sharing = owner, !.uplink = TRUE]
                t == Append(s, e)
    <2>1. l.uplink \in Addr /\ l.uplink \in Uplinks
      BY <1>2, HostsAssumption DEF HasUplink, LineType, Uplinks
    <2>2. /\ e \in IpType /\ e.mark = 0 /\ e.min = 0
          /\ e.uplink = TRUE /\ e.addr = l.uplink
      BY <2>1, HostsAssumption DEF TheIP, IpType
    <2>. HIDE DEF e
    <2>3. /\ t \in Seq(IpType) /\ Len(t) = Len(s) + 1
          /\ \A i \in 1..Len(s) : t[i] = s[i]
          /\ t[Len(t)] = e
      BY <2>2, AppendProperties
    <2>4. WithUplink(s, l, owner) = t
      BY <1>2 DEF WithUplink, e
    <2>. HIDE DEF t
    <2>5. Grown(s, t)
      BY <2>2, <2>3 DEF Grown
    <2>6. ASSUME Unique(s)
          PROVE  Unique(t)
      <3>1. \A i \in 1..Len(s) : s[i].addr = l.uplink => s[i].uplink
        BY <2>1, <2>6 DEF Unique
      <3>. QED  BY <2>2, <2>3, <2>6, <3>1 DEF Unique
    <2>7. \A i \in 1..Len(t) : i > Len(s) => t[i].addr \in Uplinks
      BY <2>1, <2>2, <2>3
    <2>. QED  BY <2>3, <2>4, <2>5, <2>6, <2>7
  <1>. QED  BY <1>1, <1>2

LEMMA WithPartsProperties ==
  ASSUME ips \in Seq(IpType), NEW l \in Line, NEW owner \in Name \cup {NoName}
  PROVE  LET t == WithParts(l, owner)
         IN  /\ t \in Seq(IpType)
             /\ Grown(ips, t)
             /\ Unique(ips) => Unique(t)
             /\ \A i \in 1..Len(t) : i > Len(ips) =>
                  \/ HasRange(l) /\ t[i].addr = l.range
                  \/ t[i].addr \in Uplinks
  <1>. DEFINE r == WithRange(ips, l, owner)
              u == WithUplink(r, l, owner)
  <1>1. /\ r \in Seq(IpType) /\ Grown(ips, r) /\ (Unique(ips) => Unique(r))
        /\ \A i \in 1..Len(r) : i > Len(ips) => HasRange(l) /\ r[i].addr = l.range
    BY WithRangeProperties
  <1>2. WithParts(l, owner) = u
    BY DEF WithParts
  <1>. HIDE DEF r
  <1>3. /\ u \in Seq(IpType) /\ Grown(r, u) /\ (Unique(r) => Unique(u))
        /\ \A i \in 1..Len(u) : i > Len(r) => u[i].addr \in Uplinks
    BY <1>1, WithUplinkProperties
  <1>. HIDE DEF u
  <1>4. Grown(ips, u)
    BY <1>1, <1>3, GrownTransitive
  <1>5. ASSUME NEW i \in 1..Len(u), i > Len(ips)
        PROVE  \/ HasRange(l) /\ u[i].addr = l.range
               \/ u[i].addr \in Uplinks
    <2>1. Len(r) \in Nat
      BY <1>1
    <2>2. CASE i \in 1..Len(r)
      <3>1. u[i].addr = r[i].addr
        BY <1>3, <2>2 DEF Grown
      <3>. QED  BY <1>1, <1>5, <2>2, <3>1
    <2>3. CASE i > Len(r)
      BY <1>3, <2>3
    <2>. QED  BY <2>1, <2>2, <2>3
  <1>. QED  BY <1>1, <1>2, <1>3, <1>4, <1>5

(* The entry a line finds has the class it had, a new one has none.        *)
Found(n, t, k, a) ==
  /\ n \in IpType /\ n.addr = a
  /\ k \in 0..Len(ips)
  /\ k = 0 => /\ n.mark = 0 /\ n.min = 0 /\ n.uplink = FALSE
              /\ \A i \in 1..Len(ips) : ips[i].addr # a
  /\ k # 0 => /\ k \in 1..Len(t) /\ n.addr = t[k].addr
              /\ n.uplink = t[k].uplink /\ n.mark = t[k].mark
              /\ n.group = t[k].group /\ n.min = t[k].min
              /\ n.max = t[k].max

LEMMA NamedProperties ==
  ASSUME ips \in Seq(IpType), NEW l \in Line, NEW owner \in Name \cup {NoName}
  PROVE  Found(Named(l, owner), WithParts(l, owner), Find(ips, l.addr), l.addr)
  <1>. DEFINE t == WithParts(l, owner)
              k == Find(ips, l.addr)
              n == Named(l, owner)
  <1>1. l.addr \in Addr /\ l.name \in Name
    BY HostsAssumption DEF LineType
  <1>2. /\ k \in 0..Len(ips)
        /\ k # 0 => ips[k].addr = l.addr
        /\ k = 0 => \A i \in 1..Len(ips) : ips[i].addr # l.addr
    BY FindProperties
  <1>3. t \in Seq(IpType) /\ Grown(ips, t)
    BY WithPartsProperties
  <1>4. n = [IF k = 0 THEN TheIP(l.addr) ELSE t[k] EXCEPT !.name = l.name]
    BY DEF Named
  <1>. HIDE DEF t, k, n
  <1>5. CASE k = 0
    <2>1. TheIP(l.addr) \in IpType
      BY <1>1, TheIPType
    <2>2. /\ TheIP(l.addr).addr = l.addr /\ TheIP(l.addr).mark = 0
          /\ TheIP(l.addr).min = 0 /\ TheIP(l.addr).uplink = FALSE
      BY DEF TheIP
    <2>3. n = [TheIP(l.addr) EXCEPT !.name = l.name]
      BY <1>4, <1>5
    <2>. HIDE DEF TheIP
    <2>4. Found(n, t, k, l.addr)
      BY <1>1, <1>2, <1>5, <2>1, <2>2, <2>3 DEF IpType, Found
    <2>. QED  BY <2>4 DEF n, t, k
  <1>6. CASE k # 0
    <2>1. k \in 1..Len(ips) /\ k \in 1..Len(t)
      <3>1. Len(ips) \in Nat /\ Len(t) \in Nat /\ Len(ips) <= Len(t)
        BY <1>3 DEF Grown
      <3>. QED  BY <1>2, <1>6, <3>1
    <2>2. t[k] \in IpType /\ t[k].addr = l.addr
      <3>1. t[k] \in IpType
        BY <1>3, <2>1
      <3>2. t[k].addr = ips[k].addr
        BY <1>3, <2>1 DEF Grown
      <3>. QED  BY <1>2, <1>6, <3>1, <3>2
    <2>3. n = [t[k] EXCEPT !.name = l.name]
      BY <1>4, <1>6
    <2>4. Found(n, t, k, l.addr)
      BY <1>1, <1>2, <1>6, <2>1, <2>2, <2>3 DEF IpType, Found
    <2>. QED  BY <2>4 DEF n, t, k
  <1>. QED  BY <1>5, <1>6

(* List t is `ips' with what one line adds: e, made of n, at place `at'    *)
(* (nowhere for 0), and IPv6 parts, which have no class and no rate.       *)
Placed(t, n, e, at) ==
  /\ Len(ips) <= Len(t)
  /\ at \in 0..Len(t)
  /\ at # 0 => ~Stray /\ t[at] = e
  /\ \A i \in 1..Len(t) : i # at /\ i \in 1..Len(ips) =>
       /\ t[i].addr = ips[i].addr
       /\ t[i].mark = ips[i].mark /\ t[i].group = ips[i].group
       /\ t[i].min = ips[i].min /\ t[i].max = ips[i].max
  /\ \A i \in 1..Len(t) : i # at /\ i \notin 1..Len(ips) =>
       t[i].mark = 0 /\ t[i].min = 0
  /\ at \in 1..Len(ips) =>
       /\ n.addr = ips[at].addr
       /\ n.mark = ips[at].mark /\ n.group = ips[at].group
       /\ n.min = ips[at].min /\ n.max = ips[at].max
  /\ at # 0 /\ at \notin 1..Len(ips) => n.mark = 0 /\ n.min = 0

LEMMA ParseAndAppendIpProperties ==
  ASSUME ips \in Seq(IpType), Unique(ips),
         NEW l \in Line, NEW owner \in Name \cup {NoName}, NEW e \in IpType,
         e.addr = l.addr, e.uplink = Named(l, owner).uplink
  PROVE  LET t == ParseAndAppendIp(l, owner, e)
         IN  /\ t \in Seq(IpType) /\ Unique(t)
             /\ \E at \in Nat : Placed(t, Named(l, owner), e, at)
  <1>. DEFINE p == WithParts(l, owner)
              n == Named(l, owner)
              k == Find(ips, l.addr)
              t == ParseAndAppendIp(l, owner, e)
  <1>1. /\ p \in Seq(IpType) /\ Grown(ips, p) /\ Unique(p)
        /\ \A i \in 1..Len(p) : i > Len(ips) =>
             \/ HasRange(l) /\ p[i].addr = l.range
             \/ p[i].addr \in Uplinks
    BY WithPartsProperties
  <1>f. Found(n, p, k, l.addr)
    BY NamedProperties
  <1>k. k = Find(ips, l.addr) /\ p = WithParts(l, owner) /\ n = Named(l, owner)
    OBVIOUS
  <1>. HIDE DEF k, p, n
  <1>2. /\ k \in 0..Len(ips)
        /\ k = 0 => /\ n.mark = 0 /\ n.min = 0 /\ n.uplink = FALSE
                    /\ \A i \in 1..Len(ips) : ips[i].addr # l.addr
        /\ k # 0 => /\ k \in 1..Len(p) /\ n.addr = p[k].addr
                    /\ n.uplink = p[k].uplink /\ n.mark = p[k].mark
                    /\ n.group = p[k].group /\ n.min = p[k].min
                    /\ n.max = p[k].max
        /\ n.addr = l.addr
    BY <1>f DEF Found
  <1>3. t = IF Stray THEN p ELSE IF k = 0 THEN Append(p, e) ELSE [p EXCEPT ![k] = e]
    BY <1>k DEF ParseAndAppendIp
  <1>t. t = ParseAndAppendIp(l, owner, e)
    OBVIOUS
  <1>4. l \in Line /\ l.addr \notin Uplinks
    BY HostsAssumption DEF LineType, Uplinks
  <1>5. Len(ips) \in Nat /\ Len(p) \in Nat /\ Len(ips) <= Len(p)
    BY <1>1 DEF Grown
  <1>6. e.addr = l.addr /\ e.uplink = n.uplink
    BY <1>k
  <1>7. \A i \in 1..Len(p) :
          /\ i \in 1..Len(ips) =>
               /\ p[i].addr = ips[i].addr
               /\ p[i].mark = ips[i].mark /\ p[i].group = ips[i].group
               /\ p[i].min = ips[i].min /\ p[i].max = ips[i].max
          /\ i \notin 1..Len(ips) => p[i].mark = 0 /\ p[i].min = 0
    BY <1>1, <1>5 DEF Grown
  <1>. HIDE DEF t
  <1>8. CASE Stray
    <2>1. t = p
      BY <1>3, <1>8
    <2>2. 0 \in 0..Len(t) /\ 0 \notin 1..Len(t) /\ 0 \notin 1..Len(ips)
      BY <1>5, <2>1
    <2>3. Placed(t, n, e, 0)
      BY <1>5, <1>7, <2>1, <2>2 DEF Placed
    <2>. QED  BY <1>1, <2>1, <2>3 DEF t, n
  <1>9. CASE ~Stray /\ k = 0
    <2>1. /\ t \in Seq(IpType) /\ Len(t) = Len(p) + 1
          /\ \A i \in 1..Len(p) : t[i] = p[i]
          /\ t[Len(t)] = e
      BY <1>1, <1>3, <1>9, AppendProperties
    <2>2. \A i \in 1..Len(p) : p[i].addr = l.addr => OwnRange(l.addr)
      <3>1. ASSUME NEW i \in 1..Len(p), p[i].addr = l.addr
            PROVE  OwnRange(l.addr)
        <4>1. i \notin 1..Len(ips)
          BY <1>2, <1>7, <1>9, <3>1
        <4>2. i > Len(ips)
          BY <1>5, <4>1
        <4>3. HasRange(l) /\ l.range = l.addr
          BY <1>1, <1>4, <3>1, <4>2
        <4>. QED  BY <1>4, <4>3 DEF OwnRange
      <3>. QED  BY <3>1
    <2>3. Unique(t)
      <3>1. \A i \in 1..Len(t) : i \in 1..Len(p) \/ i = Len(t)
        BY <1>5, <2>1
      <3>2. \A i \in 1..Len(p) : t[i].addr = t[Len(t)].addr => OwnRange(l.addr)
        BY <1>6, <2>1, <2>2
      <3>3. t[Len(t)].addr = l.addr /\ ~t[Len(t)].uplink
        BY <1>2, <1>6, <1>9, <2>1
      <3>4. ASSUME NEW i \in 1..Len(t), NEW j \in 1..Len(t), i # j,
                   t[i].addr = t[j].addr
            PROVE  \/ t[i].uplink /\ t[j].uplink
                   \/ OwnRange(t[i].addr)
        <4>1. CASE i \in 1..Len(p) /\ j \in 1..Len(p)
          BY <1>1, <2>1, <3>4, <4>1 DEF Unique
        <4>2. CASE i = Len(t)
          BY <3>1, <3>2, <3>3, <3>4, <4>2
        <4>3. CASE j = Len(t)
          BY <3>1, <3>2, <3>3, <3>4, <4>3
        <4>. QED  BY <3>1, <4>1, <4>2, <4>3
      <3>5. \A i \in 1..Len(t) : ~t[i].uplink => t[i].addr \notin Uplinks
        BY <1>1, <1>4, <2>1, <3>1, <3>3 DEF Unique
      <3>. QED  BY <3>4, <3>5 DEF Unique
    <2>4. Len(t) \in 0..Len(t) /\ Len(t) \notin 1..Len(ips) /\ Len(ips) <= Len(t)
      BY <1>5, <2>1
    <2>5. \A i \in 1..Len(t) : i # Len(t) => i \in 1..Len(p) /\ t[i] = p[i]
      BY <1>5, <2>1
    <2>6. Placed(t, n, e, Len(t))
      BY <1>2, <1>7, <1>9, <2>1, <2>4, <2>5 DEF Placed
    <2>. QED  BY <2>1, <2>3, <2>6 DEF t, n
  <1>10. CASE ~Stray /\ k # 0
    <2>1. k \in 1..Len(p) /\ k \in 1..Len(ips)
      BY <1>2, <1>5, <1>10
    <2>2. /\ t \in Seq(IpType) /\ Len(t) = Len(p)
          /\ \A i \in 1..Len(p) : t[i] = IF i = k THEN e ELSE p[i]
      <3>1. t = [p EXCEPT ![k] = e]
        BY <1>3, <1>10
      <3>. QED  BY <1>1, <2>1, <3>1, ExceptSeq
    <2>3. \A i \in 1..Len(p) : t[i].addr = p[i].addr /\ t[i].uplink = p[i].uplink
      BY <1>2, <1>6, <1>10, <2>2
    <2>4. Unique(t)
      BY <1>1, <2>2, <2>3 DEF Unique
    <2>5. k \in 0..Len(t) /\ t[k] = e /\ Len(ips) <= Len(t)
      BY <1>5, <2>1, <2>2
    <2>6. /\ n.mark = ips[k].mark /\ n.group = ips[k].group
          /\ n.min = ips[k].min /\ n.max = ips[k].max /\ n.addr = ips[k].addr
      BY <1>2, <1>7, <1>10, <2>1
    <2>7. \A i \in 1..Len(t) : i # k => i \in 1..Len(p) /\ t[i] = p[i]
      BY <2>2
    <2>8. Placed(t, n, e, k)
      BY <1>7, <1>10, <2>1, <2>2, <2>5, <2>6, <2>7 DEF Placed
    <2>. QED  BY <2>1, <2>2, <2>4, <2>8 DEF t, n
  <1>. QED  BY <1>8, <1>9, <1>10

-----------------------------------------------------------------------------

(* What if_exists(group, groups, group->min == ip->min) finds.             *)
LEMMA GroupOfProperties ==
  ASSUME groups \in Seq(GroupType), NEW min
  PROVE  /\ GroupOf(min) \in 0..Len(groups)
         /\ GroupOf(min) # 0 => groups[GroupOf(min)].min = min
  <1>. DEFINE I == {i \in 1..Len(groups) : groups[i].min = min}
  <1>1. GroupOf(min) = IF I # {} THEN Min(I) ELSE 0
    BY DEF GroupOf, IfExists, SelectInSeq
  <1>2. CASE I = {}
    BY <1>1, <1>2
  <1>3. CASE I # {}
    <2>1. Min(I) \in I
      <3>1. I \in SUBSET (1..Len(groups)) /\ Len(groups) \in Nat
        OBVIOUS
      <3>. HIDE DEF I
      <3>. QED  BY <1>3, <3>1, FirstIndex
    <2>. QED  BY <1>1, <1>3, <2>1
  <1>. QED  BY <1>2, <1>3

(* insert puts a group behind those of its rate or more, and before the    *)
(* first one of less; the other groups keep their order.                   *)
LEMMA InsertGroupProperties ==
  ASSUME groups \in Seq(GroupType), NEW a \in GroupType
  PROVE  LET t == Insert(a, groups, LessMin)
         IN  /\ t \in Seq(GroupType)
             /\ \E p \in 1..(Len(groups) + 1) :
                  /\ Len(t) = Len(groups) + 1
                  /\ \A i \in 1..(Len(groups) + 1) :
                       t[i] = IF i < p THEN groups[i]
                              ELSE IF i = p THEN a ELSE groups[i - 1]
                  /\ p # Len(groups) + 1 => groups[p].min < a.min
                  /\ \A q \in 1..(p - 1) : ~ (groups[q].min < a.min)
  <1>. DEFINE n == Len(groups) + 1
              T == {p \in 1..n : p = n \/ groups[p].min < a.min}
              p == InsertPlace(a, groups, LessMin)
  <1>1. n \in Nat /\ n \in T /\ T \in SUBSET Nat
    OBVIOUS
  <1>2. \E x \in T : \A y \in T : x <= y
    <2>. HIDE DEF T
    <2>. QED  BY <1>1, LeastNatural
  <1>3. \E x \in 1..n : /\ x = n \/ groups[x].min < a.min
                        /\ \A q \in 1..(x - 1) : ~ (groups[q].min < a.min)
    <2>1. PICK x \in T : \A y \in T : x <= y
      BY <1>2
    <2>2. x \in 1..n /\ (x = n \/ groups[x].min < a.min)
      BY <2>1
    <2>3. ASSUME NEW q \in 1..(x - 1)
          PROVE  ~ (groups[q].min < a.min)
      <3>1. q \in 1..n /\ ~ (x <= q)
        <4>. HIDE DEF n, T
        <4>. QED  BY <1>1, <2>2
      <3>2. q \notin T
        <4>. HIDE DEF n, T
        <4>. QED  BY <2>1, <3>1
      <3>. QED  BY <3>1, <3>2
    <2>. QED  BY <2>2, <2>3
  <1>4. /\ p \in 1..n
        /\ p = n \/ groups[p].min < a.min
        /\ \A q \in 1..(p - 1) : ~ (groups[q].min < a.min)
    BY <1>3 DEF InsertPlace, LessMin
  <1>5. Insert(a, groups, LessMin) = InsertAt(groups, p, a)
    BY DEF Insert
  <1>. HIDE DEF p
  <1>6. /\ InsertAt(groups, p, a) \in Seq(GroupType)
        /\ Len(InsertAt(groups, p, a)) = n
        /\ \A i \in 1..n : InsertAt(groups, p, a)[i] =
              IF i < p THEN groups[i] ELSE IF i = p THEN a ELSE groups[i - 1]
    BY <1>4, InsertAtProperties
  <1>. QED  BY <1>4, <1>5, <1>6

-----------------------------------------------------------------------------

LEMMA InitInvariant == Init => IInv
  <1>. SUFFICES ASSUME Init
                PROVE  IInv
    OBVIOUS
  <1>1. PICK c \in Counted : ips = [i \in 1..Len(c) |-> CountedIP(c[i])]
    BY DEF Init
  <1>2. c \in Seq(Addr) /\ Len(c) \in Nat /\ \A i \in 1..Len(c) : c[i] \in Addr
    BY HostsAssumption
  <1>3. \A a \in Addr : /\ CountedIP(a) \in IpType /\ CountedIP(a).addr = a
                        /\ CountedIP(a).mark = 0 /\ CountedIP(a).uplink = FALSE
    BY HostsAssumption DEF CountedIP, TheIP, IpType
  <1>4. /\ ips \in Seq(IpType) /\ Len(ips) = Len(c)
        /\ \A i \in 1..Len(ips) : ips[i] = CountedIP(c[i])
    BY <1>1, <1>2, <1>3
  <1>5. \A i \in 1..Len(ips) : /\ ips[i].addr = c[i] /\ ips[i].mark = 0
                               /\ ips[i].uplink = FALSE
    BY <1>2, <1>3, <1>4
  <1>11. \A i \in 1..Len(ips) : ips[i].min > 0 => ips[i].addr = Unregistered
    <2>1. \A a \in Addr : a # Unregistered => CountedIP(a).min = 0
      BY DEF CountedIP, TheIP
    <2>. QED  BY <1>2, <1>4, <1>5, <2>1
  <1>6. Unique(ips)
    <2>1. \A i \in 1..Len(ips) : ips[i].addr \notin Uplinks
      BY <1>2, <1>4, <1>5, HostsAssumption DEF Uplinks
    <2>2. \A i, j \in 1..Len(ips) : i # j => ips[i].addr # ips[j].addr
      BY <1>2, <1>4, <1>5, HostsAssumption
    <2>. QED  BY <2>1, <2>2 DEF Unique
  <1>7. /\ nets = <<>> /\ groups = <<>> /\ class_count = 0 /\ lines = 0
        /\ groupidx = FIRSTGROUPID /\ keyCount = [k \in Key |-> 0]
    BY DEF Init
  <1>8. TypeOK
    BY <1>4, <1>7, HostsAssumption DEF TypeOK
  <1>9. /\ GroupsSorted /\ GroupFits /\ ClassIdsDistinct /\ RateBelowCeil
        /\ GroupCoversMembers
    BY <1>5, <1>7, <1>11 DEF GroupsSorted, GroupFits, ClassIdsDistinct, RateBelowCeil,
                             GroupCoversMembers
  <1>10. IdsInRange
    BY <1>5, <1>7, Numbers DEF IdsInRange
  <1>. QED  BY <1>6, <1>8, <1>9, <1>10 DEF IInv

(* What each IP is guaranteed.                                             *)
Minima == [i \in 1..Len(ips) |-> ips[i].min]

(* The members of a group do not get more, nor more in sum, as long as     *)
(* nobody joins it, apart from IP k which is not looked at.                *)
LEMMA MembersCovered ==
  ASSUME ips \in Seq(IpType), ips' \in Seq(IpType), NEW k, NEW id,
         \A i \in 1..Len(ips') : i # k /\ ips'[i].mark # 0 =>
           /\ i \in 1..Len(ips) /\ ips[i].mark # 0
           /\ ips'[i].group = ips[i].group /\ ips'[i].min = ips[i].min
  PROVE  LET others == Members(id)' \ {k}
         IN  /\ IsFiniteSet(others)
             /\ Cardinality(others) \in Nat /\ Cardinality(Members(id)) \in Nat
             /\ SumFunctionOnSet(Minima', others) \in Nat
             /\ SumFunctionOnSet(Minima, Members(id)) \in Nat
             /\ Cardinality(others) <= Cardinality(Members(id))
             /\ SumFunctionOnSet(Minima', others)
                  <= SumFunctionOnSet(Minima, Members(id))
  <1>. DEFINE others == Members(id)' \ {k}
  <1>1. Len(ips) \in Nat /\ Len(ips') \in Nat
    OBVIOUS
  <1>2. IsFiniteSet(1..Len(ips))
    BY <1>1, CountUpTo
  <1>3. others \in SUBSET Members(id) /\ Members(id) \in SUBSET (1..Len(ips))
    BY DEF Members
  <1>4. IsFiniteSet(Members(id)) /\ IsFiniteSet(others)
    BY <1>2, <1>3, FS_Subset
  <1>5. \A i \in others : Minima'[i] = Minima[i]
    BY <1>3 DEF Members, Minima
  <1>6. \A i \in Members(id) : Minima[i] \in Nat
    <2>1. \A i \in 1..Len(ips) : ips[i] \in IpType
      OBVIOUS
    <2>. QED  BY <1>3, <2>1 DEF Minima, IpType
  <1>. HIDE DEF others
  <1>7. SumFunctionOnSet(Minima', others) = SumFunctionOnSet(Minima, others)
    BY <1>4, <1>5, SumSame
  <1>8. SumFunctionOnSet(Minima, others) <= SumFunctionOnSet(Minima, Members(id))
    BY <1>3, <1>4, <1>6, SumSubset
  <1>9. Cardinality(others) <= Cardinality(Members(id))
    BY <1>3, <1>4, FS_Subset
  <1>10. /\ SumFunctionOnSet(Minima, Members(id)) \in Nat
         /\ SumFunctionOnSet(Minima, others) \in Nat
         /\ Cardinality(others) \in Nat /\ Cardinality(Members(id)) \in Nat
    BY <1>3, <1>4, <1>6, SumNat, FS_CardinalityType
  <1>. QED  BY <1>4, <1>7, <1>8, <1>9, <1>10 DEF others

(* A line that gives nobody a class keeps whatever is said of classes.     *)
LEMMA GrownInvariant ==
  ASSUME IInv, ips' \in Seq(IpType), Grown(ips, ips'), Unique(ips'),
         nets' \in Seq(IpType), lines' \in 0..MaxLines,
         UNCHANGED <<groups, keyCount, class_count, groupidx>>
  PROVE  IInv'
  <1>. USE DEF IInv
  <1>1. TypeOK'
    BY DEF TypeOK
  <1>2. /\ Len(ips) \in Nat /\ Len(ips') \in Nat /\ Len(ips) <= Len(ips')
        /\ \A i \in 1..Len(ips') :
             ips'[i].mark # 0 => /\ i \in 1..Len(ips)
                                 /\ ips'[i].mark = ips[i].mark
                                 /\ ips'[i].group = ips[i].group
                                 /\ ips'[i].min = ips[i].min
                                 /\ ips'[i].max = ips[i].max
    BY DEF TypeOK, Grown
  <1>a. \A i \in 1..Len(ips') :
          ips'[i].mark = 0 /\ ips'[i].min > 0 => ips'[i].addr = Unregistered
    <2>1. ASSUME NEW i \in 1..Len(ips'), ips'[i].mark = 0, ips'[i].min > 0
          PROVE  ips'[i].addr = Unregistered
      <3>1. ~ (i > Len(ips))
        BY <2>1 DEF Grown
      <3>2. i \in 1..Len(ips)
        BY <1>2, <3>1
      <3>. QED  BY <2>1, <3>2 DEF Grown, RateBelowCeil
    <2>. QED  BY <2>1
  <1>3. GroupsSorted'
    BY DEF GroupsSorted
  <1>4. GroupFits'
    BY <1>2 DEF GroupFits
  <1>5. ClassIdsDistinct'
    <2>1. \A i, j \in 1..Len(ips') :
            i # j /\ ips'[i].mark # 0 => ips'[i].mark # ips'[j].mark
      BY <1>2 DEF ClassIdsDistinct
    <2>2. \A g, h \in 1..Len(groups') : g # h => groups'[g].id # groups'[h].id
      BY DEF ClassIdsDistinct
    <2>3. \A i \in 1..Len(ips'), g \in 1..Len(groups') :
            groupidx' <= FIRSTIPCLASS + 1 => ips'[i].mark # groups'[g].id
      <3>1. \A g \in 1..Len(groups) : groups[g].id # 0
        BY Numbers DEF IdsInRange, TypeOK
      <3>. QED  BY <1>2, <3>1 DEF ClassIdsDistinct
    <2>. QED  BY <2>1, <2>2, <2>3 DEF ClassIdsDistinct
  <1>6. RateBelowCeil'
    <2>1. \A i \in 1..Len(ips') : ips'[i].mark # 0 =>
            ips'[i].min <= ips'[i].max /\ (ips'[i].min = 0 => FreeMin = 0)
      BY <1>2 DEF RateBelowCeil
    <2>. QED  BY <1>a, <2>1 DEF RateBelowCeil
  <1>7. IdsInRange'
    BY <1>2 DEF IdsInRange
  <1>8. Unique(ips)'
    BY DEF Unique, OwnRange, HasRange
  <1>9. GroupCoversMembers'
    <2>. SUFFICES ASSUME NEW g \in 1..Len(groups')
                  PROVE  /\ Cardinality(Members(groups[g].id)') <= groups[g].count
                         /\ SumFunctionOnSet(Minima', Members(groups[g].id)')
                              <= groups[g].desired
      BY DEF GroupCoversMembers, Minima
    <2>. DEFINE id == groups[g].id
    <2>1. /\ Cardinality(Members(id)) <= groups[g].count
          /\ SumFunctionOnSet(Minima, Members(id)) <= groups[g].desired
      BY DEF GroupCoversMembers, Minima
    <2>2. Members(id)' \ {0} = Members(id)'
      BY DEF Members
    <2>3. ips \in Seq(IpType)
      BY DEF TypeOK
    <2>4. /\ Cardinality(Members(id)') \in Nat /\ Cardinality(Members(id)) \in Nat
          /\ SumFunctionOnSet(Minima', Members(id)') \in Nat
          /\ SumFunctionOnSet(Minima, Members(id)) \in Nat
          /\ Cardinality(Members(id)') <= Cardinality(Members(id))
          /\ SumFunctionOnSet(Minima', Members(id)')
               <= SumFunctionOnSet(Minima, Members(id))
      BY <1>2, <2>2, <2>3, MembersCovered
    <2>5. groups[g] \in GroupType
      BY DEF TypeOK
    <2>6. groups[g].count \in Nat /\ groups[g].desired \in Nat
      BY <2>5 DEF GroupType
    <2>. QED  BY <2>1, <2>4, <2>6
  <1>. QED  BY <1>1, <1>3, <1>4, <1>5, <1>6, <1>7, <1>8, <1>9

LEMMA SharingLineInvariant == IInv /\ SharingLine => IInv'
  <1>. SUFFICES ASSUME IInv, SharingLine
                PROVE  IInv'
    OBVIOUS
  <1>1. PICK l \in Line :
          LET e == [Named(l, l.target) EXCEPT !.sharing = l.target, !.key = DefaultKey] IN
          /\ lines < MaxLines
          /\ ips' = ParseAndAppendIp(l, l.target, e)
          /\ nets' = IF Stray THEN <<e>> ELSE nets
          /\ lines' = lines + 1
          /\ UNCHANGED <<groups, keyCount, class_count, groupidx>>
    BY DEF SharingLine
  <1>. DEFINE n == Named(l, l.target)
              e == [n EXCEPT !.sharing = l.target, !.key = DefaultKey]
  <1>2. l.target \in Name /\ ips \in Seq(IpType) /\ Unique(ips) /\ nets \in Seq(IpType)
    BY HostsAssumption DEF LineType, IInv, TypeOK
  <1>3. n \in IpType /\ n.addr = l.addr
    BY <1>2, NamedProperties DEF Found
  <1>4. /\ ips' = ParseAndAppendIp(l, l.target, e)
        /\ nets' = IF Stray THEN <<e>> ELSE nets
        /\ lines' = lines + 1 /\ lines < MaxLines
        /\ UNCHANGED <<groups, keyCount, class_count, groupidx>>
    BY <1>1
  <1>n. n = Named(l, l.target)
    OBVIOUS
  <1>. HIDE DEF n
  <1>6. /\ e \in IpType
        /\ e.addr = n.addr /\ e.uplink = n.uplink /\ e.mark = n.mark
        /\ e.group = n.group /\ e.min = n.min /\ e.max = n.max
    BY <1>2, <1>3, HostsAssumption DEF IpType
  <1>. HIDE DEF e
  <1>7. /\ ips' \in Seq(IpType) /\ Unique(ips')
        /\ \E at \in Nat : Placed(ips', n, e, at)
    BY <1>2, <1>3, <1>4, <1>6, <1>n, ParseAndAppendIpProperties
  <1>8. Grown(ips, ips')
    <2>1. PICK at \in Nat : Placed(ips', n, e, at)
      BY <1>7
    <2>2. Len(ips) \in Nat /\ Len(ips') \in Nat /\ Len(ips) <= Len(ips')
      BY <1>2, <1>7, <2>1 DEF Placed
    <2>3. ASSUME NEW i \in 1..Len(ips)
          PROVE  /\ i \in 1..Len(ips') /\ ips'[i].addr = ips[i].addr
                 /\ ips'[i].mark = ips[i].mark /\ ips'[i].group = ips[i].group
                 /\ ips'[i].min = ips[i].min /\ ips'[i].max = ips[i].max
      <3>1. i \in 1..Len(ips') /\ i # 0
        BY <2>2
      <3>2. CASE i = at
        BY <1>6, <2>1, <3>1, <3>2 DEF Placed
      <3>3. CASE i # at
        BY <2>1, <3>1, <3>3 DEF Placed
      <3>. QED  BY <3>2, <3>3
    <2>4. ASSUME NEW i \in 1..Len(ips'), i > Len(ips)
          PROVE  ips'[i].mark = 0 /\ ips'[i].min = 0
      <3>1. i \notin 1..Len(ips) /\ i # 0
        BY <2>2, <2>4
      <3>2. CASE i = at
        BY <1>6, <2>1, <3>1, <3>2 DEF Placed
      <3>3. CASE i # at
        BY <2>1, <3>1, <3>3 DEF Placed
      <3>. QED  BY <3>2, <3>3
    <2>. QED  BY <2>2, <2>3, <2>4 DEF Grown
  <1>9. nets' \in Seq(IpType)
    BY <1>2, <1>4, <1>6
  <1>10. lines' \in 0..MaxLines
    BY <1>4, LineCounted
  <1>. QED  BY <1>4, <1>7, <1>8, <1>9, <1>10, GrownInvariant

LEMMA NetworkLineInvariant == IInv /\ NetworkLine => IInv'
  <1>. SUFFICES ASSUME IInv, NetworkLine
                PROVE  IInv'
    OBVIOUS
  <1>1. PICK l \in Line :
          LET s == FoundOrNew(nets, l.addr) IN
          /\ l.kind = "network"
          /\ lines < MaxLines
          /\ nets' = [s EXCEPT ![Find(s, l.addr)] = [@ EXCEPT !.name = l.name]]
          /\ ips' = WithParts(l, NoName)
          /\ lines' = lines + 1
          /\ UNCHANGED <<groups, keyCount, class_count, groupidx>>
    BY DEF NetworkLine
  <1>. DEFINE s == FoundOrNew(nets, l.addr)
              k == Find(s, l.addr)
              e == [s[k] EXCEPT !.name = l.name]
  <1>2. /\ l.addr \in Addr /\ l.name \in Name
        /\ ips \in Seq(IpType) /\ Unique(ips) /\ nets \in Seq(IpType)
    BY HostsAssumption DEF LineType, IInv, TypeOK
  <1>3. s \in Seq(IpType) /\ k \in 1..Len(s)
    BY <1>2, FoundOrNewProperties
  <1>4. nets' = [s EXCEPT ![k] = e]
    BY <1>1
  <1>. HIDE DEF s, k
  <1>a. s[k] \in IpType
    BY <1>3
  <1>5. e \in IpType
    BY <1>2, <1>a DEF IpType
  <1>. HIDE DEF e
  <1>6. nets' \in Seq(IpType)
    BY <1>3, <1>4, <1>5, ExceptSeq
  <1>9. ips' \in Seq(IpType) /\ Grown(ips, ips') /\ Unique(ips')
    BY <1>1, <1>2, WithPartsProperties
  <1>11. lines' \in 0..MaxLines
    BY <1>1, LineCounted
  <1>. QED  BY <1>1, <1>6, <1>9, <1>11, GrownInvariant

-----------------------------------------------------------------------------

(* A class line yields a ceiling no lower than its rate.                   *)
LEMMA RateProperties ==
  ASSUME NEW l \in Line, NEW e \in IpType, l.key \in Key
  PROVE  /\ MinOf(l) \in Nat /\ (MinOf(l) = 0 => FreeMin = 0)
         /\ MaxOf(l, e) \in Nat /\ MinOf(l) <= MaxOf(l, e)
  <1>1. /\ MinOf(l) \in Nat /\ (MinOf(l) = 0 => FreeMin = 0)
    BY HostsAssumption DEF MinOf, LineType
  <1>2. TopOf(l, e) \in Int
    BY HostsAssumption DEF TopOf, LineType, IpType
  <1>3. ReserveMin[l.key] \in Nat /\ ReserveMax[l.key] \in Nat
    BY HostsAssumption
  <1>. QED  BY <1>1, <1>2, <1>3 DEF MaxOf, Fixed

LEMMA PacketLimitType ==
  ASSUME NEW l \in Line, NEW e \in IpType
  PROVE  PacketLimit(l, e) \in Nat
  <1>1. l.key \in Key
    BY HostsAssumption DEF LineType
  <1>2. MaxOf(l, e) \in Nat
    BY <1>1, RateProperties
  <1>3. PacketRatio(l.key) \in Nat
    <2>1. AvgMtu[l.key] * 8 \in Nat
      BY <1>1, HostsAssumption
    <2>. QED  BY <2>1 DEF PacketRatio
  <1>4. CASE PacketRatio(l.key) = 0
    BY <1>4 DEF PacketLimit, IpType
  <1>5. CASE PacketRatio(l.key) > 0
    <2>. DEFINE q == MaxOf(l, e) \div PacketRatio(l.key)
    <2>1. \A a, b \in Nat : b > 0 => a \div b \in Nat
      OBVIOUS
    <2>2. q \in Nat
      BY <1>2, <1>3, <1>5, <2>1
    <2>3. PacketLimit(l, e) = IF q > PpsCap THEN 0 ELSE q
      BY <1>5 DEF PacketLimit
    <2>. QED  BY <2>2, <2>3
  <1>. QED  BY <1>3, <1>4, <1>5

LEMMA ClassifiedProperties ==
  ASSUME NEW l \in Line, NEW e \in IpType, class_count \in Nat
  PROVE  LET c == Classified(l, e)
         IN  /\ c \in IpType
             /\ c.addr = e.addr /\ c.uplink = e.uplink
             /\ c.mark = FIRSTIPCLASS + 1 + class_count
             /\ c.min = MinOf(l)
             /\ (c.min = 0 => FreeMin = 0) /\ c.min <= c.max
  <1>. DEFINE c == Classified(l, e)
  <1>1. l.key \in Key /\ l.max \in Nat \cup {NoMax}
    BY HostsAssumption DEF LineType
  <1>2. /\ MinOf(l) \in Nat /\ (MinOf(l) = 0 => FreeMin = 0)
        /\ MaxOf(l, e) \in Nat /\ MinOf(l) <= MaxOf(l, e)
    BY <1>1, RateProperties
  <1>3. PacketLimit(l, e) \in Nat
    BY PacketLimitType
  <1>4. FIRSTIPCLASS + 1 + class_count \in Nat
    BY Numbers
  <1>5. /\ c.addr = e.addr /\ c.uplink = e.uplink /\ c.name = e.name
        /\ c.sharing = e.sharing /\ c.key = l.key
        /\ c.mark = FIRSTIPCLASS + 1 + class_count
        /\ c.min = MinOf(l) /\ c.max = MaxOf(l, e)
        /\ c.pps_limit = PacketLimit(l, e)
        /\ c.desired = IF l.max = NoMax THEN e.desired ELSE l.max
        /\ c.fixedprio = (e.fixedprio \/ Fixed(l, e))
    BY DEF Classified, IpType
  <1>6. (e.fixedprio \/ Fixed(l, e)) \in BOOLEAN
    BY DEF Fixed
  <1>7. (IF l.max = NoMax THEN e.desired ELSE l.max) \in Nat
    BY <1>1 DEF IpType
  <1>8. c \in IpType
    BY <1>1, <1>2, <1>3, <1>4, <1>6, <1>7 DEF Classified, IpType
  <1>. QED  BY <1>2, <1>5, <1>8

LEMMA WithMemberProperties ==
  ASSUME NEW n \in IpType, NEW e \in IpType
  PROVE  /\ WithMember(n, e) \in IpType
         /\ WithMember(n, e).addr = n.addr
         /\ WithMember(n, e).uplink = n.uplink
         /\ WithMember(n, e).mark = n.mark
  <1>1. n.min \in Nat /\ e.min \in Nat /\ n.max \in Nat /\ e.max \in Nat /\ n.group \in Nat
    BY DEF IpType
  <1>2. \A i, j \in Nat : Larger(i, j) \in Nat
    BY DEF Larger
  <1>. DEFINE p == n.group + 1
              q == n.min + e.min
              r == Larger(e.max, n.max)
              t == Larger(r, q) \div 1024
  <1>3. p \in Nat /\ q \in Nat
    BY <1>1, SMTT(20)
  <1>4. r \in Nat /\ Larger(r, q) \in Nat
    BY <1>1, <1>2, <1>3
  <1>5. t \in Nat
    BY <1>4
  <1>6. WithMember(n, e) = [n EXCEPT !.group = p, !.min = q, !.max = r, !.desired = t]
    BY DEF WithMember
  <1>. HIDE DEF p, q, r, t
  <1>. QED  BY <1>3, <1>4, <1>5, <1>6 DEF IpType

LEMMA UpdateNetworkType ==
  ASSUME nets \in Seq(IpType), NEW a, NEW e \in IpType
  PROVE  UpdateNetwork(a, e) \in Seq(IpType)
  <1>1. CASE NetworkOf(a) = 0
    BY <1>1 DEF UpdateNetwork
  <1>2. CASE NetworkOf(a) # 0
    <2>. DEFINE I == {i \in 1..Len(nets) : <<a, nets[i].addr>> \in Within}
    <2>1. NetworkOf(a) = IF I # {} THEN Max(I) ELSE 0
      BY DEF NetworkOf, SelectLastInSeq
    <2>2. NetworkOf(a) \in 1..Len(nets)
      <3>1. I \in SUBSET (1..Len(nets)) /\ Len(nets) \in Nat
        OBVIOUS
      <3>. HIDE DEF I
      <3>. QED  BY <1>2, <2>1, <3>1, LastIndex
    <2>. DEFINE k == NetworkOf(a)
                n == WithMember(nets[k], e)
    <2>3. UpdateNetwork(a, e) = [nets EXCEPT ![k] = n]
      BY <1>2 DEF UpdateNetwork
    <2>. HIDE DEF k
    <2>4. nets[k] \in IpType /\ k \in 1..Len(nets)
      BY <2>2 DEF k
    <2>5. n \in IpType
      BY <2>4, WithMemberProperties
    <2>. HIDE DEF n
    <2>. QED  BY <2>3, <2>4, <2>5, ExceptSeq
  <1>. QED  BY <1>1, <1>2

LEMMA ClassLineInvariant == IInv /\ ClassLine => IInv'
  <1>. SUFFICES ASSUME IInv, ClassLine
                PROVE  IInv'
    OBVIOUS
  <1>1. PICK l \in Line :
          LET c  == Classified(l, Named(l, l.name))
              n  == Counting(l.addr, c)
              gi == GroupOf(n.min)
              e  == [n EXCEPT !.group = IF gi = 0 THEN groupidx ELSE groups[gi].id]
          IN
          /\ l.kind = "class"
          /\ lines < MaxLines
          /\ ips' = ParseAndAppendIp(l, l.name, e)
          /\ nets' = IF Stray THEN <<e>> ELSE UpdateNetwork(l.addr, c)
          /\ keyCount' = [keyCount EXCEPT ![l.key] = @ + 1]
          /\ class_count' = class_count + 1
          /\ lines' = lines + 1
          /\ \/ /\ gi # 0
                /\ groups' = [groups EXCEPT ![gi] = Joined(@, n.min)]
                /\ UNCHANGED groupidx
             \/ /\ gi = 0
                /\ groups' = Insert(NewGroup(n.min), groups, LessMin)
                /\ groupidx' = groupidx + 1
    BY DEF ClassLine
  <1>. DEFINE o == Named(l, l.name)
              c == Classified(l, o)
              n == Counting(l.addr, c)
              min == n.min
              gi == GroupOf(min)
              id == IF gi = 0 THEN groupidx ELSE groups[gi].id
              e  == [n EXCEPT !.group = id]
  <1>2. /\ l.key \in Key /\ l.name \in Name
        /\ ips \in Seq(IpType) /\ nets \in Seq(IpType) /\ groups \in Seq(GroupType)
        /\ keyCount \in [Key -> Nat] /\ class_count \in Nat /\ groupidx \in Nat
        /\ lines \in 0..MaxLines
        /\ Unique(ips)
    BY HostsAssumption DEF LineType, IInv, TypeOK
  <1>3. o \in IpType /\ o.addr = l.addr
    BY <1>2, NamedProperties DEF Found
  <1>4. gi \in 0..Len(groups) /\ (gi # 0 => groups[gi].min = min)
    <2>. HIDE DEF min
    <2>. QED  BY <1>2, GroupOfProperties
  <1>5. /\ ips' = ParseAndAppendIp(l, l.name, e)
        /\ nets' = IF Stray THEN <<e>> ELSE UpdateNetwork(l.addr, c)
        /\ keyCount' = [keyCount EXCEPT ![l.key] = @ + 1]
        /\ class_count' = class_count + 1
        /\ lines' = lines + 1 /\ lines < MaxLines
    BY <1>1
  <1>6. \/ /\ gi # 0
           /\ groups' = [groups EXCEPT ![gi] = Joined(groups[gi], min)]
           /\ groupidx' = groupidx
        \/ /\ gi = 0
           /\ groups' = Insert(NewGroup(min), groups, LessMin)
           /\ groupidx' = groupidx + 1
    BY <1>1
  <1>g. \A g \in 1..Len(groups) : /\ groups[g] \in GroupType
                                  /\ groups[g].id \in Nat /\ groups[g].min \in Nat
    <2>1. \A g \in 1..Len(groups) : groups[g] \in GroupType
      BY <1>2
    <2>. QED  BY <2>1 DEF GroupType
  <1>8. id \in Nat
    <2>. HIDE DEF gi
    <2>. QED  BY <1>2, <1>4, <1>g
  <1>o. o = Named(l, l.name)
    OBVIOUS
  <1>. HIDE DEF o
  <1>7. /\ c \in IpType /\ c.addr = o.addr /\ c.uplink = o.uplink
        /\ c.mark = FIRSTIPCLASS + 1 + class_count
        /\ (c.min = 0 => FreeMin = 0) /\ c.min <= c.max
    BY <1>2, <1>3, ClassifiedProperties
  <1>c. /\ n \in IpType /\ n.addr = c.addr /\ n.uplink = c.uplink /\ n.mark = c.mark
        /\ ~Stray => n = c
    <2>. HIDE DEF c
    <2>1. /\ WithMember(c, c) \in IpType
          /\ WithMember(c, c).addr = c.addr /\ WithMember(c, c).uplink = c.uplink
          /\ WithMember(c, c).mark = c.mark
      BY <1>7, WithMemberProperties
    <2>2. n = WithMember(c, c) \/ n = c
      BY DEF Counting
    <2>3. ~Stray => n = c
      BY DEF Counting
    <2>. QED  BY <1>7, <2>1, <2>2, <2>3
  <1>. HIDE DEF n, gi, id
  <1>9. /\ e \in IpType /\ e.addr = n.addr /\ e.uplink = n.uplink
        /\ e.mark = n.mark /\ e.max = n.max
        /\ e.group = id /\ e.min = min
    <2>. HIDE DEF c
    <2>. QED  BY <1>8, <1>c DEF IpType
  <1>m. e.mark = FIRSTIPCLASS + 1 + class_count
    BY <1>7, <1>9, <1>c
  <1>u. e.addr = l.addr /\ e.uplink = o.uplink
    BY <1>3, <1>7, <1>9, <1>c
  <1>r. ~Stray => e.min <= e.max /\ (e.min = 0 => FreeMin = 0)
    BY <1>7, <1>9, <1>c
  <1>. HIDE DEF e, min, c
  <1>x. /\ ips' \in Seq(IpType) /\ Unique(ips')
        /\ \E at \in Nat : Placed(ips', o, e, at)
    BY <1>2, <1>5, <1>9, <1>o, <1>u, ParseAndAppendIpProperties
  <1>y. PICK at \in Nat : Placed(ips', o, e, at)
    BY <1>x
  <1>10. /\ ips' \in Seq(IpType) /\ Len(ips) <= Len(ips')
         /\ at \in 0..Len(ips') /\ (at # 0 => ~Stray /\ ips'[at] = e)
         /\ Len(ips) \in Nat /\ Len(ips') \in Nat
    BY <1>2, <1>x, <1>y DEF Placed
  <1>11. nets' \in Seq(IpType)
    <2>1. UpdateNetwork(l.addr, c) \in Seq(IpType)
      BY <1>2, <1>7, UpdateNetworkType
    <2>. QED  BY <1>5, <1>9, <2>1
  \* The new list of groups: no group lost, one found for the line.
  <1>12. /\ groups' \in Seq(GroupType) /\ groupidx' \in Nat
         /\ groupidx <= groupidx'
         /\ GroupsSorted'
         /\ \A g \in 1..Len(groups) : \E h \in 1..Len(groups') :
              groups'[h].id = groups[g].id /\ groups'[h].min = groups[g].min
         /\ \E h \in 1..Len(groups') :
              /\ groups'[h].id = id
              /\ groups'[h].min = IF min < MinGroup THEN MinGroup ELSE min
         /\ \A h \in 1..Len(groups') :
              /\ FIRSTGROUPID <= groups'[h].id
              /\ groups'[h].id < groupidx'
              /\ MinGroup <= groups'[h].min
         /\ \A g, h \in 1..Len(groups') : g # h => groups'[g].id # groups'[h].id
         /\ \A h \in 1..Len(groups') :
              \/ \E g \in 1..Len(groups) :
                   /\ groups'[h].id = groups[g].id
                   /\ \/ /\ groups[g].id # id
                         /\ groups'[h].count = groups[g].count
                         /\ groups'[h].desired = groups[g].desired
                      \/ /\ groups[g].id = id
                         /\ groups'[h].count = groups[g].count + 1
                         /\ groups'[h].desired = groups[g].desired + min
              \/ /\ id = groupidx /\ groups'[h].id = id
                 /\ groups'[h].count = 1 /\ groups'[h].desired = min
    <2>1. min \in Nat
      BY <1>9 DEF IpType
    <2>2. /\ \A g \in 1..Len(groups) : /\ FIRSTGROUPID <= groups[g].id
                                       /\ groups[g].id < groupidx
                                       /\ MinGroup <= groups[g].min
          /\ FIRSTGROUPID <= groupidx
          /\ \A g, h \in 1..Len(groups) : g # h => groups[g].id # groups[h].id
          /\ \A i, j \in 1..Len(groups) : i < j => groups[i].min >= groups[j].min
      BY DEF IInv, IdsInRange, ClassIdsDistinct, GroupsSorted
    <2>3. \A g \in 1..Len(groups) : groups[g].id \in Nat /\ groups[g].min \in Nat
      BY <1>g
    <2>4. CASE /\ gi # 0
               /\ groups' = [groups EXCEPT ![gi] = Joined(groups[gi], min)]
               /\ groupidx' = groupidx
      <3>. DEFINE a == Joined(groups[gi], min)
      <3>1. gi \in 1..Len(groups) /\ groups[gi] \in GroupType
        BY <1>2, <1>4, <2>4
      <3>2. /\ a \in GroupType /\ a.id = groups[gi].id /\ a.min = groups[gi].min
            /\ a.count = groups[gi].count + 1 /\ a.desired = groups[gi].desired + min
        <4>1. /\ groups[gi].count + 1 \in Nat
              /\ groups[gi].desired + min \in Nat
          BY <2>1, <3>1 DEF GroupType
        <4>. QED  BY <3>1, <4>1 DEF Joined, GroupType
      <3>. HIDE DEF a
      <3>3. /\ groups' \in Seq(GroupType) /\ Len(groups') = Len(groups)
            /\ \A i \in 1..Len(groups) : groups'[i] = IF i = gi THEN a ELSE groups[i]
        BY <1>2, <2>4, <3>1, <3>2, ExceptSeq DEF a
      <3>4. \A i \in 1..Len(groups) :
              groups'[i].id = groups[i].id /\ groups'[i].min = groups[i].min
        BY <3>2, <3>3
      <3>5. id = groups[gi].id /\ groups[gi].min = min /\ MinGroup <= min
        BY <1>4, <2>2, <2>4, <3>1 DEF id
      <3>6. GroupsSorted'
        BY <2>2, <3>3, <3>4 DEF GroupsSorted
      <3>7. \E h \in 1..Len(groups') :
              /\ groups'[h].id = id
              /\ groups'[h].min = IF min < MinGroup THEN MinGroup ELSE min
        BY <2>1, <3>1, <3>3, <3>4, <3>5, Numbers
      <3>8. \A h \in 1..Len(groups') :
              /\ groups'[h].id = groups[h].id
              /\ \/ /\ groups[h].id # id
                    /\ groups'[h].count = groups[h].count
                    /\ groups'[h].desired = groups[h].desired
                 \/ /\ groups[h].id = id
                    /\ groups'[h].count = groups[h].count + 1
                    /\ groups'[h].desired = groups[h].desired + min
        <4>. TAKE h \in 1..Len(groups')
        <4>1. CASE h = gi
          BY <3>2, <3>3, <3>5, <4>1
        <4>2. CASE h # gi
          BY <2>2, <3>1, <3>3, <3>5, <4>2
        <4>. QED  BY <4>1, <4>2
      <3>. QED  BY <1>2, <2>2, <2>4, <3>3, <3>4, <3>6, <3>7, <3>8
    <2>5. CASE /\ gi = 0
               /\ groups' = Insert(NewGroup(min), groups, LessMin)
               /\ groupidx' = groupidx + 1
      <3>. DEFINE a == NewGroup(min)
      <3>1. /\ a \in GroupType /\ a.id = groupidx /\ MinGroup <= a.min
            /\ a.min = IF min < MinGroup THEN MinGroup ELSE min
            /\ a.count = 1 /\ a.desired = min
        BY <1>2, <2>1, Numbers DEF NewGroup, GroupType
      <3>2. id = groupidx
        BY <2>5 DEF id
      <3>. HIDE DEF a
      <3>3. groups' = Insert(a, groups, LessMin)
        BY <2>5 DEF a
      <3>4. groups' \in Seq(GroupType)
        BY <1>2, <3>1, <3>3, InsertGroupProperties
      <3>5. PICK p \in 1..(Len(groups) + 1) :
              /\ Len(groups') = Len(groups) + 1
              /\ \A i \in 1..(Len(groups) + 1) :
                   groups'[i] = IF i < p THEN groups[i]
                                ELSE IF i = p THEN a ELSE groups[i - 1]
              /\ p # Len(groups) + 1 => groups[p].min < a.min
              /\ \A q \in 1..(p - 1) : ~ (groups[q].min < a.min)
        BY <1>2, <3>1, <3>3, InsertGroupProperties
      <3>6. Len(groups) \in Nat /\ a.min \in Nat
        BY <1>2, <3>1 DEF GroupType
      \* Where each place of the new list comes from.
      <3>7. \A i \in 1..Len(groups') :
              \/ i < p /\ i \in 1..Len(groups) /\ groups'[i] = groups[i]
              \/ i = p /\ groups'[i] = a
              \/ i > p /\ i - 1 \in 1..Len(groups) /\ groups'[i] = groups[i - 1]
        <4>. TAKE i \in 1..Len(groups')
        <4>1. i \in 1..(Len(groups) + 1) /\ i \in Int /\ p \in Int
          BY <3>5, <3>6
        <4>2. CASE i < p
          <5>1. i \in 1..Len(groups)
            BY <3>6, <4>1, <4>2
          <5>. QED  BY <3>5, <4>1, <4>2, <5>1
        <4>3. CASE i = p
          BY <3>5, <4>1, <4>3
        <4>4. CASE i > p
          <5>1. i - 1 \in 1..Len(groups)
            BY <3>6, <4>1, <4>4
          <5>2. groups'[i] = groups[i - 1]
            BY <3>5, <4>1, <4>4
          <5>. QED  BY <4>4, <5>1, <5>2
        <4>. QED  BY <4>1, <4>2, <4>3, <4>4
      <3>8. \A q \in 1..Len(groups) : q >= p => groups[q].min < a.min
        <4>. SUFFICES ASSUME NEW q \in 1..Len(groups), q >= p
                      PROVE  groups[q].min < a.min
          OBVIOUS
        <4>1. p \in 1..Len(groups) /\ groups[p].min < a.min
          BY <3>5, <3>6
        <4>2. groups[p].min >= groups[q].min
          BY <2>2, <2>3, <4>1
        <4>. QED  BY <2>3, <3>6, <4>1, <4>2
      <3>9. \A q \in 1..Len(groups) : q < p => groups[q].min >= a.min
        BY <2>3, <3>5, <3>6
      <3>12. p \in 1..Len(groups') /\ groups'[p] = a
        BY <3>5, <3>6
      <3>10. GroupsSorted'
        <4>. SUFFICES ASSUME NEW i \in 1..Len(groups'), NEW j \in 1..Len(groups'), i < j
                      PROVE  groups'[i].min >= groups'[j].min
          BY DEF GroupsSorted
        <4>1. i \in Int /\ j \in Int /\ p \in Int
          BY <3>5, <3>6
        <4>2. CASE i < p
          <5>1. i \in 1..Len(groups) /\ groups'[i] = groups[i]
            BY <3>7, <4>1, <4>2
          <5>2. CASE j < p
            BY <2>2, <3>7, <4>1, <5>1, <5>2
          <5>3. CASE j = p
            BY <3>9, <3>12, <4>2, <5>1, <5>3
          <5>4. CASE j > p
            <6>1. j - 1 \in 1..Len(groups) /\ groups'[j] = groups[j - 1]
              BY <3>7, <4>1, <5>4
            <6>2. i < j - 1
              BY <4>1, <4>2, <5>4
            <6>. QED  BY <2>2, <5>1, <6>1, <6>2
          <5>. QED  BY <4>1, <5>2, <5>3, <5>4
        <4>3. CASE i = p
          <5>1. j - 1 \in 1..Len(groups) /\ groups'[j] = groups[j - 1] /\ j - 1 >= p
            BY <3>7, <4>1, <4>3
          <5>2. groups[j - 1].min < a.min /\ groups[j - 1].min \in Nat
            BY <2>3, <3>8, <5>1
          <5>. QED  BY <3>6, <3>12, <4>3, <5>1, <5>2
        <4>4. CASE i > p
          <5>1. /\ i - 1 \in 1..Len(groups) /\ groups'[i] = groups[i - 1]
                /\ j - 1 \in 1..Len(groups) /\ groups'[j] = groups[j - 1]
            BY <3>7, <4>1, <4>4
          <5>2. i - 1 < j - 1
            BY <4>1
          <5>. QED  BY <2>2, <5>1, <5>2
        <4>. QED  BY <4>1, <4>2, <4>3, <4>4
      <3>11. \A g \in 1..Len(groups) : \E h \in 1..Len(groups') : groups'[h] = groups[g]
        <4>. TAKE g \in 1..Len(groups)
        <4>1. CASE g < p
          BY <3>5, <3>6, <4>1
        <4>2. CASE g >= p
          <5>1. g + 1 \in 1..Len(groups') /\ groups'[g + 1] = groups[g]
            BY <3>5, <3>6, <4>2
          <5>. QED  BY <5>1
        <4>. QED  BY <3>6, <4>1, <4>2
      <3>13. \A h \in 1..Len(groups') :
               /\ FIRSTGROUPID <= groups'[h].id
               /\ groups'[h].id < groupidx'
               /\ MinGroup <= groups'[h].min
        <4>. TAKE h \in 1..Len(groups')
        <4>1. CASE groups'[h] = a
          BY <1>2, <2>2, <2>5, <3>1, <4>1
        <4>2. ASSUME NEW q \in 1..Len(groups), groups'[h] = groups[q]
              PROVE  /\ FIRSTGROUPID <= groups'[h].id
                     /\ groups'[h].id < groupidx'
                     /\ MinGroup <= groups'[h].min
          BY <1>2, <2>2, <2>3, <2>5, <4>2
        <4>. QED  BY <3>7, <4>1, <4>2
      <3>14. \A g, h \in 1..Len(groups') : g # h => groups'[g].id # groups'[h].id
        <4>. SUFFICES ASSUME NEW g \in 1..Len(groups'), NEW h \in 1..Len(groups'),
                             g < h
                      PROVE  groups'[g].id # groups'[h].id
          <5>1. \A g, h \in 1..Len(groups') : g # h => g < h \/ h < g
            BY <3>5, <3>6
          <5>. QED  BY <5>1
        <4>1. \A q \in 1..Len(groups) : groups[q].id # a.id
          BY <1>2, <2>2, <2>3, <3>1
        <4>2. g \in Int /\ h \in Int /\ p \in Int
          BY <3>5, <3>6
        <4>3. CASE g = p
          <5>1. h - 1 \in 1..Len(groups) /\ groups'[h] = groups[h - 1]
            BY <3>7, <4>2, <4>3
          <5>. QED  BY <3>12, <4>1, <4>3, <5>1
        <4>4. CASE h = p
          <5>1. g \in 1..Len(groups) /\ groups'[g] = groups[g]
            BY <3>7, <4>2, <4>4
          <5>. QED  BY <3>12, <4>1, <4>4, <5>1
        <4>5. CASE g # p /\ h # p
          <5>. DEFINE old(i) == IF i < p THEN i ELSE i - 1
          <5>1. \A i \in 1..Len(groups') :
                  i # p => old(i) \in 1..Len(groups) /\ groups'[i] = groups[old(i)]
            BY <3>5, <3>6, <3>7
          <5>2. old(g) # old(h)
            BY <4>2, <4>5
          <5>. QED  BY <2>2, <4>5, <5>1, <5>2
        <4>. QED  BY <4>3, <4>4, <4>5
      <3>15. \E h \in 1..Len(groups') :
               /\ groups'[h].id = id
               /\ groups'[h].min = IF min < MinGroup THEN MinGroup ELSE min
        BY <3>1, <3>2, <3>12
      <3>16. groupidx' \in Nat /\ groupidx <= groupidx'
        BY <1>2, <2>5
      <3>17. \A g \in 1..Len(groups) : \E h \in 1..Len(groups') :
               groups'[h].id = groups[g].id /\ groups'[h].min = groups[g].min
        BY <3>11
      <3>18. \A h \in 1..Len(groups') :
               \/ \E g \in 1..Len(groups) : groups'[h] = groups[g] /\ groups[g].id # id
               \/ /\ id = groupidx /\ groups'[h].id = id
                  /\ groups'[h].count = 1 /\ groups'[h].desired = min
        <4>1. \A q \in 1..Len(groups) : groups[q].id # id
          BY <1>2, <2>2, <2>3, <3>2
        <4>2. /\ id = groupidx /\ a.id = id /\ a.count = 1 /\ a.desired = min
          BY <3>1, <3>2
        <4>. QED  BY <3>7, <4>1, <4>2
      <3>. QED  BY <3>4, <3>10, <3>13, <3>14, <3>15, <3>16, <3>17, <3>18
    <2>. QED  BY <1>6, <2>4, <2>5
  <1>13. \A i \in 1..Len(ips') : i # at /\ ips'[i].mark # 0 =>
           /\ i \in 1..Len(ips) /\ ips[i].mark # 0
           /\ ips'[i].mark = ips[i].mark /\ ips'[i].group = ips[i].group
           /\ ips'[i].min = ips[i].min /\ ips'[i].max = ips[i].max
    BY <1>y DEF Placed
  <1>14. e.mark # 0 /\ \A i \in 1..Len(ips) : ips[i].mark # 0 => ips[i].mark # e.mark
    <2>1. \A i \in 1..Len(ips) : ips[i] \in IpType
      BY <1>2
    <2>2. \A i \in 1..Len(ips) : ips[i].mark \in Nat
      BY <2>1 DEF IpType
    <2>3. \A i \in 1..Len(ips) : ips[i].mark # 0 =>
            ips[i].mark <= FIRSTIPCLASS + class_count
      BY DEF IInv, IdsInRange
    <2>4. class_count \in Nat /\ FIRSTIPCLASS \in Nat
      BY <1>2, Numbers
    <2>5. e.mark = FIRSTIPCLASS + 1 + class_count
      BY <1>m
    <2>. QED  BY <2>2, <2>3, <2>4, <2>5
  <1>15. TypeOK'
    <2>1. keyCount[l.key] + 1 \in Nat /\ class_count' \in Nat
      BY <1>2, <1>5
    <2>2. keyCount' \in [Key -> Nat]
      BY <1>2, <1>5, <2>1
    <2>3. lines' \in 0..MaxLines
      BY <1>5, LineCounted
    <2>. QED  BY <1>10, <1>11, <1>12, <2>1, <2>2, <2>3 DEF TypeOK
  <1>16. GroupFits'
    <2>1. ASSUME NEW i \in 1..Len(ips'), ips'[i].mark # 0
          PROVE  \E g \in 1..Len(groups') :
                   /\ groups'[g].id = ips'[i].group
                   /\ groups'[g].min = IF ips'[i].min < MinGroup THEN MinGroup
                                       ELSE ips'[i].min
      <3>1. CASE i = at
        BY <1>9, <1>10, <1>12, <3>1
      <3>2. CASE i # at
        <4>1. i \in 1..Len(ips) /\ ips[i].mark # 0 /\ ips'[i].group = ips[i].group
              /\ ips'[i].min = ips[i].min
          BY <1>10, <1>13, <2>1, <3>2
        <4>2. PICK g \in 1..Len(groups) :
                /\ groups[g].id = ips[i].group
                /\ groups[g].min = IF ips[i].min < MinGroup THEN MinGroup ELSE ips[i].min
          BY <4>1 DEF IInv, GroupFits
        <4>. QED  BY <1>12, <4>1, <4>2
      <3>. QED  BY <3>1, <3>2
    <2>. QED  BY <2>1 DEF GroupFits
  <1>17. RateBelowCeil'
    <2>1. ASSUME NEW i \in 1..Len(ips'), ips'[i].mark # 0
          PROVE  ips'[i].min <= ips'[i].max /\ (ips'[i].min = 0 => FreeMin = 0)
      <3>1. CASE i = at
        <4>1. at # 0
          BY <3>1
        <4>. QED  BY <1>10, <1>r, <3>1, <4>1
      <3>2. CASE i # at
        BY <1>13, <2>1, <3>2 DEF IInv, RateBelowCeil
      <3>. QED  BY <3>1, <3>2
    <2>2. ASSUME NEW i \in 1..Len(ips'), ips'[i].mark = 0, ips'[i].min > 0
          PROVE  ips'[i].addr = Unregistered
      <3>1. i # at
        BY <1>10, <1>14, <2>2
      <3>2. i \in 1..Len(ips)
        BY <1>y, <2>2, <3>1 DEF Placed
      <3>3. /\ ips'[i].addr = ips[i].addr /\ ips'[i].mark = ips[i].mark
            /\ ips'[i].min = ips[i].min
        BY <1>y, <3>1, <3>2 DEF Placed
      <3>. QED  BY <2>2, <3>2, <3>3 DEF IInv, RateBelowCeil
    <2>. QED  BY <2>1, <2>2 DEF RateBelowCeil
  <1>18. IdsInRange'
    <2>1. ASSUME NEW i \in 1..Len(ips'), ips'[i].mark # 0
          PROVE  /\ FIRSTIPCLASS < ips'[i].mark
                 /\ ips'[i].mark <= FIRSTIPCLASS + class_count'
      <3>1. CASE i = at
        <4>1. ips'[i].mark = FIRSTIPCLASS + 1 + class_count
          BY <1>10, <1>m, <3>1
        <4>. QED  BY <1>2, <1>5, <4>1, Numbers
      <3>2. CASE i # at
        <4>1. i \in 1..Len(ips) /\ ips[i].mark # 0 /\ ips'[i].mark = ips[i].mark
          BY <1>10, <1>13, <2>1, <3>2
        <4>2. ips[i].mark \in Nat
          <5>1. ips[i] \in IpType
            BY <1>2, <4>1
          <5>. QED  BY <5>1 DEF IpType
        <4>3. /\ FIRSTIPCLASS < ips[i].mark
              /\ ips[i].mark <= FIRSTIPCLASS + class_count
          BY <4>1 DEF IInv, IdsInRange
        <4>4. /\ FIRSTIPCLASS \in Nat /\ class_count \in Nat
              /\ class_count' = class_count + 1
          BY <1>2, <1>5, Numbers
        <4>5. ips[i].mark <= FIRSTIPCLASS + class_count'
          BY <4>2, <4>3, <4>4
        <4>. QED  BY <4>1, <4>3, <4>5
      <3>. QED  BY <3>1, <3>2
    <2>2. FIRSTGROUPID <= groupidx'
      BY <1>2, <1>12, Numbers DEF IInv, IdsInRange
    <2>. QED  BY <1>12, <2>1, <2>2 DEF IdsInRange
  <1>19. ClassIdsDistinct'
    <2>1. ASSUME NEW i \in 1..Len(ips'), NEW j \in 1..Len(ips'), i # j,
                 ips'[i].mark # 0
          PROVE  ips'[i].mark # ips'[j].mark
      <3>1. CASE ips'[j].mark = 0
        BY <2>1, <3>1
      <3>2. CASE ips'[j].mark # 0 /\ i = at
        BY <1>9, <1>10, <1>13, <1>14, <2>1, <3>2
      <3>3. CASE ips'[j].mark # 0 /\ j = at
        BY <1>9, <1>10, <1>13, <1>14, <2>1, <3>3
      <3>4. CASE ips'[j].mark # 0 /\ i # at /\ j # at
        BY <1>10, <1>13, <2>1, <3>4 DEF IInv, ClassIdsDistinct
      <3>. QED  BY <3>1, <3>2, <3>3, <3>4
    <2>2. ASSUME groupidx' <= FIRSTIPCLASS + 1,
                 NEW i \in 1..Len(ips'), NEW g \in 1..Len(groups')
          PROVE  ips'[i].mark # groups'[g].id
      <3>1. groups'[g].id \in Nat /\ groups'[g].id # 0 /\ groups'[g].id <= FIRSTIPCLASS
        <4>1. groups'[g] \in GroupType
          BY <1>12
        <4>2. groups'[g].id \in Nat
          BY <4>1 DEF GroupType
        <4>. QED  BY <1>12, <2>2, <4>2, Numbers
      <3>2. ips'[i].mark # 0 => FIRSTIPCLASS < ips'[i].mark
        BY <1>18 DEF IdsInRange
      <3>3. ips'[i].mark \in Nat
        <4>1. ips'[i] \in IpType
          BY <1>10
        <4>. QED  BY <4>1 DEF IpType
      <3>. QED  BY <3>1, <3>2, <3>3, Numbers
    <2>. QED  BY <1>12, <2>1, <2>2 DEF ClassIdsDistinct
  <1>20. Unique(ips)'
    BY <1>x DEF Unique, OwnRange, HasRange
  <1>21. GroupCoversMembers'
    <2>. SUFFICES ASSUME NEW h \in 1..Len(groups'), NEW gid, gid = groups'[h].id
                  PROVE  /\ Cardinality(Members(gid)') <= groups'[h].count
                         /\ SumFunctionOnSet(Minima', Members(gid)')
                              <= groups'[h].desired
      BY DEF GroupCoversMembers, Minima, Members
    <2>. DEFINE m == Members(gid)'
                others == m \ {at}
                old == Members(gid)
    <2>0. /\ at = 0 \/ (at \in 1..Len(ips') /\ ips'[at] = e)
          /\ m = {i \in 1..Len(ips') : ips'[i].mark # 0 /\ ips'[i].group = gid}
          /\ \A i \in 1..Len(ips') : i # at /\ ips'[i].mark # 0 =>
               /\ i \in 1..Len(ips) /\ ips[i].mark # 0
               /\ ips'[i].group = ips[i].group /\ ips'[i].min = ips[i].min
      BY <1>10, <1>13 DEF Members
    <2>a. \/ \E g \in 1..Len(groups) :
               /\ gid = groups[g].id
               /\ \/ /\ gid # id
                     /\ groups'[h].count = groups[g].count
                     /\ groups'[h].desired = groups[g].desired
                  \/ /\ gid = id
                     /\ groups'[h].count = groups[g].count + 1
                     /\ groups'[h].desired = groups[g].desired + min
          \/ /\ id = groupidx /\ gid = id
             /\ groups'[h].count = 1 /\ groups'[h].desired = min
      <3>. HIDE DEF m, others, old
      <3>. QED  BY <1>12
    <2>1. /\ IsFiniteSet(others)
          /\ Cardinality(others) \in Nat /\ Cardinality(old) \in Nat
          /\ SumFunctionOnSet(Minima', others) \in Nat
          /\ SumFunctionOnSet(Minima, old) \in Nat
          /\ Cardinality(others) <= Cardinality(old)
          /\ SumFunctionOnSet(Minima', others) <= SumFunctionOnSet(Minima, old)
      BY <1>2, <1>10, <2>0, MembersCovered
    <2>n. min \in Nat
      BY <1>9 DEF IpType
    <2>2. CASE gid # id
      <3>1. m = others
        <4>1. at \notin m
          BY <1>9, <2>0, <2>2
        <4>. QED  BY <4>1
      <3>2. PICK g \in 1..Len(groups) :
              /\ gid = groups[g].id
              /\ groups'[h].count = groups[g].count
              /\ groups'[h].desired = groups[g].desired
        BY <2>a, <2>2
      <3>3. /\ Cardinality(old) <= groups[g].count
            /\ SumFunctionOnSet(Minima, old) <= groups[g].desired
        BY <3>2 DEF IInv, GroupCoversMembers, Minima
      <3>4. groups[g].count \in Nat /\ groups[g].desired \in Nat
        BY <1>g DEF GroupType
      <3>. HIDE DEF m, others, old
      <3>. QED  BY <2>1, <3>1, <3>2, <3>3, <3>4 DEF m
    <2>3. CASE gid = id
      <3>3. Cardinality(m) \in Nat /\ Cardinality(m) <= Cardinality(others) + 1
        <4>1. CASE at \in m
          <5>1. m = others \cup {at} /\ at \notin others
            BY <4>1
          <5>2. Cardinality(m) = Cardinality(others) + 1
            BY <2>1, <5>1, FS_AddElement
          <5>. QED  BY <2>1, <5>2
        <4>2. CASE at \notin m
          <5>1. m = others
            BY <4>2
          <5>. HIDE DEF m, others
          <5>. QED  BY <2>1, <5>1
        <4>. QED  BY <4>1, <4>2
      <3>4. \A i \in m : Minima'[i] \in Nat
        <4>1. \A i \in 1..Len(ips') : ips'[i] \in IpType
          BY <1>10
        <4>. QED  BY <4>1 DEF Members, Minima, IpType
      <3>5. /\ SumFunctionOnSet(Minima', m) \in Nat
            /\ SumFunctionOnSet(Minima', m) <= min + SumFunctionOnSet(Minima', others)
        <4>1. CASE at \in m
          <5>1. m = others \cup {at} /\ at \notin others
            BY <4>1
          <5>2. Minima'[at] = min
            BY <1>9, <2>0, <4>1 DEF Minima
          <5>3. SumFunctionOnSet(Minima', m) = min + SumFunctionOnSet(Minima', others)
            BY <2>1, <2>n, <3>4, <5>1, <5>2, SumAdd
          <5>. HIDE DEF m, others
          <5>. QED  BY <2>1, <2>n, <5>3
        <4>2. CASE at \notin m
          <5>1. m = others
            BY <4>2
          <5>. HIDE DEF m, others
          <5>. QED  BY <2>1, <2>n, <5>1
        <4>. QED  BY <4>1, <4>2
      <3>. HIDE DEF m, others
      <3>6. CASE \E g \in 1..Len(groups) :
                   /\ gid = groups[g].id
                   /\ groups'[h].count = groups[g].count + 1
                   /\ groups'[h].desired = groups[g].desired + min
        <4>1. PICK g \in 1..Len(groups) :
                   /\ gid = groups[g].id
                   /\ groups'[h].count = groups[g].count + 1
                   /\ groups'[h].desired = groups[g].desired + min
          BY <3>6
        <4>2. /\ Cardinality(old) <= groups[g].count
              /\ SumFunctionOnSet(Minima, old) <= groups[g].desired
          BY <4>1 DEF IInv, GroupCoversMembers, Minima
        <4>3. groups[g].count \in Nat /\ groups[g].desired \in Nat
          BY <1>g DEF GroupType
        <4>. HIDE DEF old
        <4>4. Cardinality(m) <= groups'[h].count
          BY <2>1, <3>3, <4>1, <4>2, <4>3
        <4>5. SumFunctionOnSet(Minima', m) <= groups'[h].desired
          BY <2>1, <2>n, <3>5, <4>1, <4>2, <4>3
        <4>. QED  BY <4>4, <4>5 DEF m
      <3>7. CASE /\ id = groupidx
                 /\ groups'[h].count = 1 /\ groups'[h].desired = min
        <4>1. old = {}
          <5>1. ASSUME NEW i \in 1..Len(ips), ips[i].mark # 0, ips[i].group = gid
                PROVE  FALSE
            <6>1. PICK g \in 1..Len(groups) : groups[g].id = ips[i].group
              BY <5>1 DEF IInv, GroupFits
            <6>2. groups[g].id < groupidx
              BY DEF IInv, IdsInRange
            <6>. QED  BY <1>g, <1>2, <2>3, <3>7, <5>1, <6>1, <6>2
          <5>. QED  BY <5>1 DEF Members
        <4>2. Cardinality(old) = 0 /\ SumFunctionOnSet(Minima, old) = 0
          BY <4>1, FS_EmptySet, SumEmpty
        <4>. HIDE DEF old
        <4>. QED  BY <2>1, <2>n, <3>3, <3>5, <3>7, <4>2 DEF m
      <3>. QED  BY <2>a, <2>3, <3>6, <3>7
    <2>. QED  BY <2>2, <2>3
  <1>. QED  BY <1>12, <1>15, <1>16, <1>17, <1>18, <1>19, <1>20, <1>21 DEF IInv

LEMMA NextInvariant == IInv /\ [Next]_vars => IInv'
  <1>. SUFFICES ASSUME IInv, [Next]_vars
                PROVE  IInv'
    OBVIOUS
  <1>1. CASE SharingLine
    BY <1>1, SharingLineInvariant
  <1>2. CASE NetworkLine
    BY <1>2, NetworkLineInvariant
  <1>3. CASE ClassLine
    BY <1>3, ClassLineInvariant
  <1>4. CASE UNCHANGED vars
    BY <1>4 DEF vars, IInv, TypeOK, GroupsSorted, GroupFits, ClassIdsDistinct,
                RateBelowCeil, GroupCoversMembers, Members, IdsInRange, Unique
  <1>. QED  BY <1>1, <1>2, <1>3, <1>4 DEF Next

(* What the properties rest on is kept by every line of the hosts file.     *)
THEOREM Invariance == Spec => []IInv
  BY InitInvariant, NextInvariant, PTL DEF Spec

(* Whatever the hosts file, the lists stay well formed.                    *)
THEOREM TypeCorrect == Spec => []TypeOK
  BY Invariance, PTL DEF IInv

(* Groups are always in order of falling guaranteed rate, which is what    *)
(* prometheus.c relies on when it hangs each group below the one before.   *)
THEOREM GroupsAreSorted == Spec => []GroupsSorted
  BY Invariance, PTL DEF IInv

(* The group an IP hangs under exists and guarantees what the IP is owed.  *)
THEOREM EveryGroupFits == Spec => []GroupFits
  BY Invariance, PTL DEF IInv

(* No two HTB classes get the same id while groups fit below FIRSTIPCLASS. *)
THEOREM ClassIdsAreDistinct == Spec => []ClassIdsDistinct
  BY Invariance, PTL DEF IInv

(* Every class has a ceiling no lower than its rate, whatever free-min is, *)
(* and no rate of 0 unless free-min is 0; without a class only the         *)
(* unregistered addresses have a rate.                                     *)
THEOREM RateIsBelowCeil == Spec => []RateBelowCeil
  BY Invariance, PTL DEF IInv

(* A group counts and wants at least what its members make up together.    *)
THEOREM GroupsCoverMembers == Spec => []GroupCoversMembers
  BY Invariance, PTL DEF IInv

(* An address never has two entries, IPv6 uplinks apart and the addresses  *)
(* of lines that name their own address as their range.                    *)
THEOREM AddressesAreUnique == Spec => []OneEntryPerAddress
  <1>1. IInv => OneEntryPerAddress
    BY DEF IInv, Unique, OneEntryPerAddress
  <1>. QED  BY <1>1, Invariance, PTL
=============================================================================
