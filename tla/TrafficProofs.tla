---------------------------- MODULE TrafficProofs ----------------------------
(***************************************************************************)
(* Proofs about modules Traffic and Sharing, for every listing, every      *)
(* hosts file and every configuration that satisfies their assumptions.    *)
(***************************************************************************)
EXTENDS Traffic, Cll1Proofs

LogType == [name : Name, traffic : Nat, direct : Nat, upload : Nat]
PageType ==
  [total_traffic : Nat, total_direct : Nat, total_upload : Nat,
   active_classes : Nat, sums : Seq([l : Nat, i : Nat])]

(* TypeOK, with the lists as sequences and the places that are read.       *)
Typed ==
  /\ config \in Config /\ listing \in Listings /\ hosts \in HostsFiles \cup {<<>>}
  /\ phase \in {"count", "hosts", "share", "json", "page", "done", "dead"}
  /\ at \in Nat \ {0} /\ pos \in Nat /\ (phase = "share" => pos # 0)
  /\ downloadflag \in BOOLEAN /\ detected \in BOOLEAN
  /\ given \in Seq(IpType) /\ list \in Seq(IpType)
  /\ sorted \in Seq(IpType) /\ json \in Seq(IpType)
  /\ logs \in Seq(LogType) /\ page \in PageType

(* What nobody changes of an IP once parse_hosts is done.                  *)
Same(e, g) ==
  /\ e.name = g.name /\ e.sharing = g.sharing /\ e.v6 = g.v6 /\ e.uplink = g.uplink
  /\ e.direct = g.direct /\ e.upload = g.upload

(* ip shares a class, that of the first IP of a name; those that share     *)
(* i's, among the first IPs up to the one the pass is at.                  *)
Shares(i) == given[i].sharing # NoName /\ FirstOf(given, given[i].sharing) # 0
SharersUpto(i, p) == {j \in SharersOf(given, i) : j < p}

TrafficsIn(l) == [i \in 1..Len(l) |-> l[i].traffic]
DirectsIn(l) == [i \in 1..Len(l) |-> l[i].direct]
UploadsIn(l) == [i \in 1..Len(l) |-> l[i].upload]

(* Resolved, halfway through the list.                                     *)
HandedOver(i) ==
  LET s == FirstOf(given, given[i].sharing) IN
  /\ i >= pos => list[i] = given[i]
  /\ i < pos =>
       /\ list[i].traffic = 0
       /\ list[i].mark = given[s].mark /\ list[i].code = given[s].code
       /\ list[i].pps_limit = given[s].pps_limit
       /\ Prefixed(given[i], given[s]) => <<i, s>> \in prefixes

Received(i) ==
  /\ list[i].mark = given[i].mark /\ list[i].code = given[i].code
  /\ list[i].pps_limit = given[i].pps_limit
  /\ list[i].traffic = given[i].traffic
       + SumFunctionOnSet(TrafficsIn(given), SharersUpto(i, pos))
  /\ list[i].traffic_down = given[i].traffic_down
       + SumFunctionOnSet(DirectsIn(given), SharersUpto(i, pos))
  /\ list[i].traffic_up = given[i].traffic_up
       + SumFunctionOnSet(UploadsIn(given), SharersUpto(i, pos))

Halfway ==
  \A i \in 1..Len(given) : IF Shares(i) THEN HandedOver(i) ELSE Received(i)

(* The state of the pass over the list.                                    *)
Pass ==
  pos > 0 =>
    /\ Len(list) = Len(given) /\ pos <= Len(given) + 1
    /\ \A i \in 1..Len(given) : Same(list[i], given[i])
    /\ \A i \in 1..Len(given) :
         i \in unresolved <=> i < pos /\ given[i].sharing # NoName /\ ~Shares(i)
    /\ Direct(given) => Halfway

-----------------------------------------------------------------------------

LEMMA Numbers == MB \in Nat /\ MB # 0 /\ Top \in Nat /\ Top # 0
  BY TrafficAssumption

(* The first IP of a name is found by its name alone.                      *)
LEMMA FirstOfProperties ==
  ASSUME NEW l \in Seq(IpType), NEW n
  PROVE  /\ FirstOf(l, n) \in 0..Len(l)
         /\ FirstOf(l, n) # 0 => l[FirstOf(l, n)].name = n
         /\ FirstOf(l, n) = 0 => \A i \in 1..Len(l) : l[i].name # n
  <1>. DEFINE I == {i \in 1..Len(l) : l[i].name = n}
  <1>1. FirstOf(l, n) = IF I # {} THEN Min(I) ELSE 0
    BY DEF FirstOf, SelectInSeq
  <1>2. CASE I = {}
    BY <1>1, <1>2
  <1>3. CASE I # {}
    <2>1. Min(I) \in I
      <3>1. I \in SUBSET (1..Len(l)) /\ Len(l) \in Nat
        OBVIOUS
      <3>. HIDE DEF I
      <3>. QED  BY <1>3, <3>1, FirstIndex
    <2>. QED  BY <1>1, <1>3, <2>1
  <1>. QED  BY <1>2, <1>3

LEMMA FirstOfSame ==
  ASSUME NEW l, NEW m, Len(l) = Len(m), \A i \in 1..Len(l) : l[i].name = m[i].name, NEW n
  PROVE  FirstOf(l, n) = FirstOf(m, n)
  <1>1. {i \in 1..Len(l) : l[i].name = n} = {i \in 1..Len(m) : m[i].name = n}
    OBVIOUS
  <1>2. \A k : FirstOf(k, n) = LET I == {i \in 1..Len(k) : k[i].name = n} IN
                               IF I # {} THEN Min(I) ELSE 0
    BY DEF FirstOf, SelectInSeq
  <1>. QED  BY <1>1, <1>2

-----------------------------------------------------------------------------

LEMMA CreditedProperties ==
  ASSUME NEW e \in IpType, NEW ip \in IpType
  PROVE  LET c == Credited(e, ip)
         IN  /\ c \in IpType /\ Same(c, e)
             /\ c.mark = e.mark /\ c.code = e.code /\ c.pps_limit = e.pps_limit
             /\ c.traffic = e.traffic + ip.traffic
             /\ c.traffic_down = e.traffic_down + ip.direct
             /\ c.traffic_up = e.traffic_up + ip.upload
  <1>. DEFINE t == e.traffic + ip.traffic
              d == e.traffic_down + ip.direct
              u == e.traffic_up + ip.upload
  <1>1. t \in Nat /\ d \in Nat /\ u \in Nat
    BY DEF IpType
  <1>3. Credited(e, ip) = [e EXCEPT !.traffic = t, !.traffic_down = d, !.traffic_up = u]
    BY DEF Credited
  <1>4. Credited(e, ip) \in IpType
    <2>. HIDE DEF t, d, u
    <2>. QED  BY <1>1, <1>3 DEF IpType
  <1>. QED  BY <1>3, <1>4 DEF IpType, Same

LEMMA DebitedProperties ==
  ASSUME NEW ip \in IpType, NEW e \in IpType
  PROVE  LET d == Debited(ip, e)
         IN  /\ d \in IpType /\ Same(d, ip) /\ d.traffic = 0
             /\ d.mark = e.mark /\ d.code = e.code /\ d.pps_limit = e.pps_limit
  BY DEF Debited, IpType, Same

(* What Resolve makes of the list: at most two IPs change, none of them in *)
(* what it is looked up by.                                                *)
LEMMA ResolveProperties ==
  ASSUME list \in Seq(IpType), pos \in Nat, pos # 0, Resolve
  PROVE  LET s == SharedIp(list[pos])
             c == Credited(list[s], list[pos])
         IN  /\ pos \in 1..Len(list) /\ s \in 1..Len(list)
             /\ list' \in Seq(IpType) /\ Len(list') = Len(list)
             /\ \A i \in 1..Len(list) : Same(list'[i], list[i])
             /\ s # pos => /\ list'[s] = c /\ list'[pos] = Debited(list[pos], c)
                           /\ \A i \in 1..Len(list) : i \notin {s, pos} => list'[i] = list[i]
  <1>. DEFINE s == SharedIp(list[pos])
              c == Credited(list[s], list[pos])
              credited == [list EXCEPT ![s] = c]
              d == Debited(credited[pos], credited[s])
  <1>1. /\ pos <= Len(list) /\ s # 0
        /\ list' = [credited EXCEPT ![pos] = d]
    BY DEF Resolve
  <1>a. s = FirstOf(list, list[pos].sharing)
    BY DEF SharedIp, FirstOf
  <1>2. pos \in 1..Len(list) /\ s \in 1..Len(list)
    <2>1. s \in 0..Len(list) /\ Len(list) \in Nat
      <3>. HIDE DEF s
      <3>. QED  BY <1>a, FirstOfProperties
    <2>. QED  BY <1>1, <2>1
  <1>. HIDE DEF s
  <1>3. list[s] \in IpType /\ list[pos] \in IpType
    BY <1>2
  <1>4. c \in IpType /\ Same(c, list[s])
    BY <1>3, CreditedProperties
  <1>. HIDE DEF c
  <1>5. /\ credited \in Seq(IpType) /\ Len(credited) = Len(list)
        /\ \A i \in 1..Len(list) : credited[i] = IF i = s THEN c ELSE list[i]
    BY <1>2, <1>4, ExceptSeq
  <1>. HIDE DEF credited
  <1>6. credited[pos] \in IpType /\ credited[s] = c
    BY <1>2, <1>5
  <1>7. d \in IpType /\ Same(d, credited[pos])
    BY <1>4, <1>6, DebitedProperties
  <1>8. d = Debited(credited[pos], c)
    BY <1>6
  <1>. HIDE DEF d
  <1>9. /\ list' \in Seq(IpType) /\ Len(list') = Len(list)
        /\ \A i \in 1..Len(list) : list'[i] = IF i = pos THEN d ELSE credited[i]
    BY <1>1, <1>2, <1>5, <1>7, ExceptSeq
  <1>10. \A i \in 1..Len(list) : Same(list'[i], list[i])
    BY <1>4, <1>5, <1>7, <1>9 DEF Same
  <1>11. s # pos => /\ list'[s] = c /\ list'[pos] = Debited(list[pos], c)
                    /\ \A i \in 1..Len(list) : i \notin {s, pos} => list'[i] = list[i]
    BY <1>2, <1>5, <1>8, <1>9
  <1>. QED  BY <1>2, <1>9, <1>10, <1>11 DEF s, c

-----------------------------------------------------------------------------

(* The sums that an IP is to receive grow by those of the IP that the pass *)
(* is at, if it is one of those that share.                                *)
LEMMA SharersNext ==
  ASSUME given \in Seq(IpType), NEW k \in 1..Len(given), NEW i \in 1..Len(given)
  PROVE  LET hit == given[k].sharing # NoName /\ FirstOf(given, given[k].sharing) = i
         IN  /\ IsFiniteSet(SharersUpto(i, k)) /\ SharersUpto(i, k) \in SUBSET (1..Len(given))
             /\ k \notin SharersUpto(i, k)
             /\ hit => SharersUpto(i, k + 1) = SharersUpto(i, k) \cup {k}
             /\ ~hit => SharersUpto(i, k + 1) = SharersUpto(i, k)
  <1>1. SharersUpto(i, k) \in SUBSET (1..Len(given))
    BY DEF SharersUpto, SharersOf
  <1>2. IsFiniteSet(1..Len(given))
    BY CountUpTo
  <1>3. IsFiniteSet(SharersUpto(i, k))
    BY <1>1, <1>2, FS_Subset
  <1>4. \A j \in 1..Len(given) : j < k + 1 <=> j < k \/ j = k
    OBVIOUS
  <1>. QED  BY <1>1, <1>3, <1>4 DEF SharersUpto, SharersOf

LEMMA SumsNext ==
  ASSUME given \in Seq(IpType), NEW k \in 1..Len(given), NEW i \in 1..Len(given),
         NEW f, \A j \in 1..Len(given) : f[j] \in Nat
  PROVE  LET hit == given[k].sharing # NoName /\ FirstOf(given, given[k].sharing) = i
             before == SumFunctionOnSet(f, SharersUpto(i, k))
         IN  /\ before \in Nat
             /\ SumFunctionOnSet(f, SharersUpto(i, k + 1))
                  = IF hit THEN f[k] + before ELSE before
  <1>. DEFINE S == SharersUpto(i, k)
              hit == given[k].sharing # NoName /\ FirstOf(given, given[k].sharing) = i
  <1>1. /\ IsFiniteSet(S) /\ S \in SUBSET (1..Len(given)) /\ k \notin S
        /\ hit => SharersUpto(i, k + 1) = S \cup {k}
        /\ ~hit => SharersUpto(i, k + 1) = S
    BY SharersNext
  <1>. HIDE DEF S
  <1>2. SumFunctionOnSet(f, S) \in Nat
    BY <1>1, SumNat
  <1>3. SumFunctionOnSet(f, S \cup {k}) = f[k] + SumFunctionOnSet(f, S)
    BY <1>1, SumAdd
  <1>. QED  BY <1>1, <1>2, <1>3 DEF S

LEMMA GivenEntry ==
  ASSUME given \in Seq(IpType), NEW k \in 1..Len(given)
  PROVE  /\ given[k] \in IpType
         /\ given[k].traffic \in Nat /\ given[k].direct \in Nat /\ given[k].upload \in Nat
         /\ given[k].traffic_down \in Nat /\ given[k].traffic_up \in Nat
         /\ TrafficsIn(given)[k] = given[k].traffic
         /\ DirectsIn(given)[k] = given[k].direct
         /\ UploadsIn(given)[k] = given[k].upload
  <1>1. given[k] \in IpType
    OBVIOUS
  <1>. QED  BY <1>1 DEF IpType, TrafficsIn, DirectsIn, UploadsIn

(* An IP that the pass does not charge keeps what it has received, if the  *)
(* IP at hand does not share its class; else it gets that IP's.            *)
LEMMA ReceivedNext ==
  ASSUME given \in Seq(IpType), pos \in 1..Len(given), NEW i \in 1..Len(given),
         UNCHANGED given, pos' = pos + 1, Received(i),
         LET hit == given[pos].sharing # NoName /\ FirstOf(given, given[pos].sharing) = i
         IN  /\ hit => list'[i] = Credited(list[i], given[pos])
             /\ ~hit => list'[i] = list[i],
         list[i] \in IpType
  PROVE  Received(i)'
  <1>. DEFINE hit == given[pos].sharing # NoName /\ FirstOf(given, given[pos].sharing) = i
              T(p) == SumFunctionOnSet(TrafficsIn(given), SharersUpto(i, p))
              D(p) == SumFunctionOnSet(DirectsIn(given), SharersUpto(i, p))
              U(p) == SumFunctionOnSet(UploadsIn(given), SharersUpto(i, p))
  <1>1. /\ \A j \in 1..Len(given) : TrafficsIn(given)[j] \in Nat
        /\ \A j \in 1..Len(given) : DirectsIn(given)[j] \in Nat
        /\ \A j \in 1..Len(given) : UploadsIn(given)[j] \in Nat
    BY GivenEntry
  <1>2. T(pos) \in Nat /\ T(pos + 1) = IF hit THEN given[pos].traffic + T(pos) ELSE T(pos)
    BY <1>1, SumsNext, GivenEntry
  <1>3. D(pos) \in Nat /\ D(pos + 1) = IF hit THEN given[pos].direct + D(pos) ELSE D(pos)
    BY <1>1, SumsNext, GivenEntry
  <1>4. U(pos) \in Nat /\ U(pos + 1) = IF hit THEN given[pos].upload + U(pos) ELSE U(pos)
    BY <1>1, SumsNext, GivenEntry
  <1>5. /\ list[i].mark = given[i].mark /\ list[i].code = given[i].code
        /\ list[i].pps_limit = given[i].pps_limit
        /\ list[i].traffic = given[i].traffic + T(pos)
        /\ list[i].traffic_down = given[i].traffic_down + D(pos)
        /\ list[i].traffic_up = given[i].traffic_up + U(pos)
    BY DEF Received
  <1>6. Received(i)' <=>
          /\ list'[i].mark = given[i].mark /\ list'[i].code = given[i].code
          /\ list'[i].pps_limit = given[i].pps_limit
          /\ list'[i].traffic = given[i].traffic + T(pos + 1)
          /\ list'[i].traffic_down = given[i].traffic_down + D(pos + 1)
          /\ list'[i].traffic_up = given[i].traffic_up + U(pos + 1)
    BY DEF Received, TrafficsIn, DirectsIn, UploadsIn, SharersUpto, SharersOf
  <1>7. /\ given[i].traffic \in Nat /\ given[i].traffic_down \in Nat
        /\ given[i].traffic_up \in Nat
        /\ given[pos].traffic \in Nat /\ given[pos].direct \in Nat
        /\ given[pos].upload \in Nat /\ given[pos] \in IpType
    BY GivenEntry
  <1>8. CASE ~hit
    <2>. HIDE DEF T, D, U
    <2>. QED  BY <1>2, <1>3, <1>4, <1>5, <1>6, <1>8
  <1>9. CASE hit
    <2>. DEFINE c == Credited(list[i], given[pos])
    <2>1. /\ c.mark = list[i].mark /\ c.code = list[i].code
          /\ c.pps_limit = list[i].pps_limit
          /\ c.traffic = list[i].traffic + given[pos].traffic
          /\ c.traffic_down = list[i].traffic_down + given[pos].direct
          /\ c.traffic_up = list[i].traffic_up + given[pos].upload
      BY <1>7, CreditedProperties
    <2>2. list'[i] = c
      BY <1>9
    <2>3. \A x, y, z \in Nat : x + y + z = x + (z + y)
      OBVIOUS
    <2>. HIDE DEF T, D, U, c
    <2>4. list'[i].traffic = given[i].traffic + T(pos + 1)
      <3>1. c.traffic = given[i].traffic + T(pos) + given[pos].traffic
        BY <1>5, <2>1
      <3>2. T(pos + 1) = given[pos].traffic + T(pos)
        BY <1>2, <1>9
      <3>. QED  BY <1>2, <1>7, <2>2, <2>3, <3>1, <3>2
    <2>5. list'[i].traffic_down = given[i].traffic_down + D(pos + 1)
      <3>1. c.traffic_down = given[i].traffic_down + D(pos) + given[pos].direct
        BY <1>5, <2>1
      <3>2. D(pos + 1) = given[pos].direct + D(pos)
        BY <1>3, <1>9
      <3>. QED  BY <1>3, <1>7, <2>2, <2>3, <3>1, <3>2
    <2>6. list'[i].traffic_up = given[i].traffic_up + U(pos + 1)
      <3>1. c.traffic_up = given[i].traffic_up + U(pos) + given[pos].upload
        BY <1>5, <2>1
      <3>2. U(pos + 1) = given[pos].upload + U(pos)
        BY <1>4, <1>9
      <3>. QED  BY <1>4, <1>7, <2>2, <2>3, <3>1, <3>2
    <2>. QED  BY <1>5, <1>6, <2>1, <2>2, <2>4, <2>5, <2>6
  <1>. QED  BY <1>8, <1>9

(* What an IP shares, and with whom, the pass finds as parse_hosts left it. *)
LEMMA SharedAsGiven ==
  ASSUME list \in Seq(IpType), given \in Seq(IpType), Len(list) = Len(given),
         \A i \in 1..Len(given) : Same(list[i], given[i]), NEW k \in 1..Len(given)
  PROVE  /\ list[k].sharing = given[k].sharing
         /\ SharedIp(list[k]) = FirstOf(given, given[k].sharing)
  <1>1. list[k].sharing = given[k].sharing
    BY DEF Same
  <1>2. SharedIp(list[k]) = FirstOf(list, list[k].sharing)
    BY DEF SharedIp, FirstOf
  <1>3. \A i \in 1..Len(list) : list[i].name = given[i].name
    BY DEF Same
  <1>4. FirstOf(list, list[k].sharing) = FirstOf(given, list[k].sharing)
    BY <1>3, FirstOfSame
  <1>. QED  BY <1>1, <1>2, <1>4

(* In a hosts file that means something nobody shares with an IP that      *)
(* shares.                                                                 *)
LEMMA SharesWithOwner ==
  ASSUME given \in Seq(IpType), Direct(given), NEW k \in 1..Len(given),
         NEW s, s = FirstOf(given, given[k].sharing), given[k].sharing # NoName, s # 0
  PROVE  s \in 1..Len(given) /\ s # k /\ ~Shares(s) /\ Shares(k)
  <1>1. /\ s \in 0..Len(given) /\ Len(given) \in Nat
        /\ given[s].name = given[k].sharing
    BY FirstOfProperties
  <1>2. s \in 1..Len(given)
    BY <1>1
  <1>3. given[s].sharing = NoName
    BY <1>1, <1>2 DEF Direct
  <1>. QED  BY <1>2, <1>3 DEF Shares

(* The pass begins with the list as it is.                                 *)
LEMMA StartPass ==
  ASSUME list \in Seq(IpType), StartSharing, UNCHANGED <<list, unresolved>>,
         unresolved = {}
  PROVE  Pass'
  <1>1. given' = list /\ pos' = 1 /\ list' = list /\ unresolved' = {} /\ Len(list) \in Nat
    BY DEF StartSharing
  <1>2. \A i \in 1..Len(list) : SharersUpto(i, pos)' = {}
    BY <1>1 DEF SharersUpto, SharersOf
  <1>3. \A i \in 1..Len(list) : HandedOver(i)'
    BY <1>1 DEF HandedOver
  <1>4. ASSUME NEW i \in 1..Len(list)
        PROVE  Received(i)'
    <2>1. list[i] \in IpType
      OBVIOUS
    <2>2. list[i].traffic \in Nat /\ list[i].traffic_down \in Nat /\ list[i].traffic_up \in Nat
      BY <2>1 DEF IpType
    <2>3. \A n \in Nat : n + 0 = n
      OBVIOUS
    <2>4. \A f : SumFunctionOnSet(f, SharersUpto(i, pos)') = 0
      BY <1>2, SumEmpty
    <2>5. Received(i)' <=>
            /\ list'[i].mark = given'[i].mark /\ list'[i].code = given'[i].code
            /\ list'[i].pps_limit = given'[i].pps_limit
            /\ list'[i].traffic = given'[i].traffic
                 + SumFunctionOnSet(TrafficsIn(given'), SharersUpto(i, pos)')
            /\ list'[i].traffic_down = given'[i].traffic_down
                 + SumFunctionOnSet(DirectsIn(given'), SharersUpto(i, pos)')
            /\ list'[i].traffic_up = given'[i].traffic_up
                 + SumFunctionOnSet(UploadsIn(given'), SharersUpto(i, pos)')
      BY DEF Received, TrafficsIn, DirectsIn, UploadsIn
    <2>. QED  BY <1>1, <2>2, <2>3, <2>4, <2>5
  <1>5. \A i \in 1..Len(given') : Same(list'[i], given'[i])
    BY <1>1 DEF Same
  <1>6. \A i \in 1..Len(given') :
          i \in unresolved' <=> i < pos' /\ given'[i].sharing # NoName /\ ~Shares(i)'
    BY <1>1
  <1>7. Halfway'
    BY <1>1, <1>3, <1>4 DEF Halfway
  <1>. QED  BY <1>1, <1>5, <1>6, <1>7 DEF Pass

(* An IP that is nobody's to hand over leaves the list as it is.           *)
LEMMA IdlePass ==
  ASSUME list \in Seq(IpType), given \in Seq(IpType), pos \in Nat, pos # 0, Pass,
         pos <= Len(list), UNCHANGED <<given, list, prefixes>>, pos' = pos + 1,
         given[pos].sharing = NoName \/ FirstOf(given, given[pos].sharing) = 0,
         unresolved' = IF given[pos].sharing = NoName THEN unresolved
                       ELSE unresolved \cup {pos}
  PROVE  Pass'
  <1>1. /\ Len(list) = Len(given) /\ Len(given) \in Nat /\ pos \in 1..Len(given)
        /\ \A i \in 1..Len(given) : Same(list[i], given[i])
        /\ \A i \in 1..Len(given) :
             i \in unresolved <=> i < pos /\ given[i].sharing # NoName /\ ~Shares(i)
        /\ Direct(given) => Halfway
    BY DEF Pass
  <1>2. \A i \in 1..Len(given) : Shares(i)' <=> Shares(i)
    BY DEF Shares
  <1>3. ~Shares(pos)
    BY DEF Shares
  <1>4. \A i \in 1..Len(given) :
          i \in unresolved' <=> i < pos' /\ given[i].sharing # NoName /\ ~Shares(i)
    <2>1. \A i \in 1..Len(given) : i < pos' <=> i < pos \/ i = pos
      BY <1>1
    <2>. QED  BY <1>1, <1>3, <2>1
  <1>5. ASSUME Direct(given)
        PROVE  Halfway'
    <2>1. ASSUME NEW i \in 1..Len(given), Shares(i)
          PROVE  HandedOver(i)'
      <3>1. HandedOver(i) /\ i # pos
        BY <1>1, <1>3, <1>5, <2>1 DEF Halfway
      <3>2. i < pos + 1 <=> i < pos
        BY <1>1, <3>1
      <3>3. i >= pos + 1 <=> i >= pos
        BY <1>1, <3>1
      <3>. QED  BY <3>1, <3>2, <3>3 DEF HandedOver
    <2>2. ASSUME NEW i \in 1..Len(given), ~Shares(i)
          PROVE  Received(i)'
      <3>1. Received(i) /\ list[i] \in IpType
        BY <1>1, <1>5, <2>2 DEF Halfway
      <3>. QED  BY <1>1, <3>1, ReceivedNext
    <2>. QED  BY <1>2, <2>1, <2>2 DEF Halfway
  <1>6. Direct(given)' <=> Direct(given)
    BY DEF Direct
  <1>7. pos' <= Len(given) + 1
    BY <1>1
  <1>. QED  BY <1>1, <1>2, <1>4, <1>5, <1>6, <1>7 DEF Pass

(* Where the IP at hand shares, it hands over all that it has.             *)
LEMMA ResolvePass ==
  ASSUME list \in Seq(IpType), given \in Seq(IpType), pos \in Nat, pos # 0, Pass, Resolve
  PROVE  Pass'
  <1>. DEFINE s == SharedIp(list[pos])
              c == Credited(list[s], list[pos])
  <1>0. pos' = pos + 1 /\ given' = given /\ unresolved' = unresolved
    BY DEF Resolve
  <1>1. /\ Len(list) = Len(given) /\ Len(given) \in Nat
        /\ \A i \in 1..Len(given) : Same(list[i], given[i])
        /\ \A i \in 1..Len(given) :
             i \in unresolved <=> i < pos /\ given[i].sharing # NoName /\ ~Shares(i)
        /\ Direct(given) => Halfway
    BY DEF Pass
  <1>2. /\ pos \in 1..Len(list) /\ s \in 1..Len(list)
        /\ list' \in Seq(IpType) /\ Len(list') = Len(list)
        /\ \A i \in 1..Len(list) : Same(list'[i], list[i])
        /\ s # pos => /\ list'[s] = c /\ list'[pos] = Debited(list[pos], c)
                      /\ \A i \in 1..Len(list) : i \notin {s, pos} => list'[i] = list[i]
    BY ResolveProperties
  <1>3. /\ s = FirstOf(given, given[pos].sharing)
        /\ list[pos].sharing = given[pos].sharing
    BY <1>1, <1>2, SharedAsGiven
  <1>4. /\ given[pos].sharing # NoName /\ s # 0
        /\ prefixes' = IF Prefixed(list[pos], list[s])
                       THEN prefixes \cup {<<pos, s>>} ELSE prefixes
    BY <1>3 DEF Resolve
  <1>. HIDE DEF s
  <1>5. \A i \in 1..Len(given) : Shares(i)' <=> Shares(i)
    BY <1>0 DEF Shares
  <1>6. Shares(pos)
    BY <1>3, <1>4 DEF Shares
  <1>7. \A i \in 1..Len(given) : Same(list'[i], given[i])
    BY <1>1, <1>2 DEF Same
  <1>8. \A i \in 1..Len(given) :
          i \in unresolved' <=> i < pos' /\ given[i].sharing # NoName /\ ~Shares(i)
    <2>1. \A i \in 1..Len(given) : i < pos' <=> i < pos \/ i = pos
      BY <1>0, <1>1, <1>2
    <2>. QED  BY <1>0, <1>1, <1>6, <2>1
  <1>9. ASSUME Direct(given)
        PROVE  Halfway'
    <2>0. Halfway /\ pos \in 1..Len(given)
      BY <1>1, <1>2, <1>9
    <2>1. s # pos /\ ~Shares(s) /\ s \in 1..Len(given)
      BY <1>1, <1>2, <1>3, <1>4, <1>9, SharesWithOwner
    <2>2. /\ list'[s] = c /\ list'[pos] = Debited(list[pos], c)
          /\ \A i \in 1..Len(list) : i \notin {s, pos} => list'[i] = list[i]
      BY <1>2, <2>1
    <2>3. list[pos] = given[pos]
      <3>1. HandedOver(pos)
        BY <1>6, <2>0 DEF Halfway
      <3>. QED  BY <2>0, <3>1 DEF HandedOver
    <2>4. Received(s) /\ list[s] \in IpType /\ list[pos] \in IpType
      BY <1>1, <2>0, <2>1 DEF Halfway
    <2>5. ASSUME NEW i \in 1..Len(given), Shares(i)
          PROVE  HandedOver(i)'
      <3>1. CASE i = pos
        <4>1. c \in IpType /\ c.mark = list[s].mark /\ c.code = list[s].code
              /\ c.pps_limit = list[s].pps_limit
          BY <2>4, CreditedProperties
        <4>. HIDE DEF c
        <4>2. /\ list'[pos].traffic = 0 /\ list'[pos].mark = c.mark
              /\ list'[pos].code = c.code /\ list'[pos].pps_limit = c.pps_limit
          BY <2>2, <2>4, <4>1, DebitedProperties
        <4>3. /\ list[s].mark = given[s].mark /\ list[s].code = given[s].code
              /\ list[s].pps_limit = given[s].pps_limit
          BY <2>4 DEF Received
        <4>4. Prefixed(given[pos], given[s]) => <<pos, s>> \in prefixes'
          BY <1>1, <1>4, <2>0, <2>1 DEF Prefixed, Same
        <4>5. pos' = pos + 1 /\ pos < pos + 1 /\ ~(pos >= pos + 1)
          BY <1>0
        <4>. QED  BY <1>0, <1>3, <3>1, <4>1, <4>2, <4>3, <4>4, <4>5 DEF HandedOver
      <3>2. CASE i # pos
        <4>1. i # s /\ list'[i] = list[i]
          BY <1>1, <2>1, <2>2, <2>5, <3>2
        <4>2. HandedOver(i)
          BY <2>0, <2>5 DEF Halfway
        <4>3. /\ i < pos + 1 <=> i < pos
              /\ i >= pos + 1 <=> i >= pos
          BY <2>0, <3>2
        <4>4. prefixes \subseteq prefixes'
          BY <1>4
        <4>. QED  BY <1>0, <4>1, <4>2, <4>3, <4>4 DEF HandedOver
      <3>. QED  BY <3>1, <3>2
    <2>6. ASSUME NEW i \in 1..Len(given), ~Shares(i)
          PROVE  Received(i)'
      <3>1. Received(i) /\ list[i] \in IpType
        BY <1>1, <2>0, <2>6 DEF Halfway
      <3>2. i # pos
        BY <1>6, <2>6
      <3>3. i = s => list'[i] = Credited(list[i], given[pos])
        BY <2>2, <2>3
      <3>4. i # s => list'[i] = list[i]
        BY <1>1, <2>2, <3>2
      <3>. QED  BY <1>0, <1>3, <1>4, <2>0, <3>1, <3>3, <3>4, ReceivedNext
    <2>. QED  BY <1>0, <1>5, <2>5, <2>6 DEF Halfway
  <1>10. Direct(given)' <=> Direct(given)
    BY <1>0 DEF Direct
  <1>11. pos' <= Len(given) + 1
    BY <1>0, <1>1, <1>2
  <1>. QED  BY <1>0, <1>1, <1>2, <1>5, <1>7, <1>8, <1>9, <1>10, <1>11 DEF Pass

(* Every turn of the loop.                                                 *)
LEMMA SharePass ==
  ASSUME list \in Seq(IpType), given \in Seq(IpType), pos \in Nat, pos # 0, Pass, Share
  PROVE  Pass' /\ list' \in Seq(IpType) /\ given' = given /\ pos' = pos + 1
  <1>1. CASE Resolve
    BY <1>1, ResolvePass, ResolveProperties DEF Resolve
  <1>2. CASE Own \/ Unresolved
    <2>1. pos \in 1..Len(given) /\ Len(given) = Len(list)
      BY <1>2 DEF Pass, Own, Unresolved
    <2>2. /\ list[pos].sharing = given[pos].sharing
          /\ SharedIp(list[pos]) = FirstOf(given, given[pos].sharing)
      BY <2>1, SharedAsGiven DEF Pass
    <2>3. /\ pos <= Len(list) /\ UNCHANGED <<given, list, prefixes>> /\ pos' = pos + 1
          /\ given[pos].sharing = NoName \/ FirstOf(given, given[pos].sharing) = 0
          /\ unresolved' = IF given[pos].sharing = NoName THEN unresolved
                           ELSE unresolved \cup {pos}
      BY <1>2, <2>2 DEF Own, Unresolved
    <2>. QED  BY <2>3, IdlePass
  <1>. QED  BY <1>1, <1>2 DEF Share

-----------------------------------------------------------------------------

(* The key of sort: more traffic stands before less.                       *)
ByTraffic == {x \in IpType \X IpType : x[1].traffic < x[2].traffic}

LEMMA LessTrafficIsKey ==
  /\ IsKey(ByTraffic, IpType)
  /\ \A b, a \in IpType : <<b, a>> \in ByTraffic <=> LessTraffic(b, a)
  <1>1. \A e \in IpType : e.traffic \in Nat
    BY DEF IpType
  <1>2. \A b, a \in IpType : <<b, a>> \in ByTraffic <=> b.traffic < a.traffic
    BY DEF ByTraffic
  <1>. QED  BY <1>1, <1>2 DEF IsKey, LessTraffic

LEMMA InsertStops ==
  ASSUME NEW u \in Seq(IpType), NEW a \in IpType
  PROVE  \E q : StopsAt(q, a, u, ByTraffic) /\ Insert(a, u, LessTraffic) = InsertAt(u, q, a)
  <1>. DEFINE q == InsertPlace(a, u, LessTraffic)
  <1>1. \A k \in 1..Len(u) : <<u[k], a>> \in ByTraffic <=> LessTraffic(u[k], a)
    BY LessTrafficIsKey
  <1>2. \E k \in 1..(Len(u) + 1) : StopsAt(k, a, u, ByTraffic)
    BY PlaceExists
  <1>3. Len(u) \in Nat
    OBVIOUS
  <1>4. \A k \in 1..(Len(u) + 1) : StopsAt(k, a, u, ByTraffic) <=>
          /\ k = Len(u) + 1 \/ LessTraffic(u[k], a)
          /\ \A p \in 1..(k - 1) : ~LessTraffic(u[p], a)
    <2>1. ASSUME NEW k \in 1..(Len(u) + 1)
          PROVE  StopsAt(k, a, u, ByTraffic) <=>
                   /\ k = Len(u) + 1 \/ LessTraffic(u[k], a)
                   /\ \A p \in 1..(k - 1) : ~LessTraffic(u[p], a)
      <3>1. \A p \in 1..(k - 1) : p \in 1..Len(u)
        BY <1>3
      <3>2. k # Len(u) + 1 => k \in 1..Len(u)
        BY <1>3
      <3>. QED  BY <1>1, <3>1, <3>2 DEF StopsAt
    <2>. QED  BY <2>1
  <1>5. q \in 1..(Len(u) + 1) /\ StopsAt(q, a, u, ByTraffic)
    <2>1. q = CHOOSE k \in 1..(Len(u) + 1) :
                /\ k = Len(u) + 1 \/ LessTraffic(u[k], a)
                /\ \A p \in 1..(k - 1) : ~LessTraffic(u[p], a)
      BY DEF InsertPlace
    <2>. HIDE DEF q
    <2>. QED  BY <1>2, <1>4, <2>1
  <1>6. Insert(a, u, LessTraffic) = InsertAt(u, q, a)
    BY DEF Insert
  <1>. QED  BY <1>5, <1>6

LEMMA SortedProperties ==
  ASSUME NEW B \in Seq(IpType)
  PROVE  LET u == Sort(B, LessTraffic)
         IN  u \in Seq(IpType) /\ InOrder(u, ByTraffic) /\ Reordered(u, B, Len(B))
  <1>. DEFINE n == Len(B)
              Step(r, t) == IF t = {} THEN <<>>
                            ELSE Insert(B[Max(t)], r[t \ {Max(t)}], LessTraffic)
              Solves(r) == r = [t \in SUBSET (1..n) |-> Step(r, t)]
              step == [x \in (1..n) \X Seq(IpType) |-> Insert(B[x[1]], x[2], LessTraffic)]
  <1>1. n \in Nat /\ DOMAIN B = 1..n /\ <<>> \in Seq(IpType)
    OBVIOUS
  <1>2. Sort(B, LessTraffic) = (CHOOSE r : Solves(r))[1..n]
    BY <1>1 DEF Sort, FoldLeft, MapThenFoldSet
  <1>3. step \in [(1..n) \X Seq(IpType) -> Seq(IpType)]
    <2>1. ASSUME NEW x \in (1..n) \X Seq(IpType)
          PROVE  Insert(B[x[1]], x[2], LessTraffic) \in Seq(IpType)
      <3>1. B[x[1]] \in IpType /\ x[2] \in Seq(IpType)
        OBVIOUS
      <3>2. PICK q : /\ StopsAt(q, B[x[1]], x[2], ByTraffic)
                     /\ Insert(B[x[1]], x[2], LessTraffic) = InsertAt(x[2], q, B[x[1]])
        BY <3>1, InsertStops
      <3>3. q \in 1..(Len(x[2]) + 1)
        BY <3>2 DEF StopsAt
      <3>. QED  BY <3>1, <3>2, <3>3, InsertAtProperties
    <2>. QED  BY <2>1
  <1>4. PICK r \in [SUBSET (1..n) -> Seq(IpType)] : IsFold(r, n, <<>>, step)
    <2>1. StepsIn(step, n, Seq(IpType))
      BY <1>3 DEF StepsIn
    <2>. HIDE DEF step, n
    <2>. QED  BY <1>1, <2>1, FoldSolutionExists
  <1>5. \E g : Solves(g)
    <2>1. ASSUME NEW t \in SUBSET (1..n), t # {}
          PROVE  step[<<Max(t), r[t \ {Max(t)}]>>]
                   = Insert(B[Max(t)], r[t \ {Max(t)}], LessTraffic)
      <3>1. Max(t) \in 1..n
        BY <1>1, <2>1, LastIndex
      <3>2. r[t \ {Max(t)}] \in Seq(IpType)
        BY <1>4
      <3>. QED  BY <3>1, <3>2
    <2>2. \A t \in SUBSET (1..n) : r[t] = Step(r, t)
      BY <1>4, <2>1 DEF IsFold
    <2>. HIDE DEF step, Step
    <2>. QED  BY <1>4, <2>2
  <1>6. Solves(CHOOSE g : Solves(g))
    BY <1>5
  <1>. DEFINE g == CHOOSE g : Solves(g)
  <1>. HIDE DEF Solves
  <1>7. \A t \in SUBSET (1..n) : g[t] = Step(g, t)
    BY <1>6 DEF Solves
  <1>. HIDE DEF g
  <1>. SUFFICES /\ g[1..n] \in Seq(IpType) /\ InOrder(g[1..n], ByTraffic)
                /\ Reordered(g[1..n], B, n)
    BY <1>2 DEF g
  <1>8. g[{}] = <<>>
    BY <1>7
  <1>9. \A k \in 1..n : g[1..k] = Insert(B[k], g[1..(k - 1)], LessTraffic)
    <2>1. ASSUME NEW k \in 1..n
          PROVE  g[1..k] = Insert(B[k], g[1..(k - 1)], LessTraffic)
      <3>1. Max(1..k) = k /\ (1..k) \ {k} = 1..(k - 1)
        BY MaxOfInterval
      <3>2. 1..k \in SUBSET (1..n) /\ 1..k # {}
        BY <1>1
      <3>. QED  BY <1>7, <3>1, <3>2
    <2>. QED  BY <2>1
  <1>10. \A k \in 0..n : g[1..k] \in Seq(IpType)
    <2>. DEFINE T == {k \in Nat : k <= n => g[1..k] \in Seq(IpType)}
    <2>1. 0 \in T
      <3>1. 1..0 = {}
        OBVIOUS
      <3>. QED  BY <1>1, <1>8, <3>1
    <2>2. ASSUME NEW k \in Nat, k \in T
          PROVE  k + 1 \in T
      <3>. SUFFICES ASSUME k + 1 <= n
                    PROVE  g[1..(k + 1)] \in Seq(IpType)
        OBVIOUS
      <3>1. k + 1 \in 1..n /\ k + 1 - 1 = k /\ B[k + 1] \in IpType /\ g[1..k] \in Seq(IpType)
        BY <1>1, <2>2
      <3>2. PICK q : /\ StopsAt(q, B[k + 1], g[1..k], ByTraffic)
                     /\ Insert(B[k + 1], g[1..k], LessTraffic) = InsertAt(g[1..k], q, B[k + 1])
        BY <3>1, InsertStops
      <3>3. q \in 1..(Len(g[1..k]) + 1)
        BY <3>2 DEF StopsAt
      <3>4. InsertAt(g[1..k], q, B[k + 1]) \in Seq(IpType)
        BY <3>1, <3>3, InsertAtProperties
      <3>. QED  BY <1>9, <3>1, <3>2, <3>4
    <2>3. \A k \in Nat : k \in T
      <3>. HIDE DEF T
      <3>. QED  BY <2>1, <2>2, NatInSet
    <2>. QED  BY <1>1, <2>3
  <1>11. \A k \in 1..Len(B) : \E q :
           /\ StopsAt(q, B[k], g[1..(k - 1)], ByTraffic)
           /\ g[1..k] = InsertAt(g[1..(k - 1)], q, B[k])
    <2>1. ASSUME NEW k \in 1..n
          PROVE  \E q : /\ StopsAt(q, B[k], g[1..(k - 1)], ByTraffic)
                        /\ g[1..k] = InsertAt(g[1..(k - 1)], q, B[k])
      <3>1. k - 1 \in 0..n /\ B[k] \in IpType
        BY <1>1
      <3>2. g[1..(k - 1)] \in Seq(IpType)
        BY <1>10, <3>1
      <3>. QED  BY <1>9, <3>1, <3>2, InsertStops
    <2>. QED  BY <2>1
  <1>. QED  BY <1>8, <1>11, LessTrafficIsKey, SortProperties

(* What the JSON file lists of a list, and the log of who shares.          *)
Listed == {e \in IpType : InJson(e)}
Sharing(ip) == {e \in IpType : e.sharing = ip.name}

LEMMA ListedProperties ==
  ASSUME NEW B \in Seq(IpType)
  PROVE  LET u == Selected(B, InJson)
         IN  u \in Seq(IpType) /\ Selects(u, B, Len(B), Listed)
  <1>. DEFINE Is(r) == r = [t \in SUBSET (1..Len(B)) |->
                              IF t = {} THEN <<>>
                              ELSE IF InJson(B[Max(t)])
                                   THEN Append(r[t \ {Max(t)}], B[Max(t)])
                                   ELSE r[t \ {Max(t)}]]
              g == CHOOSE r : Is(r)
  <1>1. DOMAIN B = 1..Len(B) /\ Len(B) \in Nat
    OBVIOUS
  <1>2. Selected(B, InJson) = g[1..Len(B)]
    BY <1>1 DEF Selected, FoldLeft, MapThenFoldSet
  <1>3. \A t \in SUBSET (1..Len(B)) : t # {} => (InJson(B[Max(t)]) <=> B[Max(t)] \in Listed)
    <2>1. ASSUME NEW t \in SUBSET (1..Len(B)), t # {}
          PROVE  B[Max(t)] \in IpType
      <3>1. Max(t) \in 1..Len(B)
        BY <1>1, <2>1, LastIndex
      <3>. QED  BY <3>1
    <2>. QED  BY <2>1 DEF Listed
  <1>4. \A r \in [SUBSET (1..Len(B)) -> Seq(IpType)] : Choosing(r, B, Listed) => Is(r)
    BY <1>3 DEF Choosing
  <1>5. Is(g)
    BY <1>4, ChoosingExists
  <1>6. Choosing(g, B, Listed)
    <2>. HIDE DEF g
    <2>. QED  BY <1>3, <1>5 DEF Choosing
  <1>. HIDE DEF g
  <1>. QED  BY <1>2, <1>6, SelectedProperties

LEMMA SharersInProperties ==
  ASSUME NEW B \in Seq(IpType), NEW ip
  PROVE  LET u == SharersIn(B, ip)
         IN  u \in Seq(IpType) /\ Selects(u, B, Len(B), Sharing(ip))
  <1>. DEFINE Is(r) == r = [t \in SUBSET (1..Len(B)) |->
                              IF t = {} THEN <<>>
                              ELSE IF B[Max(t)].sharing = ip.name
                                   THEN Append(r[t \ {Max(t)}], B[Max(t)])
                                   ELSE r[t \ {Max(t)}]]
              g == CHOOSE r : Is(r)
  <1>1. DOMAIN B = 1..Len(B) /\ Len(B) \in Nat
    OBVIOUS
  <1>2. SharersIn(B, ip) = g[1..Len(B)]
    BY <1>1 DEF SharersIn, Selected, FoldLeft, MapThenFoldSet
  <1>3. \A t \in SUBSET (1..Len(B)) :
          t # {} => (B[Max(t)].sharing = ip.name <=> B[Max(t)] \in Sharing(ip))
    <2>1. ASSUME NEW t \in SUBSET (1..Len(B)), t # {}
          PROVE  B[Max(t)] \in IpType
      <3>1. Max(t) \in 1..Len(B)
        BY <1>1, <2>1, LastIndex
      <3>. QED  BY <3>1
    <2>. QED  BY <2>1 DEF Sharing
  <1>4. \A r \in [SUBSET (1..Len(B)) -> Seq(IpType)] : Choosing(r, B, Sharing(ip)) => Is(r)
    BY <1>3 DEF Choosing
  <1>5. Is(g)
    BY <1>4, ChoosingExists
  <1>6. Choosing(g, B, Sharing(ip))
    <2>. HIDE DEF g
    <2>. QED  BY <1>3, <1>5 DEF Choosing
  <1>. HIDE DEF g
  <1>. QED  BY <1>2, <1>6, SelectedProperties

-----------------------------------------------------------------------------

LEMMA TheIPType ==
  ASSUME NEW a \in Addr
  PROVE  TheIP(a) \in IpType
  <1>. DEFINE n == IF a = Unregistered THEN NoHost ELSE a
              v == a \in V6
  <1>1. n \in Name /\ v \in BOOLEAN
    BY TrafficAssumption
  <1>2. TheIP(a) = [addr |-> a, name |-> n, sharing |-> NoName, code |-> NoCode,
                    mark |-> 0, pps_limit |-> 0, v6 |-> v, uplink |-> FALSE, traffic |-> 0,
                    direct |-> 0, upload |-> 0, traffic_down |-> 0, traffic_up |-> 0]
    BY DEF TheIP
  <1>. HIDE DEF n, v
  <1>. QED  BY <1>1, <1>2 DEF IpType

LEMMA KnownProperties ==
  ASSUME list \in Seq(IpType), NEW a
  PROVE  /\ Known(a) \in 0..Len(list)
         /\ Known(a) # 0 => list[Known(a)].addr = a
         /\ Known(a) = 0 => \A i \in 1..Len(list) : list[i].addr # a
  <1>. DEFINE I == {i \in 1..Len(list) : list[i].addr = a}
  <1>1. Known(a) = IF I # {} THEN Min(I) ELSE 0
    BY DEF Known, IfExists, SelectInSeq
  <1>2. CASE I = {}
    BY <1>1, <1>2
  <1>3. CASE I # {}
    <2>1. Min(I) \in I
      <3>1. I \in SUBSET (1..Len(list)) /\ Len(list) \in Nat
        OBVIOUS
      <3>. HIDE DEF I
      <3>. QED  BY <1>3, <3>1, FirstIndex
    <2>. QED  BY <1>1, <1>3, <2>1
  <1>. QED  BY <1>2, <1>3

LEMMA PushProperties ==
  ASSUME NEW u \in Seq(IpType), NEW e \in IpType
  PROVE  /\ Push(e, u) \in Seq(IpType) /\ Len(Push(e, u)) = Len(u) + 1
         /\ Push(e, u)[1] = e
         /\ \A i \in 1..Len(u) : Push(e, u)[i + 1] = u[i]
         /\ \A i \in 1..(Len(u) + 1) : i # 1 => i - 1 \in 1..Len(u) /\ Push(e, u)[i] = u[i - 1]
  <1>1. <<e>> \in Seq(IpType) /\ Len(<<e>>) = 1 /\ <<e>>[1] = e /\ Len(u) \in Nat
    OBVIOUS
  <1>2. /\ <<e>> \o u \in Seq(IpType) /\ Len(<<e>> \o u) = 1 + Len(u)
        /\ \A i \in 1..(1 + Len(u)) : (<<e>> \o u)[i] = IF i <= 1 THEN <<e>>[i] ELSE u[i - 1]
    BY <1>1, ConcatProperties
  <1>3. \A i \in 1..(Len(u) + 1) : i # 1 => i - 1 \in 1..Len(u) /\ ~(i <= 1)
    BY <1>1
  <1>4. \A i \in 1..Len(u) : i + 1 \in 1..(Len(u) + 1) /\ i + 1 # 1 /\ i + 1 - 1 = i
    BY <1>1
  <1>5. \A i \in 1..(Len(u) + 1) : i # 1 => Push(e, u)[i] = u[i - 1]
    BY <1>1, <1>2, <1>3 DEF Push
  <1>. QED  BY <1>1, <1>2, <1>3, <1>4, <1>5 DEF Push

LEMMA FoundOrNewProperties ==
  ASSUME list \in Seq(IpType), NEW a \in Addr
  PROVE  LET u == FoundOrNew(a)
             p == PlaceOf(a)
         IN  /\ u \in Seq(IpType) /\ p \in 1..Len(u)
             /\ u[p] \in IpType /\ u[p].addr = a
             /\ Known(a) = 0 => u = Push(TheIP(a), list) /\ p = 1 /\ u[p] = TheIP(a)
             /\ Known(a) # 0 => u = list /\ p = Known(a)
  <1>1. TheIP(a) \in IpType /\ TheIP(a).addr = a
    BY TheIPType DEF TheIP
  <1>2. /\ Known(a) \in 0..Len(list) /\ Len(list) \in Nat
        /\ Known(a) # 0 => list[Known(a)].addr = a
    BY KnownProperties
  <1>3. CASE Known(a) = 0
    <2>1. FoundOrNew(a) = Push(TheIP(a), list) /\ PlaceOf(a) = 1
      BY <1>3 DEF FoundOrNew, PlaceOf
    <2>2. /\ Push(TheIP(a), list) \in Seq(IpType) /\ Len(Push(TheIP(a), list)) = Len(list) + 1
          /\ Push(TheIP(a), list)[1] = TheIP(a)
      BY <1>1, PushProperties
    <2>3. 1 \in 1..(Len(list) + 1)
      BY <1>2
    <2>. QED  BY <1>1, <1>3, <2>1, <2>2, <2>3
  <1>4. CASE Known(a) # 0
    <2>1. FoundOrNew(a) = list /\ PlaceOf(a) = Known(a)
      BY <1>4 DEF FoundOrNew, PlaceOf
    <2>2. Known(a) \in 1..Len(list)
      BY <1>2, <1>4
    <2>3. list[Known(a)] \in IpType
      BY <2>2
    <2>. QED  BY <1>2, <1>4, <2>1, <2>2, <2>3
  <1>. QED  BY <1>3, <1>4

LEMMA EntryChanged ==
  ASSUME list \in Seq(IpType), NEW a \in Addr, NEW e \in IpType
  PROVE  LET v == [FoundOrNew(a) EXCEPT ![PlaceOf(a)] = e]
         IN  /\ v \in Seq(IpType) /\ Len(v) = Len(FoundOrNew(a))
             /\ \A i \in 1..Len(v) : v[i] = IF i = PlaceOf(a) THEN e ELSE FoundOrNew(a)[i]
  <1>1. FoundOrNew(a) \in Seq(IpType) /\ PlaceOf(a) \in 1..Len(FoundOrNew(a))
    BY FoundOrNewProperties
  <1>. QED  BY <1>1, ExceptSeq

LEMMA RoundedType ==
  ASSUME NEW b \in Nat
  PROVE  Rounded(b) \in Nat
  <1>1. \A x, y \in Nat : y > 0 => x \div y \in Nat
    OBVIOUS
  <1>2. MB \in Nat /\ MB > 0 /\ 2 \in Nat /\ 2 > 0
    BY Numbers
  <1>3. MB \div 2 \in Nat
    BY <1>1, <1>2
  <1>4. b + MB \div 2 \in Nat
    BY <1>3
  <1>. QED  BY <1>1, <1>2, <1>4 DEF Rounded

LEMMA DownloadedType ==
  ASSUME NEW e \in IpType, NEW t \in Nat
  PROVE  LET d == Downloaded(e, t)
         IN  /\ d \in IpType /\ d.addr = e.addr
             /\ d.traffic = e.traffic + t /\ d.direct = e.direct + t /\ d.upload = e.upload
  <1>. DEFINE x == e.traffic + t
              y == e.traffic_down + t
              z == e.direct + t
  <1>1. x \in Nat /\ y \in Nat /\ z \in Nat
    BY DEF IpType
  <1>2. Downloaded(e, t) = [e EXCEPT !.traffic = x, !.traffic_down = y, !.direct = z]
    BY DEF Downloaded
  <1>3. Downloaded(e, t) \in IpType
    <2>. HIDE DEF x, y, z
    <2>. QED  BY <1>1, <1>2 DEF IpType
  <1>. QED  BY <1>2, <1>3 DEF IpType

LEMMA UploadedType ==
  ASSUME NEW e \in IpType, NEW t \in Nat
  PROVE  LET u == Uploaded(e, t)
         IN  /\ u \in IpType /\ u.addr = e.addr
             /\ u.direct = e.direct /\ u.upload = e.upload + t
             /\ u.traffic = IF config.include_upload THEN e.traffic + t
                            ELSE Larger(e.upload + t, e.traffic)
  <1>. DEFINE x == IF config.include_upload THEN e.traffic + t
                   ELSE Larger(e.upload + t, e.traffic)
              y == e.traffic_up + t
              z == e.upload + t
  <1>1. x \in Nat /\ y \in Nat /\ z \in Nat
    BY DEF IpType, Larger
  <1>2. Uploaded(e, t) = [e EXCEPT !.upload = z, !.traffic_up = y, !.traffic = x]
    BY DEF Uploaded
  <1>3. Uploaded(e, t) \in IpType
    <2>. HIDE DEF x, y, z
    <2>. QED  BY <1>1, <1>2 DEF IpType
  <1>. QED  BY <1>2, <1>3 DEF IpType

LEMMA DescribedType ==
  ASSUME NEW e \in IpType, NEW l \in HostsLine
  PROVE  Described(e, l) \in IpType /\ Described(e, l).traffic = e.traffic
  <1>. DEFINE s == IF l.kind = "class" THEN e.sharing ELSE l.sharing
              c == IF l.code = NoCode THEN e.code ELSE l.code
              m == IF l.kind = "class" THEN l.mark ELSE e.mark
              p == IF l.kind = "class" THEN l.pps_limit ELSE e.pps_limit
  <1>1. /\ l.name \in Name /\ s \in Name \cup {NoName} /\ c \in Code \cup {NoCode}
        /\ m \in Nat /\ p \in Nat
    BY DEF IpType, HostsLine
  <1>2. Described(e, l) = [e EXCEPT !.name = l.name, !.sharing = s, !.code = c, !.mark = m,
                                    !.pps_limit = p]
    BY DEF Described
  <1>. HIDE DEF s, c, m, p
  <1>. QED  BY <1>1, <1>2 DEF IpType

LEMMA PartType ==
  ASSUME NEW e \in IpType, NEW a \in Addr, NEW l \in HostsLine
  PROVE  Part(e, a, l) \in IpType /\ Part(e, a, l).traffic = e.traffic
  <1>. DEFINE s == IF SharedBy(l) = NoName THEN e.sharing ELSE SharedBy(l)
              c == IF l.code = NoCode THEN e.code ELSE l.code
  <1>1. SharedBy(l) \in Name \cup {NoName}
    BY DEF SharedBy, HostsLine
  <1>2. a \in Name /\ s \in Name \cup {NoName} /\ c \in Code \cup {NoCode}
    BY <1>1, TrafficAssumption DEF IpType, HostsLine
  <1>3. Part(e, a, l) = [e EXCEPT !.name = a, !.sharing = s, !.code = c]
    BY DEF Part
  <1>. HIDE DEF s, c
  <1>. QED  BY <1>2, <1>3 DEF IpType

(* The IPs without traffic: what a line of the hosts file makes of them,   *)
(* and of any IP, stays one.                                               *)
Bare == {e \in IpType : e.traffic = 0}

LEMMA DescribedIn ==
  ASSUME NEW T \in {IpType, Bare}, NEW l \in HostsLine, NEW a \in Addr
  PROVE  /\ TheIP(a) \in T /\ Uplink(a, l) \in T
         /\ \A e \in T : Described(e, l) \in T /\ Part(e, a, l) \in T
  <1>1. TheIP(a) \in IpType /\ TheIP(a).traffic = 0
    BY TheIPType DEF TheIP
  <1>2. TheIP(a) \in T
    BY <1>1 DEF Bare
  <1>3. ASSUME NEW e \in T
        PROVE  Described(e, l) \in T /\ Part(e, a, l) \in T
    <2>1. e \in IpType /\ (T = Bare => e.traffic = 0)
      BY DEF Bare
    <2>2. /\ Described(e, l) \in IpType /\ Described(e, l).traffic = e.traffic
          /\ Part(e, a, l) \in IpType /\ Part(e, a, l).traffic = e.traffic
      BY <2>1, DescribedType, PartType
    <2>. QED  BY <2>1, <2>2 DEF Bare
  <1>4. Uplink(a, l) \in T
    <2>. DEFINE p == Part(TheIP(a), a, l)
                u == [p EXCEPT !.uplink = TRUE]
    <2>1. Uplink(a, l) = u
      BY DEF Uplink
    <2>2. p \in IpType /\ p.traffic = 0
      BY <1>1, PartType
    <2>. HIDE DEF p
    <2>3. u \in IpType /\ u.traffic = 0
      BY <2>2 DEF IpType
    <2>. HIDE DEF u
    <2>. QED  BY <2>1, <2>3 DEF Bare
  <1>. QED  BY <1>2, <1>3, <1>4

LEMMA PushedIn ==
  ASSUME NEW T, NEW u \in Seq(T), NEW e \in T
  PROVE  Push(e, u) \in Seq(T)
  <1>1. <<e>> \in Seq(T)
    OBVIOUS
  <1>2. <<e>> \o u \in Seq(T)
    BY <1>1, ConcatProperties
  <1>. QED  BY <1>2 DEF Push

LEMMA ChangedIn ==
  ASSUME NEW T, NEW u \in Seq(T), NEW k, NEW d, k \in 1..Len(u) => d \in T
  PROVE  [u EXCEPT ![k] = d] \in Seq(T)
  <1>1. CASE k \in 1..Len(u)
    BY <1>1, ExceptSeq
  <1>2. CASE k \notin 1..Len(u)
    <2>1. u = [i \in 1..Len(u) |-> u[i]] /\ DOMAIN u = 1..Len(u)
      OBVIOUS
    <2>2. [u EXCEPT ![k] = d] = u
      BY <1>2, <2>1
    <2>. QED  BY <2>2
  <1>. QED  BY <1>1, <1>2

LEMMA LineType ==
  ASSUME listing \in Listings, at \in Nat \ {0}, at <= Len(listing)
  PROVE  Line.kind = "rule" => Line.bytes \in Nat /\ Line.src \in Addr /\ Line.dst \in Addr
  <1>1. listing \in Seq(ListingLine)
    BY TrafficAssumption
  <1>2. Line \in ListingLine
    BY <1>1 DEF Line
  <1>. QED  BY <1>2 DEF ListingLine

LEMMA HostsLineType ==
  ASSUME hosts \in HostsFiles \cup {<<>>}, at \in Nat \ {0}, at <= Len(hosts)
  PROVE  hosts[at] \in HostsLine /\ hosts[at].addr \in Addr
  <1>1. hosts \in Seq(HostsLine)
    BY TrafficAssumption
  <1>2. hosts[at] \in HostsLine
    BY <1>1
  <1>. QED  BY <1>2 DEF HostsLine

LEMMA LoggedType ==
  ASSUME sorted \in Seq(IpType), NEW ip \in IpType
  PROVE  Logged(ip) \in Seq(LogType)
  <1>. DEFINE who == <<ip>> \o SharersIn(sorted, ip)
  <1>1. SharersIn(sorted, ip) \in Seq(IpType)
    BY SharersInProperties
  <1>2. <<ip>> \in Seq(IpType)
    OBVIOUS
  <1>3. who \in Seq(IpType)
    BY <1>1, <1>2, ConcatProperties
  <1>4. Logged(ip) = [i \in 1..Len(who) |-> Record(who[i])]
    BY DEF Logged
  <1>. HIDE DEF who
  <1>5. \A i \in 1..Len(who) : Record(who[i]) \in LogType
    <2>. TAKE i \in 1..Len(who)
    <2>1. who[i] \in IpType
      BY <1>3
    <2>. QED  BY <2>1 DEF Record, LogType, IpType
  <1>6. Len(who) \in Nat
    BY <1>3
  <1>7. [i \in 1..Len(who) |-> Record(who[i])] \in Seq(LogType)
    BY <1>5, <1>6, IsASeq
  <1>. QED  BY <1>4, <1>7

-----------------------------------------------------------------------------

(* Nothing is resolved before parse_hosts is done.                         *)
Before == phase \in {"count", "hosts"} => pos = 0 /\ unresolved = {}

IInv == Typed /\ Before /\ Pass /\ TrafficConserved

LEMMA InitInvariant == Init => IInv
  <1>. SUFFICES ASSUME Init
                PROVE  IInv
    OBVIOUS
  <1>1. <<>> \in Seq(IpType) /\ <<>> \in Seq(LogType) /\ <<>> \in Seq([l : Nat, i : Nat])
    OBVIOUS
  <1>2. page \in PageType
    BY <1>1 DEF Init, PageType
  <1>a. /\ config \in Config /\ listing \in Listings /\ hosts = <<>> /\ phase = "count"
        /\ at = 1 /\ pos = 0 /\ downloadflag = FALSE /\ detected = FALSE
        /\ given = <<>> /\ list = <<>> /\ sorted = <<>> /\ json = <<>> /\ logs = <<>>
    BY DEF Init
  <1>3. Typed
    <2>1. given \in Seq(IpType) /\ list \in Seq(IpType) /\ sorted \in Seq(IpType)
          /\ json \in Seq(IpType) /\ logs \in Seq(LogType)
      BY <1>1, <1>a
    <2>2. at \in Nat \ {0} /\ pos \in Nat
      BY <1>a
    <2>4. downloadflag \in BOOLEAN /\ detected \in BOOLEAN
      BY <1>a
    <2>3. /\ hosts \in HostsFiles \cup {<<>>} /\ phase # "share"
          /\ phase \in {"count", "hosts", "share", "json", "page", "done", "dead"}
      BY <1>a
    <2>. QED  BY <1>2, <1>a, <2>1, <2>2, <2>3, <2>4 DEF Typed
  <1>4. Before /\ Pass /\ TrafficConserved
    BY DEF Init, Before, Pass, TrafficConserved
  <1>. QED  BY <1>3, <1>4 DEF IInv

(* While the list is what the pass left it, its invariants stay.           *)
LEMMA PassStays ==
  ASSUME Pass, TrafficConserved, UNCHANGED sharing_vars
  PROVE  Pass' /\ TrafficConserved'
  <1>1. /\ given' = given /\ list' = list /\ pos' = pos
        /\ prefixes' = prefixes /\ unresolved' = unresolved
    BY DEF sharing_vars
  <1>2. ASSUME NEW i
        PROVE  /\ Same(list[i], given[i])' <=> Same(list[i], given[i])
               /\ Shares(i)' <=> Shares(i)
               /\ HandedOver(i)' <=> HandedOver(i)
               /\ Received(i)' <=> Received(i)
    <2>1. Same(list[i], given[i])' <=> Same(list[i], given[i])
      BY <1>1
    <2>2. Shares(i)' <=> Shares(i)
      BY <1>1 DEF Shares
    <2>3. HandedOver(i)' <=> HandedOver(i)
      BY <1>1 DEF HandedOver
    <2>4. SharersUpto(i, pos)' = SharersUpto(i, pos)
      BY <1>1 DEF SharersUpto
    <2>5. /\ TrafficsIn(given)' = TrafficsIn(given) /\ DirectsIn(given)' = DirectsIn(given)
          /\ UploadsIn(given)' = UploadsIn(given)
      BY <1>1
    <2>6. Received(i)' <=> Received(i)
      BY <1>1, <2>4, <2>5 DEF Received
    <2>. QED  BY <2>1, <2>2, <2>3, <2>6
  <1>3. (Direct(given)' <=> Direct(given)) /\ (Halfway' <=> Halfway)
    BY <1>1, <1>2 DEF Halfway
  <1>4. Pass'
    BY <1>1, <1>2, <1>3 DEF Pass
  <1>5. TrafficConserved'
    BY <1>1 DEF TrafficConserved
  <1>. QED  BY <1>4, <1>5

(* Before the pass there is nothing to keep.                               *)
LEMMA PassLater ==
  ASSUME Typed, pos = 0, UNCHANGED <<pos, unresolved>>
  PROVE  Pass' /\ TrafficConserved'
  BY DEF Pass, TrafficConserved

LEMMA CountStep ==
  ASSUME IInv, Count
  PROVE  IInv'
  <1>1. /\ Typed /\ Before /\ phase = "count" /\ at <= Len(listing)
        /\ at' = at + 1 /\ pos = 0 /\ unresolved = {}
        /\ UNCHANGED <<config, listing, hosts, phase, sorted, logs, page, json, given, pos,
                       unresolved>>
    BY DEF IInv, Count, Before, read_vars, book_vars
  <1>2. /\ list \in Seq(IpType) /\ listing \in Listings /\ at \in Nat \ {0}
        /\ downloadflag \in BOOLEAN /\ detected \in BOOLEAN
    BY <1>1 DEF Typed
  <1>3. downloadflag' \in BOOLEAN /\ detected' \in BOOLEAN /\ list' \in Seq(IpType)
    <2>1. CASE Start
      BY <1>2, <2>1 DEF Start
    <2>2. CASE Chain
      <3>1. FlagAfter(Line.chain) \in BOOLEAN
        BY <1>2, Zenon DEF FlagAfter
      <3>. QED  BY <1>2, <2>2, <3>1 DEF Chain
    <2>3. CASE Rule
      <3>. DEFINE t == Rounded(Line.bytes)
                  a == IF downloadflag THEN Line.dst ELSE Line.src
                  e == FoundOrNew(a)[PlaceOf(a)]
                  d == IF downloadflag THEN Downloaded(e, t) ELSE Uploaded(e, t)
      <3>1. Line.bytes \in Nat /\ a \in Addr
        BY <1>1, <1>2, <2>3, LineType DEF Rule
      <3>2. t \in Nat
        BY <3>1, RoundedType
      <3>3. e \in IpType
        BY <1>2, <3>1, FoundOrNewProperties
      <3>4. Downloaded(e, t) \in IpType /\ Uploaded(e, t) \in IpType
        BY <3>2, <3>3, DownloadedType, UploadedType
      <3>5. d \in IpType
        BY <3>4
      <3>6. CASE Accepted(Line)
        <4>1. list' = [FoundOrNew(a) EXCEPT ![PlaceOf(a)] = d] /\ detected' = TRUE
              /\ downloadflag' = downloadflag
          BY <2>3, <3>6 DEF Rule
        <4>. HIDE DEF d, a
        <4>2. [FoundOrNew(a) EXCEPT ![PlaceOf(a)] = d] \in Seq(IpType)
          BY <1>2, <3>1, <3>5, EntryChanged
        <4>. QED  BY <1>2, <4>1, <4>2
      <3>7. CASE ~Accepted(Line)
        BY <1>2, <2>3, <3>7 DEF Rule
      <3>. QED  BY <3>6, <3>7
    <2>. QED  BY <2>1, <2>2, <2>3 DEF Count
  <1>4. Typed'
    BY <1>1, <1>2, <1>3 DEF Typed
  <1>5. Before'
    BY <1>1 DEF Before
  <1>. QED  BY <1>1, <1>4, <1>5, PassLater DEF IInv

LEMMA CountedStep ==
  ASSUME IInv, Counted
  PROVE  IInv'
  <1>1. /\ Typed /\ phase = "count" /\ phase' = "hosts" /\ at' = 1 /\ hosts' \in HostsFiles
        /\ pos = 0 /\ unresolved = {}
        /\ UNCHANGED <<config, listing, downloadflag, detected, sorted, logs, page, json,
                       given, list, pos, unresolved>>
    BY DEF IInv, Counted, Before, book_vars, sharing_vars
  <1>2. Typed'
    BY <1>1 DEF Typed
  <1>3. Before'
    BY <1>1 DEF Before
  <1>. QED  BY <1>1, <1>2, <1>3, PassLater DEF IInv

(* A line of the hosts file keeps the list one of IPs, or of IPs without   *)
(* traffic.                                                                *)
LEMMA DescribeKeeps ==
  ASSUME Typed, Describe, NEW T \in {IpType, Bare}, list \in Seq(T)
  PROVE  list' \in Seq(T)
  <1>. DEFINE l == hosts[at]
              W == WithRange(l)
              P == WithParts(l)
              A == WithAddr(l)
  <1>1. /\ list \in Seq(IpType) /\ hosts \in HostsFiles \cup {<<>>} /\ at \in Nat \ {0}
        /\ at <= Len(hosts)
    BY DEF Typed, Describe
  <1>2. l \in HostsLine /\ l.addr \in Addr
    BY <1>1, HostsLineType
  <1>3. list' = IF l.kind = "network" \/ Stray THEN P ELSE A
    BY DEF Describe
  <1>. HIDE DEF l
  <1>4. l.range \in Addr \cup {NoAddr} /\ l.uplink \in Addr \cup {NoAddr}
    BY <1>2 DEF HostsLine
  <1>5. W \in Seq(T)
    <2>1. CASE l.range = NoAddr
      BY <2>1 DEF WithRange
    <2>2. CASE l.range # NoAddr
      <3>. DEFINE a == l.range
                  u == FoundOrNew(a)
                  k == PlaceOf(a)
      <3>1. a \in Addr
        BY <1>4, <2>2
      <3>. HIDE DEF a
      <3>2. TheIP(a) \in T
        BY <1>2, <3>1, DescribedIn
      <3>3. u \in Seq(T)
        BY <3>2, PushedIn DEF FoundOrNew
      <3>4. W = [u EXCEPT ![k] = Part(u[k], a, l)]
        BY <2>2 DEF WithRange, a
      <3>. HIDE DEF u, k
      <3>5. k \in 1..Len(u) => Part(u[k], a, l) \in T
        BY <1>2, <3>1, <3>3, DescribedIn
      <3>. QED  BY <3>3, <3>4, <3>5, ChangedIn
    <2>. QED  BY <2>1, <2>2
  <1>. HIDE DEF W
  <1>6. P \in Seq(T)
    <2>1. CASE l.uplink = NoAddr
      BY <1>5, <2>1 DEF WithParts, W
    <2>2. CASE l.uplink # NoAddr
      <3>. DEFINE a == l.uplink
                  e == Uplink(a, l)
      <3>1. a \in Addr
        BY <1>4, <2>2
      <3>2. P = Push(e, W)
        BY <2>2 DEF WithParts, W
      <3>. HIDE DEF a
      <3>4. e \in T
        BY <1>2, <3>1, DescribedIn
      <3>. HIDE DEF e
      <3>. QED  BY <1>5, <3>2, <3>4, PushedIn
    <2>. QED  BY <2>1, <2>2
  <1>. HIDE DEF P
  <1>7. A \in Seq(T)
    <2>. DEFINE a == l.addr
                n == Described(TheIP(a), l)
                k == Known(a) + (Len(P) - Len(list))
                d == Described(P[k], l)
    <2>1. A = IF Known(a) = 0 THEN Push(n, P) ELSE [P EXCEPT ![k] = d]
      BY DEF WithAddr, P
    <2>2. TheIP(a) \in T
      BY <1>2, DescribedIn
    <2>3. n \in T
      BY <1>2, <2>2, DescribedIn
    <2>. HIDE DEF a, n, k
    <2>4. k \in 1..Len(P) => P[k] \in T
      BY <1>6
    <2>5. k \in 1..Len(P) => d \in T
      BY <1>2, <2>4, DescribedIn
    <2>. HIDE DEF d
    <2>6. Push(n, P) \in Seq(T)
      BY <1>6, <2>3, PushedIn
    <2>7. [P EXCEPT ![k] = d] \in Seq(T)
      BY <1>6, <2>5, ChangedIn
    <2>. QED  BY <2>1, <2>6, <2>7
  <1>. HIDE DEF A
  <1>. QED  BY <1>3, <1>6, <1>7

LEMMA DescribeStep ==
  ASSUME IInv, Describe
  PROVE  IInv'
  <1>1. /\ Typed /\ phase = "hosts" /\ at <= Len(hosts) /\ at' = at + 1
        /\ pos = 0 /\ unresolved = {}
        /\ UNCHANGED <<config, listing, hosts, phase, downloadflag, detected, sorted, logs,
                       page, json, given, pos, unresolved>>
    BY DEF IInv, Describe, Before, read_vars, book_vars
  <1>2. list \in Seq(IpType)
    BY <1>1 DEF Typed
  <1>3. list' \in Seq(IpType)
    BY <1>1, <1>2, DescribeKeeps
  <1>4. Typed'
    BY <1>1, <1>3 DEF Typed
  <1>5. Before'
    BY <1>1 DEF Before
  <1>. QED  BY <1>1, <1>4, <1>5, PassLater DEF IInv

LEMMA AllDescribedStep ==
  ASSUME IInv, AllDescribed
  PROVE  IInv'
  <1>1. /\ Typed /\ phase = "hosts" /\ phase' = "share" /\ pos' = 1 /\ given' = list
        /\ unresolved = {} /\ StartSharing
        /\ UNCHANGED <<config, listing, hosts, at, downloadflag, detected, sorted, logs,
                       page, json, list, unresolved>>
    BY DEF IInv, AllDescribed, StartSharing, Before, read_vars, book_vars
  <1>2. Typed'
    BY <1>1 DEF Typed
  <1>3. Before'
    BY <1>1 DEF Before
  <1>4. list \in Seq(IpType)
    BY <1>1 DEF Typed
  <1>5. Pass'
    BY <1>1, <1>4, StartPass
  <1>6. TrafficConserved'
    BY <1>1 DEF TrafficConserved
  <1>. QED  BY <1>2, <1>3, <1>5, <1>6 DEF IInv

(* Credited by what another is debited, the list has the same sum.         *)
LEMMA ResolveConserves ==
  ASSUME list \in Seq(IpType), given \in Seq(IpType), pos \in Nat, pos # 0, Pass, Resolve,
         TrafficConserved
  PROVE  TrafficConserved'
  <1>. DEFINE s == SharedIp(list[pos])
              c == Credited(list[s], list[pos])
              t == list[pos].traffic
              dom == 1..Len(list)
              f == TrafficsIn(list)
              g == [i \in dom |-> list'[i].traffic]
  <1>. SUFFICES ASSUME \A i \in 1..Len(given) : FirstOf(given, given[i].sharing) # i
                PROVE  SumFunction([i \in 1..Len(list') |-> list'[i].traffic])
                         = SumFunction([i \in 1..Len(given) |-> given[i].traffic])
    <2>1. given' = given
      BY DEF Resolve
    <2>. QED  BY <2>1 DEF TrafficConserved
  <1>1. /\ pos \in 1..Len(list) /\ s \in 1..Len(list)
        /\ list' \in Seq(IpType) /\ Len(list') = Len(list)
        /\ s # pos => /\ list'[s] = c /\ list'[pos] = Debited(list[pos], c)
                      /\ \A i \in 1..Len(list) : i \notin {s, pos} => list'[i] = list[i]
    BY ResolveProperties
  <1>2. s # pos
    <2>1. pos \in 1..Len(given)
      BY <1>1 DEF Pass
    <2>2. s = FirstOf(given, given[pos].sharing)
      BY <2>1, SharedAsGiven DEF Pass
    <2>. QED  BY <2>1, <2>2
  <1>3. list[s] \in IpType /\ list[pos] \in IpType
    BY <1>1
  <1>4. list[s].traffic \in Nat /\ t \in Nat
    BY <1>3 DEF IpType
  <1>5. c \in IpType /\ c.traffic = list[s].traffic + t
    BY <1>3, CreditedProperties
  <1>. HIDE DEF s, c
  <1>6. /\ list'[s].traffic = list[s].traffic + t /\ list'[pos].traffic = 0
        /\ \A i \in dom : i \notin {s, pos} => list'[i].traffic = list[i].traffic
    BY <1>1, <1>2, <1>3, <1>5, DebitedProperties
  <1>7. IsFiniteSet(dom)
    BY CountUpTo
  <1>8. \A i \in dom : f[i] = list[i].traffic /\ f[i] \in Nat
    <2>1. \A i \in dom : list[i] \in IpType
      OBVIOUS
    <2>. QED  BY <2>1 DEF IpType, TrafficsIn
  <1>9. \A i \in dom : g[i] \in Nat
    <2>1. \A i \in dom : list'[i] \in IpType
      BY <1>1
    <2>. QED  BY <2>1 DEF IpType
  <1>10. s \in dom /\ pos \in dom
    BY <1>1
  <1>11. Moved(f, g, dom, s, pos)
    BY <1>2, <1>6, <1>8, <1>9, <1>10 DEF Moved
  <1>12. SumFunctionOnSet(g, dom) = SumFunctionOnSet(f, dom)
    <2>. HIDE DEF f, g, dom
    <2>. QED  BY <1>7, <1>11, SumMoved
  <1>. HIDE DEF f, g, dom
  <1>13. SumFunction([i \in 1..Len(list') |-> list'[i].traffic]) = SumFunctionOnSet(g, dom)
    BY <1>1 DEF SumFunction, SumFunctionOnSet, FoldFunction, g, dom
  <1>14. SumFunction([i \in 1..Len(list) |-> list[i].traffic]) = SumFunctionOnSet(f, dom)
    BY DEF SumFunction, SumFunctionOnSet, FoldFunction, f, dom, TrafficsIn
  <1>15. SumFunction([i \in 1..Len(list) |-> list[i].traffic])
           = SumFunction([i \in 1..Len(given) |-> given[i].traffic])
    <2>1. pos > 0
      BY <1>1
    <2>. QED  BY <2>1 DEF TrafficConserved
  <1>. QED  BY <1>12, <1>13, <1>14, <1>15

LEMMA ResolvingStep ==
  ASSUME IInv, Resolving
  PROVE  IInv'
  <1>1. /\ Typed /\ Pass /\ TrafficConserved /\ phase = "share" /\ Share
        /\ UNCHANGED <<config, listing, hosts, phase, at, downloadflag, detected, sorted, logs,
                       page, json>>
    BY DEF IInv, Resolving, read_vars, book_vars
  <1>2. list \in Seq(IpType) /\ given \in Seq(IpType) /\ pos \in Nat /\ pos # 0
    BY <1>1 DEF Typed
  <1>3. Pass' /\ list' \in Seq(IpType) /\ given' = given /\ pos' = pos + 1
    BY <1>1, <1>2, SharePass
  <1>4. Typed'
    BY <1>1, <1>2, <1>3 DEF Typed
  <1>5. Before'
    BY <1>1 DEF Before
  <1>6. TrafficConserved'
    <2>1. CASE Resolve
      BY <1>1, <1>2, <2>1, ResolveConserves
    <2>2. CASE Own \/ Unresolved
      <3>1. list' = list /\ given' = given
        BY <2>2 DEF Own, Unresolved
      <3>2. pos > 0
        BY <1>2
      <3>. QED  BY <1>1, <3>1, <3>2 DEF TrafficConserved
    <2>. QED  BY <1>1, <2>1, <2>2 DEF Share
  <1>. QED  BY <1>3, <1>4, <1>5, <1>6 DEF IInv

LEMMA SortingStep ==
  ASSUME IInv, Sorting
  PROVE  IInv'
  <1>1. /\ Typed /\ Pass /\ TrafficConserved /\ phase' = "json"
        /\ sorted' = Sort(list, LessTraffic)
        /\ UNCHANGED <<config, listing, hosts, at, downloadflag, detected, logs, page, json>>
        /\ UNCHANGED sharing_vars
    BY DEF IInv, Sorting, read_vars
  <1>2. UNCHANGED <<given, list, pos>> /\ list \in Seq(IpType)
    BY <1>1 DEF sharing_vars, Typed
  <1>3. sorted' \in Seq(IpType)
    BY <1>1, <1>2, SortedProperties
  <1>4. Typed'
    BY <1>1, <1>2, <1>3 DEF Typed
  <1>5. Before'
    BY <1>1 DEF Before
  <1>. QED  BY <1>1, <1>4, <1>5, PassStays DEF IInv

LEMMA SortNothingStep ==
  ASSUME IInv, SortNothing
  PROVE  IInv'
  <1>1. /\ Typed /\ Pass /\ TrafficConserved /\ phase' = "dead"
        /\ UNCHANGED <<config, listing, hosts, at, downloadflag, detected, sorted, logs, page,
                       json>>
        /\ UNCHANGED sharing_vars
    BY DEF IInv, SortNothing, read_vars, book_vars
  <1>2. UNCHANGED <<given, list, pos>>
    BY <1>1 DEF sharing_vars
  <1>3. Typed'
    BY <1>1, <1>2 DEF Typed
  <1>4. Before'
    BY <1>1 DEF Before
  <1>. QED  BY <1>1, <1>3, <1>4, PassStays DEF IInv

LEMMA WriteJsonStep ==
  ASSUME IInv, WriteJson
  PROVE  IInv'
  <1>1. /\ Typed /\ Pass /\ TrafficConserved /\ phase' = "page" /\ at' = 1
        /\ json' = Selected(sorted, InJson)
        /\ UNCHANGED <<config, listing, hosts, downloadflag, detected, sorted, logs, page>>
        /\ UNCHANGED sharing_vars
    BY DEF IInv, WriteJson, read_vars
  <1>2. UNCHANGED <<given, list, pos>> /\ sorted \in Seq(IpType)
    BY <1>1 DEF sharing_vars, Typed
  <1>3. json' \in Seq(IpType)
    BY <1>1, <1>2, ListedProperties
  <1>4. Typed'
    BY <1>1, <1>2, <1>3 DEF Typed
  <1>5. Before'
    BY <1>1 DEF Before
  <1>. QED  BY <1>1, <1>4, <1>5, PassStays DEF IInv

(* A row adds to the sums of the page what its IP has.                     *)
LEMMA RowPage ==
  ASSUME page \in PageType, sorted \in Seq(IpType), at \in Nat \ {0}, Row
  PROVE  page' \in PageType
  <1>. DEFINE ip == sorted[at]
              one == IF ip.traffic > 0 THEN 1 ELSE 0
              row == [l |-> page.total_traffic + ip.traffic - 1, i |-> page.active_classes + 1]
              sums == IF ip.traffic = 0 THEN page.sums ELSE Append(page.sums, row)
  <1>1. at <= Len(sorted)
    BY DEF Row
  <1>2. ip \in IpType
    BY <1>1
  <1>3. ip.traffic \in Nat /\ ip.direct \in Nat /\ ip.upload \in Nat
    BY <1>2 DEF IpType
  <1>4. /\ page.total_traffic \in Nat /\ page.total_direct \in Nat
        /\ page.total_upload \in Nat /\ page.active_classes \in Nat
        /\ page.sums \in Seq([l : Nat, i : Nat])
    BY DEF PageType
  <1>5. CASE ~HasRow(ip)
    BY <1>5 DEF Row
  <1>6. CASE HasRow(ip)
    <2>1. HasRow(ip) => page' = [total_traffic |-> page.total_traffic + ip.traffic,
                                 total_direct |-> page.total_direct + ip.direct,
                                 total_upload |-> page.total_upload + ip.upload,
                                 active_classes |-> page.active_classes + one,
                                 sums |-> sums]
      BY Zenon DEF Row
    <2>2. page.active_classes + one \in Nat
      BY <1>4
    <2>3. ip.traffic # 0 => row \in [l : Nat, i : Nat]
      <3>. SUFFICES ASSUME ip.traffic # 0
                    PROVE  row \in [l : Nat, i : Nat]
        OBVIOUS
      <3>1. page.total_traffic + ip.traffic - 1 \in Nat /\ page.active_classes + 1 \in Nat
        BY <1>3, <1>4
      <3>. QED  BY <3>1
    <2>. HIDE DEF row, one, ip
    <2>4. sums \in Seq([l : Nat, i : Nat])
      <3>1. CASE ip.traffic = 0
        BY <1>4, <3>1
      <3>2. CASE ip.traffic # 0
        BY <1>4, <2>3, <3>2, AppendProperties
      <3>. QED  BY <3>1, <3>2
    <2>. HIDE DEF sums
    <2>5. page.total_traffic + ip.traffic \in Nat
      BY <1>3, <1>4
    <2>6. page.total_direct + ip.direct \in Nat
      BY <1>3, <1>4
    <2>7. page.total_upload + ip.upload \in Nat
      BY <1>3, <1>4
    <2>. QED  BY <1>6, <2>1, <2>2, <2>4, <2>5, <2>6, <2>7 DEF PageType
  <1>. QED  BY <1>5, <1>6

LEMMA RowStep ==
  ASSUME IInv, Row
  PROVE  IInv'
  <1>1. /\ Typed /\ Pass /\ TrafficConserved /\ phase = "page" /\ at <= Len(sorted)
        /\ at' = at + 1
        /\ logs' \in {logs, logs \o Logged(sorted[at])}
        /\ UNCHANGED <<config, listing, hosts, phase, downloadflag, detected, sorted, json>>
        /\ UNCHANGED sharing_vars
    BY DEF IInv, Row, read_vars
  <1>2. /\ UNCHANGED <<given, list, pos>> /\ sorted \in Seq(IpType) /\ at \in Nat \ {0}
        /\ page \in PageType /\ logs \in Seq(LogType)
    BY <1>1 DEF sharing_vars, Typed
  <1>3. page' \in PageType
    BY <1>2, RowPage
  <1>4. logs' \in Seq(LogType)
    <2>1. sorted[at] \in IpType
      BY <1>1, <1>2
    <2>2. Logged(sorted[at]) \in Seq(LogType)
      BY <1>2, <2>1, LoggedType
    <2>3. logs \o Logged(sorted[at]) \in Seq(LogType)
      BY <1>2, <2>2, ConcatProperties
    <2>. QED  BY <1>1, <1>2, <2>3
  <1>5. Typed'
    BY <1>1, <1>2, <1>3, <1>4 DEF Typed
  <1>6. Before'
    BY <1>1 DEF Before
  <1>. QED  BY <1>1, <1>5, <1>6, PassStays DEF IInv

LEMMA PageDoneStep ==
  ASSUME IInv, PageDone
  PROVE  IInv'
  <1>1. /\ Typed /\ Pass /\ TrafficConserved /\ phase' = "done"
        /\ UNCHANGED <<config, listing, hosts, at, downloadflag, detected, sorted, logs, page,
                       json>>
        /\ UNCHANGED sharing_vars
    BY DEF IInv, PageDone, read_vars
  <1>2. UNCHANGED <<given, list, pos>>
    BY <1>1 DEF sharing_vars
  <1>3. Typed'
    BY <1>1, <1>2 DEF Typed
  <1>4. Before'
    BY <1>1 DEF Before
  <1>. QED  BY <1>1, <1>3, <1>4, PassStays DEF IInv

LEMMA StutterStep ==
  ASSUME IInv, UNCHANGED vars
  PROVE  IInv'
  <1>1. /\ Typed /\ Before /\ Pass /\ TrafficConserved
        /\ UNCHANGED <<config, listing, hosts, phase, at, downloadflag, detected, sorted, logs,
                       page, json>>
        /\ UNCHANGED sharing_vars
    BY DEF IInv, vars
  <1>2. UNCHANGED <<given, list, pos, unresolved>>
    BY <1>1 DEF sharing_vars
  <1>3. Typed'
    BY <1>1, <1>2 DEF Typed
  <1>4. Before'
    BY <1>1, <1>2 DEF Before
  <1>. QED  BY <1>1, <1>3, <1>4, PassStays DEF IInv

LEMMA NextInvariant == IInv /\ [Next]_vars => IInv'
  <1>. SUFFICES ASSUME IInv, [Next]_vars
                PROVE  IInv'
    OBVIOUS
  <1>. QED  BY CountStep, CountedStep, DescribeStep, AllDescribedStep, ResolvingStep,
               SortingStep, SortNothingStep, WriteJsonStep, RowStep, PageDoneStep,
               StutterStep DEF Next

LEMMA Invariant == Spec => []IInv
  BY InitInvariant, NextInvariant, PTL DEF Spec

-----------------------------------------------------------------------------

(* No sum on the way is negative, and every record keeps its type.         *)
THEOREM TypeCorrect == Spec => []TypeOK
  <1>1. IInv => TypeOK
    <2>. SUFFICES ASSUME Typed
                  PROVE  TypeOK
      BY DEF IInv
    <2>1. \A l \in {given, list, sorted, json} : \A i \in 1..Len(l) : l[i] \in IpType
      BY DEF Typed
    <2>2. \A i \in 1..Len(logs) : logs[i] \in LogType
      BY DEF Typed
    <2>. QED  BY <2>1, <2>2 DEF Typed, TypeOK, LogType, PageType
  <1>. QED  BY <1>1, Invariant, PTL

(* The pass over shared connections leaves every IP with what its equation *)
(* says, for every list of IPs in any order.                               *)
THEOREM SharesResolved == Spec => []Resolved
  <1>1. IInv => Resolved
    <2>. SUFFICES ASSUME Typed, Pass, Ended, Direct(given), NEW i \in 1..Len(list)
                  PROVE  LET s == FirstOf(given, given[i].sharing) IN
                         IF given[i].sharing # NoName /\ s # 0
                         THEN /\ list[i].traffic = 0
                              /\ list[i].mark = given[s].mark /\ list[i].code = given[s].code
                              /\ list[i].pps_limit = given[s].pps_limit
                              /\ Prefixed(given[i], given[s]) => <<i, s>> \in prefixes
                         ELSE /\ given[i].sharing # NoName <=> i \in unresolved
                              /\ list[i].traffic = given[i].traffic
                                   + SumFunctionOnSet(TrafficsIn(given), SharersOf(given, i))
                              /\ list[i].traffic_down = given[i].traffic_down
                                   + SumFunctionOnSet(DirectsIn(given), SharersOf(given, i))
                              /\ list[i].traffic_up = given[i].traffic_up
                                   + SumFunctionOnSet(UploadsIn(given), SharersOf(given, i))
      BY DEF IInv, Resolved, TrafficsIn, DirectsIn, UploadsIn
    <2>1. /\ list \in Seq(IpType) /\ Len(list) \in Nat /\ pos = Len(list) + 1
          /\ Len(given) = Len(list) /\ i < pos /\ i \in 1..Len(given)
      BY DEF Typed, Ended
    <2>2. /\ i \in unresolved <=> i < pos /\ given[i].sharing # NoName /\ ~Shares(i)
          /\ IF Shares(i) THEN HandedOver(i) ELSE Received(i)
      BY <2>1 DEF Pass, Halfway
    <2>3. SharersUpto(i, pos) = SharersOf(given, i)
      BY <2>1 DEF SharersUpto, SharersOf
    <2>4. CASE Shares(i)
      BY <2>1, <2>2, <2>4 DEF Shares, HandedOver
    <2>5. CASE ~Shares(i)
      BY <2>1, <2>2, <2>3, <2>5 DEF Shares, Received
    <2>. QED  BY <2>4, <2>5
  <1>. QED  BY <1>1, Invariant, PTL

(* No step of the pass loses or invents traffic, chains of IPs that share  *)
(* included.                                                               *)
THEOREM TrafficIsConserved == Spec => []TrafficConserved
  <1>1. IInv => TrafficConserved
    BY DEF IInv
  <1>. QED  BY <1>1, Invariant, PTL

-----------------------------------------------------------------------------

(* What the counter of a rule is rounded to is the nearest number of MB.   *)
LEMMA NearestIsRounded ==
  ASSUME NEW b \in Nat
  PROVE  Nearest(b) = Rounded(b)
  <1>. DEFINE h == MB \div 2
              r == (b + h) \div MB
              Is(m) == 2 * MB * m <= 2 * b + MB /\ 2 * b + MB < 2 * MB * (m + 1)
  <1>1. MB \in Nat /\ MB > 0 /\ b \in Nat
    BY Numbers
  <1>2. h \in Nat /\ (MB = 2 * h \/ MB = 2 * h + 1)
    BY <1>1
  <1>3. \A x, y \in Nat : y > 0 => x \div y \in Nat /\ y * (x \div y) <= x /\ x < y * (x \div y + 1)
    OBVIOUS
  <1>. HIDE DEF h
  <1>4. r \in Nat /\ MB * r <= b + h /\ b + h < MB * (r + 1)
    BY <1>1, <1>2, <1>3
  <1>. HIDE DEF r
  <1>5. Is(r)
    <2>1. MB * r \in Nat /\ MB * (r + 1) \in Nat /\ 2 * MB * r = 2 * (MB * r)
          /\ 2 * MB * (r + 1) = 2 * (MB * (r + 1))
      BY <1>1, <1>4
    <2>. QED  BY <1>1, <1>2, <1>4, <2>1
  <1>6. r <= b
    <2>. SUFFICES ASSUME r >= b + 1 PROVE FALSE
      BY <1>1, <1>4
    <2>1. MB * r >= MB * (b + 1) /\ MB * (b + 1) = MB * b + MB /\ MB * b >= b
      BY <1>1, <1>4
    <2>. QED  BY <1>1, <1>2, <1>4, <2>1
  <1>7. ASSUME NEW m \in Nat, Is(m)
        PROVE  m = r
    <2>1. ASSUME NEW x \in Nat, NEW y \in Nat, x + 1 <= y
          PROVE  2 * MB * (x + 1) <= 2 * MB * y
      BY <1>1, <2>1
    <2>2. ~(m + 1 <= r) /\ ~(r + 1 <= m)
      BY <1>1, <1>4, <1>5, <1>7, <2>1
    <2>. QED  BY <1>4, <2>2
  <1>8. r \in 0..b
    BY <1>1, <1>4, <1>6
  <1>9. Nearest(b) = r
    <2>1. Nearest(b) = CHOOSE m \in 0..b : Is(m)
      BY DEF Nearest
    <2>. HIDE DEF Is
    <2>. QED  BY <1>5, <1>7, <1>8, <2>1
  <1>. QED  BY <1>9 DEF Rounded, r, h

(* The lines that charge an address before line n.                         *)
DownLines(a, n) ==
  {k \in 1..Len(listing) : /\ k < n /\ Marked(listing, k) /\ ForDownload(listing, k)
                           /\ listing[k].dst = a}
UpLines(a, n) ==
  {k \in 1..Len(listing) : /\ k < n /\ Marked(listing, k) /\ ~ForDownload(listing, k)
                           /\ listing[k].src = a}
InMB == [k \in 1..Len(listing) |-> Nearest(listing[k].bytes)]
DownTo(a, n) == SumFunctionOnSet(InMB, DownLines(a, n))
UpTo(a, n) == SumFunctionOnSet(InMB, UpLines(a, n))

(* CounterIsSum, halfway through the listing.                              *)
CountedTo(n) ==
  /\ \A a \in Addr : (\A i \in 1..Len(list) : list[i].addr # a) =>
       DownTo(a, n) = 0 /\ UpTo(a, n) = 0
  /\ \A i \in 1..Len(list) :
       /\ list[i].direct = DownTo(list[i].addr, n)
       /\ list[i].upload = UpTo(list[i].addr, n)
       /\ config.include_upload => list[i].traffic = list[i].direct + list[i].upload
  /\ \A i, j \in 1..Len(list) : list[i].addr = list[j].addr => i = j

Counting ==
  /\ phase = "count" =>
       /\ at <= Len(listing) + 1
       /\ downloadflag = ForDownload(listing, at)
       /\ CountedTo(at)
  /\ phase = "hosts" /\ at = 1 => CountedTo(Len(listing) + 1)

LEMMA MarkedLine ==
  ASSUME listing \in Listings, NEW k \in 1..Len(listing), Marked(listing, k)
  PROVE  /\ listing[k].bytes \in Nat /\ InMB[k] = Rounded(listing[k].bytes)
         /\ InMB[k] \in Nat /\ listing[k].src \in Addr /\ listing[k].dst \in Addr
  <1>1. listing \in Seq(ListingLine)
    BY TrafficAssumption
  <1>2. listing[k] \in ListingLine
    BY <1>1
  <1>3. /\ listing[k].bytes \in Nat
        /\ listing[k].src \in Addr /\ listing[k].dst \in Addr
    BY <1>2 DEF ListingLine, Marked
  <1>4. Rounded(listing[k].bytes) \in Nat
    BY <1>3, RoundedType
  <1>. QED  BY <1>3, <1>4, NearestIsRounded DEF InMB

(* A line changes the sums of the address it charges.                      *)
LEMMA SumsOfLine ==
  ASSUME listing \in Listings, NEW k \in 1..Len(listing), NEW a
  PROVE  /\ DownTo(a, k) \in Nat /\ UpTo(a, k) \in Nat
         /\ DownTo(a, k + 1) =
              IF Marked(listing, k) /\ ForDownload(listing, k) /\ listing[k].dst = a
              THEN InMB[k] + DownTo(a, k) ELSE DownTo(a, k)
         /\ UpTo(a, k + 1) =
              IF Marked(listing, k) /\ ~ForDownload(listing, k) /\ listing[k].src = a
              THEN InMB[k] + UpTo(a, k) ELSE UpTo(a, k)
  <1>0. listing \in Seq(ListingLine)
    BY TrafficAssumption
  <1>. DEFINE D == DownLines(a, k)
              U == UpLines(a, k)
              down == Marked(listing, k) /\ ForDownload(listing, k) /\ listing[k].dst = a
              up == Marked(listing, k) /\ ~ForDownload(listing, k) /\ listing[k].src = a
  <1>1. /\ D \in SUBSET (1..Len(listing)) /\ U \in SUBSET (1..Len(listing))
        /\ k \notin D /\ k \notin U
        /\ \A j \in D \cup U : Marked(listing, j) /\ j \in 1..Len(listing)
    BY DEF DownLines, UpLines
  <1>2. IsFiniteSet(D) /\ IsFiniteSet(U)
    <2>1. IsFiniteSet(1..Len(listing))
      BY <1>0, CountUpTo
    <2>. QED  BY <1>1, <2>1, FS_Subset
  <1>3. \A j \in 1..Len(listing) : j < k + 1 <=> j < k \/ j = k
    BY <1>0
  <1>4. /\ DownLines(a, k + 1) = IF down THEN D \cup {k} ELSE D
        /\ UpLines(a, k + 1) = IF up THEN U \cup {k} ELSE U
    <2>1. DownLines(a, k + 1) = IF down THEN D \cup {k} ELSE D
      BY <1>3 DEF DownLines
    <2>2. UpLines(a, k + 1) = IF up THEN U \cup {k} ELSE U
      BY <1>3 DEF UpLines
    <2>. QED  BY <2>1, <2>2
  <1>5. /\ \A j \in D \cup U : InMB[j] \in Nat
        /\ down \/ up => InMB[k] \in Nat
    BY <1>1, MarkedLine
  <1>. HIDE DEF D, U
  <1>6. SumFunctionOnSet(InMB, D) \in Nat /\ SumFunctionOnSet(InMB, U) \in Nat
    BY <1>2, <1>5, SumNat
  <1>7. ASSUME down
        PROVE  SumFunctionOnSet(InMB, D \cup {k}) = InMB[k] + SumFunctionOnSet(InMB, D)
    <2>1. \A j \in D \cup {k} : InMB[j] \in Nat
      BY <1>5, <1>7
    <2>. QED  BY <1>1, <1>2, <2>1, SumAdd
  <1>8. ASSUME up
        PROVE  SumFunctionOnSet(InMB, U \cup {k}) = InMB[k] + SumFunctionOnSet(InMB, U)
    <2>1. \A j \in U \cup {k} : InMB[j] \in Nat
      BY <1>5, <1>8
    <2>. QED  BY <1>1, <1>2, <2>1, SumAdd
  <1>. QED  BY <1>4, <1>6, <1>7, <1>8 DEF DownTo, UpTo, D, U

(* downloadflag is what the last chain head says.                          *)
LEMMA FlagFollows ==
  ASSUME listing \in Listings, at \in 1..Len(listing),
         downloadflag = ForDownload(listing, at), Start \/ Chain \/ Rule,
         downloadflag \in BOOLEAN
  PROVE  downloadflag' = ForDownload(listing, at + 1)
  <1>0. listing \in Seq(ListingLine) /\ at \in Nat /\ at # 0
    BY TrafficAssumption
  <1>. DEFINE head == \/ listing[at].kind = "start"
                      \/ listing[at].kind = "chain" /\ listing[at].chain # "other"
              H == Heads(listing, at)
  <1>1. Heads(listing, at + 1) = IF head THEN H \cup {at} ELSE H
    <2>1. 1..(at + 1 - 1) = (1..(at - 1)) \cup {at}
      BY <1>0
    <2>. QED  BY <2>1 DEF Heads
  <1>2. H \in SUBSET (1..(at - 1)) /\ at - 1 \in Nat
    BY <1>0 DEF Heads
  <1>3. Max(H \cup {at}) = at
    <2>1. \A j \in H \cup {at} : j <= at /\ (at <= j => j = at)
      BY <1>0, <1>2
    <2>. HIDE DEF H
    <2>. QED  BY <2>1 DEF Max
  <1>. HIDE DEF H
  <1>4. CASE ~head
    <2>1. ForDownload(listing, at + 1) = ForDownload(listing, at)
      BY <1>1, <1>4 DEF ForDownload, H
    <2>2. downloadflag' = downloadflag
      <3>1. CASE Start
        BY <1>4, <3>1 DEF Start, Line
      <3>2. CASE Chain
        <4>1. Line.kind = "chain" /\ Line.chain = "other"
          BY <1>4, <3>2 DEF Chain, Line
        <4>2. FlagAfter(Line.chain) = downloadflag
          BY <4>1 DEF FlagAfter
        <4>. QED  BY <3>2, <4>2 DEF Chain
      <3>3. CASE Rule
        BY <3>3 DEF Rule
      <3>. QED  BY <3>1, <3>2, <3>3
    <2>. QED  BY <2>1, <2>2
  <1>5. CASE head
    <2>1. ForDownload(listing, at + 1) <=>
            /\ Line.kind = "chain" /\ Line.chain \in {"post", "post_common", "POSTROUTING"}
      BY <1>1, <1>3, <1>5 DEF ForDownload, Line
    <2>0. ForDownload(listing, at + 1) \in BOOLEAN
      BY Zenon DEF ForDownload
    <2>2. CASE Start
      <3>1. downloadflag' = FALSE /\ Line.kind = "start"
        BY <2>2 DEF Start
      <3>. QED  BY <2>0, <2>1, <3>1
    <2>3. CASE Chain
      <3>1. listing[at] \in ListingLine
        BY <1>0
      <3>2. Line.kind = "chain" /\ Line.chain \in Chains \ {"other"}
        BY <1>5, <2>3, <3>1 DEF Chain, Line, ListingLine
      <3>3. FlagAfter(Line.chain) <=> Line.chain \in {"post", "post_common", "POSTROUTING"}
        BY <3>2 DEF FlagAfter, Chains
      <3>4. FlagAfter(Line.chain) \in BOOLEAN
        BY Zenon DEF FlagAfter
      <3>5. downloadflag' = FlagAfter(Line.chain)
        BY <2>3 DEF Chain
      <3>. QED  BY <2>0, <2>1, <3>2, <3>3, <3>4, <3>5
    <2>4. CASE Rule
      BY <1>5, <2>4 DEF Rule, Line
    <2>. QED  BY <2>2, <2>3, <2>4
  <1>. QED  BY <1>4, <1>5

(* Where no two entries have an address, the place of one is its only one. *)
Distinct(l) == \A i, j \in 1..Len(l) : l[i].addr = l[j].addr => i = j

LEMMA FoundDistinct ==
  ASSUME list \in Seq(IpType), NEW a \in Addr, Distinct(list)
  PROVE  LET u == FoundOrNew(a)
             p == PlaceOf(a)
         IN  /\ Distinct(u)
             /\ \A i \in 1..Len(u) : i # p =>
                  u[i].addr # a /\ \E j \in 1..Len(list) : u[i] = list[j]
             /\ \A j \in 1..Len(list) : \E i \in 1..Len(u) : u[i] = list[j]
  <1>. DEFINE u == FoundOrNew(a)
              p == PlaceOf(a)
  <1>1. /\ u \in Seq(IpType) /\ p \in 1..Len(u) /\ u[p].addr = a
        /\ Known(a) = 0 => u = Push(TheIP(a), list) /\ p = 1 /\ u[p] = TheIP(a)
        /\ Known(a) # 0 => u = list /\ p = Known(a)
    BY FoundOrNewProperties
  <1>. HIDE DEF u, p
  <1>2. CASE Known(a) = 0
    <2>1. u = Push(TheIP(a), list) /\ p = 1 /\ TheIP(a) \in IpType /\ Len(list) \in Nat
      BY <1>1, <1>2, TheIPType
    <2>2. /\ Len(u) = Len(list) + 1
          /\ \A i \in 1..Len(list) : u[i + 1] = list[i]
          /\ \A i \in 1..(Len(list) + 1) :
               i # 1 => i - 1 \in 1..Len(list) /\ u[i] = list[i - 1]
      <3>. DEFINE e == TheIP(a)
      <3>1. e \in IpType
        BY <2>1
      <3>. HIDE DEF e
      <3>2. /\ Len(Push(e, list)) = Len(list) + 1
            /\ \A i \in 1..Len(list) : Push(e, list)[i + 1] = list[i]
            /\ \A i \in 1..(Len(list) + 1) :
                 i # 1 => i - 1 \in 1..Len(list) /\ Push(e, list)[i] = list[i - 1]
        BY <3>1, PushProperties
      <3>. QED  BY <2>1, <3>2 DEF e
    <2>3. \A i \in 1..Len(list) : list[i].addr # a
      BY <1>2, KnownProperties
    <2>4. \A i \in 1..Len(u) : i # p =>
            /\ i - 1 \in 1..Len(list) /\ u[i] = list[i - 1] /\ u[i].addr # a
      BY <2>1, <2>2, <2>3
    <2>5. Distinct(u)
      <3>. SUFFICES ASSUME NEW i \in 1..Len(u), NEW j \in 1..Len(u), u[i].addr = u[j].addr
                    PROVE  i = j
        BY DEF Distinct
      <3>1. i = p <=> j = p
        BY <1>1, <2>4
      <3>2. ASSUME i # p, j # p
            PROVE  i = j
        <4>1. i - 1 = j - 1
          BY <2>4, <3>2 DEF Distinct
        <4>. QED  BY <2>1, <2>2, <4>1
      <3>. QED  BY <3>1, <3>2
    <2>6. \A j \in 1..Len(list) : j + 1 \in 1..Len(u)
      BY <2>1, <2>2
    <2>. QED  BY <2>2, <2>4, <2>5, <2>6 DEF u, p
  <1>3. CASE Known(a) # 0
    BY <1>1, <1>3 DEF Distinct, u, p
  <1>. QED  BY <1>2, <1>3

(* A line that charges nobody.                                             *)
LEMMA UnchargedNext ==
  ASSUME listing \in Listings, NEW n \in 1..Len(listing), CountedTo(n),
         UNCHANGED <<config, listing, list>>, Marked(listing, n) => InMB[n] = 0
  PROVE  CountedTo(n + 1)'
  <1>1. \A a : DownTo(a, n + 1) = DownTo(a, n) /\ UpTo(a, n + 1) = UpTo(a, n)
    <2>. TAKE a
    <2>1. DownTo(a, n) \in Nat /\ UpTo(a, n) \in Nat
      BY SumsOfLine
    <2>2. \A x \in Nat : 0 + x = x
      OBVIOUS
    <2>. QED  BY <2>1, <2>2, SumsOfLine
  <1>2. \A a : DownTo(a, n + 1)' = DownTo(a, n + 1) /\ UpTo(a, n + 1)' = UpTo(a, n + 1)
    BY DEF DownTo, UpTo, DownLines, UpLines, InMB
  <1>. QED  BY <1>1, <1>2 DEF CountedTo

(* A line that charges address a.                                          *)
LEMMA ChargedNext ==
  ASSUME list \in Seq(IpType), listing \in Listings, NEW n \in 1..Len(listing),
         CountedTo(n), UNCHANGED <<config, listing>>, NEW a \in Addr,
         NEW d \in IpType, d.addr = a,
         list' = [FoundOrNew(a) EXCEPT ![PlaceOf(a)] = d],
         \A b : b # a => DownTo(b, n + 1) = DownTo(b, n) /\ UpTo(b, n + 1) = UpTo(b, n),
         d.direct = DownTo(a, n + 1), d.upload = UpTo(a, n + 1),
         config.include_upload => d.traffic = d.direct + d.upload
  PROVE  CountedTo(n + 1)'
  <1>. DEFINE u == FoundOrNew(a)
              p == PlaceOf(a)
  <1>1. p \in 1..Len(u) /\ u[p].addr = a
    BY FoundOrNewProperties
  <1>2. /\ Len(list') = Len(u)
        /\ \A i \in 1..Len(u) : list'[i] = IF i = p THEN d ELSE u[i]
    BY EntryChanged
  <1>3. Distinct(list)
    BY DEF CountedTo, Distinct
  <1>4. /\ Distinct(u)
        /\ \A i \in 1..Len(u) : i # p =>
             u[i].addr # a /\ \E j \in 1..Len(list) : u[i] = list[j]
        /\ \A j \in 1..Len(list) : \E i \in 1..Len(u) : u[i] = list[j]
    BY <1>3, FoundDistinct
  <1>. HIDE DEF u, p
  <1>5. \A b : DownTo(b, n + 1)' = DownTo(b, n + 1) /\ UpTo(b, n + 1)' = UpTo(b, n + 1)
    BY DEF DownTo, UpTo, DownLines, UpLines, InMB
  <1>6. \A i \in 1..Len(u) : list'[i].addr = u[i].addr
    BY <1>1, <1>2
  <1>7. ASSUME NEW b \in Addr, \A i \in 1..Len(list') : list'[i].addr # b
        PROVE  DownTo(b, n + 1) = 0 /\ UpTo(b, n + 1) = 0
    <2>1. b # a
      BY <1>1, <1>2, <1>6, <1>7
    <2>2. \A j \in 1..Len(list) : list[j].addr # b
      BY <1>2, <1>4, <1>6, <1>7
    <2>3. DownTo(b, n) = 0 /\ UpTo(b, n) = 0
      BY <2>2 DEF CountedTo
    <2>. QED  BY <2>1, <2>3
  <1>8. ASSUME NEW i \in 1..Len(list')
        PROVE  /\ list'[i].direct = DownTo(list'[i].addr, n + 1)
               /\ list'[i].upload = UpTo(list'[i].addr, n + 1)
               /\ config.include_upload =>
                    list'[i].traffic = list'[i].direct + list'[i].upload
    <2>1. CASE i = p
      BY <1>1, <1>2, <2>1
    <2>2. CASE i # p
      <3>1. list'[i] = u[i] /\ u[i].addr # a
        BY <1>2, <1>4, <2>2
      <3>2. PICK j \in 1..Len(list) : u[i] = list[j]
        BY <1>2, <1>4, <2>2
      <3>3. /\ list[j].direct = DownTo(list[j].addr, n)
            /\ list[j].upload = UpTo(list[j].addr, n)
            /\ config.include_upload =>
                 list[j].traffic = list[j].direct + list[j].upload
        BY DEF CountedTo
      <3>4. /\ DownTo(list[j].addr, n + 1) = DownTo(list[j].addr, n)
            /\ UpTo(list[j].addr, n + 1) = UpTo(list[j].addr, n)
        BY <3>1, <3>2
      <3>. QED  BY <3>1, <3>2, <3>3, <3>4
    <2>. QED  BY <2>1, <2>2
  <1>9. ASSUME NEW i \in 1..Len(list'), NEW j \in 1..Len(list'), list'[i].addr = list'[j].addr
        PROVE  i = j
    BY <1>2, <1>4, <1>6, <1>9 DEF Distinct
  <1>. QED  BY <1>5, <1>7, <1>8, <1>9 DEF CountedTo

(* Every line of a listing.                                                *)
LEMMA CountedNext ==
  ASSUME list \in Seq(IpType), listing \in Listings, NEW n \in 1..Len(listing), n = at,
         downloadflag = ForDownload(listing, n), CountedTo(n), Start \/ Chain \/ Rule,
         UNCHANGED <<config, listing>>
  PROVE  CountedTo(n + 1)'
  <1>1. CASE Start \/ Chain
    <2>1. ~Marked(listing, n) /\ list' = list
      BY <1>1 DEF Start, Chain, Line, Marked
    <2>. QED  BY <2>1, UnchargedNext
  <1>2. CASE Rule /\ ~Accepted(Line)
    <2>1. Marked(listing, n) => InMB[n] = 0
      <3>. SUFFICES ASSUME Marked(listing, n)
                    PROVE  InMB[n] = 0
        OBVIOUS
      <3>1. InMB[n] = Rounded(listing[n].bytes) /\ InMB[n] \in Nat
        BY MarkedLine
      <3>2. ~(Rounded(listing[n].bytes) > 0)
        BY <1>2 DEF Accepted, Marked, Line
      <3>. QED  BY <3>1, <3>2
    <2>2. list' = list
      BY <1>2 DEF Rule
    <2>. QED  BY <2>1, <2>2, UnchargedNext
  <1>3. CASE Rule /\ Accepted(Line)
    <2>. DEFINE t == Rounded(listing[n].bytes)
                a == IF downloadflag THEN listing[n].dst ELSE listing[n].src
                e == FoundOrNew(a)[PlaceOf(a)]
                d == IF downloadflag THEN Downloaded(e, t) ELSE Uploaded(e, t)
    <2>1. Marked(listing, n)
      BY <1>3 DEF Rule, Accepted, Marked, Line
    <2>2. list' = [FoundOrNew(a) EXCEPT ![PlaceOf(a)] = d]
      BY <1>3 DEF Rule, Line
    <2>3. a \in Addr /\ t \in Nat /\ InMB[n] = t
      BY <2>1, MarkedLine
    <2>4. ForDownload(listing, n) => a = listing[n].dst
      OBVIOUS
    <2>5. ~ForDownload(listing, n) => a = listing[n].src
      OBVIOUS
    <2>. HIDE DEF a, t
    <2>6. /\ \A b : b # a => DownTo(b, n + 1) = DownTo(b, n) /\ UpTo(b, n + 1) = UpTo(b, n)
          /\ DownTo(a, n) \in Nat /\ UpTo(a, n) \in Nat
          /\ DownTo(a, n + 1) = IF ForDownload(listing, n) THEN t + DownTo(a, n)
                                ELSE DownTo(a, n)
          /\ UpTo(a, n + 1) = IF ForDownload(listing, n) THEN UpTo(a, n)
                              ELSE t + UpTo(a, n)
      BY <2>1, <2>3, <2>4, <2>5, SumsOfLine
    <2>7. /\ e \in IpType /\ e.addr = a /\ PlaceOf(a) \in 1..Len(FoundOrNew(a))
          /\ Known(a) = 0 => e = TheIP(a)
          /\ Known(a) # 0 => e = list[Known(a)]
      BY <2>3, FoundOrNewProperties
    <2>8. /\ e.direct = DownTo(a, n) /\ e.upload = UpTo(a, n)
          /\ config.include_upload => e.traffic = e.direct + e.upload
      <3>1. CASE Known(a) = 0
        <4>1. \A i \in 1..Len(list) : list[i].addr # a
          BY <3>1, KnownProperties
        <4>2. DownTo(a, n) = 0 /\ UpTo(a, n) = 0
          BY <2>3, <4>1 DEF CountedTo
        <4>. QED  BY <2>7, <3>1, <4>2 DEF TheIP
      <3>2. CASE Known(a) # 0
        <4>1. Known(a) \in 1..Len(list) /\ list[Known(a)].addr = a
          <5>1. Known(a) \in 0..Len(list) /\ list[Known(a)].addr = a /\ Len(list) \in Nat
            BY <3>2, KnownProperties
          <5>. QED  BY <3>2, <5>1
        <4>. QED  BY <2>7, <3>2, <4>1 DEF CountedTo
      <3>. QED  BY <3>1, <3>2
    <2>. HIDE DEF e
    <2>9. CASE ForDownload(listing, n)
      <3>1. d = Downloaded(e, t)
        BY <2>9
      <3>. HIDE DEF d
      <3>0. e \in IpType
        BY <2>7
      <3>2. /\ d \in IpType /\ d.addr = e.addr
            /\ d.traffic = e.traffic + t /\ d.direct = e.direct + t /\ d.upload = e.upload
        BY <2>3, <3>0, <3>1, DownloadedType
      <3>3. d.direct = DownTo(a, n + 1) /\ d.upload = UpTo(a, n + 1)
            /\ (config.include_upload => d.traffic = d.direct + d.upload)
        BY <2>3, <2>6, <2>8, <2>9, <3>2
      <3>4. d.addr = a
        BY <2>7, <3>2
      <3>. QED  BY <2>2, <2>3, <2>6, <3>2, <3>3, <3>4, ChargedNext
    <2>10. CASE ~ForDownload(listing, n)
      <3>1. d = Uploaded(e, t)
        BY <2>10
      <3>. HIDE DEF d
      <3>0. e \in IpType
        BY <2>7
      <3>2. /\ d \in IpType /\ d.addr = e.addr
            /\ d.direct = e.direct /\ d.upload = e.upload + t
            /\ d.traffic = IF config.include_upload THEN e.traffic + t
                           ELSE Larger(e.upload + t, e.traffic)
        BY <2>3, <3>0, <3>1, UploadedType
      <3>4. /\ d.direct = DownTo(a, n + 1) /\ d.upload = UpTo(a, n + 1)
            /\ config.include_upload => d.traffic = d.direct + d.upload
        <4>1. /\ e.direct = DownTo(a, n) /\ e.upload = UpTo(a, n)
              /\ e.direct \in Nat /\ e.upload \in Nat
          BY <2>6, <2>8
        <4>. QED  BY <2>3, <2>6, <2>8, <2>10, <3>2, <4>1
      <3>5. d.addr = a
        BY <2>7, <3>2
      <3>. QED  BY <2>2, <2>3, <2>6, <3>2, <3>4, <3>5, ChargedNext
    <2>. QED  BY <2>9, <2>10
  <1>. QED  BY <1>1, <1>2, <1>3

(* Before the first line nobody is charged.                                *)
LEMMA CountingInit == Init => Counting
  <1>. SUFFICES ASSUME Init
                PROVE  Counting
    OBVIOUS
  <1>1. phase = "count" /\ at = 1 /\ list = <<>> /\ downloadflag = FALSE /\ listing \in Listings
    BY DEF Init
  <1>2. listing \in Seq(ListingLine)
    BY <1>1, TrafficAssumption
  <1>3. Len(listing) \in Nat /\ Len(list) = 0
    BY <1>1, <1>2
  <1>4. Heads(listing, 1) = {}
    BY DEF Heads
  <1>5. ForDownload(listing, 1) = FALSE
    BY <1>4 DEF ForDownload
  <1>6. \A a : DownLines(a, 1) = {} /\ UpLines(a, 1) = {}
    BY <1>3 DEF DownLines, UpLines
  <1>7. \A a : DownTo(a, 1) = 0 /\ UpTo(a, 1) = 0
    BY <1>6, SumEmpty DEF DownTo, UpTo
  <1>8. CountedTo(1)
    BY <1>3, <1>7 DEF CountedTo
  <1>9. CountedTo(at) /\ downloadflag = ForDownload(listing, at)
    BY <1>1, <1>5, <1>8
  <1>10. at <= Len(listing) + 1 /\ phase # "hosts"
    BY <1>1, <1>3
  <1>. QED  BY <1>9, <1>10 DEF Counting

LEMMA CountingNext == IInv /\ Counting /\ [Next]_vars => Counting'
  <1>. SUFFICES ASSUME IInv, Counting, [Next]_vars
                PROVE  Counting'
    OBVIOUS
  <1>1. /\ list \in Seq(IpType) /\ listing \in Listings /\ at \in Nat \ {0}
        /\ downloadflag \in BOOLEAN
    BY DEF IInv, Typed
  <1>2. Len(listing) \in Nat
    <2>1. listing \in Seq(ListingLine)
      BY <1>1, TrafficAssumption
    <2>. QED  BY <2>1
  <1>3. CASE Count
    <2>1. /\ phase = "count" /\ phase' = "count" /\ at <= Len(listing) /\ at' = at + 1
          /\ listing' = listing /\ config' = config
          /\ Start \/ Chain \/ Rule
      BY <1>3 DEF Count, read_vars
    <2>2. at \in 1..Len(listing) /\ downloadflag = ForDownload(listing, at) /\ CountedTo(at)
      BY <1>1, <1>2, <2>1 DEF Counting
    <2>3. downloadflag' = ForDownload(listing, at + 1)
      BY <1>1, <2>1, <2>2, FlagFollows
    <2>4. \A n \in 1..Len(listing) : n = at => CountedTo(n + 1)'
      <3>. SUFFICES ASSUME NEW n \in 1..Len(listing), n = at
                    PROVE  CountedTo(n + 1)'
        OBVIOUS
      <3>1. /\ downloadflag = ForDownload(listing, n) /\ CountedTo(n)
            /\ UNCHANGED <<config, listing>>
        BY <2>1, <2>2
      <3>. QED  BY <1>1, <2>1, <3>1, CountedNext
    <2>5. CountedTo(at)'
      <3>1. PICK n \in 1..Len(listing) : n = at
        BY <2>2
      <3>2. CountedTo(n + 1)' /\ at' = n + 1
        BY <2>1, <2>4, <3>1
      <3>. QED  BY <3>2 DEF CountedTo
    <2>6. at + 1 <= Len(listing) + 1
      BY <1>1, <1>2, <2>1
    <2>7. ForDownload(listing, at)' = ForDownload(listing, at + 1)
      BY <2>1 DEF ForDownload, Heads
    <2>8. at' <= Len(listing') + 1 /\ phase' # "hosts"
      BY <2>1, <2>6
    <2>. QED  BY <2>3, <2>5, <2>7, <2>8 DEF Counting
  <1>4. CASE Counted
    <2>1. /\ phase = "count" /\ phase' = "hosts" /\ at > Len(listing) /\ at' = 1
          /\ listing' = listing /\ list' = list /\ config' = config
      BY <1>4 DEF Counted, sharing_vars
    <2>2. at = Len(listing) + 1 /\ CountedTo(at)
      BY <1>1, <1>2, <2>1 DEF Counting
    <2>3. CountedTo(Len(listing) + 1)
      BY <2>2
    <2>4. \A a, n : DownTo(a, n)' = DownTo(a, n) /\ UpTo(a, n)' = UpTo(a, n)
      BY <2>1 DEF DownTo, UpTo, DownLines, UpLines, InMB
    <2>5. CountedTo(Len(listing) + 1)'
      BY <2>1, <2>3, <2>4 DEF CountedTo
    <2>. QED  BY <2>1, <2>5 DEF Counting
  <1>5. CASE Describe
    <2>1. phase' = "hosts" /\ at' = at + 1
      BY <1>5 DEF Describe, read_vars
    <2>2. at' # 1
      BY <1>1, <2>1
    <2>. QED  BY <2>1, <2>2 DEF Counting
  <1>6. CASE UNCHANGED vars
    <2>1. UNCHANGED <<config, phase, at, listing, list, downloadflag>>
      BY <1>6 DEF vars, sharing_vars
    <2>2. \A n : CountedTo(n)' <=> CountedTo(n)
      <3>. TAKE n
      <3>1. \A a : DownTo(a, n)' = DownTo(a, n) /\ UpTo(a, n)' = UpTo(a, n)
        BY <2>1 DEF DownTo, UpTo, DownLines, UpLines, InMB
      <3>. QED  BY <2>1, <3>1 DEF CountedTo
    <2>3. CountedTo(at)' <=> CountedTo(at)
      BY <2>1, <2>2 DEF CountedTo
    <2>4. CountedTo(Len(listing) + 1)' <=> CountedTo(Len(listing) + 1)
      BY <2>1 DEF CountedTo, DownTo, UpTo, DownLines, UpLines, InMB
    <2>5. ForDownload(listing, at)' = ForDownload(listing, at)
      BY <2>1 DEF ForDownload, Heads
    <2>. QED  BY <2>1, <2>3, <2>4, <2>5 DEF Counting
  <1>7. CASE \/ AllDescribed \/ Resolving \/ Sorting \/ SortNothing \/ WriteJson
             \/ Row \/ PageDone
    <2>1. phase' \notin {"count", "hosts"}
      BY <1>7 DEF AllDescribed, Resolving, Sorting, SortNothing, WriteJson, Row, PageDone
    <2>. QED  BY <2>1 DEF Counting
  <1>. QED  BY <1>3, <1>4, <1>5, <1>6, <1>7 DEF Next

(* An address has the sum of what its rules counted, rounded each, in both *)
(* directions, for every listing.                                          *)
THEOREM CountersAreSums == Spec => []CounterIsSum
  <1>1. IInv /\ Counting => CounterIsSum
    <2>. SUFFICES ASSUME Typed, Counting, phase = "hosts", at = 1
                  PROVE  /\ \A a \in Addr : Known(a) = 0 => Downloads(a) = 0 /\ Uploads(a) = 0
                         /\ \A i \in 1..Len(list) :
                              /\ list[i].direct = Downloads(list[i].addr)
                              /\ list[i].upload = Uploads(list[i].addr)
                              /\ config.include_upload =>
                                   list[i].traffic = list[i].direct + list[i].upload
      BY DEF IInv, CounterIsSum
    <2>1. list \in Seq(IpType) /\ listing \in Seq(ListingLine) /\ CountedTo(Len(listing) + 1)
      BY TrafficAssumption DEF Typed, Counting
    <2>2. Len(listing) \in Nat
      BY <2>1
    <2>3. ASSUME NEW a
          PROVE  /\ DownTo(a, Len(listing) + 1) = Downloads(a)
                 /\ UpTo(a, Len(listing) + 1) = Uploads(a)
      <3>. DEFINE D == {k \in 1..Len(listing) : /\ Marked(listing, k)
                                                /\ ForDownload(listing, k)
                                                /\ listing[k].dst = a}
                  U == {k \in 1..Len(listing) : /\ Marked(listing, k)
                                                /\ ~ForDownload(listing, k)
                                                /\ listing[k].src = a}
                  f == [k \in D |-> Nearest(listing[k].bytes)]
                  g == [k \in U |-> Nearest(listing[k].bytes)]
      <3>1. \A k \in 1..Len(listing) : k < Len(listing) + 1
        BY <2>2
      <3>2. DownLines(a, Len(listing) + 1) = D /\ UpLines(a, Len(listing) + 1) = U
        BY <3>1 DEF DownLines, UpLines
      <3>3. IsFiniteSet(D) /\ IsFiniteSet(U)
        <4>1. IsFiniteSet(1..Len(listing))
          BY <2>2, CountUpTo
        <4>. QED  BY <4>1, FS_Subset
      <3>4. /\ \A k \in D : InMB[k] = f[k]
            /\ \A k \in U : InMB[k] = g[k]
        BY DEF InMB
      <3>5. Downloads(a) = SumFunctionOnSet(f, D) /\ Uploads(a) = SumFunctionOnSet(g, U)
        BY DEF Downloads, Uploads, SumFunction, SumFunctionOnSet, FoldFunction
      <3>. HIDE DEF D, U, f, g
      <3>6. SumFunctionOnSet(InMB, D) = SumFunctionOnSet(f, D)
        BY <3>3, <3>4, SumSame
      <3>7. SumFunctionOnSet(InMB, U) = SumFunctionOnSet(g, U)
        BY <3>3, <3>4, SumSame
      <3>. QED  BY <3>2, <3>5, <3>6, <3>7 DEF DownTo, UpTo
    <2>4. ASSUME NEW a \in Addr, Known(a) = 0
          PROVE  Downloads(a) = 0 /\ Uploads(a) = 0
      <3>1. \A i \in 1..Len(list) : list[i].addr # a
        BY <2>1, <2>4, KnownProperties
      <3>. QED  BY <2>1, <2>3, <3>1 DEF CountedTo
    <2>5. ASSUME NEW i \in 1..Len(list)
          PROVE  /\ list[i].direct = Downloads(list[i].addr)
                 /\ list[i].upload = Uploads(list[i].addr)
                 /\ config.include_upload =>
                      list[i].traffic = list[i].direct + list[i].upload
      BY <2>1, <2>3 DEF CountedTo
    <2>. QED  BY <2>4, <2>5
  <1>. QED  BY <1>1, Invariant, CountingInit, CountingNext, PTL DEF Spec

-----------------------------------------------------------------------------

(* What is written is the list in order, once the pass is over.            *)
Written ==
  /\ phase \in {"json", "page", "done"} => Ended /\ sorted = Sort(list, LessTraffic)
  /\ phase \in {"page", "done"} => json = Selected(sorted, InJson)

LEMMA WrittenInit == Init => Written
  BY DEF Init, Written

LEMMA WrittenNext == Written /\ [Next]_vars => Written'
  <1>. SUFFICES ASSUME Written, [Next]_vars
                PROVE  Written'
    OBVIOUS
  <1>1. CASE Count \/ Counted \/ Describe \/ AllDescribed \/ Resolving \/ SortNothing
    <2>1. phase' \notin {"json", "page", "done"}
      BY <1>1 DEF Count, Counted, Describe, AllDescribed, Resolving, SortNothing, read_vars
    <2>. QED  BY <2>1 DEF Written
  <1>2. CASE Sorting
    <2>1. /\ phase' = "json" /\ Ended /\ sorted' = Sort(list, LessTraffic)
          /\ list' = list /\ given' = given /\ pos' = pos
      BY <1>2 DEF Sorting, sharing_vars
    <2>2. Ended'
      BY <2>1 DEF Ended
    <2>3. Sort(list, LessTraffic)' = Sort(list, LessTraffic)
      BY <2>1
    <2>. QED  BY <2>1, <2>2, <2>3 DEF Written
  <1>3. CASE WriteJson \/ Row \/ PageDone \/ UNCHANGED vars
    <2>1. /\ list' = list /\ given' = given /\ pos' = pos /\ sorted' = sorted
          /\ \/ phase' = phase /\ json' = json
             \/ phase = "json" /\ json' = Selected(sorted, InJson) /\ phase' = "page"
             \/ phase = "page" /\ json' = json /\ phase' = "done"
      BY <1>3 DEF WriteJson, Row, PageDone, vars, sharing_vars, read_vars
    <2>2. Ended' <=> Ended
      BY <2>1 DEF Ended
    <2>3. sorted' = Sort(list, LessTraffic) <=> sorted = Sort(list, LessTraffic)
      BY <2>1
    <2>4. Sort(list, LessTraffic)' = Sort(list, LessTraffic)
      BY <2>1
    <2>5. Selected(sorted, InJson)' = Selected(sorted, InJson)
      BY <2>1
    <2>. QED  BY <2>1, <2>2, <2>3, <2>4, <2>5 DEF Written
  <1>. QED  BY <1>1, <1>2, <1>3 DEF Next

(* Whose code an IP ends with.                                             *)
OwnerOf(i) ==
  LET s == FirstOf(given, given[i].sharing) IN
  IF given[i].sharing # NoName /\ s # 0 THEN given[s].code ELSE given[i].code

LEMMA CodesAreOwners ==
  ASSUME Pass, Ended, Direct(given), list \in Seq(IpType), NEW i \in 1..Len(given)
  PROVE  list[i].code = OwnerOf(i) /\ list[i].direct = given[i].direct
  <1>1. Len(list) \in Nat /\ pos = Len(list) + 1 /\ Len(given) = Len(list)
    BY DEF Ended
  <1>2. pos > 0 /\ i < pos
    BY <1>1
  <1>3. /\ Same(list[i], given[i])
        /\ IF Shares(i) THEN HandedOver(i) ELSE Received(i)
    BY <1>2 DEF Pass, Halfway
  <1>4. CASE Shares(i)
    BY <1>2, <1>3, <1>4 DEF Shares, HandedOver, OwnerOf, Same
  <1>5. CASE ~Shares(i)
    BY <1>3, <1>5 DEF Shares, Received, OwnerOf, Same
  <1>. QED  BY <1>4, <1>5

DirectOf == [e \in IpType |-> e.direct]
OfCode(c) == {e \in IpType : e.code = c}

(* What the JSON file has under a code, the list has under it too: an IP   *)
(* that is left out has counted no download.                               *)
LEMMA JsonSum ==
  ASSUME list \in Seq(IpType), sorted = Sort(list, LessTraffic),
         json = Selected(sorted, InJson), NEW c, c # EmptyCode
  PROVE  SumOver(json, DirectOf, OfCode(c)) = SumOver(list, DirectOf, OfCode(c))
  <1>1. sorted \in Seq(IpType) /\ Reordered(sorted, list, Len(list))
    BY SortedProperties
  <1>2. json \in Seq(IpType) /\ Selects(json, sorted, Len(sorted), Listed)
    BY <1>1, ListedProperties
  <1>3. \A e \in IpType : DirectOf[e] \in Nat
    BY DEF DirectOf, IpType
  <1>4. SumOver(json, DirectOf, OfCode(c)) = SumOver(sorted, DirectOf, OfCode(c) \cap Listed)
    BY <1>1, <1>2, <1>3, SumOverSelected
  <1>5. SumOver(sorted, DirectOf, OfCode(c) \cap Listed)
          = SumOver(list, DirectOf, OfCode(c) \cap Listed)
    BY <1>1, <1>3, SumOverReordered
  <1>6. SumOver(list, DirectOf, OfCode(c)) = SumOver(list, DirectOf, OfCode(c) \cap Listed)
    <2>. DEFINE f == [i \in 1..Len(list) |-> DirectOf[list[i]]]
                s == Places(list, OfCode(c))
                r == Places(list, OfCode(c) \cap Listed)
    <2>1. IsFiniteSet(s)
      BY <1>3, SumOverNat
    <2>2. \A i \in s : f[i] \in Nat
      BY <1>3 DEF Places
    <2>3. r \in SUBSET s
      BY DEF Places
    <2>4. \A i \in s \ r : f[i] = 0
      <3>. SUFFICES ASSUME NEW i \in s \ r
                    PROVE  f[i] = 0
        OBVIOUS
      <3>1. /\ i \in 1..Len(list) /\ list[i] \in IpType /\ list[i] \notin Listed
            /\ list[i].code # EmptyCode
        BY DEF Places, OfCode
      <3>2. ~(list[i].direct > 0) /\ list[i].direct \in Nat
        BY <3>1 DEF Listed, InJson, IpType
      <3>3. f[i] = list[i].direct
        BY <3>1 DEF DirectOf
      <3>. QED  BY <3>2, <3>3
    <2>. HIDE DEF f, s, r
    <2>5. SumFunctionOnSet(f, s) = SumFunctionOnSet(f, r)
      BY <2>1, <2>2, <2>3, <2>4, SumWithoutZeros
    <2>. QED  BY <2>5 DEF SumOver, f, s, r
  <1>. QED  BY <1>4, <1>5, <1>6

(* A sum over the places of a list, as the properties write it.            *)
LEMMA SumOverCode ==
  ASSUME NEW u \in Seq(IpType), NEW c
  PROVE  SumOver(u, DirectOf, OfCode(c))
           = SumFunction([i \in {i \in 1..Len(u) : u[i].code = c} |-> u[i].direct])
  <1>. DEFINE S == {i \in 1..Len(u) : u[i].code = c}
              f == [i \in 1..Len(u) |-> DirectOf[u[i]]]
              g == [i \in S |-> u[i].direct]
  <1>1. Places(u, OfCode(c)) = S
    <2>1. \A i \in 1..Len(u) : u[i] \in IpType
      OBVIOUS
    <2>. QED  BY <2>1 DEF Places, OfCode
  <1>2. \A i \in S : f[i] = g[i]
    <2>1. \A i \in S : u[i] \in IpType
      OBVIOUS
    <2>. QED  BY <2>1 DEF DirectOf
  <1>3. IsFiniteSet(S)
    <2>1. IsFiniteSet(1..Len(u))
      BY CountUpTo
    <2>. QED  BY <2>1, FS_Subset
  <1>4. SumFunction(g) = SumFunctionOnSet(g, S)
    BY DEF SumFunction, SumFunctionOnSet, FoldFunction
  <1>. HIDE DEF S, f, g
  <1>5. SumFunctionOnSet(f, S) = SumFunctionOnSet(g, S)
    BY <1>2, <1>3, SumSame
  <1>. QED  BY <1>1, <1>4, <1>5 DEF SumOver, f, g, S

(* Under every code the JSON file holds what the IPs of its customer have  *)
(* downloaded, those that share his connection included.                   *)
THEOREM JsonIsByCustomer == Spec => []JsonByCustomer
  <1>1. IInv /\ Written => JsonByCustomer
    <2>. SUFFICES ASSUME IInv, Written, phase = "done", Direct(given), NEW c,
                         c # EmptyCode
                  PROVE  SumFunction([i \in {i \in 1..Len(json) : json[i].code = c}
                                        |-> json[i].direct])
                           = SumFunction([i \in {i \in 1..Len(given) : OwnerOf(i) = c}
                                            |-> given[i].direct])
      BY DEF JsonByCustomer, OwnerOf
    <2>1. list \in Seq(IpType) /\ json \in Seq(IpType) /\ Pass
      BY DEF IInv, Typed
    <2>2. Ended /\ sorted = Sort(list, LessTraffic) /\ json = Selected(sorted, InJson)
      BY DEF Written
    <2>3. Len(given) = Len(list)
      BY <2>2 DEF Ended
    <2>4. \A i \in 1..Len(given) : list[i].code = OwnerOf(i) /\ list[i].direct = given[i].direct
      BY <2>1, <2>2, CodesAreOwners
    <2>5. {i \in 1..Len(list) : list[i].code = c} = {i \in 1..Len(given) : OwnerOf(i) = c}
      BY <2>3, <2>4
    <2>6. [i \in {i \in 1..Len(list) : list[i].code = c} |-> list[i].direct]
            = [i \in {i \in 1..Len(given) : OwnerOf(i) = c} |-> given[i].direct]
      BY <2>3, <2>4, <2>5
    <2>7. SumOver(json, DirectOf, OfCode(c)) = SumOver(list, DirectOf, OfCode(c))
      BY <2>1, <2>2, JsonSum
    <2>8. SumOver(json, DirectOf, OfCode(c))
            = SumFunction([i \in {i \in 1..Len(json) : json[i].code = c} |-> json[i].direct])
      BY <2>1, SumOverCode
    <2>9. SumOver(list, DirectOf, OfCode(c))
            = SumFunction([i \in {i \in 1..Len(list) : list[i].code = c} |-> list[i].direct])
      BY <2>1, SumOverCode
    <2>. QED  BY <2>6, <2>7, <2>8, <2>9
  <1>. QED  BY <1>1, Invariant, WrittenInit, WrittenNext, PTL DEF Spec

-----------------------------------------------------------------------------

(* The rows of the page before the n-th IP, and those with traffic.        *)
RowsUpto(n) == {i \in 1..Len(sorted) : i < n /\ HasRow(sorted[i])}
ActiveUpto(n) == {i \in RowsUpto(n) : sorted[i].traffic > 0}
WeightOf(S) == SumFunctionOnSet(TrafficsIn(sorted), S)

(* The n-th of the sums is that of the first n rows with traffic.          *)
IsSum(s, n, m) ==
  /\ s.i = n
  /\ \E k \in 1..Len(sorted) :
       /\ k < m /\ Cardinality(ActiveUpto(k + 1)) = n /\ s.l = WeightOf(ActiveUpto(k + 1))

Paged ==
  /\ phase \notin {"page", "done"} =>
       page.total_traffic = 1 /\ page.active_classes = 0 /\ page.sums = <<>> /\ logs = <<>>
  /\ phase \in {"page", "done"} =>
       /\ at <= Len(sorted) + 1
       /\ page.total_traffic = WeightOf(RowsUpto(at)) + 1
       /\ page.active_classes = Cardinality(ActiveUpto(at))
       /\ Len(page.sums) = page.active_classes
       /\ \A n \in 1..Len(page.sums) : IsSum(page.sums[n], n, at)
  /\ phase = "done" => at > Len(sorted)

LEMMA SortedEntry ==
  ASSUME sorted \in Seq(IpType), NEW k \in 1..Len(sorted)
  PROVE  /\ sorted[k] \in IpType /\ sorted[k].traffic \in Nat
         /\ TrafficsIn(sorted)[k] = sorted[k].traffic
  <1>1. sorted[k] \in IpType
    OBVIOUS
  <1>. QED  BY <1>1 DEF IpType, TrafficsIn

LEMMA RowsAreFinite ==
  ASSUME sorted \in Seq(IpType), NEW n
  PROVE  /\ RowsUpto(n) \in SUBSET (1..Len(sorted)) /\ IsFiniteSet(RowsUpto(n))
         /\ ActiveUpto(n) \in SUBSET RowsUpto(n) /\ IsFiniteSet(ActiveUpto(n))
         /\ Cardinality(ActiveUpto(n)) \in Nat
         /\ WeightOf(RowsUpto(n)) \in Nat /\ WeightOf(ActiveUpto(n)) = WeightOf(RowsUpto(n))
  <1>1. RowsUpto(n) \in SUBSET (1..Len(sorted)) /\ ActiveUpto(n) \in SUBSET RowsUpto(n)
    BY DEF RowsUpto, ActiveUpto
  <1>2. IsFiniteSet(RowsUpto(n)) /\ IsFiniteSet(ActiveUpto(n))
    <2>1. IsFiniteSet(1..Len(sorted))
      BY CountUpTo
    <2>2. IsFiniteSet(RowsUpto(n))
      BY <1>1, <2>1, FS_Subset
    <2>. QED  BY <1>1, <2>2, FS_Subset
  <1>3. \A i \in RowsUpto(n) : TrafficsIn(sorted)[i] \in Nat
    BY <1>1, SortedEntry
  <1>4. \A i \in RowsUpto(n) \ ActiveUpto(n) : TrafficsIn(sorted)[i] = 0
    <2>. SUFFICES ASSUME NEW i \in RowsUpto(n) \ ActiveUpto(n)
                  PROVE  TrafficsIn(sorted)[i] = 0
      OBVIOUS
    <2>1. ~(sorted[i].traffic > 0)
      BY DEF ActiveUpto
    <2>2. sorted[i].traffic \in Nat /\ TrafficsIn(sorted)[i] = sorted[i].traffic
      BY <1>1, SortedEntry
    <2>. QED  BY <2>1, <2>2
  <1>5. WeightOf(RowsUpto(n)) \in Nat
    BY <1>2, <1>3, SumNat DEF WeightOf
  <1>6. WeightOf(ActiveUpto(n)) = WeightOf(RowsUpto(n))
    BY <1>1, <1>2, <1>3, <1>4, SumWithoutZeros DEF WeightOf
  <1>. QED  BY <1>1, <1>2, <1>5, <1>6, FS_CardinalityType

LEMMA RowsNext ==
  ASSUME sorted \in Seq(IpType), NEW k \in 1..Len(sorted)
  PROVE  /\ ~HasRow(sorted[k]) => /\ RowsUpto(k + 1) = RowsUpto(k)
                                  /\ ActiveUpto(k + 1) = ActiveUpto(k)
         /\ HasRow(sorted[k]) =>
              /\ WeightOf(RowsUpto(k + 1)) = WeightOf(RowsUpto(k)) + sorted[k].traffic
              /\ sorted[k].traffic = 0 => ActiveUpto(k + 1) = ActiveUpto(k)
              /\ sorted[k].traffic # 0 =>
                   Cardinality(ActiveUpto(k + 1)) = Cardinality(ActiveUpto(k)) + 1
  <1>1. \A i \in 1..Len(sorted) : i < k + 1 <=> i < k \/ i = k
    OBVIOUS
  <1>2. k \notin RowsUpto(k) /\ k \notin ActiveUpto(k)
    BY DEF RowsUpto, ActiveUpto
  <1>3. /\ sorted[k].traffic \in Nat
        /\ TrafficsIn(sorted)[k] = sorted[k].traffic
    BY SortedEntry
  <1>4. /\ RowsUpto(k) \in SUBSET (1..Len(sorted))
        /\ IsFiniteSet(RowsUpto(k)) /\ IsFiniteSet(ActiveUpto(k))
        /\ Cardinality(ActiveUpto(k)) \in Nat /\ WeightOf(RowsUpto(k)) \in Nat
    BY RowsAreFinite
  <1>5. CASE ~HasRow(sorted[k])
    <2>1. RowsUpto(k + 1) = RowsUpto(k)
      BY <1>1, <1>5 DEF RowsUpto
    <2>. QED  BY <1>5, <2>1 DEF ActiveUpto
  <1>6. CASE HasRow(sorted[k])
    <2>1. RowsUpto(k + 1) = RowsUpto(k) \cup {k}
      BY <1>1, <1>6 DEF RowsUpto
    <2>2. WeightOf(RowsUpto(k) \cup {k}) = sorted[k].traffic + WeightOf(RowsUpto(k))
      <3>1. \A i \in RowsUpto(k) \cup {k} : TrafficsIn(sorted)[i] \in Nat
        BY <1>4, SortedEntry
      <3>. QED  BY <1>2, <1>3, <1>4, <3>1, SumAdd DEF WeightOf
    <2>3. sorted[k].traffic = 0 => ActiveUpto(k + 1) = ActiveUpto(k)
      BY <1>2, <2>1 DEF ActiveUpto
    <2>4. sorted[k].traffic # 0 => ActiveUpto(k + 1) = ActiveUpto(k) \cup {k}
      BY <1>3, <2>1 DEF ActiveUpto
    <2>5. Cardinality(ActiveUpto(k) \cup {k}) = Cardinality(ActiveUpto(k)) + 1
      BY <1>2, <1>4, FS_AddElement
    <2>6. WeightOf(RowsUpto(k + 1)) = WeightOf(RowsUpto(k)) + sorted[k].traffic
      <3>1. sorted[k].traffic \in Nat /\ WeightOf(RowsUpto(k)) \in Nat
        BY <1>3, <1>4
      <3>2. \A x, y \in Nat : x + y = y + x
        OBVIOUS
      <3>. QED  BY <2>1, <2>2, <3>1, <3>2
    <2>7. sorted[k].traffic # 0 =>
            Cardinality(ActiveUpto(k + 1)) = Cardinality(ActiveUpto(k)) + 1
      BY <2>4, <2>5
    <2>. QED  BY <1>6, <2>3, <2>6, <2>7
  <1>. QED  BY <1>5, <1>6

LEMMA PagedInit == Init => Paged
  BY DEF Init, Paged

(* The page begins with no rows.                                           *)
LEMMA PageBegins ==
  ASSUME IInv, Paged, WriteJson
  PROVE  Paged'
  <1>1. /\ phase = "json" /\ phase' = "page" /\ at' = 1
        /\ UNCHANGED <<config, sorted, page, logs>> /\ sorted \in Seq(IpType)
    BY DEF WriteJson, read_vars, IInv, Typed
  <1>2. page.total_traffic = 1 /\ page.active_classes = 0 /\ page.sums = <<>>
    BY <1>1 DEF Paged
  <1>3. Len(sorted) \in Nat
    BY <1>1
  <1>4. RowsUpto(1) = {} /\ ActiveUpto(1) = {}
    BY <1>3 DEF RowsUpto, ActiveUpto
  <1>5. WeightOf(RowsUpto(1)) = 0 /\ Cardinality(ActiveUpto(1)) = 0
    BY <1>4, SumEmpty, FS_EmptySet DEF WeightOf
  <1>6. /\ WeightOf(RowsUpto(at))' = WeightOf(RowsUpto(1))
        /\ Cardinality(ActiveUpto(at))' = Cardinality(ActiveUpto(1))
    BY <1>1 DEF WeightOf, RowsUpto, ActiveUpto, TrafficsIn, HasRow
  <1>7. Len(page'.sums) = 0
    BY <1>1, <1>2
  <1>. QED  BY <1>1, <1>2, <1>3, <1>5, <1>6, <1>7 DEF Paged

(* What a row does to the page, a field at a time.                         *)
LEMMA RowChanges ==
  ASSUME Row
  PROVE  LET ip == sorted[at]
         IN  /\ phase = "page" /\ at <= Len(sorted) /\ at' = at + 1 /\ phase' = "page"
             /\ UNCHANGED <<config, sorted, detected>>
             /\ ~HasRow(ip) => page' = page /\ logs' = logs
             /\ HasRow(ip) =>
                  /\ page'.total_traffic = page.total_traffic + ip.traffic
                  /\ page'.active_classes =
                       page.active_classes + (IF ip.traffic > 0 THEN 1 ELSE 0)
                  /\ page'.sums =
                       IF ip.traffic = 0 THEN page.sums
                       ELSE Append(page.sums, [l |-> page.total_traffic + ip.traffic - 1,
                                               i |-> page.active_classes + 1])
                  /\ logs' = IF detected THEN logs \o Logged(ip) ELSE logs
  <1>. DEFINE ip == sorted[at]
              total == page.total_traffic + ip.traffic
              direct == page.total_direct + ip.direct
              upload == page.total_upload + ip.upload
              active == page.active_classes + (IF ip.traffic > 0 THEN 1 ELSE 0)
              sums == IF ip.traffic = 0 THEN page.sums
                      ELSE Append(page.sums, [l |-> page.total_traffic + ip.traffic - 1,
                                              i |-> page.active_classes + 1])
  <1>1. phase = "page" /\ at <= Len(sorted) /\ at' = at + 1 /\ phase' = "page"
        /\ UNCHANGED <<config, sorted, detected>>
    BY DEF Row, read_vars
  <1>2. ~HasRow(ip) => page' = page /\ logs' = logs
    BY Zenon DEF Row
  <1>3. HasRow(ip) => /\ page' = [total_traffic |-> total, total_direct |-> direct,
                                  total_upload |-> upload, active_classes |-> active,
                                  sums |-> sums]
                      /\ logs' = IF detected THEN logs \o Logged(ip) ELSE logs
    BY Zenon DEF Row
  <1>. HIDE DEF total, direct, upload, active, sums
  <1>4. HasRow(ip) => /\ page'.total_traffic = total /\ page'.active_classes = active
                      /\ page'.sums = sums
    BY <1>3
  <1>. QED  BY <1>1, <1>2, <1>3, <1>4 DEF total, active, sums

LEMMA PageGoesOn ==
  ASSUME IInv, Paged, Row
  PROVE  Paged'
  <1>. DEFINE ip == sorted[at]
  <1>1. /\ phase = "page" /\ at <= Len(sorted) /\ at' = at + 1 /\ phase' = "page"
        /\ config' = config /\ sorted' = sorted
    BY RowChanges
  <1>2. /\ sorted \in Seq(IpType) /\ at \in Nat \ {0} /\ Len(sorted) \in Nat
        /\ page \in PageType
    BY DEF IInv, Typed
  <1>3. at \in 1..Len(sorted)
    BY <1>1, <1>2
  <1>4. /\ page.total_traffic = WeightOf(RowsUpto(at)) + 1
        /\ page.active_classes = Cardinality(ActiveUpto(at))
        /\ Len(page.sums) = page.active_classes
        /\ \A n \in 1..Len(page.sums) : IsSum(page.sums[n], n, at)
    BY <1>1 DEF Paged
  <1>5. /\ page.active_classes \in Nat /\ page.total_traffic \in Nat
        /\ page.sums \in Seq([l : Nat, i : Nat])
    BY <1>2 DEF PageType
  <1>6. ip.traffic \in Nat
    BY <1>2, <1>3, SortedEntry
  <1>7. \A n : /\ RowsUpto(n)' = RowsUpto(n) /\ ActiveUpto(n)' = ActiveUpto(n)
               /\ WeightOf(RowsUpto(n))' = WeightOf(RowsUpto(n))
               /\ WeightOf(ActiveUpto(n))' = WeightOf(ActiveUpto(n))
    BY <1>1 DEF WeightOf, RowsUpto, ActiveUpto, TrafficsIn, HasRow
  <1>8. \A s, n, m : IsSum(s, n, m)' <=> IsSum(s, n, m)
    BY <1>1, <1>7 DEF IsSum
  <1>9. \A s, n : IsSum(s, n, at) => IsSum(s, n, at + 1)
    <2>1. \A k \in 1..Len(sorted) : k < at => k < at + 1
      BY <1>3
    <2>. QED  BY <2>1 DEF IsSum
  <1>10. /\ at + 1 <= Len(sorted) + 1
    BY <1>2, <1>3
  <1>. SUFFICES /\ page'.total_traffic = WeightOf(RowsUpto(at + 1)) + 1
                /\ page'.active_classes = Cardinality(ActiveUpto(at + 1))
                /\ Len(page'.sums) = page'.active_classes
                /\ \A n \in 1..Len(page'.sums) : IsSum(page'.sums[n], n, at + 1)
    <2>1. /\ WeightOf(RowsUpto(at))' = WeightOf(RowsUpto(at + 1))
          /\ Cardinality(ActiveUpto(at))' = Cardinality(ActiveUpto(at + 1))
      BY <1>1 DEF WeightOf, RowsUpto, ActiveUpto, TrafficsIn, HasRow
    <2>2. \A s, n : IsSum(s, n, at)' <=> IsSum(s, n, at + 1)
      BY <1>1, <1>7 DEF IsSum
    <2>. QED  BY <1>1, <1>10, <2>1, <2>2 DEF Paged
  <1>11. CASE ~HasRow(ip)
    <2>1. page' = page
      BY <1>11, RowChanges
    <2>2. RowsUpto(at + 1) = RowsUpto(at) /\ ActiveUpto(at + 1) = ActiveUpto(at)
      BY <1>2, <1>3, <1>11, RowsNext
    <2>. QED  BY <1>4, <1>9, <2>1, <2>2
  <1>12. CASE HasRow(ip)
    <2>1. /\ page'.total_traffic = page.total_traffic + ip.traffic
          /\ page'.active_classes = page.active_classes + (IF ip.traffic > 0 THEN 1 ELSE 0)
          /\ page'.sums = IF ip.traffic = 0 THEN page.sums
                          ELSE Append(page.sums, [l |-> page.total_traffic + ip.traffic - 1,
                                                  i |-> page.active_classes + 1])
      BY <1>12, RowChanges
    <2>2. /\ WeightOf(RowsUpto(at + 1)) = WeightOf(RowsUpto(at)) + ip.traffic
          /\ ip.traffic = 0 => ActiveUpto(at + 1) = ActiveUpto(at)
          /\ ip.traffic # 0 =>
               Cardinality(ActiveUpto(at + 1)) = Cardinality(ActiveUpto(at)) + 1
      BY <1>2, <1>3, <1>12, RowsNext
    <2>3. WeightOf(RowsUpto(at)) \in Nat
      BY <1>2, RowsAreFinite
    <2>4. page'.total_traffic = WeightOf(RowsUpto(at + 1)) + 1
      BY <1>4, <1>6, <2>1, <2>2, <2>3
    <2>5. CASE ip.traffic = 0
      <3>1. page'.active_classes = page.active_classes /\ page'.sums = page.sums
        BY <1>5, <2>1, <2>5
      <3>. QED  BY <1>4, <1>9, <2>2, <2>4, <2>5, <3>1
    <2>6. CASE ip.traffic # 0
      <3>. DEFINE s == [l |-> page.total_traffic + ip.traffic - 1,
                        i |-> page.active_classes + 1]
      <3>1. /\ page'.active_classes = page.active_classes + 1
            /\ page'.sums = Append(page.sums, s)
        BY <1>6, <2>1, <2>6
      <3>2. s.i = page.active_classes + 1 /\ s.l = WeightOf(RowsUpto(at + 1))
        BY <1>4, <1>6, <2>2, <2>3
      <3>. HIDE DEF s
      <3>3. /\ Len(page'.sums) = Len(page.sums) + 1
            /\ page'.sums[Len(page.sums) + 1] = s
            /\ \A n \in 1..Len(page.sums) : page'.sums[n] = page.sums[n]
        BY <1>5, <3>1
      <3>4. WeightOf(RowsUpto(at + 1)) = WeightOf(ActiveUpto(at + 1))
        BY <1>2, RowsAreFinite
      <3>5. IsSum(s, page.active_classes + 1, at + 1)
        <4>1. at < at + 1
          BY <1>2
        <4>2. /\ Cardinality(ActiveUpto(at + 1)) = page.active_classes + 1
              /\ s.l = WeightOf(ActiveUpto(at + 1))
          BY <1>4, <2>2, <2>6, <3>2, <3>4
        <4>. QED  BY <1>3, <3>2, <4>1, <4>2 DEF IsSum
      <3>6. \A n \in 1..(Len(page.sums) + 1) : n \in 1..Len(page.sums) \/ n = Len(page.sums) + 1
        BY <1>4, <1>5
      <3>7. \A n \in 1..Len(page'.sums) : IsSum(page'.sums[n], n, at + 1)
        BY <1>4, <1>9, <3>3, <3>5, <3>6
      <3>. QED  BY <1>4, <2>2, <2>4, <2>6, <3>1, <3>3, <3>7
    <2>. QED  BY <2>5, <2>6
  <1>. QED  BY <1>11, <1>12

LEMMA PagedNext == IInv /\ Paged /\ [Next]_vars => Paged'
  <1>. SUFFICES ASSUME IInv, Paged, [Next]_vars
                PROVE  Paged'
    OBVIOUS
  <1>1. CASE \/ Count \/ Counted \/ Describe \/ AllDescribed \/ Resolving \/ Sorting
             \/ SortNothing
    <2>1. /\ phase \notin {"page", "done"} /\ phase' \notin {"page", "done"}
          /\ UNCHANGED <<page, logs>>
      BY <1>1 DEF Count, Counted, Describe, AllDescribed, Resolving, Sorting, SortNothing,
                  read_vars, book_vars
    <2>. QED  BY <2>1 DEF Paged
  <1>2. CASE WriteJson
    BY <1>2, PageBegins
  <1>3. CASE Row
    BY <1>3, PageGoesOn
  <1>4. CASE PageDone \/ UNCHANGED vars
    <2>1. /\ UNCHANGED <<config, sorted, page, logs, at>>
          /\ \/ phase' = phase
             \/ phase = "page" /\ phase' = "done" /\ at > Len(sorted)
      BY <1>4 DEF PageDone, vars, read_vars
    <2>2. \A n : /\ RowsUpto(n)' = RowsUpto(n) /\ ActiveUpto(n)' = ActiveUpto(n)
                 /\ WeightOf(RowsUpto(n))' = WeightOf(RowsUpto(n))
                 /\ WeightOf(ActiveUpto(n))' = WeightOf(ActiveUpto(n))
      BY <2>1 DEF WeightOf, RowsUpto, ActiveUpto, TrafficsIn, HasRow
    <2>3. /\ WeightOf(RowsUpto(at))' = WeightOf(RowsUpto(at))
          /\ Cardinality(ActiveUpto(at))' = Cardinality(ActiveUpto(at))
      BY <2>1 DEF WeightOf, RowsUpto, ActiveUpto, TrafficsIn, HasRow
    <2>4. \A s, n : IsSum(s, n, at)' <=> IsSum(s, n, at)
      BY <2>1, <2>2 DEF IsSum
    <2>. QED  BY <2>1, <2>3, <2>4 DEF Paged
  <1>. QED  BY <1>1, <1>2, <1>3, <1>4 DEF Next

-----------------------------------------------------------------------------

(* Where no rule has counted a MB, no IP has any traffic.                  *)
Seen ==
  ~detected =>
    /\ phase \in {"count", "hosts"} => \A i \in 1..Len(list) : list[i].traffic = 0
    /\ pos > 0 => \A i \in 1..Len(given) : given[i].traffic = 0

LEMMA SeenInit == Init => Seen
  BY DEF Init, Seen

LEMMA SeqOfSuch ==
  ASSUME NEW T, NEW B, NEW u \in Seq(T), \A i \in 1..Len(u) : u[i] \in B
  PROVE  u \in Seq(B)
  <1>1. Len(u) \in Nat /\ u = [i \in 1..Len(u) |-> u[i]]
    OBVIOUS
  <1>2. [i \in 1..Len(u) |-> u[i]] \in Seq(B)
    BY <1>1, IsASeq
  <1>. QED  BY <1>1, <1>2

LEMMA DescribeSeesNothing ==
  ASSUME IInv, Describe, \A i \in 1..Len(list) : list[i].traffic = 0
  PROVE  \A i \in 1..Len(list') : list'[i].traffic = 0
  <1>1. Typed /\ list \in Seq(IpType)
    BY DEF IInv, Typed
  <1>2. \A i \in 1..Len(list) : list[i] \in Bare
    BY <1>1 DEF Bare
  <1>3. list \in Seq(Bare)
    BY <1>1, <1>2, SeqOfSuch
  <1>4. list' \in Seq(Bare)
    BY <1>1, <1>3, DescribeKeeps
  <1>5. \A i \in 1..Len(list') : list'[i] \in Bare
    BY <1>4
  <1>. QED  BY <1>5 DEF Bare

LEMMA SeenNext == IInv /\ Seen /\ [Next]_vars => Seen'
  <1>. SUFFICES ASSUME IInv, Seen, [Next]_vars, ~detected'
                PROVE  /\ phase' \in {"count", "hosts"} =>
                            \A i \in 1..Len(list') : list'[i].traffic = 0
                       /\ pos' > 0 => \A i \in 1..Len(given') : given'[i].traffic = 0
    BY DEF Seen
  <1>1. phase \in {"count", "hosts"} => pos = 0
    BY DEF IInv, Before
  <1>2. CASE Count
    <2>1. phase = "count" /\ pos' = pos /\ phase' = phase
      BY <1>2 DEF Count
    <2>2. ~detected /\ list' = list
      <3>1. CASE Start \/ Chain
        BY <3>1 DEF Start, Chain
      <3>2. CASE Rule
        BY <3>2 DEF Rule
      <3>. QED  BY <1>2, <3>1, <3>2 DEF Count
    <2>. QED  BY <1>1, <2>1, <2>2 DEF Seen
  <1>3. CASE Counted
    BY <1>1, <1>3 DEF Counted, sharing_vars, Seen
  <1>4. CASE Describe
    <2>1. phase = "hosts" /\ pos' = pos /\ detected' = detected
      BY <1>4 DEF Describe
    <2>2. \A i \in 1..Len(list') : list'[i].traffic = 0
      BY <1>4, <2>1, DescribeSeesNothing DEF Seen
    <2>. QED  BY <1>1, <2>1, <2>2
  <1>5. CASE AllDescribed
    <2>1. phase = "hosts" /\ phase' = "share" /\ given' = list /\ detected' = detected
      BY <1>5 DEF AllDescribed, StartSharing
    <2>. QED  BY <2>1 DEF Seen
  <1>6. CASE Resolving
    <2>1. phase = "share" /\ phase' = phase /\ given' = given /\ detected' = detected
      BY <1>6 DEF Resolving, Share, Own, Resolve, Unresolved
    <2>2. pos > 0
      BY <2>1 DEF IInv, Typed
    <2>. QED  BY <2>1, <2>2 DEF Seen
  <1>7. CASE Sorting \/ SortNothing \/ WriteJson \/ Row \/ PageDone
    <2>1. /\ phase' \notin {"count", "hosts"} /\ given' = given /\ pos' = pos
          /\ detected' = detected
      BY <1>7 DEF Sorting, SortNothing, WriteJson, Row, PageDone, sharing_vars, read_vars
    <2>. QED  BY <2>1 DEF Seen
  <1>8. CASE UNCHANGED vars
    <2>1. UNCHANGED <<phase, given, list, pos, detected>>
      BY <1>8 DEF vars, sharing_vars
    <2>. QED  BY <2>1 DEF Seen
  <1>. QED  BY <1>2, <1>3, <1>4, <1>5, <1>6, <1>7, <1>8 DEF Next

-----------------------------------------------------------------------------

(* What the pass left of an IP of the sorted list.                         *)
LEMMA SortedIsList ==
  ASSUME list \in Seq(IpType), sorted = Sort(list, LessTraffic)
  PROVE  /\ sorted \in Seq(IpType) /\ Len(sorted) = Len(list)
         /\ \A i \in 1..Len(sorted) : \E k \in 1..Len(list) : sorted[i] = list[k]
         /\ \A k \in 1..Len(list) : \E i \in 1..Len(sorted) : sorted[i] = list[k]
  <1>1. sorted \in Seq(IpType) /\ Reordered(sorted, list, Len(list))
    BY SortedProperties
  <1>2. Len(sorted) = Len(list)
    BY <1>1 DEF Reordered
  <1>3. PICK p \in Perm(Len(list)) : \A i \in 1..Len(list) : sorted[i] = list[p[i]]
    BY <1>1 DEF Reordered
  <1>4. /\ \A i \in 1..Len(list) : p[i] \in 1..Len(list)
        /\ \A k \in 1..Len(list) : \E i \in 1..Len(list) : p[i] = k
    BY DEF Perm
  <1>5. \A i \in 1..Len(sorted) : \E k \in 1..Len(list) : sorted[i] = list[k]
    BY <1>2, <1>3, <1>4
  <1>6. \A k \in 1..Len(list) : \E i \in 1..Len(sorted) : sorted[i] = list[k]
    <2>. TAKE k \in 1..Len(list)
    <2>1. PICK i \in 1..Len(list) : p[i] = k
      BY <1>4
    <2>2. i \in 1..Len(sorted) /\ sorted[i] = list[k]
      BY <1>2, <1>3, <2>1
    <2>. QED  BY <2>2
  <1>. QED  BY <1>1, <1>2, <1>5, <1>6

LEMMA EndedPass ==
  ASSUME Typed, Pass, Ended, NEW k \in 1..Len(list)
  PROVE  /\ k \in 1..Len(given) /\ pos > 0 /\ Same(list[k], given[k]) /\ given[k] \in IpType
         /\ given[k].sharing # NoName /\ ~Shares(k) => k \in unresolved
         /\ Direct(given) /\ Shares(k) => list[k].traffic = 0
  <1>1. /\ pos = Len(list) + 1 /\ Len(given) = Len(list) /\ Len(list) \in Nat
        /\ given \in Seq(IpType)
    BY DEF Ended, Typed
  <1>2. pos > 0 /\ k < pos /\ k \in 1..Len(given) /\ given[k] \in IpType
    BY <1>1
  <1>3. /\ Same(list[k], given[k])
        /\ k \in unresolved <=> k < pos /\ given[k].sharing # NoName /\ ~Shares(k)
        /\ Direct(given) => Halfway
    BY <1>2 DEF Pass
  <1>4. ASSUME Direct(given), Shares(k)
        PROVE  list[k].traffic = 0
    <2>1. HandedOver(k)
      BY <1>2, <1>3, <1>4 DEF Halfway
    <2>. QED  BY <1>2, <2>1 DEF HandedOver
  <1>. QED  BY <1>2, <1>3, <1>4

(* An IP that shares with a name of the list has handed its traffic over.  *)
LEMMA SharersHaveNothing ==
  ASSUME Typed, Pass, Ended, Direct(given), sorted = Sort(list, LessTraffic),
         NEW i \in 1..Len(sorted), NEW j \in 1..Len(sorted), sorted[j].sharing = sorted[i].name
  PROVE  sorted[j].traffic = 0
  <1>1. list \in Seq(IpType) /\ given \in Seq(IpType)
    BY DEF Typed
  <1>2. PICK k \in 1..Len(list) : sorted[i] = list[k]
    BY <1>1, SortedIsList
  <1>3. PICK m \in 1..Len(list) : sorted[j] = list[m]
    BY <1>1, SortedIsList
  <1>4. /\ k \in 1..Len(given) /\ Same(list[k], given[k]) /\ given[k] \in IpType
        /\ m \in 1..Len(given) /\ Same(list[m], given[m])
        /\ Shares(m) => list[m].traffic = 0
    BY EndedPass
  <1>5. given[m].sharing = given[k].name
    BY <1>2, <1>3, <1>4 DEF Same
  <1>6. given[k].name # NoName
    BY <1>4, SharingAssumption DEF IpType
  <1>7. FirstOf(given, given[m].sharing) # 0
    <2>1. FirstOf(given, given[m].sharing) = 0 =>
            \A n \in 1..Len(given) : given[n].name # given[m].sharing
      BY <1>1, FirstOfProperties
    <2>. QED  BY <1>4, <1>5, <2>1
  <1>8. Shares(m)
    BY <1>5, <1>6, <1>7 DEF Shares
  <1>. QED  BY <1>3, <1>4, <1>8

TrafficOfLog == [r \in LogType |-> r.traffic]
TrafficSum(l) == SumOver(l, TrafficOfLog, LogType)

LEMMA LogTerms == \A r \in LogType : TrafficOfLog[r] \in Nat
  BY DEF TrafficOfLog, LogType

(* The entries that a row writes: its IP, and those that share its class.  *)
LEMMA LoggedEntries ==
  ASSUME sorted \in Seq(IpType), NEW i \in 1..Len(sorted)
  PROVE  LET w == Logged(sorted[i])
         IN  /\ w \in Seq(LogType) /\ Len(w) >= 1 /\ w[1] = Record(sorted[i])
             /\ \A n \in 2..Len(w) : \E j \in 1..Len(sorted) :
                  sorted[j].sharing = sorted[i].name /\ w[n] = Record(sorted[j])
             /\ \A j \in 1..Len(sorted) : sorted[j].sharing = sorted[i].name =>
                  \E n \in 1..Len(w) : w[n] = Record(sorted[j])
  <1>. DEFINE ip == sorted[i]
              u == SharersIn(sorted, ip)
              who == <<ip>> \o u
  <1>1. ip \in IpType
    OBVIOUS
  <1>2. u \in Seq(IpType) /\ Selects(u, sorted, Len(sorted), Sharing(ip))
    BY SharersInProperties
  <1>3. PICK p \in [1..Len(u) -> {k \in 1..Len(sorted) : sorted[k] \in Sharing(ip)}] :
          /\ \A k \in 1..Len(sorted) : sorted[k] \in Sharing(ip) => \E n \in 1..Len(u) : p[n] = k
          /\ \A n \in 1..Len(u) : u[n] = sorted[p[n]]
    <2>. HIDE DEF u
    <2>. QED  BY <1>2 DEF Selects
  <1>4. \A k \in 1..Len(sorted) : sorted[k] \in Sharing(ip) <=> sorted[k].sharing = ip.name
    BY DEF Sharing
  <1>. HIDE DEF u
  <1>5. /\ \A n \in 1..Len(u) : \E j \in 1..Len(sorted) :
             sorted[j].sharing = ip.name /\ u[n] = sorted[j]
        /\ \A j \in 1..Len(sorted) : sorted[j].sharing = ip.name =>
             \E n \in 1..Len(u) : u[n] = sorted[j]
    BY <1>3, <1>4
  <1>6. <<ip>> \in Seq(IpType) /\ Len(<<ip>>) = 1 /\ <<ip>>[1] = ip /\ Len(u) \in Nat
    BY <1>2
  <1>7. /\ who \in Seq(IpType) /\ Len(who) = 1 + Len(u)
        /\ \A n \in 1..(1 + Len(u)) : who[n] = IF n <= 1 THEN <<ip>>[n] ELSE u[n - 1]
    BY <1>1, <1>2, <1>6, ConcatProperties
  <1>8. Logged(ip) = [n \in 1..Len(who) |-> Record(who[n])]
    BY DEF Logged, u
  <1>9. Logged(ip) \in Seq(LogType)
    BY <1>1, LoggedType
  <1>. HIDE DEF ip, who
  <1>10. /\ Len(Logged(ip)) = 1 + Len(u)
         /\ \A n \in 1..(1 + Len(u)) : Logged(ip)[n] = Record(who[n])
    BY <1>6, <1>7, <1>8
  <1>11. who[1] = ip /\ 1 \in 1..(1 + Len(u))
    BY <1>6, <1>7
  <1>12. \A n \in 2..(1 + Len(u)) : n - 1 \in 1..Len(u) /\ n \in 1..(1 + Len(u)) /\ who[n] = u[n - 1]
    BY <1>6, <1>7
  <1>13. \A n \in 1..Len(u) : n + 1 \in 1..(1 + Len(u)) /\ who[n + 1] = u[n]
    <2>1. \A n \in 1..Len(u) : n + 1 \in 1..(1 + Len(u)) /\ ~(n + 1 <= 1) /\ n + 1 - 1 = n
      BY <1>6
    <2>. QED  BY <1>7, <2>1
  <1>14. \A n \in 2..Len(Logged(ip)) : \E j \in 1..Len(sorted) :
           sorted[j].sharing = ip.name /\ Logged(ip)[n] = Record(sorted[j])
    <2>. SUFFICES ASSUME NEW n \in 2..(1 + Len(u))
                  PROVE  \E j \in 1..Len(sorted) :
                           sorted[j].sharing = ip.name /\ Logged(ip)[n] = Record(sorted[j])
      BY <1>10
    <2>1. n - 1 \in 1..Len(u) /\ n \in 1..(1 + Len(u)) /\ who[n] = u[n - 1]
      BY <1>12
    <2>2. PICK j \in 1..Len(sorted) : sorted[j].sharing = ip.name /\ u[n - 1] = sorted[j]
      BY <1>5, <2>1
    <2>3. Logged(ip)[n] = Record(sorted[j])
      BY <1>10, <2>1, <2>2
    <2>. QED  BY <2>2, <2>3
  <1>15. \A j \in 1..Len(sorted) : sorted[j].sharing = ip.name =>
           \E n \in 1..Len(Logged(ip)) : Logged(ip)[n] = Record(sorted[j])
    <2>. SUFFICES ASSUME NEW j \in 1..Len(sorted), sorted[j].sharing = ip.name
                  PROVE  \E n \in 1..Len(Logged(ip)) : Logged(ip)[n] = Record(sorted[j])
      OBVIOUS
    <2>1. PICK n \in 1..Len(u) : u[n] = sorted[j]
      BY <1>5
    <2>2. n + 1 \in 1..Len(Logged(ip)) /\ Logged(ip)[n + 1] = Record(sorted[j])
      BY <1>10, <1>13, <2>1
    <2>. QED  BY <2>2
  <1>16. Len(Logged(ip)) >= 1 /\ Logged(ip)[1] = Record(ip)
    BY <1>6, <1>10, <1>11
  <1>. QED  BY <1>9, <1>14, <1>15, <1>16 DEF ip

(* They sum up to the traffic of the row.                                  *)
LEMMA LoggedSum ==
  ASSUME Typed, Pass, Ended, Direct(given), sorted = Sort(list, LessTraffic),
         NEW i \in 1..Len(sorted)
  PROVE  TrafficSum(Logged(sorted[i])) = sorted[i].traffic
  <1>. DEFINE w == Logged(sorted[i])
              f == [n \in 1..Len(w) |-> TrafficOfLog[w[n]]]
  <1>1. sorted \in Seq(IpType)
    BY DEF Typed
  <1>2. /\ w \in Seq(LogType) /\ Len(w) >= 1 /\ w[1] = Record(sorted[i])
        /\ \A n \in 2..Len(w) : \E j \in 1..Len(sorted) :
             sorted[j].sharing = sorted[i].name /\ w[n] = Record(sorted[j])
    BY <1>1, LoggedEntries
  <1>3. sorted[i] \in IpType /\ sorted[i].traffic \in Nat
    BY <1>1, SortedEntry
  <1>. HIDE DEF w
  <1>4. Len(w) \in Nat /\ 1 \in 1..Len(w) /\ {1} \in SUBSET (1..Len(w))
    BY <1>2
  <1>5. IsFiniteSet(1..Len(w))
    BY <1>4, CountUpTo
  <1>6. \A n \in 1..Len(w) : f[n] = w[n].traffic /\ f[n] \in Nat
    <2>1. \A n \in 1..Len(w) : w[n] \in LogType
      BY <1>2
    <2>. QED  BY <2>1 DEF TrafficOfLog, LogType
  <1>7. f[1] = sorted[i].traffic
    BY <1>2, <1>4, <1>6 DEF Record
  <1>8. \A n \in (1..Len(w)) \ {1} : f[n] = 0
    <2>. SUFFICES ASSUME NEW n \in (1..Len(w)) \ {1}
                  PROVE  f[n] = 0
      OBVIOUS
    <2>1. n \in 2..Len(w)
      BY <1>4
    <2>2. PICK j \in 1..Len(sorted) : /\ sorted[j].sharing = sorted[i].name
                                      /\ w[n] = Record(sorted[j])
      BY <1>2, <2>1
    <2>3. sorted[j].traffic = 0
      BY <2>2, SharersHaveNothing
    <2>. QED  BY <1>6, <2>2, <2>3 DEF Record
  <1>. HIDE DEF f
  <1>9. SumFunctionOnSet(f, 1..Len(w)) = SumFunctionOnSet(f, {1})
    BY <1>4, <1>5, <1>6, <1>8, SumWithoutZeros
  <1>10. SumFunctionOnSet(f, {} \cup {1}) = f[1] + SumFunctionOnSet(f, {})
    <2>1. IsFiniteSet({}) /\ 1 \notin {} /\ \A n \in {} \cup {1} : f[n] \in Nat
      BY <1>4, <1>6, FS_EmptySet
    <2>. QED  BY <2>1, SumAdd
  <1>11. SumFunctionOnSet(f, {1}) = f[1]
    <2>1. {} \cup {1} = {1} /\ SumFunctionOnSet(f, {}) = 0
      BY SumEmpty
    <2>2. f[1] + 0 = f[1]
      BY <1>4, <1>6
    <2>. QED  BY <1>10, <2>1, <2>2
  <1>12. TrafficSum(w) = SumFunctionOnSet(f, 1..Len(w))
    BY <1>2, SumOverWhole DEF TrafficSum, f
  <1>. QED  BY <1>7, <1>9, <1>11, <1>12 DEF w

(* The traffic log has what the rows so far have, whose IPs are in it, as  *)
(* are those that share with them.                                         *)
InLogs(n) == \E j \in 1..Len(logs) : logs[j].name = n
Logbook ==
  phase \in {"page", "done"} =>
    IF detected
    THEN /\ Direct(given) => TrafficSum(logs) = WeightOf(RowsUpto(at))
         /\ \A i \in RowsUpto(at), j \in 1..Len(sorted) :
              j = i \/ sorted[j].sharing = sorted[i].name => InLogs(sorted[j].name)
    ELSE logs = <<>>

LEMMA LogbookBegins ==
  ASSUME IInv, Paged, WriteJson
  PROVE  Logbook'
  <1>1. /\ phase = "json" /\ at' = 1
        /\ UNCHANGED <<config, sorted, logs, detected>> /\ sorted \in Seq(IpType)
    BY DEF WriteJson, read_vars, IInv, Typed
  <1>2. logs = <<>> /\ Len(sorted) \in Nat /\ logs \in Seq(LogType) /\ Len(logs) = 0
    BY <1>1 DEF Paged, IInv, Typed
  <1>3. RowsUpto(1) = {}
    BY <1>2 DEF RowsUpto
  <1>4. WeightOf(RowsUpto(1)) = 0
    BY <1>3, SumEmpty DEF WeightOf
  <1>5. RowsUpto(at)' = RowsUpto(1) /\ WeightOf(RowsUpto(at))' = WeightOf(RowsUpto(1))
    BY <1>1 DEF WeightOf, RowsUpto, TrafficsIn, HasRow
  <1>6. TrafficSum(logs) = 0
    <2>1. Places(logs, LogType) = {}
      BY <1>2 DEF Places
    <2>. QED  BY <2>1, SumEmpty DEF TrafficSum, SumOver
  <1>7. TrafficSum(logs)' = TrafficSum(logs)
    BY <1>1 DEF TrafficSum
  <1>. QED  BY <1>1, <1>2, <1>3, <1>4, <1>5, <1>6, <1>7 DEF Logbook

LEMMA LogbookGoesOn ==
  ASSUME IInv, Written, Logbook, Row
  PROVE  Logbook'
  <1>. DEFINE ip == sorted[at]
              w == Logged(ip)
  <1>1. /\ phase = "page" /\ at <= Len(sorted) /\ at' = at + 1 /\ phase' = "page"
        /\ config' = config /\ sorted' = sorted /\ detected' = detected /\ given' = given
    BY RowChanges DEF Row, sharing_vars
  <1>2. /\ sorted \in Seq(IpType) /\ at \in Nat \ {0} /\ Len(sorted) \in Nat
        /\ logs \in Seq(LogType) /\ Typed /\ Pass
    BY DEF IInv, Typed
  <1>3. at \in 1..Len(sorted)
    BY <1>1, <1>2
  <1>4. Ended /\ sorted = Sort(list, LessTraffic)
    BY <1>1 DEF Written
  <1>5. \A n : RowsUpto(n)' = RowsUpto(n) /\ WeightOf(RowsUpto(n))' = WeightOf(RowsUpto(n))
    BY <1>1 DEF WeightOf, RowsUpto, TrafficsIn, HasRow
  <1>6. RowsUpto(at)' = RowsUpto(at + 1) /\ WeightOf(RowsUpto(at))' = WeightOf(RowsUpto(at + 1))
    BY <1>1 DEF WeightOf, RowsUpto, TrafficsIn, HasRow
  <1>7. Direct(given)' <=> Direct(given)
    BY <1>1
  <1>8. CASE ~detected
    <2>1. logs' = logs /\ logs = <<>>
      BY <1>1, <1>8, RowChanges DEF Logbook
    <2>. QED  BY <1>1, <1>8, <2>1 DEF Logbook
  <1>9. CASE detected /\ ~HasRow(ip)
    <2>1. logs' = logs
      BY <1>9, RowChanges
    <2>2. RowsUpto(at + 1) = RowsUpto(at)
      BY <1>2, <1>3, <1>9, RowsNext
    <2>3. TrafficSum(logs)' = TrafficSum(logs) /\ \A n : InLogs(n)' <=> InLogs(n)
      BY <2>1 DEF TrafficSum, InLogs
    <2>. QED  BY <1>1, <1>6, <1>7, <1>9, <2>2, <2>3 DEF Logbook
  <1>10. CASE detected /\ HasRow(ip)
    <2>1. logs' = logs \o w
      BY <1>10, RowChanges
    <2>2. /\ w \in Seq(LogType) /\ Len(w) >= 1 /\ w[1] = Record(ip)
          /\ \A j \in 1..Len(sorted) : sorted[j].sharing = ip.name =>
               \E n \in 1..Len(w) : w[n] = Record(sorted[j])
      BY <1>2, <1>3, LoggedEntries
    <2>. HIDE DEF w
    <2>3. /\ Len(logs') = Len(logs) + Len(w) /\ Len(logs) \in Nat /\ Len(w) \in Nat
          /\ \A n \in 1..(Len(logs) + Len(w)) :
               logs'[n] = IF n <= Len(logs) THEN logs[n] ELSE w[n - Len(logs)]
      BY <1>2, <2>1, <2>2, ConcatProperties
    <2>4. ASSUME Direct(given)
          PROVE  TrafficSum(logs)' = WeightOf(RowsUpto(at + 1))
      <3>1. TrafficSum(w) = ip.traffic
        BY <1>2, <1>3, <1>4, <2>4, LoggedSum DEF w
      <3>2. TrafficSum(logs \o w) = TrafficSum(logs) + TrafficSum(w)
        BY <1>2, <2>2, SumOverConcat, LogTerms DEF TrafficSum
      <3>3. TrafficSum(logs) = WeightOf(RowsUpto(at))
        BY <1>1, <1>10, <2>4 DEF Logbook
      <3>4. WeightOf(RowsUpto(at + 1)) = WeightOf(RowsUpto(at)) + ip.traffic
        BY <1>2, <1>3, <1>10, RowsNext
      <3>5. TrafficSum(logs)' = TrafficSum(logs \o w)
        BY <2>1 DEF TrafficSum
      <3>. QED  BY <3>1, <3>2, <3>3, <3>4, <3>5
    <2>. DEFINE Later(n) == \E j \in 1..Len(logs') : logs'[j].name = n
    <2>5. \A n : InLogs(n) => Later(n)
      <3>. SUFFICES ASSUME NEW n, NEW j \in 1..Len(logs), logs[j].name = n
                    PROVE  Later(n)
        BY DEF InLogs
      <3>1. j \in 1..Len(logs') /\ logs'[j] = logs[j]
        BY <2>3
      <3>. QED  BY <3>1
    <2>6. \A n \in 1..Len(w) : Later(w[n].name)
      <3>. SUFFICES ASSUME NEW n \in 1..Len(w)
                    PROVE  Later(w[n].name)
        OBVIOUS
      <3>1. n + Len(logs) \in 1..Len(logs')
        BY <2>3
      <3>2. ~(n + Len(logs) <= Len(logs)) /\ n + Len(logs) - Len(logs) = n
        BY <2>3
      <3>3. logs'[n + Len(logs)] = w[n]
        BY <2>3, <3>1, <3>2
      <3>. QED  BY <3>1, <3>3
    <2>. HIDE DEF Later
    <2>7. ASSUME NEW i \in RowsUpto(at + 1), NEW j \in 1..Len(sorted),
                 j = i \/ sorted[j].sharing = sorted[i].name
          PROVE  Later(sorted[j].name)
      <3>1. CASE i = at
        <4>1. \E n \in 1..Len(w) : w[n] = Record(sorted[j])
          <5>1. CASE j = i
            BY <2>2, <2>3, <3>1, <5>1
          <5>2. CASE sorted[j].sharing = sorted[i].name
            BY <2>2, <3>1, <5>2
          <5>. QED  BY <2>7, <5>1, <5>2
        <4>2. PICK n \in 1..Len(w) : w[n].name = sorted[j].name
          BY <4>1 DEF Record
        <4>. QED  BY <2>6, <4>2
      <3>2. CASE i # at
        <4>1. i \in RowsUpto(at)
          BY <1>3, <3>2 DEF RowsUpto
        <4>2. InLogs(sorted[j].name)
          BY <1>1, <1>10, <2>7, <4>1 DEF Logbook
        <4>. QED  BY <2>5, <4>2
      <3>. QED  BY <3>1, <3>2
    <2>8. \A i \in RowsUpto(at)', j \in 1..Len(sorted') :
            j = i \/ sorted'[j].sharing = sorted'[i].name => InLogs(sorted[j].name)'
      <3>1. \A i \in RowsUpto(at + 1), j \in 1..Len(sorted) :
              j = i \/ sorted[j].sharing = sorted[i].name => Later(sorted[j].name)
        BY <2>7
      <3>2. \A j : InLogs(sorted[j].name)' <=> Later(sorted[j].name)
        BY <1>1 DEF InLogs, Later
      <3>. QED  BY <1>1, <1>6, <3>1, <3>2
    <2>9. Direct(given)' => TrafficSum(logs)' = WeightOf(RowsUpto(at))'
      BY <1>6, <1>7, <2>4
    <2>. QED  BY <1>1, <1>10, <2>8, <2>9 DEF Logbook
  <1>. QED  BY <1>8, <1>9, <1>10

LEMMA LogbookInit == Init => Logbook
  BY DEF Init, Logbook

LEMMA LogbookNext == IInv /\ Written /\ Paged /\ Logbook /\ [Next]_vars => Logbook'
  <1>. SUFFICES ASSUME IInv, Written, Paged, Logbook, [Next]_vars
                PROVE  Logbook'
    OBVIOUS
  <1>1. CASE \/ Count \/ Counted \/ Describe \/ AllDescribed \/ Resolving \/ Sorting
             \/ SortNothing
    <2>1. phase' \notin {"page", "done"}
      BY <1>1 DEF Count, Counted, Describe, AllDescribed, Resolving, Sorting, SortNothing,
                  read_vars
    <2>. QED  BY <2>1 DEF Logbook
  <1>2. CASE WriteJson
    BY <1>2, LogbookBegins
  <1>3. CASE Row
    BY <1>3, LogbookGoesOn
  <1>4. CASE PageDone \/ UNCHANGED vars
    <2>1. /\ UNCHANGED <<config, sorted, logs, at, detected, given>>
          /\ phase' \in {"page", "done"} => phase \in {"page", "done"}
      BY <1>4 DEF PageDone, vars, read_vars, sharing_vars
    <2>2. /\ RowsUpto(at)' = RowsUpto(at) /\ WeightOf(RowsUpto(at))' = WeightOf(RowsUpto(at))
          /\ (Direct(given)' <=> Direct(given)) /\ TrafficSum(logs)' = TrafficSum(logs)
      BY <2>1 DEF WeightOf, RowsUpto, TrafficsIn, HasRow, TrafficSum
    <2>3. \A n : InLogs(n)' <=> InLogs(n)
      BY <2>1 DEF InLogs
    <2>4. \A j : InLogs(sorted[j].name)' <=> InLogs(sorted[j].name)
      BY <2>1 DEF InLogs
    <2>. QED  BY <2>1, <2>2, <2>4 DEF Logbook
  <1>. QED  BY <1>1, <1>2, <1>3, <1>4 DEF Next

-----------------------------------------------------------------------------

TrafficOfIp == [e \in IpType |-> e.traffic]

(* The sum over a whole list, in the three ways that it is written.        *)
LEMMA WholeTraffic ==
  ASSUME NEW l \in Seq(IpType)
  PROVE  /\ SumFunctionOnSet(TrafficsIn(l), 1..Len(l)) = SumOver(l, TrafficOfIp, IpType)
         /\ Total(l, TrafficOf) = SumFunctionOnSet(TrafficsIn(l), 1..Len(l))
         /\ SumFunction([i \in 1..Len(l) |-> l[i].traffic])
              = SumFunctionOnSet(TrafficsIn(l), 1..Len(l))
         /\ \A i \in 1..Len(l) : TrafficsIn(l)[i] = l[i].traffic /\ l[i].traffic \in Nat
         /\ IsFiniteSet(1..Len(l))
  <1>1. \A i \in 1..Len(l) : TrafficsIn(l)[i] = l[i].traffic /\ l[i].traffic \in Nat
                             /\ TrafficOfIp[l[i]] = l[i].traffic
    <2>1. \A i \in 1..Len(l) : l[i] \in IpType
      OBVIOUS
    <2>. QED  BY <2>1 DEF IpType, TrafficsIn, TrafficOfIp
  <1>2. IsFiniteSet(1..Len(l))
    BY CountUpTo
  <1>3. SumFunction([i \in 1..Len(l) |-> l[i].traffic])
          = SumFunctionOnSet(TrafficsIn(l), 1..Len(l))
    BY DEF SumFunction, SumFunctionOnSet, FoldFunction, TrafficsIn
  <1>4. Total(l, TrafficOf) = SumFunction([i \in 1..Len(l) |-> l[i].traffic])
    BY DEF Total, TrafficOf
  <1>5. [i \in 1..Len(l) |-> TrafficOfIp[l[i]]] = TrafficsIn(l)
    BY <1>1 DEF TrafficsIn
  <1>6. SumOver(l, TrafficOfIp, IpType) = SumFunctionOnSet(TrafficsIn(l), 1..Len(l))
    BY <1>5, SumOverWhole
  <1>. QED  BY <1>1, <1>2, <1>3, <1>4, <1>6

(* What the rows of the page have is what the IPs were given.              *)
LEMMA RowsHaveAll ==
  ASSUME Typed, Pass, TrafficConserved, Ended, sorted = Sort(list, LessTraffic),
         Direct(given), config.popups => unresolved = {}
  PROVE  WeightOf(RowsUpto(Len(sorted) + 1)) = Total(given, TrafficOf)
  <1>. DEFINE all == 1..Len(sorted)
              rows == RowsUpto(Len(sorted) + 1)
  <1>1. /\ list \in Seq(IpType) /\ given \in Seq(IpType) /\ sorted \in Seq(IpType)
        /\ Len(sorted) \in Nat
    BY DEF Typed
  <1>2. WeightOf(all) = WeightOf(rows)
    <2>1. rows \in SUBSET all
      BY <1>1, RowsAreFinite
    <2>2. \A i \in all \ rows : TrafficsIn(sorted)[i] = 0
      <3>. SUFFICES ASSUME NEW i \in all \ rows
                    PROVE  TrafficsIn(sorted)[i] = 0
        OBVIOUS
      <3>1. ~HasRow(sorted[i])
        BY <1>1 DEF RowsUpto
      <3>2. config.popups /\ sorted[i].sharing # NoName
        BY <3>1 DEF HasRow
      <3>3. PICK k \in 1..Len(list) : sorted[i] = list[k]
        BY <1>1, SortedIsList
      <3>4. /\ Same(list[k], given[k])
            /\ given[k].sharing # NoName /\ ~Shares(k) => k \in unresolved
            /\ Shares(k) => list[k].traffic = 0
        BY EndedPass
      <3>5. list[k].traffic = 0
        BY <3>2, <3>3, <3>4 DEF Same
      <3>6. TrafficsIn(sorted)[i] = sorted[i].traffic
        BY <1>1, SortedEntry
      <3>. QED  BY <3>3, <3>5, <3>6
    <2>3. IsFiniteSet(all) /\ \A i \in all : TrafficsIn(sorted)[i] \in Nat
      BY <1>1, WholeTraffic
    <2>. HIDE DEF all, rows
    <2>. QED  BY <2>1, <2>2, <2>3, SumWithoutZeros DEF WeightOf
  <1>3. SumOver(sorted, TrafficOfIp, IpType) = SumOver(list, TrafficOfIp, IpType)
    <2>1. Reordered(sorted, list, Len(list))
      BY <1>1, SortedProperties
    <2>2. \A e \in IpType : TrafficOfIp[e] \in Nat
      BY DEF TrafficOfIp, IpType
    <2>3. list \in Seq(IpType) /\ sorted \in Seq(IpType)
      BY <1>1
    <2>. QED  BY <2>1, <2>2, <2>3, SumOverReordered
  <1>4. WeightOf(all) = SumOver(sorted, TrafficOfIp, IpType)
    BY <1>1, WholeTraffic DEF WeightOf
  <1>5. SumFunction([i \in 1..Len(list) |-> list[i].traffic])
          = SumFunction([i \in 1..Len(given) |-> given[i].traffic])
    <2>1. pos > 0
      BY <1>1 DEF Ended
    <2>2. ASSUME NEW i \in 1..Len(given)
          PROVE  FirstOf(given, given[i].sharing) # i
      <3>1. CASE given[i].sharing = NoName
        <4>1. FirstOf(given, NoName) # 0 => given[FirstOf(given, NoName)].name = NoName
              /\ FirstOf(given, NoName) \in 0..Len(given)
          BY <1>1, FirstOfProperties
        <4>2. given[i] \in IpType
          BY <1>1
        <4>3. given[i].name # NoName
          BY <4>2, SharingAssumption DEF IpType
        <4>. QED  BY <3>1, <4>1, <4>3
      <3>2. CASE given[i].sharing # NoName
        <4>1. FirstOf(given, given[i].sharing) # 0 => FirstOf(given, given[i].sharing) # i
          BY <1>1, <3>2, SharesWithOwner
        <4>. QED  BY <4>1
      <3>. QED  BY <3>1, <3>2
    <2>. QED  BY <2>1, <2>2 DEF TrafficConserved
  <1>6. SumFunction([i \in 1..Len(list) |-> list[i].traffic])
          = SumOver(list, TrafficOfIp, IpType)
    BY <1>1, WholeTraffic
  <1>7. SumFunction([i \in 1..Len(given) |-> given[i].traffic]) = Total(given, TrafficOf)
    BY <1>1, WholeTraffic
  <1>. QED  BY <1>2, <1>3, <1>4, <1>5, <1>6, <1>7

(* The page and the log have the traffic that was counted, and nobody is   *)
(* missing in the log: with and without popups, for every list.            *)
THEOREM BooksAreBalanced == Spec => []BooksBalance
  <1>1. IInv /\ Written /\ Paged /\ Seen /\ Logbook => BooksBalance
    <2>. SUFFICES ASSUME IInv, Written, Paged, Seen, Logbook, phase = "done", Direct(given),
                         config.popups => unresolved = {}
                  PROVE  /\ page.total_traffic - 1 = Total(given, TrafficOf)
                         /\ Total(logs, TrafficOf) = Total(given, TrafficOf)
                         /\ \A i \in 1..Len(given) :
                              detected => \E j \in 1..Len(logs) : logs[j].name = given[i].name
      BY DEF BooksBalance
    <2>1. /\ Typed /\ Pass /\ TrafficConserved /\ Ended /\ sorted = Sort(list, LessTraffic)
          /\ list \in Seq(IpType) /\ given \in Seq(IpType) /\ sorted \in Seq(IpType)
          /\ logs \in Seq(LogType) /\ Len(sorted) \in Nat /\ at \in Nat
      BY DEF IInv, Typed, Written
    <2>2. /\ at = Len(sorted) + 1 /\ page.total_traffic = WeightOf(RowsUpto(at)) + 1
      BY <2>1 DEF Paged
    <2>3. WeightOf(RowsUpto(at)) = Total(given, TrafficOf)
      BY <2>1, <2>2, RowsHaveAll
    <2>4. WeightOf(RowsUpto(at)) \in Nat
      BY <2>1, RowsAreFinite
    <2>5. page.total_traffic - 1 = Total(given, TrafficOf)
      BY <2>2, <2>3, <2>4
    <2>6. Total(logs, TrafficOf) = TrafficSum(logs)
      <3>1. \A i \in 1..Len(logs) : TrafficOfLog[logs[i]] = logs[i].traffic
        <4>1. \A i \in 1..Len(logs) : logs[i] \in LogType
          BY <2>1
        <4>. QED  BY <4>1 DEF TrafficOfLog
      <3>2. [i \in 1..Len(logs) |-> TrafficOfLog[logs[i]]] = [i \in 1..Len(logs) |-> logs[i].traffic]
        BY <3>1
      <3>3. TrafficSum(logs) = SumFunctionOnSet([i \in 1..Len(logs) |-> logs[i].traffic],
                                                1..Len(logs))
        <4>. DEFINE f == [i \in 1..Len(logs) |-> TrafficOfLog[logs[i]]]
        <4>1. SumOver(logs, TrafficOfLog, LogType) = SumFunctionOnSet(f, 1..Len(logs))
          BY <2>1, SumOverWhole
        <4>2. f = [i \in 1..Len(logs) |-> logs[i].traffic]
          BY <3>2
        <4>. HIDE DEF f
        <4>. QED  BY <4>1, <4>2 DEF TrafficSum
      <3>4. Total(logs, TrafficOf) = SumFunction([i \in 1..Len(logs) |-> logs[i].traffic])
        BY DEF Total, TrafficOf
      <3>. QED  BY <3>3, <3>4 DEF SumFunction, SumFunctionOnSet, FoldFunction
    <2>7. CASE ~detected
      <3>1. logs = <<>>
        BY <2>7 DEF Logbook
      <3>2. TrafficSum(logs) = 0
        <4>1. Places(logs, LogType) = {}
          BY <3>1 DEF Places
        <4>. QED  BY <4>1, SumEmpty DEF TrafficSum, SumOver
      <3>3. Total(given, TrafficOf) = 0
        <4>1. pos > 0
          BY <2>1 DEF Ended, Typed
        <4>2. \A i \in 1..Len(given) : given[i].traffic = 0
          BY <2>7, <4>1 DEF Seen
        <4>3. /\ IsFiniteSet(1..Len(given))
              /\ \A i \in 1..Len(given) : TrafficsIn(given)[i] = given[i].traffic
              /\ Total(given, TrafficOf) = SumFunctionOnSet(TrafficsIn(given), 1..Len(given))
          BY <2>1, WholeTraffic
        <4>4. \A i \in 1..Len(given) : TrafficsIn(given)[i] = 0
          BY <4>2, <4>3
        <4>. QED  BY <4>3, <4>4, SumZero
      <3>. QED  BY <2>5, <2>6, <2>7, <3>2, <3>3
    <2>8. CASE detected
      <3>1. TrafficSum(logs) = WeightOf(RowsUpto(at))
        BY <2>8 DEF Logbook
      <3>2. ASSUME NEW k \in 1..Len(given)
            PROVE  InLogs(given[k].name)
        <4>1. k \in 1..Len(list)
          BY <2>1 DEF Ended
        <4>2. PICK j \in 1..Len(sorted) : sorted[j] = list[k]
          BY <2>1, <4>1, SortedIsList
        <4>3. /\ Same(list[k], given[k]) /\ pos > 0
              /\ given[k].sharing # NoName /\ ~Shares(k) => k \in unresolved
          BY <2>1, <4>1, EndedPass
        <4>4. sorted[j].name = given[k].name /\ sorted[j].sharing = given[k].sharing
          BY <4>2, <4>3 DEF Same
        <4>5. CASE HasRow(sorted[j])
          <5>1. j \in RowsUpto(at)
            BY <2>1, <2>2, <4>5 DEF RowsUpto
          <5>. QED  BY <2>8, <4>4, <5>1 DEF Logbook
        <4>6. CASE ~HasRow(sorted[j])
          <5>1. given[k].sharing # NoName /\ Shares(k)
            BY <4>3, <4>4, <4>6 DEF HasRow
          <5>. DEFINE s == FirstOf(given, given[k].sharing)
          <5>2. s \in 0..Len(given) /\ Len(given) \in Nat /\ s # 0
                /\ given[s].name = given[k].sharing
            BY <2>1, <5>1, FirstOfProperties DEF Shares
          <5>. HIDE DEF s
          <5>3. s \in 1..Len(given) /\ s \in 1..Len(list)
            BY <2>1, <5>2 DEF Ended
          <5>4. given[s].sharing = NoName
            BY <5>1, <5>2, <5>3 DEF Direct
          <5>5. PICK i \in 1..Len(sorted) : sorted[i] = list[s]
            BY <2>1, <5>3, SortedIsList
          <5>6. Same(list[s], given[s])
            BY <2>1, <5>3, EndedPass
          <5>7. sorted[i].sharing = NoName /\ sorted[j].sharing = sorted[i].name
            BY <4>4, <5>2, <5>4, <5>5, <5>6 DEF Same
          <5>8. i \in RowsUpto(at)
            BY <2>1, <2>2, <5>7 DEF RowsUpto, HasRow
          <5>. QED  BY <2>8, <4>4, <5>7, <5>8 DEF Logbook
        <4>. QED  BY <4>5, <4>6
      <3>. QED  BY <2>3, <2>5, <2>6, <3>1, <3>2 DEF InLogs
    <2>. QED  BY <2>7, <2>8
  <1>. QED  BY <1>1, Invariant, WrittenInit, WrittenNext, PagedInit, PagedNext, SeenInit,
               SeenNext, LogbookInit, LogbookNext, PTL DEF Spec

-----------------------------------------------------------------------------

(* What the table says, as PageDone leaves it.                             *)
TopRow == SelectInSeq(page.sums, LAMBDA s : s.i = Top)
Tabled ==
  phase = "done" =>
    IF page.active_classes > Top
    THEN erp.top = TopRow /\ \A share \in {5, 10, 16} : erp.traffic[share] = TrafficRow(share)
    ELSE erp = <<>>

LEMMA TabledInit == Init => Tabled
  BY DEF Init, Tabled

LEMMA TabledNext == Tabled /\ [Next]_vars => Tabled'
  <1>. SUFFICES ASSUME Tabled, [Next]_vars
                PROVE  Tabled'
    OBVIOUS
  <1>1. CASE PageDone
    <2>1. /\ page' = page
          /\ erp' = IF page.active_classes > Top
                    THEN [traffic     |-> [share \in {5, 10, 16} |-> TrafficRow(share)],
                          downloaders |-> [share \in {4, 5, 10, 16} |-> DownloadersRow(share)],
                          top         |-> TopRow]
                    ELSE <<>>
      BY <1>1 DEF PageDone, TopRow
    <2>2. page.active_classes > Top =>
            erp'.top = TopRow /\ \A share \in {5, 10, 16} : erp'.traffic[share] = TrafficRow(share)
      BY <2>1
    <2>3. TopRow' = TopRow /\ \A share : TrafficRow(share)' = TrafficRow(share)
      BY <2>1 DEF TopRow, TrafficRow, SelectInSeq
    <2>. QED  BY <2>1, <2>2, <2>3 DEF Tabled
  <1>2. CASE UNCHANGED vars
    <2>1. page' = page /\ erp' = erp /\ phase' = phase
      BY <1>2 DEF vars
    <2>2. TopRow' = TopRow /\ \A share : TrafficRow(share)' = TrafficRow(share)
      BY <2>1 DEF TopRow, TrafficRow, SelectInSeq
    <2>. QED  BY <2>1, <2>2 DEF Tabled
  <1>3. CASE Next /\ ~PageDone
    <2>1. phase' # "done"
      BY <1>3 DEF Next, Count, Counted, Describe, AllDescribed, Resolving, Sorting,
                  SortNothing, WriteJson, Row, read_vars
    <2>. QED  BY <2>1 DEF Tabled
  <1>. QED  BY <1>1, <1>2, <1>3

(* Of a sorted list, no set of rows has more traffic than the first so     *)
(* many.                                                                   *)
LEMMA FirstAreHeaviest ==
  ASSUME sorted \in Seq(IpType), InOrder(sorted, ByTraffic), NEW n, NEW k \in Nat,
         NEW S \in SUBSET ActiveUpto(n), k < n,
         Cardinality(S) = Cardinality(ActiveUpto(k + 1)), n \in Nat
  PROVE  WeightOf(S) <= WeightOf(ActiveUpto(k + 1))
  <1>. DEFINE P == ActiveUpto(k + 1)
              f == TrafficsIn(sorted)
  <1>1. /\ IsFiniteSet(P) /\ P \in SUBSET (1..Len(sorted))
        /\ IsFiniteSet(ActiveUpto(n)) /\ ActiveUpto(n) \in SUBSET (1..Len(sorted))
    BY RowsAreFinite
  <1>2. IsFiniteSet(S) /\ S \in SUBSET (1..Len(sorted))
    BY <1>1, FS_Subset
  <1>3. \A i \in 1..Len(sorted) : f[i] \in Nat /\ f[i] = sorted[i].traffic
    BY SortedEntry
  <1>4. Cardinality(S \ P) = Cardinality(P \ S)
    <2>1. /\ Cardinality(S \ P) = Cardinality(S) - Cardinality(S \cap P)
          /\ Cardinality(P \ S) = Cardinality(P) - Cardinality(P \cap S)
      BY <1>1, <1>2, FS_Difference
    <2>2. S \cap P = P \cap S
      OBVIOUS
    <2>. QED  BY <2>1, <2>2
  <1>5. \A x \in S \ P, y \in P \ S : f[x] <= f[y]
    <2>. SUFFICES ASSUME NEW x \in S \ P, NEW y \in P \ S
                  PROVE  f[x] <= f[y]
      OBVIOUS
    <2>1. x \in 1..Len(sorted) /\ y \in 1..Len(sorted) /\ y < x
      BY <1>1, <1>2 DEF ActiveUpto, RowsUpto
    <2>2. <<sorted[y], sorted[x]>> \notin ByTraffic
      BY <2>1 DEF InOrder
    <2>3. ~(sorted[y].traffic < sorted[x].traffic)
      <3>1. sorted[y] \in IpType /\ sorted[x] \in IpType
        BY <2>1
      <3>. QED  BY <2>2, <3>1, LessTrafficIsKey DEF LessTraffic
    <2>. QED  BY <1>3, <2>1, <2>3
  <1>. HIDE DEF P, f
  <1>6. IsFiniteSet(S \ P) /\ IsFiniteSet(P \ S) /\ IsFiniteSet(S \cap P)
    BY <1>1, <1>2, FS_Subset
  <1>7. /\ \A x \in S : f[x] \in Nat
        /\ \A x \in P : f[x] \in Nat
        /\ \A x \in (S \ P) \cup (P \ S) : f[x] \in Nat
        /\ \A x \in S \cap P : f[x] \in Nat
    BY <1>1, <1>2, <1>3
  <1>8. SumFunctionOnSet(f, S \ P) <= SumFunctionOnSet(f, P \ S)
    BY <1>4, <1>5, <1>6, <1>7, SumSmaller
  <1>9. SumFunctionOnSet(f, S) = SumFunctionOnSet(f, S \cap P) + SumFunctionOnSet(f, S \ P)
    <2>1. S \cap P \in SUBSET S /\ S \ (S \cap P) = S \ P
      OBVIOUS
    <2>2. SumFunctionOnSet(f, S)
            = SumFunctionOnSet(f, S \cap P) + SumFunctionOnSet(f, S \ (S \cap P))
      <3>1. IsFiniteSet(S) /\ \A x \in S : f[x] \in Nat
        BY <1>2, <1>7
      <3>. DEFINE r == S \cap P
      <3>2. r \in SUBSET S
        OBVIOUS
      <3>. HIDE DEF r
      <3>3. SumFunctionOnSet(f, S) = SumFunctionOnSet(f, r) + SumFunctionOnSet(f, S \ r)
        BY <3>1, <3>2, SumParts
      <3>. QED  BY <3>3 DEF r
    <2>. QED  BY <2>1, <2>2
  <1>10. SumFunctionOnSet(f, P) = SumFunctionOnSet(f, S \cap P) + SumFunctionOnSet(f, P \ S)
    <2>1. S \cap P \in SUBSET P /\ P \ (S \cap P) = P \ S
      OBVIOUS
    <2>2. SumFunctionOnSet(f, P)
            = SumFunctionOnSet(f, S \cap P) + SumFunctionOnSet(f, P \ (S \cap P))
      BY <1>1, <1>7, <2>1, SumParts
    <2>. QED  BY <2>1, <2>2
  <1>11. /\ SumFunctionOnSet(f, S \cap P) \in Nat
         /\ SumFunctionOnSet(f, S \ P) \in Nat
         /\ SumFunctionOnSet(f, P \ S) \in Nat
    BY <1>6, <1>7, SumNat
  <1>12. SumFunctionOnSet(f, S) <= SumFunctionOnSet(f, P)
    BY <1>8, <1>9, <1>10, <1>11
  <1>. QED  BY <1>12 DEF WeightOf, P, f

(* Among the sums of the page, the first that satisfies a condition.       *)
LEMMA TrafficRowProperties ==
  ASSUME page.sums \in Seq([l : Nat, i : Nat]), NEW share
  PROVE  LET D == (share * page.total_traffic) \div 20
             n == TrafficRow(share)
             Is(m) == page.sums[m].l >= D
         IN  (\E m \in 1..Len(page.sums) : Is(m)) =>
               /\ n \in 1..Len(page.sums) /\ Is(n)
               /\ \A m \in 1..Len(page.sums) : m < n => ~Is(m)
  <1>. DEFINE I == {m \in 1..Len(page.sums) :
                      page.sums[m].l >= (share * page.total_traffic) \div 20}
  <1>1. TrafficRow(share) = IF I # {} THEN Min(I) ELSE 0
    BY DEF TrafficRow, SelectInSeq
  <1>2. I \in SUBSET (1..Len(page.sums)) /\ Len(page.sums) \in Nat
    OBVIOUS
  <1>3. ASSUME I # {}
        PROVE  Min(I) \in I /\ \A m \in I : Min(I) <= m
    <2>. HIDE DEF I
    <2>1. I \in SUBSET Nat
      BY <1>2
    <2>. QED  BY <1>3, <2>1, LeastNatural DEF Min
  <1>4. ASSUME I # {}, NEW m \in 1..Len(page.sums), m < Min(I)
        PROVE  m \notin I
    <2>. HIDE DEF I
    <2>1. m \in Nat
      OBVIOUS
    <2>2. Min(I) \in I /\ I \in SUBSET Nat
      BY <1>2, <1>3, <1>4
    <2>3. Min(I) \in Nat
      BY <2>2
    <2>4. CASE m \in I
      BY <1>3, <1>4, <2>1, <2>3, <2>4
    <2>. QED  BY <2>4
  <1>. QED  BY <1>1, <1>3, <1>4

LEMMA TopRowProperties ==
  ASSUME page.sums \in Seq([l : Nat, i : Nat]), Top \in 1..Len(page.sums),
         \A n \in 1..Len(page.sums) : page.sums[n].i = n
  PROVE  TopRow = Top
  <1>. DEFINE I == {m \in 1..Len(page.sums) : page.sums[m].i = Top}
  <1>1. TopRow = IF I # {} THEN Min(I) ELSE 0
    BY DEF TopRow, SelectInSeq
  <1>2. I = {Top}
    OBVIOUS
  <1>3. Min({Top}) = Top
    BY DEF Min
  <1>. QED  BY <1>1, <1>2, <1>3

(* The sum of the n-th row, at the end, bounds that of any n rows.         *)
LEMMA SumsBound ==
  ASSUME sorted \in Seq(IpType), InOrder(sorted, ByTraffic), NEW n \in Nat,
         NEW S \in SUBSET ActiveUpto(n), NEW s, IsSum(s, Cardinality(S), n)
  PROVE  WeightOf(S) <= s.l
  <1>1. PICK k \in 1..Len(sorted) : /\ k < n /\ Cardinality(ActiveUpto(k + 1)) = Cardinality(S)
                                    /\ s.l = WeightOf(ActiveUpto(k + 1))
    BY DEF IsSum
  <1>2. k \in Nat
    BY <1>1
  <1>3. WeightOf(S) <= WeightOf(ActiveUpto(k + 1))
    BY <1>1, <1>2, FirstAreHeaviest
  <1>. QED  BY <1>1, <1>3

(* Sizes of sets of rows.                                                  *)
LEMMA SizesOfRows ==
  ASSUME sorted \in Seq(IpType), NEW n, NEW S \in SUBSET ActiveUpto(n)
  PROVE  /\ Cardinality(S) \in 0..Cardinality(ActiveUpto(n))
         /\ S # {} => Cardinality(S) \in 1..Cardinality(ActiveUpto(n))
         /\ WeightOf(S) \in Nat
         /\ S = {} => WeightOf(S) = 0
  <1>1. /\ IsFiniteSet(ActiveUpto(n)) /\ Cardinality(ActiveUpto(n)) \in Nat
        /\ ActiveUpto(n) \in SUBSET (1..Len(sorted))
    BY RowsAreFinite
  <1>2. IsFiniteSet(S) /\ Cardinality(S) <= Cardinality(ActiveUpto(n))
    BY <1>1, FS_Subset
  <1>3. Cardinality(S) \in Nat
    BY <1>2, FS_CardinalityType
  <1>4. Cardinality(S) = 0 <=> S = {}
    BY <1>2, FS_EmptySet
  <1>5. WeightOf(S) \in Nat
    <2>1. \A i \in S : TrafficsIn(sorted)[i] \in Nat
      BY <1>1, SortedEntry
    <2>. QED  BY <1>2, <2>1, SumNat DEF WeightOf
  <1>6. S = {} => WeightOf(S) = 0
    BY SumEmpty DEF WeightOf
  <1>. QED  BY <1>1, <1>2, <1>3, <1>4, <1>5, <1>6

(* Twentieths of a number, by division of integers.                        *)
LEMMA Twentieths ==
  ASSUME NEW w \in Nat, NEW share \in {5, 10, 16}
  PROVE  LET D == (share * (w + 1)) \div 20
         IN  D \in Nat /\ D <= w /\ 20 * D <= share * (w + 1) /\ share * w < 20 * (D + 1)
  <1>. DEFINE X == share * (w + 1)
              D == X \div 20
  <1>1. X \in Nat /\ X < 20 * (w + 1) /\ share * w <= X
    OBVIOUS
  <1>2. \A x \in Nat : x \div 20 \in Nat /\ 20 * (x \div 20) <= x /\ x < 20 * (x \div 20 + 1)
    OBVIOUS
  <1>3. D \in Nat /\ 20 * D <= X /\ X < 20 * (D + 1)
    BY <1>1, <1>2
  <1>4. share * w \in Nat
    OBVIOUS
  <1>. HIDE DEF D, X
  <1>5. D <= w /\ share * w < 20 * (D + 1)
    BY <1>1, <1>3, <1>4
  <1>. QED  BY <1>3, <1>5 DEF D, X

(* "Top 10 downloaders" and the shares of the traffic name the heaviest,   *)
(* and as few of them as can have it, for any list of IPs.                 *)
THEOREM HeaviestAreFirst == Spec => []HeaviestFirst
  <1>1. IInv /\ Written /\ Paged /\ Tabled => HeaviestFirst
    <2>. DEFINE rows == {i \in 1..Len(sorted) : sorted[i].traffic > 0 /\ HasRow(sorted[i])}
                Weight(S) == SumFunction([i \in S |-> sorted[i].traffic])
    <2>. SUFFICES ASSUME IInv, Written, Paged, Tabled, phase = "done"
                  PROVE  /\ Len(page.sums) = Cardinality(rows)
                         /\ \A n \in 1..Len(page.sums) : page.sums[n].i = n
                         /\ \A S \in SUBSET rows :
                              S # {} => Weight(S) <= page.sums[Cardinality(S)].l
                         /\ erp # <<>> =>
                              /\ erp.top = Top
                              /\ \A share \in {5, 10, 16} :
                                   LET n == erp.traffic[share] IN
                                   /\ n # 0
                                   /\ 20 * (page.sums[n].l + 1) > share * Weight(rows)
                                   /\ \A S \in SUBSET rows : Cardinality(S) < n =>
                                        20 * Weight(S) < share * (Weight(rows) + 1)
      BY DEF HeaviestFirst
    <2>1. /\ list \in Seq(IpType) /\ sorted \in Seq(IpType) /\ Len(sorted) \in Nat
          /\ at \in Nat /\ sorted = Sort(list, LessTraffic) /\ page \in PageType
      BY DEF IInv, Typed, Written
    <2>2. InOrder(sorted, ByTraffic)
      BY <2>1, SortedProperties
    <2>3. /\ at = Len(sorted) + 1
          /\ page.total_traffic = WeightOf(RowsUpto(at)) + 1
          /\ page.active_classes = Cardinality(ActiveUpto(at))
          /\ Len(page.sums) = page.active_classes
          /\ \A n \in 1..Len(page.sums) : IsSum(page.sums[n], n, at)
      BY <2>1 DEF Paged
    <2>4. rows = ActiveUpto(at)
      <3>1. \A i \in 1..Len(sorted) : i < at
        BY <2>1, <2>3
      <3>. QED  BY <3>1 DEF ActiveUpto, RowsUpto
    <2>5. \A S \in SUBSET rows : Weight(S) = WeightOf(S)
      <3>. SUFFICES ASSUME NEW S \in SUBSET rows
                    PROVE  Weight(S) = WeightOf(S)
        OBVIOUS
      <3>. DEFINE g == [i \in S |-> sorted[i].traffic]
      <3>1. IsFiniteSet(S)
        <4>1. IsFiniteSet(ActiveUpto(at))
          BY <2>1, RowsAreFinite
        <4>. QED  BY <2>4, <4>1, FS_Subset
      <3>2. \A i \in S : g[i] = TrafficsIn(sorted)[i]
        BY DEF TrafficsIn
      <3>3. Weight(S) = SumFunctionOnSet(g, S)
        BY DEF SumFunction, SumFunctionOnSet, FoldFunction
      <3>. HIDE DEF g, Weight, rows
      <3>. QED  BY <3>1, <3>2, <3>3, SumSame DEF WeightOf
    <2>. HIDE DEF rows, Weight
    <2>6. \A n \in 1..Len(page.sums) : page.sums[n].i = n
      BY <2>3 DEF IsSum
    <2>7. \A S \in SUBSET rows :
            /\ Cardinality(S) \in 0..Len(page.sums)
            /\ S # {} => Cardinality(S) \in 1..Len(page.sums)
            /\ WeightOf(S) \in Nat
            /\ S = {} => WeightOf(S) = 0
      BY <2>1, <2>3, <2>4, SizesOfRows
    <2>8. ASSUME NEW S \in SUBSET rows, S # {}
          PROVE  WeightOf(S) <= page.sums[Cardinality(S)].l
      <3>1. IsSum(page.sums[Cardinality(S)], Cardinality(S), at)
        BY <2>3, <2>7, <2>8
      <3>. QED  BY <2>1, <2>2, <2>4, <3>1, SumsBound
    <2>9. ASSUME erp # <<>>
          PROVE  /\ erp.top = Top
                 /\ \A share \in {5, 10, 16} :
                      /\ erp.traffic[share] # 0
                      /\ 20 * (page.sums[erp.traffic[share]].l + 1) > share * WeightOf(rows)
                      /\ \A S \in SUBSET rows : Cardinality(S) < erp.traffic[share] =>
                           20 * WeightOf(S) < share * (WeightOf(rows) + 1)
      <3>1. /\ page.active_classes > Top /\ erp.top = TopRow
            /\ \A share \in {5, 10, 16} : erp.traffic[share] = TrafficRow(share)
        BY <2>9 DEF Tabled
      <3>2. page.sums \in Seq([l : Nat, i : Nat]) /\ page.active_classes \in Nat
        BY <2>1 DEF PageType
      <3>3. Top \in 1..Len(page.sums) /\ Len(page.sums) \in 1..Len(page.sums)
        BY <2>3, <3>1, <3>2, Numbers
      <3>4. erp.top = Top
        BY <2>6, <3>1, <3>2, <3>3, TopRowProperties
      <3>5. page.total_traffic = WeightOf(rows) + 1 /\ WeightOf(rows) \in Nat
        <4>1. WeightOf(RowsUpto(at)) = WeightOf(ActiveUpto(at)) /\ WeightOf(RowsUpto(at)) \in Nat
          BY <2>1, RowsAreFinite
        <4>. QED  BY <2>3, <2>4, <4>1
      <3>6. ASSUME NEW share \in {5, 10, 16}
            PROVE  /\ TrafficRow(share) # 0
                   /\ 20 * (page.sums[TrafficRow(share)].l + 1) > share * WeightOf(rows)
                   /\ \A S \in SUBSET rows : Cardinality(S) < TrafficRow(share) =>
                        20 * WeightOf(S) < share * (WeightOf(rows) + 1)
        <4>. DEFINE w == WeightOf(rows)
                    D == (share * page.total_traffic) \div 20
                    n == TrafficRow(share)
        <4>1. D \in Nat /\ D <= w /\ 20 * D <= share * (w + 1) /\ share * w < 20 * (D + 1)
          <5>. HIDE DEF w
          <5>1. w \in Nat /\ page.total_traffic = w + 1
            BY <3>5 DEF w
          <5>. QED  BY <5>1, Twentieths
        <4>2. w <= page.sums[Len(page.sums)].l
          <5>1. Cardinality(rows) = Len(page.sums) /\ rows # {}
            <6>1. Cardinality(rows) # 0
              BY <2>3, <2>4, <3>3
            <6>. QED  BY <2>3, <2>4, <6>1, FS_EmptySet
          <5>2. WeightOf(rows) <= page.sums[Cardinality(rows)].l
            BY <2>8, <5>1
          <5>. QED  BY <5>1, <5>2
        <4>3. \A m \in 1..Len(page.sums) : page.sums[m].l \in Nat
          <5>. DEFINE T == [l : Nat, i : Nat]
                      s == page.sums
          <5>1. s \in Seq(T)
            BY <3>2
          <5>2. \A t \in T : t.l \in Nat
            OBVIOUS
          <5>. HIDE DEF T, s
          <5>3. \A m \in 1..Len(s) : s[m] \in T
            BY <5>1
          <5>4. \A m \in 1..Len(s) : s[m].l \in Nat
            BY <5>2, <5>3
          <5>. QED  BY <5>4 DEF s
        <4>4. \E m \in 1..Len(page.sums) : page.sums[m].l >= D
          <5>. HIDE DEF w, D
          <5>1. page.sums[Len(page.sums)].l >= D
            <6>1. w \in Nat
              BY <3>5 DEF w
            <6>. QED  BY <3>3, <4>1, <4>2, <4>3, <6>1
          <5>. QED  BY <3>3, <5>1
        <4>5. /\ n \in 1..Len(page.sums) /\ page.sums[n].l >= D
              /\ \A m \in 1..Len(page.sums) : m < n => ~(page.sums[m].l >= D)
          BY <3>2, <4>4, TrafficRowProperties
        <4>. HIDE DEF n, D
        <4>6. n # 0
          BY <4>5
        <4>7. 20 * (page.sums[n].l + 1) > share * w
          <5>1. page.sums[n].l \in Nat /\ w \in Nat /\ share * w \in Nat
            BY <3>5, <4>3, <4>5
          <5>. HIDE DEF w
          <5>. QED  BY <4>1, <4>5, <5>1
        <4>8. ASSUME NEW S \in SUBSET rows, Cardinality(S) < n
              PROVE  20 * WeightOf(S) < share * (w + 1)
          <5>1. w \in Nat
            BY <3>5
          <5>2. CASE S = {}
            <6>1. WeightOf(S) = 0
              BY <2>7, <5>2
            <6>. HIDE DEF w
            <6>. QED  BY <5>1, <6>1
          <5>3. CASE S # {}
            <6>1. Cardinality(S) \in 1..Len(page.sums) /\ WeightOf(S) \in Nat
              BY <2>7, <5>3
            <6>2. ~(page.sums[Cardinality(S)].l >= D)
              BY <4>5, <4>8, <6>1
            <6>3. WeightOf(S) <= page.sums[Cardinality(S)].l
              BY <2>8, <5>3
            <6>4. page.sums[Cardinality(S)].l \in Nat
              BY <4>3, <6>1
            <6>5. WeightOf(S) + 1 <= D
              BY <4>1, <6>1, <6>2, <6>3, <6>4
            <6>6. share * (w + 1) \in Nat
              BY <5>1
            <6>. HIDE DEF w
            <6>. QED  BY <4>1, <6>1, <6>5, <6>6
          <5>. QED  BY <5>2, <5>3
        <4>. QED  BY <4>6, <4>7, <4>8 DEF n
      <3>. QED  BY <3>1, <3>4, <3>6
    <2>10. rows \in SUBSET rows
      OBVIOUS
    <2>11. Len(page.sums) = Cardinality(rows)
      BY <2>3, <2>4
    <2>12. Weight(rows) = WeightOf(rows)
      BY <2>5, <2>10
    <2>13. erp # <<>> =>
             /\ erp.top = Top
             /\ \A share \in {5, 10, 16} :
                  LET n == erp.traffic[share] IN
                  /\ n # 0
                  /\ 20 * (page.sums[n].l + 1) > share * Weight(rows)
                  /\ \A S \in SUBSET rows : Cardinality(S) < n =>
                       20 * Weight(S) < share * (Weight(rows) + 1)
      BY <2>5, <2>9, <2>12
    <2>. QED  BY <2>5, <2>6, <2>8, <2>11, <2>13
  <1>. QED  BY <1>1, Invariant, WrittenInit, WrittenNext, PagedInit, PagedNext,
               TabledInit, TabledNext, PTL DEF Spec
=============================================================================
