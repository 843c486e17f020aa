---------------------------- MODULE HtbTreeProofs ----------------------------
(***************************************************************************)
(* GroupKeepsItsRate and RatesNest for any configuration, any interfaces   *)
(* of any speed and any nesting limit; LineShared, ClassesAccepted, ClassmapBacked and  *)
(* Shaped for any nesting limit that leaves HTB room for the other levels. *)
(***************************************************************************)
EXTENDS HtbTree, FiniteSetTheorems, TLAPS

(* What a class command leaves of a tree in which every parent exists and  *)
(* no class of Ids has more than its parent on the interfaces Devs: the    *)
(* same, if the new class has no more than the parent the command names.   *)
WellFormed(cs) ==
  \A c \in cs : c.id # 0 /\ (c.parent = 0 \/ Known(cs, c.dev, c.parent))

Nests(cs, Ids, Devs) ==
  \A c, p \in cs :
    c.dev = p.dev /\ c.parent = p.id /\ c.id \in Ids /\ c.dev \in Devs
    => c.rate <= p.rate

LEMMA DepthType ==
  ASSUME NEW cs, cs \subseteq ClassType, NEW d, NEW id
  PROVE  Depth(cs, d, id) \in Nat
<1>1. CASE Known(cs, d, id)
  <2>1. (CHOOSE c \in cs : c.dev = d /\ c.id = id) \in ClassType
    BY <1>1 DEF Known
  <2>2. (CHOOSE c \in cs : c.dev = d /\ c.id = id).depth \in Nat
    BY <2>1 DEF ClassType
  <2> QED BY <1>1, <2>2 DEF Depth
<1>2. CASE ~Known(cs, d, id)
  BY <1>2 DEF Depth
<1> QED BY <1>1, <1>2

LEMMA ClassAddType ==
  ASSUME NEW cs, cs \subseteq ClassType, NEW d \in Dev, NEW p \in Nat,
         NEW id \in Nat, NEW r \in Int, NEW ceil \in Int
  PROVE  ClassAdd(cs, d, p, id, r, ceil) \subseteq ClassType
<1>1. Depth(cs, d, p) \in Nat
  BY DepthType
<1>2. HtbClass(cs, d, p, id, r, ceil) \in ClassType
  BY <1>1 DEF HtbClass, ClassType
<1> QED BY <1>2 DEF ClassAdd

LEMMA ClassAddMembers ==
  ASSUME NEW cs, NEW d, NEW p, NEW id, NEW r, NEW ceil,
         NEW c \in ClassAdd(cs, d, p, id, r, ceil)
  PROVE  \/ c \in cs
         \/ /\ c.dev = d /\ c.id = id /\ c.rate = r /\ c.ceil = ceil
            /\ ~Known(cs, d, id)
            /\ \/ (c.parent = p /\ Known(cs, d, p))
               \/ c.parent = 0
BY DEF ClassAdd, HtbClass, Accepts

LEMMA ClassAddNests ==
  ASSUME NEW cs, NEW d, NEW p, NEW id, NEW r, NEW ceil, NEW Ids, NEW Devs,
         id # 0, WellFormed(cs), Nests(cs, Ids, Devs),
         \/ id \notin Ids \/ d \notin Devs
         \/ \A q \in cs : q.dev = d /\ q.id = p => r <= q.rate
  PROVE  /\ WellFormed(ClassAdd(cs, d, p, id, r, ceil))
         /\ Nests(ClassAdd(cs, d, p, id, r, ceil), Ids, Devs)
<1> DEFINE new == ClassAdd(cs, d, p, id, r, ceil)
<1>1. cs \subseteq new
  BY DEF ClassAdd
<1>2. ASSUME NEW c \in new
      PROVE  \/ c \in cs
             \/ /\ c.dev = d /\ c.id = id /\ c.rate = r /\ ~Known(cs, d, id)
                /\ ((c.parent = p /\ Known(cs, d, p)) \/ c.parent = 0)
  BY ClassAddMembers
<1> HIDE DEF new
<1>3. WellFormed(new)
  BY <1>1, <1>2 DEF WellFormed, Known
<1>4. ASSUME NEW c \in new, NEW q \in new, c.dev = q.dev, c.parent = q.id, c.id \in Ids,
             c.dev \in Devs
      PROVE  c.rate <= q.rate
  <2>1. q.id # 0
    BY <1>3 DEF WellFormed
  <2>2. CASE c \in cs /\ q \in cs
    BY <2>2, <1>4 DEF Nests
  <2>3. CASE c \in cs /\ q \notin cs
    BY <2>1, <2>3, <1>2, <1>4 DEF WellFormed
  <2>4. CASE c \notin cs
    <3>1. c.dev = d /\ c.id = id /\ c.rate = r /\ c.parent = p /\ Known(cs, d, p)
          /\ ~Known(cs, d, id)
      BY <2>1, <2>4, <1>2, <1>4
    <3>2. q \in cs
      BY <3>1, <1>2, <1>4 DEF Known
    <3> QED BY <3>1, <3>2, <1>4
  <2> QED BY <2>2, <2>3, <2>4
<1> QED BY <1>3, <1>4 DEF Nests, new

-----------------------------------------------------------------------------

Promised == GroupIds \cup OwnMarks
Able == {d \in Dev : Carries(d)}

(* Between two turns of the loop over the groups, `rate' lies between what *)
(* the groups to come are promised and what those before have got, if the  *)
(* line carries the largest promise; else it is the line's for the first   *)
(* group and at most this promise for the others.                          *)
RateBetween ==
  /\ phase = "root" =>
       /\ pos = 1 /\ rate = Speed[1]
       /\ \A c \in classes : c.id \in {1, 2}
  /\ phase = "groups" =>
       /\ Carries(dev) =>
            /\ rate <= Speed[dev]
            /\ pos <= Len(cfg.groups) => cfg.groups[pos].min <= rate
            /\ \A c \in classes : c.dev = dev /\ c.id \in GroupIds => rate <= c.rate
       /\ ~Carries(dev) =>
            IF pos = 1 THEN rate = Speed[dev]
            ELSE /\ rate <= cfg.groups[1].min
                 /\ pos <= Len(cfg.groups) => cfg.groups[pos].min <= rate
       /\ \A c \in classes : c.dev > dev => c.id \in {1, 2}

IInv ==
  /\ TypeOK
  /\ WellFormed(classes)
  /\ Nests(classes, Promised, Able)
  /\ GroupKeepsItsRate
  /\ parent = 1 \/ parent \in GroupIds
  /\ \A c \in classes : c.id = 1 => c.rate = Speed[c.dev]
  /\ RateBetween

LEMMA ConfigFacts ==
  ASSUME cfg \in Config
  PROVE  /\ cfg.groups \in Seq(GroupType) /\ cfg.ips \in Seq(IpType)
         /\ cfg.nesting \in Nat /\ cfg.divide \in Nat /\ cfg.classify \in BOOLEAN
         /\ cfg.freeMin \in Nat /\ cfg.overlimitMin \in Nat
         /\ cfg.freeMax \in Nat /\ cfg.overlimitMax \in Nat
         /\ GroupIds \subseteq Nat
         /\ \A id \in Promised : id \notin {0, 1, 2, FREE_CLASS, OVERLIMIT_CLASS}
         /\ GroupIds \cap OwnMarks = {}
         /\ \A i \in 1..Len(cfg.groups) :
              /\ cfg.groups[i] \in GroupType
              /\ cfg.groups[i].id \in Nat /\ cfg.groups[i].min \in Nat
         /\ \A i \in 1..Len(cfg.ips) :
              /\ cfg.ips[i] \in IpType
              /\ cfg.ips[i].mark \in Nat /\ cfg.ips[i].group \in Nat
              /\ cfg.ips[i].min \in Nat /\ cfg.ips[i].max \in Nat
              /\ cfg.ips[i].limited \in BOOLEAN /\ cfg.ips[i].v6 \in BOOLEAN
<1>1. cfg \in ConfigType /\ GoodLists(cfg)
  BY HtbAssumption
<1>2. /\ cfg.groups \in Seq(GroupType) /\ cfg.ips \in Seq(IpType)
      /\ cfg.nesting \in Nat /\ cfg.divide \in Nat /\ cfg.classify \in BOOLEAN
      /\ cfg.freeMin \in Nat /\ cfg.overlimitMin \in Nat
      /\ cfg.freeMax \in Nat /\ cfg.overlimitMax \in Nat
  BY <1>1 DEF ConfigType
<1>10. \A i \in 1..Len(cfg.groups) : cfg.groups[i] \in GroupType
  BY <1>2
<1>3. \A i \in 1..Len(cfg.groups) :
        cfg.groups[i].id \in Nat /\ cfg.groups[i].min \in Nat
  BY <1>10 DEF GroupType
<1>4. \A i \in 1..Len(cfg.ips) : cfg.ips[i] \in IpType
  BY <1>2
<1>5. \A i \in 1..Len(cfg.ips) :
        /\ cfg.ips[i].mark \in Nat /\ cfg.ips[i].group \in Nat
        /\ cfg.ips[i].min \in Nat /\ cfg.ips[i].max \in Nat
        /\ cfg.ips[i].limited \in BOOLEAN /\ cfg.ips[i].v6 \in BOOLEAN
  BY <1>4 DEF IpType
<1>6. \A id \in GroupIds : id \in Nat /\ id > OVERLIMIT_CLASS
  BY <1>1, <1>3 DEF GoodLists, GroupIds
<1>7. \A id \in OwnMarks : id \in Nat /\ id > OVERLIMIT_CLASS
  BY <1>1, <1>5 DEF GoodLists, OwnMarks, Rated
<1>8. GroupIds \cap OwnMarks = {}
  BY <1>1, <1>3, <1>5 DEF GoodLists, GroupIds, OwnMarks, Rated
<1>9. \A id \in Promised : id \notin {0, 1, 2, FREE_CLASS, OVERLIMIT_CLASS}
  BY <1>6, <1>7 DEF Promised, FREE_CLASS, OVERLIMIT_CLASS
<1> QED BY <1>2, <1>3, <1>4, <1>5, <1>6, <1>8, <1>9, <1>10

(* The first group has the largest guarantee: the line carries this one or *)
(* it does not carry the groups.                                           *)
LEMMA LargestFirst ==
  ASSUME cfg \in Config, NEW d \in Dev
  PROVE  /\ Carries(d) => \A i \in 1..Len(cfg.groups) : cfg.groups[i].min <= Speed[d]
         /\ ~Carries(d) => 1 \in 1..Len(cfg.groups) /\ Speed[d] < cfg.groups[1].min
<1>1. /\ Len(cfg.groups) \in Nat
      /\ \A i \in 1..Len(cfg.groups) : cfg.groups[i].min \in Nat
  BY ConfigFacts
<1>2. Speed[d] \in Nat
  BY HtbAssumption
<1>3. \A i, j \in 1..Len(cfg.groups) : i < j => cfg.groups[i].min >= cfg.groups[j].min
  BY HtbAssumption DEF GoodLists
<1>4. ASSUME ~Carries(d)
      PROVE  1 \in 1..Len(cfg.groups) /\ Speed[d] < cfg.groups[1].min
  <2>1. PICK i \in 1..Len(cfg.groups) : ~(cfg.groups[i].min <= Speed[d])
    BY <1>4 DEF Carries
  <2>2. 1 \in 1..Len(cfg.groups) /\ (i = 1 \/ 1 < i)
    BY <1>1
  <2>3. cfg.groups[1].min >= cfg.groups[i].min
    BY <1>1, <1>3, <2>2
  <2> QED BY <1>1, <1>2, <2>1, <2>2, <2>3
<1> QED BY <1>4 DEF Carries

LEMMA InitInv == Init => IInv
<1> SUFFICES ASSUME Init PROVE IInv
  OBVIOUS
<1>1. 1 \in Dev /\ Speed[1] \in Nat
  BY HtbAssumption DEF Dev
<1>2. TypeOK
  <2>1. \A S : classes \subseteq S /\ refused \subseteq S /\ filters \subseteq S
                /\ rules \subseteq S /\ classmapped \subseteq S
    BY DEF Init
  <2>2. /\ cfg \in Config /\ phase = "root" /\ dev \in Dev /\ pos \in Nat \ {0}
        /\ parent \in Nat /\ rate \in Nat /\ nested \in Nat
    BY <1>1 DEF Init
  <2>3. limited \in BOOLEAN
    BY Zenon DEF Init
  <2> QED BY <2>1, <2>2, <2>3 DEF TypeOK
<1> QED BY <1>2 DEF Init, IInv, WellFormed, Nests, GroupKeepsItsRate, RateBetween

LEMMA RootClassesInv == IInv /\ RootClasses => IInv'
<1> SUFFICES ASSUME IInv, RootClasses PROVE IInv'
  OBVIOUS
<1> DEFINE medium == ClassAdd(classes, dev, 0, 2, Medium, Medium)
           line == ClassAdd(medium, dev, 2, 1, Speed[dev], Speed[dev])
<1>1. /\ cfg \in Config /\ dev \in Dev /\ Speed[dev] \in Nat /\ Medium \in Nat
      /\ classes \subseteq ClassType /\ phase = "root"
      /\ TypeOK /\ WellFormed(classes) /\ Nests(classes, Promised, Able) /\ RateBetween
      /\ parent = 1 \/ parent \in GroupIds
      /\ \A c \in classes : c.id = 1 => c.rate = Speed[c.dev]
      /\ 1 \notin Promised /\ 2 \notin Promised
  BY HtbAssumption, ConfigFacts DEF IInv, TypeOK, RootClasses, Dev
<1>2. medium \subseteq ClassType
  BY <1>1, ClassAddType
<1>3. WellFormed(medium) /\ Nests(medium, Promised, Able)
  BY <1>1, ClassAddNests
<1>4. \A c \in medium : c \in classes \/ c.id = 2
  BY ClassAddMembers
<1> HIDE DEF medium
<1>5. line \subseteq ClassType
  BY <1>1, <1>2, ClassAddType
<1>6. WellFormed(line) /\ Nests(line, Promised, Able)
  BY <1>1, <1>3, ClassAddNests
<1>7. \A c \in line : c \in medium \/ (c.id = 1 /\ c.dev = dev /\ c.rate = Speed[dev])
  BY ClassAddMembers
<1> HIDE DEF line
<1>8. /\ classes' = line
      /\ refused' = refused \cup Refusal(classes, dev, 0, 2) \cup Refusal(medium, dev, 2, 1)
      /\ UNCHANGED <<cfg, pos, parent, rate, nested, limited, filters, rules, classmapped>>
      /\ NextDev("groups")
  BY DEF RootClasses, medium, line
<1>9. refused' \subseteq Dev \X Nat
  BY <1>1, <1>8 DEF Refusal, TypeOK
<1>10. dev' \in Dev /\ (phase' = "root" \/ (phase' = "groups" /\ dev' = 1))
  BY <1>1, <1>8, HtbAssumption DEF NextDev, Dev
<1>11. \A c \in line : c.id \in {1, 2} /\ (c.id = 1 => c.rate = Speed[c.dev])
  BY <1>1, <1>4, <1>7 DEF RateBetween
<1>12. TypeOK'
  BY <1>1, <1>5, <1>8, <1>9, <1>10 DEF TypeOK
<1>13. /\ (GroupIds' = GroupIds) /\ (OwnMarks' = OwnMarks) /\ (Promised' = Promised)
       /\ (Able' = Able)
  BY <1>8 DEF GroupIds, OwnMarks, Rated, Promised, Able, Carries
<1>14. GroupKeepsItsRate'
  BY <1>1, <1>8, <1>11 DEF GroupKeepsItsRate, Promised, GroupIds
<1>15. RateBetween'
  <2>1. Len(cfg.groups) \in Nat
    BY <1>1
  <2>2. CASE phase' = "root"
    BY <2>2, <1>1, <1>8, <1>11 DEF RateBetween
  <2>3. CASE phase' = "groups" /\ dev' = 1
    <3>1. rate' = Speed[1] /\ pos' = 1 /\ Speed[1] \in Nat
      BY <1>1, <1>8, HtbAssumption DEF RateBetween, Dev
    <3>2. Carries(1) /\ 1 <= Len(cfg.groups) => cfg.groups[1].min <= Speed[1]
      BY <2>1 DEF Carries
    <3>3. \A c \in line : c.id \notin GroupIds
      BY <1>1, <1>11 DEF Promised
    <3>4. \A d : Carries(d)' <=> Carries(d)
      BY <1>8 DEF Carries
    <3> QED BY <2>3, <3>1, <3>2, <3>3, <3>4, <1>8, <1>11, <1>13 DEF RateBetween
  <2> QED BY <1>10, <2>2, <2>3
<1> QED BY <1>1, <1>6, <1>8, <1>11, <1>12, <1>13, <1>14, <1>15 DEF IInv

LEMMA ProductNat == \A m, n \in Nat : m * n \in Nat
OBVIOUS

LEMMA GroupClassInv == IInv /\ GroupClass => IInv'
<1> SUFFICES ASSUME IInv, GroupClass PROVE IInv'
  OBVIOUS
<1> DEFINE g == cfg.groups[pos]
           new == ClassAdd(classes, dev, parent, g.id, rate, Speed[dev])
<1>1. /\ cfg \in Config /\ dev \in Dev /\ dev \in Nat /\ Speed[dev] \in Nat
      /\ classes \subseteq ClassType /\ phase = "groups" /\ pos \in Nat \ {0}
      /\ parent \in Nat /\ rate \in Nat /\ nested \in Nat
      /\ TypeOK /\ WellFormed(classes) /\ Nests(classes, Promised, Able) /\ RateBetween
      /\ GroupKeepsItsRate
      /\ parent = 1 \/ parent \in GroupIds
      /\ \A c \in classes : c.id = 1 => c.rate = Speed[c.dev]
  BY HtbAssumption DEF IInv, TypeOK, GroupClass, Dev
<1>2. /\ pos \in 1..Len(cfg.groups) /\ Len(cfg.groups) \in Nat
      /\ g \in GroupType /\ g.id \in Nat /\ g.min \in Nat /\ g.id \in GroupIds
      /\ g.id \notin {0, 1, 2} /\ g.id \in Promised /\ cfg.divide \in Nat
  <2>1. pos \in 1..Len(cfg.groups) /\ Len(cfg.groups) \in Nat /\ cfg.divide \in Nat
    BY <1>1, ConfigFacts DEF GroupClass
  <2>2. g \in GroupType /\ g.id \in Nat /\ g.min \in Nat
    BY <2>1, <1>1, ConfigFacts
  <2>3. g.id \in GroupIds
    BY <2>1 DEF GroupIds
  <2>4. g.id \in Promised
    BY <2>3 DEF Promised
  <2>5. g.id \notin {0, 1, 2}
    BY <2>4, <1>1, ConfigFacts
  <2> QED BY <2>1, <2>2, <2>3, <2>4, <2>5
<1>3. Carries(dev) => g.min <= rate /\ rate <= Speed[dev]
  BY <1>1, <1>2 DEF RateBetween
<1>4. Carries(dev) => \A q \in classes : q.dev = dev /\ q.id = parent => rate <= q.rate
  BY <1>1, <1>3 DEF RateBetween
<1>18. ~Carries(dev) => IF pos = 1 THEN rate = Speed[dev] /\ rate < g.min
                        ELSE rate <= cfg.groups[1].min /\ g.min <= rate
  BY <1>1, <1>2, LargestFirst DEF RateBetween
<1>19. cfg.groups[1].min \in Nat
  BY <1>1, <1>2, ConfigFacts
<1>5. WellFormed(new) /\ Nests(new, Promised, Able)
  <2>1. Carries(dev) \/ dev \notin Able
    BY DEF Able
  <2> QED BY <1>1, <1>2, <1>4, <2>1, ClassAddNests
<1>6. new \subseteq ClassType
  BY <1>1, <1>2, ClassAddType
<1>7. \A c \in new : \/ c \in classes
                     \/ (c.id = g.id /\ c.dev = dev /\ c.rate = rate)
  BY ClassAddMembers
<1>8. /\ classes' = new
      /\ refused' = refused \cup Refusal(classes, dev, parent, g.id)
      /\ parent' = ParentAfter(g) /\ rate' = RateAfter(g)
      /\ nested' = nested + 1 /\ pos' = pos + 1
      /\ UNCHANGED <<cfg, phase, dev, limited, filters, rules, classmapped>>
  BY DEF GroupClass, GroupParent
<1>9. /\ \A i \in 1..Len(cfg.groups) : cfg.groups[i].id = g.id => i = pos
      /\ pos + 1 <= Len(cfg.groups) =>
           cfg.groups[pos + 1].min \in Nat /\ cfg.groups[pos + 1].min <= g.min
  BY <1>1, <1>2, ConfigFacts, HtbAssumption DEF GoodLists
<1> HIDE DEF g, new
<1>10. rate' \in Nat /\ g.min <= rate' /\ (g.min <= rate => rate' <= rate)
       /\ (rate < g.min => rate' = g.min)
  <2>1. cfg.divide * g.min \in Nat
    BY <1>2, ProductNat
  <2> DEFINE share == cfg.divide * g.min
  <2>2. rate' = IF rate - share < g.min THEN g.min ELSE rate - share
    BY <1>8 DEF RateAfter
  <2>3. share \in Nat
    BY <2>1
  <2> HIDE DEF share
  <2> QED BY <1>1, <1>2, <2>2, <2>3
<1>11. parent' \in Nat /\ (parent' = 1 \/ parent' \in GroupIds)
  BY <1>1, <1>2, <1>8 DEF ParentAfter
<1>12. refused' \subseteq Dev \X Nat
  BY <1>1, <1>2, <1>8 DEF Refusal, TypeOK
<1>13. TypeOK'
  BY <1>1, <1>6, <1>8, <1>10, <1>11, <1>12 DEF TypeOK
<1>14. (GroupIds' = GroupIds) /\ (Promised' = Promised) /\ (Able' = Able)
  BY <1>8 DEF GroupIds, OwnMarks, Rated, Promised, Able, Carries
<1>15. GroupKeepsItsRate'
  <2> SUFFICES ASSUME NEW c \in new, NEW i \in 1..Len(cfg.groups),
                      cfg.groups[i].id = c.id
               PROVE  \/ cfg.groups[i].min <= c.rate /\ c.rate <= Speed[c.dev]
                      \/ /\ ~Carries(c.dev)
                         /\ IF i = 1 THEN c.rate = Speed[c.dev]
                            ELSE cfg.groups[i].min <= c.rate
                                 /\ c.rate <= cfg.groups[1].min
    BY <1>8 DEF GroupKeepsItsRate, Carries
  <2>1. CASE c \in classes
    BY <2>1, <1>1 DEF GroupKeepsItsRate
  <2>2. CASE c \notin classes
    <3>1. i = pos /\ c.dev = dev /\ c.rate = rate
      BY <2>2, <1>7, <1>9
    <3> QED BY <3>1, <1>3, <1>18 DEF g
  <2> QED BY <2>1, <2>2
<1>16. RateBetween'
  <2>1. Carries(dev) => rate' <= Speed[dev]
    BY <1>1, <1>2, <1>3, <1>10
  <2>2. pos' <= Len(cfg.groups) => cfg.groups[pos'].min <= rate'
    BY <1>2, <1>8, <1>9, <1>10
  <2>5. ~Carries(dev) => rate' <= cfg.groups[1].min
    <3>1. pos = 1 => cfg.groups[1].min = g.min
      BY DEF g
    <3> QED BY <3>1, <1>1, <1>2, <1>10, <1>18, <1>19
  <2>6. pos' # 1
    BY <1>1, <1>8
  <2>7. Carries(dev)' <=> Carries(dev)
    BY <1>8 DEF Carries
  <2>3. ASSUME Carries(dev), NEW c \in new, c.dev = dev, c.id \in GroupIds
        PROVE  rate' <= c.rate
    <3>1. c.rate \in Int
      BY <1>6 DEF ClassType
    <3>2. rate <= c.rate
      BY <1>1, <1>7, <2>3 DEF RateBetween
    <3> QED BY <3>1, <3>2, <1>1, <1>3, <1>10, <2>3
  <2>4. ASSUME NEW c \in new, c.dev > dev
        PROVE  c.id \in {1, 2}
    BY <1>1, <1>7, <2>4 DEF RateBetween
  <2> QED BY <1>1, <1>8, <1>14, <2>1, <2>2, <2>3, <2>4, <2>5, <2>6, <2>7 DEF RateBetween
<1>17. \A c \in new : c.id = 1 => c.rate = Speed[c.dev]
  BY <1>1, <1>2, <1>7
<1> QED BY <1>5, <1>8, <1>11, <1>13, <1>14, <1>15, <1>16, <1>17 DEF IInv

LEMMA GroupsDoneInv == IInv /\ GroupsDone => IInv'
<1> SUFFICES ASSUME IInv, GroupsDone PROVE IInv'
  OBVIOUS
<1>1. /\ cfg \in Config /\ dev \in Dev /\ rate \in Nat /\ phase = "groups"
      /\ TypeOK /\ RateBetween /\ GroupKeepsItsRate /\ classes \subseteq ClassType
  BY DEF IInv, TypeOK, GroupsDone
<1>2. /\ pos' = 1 /\ nested' = 0
      /\ rate' = IF dev < NDev THEN Speed[dev + 1] ELSE rate
      /\ UNCHANGED <<cfg, parent, limited, classes, refused, filters, rules, classmapped>>
  BY DEF GroupsDone
<1>3. \/ (dev' = dev + 1 /\ dev' \in Dev /\ phase' = "groups" /\ rate' = Speed[dev'])
      \/ (dev' = 1 /\ dev' \in Dev /\ phase' = "ips" /\ rate' = rate)
  BY <1>1, <1>2, HtbAssumption DEF GroupsDone, NextDev, Dev
<1>4. rate' \in Nat
  BY <1>1, <1>3, HtbAssumption
<1>5. TypeOK'
  BY <1>1, <1>2, <1>3, <1>4 DEF TypeOK
<1>6. (GroupIds' = GroupIds) /\ (Promised' = Promised) /\ (Able' = Able)
  BY <1>2 DEF GroupIds, OwnMarks, Rated, Promised, Able, Carries
<1>7. RateBetween'
  <2>1. CASE dev' = dev + 1 /\ dev' \in Dev /\ phase' = "groups" /\ rate' = Speed[dev']
    <3>1. Carries(dev') /\ 1 <= Len(cfg.groups) => cfg.groups[1].min <= Speed[dev']
      BY <1>1, ConfigFacts DEF Carries
    <3>6. Carries(dev)' <=> Carries(dev')
      BY <1>2 DEF Carries
    <3>2. \A c \in classes : c.dev >= dev' => c.id \in {1, 2}
      BY <2>1, <1>1 DEF RateBetween, ClassType, Dev
    <3>3. \A c \in classes : c.dev = dev' => c.id \notin GroupIds
      BY <3>2, <2>1, <1>1, ConfigFacts DEF ClassType, Dev, Promised
    <3>4. \A c \in classes : c.dev > dev' => c.id \in {1, 2}
      BY <3>2, <2>1, <1>1 DEF ClassType, Dev
    <3>5. rate' <= Speed[dev']
      BY <2>1, <1>4
    <3> QED BY <2>1, <3>1, <3>3, <3>4, <3>5, <3>6, <1>2, <1>6 DEF RateBetween
  <2>2. CASE phase' = "ips"
    BY <2>2 DEF RateBetween
  <2> QED BY <1>3, <2>1, <2>2
<1>8. GroupKeepsItsRate'
  BY <1>1, <1>2 DEF GroupKeepsItsRate, Carries
<1> QED BY <1>2, <1>5, <1>6, <1>7, <1>8 DEF IInv

(* Once the groups are done, a step that leaves the tree and `parent'      *)
(* alone cannot disturb the invariant.                                     *)
LEMMA QuietStep ==
  ASSUME IInv, TypeOK', UNCHANGED <<cfg, parent, classes>>,
         phase' \notin {"root", "groups"}
  PROVE  IInv'
<1>1. (GroupIds' = GroupIds) /\ (Promised' = Promised) /\ (Able' = Able)
  BY DEF GroupIds, OwnMarks, Rated, Promised, Able, Carries
<1> QED BY <1>1 DEF IInv, RateBetween, GroupKeepsItsRate, Carries

(* A class that is no group and has no more than its parent.               *)
LEMMA ClassStep ==
  ASSUME IInv, TypeOK', UNCHANGED <<cfg, parent>>, phase' \notin {"root", "groups"},
         NEW cs, cs = classes', WellFormed(cs), Nests(cs, Promised, Able),
         \A c \in cs : c \in classes \/ c.id \notin GroupIds \cup {1}
  PROVE  IInv'
<1>1. (GroupIds' = GroupIds) /\ (Promised' = Promised) /\ (Able' = Able)
  BY DEF GroupIds, OwnMarks, Rated, Promised, Able, Carries
<1>2. GroupKeepsItsRate'
  BY DEF IInv, GroupKeepsItsRate, GroupIds, Carries
<1>3. RateBetween'
  BY DEF RateBetween
<1> QED BY <1>1, <1>2, <1>3 DEF IInv

RuleType == [dev : Dev, over : BOOLEAN, v6 : BOOLEAN, owner : Nat, mark : Nat]

LEMMA RuleTyped ==
  ASSUME NEW d \in Dev, NEW o \in BOOLEAN, NEW v \in BOOLEAN, NEW k \in Nat, NEW m \in Nat
  PROVE  [dev |-> d, over |-> o, v6 |-> v, owner |-> k, mark |-> m] \in RuleType
BY DEF RuleType

LEMMA IpClassInv == IInv /\ IpClass => IInv'
<1> SUFFICES ASSUME IInv, IpClass PROVE IInv'
  OBVIOUS
<1> DEFINE ip == cfg.ips[pos]
           new == ClassAdd(classes, dev, ip.group, ip.mark, ip.min, ip.max)
<1>1. /\ cfg \in Config /\ dev \in Dev /\ dev \in Nat /\ pos \in Nat \ {0}
      /\ classes \subseteq ClassType /\ phase = "ips" /\ TypeOK
      /\ WellFormed(classes) /\ Nests(classes, Promised, Able) /\ GroupKeepsItsRate
  BY HtbAssumption DEF IInv, TypeOK, IpClass, Dev
<1>2. pos \in 1..Len(cfg.ips)
  BY <1>1, ConfigFacts DEF IpClass
<1>3. /\ ip.mark \in Nat /\ ip.group \in Nat /\ ip.min \in Nat /\ ip.max \in Nat
      /\ ip.limited \in BOOLEAN /\ ip.v6 \in BOOLEAN
  BY <1>1, <1>2, ConfigFacts
<1>4. /\ limited' = ip.limited /\ rules' = rules \cup IpRules(ip)
      /\ UNCHANGED <<cfg, phase, parent, rate, nested>>
      /\ dev' = dev + 1 \/ dev' = 1
      /\ dev < NDev => dev' = dev + 1
      /\ dev >= NDev => dev' = 1
      /\ pos' = pos \/ pos' = pos + 1
      /\ classmapped' = classmapped \/ classmapped' = classmapped \cup {pos}
  BY <1>1, HtbAssumption DEF IpClass, Dev
<1>5. \/ (ip.min > 0 /\ classes' = new
          /\ refused' = refused \cup Refusal(classes, dev, ip.group, ip.mark)
          /\ (filters' = filters \/ filters' = filters \cup {<<dev, ip.mark>>}))
      \/ UNCHANGED <<classes, refused, filters>>
  BY DEF IpClass
<1>6. new \subseteq ClassType
  BY <1>1, <1>3, ClassAddType
<1>7. ip.min > 0 =>
        /\ ip.mark \in OwnMarks
        /\ Carries(dev) =>
             \A q \in classes : q.dev = dev /\ q.id = ip.group => ip.min <= q.rate
  <2> SUFFICES ASSUME ip.min > 0
               PROVE  /\ ip.mark \in OwnMarks
                      /\ Carries(dev) =>
                           \A q \in classes :
                             q.dev = dev /\ q.id = ip.group => ip.min <= q.rate
    OBVIOUS
  <2>4. ip.mark > 0
    BY DEF IpClass
  <2>1. ip.mark \in OwnMarks
    BY <1>2, <2>4 DEF OwnMarks, Rated
  <2>2. PICK k \in 1..Len(cfg.groups) :
          cfg.groups[k].id = ip.group /\ cfg.groups[k].min >= ip.min
    BY <1>1, <1>2, <2>4, HtbAssumption DEF GoodLists
  <2>3. ASSUME Carries(dev), NEW q \in classes, q.dev = dev, q.id = ip.group
        PROVE  ip.min <= q.rate
    <3>1. cfg.groups[k].min <= q.rate /\ cfg.groups[k].min \in Nat
      BY <1>1, <2>2, <2>3, ConfigFacts DEF GroupKeepsItsRate
    <3>2. q.rate \in Int
      BY <1>1 DEF ClassType
    <3> QED BY <3>1, <3>2, <2>2, <1>3
  <2> QED BY <2>1, <2>3
<1>8. \A c \in new : c \in classes \/ c.id = ip.mark
  BY ClassAddMembers
<1>9. ip.min > 0 => WellFormed(new) /\ Nests(new, Promised, Able)
  <2>1. ip.min > 0 => ip.mark # 0
    BY <1>1, <1>7, ConfigFacts DEF Promised
  <2>2. Carries(dev) \/ dev \notin Able
    BY DEF Able
  <2> QED BY <2>1, <2>2, <1>1, <1>7, ClassAddNests
<1>10. IpRules(ip) \subseteq RuleType
  <2>1. ASSUME NEW o \in BOOLEAN
        PROVE  [dev |-> dev, over |-> o, v6 |-> ip.v6, owner |-> ip.mark,
                mark |-> IF o THEN OVERLIMIT_CLASS ELSE ip.mark] \in RuleType
    <3>1. (IF o THEN OVERLIMIT_CLASS ELSE ip.mark) \in Nat
      BY <1>3 DEF OVERLIMIT_CLASS
    <3> HIDE DEF ip
    <3> QED BY <3>1, <1>1, <1>3, RuleTyped
  <2>2. ASSUME NEW x \in IpRules(ip)
        PROVE  \E o \in BOOLEAN :
                 x = [dev |-> dev, over |-> o, v6 |-> ip.v6, owner |-> ip.mark,
                      mark |-> IF o THEN OVERLIMIT_CLASS ELSE ip.mark]
    BY Zenon DEF IpRules
  <2> QED BY <2>1, <2>2
<1>11. Refusal(classes, dev, ip.group, ip.mark) \subseteq Dev \X Nat
  BY <1>1, <1>3 DEF Refusal
<1> HIDE DEF ip, new
<1>12. TypeOK'
  <2>1. /\ cfg' \in Config /\ phase' = "ips" /\ parent' \in Nat /\ rate' \in Nat
        /\ nested' \in Nat
    BY <1>1, <1>4 DEF TypeOK
  <2>2. limited' \in BOOLEAN
    BY <1>3, <1>4, Zenon
  <2>3. dev' \in Dev /\ pos' \in Nat \ {0}
    BY <1>1, <1>4, HtbAssumption DEF Dev
  <2>4. classes' \subseteq ClassType /\ refused' \subseteq Dev \X Nat
    BY <1>1, <1>5, <1>6, <1>11 DEF TypeOK
  <2>5. filters' \subseteq Dev \X Nat
    BY <1>1, <1>3, <1>5 DEF TypeOK
  <2>6. rules' \subseteq [dev : Dev, over : BOOLEAN, v6 : BOOLEAN, owner : Nat, mark : Nat]
    BY <1>1, <1>4, <1>10 DEF TypeOK, RuleType
  <2>7. classmapped' \subseteq Nat
    BY <1>1, <1>4 DEF TypeOK
  <2> QED BY <2>1, <2>2, <2>3, <2>4, <2>5, <2>6, <2>7 DEF TypeOK
<1>13. CASE UNCHANGED classes
  BY <1>1, <1>4, <1>12, <1>13, QuietStep
<1>14. CASE ip.min > 0 /\ classes' = new
  <2>1. ip.mark \notin GroupIds \cup {1}
    BY <1>1, <1>7, <1>14, ConfigFacts DEF Promised
  <2>2. \A c \in new : c \in classes \/ c.id \notin GroupIds \cup {1}
    BY <2>1, <1>8
  <2> QED BY <2>2, <1>1, <1>4, <1>9, <1>12, <1>14, ClassStep
<1> QED BY <1>5, <1>13, <1>14

LEMMA FreeClassInv == IInv /\ FreeClass => IInv'
<1> SUFFICES ASSUME IInv, FreeClass PROVE IInv'
  OBVIOUS
<1> DEFINE free == IF cfg.freeMin = 0 THEN classes
                   ELSE ClassAdd(classes, dev, parent, FREE_CLASS, cfg.freeMin, cfg.freeMax)
           new == IF limited
                  THEN ClassAdd(free, dev, parent, OVERLIMIT_CLASS,
                                cfg.overlimitMin, cfg.overlimitMax)
                  ELSE free
<1>1. /\ cfg \in Config /\ dev \in Dev /\ dev \in Nat /\ parent \in Nat
      /\ classes \subseteq ClassType /\ phase = "free" /\ TypeOK
      /\ WellFormed(classes) /\ Nests(classes, Promised, Able)
      /\ cfg.freeMin \in Nat /\ cfg.overlimitMin \in Nat
      /\ cfg.freeMax \in Nat /\ cfg.overlimitMax \in Nat
      /\ FREE_CLASS \in Nat /\ FREE_CLASS # 0 /\ FREE_CLASS \notin Promised
      /\ OVERLIMIT_CLASS \in Nat /\ OVERLIMIT_CLASS # 0 /\ OVERLIMIT_CLASS \notin Promised
  <2>1. /\ cfg \in Config /\ dev \in Dev /\ parent \in Nat /\ classes \subseteq ClassType
        /\ TypeOK /\ WellFormed(classes) /\ Nests(classes, Promised, Able)
    BY DEF IInv, TypeOK
  <2>2. phase = "free"
    BY DEF FreeClass
  <2>3. /\ cfg.freeMin \in Nat /\ cfg.overlimitMin \in Nat
        /\ cfg.freeMax \in Nat /\ cfg.overlimitMax \in Nat
    BY <2>1, ConfigFacts
  <2>4. FREE_CLASS \notin Promised /\ OVERLIMIT_CLASS \notin Promised
    BY <2>1, ConfigFacts
  <2>5. /\ FREE_CLASS \in Nat /\ FREE_CLASS # 0
        /\ OVERLIMIT_CLASS \in Nat /\ OVERLIMIT_CLASS # 0
    BY DEF FREE_CLASS, OVERLIMIT_CLASS
  <2>6. dev \in Nat
    BY <2>1, HtbAssumption DEF Dev
  <2> QED BY <2>1, <2>2, <2>3, <2>4, <2>5, <2>6
<1>2. free \subseteq ClassType
  BY <1>1, ClassAddType
<1>3. WellFormed(free) /\ Nests(free, Promised, Able)
  BY <1>1, ClassAddNests
<1>4. \A c \in free : c \in classes \/ c.id = FREE_CLASS
  BY ClassAddMembers
<1>5. /\ classes' = new
      /\ refused' = refused
           \cup (IF cfg.freeMin = 0 THEN {} ELSE Refusal(classes, dev, parent, FREE_CLASS))
           \cup (IF limited THEN Refusal(free, dev, parent, OVERLIMIT_CLASS) ELSE {})
      /\ NextDev("restore")
      /\ UNCHANGED <<cfg, pos, parent, rate, nested, limited, classmapped>>
      /\ filters' \subseteq filters \cup {<<dev, FREE_CLASS>>}
      /\ rules' \subseteq rules \cup {[dev |-> dev, over |-> FALSE, v6 |-> FALSE,
                                      owner |-> FREE_CLASS, mark |-> FREE_CLASS]}
  BY DEF FreeClass
<1> HIDE DEF free
<1>6. new \subseteq ClassType
  BY <1>1, <1>2, ClassAddType
<1>7. WellFormed(new) /\ Nests(new, Promised, Able)
  BY <1>1, <1>3, ClassAddNests
<1>8. \A c \in new : c \in free \/ c.id = OVERLIMIT_CLASS
  BY ClassAddMembers
<1> HIDE DEF new
<1>9. dev' \in Dev /\ phase' \in {"free", "restore"}
  BY <1>1, <1>5, HtbAssumption DEF NextDev, Dev
<1>10. refused' \subseteq Dev \X Nat
  BY <1>1, <1>5 DEF Refusal, TypeOK
<1>11. filters' \subseteq Dev \X Nat
  BY <1>1, <1>5 DEF TypeOK
<1>12. rules' \subseteq [dev : Dev, over : BOOLEAN, v6 : BOOLEAN, owner : Nat, mark : Nat]
  <2>1. [dev |-> dev, over |-> FALSE, v6 |-> FALSE,
         owner |-> FREE_CLASS, mark |-> FREE_CLASS] \in RuleType
    BY <1>1, RuleTyped
  <2>2. rules \subseteq RuleType
    BY <1>1 DEF TypeOK, RuleType
  <2>3. rules' \subseteq RuleType
    BY <2>1, <2>2, <1>5
  <2> QED BY <2>3 DEF RuleType
<1>13. TypeOK'
  BY <1>1, <1>5, <1>6, <1>9, <1>10, <1>11, <1>12 DEF TypeOK
<1>14. \A c \in new : c \in classes \/ c.id \notin GroupIds \cup {1}
  BY <1>1, <1>4, <1>8 DEF Promised, FREE_CLASS, OVERLIMIT_CLASS
<1> QED BY <1>5, <1>7, <1>9, <1>13, <1>14, ClassStep

LEMMA OtherInv == IInv /\ (SkipIp \/ IpsDone \/ Restore) => IInv'
<1> SUFFICES ASSUME IInv, SkipIp \/ IpsDone \/ Restore PROVE IInv'
  OBVIOUS
<1>1. /\ UNCHANGED <<cfg, dev, parent, rate, nested, limited, classes, refused,
                     filters, rules, classmapped>>
      /\ pos' \in {pos, pos + 1}
      /\ phase' \in {"ips", "free", "done"}
  BY DEF SkipIp, IpsDone, Restore
<1>2. TypeOK
  BY DEF IInv
<1>3. TypeOK'
  BY <1>1, <1>2 DEF TypeOK
<1> QED BY <1>1, <1>3, QuietStep

(* What the properties of rates rest on is kept by every turn of a loop.    *)
THEOREM Invariance == Spec => []IInv
<1>1. Init => IInv
  BY InitInv
<1>2. IInv /\ [Next]_vars => IInv'
  <2> SUFFICES ASSUME IInv, [Next]_vars PROVE IInv'
    OBVIOUS
  <2>1. CASE RootClasses
    BY <2>1, RootClassesInv
  <2>2. CASE GroupClass
    BY <2>2, GroupClassInv
  <2>3. CASE GroupsDone
    BY <2>3, GroupsDoneInv
  <2>4. CASE SkipIp \/ IpsDone \/ Restore
    BY <2>4, OtherInv
  <2>5. CASE IpClass
    BY <2>5, IpClassInv
  <2>6. CASE FreeClass
    BY <2>6, FreeClassInv
  <2>7. CASE UNCHANGED vars
    BY <2>7 DEF vars, IInv, TypeOK, WellFormed, Known, Nests, GroupKeepsItsRate,
                RateBetween, Promised, GroupIds, OwnMarks, Rated, Able, Carries
  <2> QED BY <2>1, <2>2, <2>3, <2>4, <2>5, <2>6, <2>7 DEF Next
<1> QED BY <1>1, <1>2, PTL DEF Spec

(* Every variable keeps its type.                                          *)
THEOREM TypeCorrect == Spec => []TypeOK
<1>1. IInv => TypeOK
  BY DEF IInv
<1> QED BY <1>1, Invariance, PTL

(* The digital divide leaves every group at least its own guarantee and at *)
(* most the line, on every interface that carries the largest guarantee;   *)
(* on a slower one the first group gets the line, and every other one at   *)
(* least its own guarantee and at most the largest one.                    *)
THEOREM GroupsKeepTheirRates == Spec => []GroupKeepsItsRate
<1>1. IInv => GroupKeepsItsRate
  BY DEF IInv
<1> QED BY <1>1, Invariance, PTL

(* No group and no address is guaranteed more than the class above it, on  *)
(* every interface that carries the largest guarantee.                     *)
THEOREM RatesAreNested == Spec => []RatesNest
<1>1. IInv => RatesNest
  BY DEF IInv, TypeOK, ClassType, Nests, RatesNest, Promised, Able
<1> QED BY <1>1, Invariance, PTL

-----------------------------------------------------------------------------

(* The ids on an interface, the groups before the n-th, the marks of the   *)
(* addresses before the n-th that are to have a class.                     *)
IdsOf(cs, d) == {c.id : c \in {c \in cs : c.dev = d}}
GroupsUpto(n) == {cfg.groups[i].id : i \in {i \in 1..Len(cfg.groups) : i < n}}
MarksUpto(n) ==
  {cfg.ips[i].mark : i \in {i \in 1..Len(cfg.ips) : i < n /\ Rated(i)}}

FreeIds == (IF cfg.freeMin = 0 THEN {} ELSE {FREE_CLASS})
             \cup (IF limited THEN {OVERLIMIT_CLASS} ELSE {})

Late == phase \in {"free", "restore", "done"}

(* Every class command is accepted, but the second one for a mark, so that *)
(* an interface has the classes of the turns it has seen, and no others.   *)
Complete ==
  /\ ClassesAccepted
  /\ \A d \in Dev :
       /\ phase = "root" => IdsOf(classes, d) = IF d < dev THEN {1, 2} ELSE {}
       /\ phase = "groups" =>
            IdsOf(classes, d) = {1, 2} \cup (IF d < dev THEN GroupIds
                                             ELSE IF d = dev THEN GroupsUpto(pos) ELSE {})
       /\ phase = "ips" =>
            IdsOf(classes, d) = {1, 2} \cup GroupIds
                                  \cup (IF d < dev THEN MarksUpto(pos + 1) ELSE MarksUpto(pos))
       /\ Late =>
            IdsOf(classes, d) = {1, 2} \cup GroupIds \cup OwnMarks
                                  \cup (IF phase = "free" /\ d >= dev THEN {} ELSE FreeIds)

(* No group is nested in another: `parent' stays 1.                        *)
Flat == cfg.nesting = 0 \/ Len(cfg.groups) = 0
NestedUpto(n) ==
  \E k \in 1..Len(cfg.groups) : k < n /\ k <= cfg.nesting /\ parent = cfg.groups[k].id

(* Whom `parent' names, and how the turns of the loops are counted.        *)
Parents ==
  /\ Flat \/ phase = "root" => parent = 1
  /\ phase = "root" => nested = 0
  /\ phase = "groups" => nested = pos - 1 /\ pos <= Len(cfg.groups) + 1
  /\ phase = "groups" /\ ~Flat =>
       IF pos = 1 THEN IF dev = 1 THEN parent = 1 ELSE NestedUpto(Len(cfg.groups) + 1)
                  ELSE NestedUpto(pos)
  /\ phase = "ips" =>
       /\ pos <= Len(cfg.ips) + 1
       /\ dev > 1 => pos <= Len(cfg.ips) /\ cfg.ips[pos].mark > 0
  /\ (phase = "ips" \/ Late) /\ ~Flat => NestedUpto(Len(cfg.groups) + 1)

(* How deep a class can be, where it hangs, and what its ceiling is.       *)
WellPlaced(c) ==
  /\ c.id = 2 => c.depth <= 1
  /\ c.id = 1 => c.depth <= 2 /\ c.ceil = Speed[c.dev]
  /\ \A i \in 1..Len(cfg.groups) : c.id = cfg.groups[i].id =>
       c.depth <= 2 + i /\ c.depth <= 3 + cfg.nesting /\ c.ceil = Speed[c.dev]
  /\ c.parent \in {0, 1, 2} \cup GroupIds
  /\ c.id > 2 =>
       IF Flat \/ c.dev = 1 THEN c.parent # 0
       ELSE c.parent # 1 /\ (c.parent = 0 => c.id = cfg.groups[1].id)

Placed == \A c \in classes : WellPlaced(c)

(* The class of an address with a rate has the rate of the first address   *)
(* with this mark.                                                         *)
HasClass(i, d) ==
  \E c \in classes, j \in 1..Len(cfg.ips) :
    /\ c.dev = d /\ c.id = cfg.ips[i].mark
    /\ IsFirst(j, cfg.ips[i].mark) /\ c.rate = cfg.ips[j].min

(* An address has its rules, and its class and filter if it has a rate.    *)
Served(i, d) ==
  /\ cfg.ips[i].mark > 0 =>
       \E r \in rules : r.dev = d /\ ~r.over /\ r.owner = cfg.ips[i].mark
  /\ Rated(i) =>
       /\ HasClass(i, d)
       /\ cfg.classify \/ <<d, cfg.ips[i].mark>> \in filters

AllServed ==
  /\ phase \in {"root", "groups"} => rules = {} /\ classmapped = {}
  /\ \A i \in 1..Len(cfg.ips), d \in Dev :
       Late \/ (phase = "ips" /\ (i < pos \/ (i = pos /\ d < dev))) => Served(i, d)
  /\ \A i \in classmapped :
       i \in 1..Len(cfg.ips) /\ Rated(i) /\ (Late \/ (phase = "ips" /\ i < pos))

(* Rules mark with what has a class and a filter, or will have one when    *)
(* the loop is done if an address with this mark has a rate.               *)
MarksMeant ==
  \A r \in rules : ~r.over =>
    /\ r.mark = r.owner
    /\ \/ r.owner \notin {0, 1, 2, FREE_CLASS, OVERLIMIT_CLASS} \cup GroupIds
       \/ /\ r.owner = FREE_CLASS /\ FREE_CLASS \in IdsOf(classes, r.dev)
          /\ <<r.dev, FREE_CLASS>> \in filters

(* Two roots, the nested groups, one group beside the last of them and an  *)
(* address fit into the levels HTB has.                                    *)
LevelsSuffice == \A c \in Config : c.nesting + 4 <= MaxDepth

TInv == Complete /\ Parents /\ Placed /\ AllServed /\ MarksMeant

(* What a class command does that tc has no reason to refuse.              *)
Added(cs, d, p, id, r, ceil, h) ==
  /\ ClassAdd(cs, d, p, id, r, ceil) = cs \cup {h}
  /\ Refusal(cs, d, p, id) = {}
  /\ h.dev = d /\ h.id = id /\ h.rate = r /\ h.ceil = ceil
  /\ h.depth = Depth(cs, d, p) + 1
  /\ h.parent = IF p \in IdsOf(cs, d) THEN p ELSE 0
  /\ IdsOf(cs \cup {h}, d) = IdsOf(cs, d) \cup {id}
  /\ \A e : e # d => IdsOf(cs \cup {h}, e) = IdsOf(cs, e)

LEMMA AddedClass ==
  ASSUME NEW cs, NEW d, NEW p, NEW id, NEW r, NEW ceil,
         id \notin IdsOf(cs, d), Depth(cs, d, p) < MaxDepth
  PROVE  \E h : Added(cs, d, p, id, r, ceil, h)
<1> DEFINE h == HtbClass(cs, d, p, id, r, ceil)
<1>1. \A k : Known(cs, d, k) <=> k \in IdsOf(cs, d)
  BY DEF Known, IdsOf
<1>2. Accepts(cs, d, p, id)
  BY <1>1 DEF Accepts
<1>3. ClassAdd(cs, d, p, id, r, ceil) = cs \cup {h} /\ Refusal(cs, d, p, id) = {}
  BY <1>2 DEF ClassAdd, Refusal
<1>4. /\ h.dev = d /\ h.id = id /\ h.rate = r /\ h.ceil = ceil
      /\ h.depth = Depth(cs, d, p) + 1
      /\ h.parent = IF p \in IdsOf(cs, d) THEN p ELSE 0
  BY <1>1 DEF HtbClass
<1> HIDE DEF h
<1>5. IdsOf(cs \cup {h}, d) = IdsOf(cs, d) \cup {id}
  BY <1>4 DEF IdsOf
<1>6. ASSUME NEW e, e # d PROVE IdsOf(cs \cup {h}, e) = IdsOf(cs, e)
  BY <1>4, <1>6 DEF IdsOf
<1>7. Added(cs, d, p, id, r, ceil, h)
  BY <1>3, <1>4, <1>5, <1>6 DEF Added
<1> QED BY <1>7

LEMMA DepthAtMost ==
  ASSUME NEW cs, cs \subseteq ClassType, NEW d, NEW id, NEW n \in Nat,
         \A c \in cs : c.dev = d /\ c.id = id => c.depth <= n
  PROVE  Depth(cs, d, id) \in Nat /\ Depth(cs, d, id) <= n
<1>1. CASE Known(cs, d, id)
  <2>1. /\ (CHOOSE c \in cs : c.dev = d /\ c.id = id) \in cs
        /\ (CHOOSE c \in cs : c.dev = d /\ c.id = id).dev = d
        /\ (CHOOSE c \in cs : c.dev = d /\ c.id = id).id = id
    BY <1>1 DEF Known
  <2> QED BY <1>1, <2>1, DepthType DEF Depth
<1>2. CASE ~Known(cs, d, id)
  BY <1>2 DEF Depth
<1> QED BY <1>1, <1>2

LEMMA DepthOfNone ==
  ASSUME NEW cs, NEW d, NEW id, id \notin IdsOf(cs, d)
  PROVE  Depth(cs, d, id) = 0
BY DEF Depth, Known, IdsOf

(* What tc turns down and what is left of the tree.                        *)
LEMMA RefusedClass ==
  ASSUME NEW cs, NEW d, NEW p, NEW id, NEW r, NEW ceil, id \in IdsOf(cs, d)
  PROVE  ClassAdd(cs, d, p, id, r, ceil) = cs /\ Refusal(cs, d, p, id) = {<<d, id>>}
BY DEF ClassAdd, Refusal, Accepts, Known, IdsOf

LEMMA TInit == Init => TInv
<1> SUFFICES ASSUME Init PROVE TInv
  OBVIOUS
<1>1. cfg \in Config /\ Len(cfg.groups) \in Nat
  <2>1. cfg \in Config
    BY DEF Init
  <2> QED BY <2>1, ConfigFacts
<1>2. Complete
  <2>1. \A d \in Dev : IdsOf({}, d) = {} /\ ~(d < 1)
    BY HtbAssumption DEF IdsOf, Dev
  <2>2. ClassesAccepted
    BY DEF Init, ClassesAccepted
  <2> QED BY <2>1, <2>2 DEF Init, Complete, Late
<1>3. Parents
  BY DEF Init, Parents, Late
<1>4. Placed /\ AllServed /\ MarksMeant
  BY DEF Init, Placed, WellPlaced, AllServed, MarksMeant, Late
<1> QED BY <1>2, <1>3, <1>4 DEF TInv

(* What every step starts from.                                            *)
LEMMA Basics ==
  ASSUME IInv, TInv, LevelsSuffice
  PROVE  /\ cfg \in Config /\ dev \in Dev /\ dev \in Nat /\ NDev \in Nat /\ pos \in Nat
         /\ pos >= 1 /\ dev >= 1 /\ dev <= NDev
         /\ classes \subseteq ClassType /\ nested \in Nat /\ rate \in Nat
         /\ cfg.nesting \in Nat /\ MaxDepth \in Nat /\ cfg.nesting + 4 <= MaxDepth
         /\ Len(cfg.groups) \in Nat /\ Len(cfg.ips) \in Nat
         /\ \A d \in Dev : d \in Nat /\ d >= 1 /\ d <= NDev /\ Speed[d] \in Nat
         /\ \A c \in classes : c.id # 0 /\ c.dev \in Dev /\ c.depth \in Nat /\ c.id \in Nat
         /\ \A i \in 1..Len(cfg.groups) : cfg.groups[i].id \in Nat /\ cfg.groups[i].id > 4
         /\ \A i \in 1..Len(cfg.ips) : /\ cfg.ips[i].mark \in Nat /\ cfg.ips[i].min \in Nat
                                       /\ cfg.ips[i].mark > 0 =>
                                            cfg.ips[i].mark > 4
                                            /\ cfg.ips[i].mark \notin GroupIds
         /\ OwnMarks \cap GroupIds = {}
         /\ Complete /\ Parents /\ Placed /\ AllServed /\ MarksMeant
<1>1. /\ cfg \in Config /\ dev \in Dev /\ pos \in Nat \ {0}
      /\ classes \subseteq ClassType /\ nested \in Nat /\ rate \in Nat
      /\ WellFormed(classes)
  BY DEF IInv, TypeOK
<1>2. /\ NDev \in Nat /\ MaxDepth \in Nat
      /\ \A d \in Dev : d \in Nat /\ d >= 1 /\ d <= NDev /\ Speed[d] \in Nat
  BY HtbAssumption DEF Dev
<1>3. \A c \in classes : c.id # 0 /\ c.dev \in Dev /\ c.depth \in Nat /\ c.id \in Nat
  BY <1>1 DEF WellFormed, ClassType
<1>4. /\ cfg.nesting \in Nat /\ Len(cfg.groups) \in Nat /\ Len(cfg.ips) \in Nat
      /\ OwnMarks \cap GroupIds = {}
      /\ \A i \in 1..Len(cfg.groups) : cfg.groups[i].id \in Nat
      /\ \A i \in 1..Len(cfg.ips) : cfg.ips[i].mark \in Nat /\ cfg.ips[i].min \in Nat
  BY <1>1, ConfigFacts
<1>5. GoodLists(cfg)
  BY <1>1, HtbAssumption
<1>6. /\ \A i \in 1..Len(cfg.groups) : cfg.groups[i].id > 4
      /\ \A i \in 1..Len(cfg.ips) : cfg.ips[i].mark > 0 =>
           cfg.ips[i].mark > 4 /\ cfg.ips[i].mark \notin GroupIds
  BY <1>5 DEF GoodLists, OVERLIMIT_CLASS, GroupIds
<1>7. cfg.nesting + 4 <= MaxDepth
  BY <1>1 DEF LevelsSuffice
<1>8. Complete /\ Parents /\ Placed /\ AllServed /\ MarksMeant
  BY DEF TInv
<1>9. dev \in Nat /\ pos \in Nat /\ pos >= 1 /\ dev >= 1 /\ dev <= NDev
  BY <1>1, <1>2
<1> QED BY <1>1, <1>2, <1>3, <1>4, <1>6, <1>7, <1>8, <1>9

LEMMA NoneBeforeTheFirst == GroupsUpto(1) = {}
<1>1. \A i \in 1..Len(cfg.groups) : ~(i < 1)
  OBVIOUS
<1> QED BY <1>1 DEF GroupsUpto

(* Whatever a step leaves of the configuration leaves these, too.          *)
LEMMA SameLists ==
  ASSUME cfg' = cfg
  PROVE  /\ GroupIds' = GroupIds /\ OwnMarks' = OwnMarks
         /\ \A n : GroupsUpto(n)' = GroupsUpto(n)
         /\ \A n : MarksUpto(n)' = MarksUpto(n)
         /\ \A i : Rated(i)' <=> Rated(i)
         /\ \A j, m : IsFirst(j, m)' <=> IsFirst(j, m)
         /\ TwiceRated' = TwiceRated
         /\ Flat' = Flat
         /\ limited' = limited => FreeIds' = FreeIds
BY DEF GroupIds, OwnMarks, GroupsUpto, MarksUpto, Rated, IsFirst, TwiceRated, Flat, FreeIds

(* A step that has nothing else refused.                                   *)
LEMMA StillAccepted ==
  ASSUME cfg' = cfg, ClassesAccepted,
         \A q \in refused' : q \in refused \/ q[2] \in TwiceRated
  PROVE  ClassesAccepted'
<1>1. TwiceRated' = TwiceRated
  BY SameLists
<1> QED BY <1>1 DEF ClassesAccepted

LEMMA TRoot == IInv /\ TInv /\ LevelsSuffice /\ RootClasses => TInv'
<1> SUFFICES ASSUME IInv, TInv, LevelsSuffice, RootClasses PROVE TInv'
  OBVIOUS
<1> DEFINE medium == ClassAdd(classes, dev, 0, 2, Medium, Medium)
           line == ClassAdd(medium, dev, 2, 1, Speed[dev], Speed[dev])
<1>1. /\ phase = "root" /\ parent = 1
      /\ ClassesAccepted /\ rules = {} /\ classmapped = {}
      /\ \A d \in Dev : IdsOf(classes, d) = IF d < dev THEN {1, 2} ELSE {}
      /\ pos = 1 /\ nested = 0 /\ Placed
  <2>1. phase = "root"
    BY DEF RootClasses
  <2>2. Complete /\ Parents /\ Placed /\ AllServed /\ RateBetween
    BY DEF TInv, IInv
  <2>3. /\ ClassesAccepted /\ rules = {} /\ classmapped = {}
        /\ \A d \in Dev : IdsOf(classes, d) = IF d < dev THEN {1, 2} ELSE {}
    BY <2>1, <2>2 DEF Complete, AllServed
  <2>4. pos = 1 /\ nested = 0 /\ parent = 1
    BY <2>1, <2>2 DEF Parents, RateBetween
  <2> QED BY <2>1, <2>2, <2>3, <2>4
<1>2. IdsOf(classes, dev) = {} /\ MaxDepth >= 4 /\ MaxDepth \in Nat
  BY <1>1, Basics
<1>3. Depth(classes, dev, 0) = 0
  BY <1>2, DepthOfNone
<1>14. 2 \notin IdsOf(classes, dev) /\ 0 \notin IdsOf(classes, dev)
       /\ Depth(classes, dev, 0) < MaxDepth
  BY <1>2, <1>3
<1>15. PICK h : Added(classes, dev, 0, 2, Medium, Medium, h)
  BY <1>14, AddedClass
<1>4. /\ medium = classes \cup {h} /\ Refusal(classes, dev, 0, 2) = {}
      /\ h.dev = dev /\ h.id = 2 /\ h.ceil = Medium
      /\ h.depth = 1 /\ h.parent = 0
      /\ IdsOf(medium, dev) = {2}
      /\ \A e : e # dev => IdsOf(medium, e) = IdsOf(classes, e)
  BY <1>2, <1>3, <1>15 DEF Added
<1> HIDE DEF medium
<1>5. Depth(medium, dev, 2) \in Nat /\ Depth(medium, dev, 2) <= 1
  <2>1. medium \subseteq ClassType
    BY Basics, HtbAssumption, ClassAddType DEF medium
  <2>2. \A c \in medium : c.dev = dev /\ c.id = 2 => c.depth <= 1
    BY <1>1, <1>4 DEF Placed, WellPlaced
  <2> QED BY <2>1, <2>2, DepthAtMost
<1>16. 1 \notin IdsOf(medium, dev) /\ Depth(medium, dev, 2) < MaxDepth
  BY <1>2, <1>4, <1>5
<1>17. PICK k : Added(medium, dev, 2, 1, Speed[dev], Speed[dev], k)
  BY <1>16, AddedClass
<1>6. /\ line = medium \cup {k} /\ Refusal(medium, dev, 2, 1) = {}
      /\ k.dev = dev /\ k.id = 1 /\ k.ceil = Speed[dev]
      /\ k.depth = Depth(medium, dev, 2) + 1 /\ k.parent = 2
      /\ IdsOf(line, dev) = {1, 2}
      /\ \A e : e # dev => IdsOf(line, e) = IdsOf(medium, e)
  BY <1>4, <1>17 DEF Added
<1> HIDE DEF line
<1>7. /\ classes' = line /\ refused' = refused /\ phase' \in {"root", "groups"}
      /\ UNCHANGED <<cfg, pos, parent, rate, nested, limited, filters, rules, classmapped>>
      /\ NextDev("groups")
  BY <1>1, <1>4, <1>6 DEF RootClasses, NextDev, medium, line
<1>8. \A d \in Dev : IdsOf(line, d) = IF d <= dev THEN {1, 2} ELSE {}
  <2> SUFFICES ASSUME NEW d \in Dev
               PROVE  IdsOf(line, d) = IF d <= dev THEN {1, 2} ELSE {}
    OBVIOUS
  <2>1. d \in Nat /\ dev \in Nat
    BY Basics
  <2>2. CASE d = dev
    BY <2>1, <2>2, <1>6
  <2>3. CASE d # dev
    <3>1. IdsOf(line, d) = IdsOf(classes, d)
      BY <2>3, <1>4, <1>6
    <3>2. d <= dev <=> d < dev
      BY <2>1, <2>3
    <3> QED BY <3>1, <3>2, <1>1
  <2> QED BY <2>2, <2>3
<1>9. Complete'
  <2>4. ClassesAccepted'
    BY <1>1, <1>7, StillAccepted
  <2>1. Dev' = Dev /\ \A d : IdsOf(classes, d)' = IdsOf(line, d)
    BY <1>7 DEF IdsOf
  <2>2. CASE dev < NDev
    <3>1. dev' = dev + 1 /\ phase' = "root"
      BY <2>2, <1>1, <1>7 DEF NextDev
    <3>2. \A d \in Dev : d <= dev <=> d < dev'
      BY <3>1, Basics
    <3> QED BY <2>1, <2>4, <3>1, <3>2, <1>8 DEF Complete, Late
  <2>3. CASE ~(dev < NDev)
    <3>1. dev' = 1 /\ phase' = "groups" /\ pos' = 1
      BY <2>3, <1>1, <1>7 DEF NextDev
    <3>2. \A d \in Dev : d <= dev /\ ~(d < dev')
      BY <2>3, <3>1, Basics
    <3>3. GroupsUpto(1) = {}
      BY NoneBeforeTheFirst
    <3>4. GroupsUpto(pos)' = {}
      BY <3>1, <3>3, <1>7 DEF GroupsUpto
    <3> QED BY <2>1, <2>4, <3>1, <3>2, <3>4, <1>8 DEF Complete, Late
  <2> QED BY <2>2, <2>3
<1>10. Parents'
  <2>1. parent' = 1 /\ pos' = 1 /\ nested' = 0 /\ Len(cfg'.groups) \in Nat
    BY <1>1, <1>7, Basics
  <2>2. phase' = "groups" => dev' = 1
    BY <1>1, <1>7 DEF NextDev
  <2> QED BY <2>1, <2>2, <1>7 DEF Parents, Late
<1>11. Placed'
  <2>1. \A c \in line : c \in classes \/ c = h \/ c = k
    BY <1>4, <1>6
  <2>2. \A i \in 1..Len(cfg.groups) : cfg.groups[i].id \notin {1, 2}
    BY Basics
  <2>3. k.depth <= 2 /\ h.depth <= 1
    BY <1>4, <1>5, <1>6
  <2>4. (Flat' = Flat) /\ (GroupIds' = GroupIds)
    BY <1>7, SameLists
  <2> QED BY <2>1, <2>2, <2>3, <2>4, <1>1, <1>4, <1>6, <1>7, SMTT(30) DEF Placed, WellPlaced
<1>12. AllServed'
  BY <1>1, <1>7 DEF AllServed, Late
<1>13. MarksMeant'
  BY <1>1, <1>7 DEF MarksMeant
<1> QED BY <1>9, <1>10, <1>11, <1>12, <1>13 DEF TInv

(* What hangs under `parent' is not too deep.                              *)
LEMMA ParentDepth ==
  ASSUME IInv, TInv, LevelsSuffice, NEW cs, cs \subseteq ClassType,
         \A c \in cs : WellPlaced(c), NEW d, NEW n \in Nat, NEW m \in Nat,
         \/ parent \notin IdsOf(cs, d) \/ parent = 1
         \/ NestedUpto(n) /\ (\A k \in Nat : k < n /\ k <= cfg.nesting => k <= m)
  PROVE  Depth(cs, d, parent) \in Nat /\ Depth(cs, d, parent) <= 2 + m
<1>1. CASE parent \notin IdsOf(cs, d)
  BY <1>1, DepthOfNone
<1>2. CASE parent = 1
  <2>1. \A c \in cs : c.dev = d /\ c.id = 1 => c.depth <= 2
    BY DEF WellPlaced
  <2>2. Depth(cs, d, 1) \in Nat /\ Depth(cs, d, 1) <= 2
    BY <2>1, DepthAtMost
  <2> QED BY <1>2, <2>2
<1>3. CASE NestedUpto(n) /\ (\A k \in Nat : k < n /\ k <= cfg.nesting => k <= m)
  <2>1. PICK k \in 1..Len(cfg.groups) :
          k < n /\ k <= cfg.nesting /\ parent = cfg.groups[k].id
    BY <1>3 DEF NestedUpto
  <2>2. k \in Nat /\ k <= m
    BY <1>3, <2>1, Basics
  <2>3. \A c \in cs : c.dev = d /\ c.id = parent => c.depth <= 2 + k
    BY <2>1 DEF WellPlaced
  <2>4. Depth(cs, d, parent) \in Nat /\ Depth(cs, d, parent) <= 2 + k
    BY <2>2, <2>3, DepthAtMost
  <2> QED BY <2>2, <2>4
<1> QED BY <1>1, <1>2, <1>3

LEMMA TGroup == IInv /\ TInv /\ LevelsSuffice /\ GroupClass => TInv'
<1> SUFFICES ASSUME IInv, TInv, LevelsSuffice, GroupClass PROVE TInv'
  OBVIOUS
<1> DEFINE g == cfg.groups[pos]
           new == ClassAdd(classes, dev, parent, g.id, rate, Speed[dev])
           m == IF pos - 1 < cfg.nesting THEN pos - 1 ELSE cfg.nesting
<1>1. /\ phase = "groups" /\ pos \in 1..Len(cfg.groups) /\ pos \in Nat /\ pos >= 1
      /\ ClassesAccepted /\ rules = {} /\ classmapped = {} /\ nested = pos - 1
      /\ \A d \in Dev :
           IdsOf(classes, d) = {1, 2} \cup (IF d < dev THEN GroupIds
                                            ELSE IF d = dev THEN GroupsUpto(pos) ELSE {})
      /\ Placed /\ dev \in Dev /\ dev \in Nat /\ cfg.nesting \in Nat
      /\ classes \subseteq ClassType /\ Len(cfg.groups) \in Nat
  <2>1. /\ phase = "groups" /\ pos <= Len(cfg.groups)
    BY DEF GroupClass
  <2>2. /\ Complete /\ Parents /\ Placed /\ AllServed /\ pos \in Nat /\ pos >= 1
        /\ Len(cfg.groups) \in Nat /\ dev \in Dev /\ dev \in Nat /\ cfg.nesting \in Nat
        /\ classes \subseteq ClassType
    BY Basics
  <2>3. /\ ClassesAccepted
        /\ \A d \in Dev :
             IdsOf(classes, d) = {1, 2} \cup (IF d < dev THEN GroupIds
                                            ELSE IF d = dev THEN GroupsUpto(pos) ELSE {})
    BY <2>1, <2>2 DEF Complete
  <2>4. nested = pos - 1 /\ rules = {} /\ classmapped = {}
    BY <2>1, <2>2 DEF Parents, AllServed
  <2> QED BY <2>1, <2>2, <2>3, <2>4
<1>2. /\ g.id \in Nat /\ g.id > 4 /\ g.id \in GroupIds
      /\ \A i \in 1..Len(cfg.groups) : cfg.groups[i].id = g.id => i = pos
  <2>1. GoodLists(cfg)
    BY Basics, HtbAssumption
  <2> QED BY <1>1, <2>1, Basics DEF GoodLists, GroupIds
<1>3. IdsOf(classes, dev) = {1, 2} \cup GroupsUpto(pos) /\ g.id \notin IdsOf(classes, dev)
  <2>1. IdsOf(classes, dev) = {1, 2} \cup GroupsUpto(pos)
    BY <1>1
  <2>2. g.id \notin GroupsUpto(pos)
    <3>1. \A i \in 1..Len(cfg.groups) : i < pos => cfg.groups[i].id # g.id
      BY <1>1, <1>2
    <3> QED BY <3>1 DEF GroupsUpto
  <2> QED BY <1>2, <2>1, <2>2
<1>4. /\ m \in Nat /\ m <= pos - 1 /\ m <= cfg.nesting
      /\ \A k \in Nat : k < pos /\ k <= cfg.nesting => k <= m
  BY <1>1
<1>5. /\ Flat => parent = 1
      /\ ~Flat => IF pos = 1 THEN IF dev = 1 THEN parent = 1 ELSE NestedUpto(Len(cfg.groups) + 1)
                  ELSE NestedUpto(pos)
      /\ Flat => cfg.nesting = 0
  BY <1>1, Basics DEF Parents, Flat
<1>6. /\ pos > 1 /\ ~Flat => parent \in IdsOf(classes, dev)
      /\ ~Flat /\ pos = 1 /\ dev # 1 => parent \notin IdsOf(classes, dev) /\ parent # 1
      /\ ~Flat /\ pos > 1 => parent # 1
  <2>1. ASSUME pos > 1, ~Flat PROVE parent \in IdsOf(classes, dev) /\ parent # 1
    <3>1. NestedUpto(pos)
      BY <2>1, <1>5
    <3>2. parent \in GroupsUpto(pos)
      BY <3>1 DEF NestedUpto, GroupsUpto
    <3>3. parent # 1
      <4>1. PICK k \in 1..Len(cfg.groups) : parent = cfg.groups[k].id
        BY <3>1 DEF NestedUpto
      <4>2. cfg.groups[k].id \in Nat /\ cfg.groups[k].id > 4
        BY Basics
      <4> QED BY <4>1, <4>2
    <3> QED BY <3>2, <3>3, <1>3
  <2>2. ASSUME pos = 1, dev # 1, ~Flat PROVE parent \notin IdsOf(classes, dev) /\ parent # 1
    <3>1. NestedUpto(Len(cfg.groups) + 1)
      BY <2>2, <1>5
    <3>2. parent \notin {1, 2}
      <4>1. PICK k \in 1..Len(cfg.groups) : parent = cfg.groups[k].id
        BY <3>1 DEF NestedUpto
      <4>2. cfg.groups[k].id \in Nat /\ cfg.groups[k].id > 4
        BY Basics
      <4> QED BY <4>1, <4>2
    <3>3. GroupsUpto(1) = {}
      BY NoneBeforeTheFirst
    <3> QED BY <2>2, <3>2, <3>3, <1>3
  <2> QED BY <2>1, <2>2
<1> HIDE DEF m
<1>7. Depth(classes, dev, parent) \in Nat /\ Depth(classes, dev, parent) <= 2 + m
  <2>1. \A c \in classes : WellPlaced(c)
    BY <1>1 DEF Placed
  <2>2. \/ parent \notin IdsOf(classes, dev) \/ parent = 1
        \/ NestedUpto(pos) /\ (\A k \in Nat : k < pos /\ k <= cfg.nesting => k <= m)
    BY <1>1, <1>4, <1>5, <1>6
  <2> QED BY <1>1, <1>4, <2>1, <2>2, ParentDepth
<1>8. Depth(classes, dev, parent) < MaxDepth
  <2>1. MaxDepth \in Nat /\ cfg.nesting + 4 <= MaxDepth
    BY Basics
  <2> QED BY <2>1, <1>1, <1>4, <1>7
<1> HIDE DEF g
<1>9. PICK h : Added(classes, dev, parent, g.id, rate, Speed[dev], h)
  BY <1>3, <1>8, AddedClass
<1>10. /\ new = classes \cup {h} /\ Refusal(classes, dev, parent, g.id) = {}
       /\ h.dev = dev /\ h.id = g.id /\ h.ceil = Speed[dev]
       /\ h.depth = Depth(classes, dev, parent) + 1
       /\ h.parent = IF parent \in IdsOf(classes, dev) THEN parent ELSE 0
       /\ IdsOf(new, dev) = IdsOf(classes, dev) \cup {g.id}
       /\ \A e : e # dev => IdsOf(new, e) = IdsOf(classes, e)
  BY <1>9 DEF Added
<1> HIDE DEF new
<1>11. /\ classes' = new /\ refused' = refused /\ parent' = ParentAfter(g)
       /\ nested' = pos /\ pos' = pos + 1 /\ phase' = "groups"
       /\ UNCHANGED <<cfg, dev, limited, filters, rules, classmapped>>
  BY <1>1, <1>10 DEF GroupClass, GroupParent, g, new
<1>12. WellPlaced(h)
  <2>1. h.depth <= 2 + pos /\ h.depth <= 3 + cfg.nesting
    BY <1>1, <1>4, <1>7, <1>10
  <2>2. h.parent \in {0, 1, 2} \cup GroupIds
    BY <1>10 DEF IInv
  <2>3. IF Flat \/ h.dev = 1 THEN h.parent # 0
        ELSE h.parent # 1 /\ (h.parent = 0 => h.id = cfg.groups[1].id)
    <3>1. parent # 0
      BY Basics DEF IInv, GroupIds
    <3>2. CASE Flat \/ h.dev = 1
      <4>1. parent \in IdsOf(classes, dev)
        BY <3>2, <1>1, <1>3, <1>5, <1>6, <1>10
      <4> QED BY <3>1, <3>2, <4>1, <1>10
    <3>3. CASE ~(Flat \/ h.dev = 1)
      <4>1. parent # 1 /\ (pos > 1 => parent \in IdsOf(classes, dev))
        BY <3>3, <1>1, <1>6, <1>10
      <4>2. CASE pos = 1
        BY <3>1, <3>3, <4>1, <4>2, <1>10 DEF g
      <4>3. CASE pos > 1
        BY <3>1, <3>3, <4>1, <4>3, <1>10
      <4> QED BY <4>2, <4>3, <1>1
    <3> QED BY <3>2, <3>3
  <2> QED BY <2>1, <2>2, <2>3, <1>2, <1>10 DEF WellPlaced
<1>13. Placed'
  <2>1. \A c \in new : WellPlaced(c)
    BY <1>1, <1>10, <1>12 DEF Placed
  <2>2. \A c : WellPlaced(c)' <=> WellPlaced(c)
    BY <1>11, SameLists DEF WellPlaced
  <2> QED BY <2>1, <2>2, <1>11 DEF Placed
<1>14. Complete'
  <2>1. GroupsUpto(pos + 1) = GroupsUpto(pos) \cup {g.id}
    BY <1>1 DEF GroupsUpto, g
  <2>2. \A d \in Dev :
          IdsOf(new, d) = {1, 2} \cup (IF d < dev THEN GroupIds
                                       ELSE IF d = dev THEN GroupsUpto(pos + 1) ELSE {})
    <3> SUFFICES ASSUME NEW d \in Dev
                 PROVE  IdsOf(new, d)
                          = {1, 2} \cup (IF d < dev THEN GroupIds
                                         ELSE IF d = dev THEN GroupsUpto(pos + 1) ELSE {})
      OBVIOUS
    <3>1. d \in Nat
      BY Basics
    <3>2. CASE d = dev
      <4>1. IdsOf(new, dev) = {1, 2} \cup GroupsUpto(pos + 1)
        BY <2>1, <1>3, <1>10
      <4> QED BY <3>1, <3>2, <4>1
    <3>3. CASE d # dev
      BY <3>1, <3>3, <1>1, <1>10
    <3> QED BY <3>2, <3>3
  <2>3. (GroupIds' = GroupIds) /\ GroupsUpto(pos)' = GroupsUpto(pos + 1)
    BY <1>11 DEF GroupIds, GroupsUpto
  <2>4. \A d : IdsOf(classes, d)' = IdsOf(new, d)
    BY <1>11 DEF IdsOf
  <2>5. ClassesAccepted'
    BY <1>1, <1>11, StillAccepted
  <2> QED BY <2>2, <2>3, <2>4, <2>5, <1>11 DEF Complete, Late
<1>15. Parents'
  <2>1. Flat' = Flat
    BY <1>11, SameLists
  <2>2. ASSUME Flat PROVE parent' = 1
    BY <2>2, <1>1, <1>5, <1>11 DEF ParentAfter
  <2>3. ASSUME ~Flat
        PROVE  \E k \in 1..Len(cfg.groups) :
                 k < pos + 1 /\ k <= cfg.nesting /\ parent' = cfg.groups[k].id
    <3>1. cfg.nesting >= 1
      BY <2>3, <1>1 DEF Flat
    <3>2. CASE nested < cfg.nesting
      BY <3>2, <1>1, <1>11 DEF ParentAfter, g
    <3>3. CASE ~(nested < cfg.nesting)
      <4>1. pos > 1 /\ parent' = parent
        BY <3>1, <3>3, <1>1, <1>11 DEF ParentAfter
      <4>2. PICK k \in 1..Len(cfg.groups) :
              k < pos /\ k <= cfg.nesting /\ parent = cfg.groups[k].id
        BY <4>1, <2>3, <1>5 DEF NestedUpto
      <4> QED BY <4>1, <4>2, <1>1
    <3> QED BY <3>2, <3>3
  <2>4. ~Flat => NestedUpto(pos)'
    BY <2>3, <1>11 DEF NestedUpto
  <2>5. pos' # 1 /\ nested' = pos' - 1 /\ pos' <= Len(cfg'.groups) + 1
    BY <1>1, <1>11
  <2> QED BY <2>1, <2>2, <2>4, <2>5, <1>11 DEF Parents, Late
<1>16. AllServed' /\ MarksMeant'
  BY <1>1, <1>11 DEF AllServed, MarksMeant, Late
<1> QED BY <1>13, <1>14, <1>15, <1>16 DEF TInv

LEMMA TGroupsDone == IInv /\ TInv /\ LevelsSuffice /\ GroupsDone => TInv'
<1> SUFFICES ASSUME IInv, TInv, LevelsSuffice, GroupsDone PROVE TInv'
  OBVIOUS
<1>1. /\ phase = "groups" /\ pos = Len(cfg.groups) + 1 /\ ClassesAccepted
      /\ rules = {} /\ classmapped = {} /\ Placed /\ dev \in Dev /\ dev \in Nat
      /\ \A d \in Dev :
           IdsOf(classes, d) = {1, 2} \cup (IF d < dev THEN GroupIds
                                            ELSE IF d = dev THEN GroupsUpto(pos) ELSE {})
      /\ Flat => parent = 1
      /\ ~Flat => NestedUpto(Len(cfg.groups) + 1)
  <2>1. phase = "groups" /\ ~(pos <= Len(cfg.groups))
    BY Basics DEF GroupsDone
  <2>2. /\ Complete /\ Parents /\ Placed /\ AllServed /\ pos \in Nat
        /\ Len(cfg.groups) \in Nat /\ dev \in Dev /\ dev \in Nat
    BY Basics
  <2>3. pos = Len(cfg.groups) + 1 /\ rules = {} /\ classmapped = {}
    BY <2>1, <2>2 DEF Parents, AllServed
  <2>4. /\ Flat => parent = 1
        /\ ~Flat => NestedUpto(Len(cfg.groups) + 1)
    BY <2>1, <2>2, <2>3 DEF Parents, Flat
  <2> QED BY <2>1, <2>2, <2>3, <2>4 DEF Complete
<1>2. /\ pos' = 1 /\ nested' = 0 /\ NextDev("ips")
      /\ UNCHANGED <<cfg, parent, limited, classes, refused, filters, rules, classmapped>>
  BY DEF GroupsDone
<1>10. ClassesAccepted'
  BY <1>1, <1>2, StillAccepted
<1>3. GroupsUpto(pos) = GroupIds
  BY <1>1, Basics DEF GroupsUpto, GroupIds
<1>4. \A d \in Dev : IdsOf(classes, d) = {1, 2} \cup (IF d <= dev THEN GroupIds ELSE {})
  <2> SUFFICES ASSUME NEW d \in Dev
               PROVE  IdsOf(classes, d) = {1, 2} \cup (IF d <= dev THEN GroupIds ELSE {})
    OBVIOUS
  <2>1. d \in Nat
    BY Basics
  <2> QED BY <2>1, <1>1, <1>3
<1>5. /\ \A d : IdsOf(classes, d)' = IdsOf(classes, d)
      /\ (GroupIds' = GroupIds) /\ (Flat' = Flat)
      /\ GroupsUpto(pos)' = {} /\ MarksUpto(pos)' = {}
      /\ NestedUpto(Len(cfg.groups) + 1)' <=> NestedUpto(Len(cfg.groups) + 1)
  BY <1>2 DEF IdsOf, GroupIds, Flat, GroupsUpto, MarksUpto, NestedUpto
<1>6. Placed' /\ MarksMeant'
  <2>1. \A c : WellPlaced(c)' <=> WellPlaced(c)
    BY <1>2, SameLists DEF WellPlaced
  <2> QED BY <2>1, <1>1, <1>2 DEF Placed, MarksMeant
<1>7. /\ dev < NDev => dev' = dev + 1 /\ phase' = "groups"
      /\ ~(dev < NDev) => dev' = 1 /\ phase' = "ips"
  BY <1>1, <1>2 DEF NextDev
<1>8. CASE dev < NDev
  <2>1. \A d \in Dev : d <= dev <=> d < dev'
    BY <1>7, <1>8, Basics
  <2>2. Complete'
    BY <1>1, <1>2, <1>4, <1>5, <1>7, <1>8, <1>10, <2>1 DEF Complete, Late
  <2>3. dev' # 1
    BY <1>1, <1>7, <1>8, Basics
  <2>4. 1 <= Len(cfg.groups) + 1
    BY Basics
  <2>5. Parents'
    BY <1>1, <1>2, <1>5, <1>7, <1>8, <2>3, <2>4 DEF Parents, Late
  <2>6. AllServed'
    BY <1>1, <1>2, <1>7, <1>8 DEF AllServed, Late
  <2> QED BY <1>6, <2>2, <2>5, <2>6 DEF TInv
<1>9. CASE ~(dev < NDev)
  <2>1. \A d \in Dev : d <= dev /\ ~(d < dev')
    BY <1>7, <1>9, Basics
  <2>2. Complete'
    BY <1>1, <1>2, <1>4, <1>5, <1>7, <1>9, <1>10, <2>1 DEF Complete, Late
  <2>3. 1 <= Len(cfg.ips) + 1
    BY Basics
  <2>4. Parents'
    BY <1>1, <1>2, <1>5, <1>7, <1>9, <2>3 DEF Parents, Late
  <2>5. AllServed'
    BY <1>1, <1>2, <1>7, <1>9, <2>1, Basics DEF AllServed, Late
  <2> QED BY <1>6, <2>2, <2>4, <2>5 DEF TInv
<1> QED BY <1>8, <1>9

(* What the loop over the addresses starts a turn from.                    *)
LEMMA IpsFacts ==
  ASSUME IInv, TInv, LevelsSuffice, phase = "ips"
  PROVE  /\ ClassesAccepted /\ dev \in Dev /\ dev \in Nat /\ pos \in Nat /\ pos >= 1
         /\ pos <= Len(cfg.ips) + 1 /\ Len(cfg.ips) \in Nat
         /\ dev > 1 => pos <= Len(cfg.ips) /\ cfg.ips[pos].mark > 0
         /\ Flat => parent = 1
         /\ ~Flat => NestedUpto(Len(cfg.groups) + 1)
         /\ \A d \in Dev :
              /\ d \in Nat /\ d >= 1
              /\ d < dev => IdsOf(classes, d) = {1, 2} \cup GroupIds \cup MarksUpto(pos + 1)
              /\ d >= dev => IdsOf(classes, d) = {1, 2} \cup GroupIds \cup MarksUpto(pos)
         /\ \A i \in 1..Len(cfg.ips), d \in Dev : i < pos \/ (i = pos /\ d < dev) => Served(i, d)
         /\ \A i \in classmapped : i \in 1..Len(cfg.ips) /\ Rated(i) /\ i < pos
         /\ Placed /\ MarksMeant
<1>1. /\ Complete /\ Parents /\ Placed /\ AllServed /\ MarksMeant
      /\ dev \in Dev /\ dev \in Nat /\ pos \in Nat /\ pos >= 1 /\ Len(cfg.ips) \in Nat
      /\ \A d \in Dev : d \in Nat /\ d >= 1
  BY Basics
<1>2. ClassesAccepted
  BY <1>1 DEF Complete
<1>3. \A d \in Dev :
        IdsOf(classes, d) = {1, 2} \cup GroupIds
                              \cup (IF d < dev THEN MarksUpto(pos + 1) ELSE MarksUpto(pos))
  BY <1>1 DEF Complete
<1>4. /\ pos <= Len(cfg.ips) + 1
      /\ dev > 1 => pos <= Len(cfg.ips) /\ cfg.ips[pos].mark > 0
      /\ Flat => parent = 1
      /\ ~Flat => NestedUpto(Len(cfg.groups) + 1)
  BY <1>1 DEF Parents
<1>5. /\ \A i \in 1..Len(cfg.ips), d \in Dev :
           i < pos \/ (i = pos /\ d < dev) => Served(i, d)
      /\ \A i \in classmapped : i \in 1..Len(cfg.ips) /\ Rated(i) /\ i < pos
  BY <1>1 DEF AllServed, Late
<1>6. \A d \in Dev :
        /\ d < dev => IdsOf(classes, d) = {1, 2} \cup GroupIds \cup MarksUpto(pos + 1)
        /\ d >= dev => IdsOf(classes, d) = {1, 2} \cup GroupIds \cup MarksUpto(pos)
  BY <1>1, <1>3
<1> QED BY <1>1, <1>2, <1>4, <1>5, <1>6

(* More classes, rules and filters serve no address less.                  *)
LEMMA ServedStays ==
  ASSUME cfg' = cfg, classes \subseteq classes', rules \subseteq rules',
         filters \subseteq filters', NEW i, NEW d, Served(i, d)
  PROVE  Served(i, d)'
<1>1. cfg.ips[i].mark > 0 =>
        \E r \in rules' : r.dev = d /\ ~r.over /\ r.owner = cfg.ips[i].mark
  BY DEF Served
<1>2. Rated(i) =>
        /\ \E c \in classes', j \in 1..Len(cfg.ips) :
             /\ c.dev = d /\ c.id = cfg.ips[i].mark
             /\ IsFirst(j, cfg.ips[i].mark) /\ c.rate = cfg.ips[j].min
        /\ cfg.classify \/ <<d, cfg.ips[i].mark>> \in filters'
  BY DEF Served, HasClass
<1>3. (Rated(i)' <=> Rated(i)) /\ \A j, m : IsFirst(j, m)' <=> IsFirst(j, m)
  BY SameLists
<1>4. Rated(i) => HasClass(i, d)'
  BY <1>2, <1>3 DEF HasClass
<1> QED BY <1>1, <1>2, <1>3, <1>4 DEF Served

LEMMA TSkip == IInv /\ TInv /\ LevelsSuffice /\ SkipIp => TInv'
<1> SUFFICES ASSUME IInv, TInv, LevelsSuffice, SkipIp PROVE TInv'
  OBVIOUS
<1>1. /\ phase = "ips" /\ pos \in 1..Len(cfg.ips) /\ cfg.ips[pos].mark = 0
      /\ pos' = pos + 1
      /\ UNCHANGED <<cfg, phase, dev, parent, rate, nested, limited, classes,
                     refused, filters, rules, classmapped>>
  BY Basics DEF SkipIp
<1>2. dev = 1 /\ ~Rated(pos)
  <2>1. ~(dev > 1) /\ dev \in Nat /\ dev >= 1
    BY <1>1, IpsFacts, Basics
  <2> QED BY <2>1, <1>1 DEF Rated
<1>3. MarksUpto(pos + 1) = MarksUpto(pos)
  <2>1. \A i \in 1..Len(cfg.ips) :
          i < pos + 1 /\ Rated(i) <=> i < pos /\ Rated(i)
    BY <1>1, <1>2
  <2> QED BY <2>1 DEF MarksUpto
<1>4. /\ \A d : IdsOf(classes, d)' = IdsOf(classes, d)
      /\ (GroupIds' = GroupIds) /\ (Flat' = Flat)
      /\ MarksUpto(pos)' = MarksUpto(pos + 1)
      /\ NestedUpto(Len(cfg.groups) + 1)' <=> NestedUpto(Len(cfg.groups) + 1)
      /\ \A i, d : Served(i, d)' <=> Served(i, d)
      /\ \A c : WellPlaced(c)' <=> WellPlaced(c)
      /\ ClassesAccepted'
      /\ \A i : Rated(i)' <=> Rated(i)
  BY <1>1, SameLists, StillAccepted, IpsFacts
     DEF IdsOf, GroupIds, Flat, MarksUpto, NestedUpto, Served, HasClass, Rated, IsFirst,
         WellPlaced
<1>5. Complete'
  <2>1. \A d \in Dev :
          ~(d < dev) /\ IdsOf(classes, d) = {1, 2} \cup GroupIds \cup MarksUpto(pos + 1)
    BY <1>1, <1>2, <1>3, IpsFacts
  <2> QED BY <2>1, <1>1, <1>4, IpsFacts DEF Complete, Late
<1>6. Parents'
  <2>1. /\ pos' <= Len(cfg.ips) + 1 /\ ~(dev > 1)
        /\ Flat => parent = 1
        /\ ~Flat => NestedUpto(Len(cfg.groups) + 1)
    BY <1>1, <1>2, IpsFacts
  <2> QED BY <2>1, <1>1, <1>4 DEF Parents, Late
<1>7. AllServed'
  <2>1. ASSUME NEW i \in 1..Len(cfg.ips), NEW d \in Dev, i < pos + 1 PROVE Served(i, d)
    <3>1. CASE i = pos
      BY <3>1, <1>1, <1>2 DEF Served
    <3>2. CASE i # pos
      <4>1. i < pos
        BY <3>2, <2>1, <1>1, IpsFacts
      <4> QED BY <4>1, <1>1, IpsFacts
    <3> QED BY <3>1, <3>2
  <2>2. \A d \in Dev : ~(d < dev)
    BY <1>1, <1>2, IpsFacts
  <2>3. \A i \in classmapped :
          i \in 1..Len(cfg.ips) /\ Rated(i) /\ i < pos + 1
    BY <1>1, IpsFacts
  <2> QED BY <2>1, <2>2, <2>3, <1>1, <1>4 DEF AllServed, Late
<1>8. Placed' /\ MarksMeant'
  <2> QED BY <1>1, <1>4, IpsFacts DEF Placed, MarksMeant
<1> QED BY <1>5, <1>6, <1>7, <1>8 DEF TInv

LEMMA TIpsDone == IInv /\ TInv /\ LevelsSuffice /\ IpsDone => TInv'
<1> SUFFICES ASSUME IInv, TInv, LevelsSuffice, IpsDone PROVE TInv'
  OBVIOUS
<1>1. /\ phase = "ips" /\ ~(pos <= Len(cfg.ips)) /\ phase' = "free"
      /\ UNCHANGED <<cfg, dev, pos, parent, rate, nested, limited, classes,
                     refused, filters, rules, classmapped>>
  BY Basics DEF IpsDone
<1>2. dev = 1 /\ pos = Len(cfg.ips) + 1
  BY <1>1, IpsFacts, Basics
<1>3. MarksUpto(pos) = OwnMarks
  BY <1>1, <1>2, IpsFacts DEF MarksUpto, OwnMarks, Rated
<1>4. /\ \A d : IdsOf(classes, d)' = IdsOf(classes, d)
      /\ (GroupIds' = GroupIds) /\ (Flat' = Flat) /\ (OwnMarks' = OwnMarks)
      /\ NestedUpto(Len(cfg.groups) + 1)' <=> NestedUpto(Len(cfg.groups) + 1)
      /\ \A i, d : Served(i, d)' <=> Served(i, d)
      /\ \A c : WellPlaced(c)' <=> WellPlaced(c)
      /\ ClassesAccepted'
      /\ \A i : Rated(i)' <=> Rated(i)
  BY <1>1, SameLists, StillAccepted, IpsFacts
     DEF IdsOf, GroupIds, Flat, NestedUpto, Served, HasClass, Rated, IsFirst, WellPlaced
<1>5. Complete'
  <2>1. \A d \in Dev :
          d >= dev /\ IdsOf(classes, d) = {1, 2} \cup GroupIds \cup OwnMarks
    BY <1>1, <1>2, <1>3, IpsFacts
  <2> QED BY <2>1, <1>1, <1>4, IpsFacts DEF Complete, Late
<1>6. Parents'
  <2>1. /\ Flat => parent = 1
        /\ ~Flat => NestedUpto(Len(cfg.groups) + 1)
    BY <1>1, IpsFacts
  <2> QED BY <2>1, <1>1, <1>4 DEF Parents, Late
<1>7. AllServed'
  <2>1. ASSUME NEW i \in 1..Len(cfg.ips), NEW d \in Dev PROVE Served(i, d)
    BY <1>1, <1>2, IpsFacts
  <2>2. \A i \in classmapped : i \in 1..Len(cfg.ips) /\ Rated(i)
    BY <1>1, IpsFacts
  <2> QED BY <2>1, <2>2, <1>1, <1>4 DEF AllServed, Late
<1>8. Placed' /\ MarksMeant'
  BY <1>1, <1>4, IpsFacts DEF Placed, MarksMeant
<1> QED BY <1>5, <1>6, <1>7, <1>8 DEF TInv

LEMMA TIp == IInv /\ TInv /\ LevelsSuffice /\ IpClass => TInv'
<1> SUFFICES ASSUME IInv, TInv, LevelsSuffice, IpClass PROVE TInv'
  OBVIOUS
<1> DEFINE ip == cfg.ips[pos]
           new == ClassAdd(classes, dev, ip.group, ip.mark, ip.min, ip.max)
<1>1. /\ phase = "ips" /\ pos \in 1..Len(cfg.ips) /\ ip.mark > 0 /\ pos \in Nat
      /\ ip.mark \in Nat /\ ip.min \in Nat /\ dev \in Dev /\ dev \in Nat
      /\ dev <= NDev /\ NDev \in Nat /\ ClassesAccepted /\ cfg.nesting \in Nat
  <2>1. phase = "ips" /\ pos <= Len(cfg.ips) /\ ip.mark > 0
    BY DEF IpClass
  <2>2. pos \in 1..Len(cfg.ips)
    BY <2>1, Basics
  <2> QED BY <2>1, <2>2, Basics DEF Complete
<1>2. GoodLists(cfg)
  BY Basics, HtbAssumption
<1>3. /\ rules' = rules \cup IpRules(ip)
      /\ UNCHANGED <<cfg, phase, parent, rate, nested>>
      /\ IF dev < NDev
         THEN dev' = dev + 1 /\ UNCHANGED <<pos, classmapped>>
         ELSE /\ dev' = 1 /\ pos' = pos + 1
              /\ classmapped' = IF ip.min > 0 THEN classmapped \cup {pos} ELSE classmapped
  BY DEF IpClass, Mapped
<1>14. ip.min > 0 <=> Rated(pos)
  BY <1>1 DEF Rated
<1>4. /\ classes \subseteq classes' /\ ClassesAccepted' /\ filters \subseteq filters'
      /\ Placed'
      /\ \A d \in Dev : IdsOf(classes', d)
           = IF d = dev /\ ip.min > 0 THEN IdsOf(classes, d) \cup {ip.mark}
                                      ELSE IdsOf(classes, d)
      /\ ip.min > 0 =>
           /\ \E c \in classes', j \in 1..Len(cfg.ips) :
                /\ c.dev = dev /\ c.id = ip.mark
                /\ IsFirst(j, ip.mark) /\ c.rate = cfg.ips[j].min
           /\ cfg.classify \/ <<dev, ip.mark>> \in filters'
  <2>0. /\ \A c : WellPlaced(c)' <=> WellPlaced(c)
        /\ \A j, m : IsFirst(j, m)' <=> IsFirst(j, m)
    BY <1>3, SameLists DEF WellPlaced
  <2>1. CASE ip.min = 0
    <3>1. UNCHANGED <<classes, refused, filters>> /\ ~(ip.min > 0)
      BY <2>1, <1>1 DEF IpClass
    <3>2. Placed'
      BY <3>1, <2>0, <1>1, IpsFacts DEF Placed
    <3>3. ClassesAccepted'
      BY <3>1, <1>1, <1>3, StillAccepted
    <3> QED BY <3>1, <3>2, <3>3, <1>1
  <2>2. CASE ip.min > 0
    <3>1. /\ classes' = new
          /\ refused' = refused \cup Refusal(classes, dev, ip.group, ip.mark)
          /\ filters' = IF cfg.classify THEN filters ELSE filters \cup {<<dev, ip.mark>>}
      BY <2>2, <1>1 DEF IpClass
    <3>2. PICK k \in 1..Len(cfg.groups) : cfg.groups[k].id = ip.group
      BY <2>2, <1>1, <1>2 DEF GoodLists
    <3>3. /\ ip.mark > 4 /\ ip.mark \in OwnMarks /\ ip.mark \notin GroupIds
          /\ ip.group \in GroupIds /\ ip.group > 4 /\ ip.group \in Nat
          /\ \A i \in 1..Len(cfg.groups) : ip.mark # cfg.groups[i].id
      <4>1. ip.mark \in OwnMarks
        BY <2>2, <1>1, <1>14 DEF OwnMarks
      <4>2. ip.group \in GroupIds
        BY <3>2 DEF GroupIds
      <4>3. ip.mark \notin GroupIds
        BY <4>1, Basics
      <4>4. \A i \in 1..Len(cfg.groups) : ip.mark # cfg.groups[i].id
        BY <4>3 DEF GroupIds
      <4> QED BY <4>1, <4>2, <4>3, <4>4, <3>2, <2>2, <1>1, Basics
    <3>4. IdsOf(classes, dev) = {1, 2} \cup GroupIds \cup MarksUpto(pos)
      BY <1>1, IpsFacts
    <3>5. cfg.classify \/ <<dev, ip.mark>> \in filters'
      BY <3>1
    <3>6. filters \subseteq filters'
      BY <3>1
    <3>7. CASE ip.mark \notin MarksUpto(pos)
      <4>1. ip.mark \notin IdsOf(classes, dev) /\ ip.group \in IdsOf(classes, dev)
        BY <3>3, <3>4, <3>7
      <4>2. Depth(classes, dev, ip.group) \in Nat /\ Depth(classes, dev, ip.group) < MaxDepth
        <5>1. \A c \in classes : c.dev = dev /\ c.id = ip.group => c.depth <= 3 + cfg.nesting
          BY <3>2, Basics DEF Placed, WellPlaced
        <5>2. 3 + cfg.nesting \in Nat /\ 3 + cfg.nesting < MaxDepth /\ MaxDepth \in Nat
              /\ classes \subseteq ClassType
          BY Basics
        <5>3. /\ Depth(classes, dev, ip.group) \in Nat
              /\ Depth(classes, dev, ip.group) <= 3 + cfg.nesting
          BY <5>1, <5>2, DepthAtMost
        <5> QED BY <5>2, <5>3
      <4>3. IsFirst(pos, ip.mark)
        <5>1. \A i \in 1..(pos - 1) : i \in 1..Len(cfg.ips) /\ i < pos
          BY <1>1, Basics
        <5>2. \A i \in 1..(pos - 1) : Rated(i) => cfg.ips[i].mark \in MarksUpto(pos)
          BY <5>1 DEF MarksUpto
        <5> QED BY <5>2, <3>7, <2>2, <1>14 DEF IsFirst
      <4>4. cfg.ips[pos] = ip
        OBVIOUS
      <4> HIDE DEF ip
      <4>6. PICK h : Added(classes, dev, ip.group, ip.mark, ip.min, ip.max, h)
        BY <4>1, <4>2, AddedClass
      <4>7. /\ new = classes \cup {h} /\ Refusal(classes, dev, ip.group, ip.mark) = {}
            /\ h.dev = dev /\ h.id = ip.mark /\ h.rate = ip.min /\ h.parent = ip.group
            /\ IdsOf(new, dev) = IdsOf(classes, dev) \cup {ip.mark}
            /\ \A e : e # dev => IdsOf(new, e) = IdsOf(classes, e)
        BY <4>1, <4>6 DEF Added
      <4> HIDE DEF new
      <4>8. WellPlaced(h)
        BY <3>3, <4>7 DEF WellPlaced
      <4>9. Placed'
        <5>1. \A c \in new : WellPlaced(c)
          BY <4>7, <4>8, Basics DEF Placed
        <5> QED BY <5>1, <3>1, <2>0 DEF Placed
      <4>10. \A d \in Dev : IdsOf(new, d) = IF d = dev THEN IdsOf(classes, d) \cup {ip.mark}
                                                     ELSE IdsOf(classes, d)
        BY <4>7
      <4>11. \E c \in classes', j \in 1..Len(cfg.ips) :
               /\ c.dev = dev /\ c.id = ip.mark
               /\ IsFirst(j, ip.mark) /\ c.rate = cfg.ips[j].min
        <5>1. h \in classes' /\ h.rate = cfg.ips[pos].min
          BY <3>1, <4>4, <4>7
        <5> QED BY <5>1, <4>3, <4>7, <1>1
      <4>12. ClassesAccepted'
        <5>1. refused' = refused
          BY <3>1, <4>7
        <5> QED BY <5>1, <1>1, <1>3, StillAccepted
      <4>13. classes \subseteq classes'
        BY <3>1, <4>7
      <4> QED BY <3>1, <3>5, <3>6, <4>9, <4>10, <4>11, <4>12, <4>13, <2>2, <1>1
    <3>8. CASE ip.mark \in MarksUpto(pos)
      <4>1. ip.mark \in IdsOf(classes, dev)
        BY <3>4, <3>8
      <4>2. classes' = classes /\ refused' = refused \cup {<<dev, ip.mark>>}
        BY <3>1, <4>1, RefusedClass
      <4>3. PICK i \in 1..Len(cfg.ips) : i < pos /\ Rated(i) /\ cfg.ips[i].mark = ip.mark
        BY <3>8 DEF MarksUpto
      <4>4. ip.mark \in TwiceRated
        <5>1. i # pos
          BY <4>3, <1>1, Basics
        <5> QED BY <5>1, <4>3, <3>3, <2>2, <1>1, <1>14 DEF TwiceRated
      <4>5. HasClass(i, dev)
        BY <4>3, <1>1, IpsFacts DEF Served
      <4>7. \E c \in classes', j \in 1..Len(cfg.ips) :
              /\ c.dev = dev /\ c.id = ip.mark
              /\ IsFirst(j, ip.mark) /\ c.rate = cfg.ips[j].min
        BY <4>2, <4>3, <4>5 DEF HasClass
      <4>8. ClassesAccepted'
        <5>1. \A q \in refused' : q \in refused \/ q[2] \in TwiceRated
          BY <4>2, <4>4
        <5> QED BY <5>1, <1>1, <1>3, StillAccepted
      <4>9. Placed'
        BY <4>2, <2>0, <1>1, IpsFacts DEF Placed
      <4>10. \A d \in Dev : IdsOf(classes', d) = IF d = dev THEN IdsOf(classes, d) \cup {ip.mark}
                                                     ELSE IdsOf(classes, d)
        BY <4>1, <4>2
      <4> QED BY <3>5, <3>6, <4>2, <4>7, <4>8, <4>9, <4>10, <2>2, <1>1
    <3> QED BY <3>7, <3>8
  <2> QED BY <2>1, <2>2, <1>1
<1>5. ASSUME NEW i, NEW d, i = pos, d = dev
      PROVE  Served(i, d)'
  <2>1. [dev |-> dev, over |-> FALSE, v6 |-> ip.v6, owner |-> ip.mark, mark |-> ip.mark]
          \in IpRules(ip)
    <3>1. FALSE \in (IF ip.limited THEN BOOLEAN ELSE {FALSE})
      OBVIOUS
    <3> HIDE DEF ip
    <3> QED BY <3>1, Zenon DEF IpRules
  <2>2. \E r \in rules' : r.dev = dev /\ ~r.over /\ r.owner = ip.mark
    BY <2>1, <1>3
  <2>3. cfg.ips[i] = ip /\ (Rated(i)' <=> Rated(i))
    BY <1>3, <1>5, SameLists
  <2>4. \A j, m : IsFirst(j, m)' <=> IsFirst(j, m)
    BY <1>3, SameLists
  <2> HIDE DEF ip
  <2>5. Rated(i) => HasClass(i, d)'
    BY <2>3, <2>4, <1>3, <1>4, <1>5, <1>14 DEF HasClass
  <2> QED BY <2>2, <2>3, <2>5, <1>3, <1>4, <1>5, <1>14 DEF Served
<1>6. \A i \in 1..Len(cfg.ips), d \in Dev :
        i < pos \/ (i = pos /\ d <= dev) => Served(i, d)'
  <2> SUFFICES ASSUME NEW i \in 1..Len(cfg.ips), NEW d \in Dev,
                      i < pos \/ (i = pos /\ d <= dev)
               PROVE  Served(i, d)'
    OBVIOUS
  <2>1. CASE i = pos /\ d = dev
    BY <2>1, <1>5
  <2>2. CASE ~(i = pos /\ d = dev)
    <3>0. d \in Nat
      BY Basics
    <3>1. i < pos \/ (i = pos /\ d < dev)
      BY <3>0, <2>2, <1>1
    <3>2. Served(i, d)
      BY <3>1, <1>1, IpsFacts
    <3>3. rules \subseteq rules'
      BY <1>3
    <3> QED BY <3>2, <3>3, <1>3, <1>4, ServedStays
  <2> QED BY <2>1, <2>2
<1>7. MarksUpto(pos + 1)
        = IF ip.min > 0 THEN MarksUpto(pos) \cup {ip.mark} ELSE MarksUpto(pos)
  BY <1>1, <1>14 DEF MarksUpto
<1>8. \A d \in Dev : IdsOf(classes', d)
        = {1, 2} \cup GroupIds \cup (IF d <= dev THEN MarksUpto(pos + 1) ELSE MarksUpto(pos))
  <2> SUFFICES ASSUME NEW d \in Dev
               PROVE  IdsOf(classes', d)
                        = {1, 2} \cup GroupIds
                             \cup (IF d <= dev THEN MarksUpto(pos + 1) ELSE MarksUpto(pos))
    OBVIOUS
  <2> HIDE DEF ip
  <2>1. d \in Nat
    BY Basics
  <2>2. CASE d = dev
    <3>1. IdsOf(classes, d) = {1, 2} \cup GroupIds \cup MarksUpto(pos)
      BY <2>1, <2>2, <1>1, IpsFacts
    <3>2. IdsOf(classes', d) = {1, 2} \cup GroupIds \cup MarksUpto(pos + 1)
      <4>1. CASE ip.min > 0
        BY <4>1, <3>1, <2>2, <1>1, <1>4, <1>7
      <4>2. CASE ~(ip.min > 0)
        BY <4>2, <3>1, <2>2, <1>1, <1>4, <1>7
      <4> QED BY <4>1, <4>2
    <3> QED BY <3>2, <2>1, <2>2
  <2>3. CASE d < dev
    <3>1. IdsOf(classes, d) = {1, 2} \cup GroupIds \cup MarksUpto(pos + 1)
      BY <2>1, <2>3, <1>1, IpsFacts
    <3> QED BY <3>1, <2>1, <2>3, <1>1, <1>4
  <2>4. CASE d > dev
    <3>1. IdsOf(classes, d) = {1, 2} \cup GroupIds \cup MarksUpto(pos)
      BY <2>1, <2>4, <1>1, IpsFacts
    <3>2. d # dev /\ ~(d <= dev)
      BY <2>1, <2>4, <1>1
    <3> QED BY <3>1, <3>2, <1>4
  <2> QED BY <2>1, <2>2, <2>3, <2>4, <1>1
<1>9. MarksMeant'
  <2>1. (GroupIds' = GroupIds) /\ (\A d : IdsOf(classes, d)' = IdsOf(classes', d))
    BY <1>3, SameLists DEF IdsOf
  <2>2. ip.mark \notin {0, 1, 2, FREE_CLASS, OVERLIMIT_CLASS} \cup GroupIds
    BY <1>1, Basics DEF FREE_CLASS, OVERLIMIT_CLASS
  <2>3. ASSUME NEW r \in IpRules(ip), ~r.over PROVE r.mark = r.owner /\ r.owner = ip.mark
    <3>1. PICK o \in (IF ip.limited THEN BOOLEAN ELSE {FALSE}) :
            r = [dev |-> dev, over |-> o, v6 |-> ip.v6, owner |-> ip.mark,
                 mark |-> IF o THEN OVERLIMIT_CLASS ELSE ip.mark]
      BY Zenon DEF IpRules
    <3> HIDE DEF ip
    <3>2. ~o
      BY <3>1, <2>3
    <3> QED BY <3>1, <3>2
  <2>4. ASSUME NEW r \in rules, ~r.over
        PROVE  /\ r.mark = r.owner
               /\ \/ r.owner \notin {0, 1, 2, FREE_CLASS, OVERLIMIT_CLASS} \cup GroupIds
                  \/ /\ r.owner = FREE_CLASS /\ FREE_CLASS \in IdsOf(classes', r.dev)
                     /\ <<r.dev, FREE_CLASS>> \in filters'
    <3>1. MarksMeant
      BY Basics
    <3>2. IdsOf(classes, r.dev) \subseteq IdsOf(classes', r.dev)
      BY <1>4 DEF IdsOf
    <3> QED BY <3>1, <3>2, <2>4, <1>4 DEF MarksMeant
  <2> QED BY <2>1, <2>2, <2>3, <2>4, <1>3 DEF MarksMeant
<1>10. /\ \A d : IdsOf(classes, d)' = IdsOf(classes', d)
       /\ (GroupIds' = GroupIds) /\ (Flat' = Flat)
       /\ NestedUpto(Len(cfg.groups) + 1)' <=> NestedUpto(Len(cfg.groups) + 1)
       /\ \A n : MarksUpto(n)' = MarksUpto(n)
       /\ \A i : Rated(i)' <=> Rated(i)
  BY <1>3, SameLists DEF IdsOf, NestedUpto
<1>11. /\ Flat => parent = 1
       /\ ~Flat => NestedUpto(Len(cfg.groups) + 1)
  BY <1>1, IpsFacts
<1>12. CASE dev < NDev
  <2>1. dev' = dev + 1 /\ pos' = pos /\ classmapped' = classmapped /\ phase' = "ips"
    BY <1>1, <1>3, <1>12
  <2>2. \A d \in Dev : d <= dev <=> d < dev'
    BY <2>1, Basics
  <2>3. (MarksUpto(pos)' = MarksUpto(pos)) /\ (MarksUpto(pos + 1)' = MarksUpto(pos + 1))
    BY <2>1, <1>3 DEF MarksUpto, Rated
  <2>4. Complete'
    BY <2>1, <2>2, <2>3, <1>4, <1>8, <1>10 DEF Complete, Late
  <2>5. Parents'
    BY <2>1, <1>1, <1>3, <1>10, <1>11 DEF Parents, Late
  <2>6. \A i \in classmapped : i \in 1..Len(cfg.ips) /\ Rated(i) /\ i < pos
    BY <1>1, IpsFacts
  <2>7. \A i \in 1..Len(cfg.ips), d \in Dev :
          i < pos \/ (i = pos /\ d < dev') => Served(i, d)'
    BY <2>2, <1>6
  <2>8. AllServed'
    BY <2>1, <2>6, <2>7, <1>3, <1>10 DEF AllServed, Late
  <2> QED BY <2>4, <2>5, <2>8, <1>4, <1>9 DEF TInv
<1>13. CASE ~(dev < NDev)
  <2>1. /\ dev' = 1 /\ pos' = pos + 1 /\ phase' = "ips"
        /\ classmapped' = IF ip.min > 0 THEN classmapped \cup {pos} ELSE classmapped
    BY <1>1, <1>3, <1>13
  <2>2. \A d \in Dev : d <= dev /\ ~(d < dev') /\ ~(d < 1)
    BY <2>1, <1>13, Basics
  <2>3. MarksUpto(pos)' = MarksUpto(pos + 1)
    BY <2>1, <1>3 DEF MarksUpto, Rated
  <2>4. Complete'
    BY <2>1, <2>2, <2>3, <1>4, <1>8, <1>10 DEF Complete, Late
  <2>5. pos + 1 <= Len(cfg.ips) + 1 /\ ~(1 > 1)
    BY <1>1, Basics
  <2>6. Parents'
    BY <2>1, <2>5, <1>1, <1>3, <1>10, <1>11 DEF Parents, Late
  <2>7. \A i \in classmapped' : i \in 1..Len(cfg.ips) /\ Rated(i) /\ i < pos + 1
    <3>1. \A i \in classmapped : i \in 1..Len(cfg.ips) /\ Rated(i) /\ i < pos
      BY <1>1, IpsFacts
    <3>2. ASSUME NEW i \in classmapped' PROVE i \in classmapped \/ (i = pos /\ ip.min > 0)
      BY <2>1
    <3> QED BY <3>1, <3>2, <1>1, <1>14
  <2>8. \A i \in 1..Len(cfg.ips), d \in Dev :
          i < pos + 1 \/ (i = pos + 1 /\ d < 1) => Served(i, d)'
    <3>1. \A i \in 1..Len(cfg.ips) : i < pos + 1 => i < pos \/ i = pos
      BY <1>1
    <3> QED BY <3>1, <2>2, <1>6
  <2>9. AllServed'
    BY <2>1, <2>7, <2>8, <1>3, <1>10 DEF AllServed, Late
  <2> QED BY <2>4, <2>6, <2>9, <1>4, <1>9 DEF TInv
<1> QED BY <1>12, <1>13

(* The state in which the trees are done, or all but that of some          *)
(* interfaces without a free and an over-limit class.                      *)
LEMMA LateFacts ==
  ASSUME IInv, TInv, LevelsSuffice, Late
  PROVE  /\ ClassesAccepted /\ dev \in Dev /\ dev \in Nat
         /\ Flat => parent = 1
         /\ ~Flat => NestedUpto(Len(cfg.groups) + 1)
         /\ \A d \in Dev :
              /\ d \in Nat /\ d >= 1
              /\ IdsOf(classes, d) = {1, 2} \cup GroupIds \cup OwnMarks
                                       \cup (IF phase = "free" /\ d >= dev THEN {} ELSE FreeIds)
         /\ \A i \in 1..Len(cfg.ips), d \in Dev : Served(i, d)
         /\ \A i \in classmapped : i \in 1..Len(cfg.ips) /\ Rated(i)
         /\ Placed /\ MarksMeant
<1>1. /\ Complete /\ Parents /\ Placed /\ AllServed /\ MarksMeant
      /\ dev \in Dev /\ dev \in Nat
      /\ \A d \in Dev : d \in Nat /\ d >= 1
  BY Basics
<1> QED BY <1>1 DEF Complete, Parents, AllServed

(* A class with an id of its own that is hung under `parent' when the      *)
(* groups are done.                                                        *)
LEMMA HungUnderParent ==
  ASSUME IInv, TInv, LevelsSuffice, Late,
         NEW cs, cs \subseteq ClassType, \A c \in cs : WellPlaced(c),
         {1} \cup GroupIds \subseteq IdsOf(cs, dev),
         NEW id \in {FREE_CLASS, OVERLIMIT_CLASS}, id \notin IdsOf(cs, dev), NEW r, NEW ceil
  PROVE  \E h : Added(cs, dev, parent, id, r, ceil, h) /\ WellPlaced(h)
<1>1. /\ Flat => parent = 1
      /\ ~Flat => NestedUpto(Len(cfg.groups) + 1)
  BY LateFacts
<1>2. /\ parent = 1 \/ parent \in GroupIds
      /\ \A k \in GroupIds : k > 4 /\ k \in Nat
      /\ \A i \in 1..Len(cfg.groups) : cfg.groups[i].id > 4 /\ cfg.groups[i].id \in Nat
  BY Basics DEF IInv, GroupIds
<1>3. cfg.nesting \in Nat /\ MaxDepth \in Nat /\ cfg.nesting + 4 <= MaxDepth
      /\ Len(cfg.groups) + 1 \in Nat
  BY Basics
<1>4. Depth(cs, dev, parent) \in Nat /\ Depth(cs, dev, parent) <= 2 + cfg.nesting
  <2>1. \/ parent \notin IdsOf(cs, dev) \/ parent = 1
        \/ /\ NestedUpto(Len(cfg.groups) + 1)
           /\ \A k \in Nat : k < Len(cfg.groups) + 1 /\ k <= cfg.nesting => k <= cfg.nesting
    BY <1>1
  <2> QED BY <1>3, <2>1, ParentDepth
<1>5. Depth(cs, dev, parent) < MaxDepth
  BY <1>3, <1>4
<1>6. PICK h : Added(cs, dev, parent, id, r, ceil, h)
  BY <1>5, AddedClass
<1>7. h.dev = dev /\ h.id = id /\ h.parent = parent
  BY <1>2, <1>6 DEF Added
<1>8. ~Flat => parent # 1
  BY <1>1, <1>2 DEF NestedUpto
<1>9. id > 2 /\ id < 5 /\ id \in Nat
  BY DEF FREE_CLASS, OVERLIMIT_CLASS
<1>10. \A i \in 1..Len(cfg.groups) : cfg.groups[i].id # id
  BY <1>2, <1>9
<1>11. h.parent \in {0, 1, 2} \cup GroupIds /\ h.parent # 0
  BY <1>2, <1>7
<1>12. WellPlaced(h)
  BY <1>7, <1>8, <1>9, <1>10, <1>11 DEF WellPlaced
<1> QED BY <1>6, <1>12

LEMMA TFree == IInv /\ TInv /\ LevelsSuffice /\ FreeClass => TInv'
<1> SUFFICES ASSUME IInv, TInv, LevelsSuffice, FreeClass PROVE TInv'
  OBVIOUS
<1> DEFINE free == IF cfg.freeMin = 0 THEN classes
                   ELSE ClassAdd(classes, dev, parent, FREE_CLASS, cfg.freeMin, cfg.freeMax)
           new == IF limited
                  THEN ClassAdd(free, dev, parent, OVERLIMIT_CLASS,
                                cfg.overlimitMin, cfg.overlimitMax)
                  ELSE free
           freeId == IF cfg.freeMin = 0 THEN {} ELSE {FREE_CLASS}
           overId == IF limited THEN {OVERLIMIT_CLASS} ELSE {}
           rule == [dev |-> dev, over |-> FALSE, v6 |-> FALSE,
                    owner |-> FREE_CLASS, mark |-> FREE_CLASS]
<1>1. /\ phase = "free" /\ Late /\ dev \in Dev /\ dev \in Nat /\ ClassesAccepted
      /\ classes \subseteq ClassType /\ parent \in Nat
      /\ cfg.freeMin \in Nat /\ cfg.overlimitMin \in Nat
      /\ cfg.freeMax \in Nat /\ cfg.overlimitMax \in Nat
      /\ \A c \in classes : WellPlaced(c)
      /\ \A k \in GroupIds \cup OwnMarks : k > 4
  <2>1. phase = "free" /\ Late
    BY DEF FreeClass, Late
  <2>2. /\ cfg.freeMin \in Nat /\ cfg.overlimitMin \in Nat /\ parent \in Nat
        /\ cfg.freeMax \in Nat /\ cfg.overlimitMax \in Nat
    BY Basics, ConfigFacts DEF IInv, TypeOK
  <2>3. \A k \in GroupIds \cup OwnMarks : k > 4
    BY Basics DEF GroupIds, OwnMarks, Rated
  <2> QED BY <2>1, <2>2, <2>3, Basics, LateFacts DEF Placed
<1>2. IdsOf(classes, dev) = {1, 2} \cup GroupIds \cup OwnMarks
  <2>1. dev >= dev
    BY <1>1
  <2> QED BY <2>1, <1>1, LateFacts
<1>3. /\ FREE_CLASS \notin IdsOf(classes, dev) /\ OVERLIMIT_CLASS \notin IdsOf(classes, dev)
      /\ FREE_CLASS # OVERLIMIT_CLASS /\ {1} \cup GroupIds \subseteq IdsOf(classes, dev)
      /\ FREE_CLASS \in Nat /\ OVERLIMIT_CLASS \in Nat
  BY <1>1, <1>2 DEF FREE_CLASS, OVERLIMIT_CLASS
<1>4. /\ classes \subseteq free /\ \A c \in free : WellPlaced(c)
      /\ IdsOf(free, dev) = IdsOf(classes, dev) \cup freeId
      /\ \A e : e # dev => IdsOf(free, e) = IdsOf(classes, e)
      /\ cfg.freeMin # 0 => Refusal(classes, dev, parent, FREE_CLASS) = {}
      /\ free \subseteq ClassType
  <2>1. CASE cfg.freeMin = 0
    BY <2>1, <1>1
  <2>2. CASE cfg.freeMin # 0
    <3>1. PICK h : /\ Added(classes, dev, parent, FREE_CLASS, cfg.freeMin, cfg.freeMax, h)
                   /\ WellPlaced(h)
      BY <1>1, <1>3, HungUnderParent
    <3>2. /\ ClassAdd(classes, dev, parent, FREE_CLASS, cfg.freeMin, cfg.freeMax)
               = classes \cup {h}
          /\ Refusal(classes, dev, parent, FREE_CLASS) = {}
          /\ IdsOf(classes \cup {h}, dev) = IdsOf(classes, dev) \cup {FREE_CLASS}
          /\ \A e : e # dev => IdsOf(classes \cup {h}, e) = IdsOf(classes, e)
      BY <3>1 DEF Added
    <3>3. free = classes \cup {h}
      BY <3>2, <2>2
    <3>4. free \subseteq ClassType
      BY <2>2, <1>1, <1>3, ClassAddType
    <3> HIDE DEF free
    <3> QED BY <3>1, <3>2, <3>3, <3>4, <2>2, <1>1
  <2> QED BY <2>1, <2>2
<1> HIDE DEF free, freeId
<1>5. /\ free \subseteq new /\ \A c \in new : WellPlaced(c)
      /\ IdsOf(new, dev) = IdsOf(free, dev) \cup overId
      /\ \A e : e # dev => IdsOf(new, e) = IdsOf(free, e)
      /\ limited => Refusal(free, dev, parent, OVERLIMIT_CLASS) = {}
  <2>1. CASE ~limited
    BY <2>1, <1>4
  <2>2. CASE limited
    <3>1. OVERLIMIT_CLASS \notin IdsOf(free, dev) /\ {1} \cup GroupIds \subseteq IdsOf(free, dev)
      BY <1>3, <1>4 DEF freeId
    <3>2. PICK h : /\ Added(free, dev, parent, OVERLIMIT_CLASS,
                            cfg.overlimitMin, cfg.overlimitMax, h)
                   /\ WellPlaced(h)
      BY <3>1, <1>1, <1>4, HungUnderParent
    <3>3. /\ ClassAdd(free, dev, parent, OVERLIMIT_CLASS, cfg.overlimitMin, cfg.overlimitMax)
               = free \cup {h}
          /\ Refusal(free, dev, parent, OVERLIMIT_CLASS) = {}
          /\ IdsOf(free \cup {h}, dev) = IdsOf(free, dev) \cup {OVERLIMIT_CLASS}
          /\ \A e : e # dev => IdsOf(free \cup {h}, e) = IdsOf(free, e)
      BY <3>2 DEF Added
    <3>4. new = free \cup {h}
      BY <3>3, <2>2
    <3> HIDE DEF new
    <3> QED BY <3>2, <3>3, <3>4, <2>2, <1>4
  <2> QED BY <2>1, <2>2
<1> HIDE DEF new
<1>6. /\ classes' = new
      /\ refused' = refused
      /\ NextDev("restore")
      /\ UNCHANGED <<cfg, pos, parent, rate, nested, limited, classmapped>>
      /\ filters' = IF cfg.freeMin = 0 THEN filters ELSE filters \cup {<<dev, FREE_CLASS>>}
      /\ rules' = IF cfg.freeMin = 0 THEN rules ELSE rules \cup {rule}
  <2>1. refused' = refused
          \cup (IF cfg.freeMin = 0 THEN {} ELSE Refusal(classes, dev, parent, FREE_CLASS))
          \cup (IF limited THEN Refusal(free, dev, parent, OVERLIMIT_CLASS) ELSE {})
    BY DEF FreeClass, free
  <2>2. refused' = refused
    BY <2>1, <1>1, <1>4, <1>5
  <2> QED BY <2>2 DEF FreeClass, new, free
<1>7. overId \cup freeId = FreeIds
  BY DEF FreeIds, freeId
<1> HIDE DEF overId
<1>8. \A d \in Dev : IdsOf(new, d) = {1, 2} \cup GroupIds \cup OwnMarks
                                       \cup (IF d > dev THEN {} ELSE FreeIds)
  <2> SUFFICES ASSUME NEW d \in Dev
               PROVE  IdsOf(new, d) = {1, 2} \cup GroupIds \cup OwnMarks
                                        \cup (IF d > dev THEN {} ELSE FreeIds)
    OBVIOUS
  <2>1. /\ d \in Nat
        /\ IdsOf(classes, d) = {1, 2} \cup GroupIds \cup OwnMarks
                                 \cup (IF d >= dev THEN {} ELSE FreeIds)
    BY <1>1, LateFacts
  <2>2. CASE d = dev
    <3>1. IdsOf(new, d) = {1, 2} \cup GroupIds \cup OwnMarks \cup FreeIds
      BY <2>2, <1>2, <1>4, <1>5, <1>7
    <3> QED BY <3>1, <2>1, <2>2, <1>1
  <2>3. CASE d # dev
    <3>1. IdsOf(new, d) = IdsOf(classes, d)
      BY <2>3, <1>4, <1>5
    <3>2. d > dev <=> d >= dev
      BY <2>1, <2>3, <1>1
    <3> QED BY <3>1, <3>2, <2>1
  <2> QED BY <2>2, <2>3
<1>9. /\ \A d : IdsOf(classes, d)' = IdsOf(new, d)
      /\ (GroupIds' = GroupIds) /\ (OwnMarks' = OwnMarks) /\ (FreeIds' = FreeIds)
      /\ (Flat' = Flat)
      /\ NestedUpto(Len(cfg.groups) + 1)' <=> NestedUpto(Len(cfg.groups) + 1)
      /\ \A c : WellPlaced(c)' <=> WellPlaced(c)
  <2>1. \A c : WellPlaced(c)' <=> WellPlaced(c)
    BY <1>6, SameLists DEF WellPlaced
  <2>2. NestedUpto(Len(cfg.groups) + 1)' <=> NestedUpto(Len(cfg.groups) + 1)
    BY <1>6 DEF NestedUpto
  <2>3. \A d : IdsOf(classes, d)' = IdsOf(new, d)
    BY <1>6 DEF IdsOf
  <2> QED BY <2>1, <2>2, <2>3, <1>6, SameLists
<1>10. \/ dev < NDev /\ dev' = dev + 1 /\ phase' = "free"
       \/ ~(dev < NDev) /\ dev' = 1 /\ phase' = "restore"
  BY <1>1, <1>6 DEF NextDev
<1>11. Complete'
  <2>3. ClassesAccepted'
    BY <1>1, <1>6, StillAccepted
  <2>1. CASE dev < NDev /\ dev' = dev + 1 /\ phase' = "free"
    <3>1. \A d \in Dev : d > dev <=> d >= dev'
      BY <2>1, <1>1, Basics
    <3> QED BY <3>1, <2>1, <2>3, <1>6, <1>8, <1>9 DEF Complete, Late
  <2>2. CASE ~(dev < NDev) /\ dev' = 1 /\ phase' = "restore"
    <3>1. \A d \in Dev : ~(d > dev)
      BY <2>2, Basics
    <3> QED BY <3>1, <2>2, <2>3, <1>6, <1>8, <1>9 DEF Complete, Late
  <2> QED BY <1>10, <2>1, <2>2
<1>12. Parents'
  <2>1. /\ Flat => parent = 1
        /\ ~Flat => NestedUpto(Len(cfg.groups) + 1)
    BY <1>1, LateFacts
  <2> QED BY <2>1, <1>6, <1>9, <1>10 DEF Parents, Late
<1>13. Placed'
  BY <1>5, <1>6, <1>9 DEF Placed
<1>14. /\ classes \subseteq classes' /\ rules \subseteq rules' /\ filters \subseteq filters'
  BY <1>4, <1>5, <1>6
<1>15. AllServed'
  <2>1. \A i \in 1..Len(cfg.ips), d \in Dev : Served(i, d)'
    BY <1>1, <1>6, <1>14, LateFacts, ServedStays
  <2>2. \A i \in classmapped : i \in 1..Len(cfg.ips) /\ Rated(i)
    BY <1>1, LateFacts
  <2>3. \A i : Rated(i)' <=> Rated(i)
    BY <1>6, SameLists
  <2> QED BY <2>1, <2>2, <2>3, <1>6, <1>10 DEF AllServed, Late
<1>16. MarksMeant'
  <2>1. MarksMeant
    BY Basics
  <2>2. \A d : IdsOf(classes, d) \subseteq IdsOf(classes', d)
    BY <1>14 DEF IdsOf
  <2>3. \A r \in rules : ~r.over =>
          /\ r.mark = r.owner
          /\ \/ r.owner \notin {0, 1, 2, FREE_CLASS, OVERLIMIT_CLASS} \cup GroupIds
             \/ /\ r.owner = FREE_CLASS /\ FREE_CLASS \in IdsOf(classes', r.dev)
                /\ <<r.dev, FREE_CLASS>> \in filters'
    BY <2>1, <2>2, <1>14 DEF MarksMeant
  <2>4. cfg.freeMin # 0 =>
          /\ rule.mark = rule.owner /\ rule.owner = FREE_CLASS /\ rule.dev = dev
          /\ FREE_CLASS \in IdsOf(classes', dev) /\ <<dev, FREE_CLASS>> \in filters'
    BY <1>4, <1>5, <1>6 DEF freeId
  <2>5. \A r \in rules' : r \in rules \/ (cfg.freeMin # 0 /\ r = rule)
    BY <1>6
  <2>6. (GroupIds' = GroupIds) /\ (\A d : IdsOf(classes, d)' = IdsOf(classes', d))
    BY <1>6, <1>9
  <2> HIDE DEF rule
  <2> QED BY <2>3, <2>4, <2>5, <2>6 DEF MarksMeant
<1> QED BY <1>11, <1>12, <1>13, <1>15, <1>16 DEF TInv

(* What no loop changes.                                                   *)
LEMMA TRestore == IInv /\ TInv /\ LevelsSuffice /\ Restore => TInv'
<1> SUFFICES ASSUME IInv, TInv, LevelsSuffice, Restore PROVE TInv'
  OBVIOUS
<1>1. /\ phase = "restore" /\ Late /\ phase' = "done"
      /\ UNCHANGED <<cfg, dev, pos, parent, rate, nested, limited, classes,
                     refused, filters, rules, classmapped>>
  BY DEF Restore, Late
<1>2. /\ \A d : IdsOf(classes, d)' = IdsOf(classes, d)
      /\ (GroupIds' = GroupIds) /\ (Flat' = Flat) /\ (OwnMarks' = OwnMarks)
      /\ (FreeIds' = FreeIds)
      /\ NestedUpto(Len(cfg.groups) + 1)' <=> NestedUpto(Len(cfg.groups) + 1)
      /\ \A i, d : Served(i, d)' <=> Served(i, d)
      /\ \A c : WellPlaced(c)' <=> WellPlaced(c)
      /\ ClassesAccepted'
      /\ \A i : Rated(i)' <=> Rated(i)
  BY <1>1, SameLists, StillAccepted, LateFacts
     DEF IdsOf, NestedUpto, Served, HasClass, Rated, IsFirst, WellPlaced
<1>3. Complete'
  BY <1>1, <1>2, LateFacts DEF Complete, Late
<1>4. Parents'
  BY <1>1, <1>2, LateFacts DEF Parents, Late
<1>5. AllServed'
  BY <1>1, <1>2, LateFacts DEF AllServed, Late
<1>6. Placed' /\ MarksMeant'
  BY <1>1, <1>2, LateFacts DEF Placed, MarksMeant
<1> QED BY <1>3, <1>4, <1>5, <1>6 DEF TInv

LEMMA TStutter == TInv /\ UNCHANGED vars => TInv'
<1> SUFFICES ASSUME TInv, UNCHANGED vars PROVE TInv'
  OBVIOUS
<1>1. UNCHANGED <<cfg, phase, dev, pos, parent, rate, nested, limited, classes,
                  refused, filters, rules, classmapped>>
  BY DEF vars
<1>2. /\ \A d : IdsOf(classes, d)' = IdsOf(classes, d)
      /\ (GroupIds' = GroupIds) /\ (Flat' = Flat) /\ (OwnMarks' = OwnMarks)
      /\ (FreeIds' = FreeIds) /\ (Late' <=> Late)
      /\ GroupsUpto(pos)' = GroupsUpto(pos)
      /\ MarksUpto(pos)' = MarksUpto(pos) /\ MarksUpto(pos + 1)' = MarksUpto(pos + 1)
      /\ NestedUpto(Len(cfg.groups) + 1)' <=> NestedUpto(Len(cfg.groups) + 1)
      /\ NestedUpto(pos)' <=> NestedUpto(pos)
      /\ \A i, d : Served(i, d)' <=> Served(i, d)
      /\ \A c : WellPlaced(c)' <=> WellPlaced(c)
      /\ ClassesAccepted' <=> ClassesAccepted
      /\ \A i : Rated(i)' <=> Rated(i)
  BY <1>1, SameLists DEF IdsOf, GroupsUpto, MarksUpto, NestedUpto, Served, HasClass, Rated,
                         IsFirst, WellPlaced, Late, ClassesAccepted
<1>3. Complete'
  BY <1>1, <1>2 DEF TInv, Complete
<1>4. Parents'
  BY <1>1, <1>2 DEF TInv, Parents
<1>5. AllServed'
  BY <1>1, <1>2 DEF TInv, AllServed
<1>6. Placed' /\ MarksMeant'
  BY <1>1, <1>2 DEF TInv, Placed, MarksMeant
<1> QED BY <1>3, <1>4, <1>5, <1>6 DEF TInv

(* If the levels suffice, every loop leaves the whole of its part of the    *)
(* tree on every interface it has visited.                                 *)
THEOREM TreeComplete == LevelsSuffice => (Spec => []TInv)
<1> SUFFICES ASSUME LevelsSuffice PROVE Spec => []TInv
  OBVIOUS
<1>1. Init => TInv
  BY TInit
<1>2. IInv /\ TInv /\ [Next]_vars => TInv'
  <2> SUFFICES ASSUME IInv, TInv, [Next]_vars PROVE TInv'
    OBVIOUS
  <2> QED BY TRoot, TGroup, TGroupsDone, TSkip, TIp, TIpsDone, TFree, TRestore, TStutter
          DEF Next
<1> QED BY <1>1, <1>2, Invariance, PTL DEF Spec

(* With a nesting limit that leaves HTB room for the other levels, tc      *)
(* accepts every class command of main(), for any lists and interfaces,    *)
(* but the later ones for a mark that several addresses with a rate share. *)
THEOREM EveryClassIsAccepted == LevelsSuffice => (Spec => []ClassesAccepted)
<1>1. TInv => ClassesAccepted
  BY DEF TInv, Complete, ClassesAccepted
<1> QED BY <1>1, TreeComplete, PTL

(* Every address of the class map has a class on every interface, at the   *)
(* rate of the first address with a rate that has the same mark.           *)
THEOREM ClassmapIsBacked == LevelsSuffice => (Spec => []ClassmapBacked)
<1>1. TInv => ClassmapBacked
  <2> SUFFICES ASSUME TInv, NEW i \in classmapped, NEW d \in Dev
               PROVE  HasClass(i, d)
    BY DEF ClassmapBacked, HasClass
  <2>1. Served(i, d) /\ Rated(i)
    BY DEF TInv, AllServed
  <2> QED BY <2>1 DEF Served
<1> QED BY <1>1, TreeComplete, PTL

(* One class with the ceiling of the line is above all that is shaped on   *)
(* an interface, whatever `parent' carries from one interface to the next. *)
THEOREM LineIsShared == LevelsSuffice => (Spec => []LineShared)
<1> SUFFICES ASSUME LevelsSuffice PROVE Spec => []LineShared
  OBVIOUS
<1>1. ASSUME IInv, TInv PROVE LineShared
  <2> SUFFICES ASSUME NEW d \in Dev
               PROVE  /\ Cardinality(Tops(d)) <= 1
                      /\ \A c \in classes : c.dev = d /\ c.id \in Tops(d) => c.ceil = Speed[d]
    BY DEF LineShared
  <2> DEFINE top == IF Flat \/ d = 1 THEN 1 ELSE cfg.groups[1].id
  <2>1. \A c \in classes : WellPlaced(c)
    BY <1>1, Basics DEF Placed
  <2>2. Tops(d) \subseteq {top}
    <3> SUFFICES ASSUME NEW c \in classes, c.dev = d, c.id > 2, c.parent \in {0, 1}
                 PROVE  (IF c.parent = 0 THEN c.id ELSE 1) = top
      BY DEF Tops
    <3> QED BY <2>1 DEF WellPlaced
  <2>3. Cardinality(Tops(d)) <= 1
    <3> HIDE DEF top
    <3>1. Cardinality({top}) = 1 /\ IsFiniteSet({top})
      BY FS_Singleton
    <3>2. /\ Cardinality(Tops(d)) <= Cardinality({top})
          /\ Cardinality(Tops(d)) \in Nat
      BY <2>2, <3>1, FS_Subset, FS_CardinalityType
    <3> QED BY <3>1, <3>2
  <2>4. ASSUME NEW c \in classes, c.dev = d, c.id \in Tops(d)
        PROVE  c.ceil = Speed[d]
    <3>1. CASE Flat \/ d = 1
      BY <2>1, <2>2, <2>4, <3>1 DEF WellPlaced
    <3>2. CASE ~(Flat \/ d = 1)
      <4>1. c.id = cfg.groups[1].id
        BY <2>2, <2>4, <3>2
      <4>2. 1 \in 1..Len(cfg.groups)
        BY <1>1, <3>2, Basics DEF Flat
      <4> QED BY <2>1, <2>4, <4>1, <4>2 DEF WellPlaced
    <3> QED BY <3>1, <3>2
  <2> QED BY <2>3, <2>4
<1>2. IInv /\ TInv => LineShared
  BY <1>1
<1> QED BY <1>2, TreeComplete, Invariance, PTL

(* In the end every packet within its limit reaches the leaf class of its  *)
(* mark on every interface, IPv6 packets with the filter type "classify",  *)
(* if an address with this mark has a rate; if none has, no class.         *)
THEOREM EveryPacketIsShaped == LevelsSuffice => (Spec => []Shaped)
<1> SUFFICES ASSUME LevelsSuffice PROVE Spec => []Shaped
  OBVIOUS
<1>1. ASSUME IInv, TInv PROVE Shaped
  <2> SUFFICES ASSUME phase = "done" PROVE Shaped
    BY DEF Shaped
  <2>1. /\ Late /\ MarksMeant
        /\ \A d \in Dev : IdsOf(classes, d)
             = {1, 2} \cup GroupIds \cup OwnMarks \cup FreeIds
        /\ \A i \in 1..Len(cfg.ips), d \in Dev : Served(i, d)
        /\ \A c \in classes : WellPlaced(c)
    BY <1>1, LateFacts DEF Late, Placed
  <2>2. ASSUME NEW r \in rules, ~r.over, cfg.classify \/ ~r.v6
        PROVE  Destination(r.dev, r.mark, r.v6)
                 = IF r.owner \in OwnMarks \cup {FREE_CLASS} THEN r.owner ELSE 0
    <3>1. r.dev \in Dev /\ r.mark = r.owner
      BY <1>1, <2>1, <2>2 DEF IInv, TypeOK, MarksMeant
    <3>2. ASSUME r.owner \in OwnMarks \cup {FREE_CLASS}
          PROVE  /\ r.mark \in IdsOf(classes, r.dev)
                 /\ cfg.classify \/ <<r.dev, r.mark>> \in filters
                 /\ r.mark \notin {0, 1, 2} \cup GroupIds
      <4>1. CASE r.owner \in OwnMarks
        <5>1. PICK i \in 1..Len(cfg.ips) : Rated(i) /\ cfg.ips[i].mark = r.owner
          BY <4>1 DEF OwnMarks
        <5>2. cfg.ips[i].mark > 4 /\ r.owner \notin GroupIds /\ cfg.ips[i].mark \in Nat
          BY <1>1, <4>1, <5>1, Basics DEF Rated
        <5>3. cfg.classify \/ <<r.dev, r.owner>> \in filters
          BY <2>1, <3>1, <5>1 DEF Served
        <5> QED BY <2>1, <3>1, <4>1, <5>1, <5>2, <5>3
      <4>2. CASE r.owner = FREE_CLASS
        <5>1. FREE_CLASS \notin {0, 1, 2} \cup GroupIds
          BY <1>1, Basics DEF GroupIds, FREE_CLASS
        <5>2. FREE_CLASS \in IdsOf(classes, r.dev) /\ <<r.dev, FREE_CLASS>> \in filters
          BY <2>1, <2>2, <4>2 DEF MarksMeant
        <5> QED BY <3>1, <4>2, <5>1, <5>2
      <4> QED BY <3>2, <4>1, <4>2
    <3>3. ASSUME r.owner \in OwnMarks \cup {FREE_CLASS} PROVE IsLeaf(r.dev, r.mark)
      <4>1. Known(classes, r.dev, r.mark)
        BY <3>2, <3>3 DEF IdsOf, Known
      <4>2. \A c \in classes : c.parent # r.mark
        BY <2>1, <3>2, <3>3 DEF WellPlaced
      <4> QED BY <4>1, <4>2 DEF IsLeaf
    <3>4. ASSUME r.owner \notin OwnMarks \cup {FREE_CLASS} PROVE ~IsLeaf(r.dev, r.mark)
      <4>1. r.owner \notin {1, 2, FREE_CLASS, OVERLIMIT_CLASS} \cup GroupIds
        BY <2>1, <2>2, <3>4 DEF MarksMeant
      <4>2. r.owner \notin IdsOf(classes, r.dev)
        BY <2>1, <3>1, <3>4, <4>1 DEF FreeIds
      <4> QED BY <3>1, <4>2 DEF IsLeaf, Known, IdsOf
    <3> QED BY <2>2, <3>1, <3>2, <3>3, <3>4 DEF Destination
  <2>3. ASSUME NEW i \in 1..Len(cfg.ips), NEW d \in Dev, cfg.ips[i].mark > 0
        PROVE  \E r \in rules : r.dev = d /\ ~r.over /\ r.owner = cfg.ips[i].mark
    BY <2>1, <2>3 DEF Served
  <2> QED BY <2>2, <2>3 DEF Shaped
<1>2. IInv /\ TInv => Shaped
  BY <1>1
<1> QED BY <1>2, TreeComplete, Invariance, PTL
=============================================================================
