---------------------------- MODULE FairUseProofs ----------------------------
(***************************************************************************)
(* Proofs about FairUse, for every price list, any number of customers and *)
(* any traffic.  The four properties that are checked by TLC follow from   *)
(* one invariant: every class has a positive rate and ceiling, and one     *)
(* whose upload the asymmetry takes away altogether was never changed.     *)
(***************************************************************************)
EXTENDS FairUse, TLAPS

(* Facts about the division of integers.                                   *)
LEMMA DivInt == ASSUME NEW a \in Int, NEW d \in Int, d > 0 PROVE a \div d \in Int
  BY SMT

LEMMA DivAtLeast ==
  ASSUME NEW a \in Int, NEW d \in Int, d > 0, NEW n \in Int, a >= n * d
  PROVE  a \div d >= n
  BY SMT

LEMMA DivMonotone ==
  ASSUME NEW a \in Int, NEW b \in Int, NEW d \in Int, d > 0, a <= b
  PROVE  a \div d <= b \div d
  BY SMT

LEMMA DivAntitone ==
  ASSUME NEW a \in Nat, NEW c \in Int, NEW d \in Int, c > 0, c <= d
  PROVE  a \div d <= a \div c
  BY SMT

LEMMA DivBelow ==
  ASSUME NEW a \in Nat, NEW b \in Nat, NEW d \in Int, d >= 2, a < 2 * b
  PROVE  a \div d < b
  BY SMT
-----------------------------------------------------------------------------

(* What a line of the price list is.                                       *)
LEMMA PlanFields ==
  ASSUME plan \in Plans
  PROVE  /\ plan.min \in Nat /\ plan.min > 0 /\ plan.max \in Nat
         /\ plan.reserve_min \in Nat /\ plan.reserve_max \in Nat
         /\ plan.download_aggregation \in Nat /\ plan.upload_aggregation \in Nat
         /\ plan.asymetry_ratio \in Nat /\ plan.asymetry_ratio > 0
         /\ plan.asymetry_fixed \in Nat
<1>1. plan \in PlanType
  BY FairUseAssumption
<1> QED
  BY <1>1 DEF PlanType

(* The ceiling of parse_hosts covers the rate.                             *)
LEMMA MaxOfBounds ==
  ASSUME plan \in Plans
  PROVE  /\ MaxOf \in Nat /\ MaxOf >= plan.min
         /\ Priced /\ plan.reserve_min < plan.min => MaxOf < 2 * plan.max
  BY PlanFields DEF MaxOf, Larger, Priced

(* Averages and shares are numbers, the latter at least 1.                 *)
LEMMA AverageNat ==
  ASSUME NEW mb \in Nat, age \in Nat, age > 0
  PROVE  Average(mb) \in Nat
<1>1. (mb * 8) \div age \in Int
  BY DivInt
<1>2. (mb * 8) \div age >= 0
  BY DivAtLeast
<1> QED
  BY <1>1, <1>2 DEF Average

LEMMA MinMbpsPositive ==
  ASSUME plan \in Plans, NEW g \in Nat, g > 0
  PROVE  MinMbps(g) \in Nat /\ MinMbps(g) >= 1
<1>1. plan.min \div g \in Int
  BY PlanFields, DivInt
<1>2. (plan.min \div g) \div 1024 \in Int
  BY <1>1, DivInt
<1> QED
  BY <1>2 DEF MinMbps, Larger

(* The divisor of a customer who uses at least his share is 1 or more, it  *)
(* is 2 or more from half as much again, and it grows with the average.    *)
LEMMA RatioBounds ==
  ASSUME NEW avg \in Nat, NEW m \in Nat, m >= 1, m <= avg
  PROVE  /\ Ratio(avg, m) \in Int /\ Ratio(avg, m) >= 1
         /\ 2 * (avg + 1) >= 3 * m => Ratio(avg, m) >= 2
<1>1. Ratio(avg, m) \in Int
  BY DivInt DEF Ratio
<1>2. Ratio(avg, m) >= 1
  BY DivAtLeast DEF Ratio
<1>3. ASSUME 2 * (avg + 1) >= 3 * m PROVE Ratio(avg, m) >= 2
  <2>1. 2 * (avg + 1) + m >= 2 * (2 * m)
    BY <1>3
  <2> QED
    BY <2>1, DivAtLeast DEF Ratio
<1> QED
  BY <1>1, <1>2, <1>3

LEMMA RatioMonotone ==
  ASSUME NEW a \in Nat, NEW b \in Nat, NEW m \in Nat, m >= 1, a <= b
  PROVE  Ratio(a, m) <= Ratio(b, m)
  BY DivMonotone DEF Ratio

(* What the judgement of one customer is.                                  *)
LEMMA JudgedByType ==
  ASSUME plan \in Plans, NEW avg \in Nat, NEW g \in Nat, g > 0
  PROVE  /\ JudgedBy(avg, g).agreg \in Int /\ JudgedBy(avg, g).agreg >= 1
         /\ JudgedBy(avg, g).unshape \in BOOLEAN
<1>1. MinMbps(g) \in Nat /\ MinMbps(g) >= 1
  BY MinMbpsPositive
<1>2. CASE MinMbps(g) <= avg
  <2>1. JudgedBy(avg, g) = [agreg |-> Ratio(avg, MinMbps(g)), unshape |-> FALSE]
    BY <1>2 DEF JudgedBy
  <2> QED
    BY <1>1, <1>2, <2>1, RatioBounds
<1>3. CASE ~(MinMbps(g) <= avg)
  <2>1. JudgedBy(avg, g) = [agreg |-> 1, unshape |-> TRUE]
    BY <1>3 DEF JudgedBy
  <2> QED
    BY <2>1
<1> QED
  BY <1>2, <1>3

Counting ==
  /\ plan \in Plans /\ age \in Nat /\ age > 0
  /\ traffic_down \in [Ip -> Nat] /\ traffic_up \in [Ip -> Nat]

LEMMA JudgedType ==
  ASSUME Counting, NEW i \in Ip
  PROVE  /\ Judged(i).agreg \in Int /\ Judged(i).agreg >= 1
         /\ Judged(i).unshape \in BOOLEAN
<1>1. Average(traffic_down[i]) \in Nat /\ Average(traffic_up[i]) \in Nat
  BY AverageNat DEF Counting
<1>2. plan \in Plans
  BY DEF Counting
<1>3. CASE plan.download_aggregation # 0
  <2>1. Judged(i) = JudgedBy(Average(traffic_down[i]), plan.download_aggregation)
    BY <1>3 DEF Judged
  <2> QED
    BY <1>1, <1>2, <1>3, <2>1, JudgedByType, PlanFields
<1>4. CASE plan.download_aggregation = 0 /\ plan.upload_aggregation # 0
  <2>1. Judged(i) = JudgedBy(Average(traffic_up[i]), plan.upload_aggregation)
    BY <1>4 DEF Judged
  <2> QED
    BY <1>1, <1>2, <1>4, <2>1, JudgedByType, PlanFields
<1>5. CASE plan.download_aggregation = 0 /\ plan.upload_aggregation = 0
  <2>1. Judged(i) = [agreg |-> 1, unshape |-> FALSE]
    BY <1>5 DEF Judged
  <2> QED
    BY <2>1
<1> QED
  BY <1>3, <1>4, <1>5

(* Every new ceiling is a number, and covers the rate of a priced line.    *)
LEMMA TruncatedInt ==
  ASSUME NEW x \in Int, NEW d \in Int, d > 0
  PROVE  Truncated(x, d) \in Int /\ (x >= 0 => Truncated(x, d) >= 0)
<1>1. x \div d \in Int /\ (-x) \div d \in Int
  BY DivInt
<1>2. x >= 0 => x \div d >= 0
  BY DivAtLeast
<1> QED
  BY <1>1, <1>2 DEF Truncated

LEMMA DividedNat ==
  ASSUME Counting, NEW i \in Ip
  PROVE  Divided(i) \in Nat
<1>1. MaxOf \in Nat
  BY MaxOfBounds DEF Counting
<1>2. Judged(i).agreg \in Int /\ Judged(i).agreg > 0
  BY JudgedType
<1>3. MaxOf \div Judged(i).agreg \in Int
  BY <1>1, <1>2, DivInt
<1>4. MaxOf \div Judged(i).agreg >= 0
  BY <1>1, <1>2, DivAtLeast
<1> QED
  BY <1>3, <1>4 DEF Divided

LEMMA NewMaxCovers ==
  ASSUME Counting, NEW i \in Ip, NEW sw
  PROVE  NewMax(i, sw) \in Int /\ (Priced => NewMax(i, sw) >= plan.min)
<1>1. Divided(i) \in Nat
  BY DividedNat
<1>2. /\ plan.min \in Nat /\ plan.max \in Nat
  BY PlanFields DEF Counting
<1>3. CASE Unshaped(i, sw)
  BY <1>2, <1>3 DEF NewMax, Desired, Priced
<1>4. CASE ~Unshaped(i, sw) /\ Reduce(sw) # 0
  <2>1. Reduce(sw) \in Int /\ Reduce(sw) > 0
    BY <1>4 DEF Reduce
  <2>2. /\ Truncated(plan.max - plan.min, Reduce(sw)) \in Int
        /\ plan.max - plan.min >= 0 => Truncated(plan.max - plan.min, Reduce(sw)) >= 0
    BY <1>2, <2>1, TruncatedInt
  <2>3. NewMax(i, sw) = plan.min + Truncated(plan.max - plan.min, Reduce(sw))
    BY <1>4 DEF NewMax, Desired
  <2> QED
    BY <1>2, <2>2, <2>3 DEF Priced
<1>5. CASE ~Unshaped(i, sw) /\ Reduce(sw) = 0
  <2>1. NewMax(i, sw) = Larger(Divided(i), plan.min)
    BY <1>5 DEF NewMax
  <2> QED
    BY <1>1, <1>2, <2>1 DEF Larger
<1> QED
  BY <1>3, <1>4, <1>5

(* The asymmetry keeps the order of rates.                                 *)
LEMMA TruncatedMonotone ==
  ASSUME NEW x \in Int, NEW y \in Int, NEW d \in Int, d > 0, x <= y
  PROVE  Truncated(x, d) <= Truncated(y, d)
<1>1. x \div d \in Int /\ (-x) \div d \in Int /\ y \div d \in Int /\ (-y) \div d \in Int
  BY DivInt
<1>2. CASE x >= 0
  BY <1>2, DivMonotone DEF Truncated
<1>3. CASE y < 0
  <2>1. (-y) \div d <= (-x) \div d
    BY DivMonotone
  <2> QED
    BY <1>1, <1>3, <2>1 DEF Truncated
<1>4. CASE x < 0 /\ y >= 0
  <2>1. (-x) \div d >= 0 /\ y \div d >= 0
    BY <1>4, DivAtLeast
  <2> QED
    BY <1>1, <1>4, <2>1 DEF Truncated
<1> QED
  BY <1>2, <1>3, <1>4

LEMMA UploadMonotone ==
  ASSUME plan \in Plans, NEW x \in Int, NEW y \in Int
  PROVE  Upload(x) \in Int /\ (x <= y => Upload(x) <= Upload(y))
<1> DEFINE f == plan.asymetry_fixed * plan.asymetry_ratio
<1>1. f \in Int /\ plan.asymetry_ratio \in Int /\ plan.asymetry_ratio > 0
  BY PlanFields
<1>2. /\ Upload(x) = Truncated(x - f, plan.asymetry_ratio)
      /\ Upload(y) = Truncated(y - f, plan.asymetry_ratio)
  BY DEF Upload
<1> HIDE DEF f
<1>3. Upload(x) \in Int
  BY <1>1, <1>2, TruncatedInt
<1>4. ASSUME x <= y PROVE Upload(x) <= Upload(y)
  <2>1. x - f <= y - f /\ x - f \in Int /\ y - f \in Int
    BY <1>1, <1>4
  <2> QED
    BY <1>1, <1>2, <2>1, TruncatedMonotone
<1> QED
  BY <1>3, <1>4

-----------------------------------------------------------------------------

(* tc class change keeps the type of a class, and the order of its rates.  *)
LEMMA ChangedType ==
  ASSUME NEW class \in ClassType, NEW rate \in Int, NEW ceil \in Int
  PROVE  /\ Changed(class, rate, ceil) \in ClassType
         /\ class.rate <= class.ceil /\ rate <= ceil =>
              Changed(class, rate, ceil).rate <= Changed(class, rate, ceil).ceil
<1>1. CASE rate <= 0 \/ ceil < 0
  BY <1>1 DEF Changed
<1>2. CASE ~(rate <= 0 \/ ceil < 0)
  <2> DEFINE c == IF ceil = 0 THEN rate ELSE ceil
  <2>1. Changed(class, rate, ceil) = [rate |-> rate, ceil |-> c]
    BY <1>2 DEF Changed
  <2>2. rate \in Nat \ {0} /\ c \in Nat \ {0} /\ (rate <= ceil => rate <= c)
    BY <1>2
  <2> HIDE DEF c
  <2> QED
    BY <2>1, <2>2 DEF ClassType
<1> QED
  BY <1>1, <1>2

LEMMA AddedType ==
  ASSUME plan \in Plans
  PROVE  Added \in ClassType /\ Added.rate <= Added.ceil
<1>1. plan.min \in Nat \ {0} /\ MaxOf \in Nat \ {0} /\ plan.min <= MaxOf
  BY PlanFields, MaxOfBounds
<1> QED
  BY <1>1 DEF Added, ClassType

(* A class whose upload the asymmetry leaves no rate is never changed.     *)
UploadRefused ==
  Upload(plan.min) <= 0 => \A i \in Ip : up[i] = Added

IInv == TypeOK /\ CeilCoversRate /\ UploadRefused /\ LimitsEnd /\ HeavierNotFaster

LEMMA InitInvariant == Init => IInv
<1> SUFFICES ASSUME Init PROVE IInv
  OBVIOUS
<1>1. plan \in Plans /\ last = "r" /\ age = 0
  BY DEF Init
<1>2. Added \in ClassType /\ Added.rate <= Added.ceil
  BY <1>1, AddedType
<1>3. \A i \in Ip : down[i] = Added /\ up[i] = Added
  BY DEF Init
<1>4. TypeOK
  BY <1>2, FairUseAssumption DEF Init, TypeOK
<1>5. CeilCoversRate /\ UploadRefused
  BY <1>2, <1>3 DEF CeilCoversRate, UploadRefused
<1>6. LimitsEnd /\ HeavierNotFaster
  BY <1>1 DEF LimitsEnd, HeavierNotFaster
<1> QED
  BY <1>4, <1>5, <1>6 DEF IInv

(* -r makes what Init has.                                                 *)
LEMMA RunInvariant == ASSUME IInv, Run PROVE IInv'
<1>1. /\ plan \in Plans /\ plan' = plan /\ last' = "r" /\ age' = 0
      /\ MaxOf' = MaxOf /\ Added' = Added /\ Upload(plan.min)' = Upload(plan.min)
  BY DEF IInv, TypeOK, Run, MaxOf, Added, Upload
<1>2. Added \in ClassType /\ Added.rate <= Added.ceil
  BY <1>1, AddedType
<1>3. \A i \in Ip : down'[i] = Added /\ up'[i] = Added
  BY DEF Run
<1>4. TypeOK'
  BY <1>1, <1>2, FairUseAssumption DEF Run, TypeOK
<1>5. CeilCoversRate' /\ UploadRefused'
  BY <1>1, <1>2, <1>3 DEF CeilCoversRate, UploadRefused
<1>6. LimitsEnd' /\ HeavierNotFaster'
  BY <1>1 DEF LimitsEnd, HeavierNotFaster
<1> QED
  BY <1>4, <1>5, <1>6 DEF IInv

(* Traffic and time change no class, and end what a switch promises.       *)
Elapsed ==
  /\ plan' = plan /\ down' = down /\ up' = up /\ last' = "none"
  /\ age' \in {0} \cup Ages
  /\ traffic_down' \in [Ip -> 0..MaxTraffic] /\ traffic_up' \in [Ip -> 0..MaxTraffic]

LEMMA CountElapses ==
  ASSUME TypeOK, NEW i \in Ip, NEW d \in Loads, NEW u \in Loads, Count(i, d, u)
  PROVE  Elapsed
<1>1. /\ d \in Nat /\ u \in Nat /\ MaxTraffic \in Nat
      /\ traffic_down[i] \in Nat /\ traffic_up[i] \in Nat
  BY FairUseAssumption DEF TypeOK
<1>2. /\ traffic_down[i] + d \in 0..MaxTraffic
      /\ traffic_up[i] + u \in 0..MaxTraffic
  BY <1>1 DEF Count
<1> QED
  BY <1>2 DEF TypeOK, Count, Elapsed

LEMMA ElapsedInvariant == ASSUME IInv, Elapsed PROVE IInv'
<1>1. /\ Added' = Added /\ Upload(plan.min)' = Upload(plan.min) /\ Priced' = Priced
  BY DEF Elapsed, MaxOf, Added, Upload, Priced
<1>2. TypeOK'
  BY DEF IInv, TypeOK, Elapsed
<1>3. CeilCoversRate'
  BY <1>1 DEF IInv, CeilCoversRate, Elapsed
<1>4. UploadRefused'
  BY <1>1 DEF IInv, UploadRefused, Elapsed
<1>5. LimitsEnd' /\ HeavierNotFaster'
  BY DEF Elapsed, LimitsEnd, HeavierNotFaster
<1> QED
  BY <1>2, <1>3, <1>4, <1>5 DEF IInv

-----------------------------------------------------------------------------

(* Who is below his share is given what he pays for, and who is not counts *)
(* for as many as his average says.                                        *)
LEMMA JudgedAsUsed ==
  ASSUME Counting, Aggregated, NEW i \in Ip
  PROVE  /\ Usage(i) \in Nat /\ Share \in Nat /\ Share >= 1
         /\ Usage(i) < Share => Judged(i).unshape
         /\ Share <= Usage(i) => /\ ~Judged(i).unshape
                                /\ Judged(i).agreg = Ratio(Usage(i), Share)
<1> DEFINE g == IF plan.download_aggregation # 0
                THEN plan.download_aggregation ELSE plan.upload_aggregation
<1>1. g \in Nat /\ g > 0 /\ plan \in Plans
  BY PlanFields DEF Counting, Aggregated
<1>2. Usage(i) \in Nat
  BY AverageNat DEF Counting, Usage
<1>3. Share = MinMbps(g)
  BY DEF Share
<1>4. Judged(i) = JudgedBy(Usage(i), g)
  <2>1. CASE plan.download_aggregation # 0
    BY <2>1 DEF Judged, Usage
  <2>2. CASE plan.download_aggregation = 0 /\ plan.upload_aggregation # 0
    BY <2>2 DEF Judged, Usage
  <2> QED
    BY <2>1, <2>2 DEF Aggregated
<1> HIDE DEF g
<1>5. Share \in Nat /\ Share >= 1
  BY <1>1, <1>3, MinMbpsPositive
<1>6. ASSUME Usage(i) < Share PROVE Judged(i).unshape
  <2>1. Judged(i) = [agreg |-> 1, unshape |-> TRUE]
    BY <1>2, <1>3, <1>4, <1>5, <1>6 DEF JudgedBy
  <2> QED
    BY <2>1
<1>7. ASSUME Share <= Usage(i)
      PROVE  ~Judged(i).unshape /\ Judged(i).agreg = Ratio(Usage(i), Share)
  <2>1. Judged(i) = [agreg |-> Ratio(Usage(i), Share), unshape |-> FALSE]
    BY <1>3, <1>4, <1>7 DEF JudgedBy
  <2> QED
    BY <2>1
<1> QED
  BY <1>2, <1>5, <1>6, <1>7

(* -s divides the ceiling of a customer who uses more than his share by    *)
(* two or more, which is always a limit, and by more the more he uses.     *)
LEMMA HeavyIsLimited ==
  ASSUME Counting, Aggregated, Priced, plan.reserve_min < plan.min, NEW i \in Ip,
         Share <= Usage(i), ~AsOne(i)
  PROVE  Divided(i) < Desired
<1>1. /\ Usage(i) \in Nat /\ Share \in Nat /\ Share >= 1
      /\ Judged(i).agreg = Ratio(Usage(i), Share)
  BY JudgedAsUsed
<1>2. Ratio(Usage(i), Share) \in Int /\ Ratio(Usage(i), Share) >= 2
  BY <1>1, RatioBounds DEF AsOne
<1>3. MaxOf \in Nat /\ MaxOf < 2 * plan.max /\ plan.max \in Nat
  BY MaxOfBounds, PlanFields DEF Counting
<1>4. MaxOf \div Ratio(Usage(i), Share) < plan.max
  BY <1>2, <1>3, DivBelow
<1> QED
  BY <1>1, <1>4 DEF Divided, Desired

LEMMA HeavierIsDividedMore ==
  ASSUME Counting, Aggregated, NEW i \in Ip, NEW j \in Ip,
         Share <= Usage(j), Usage(j) < Usage(i)
  PROVE  Divided(i) <= Divided(j)
<1>1. /\ Usage(i) \in Nat /\ Usage(j) \in Nat /\ Share \in Nat /\ Share >= 1
  BY JudgedAsUsed
<1>2. /\ Judged(i).agreg = Ratio(Usage(i), Share)
      /\ Judged(j).agreg = Ratio(Usage(j), Share)
  BY <1>1, JudgedAsUsed
<1>3. /\ Ratio(Usage(i), Share) \in Int
      /\ Ratio(Usage(j), Share) \in Int /\ Ratio(Usage(j), Share) >= 1
      /\ Ratio(Usage(j), Share) <= Ratio(Usage(i), Share)
  BY <1>1, RatioBounds, RatioMonotone
<1>4. MaxOf \in Nat
  BY MaxOfBounds DEF Counting
<1> QED
  BY <1>2, <1>3, <1>4, DivAntitone DEF Divided

(* What -s makes of the ceiling: what a customer below his share pays for, *)
(* and of two others no more for the one who used more.                    *)
LEMMA ShapedCeilings ==
  ASSUME Counting, Aggregated, Priced, plan.reserve_min < plan.min,
         NEW i \in Ip, NEW j \in Ip,
         Usage(i) > Usage(j), ~AsOne(i), ~AsOne(j)
  PROVE  /\ Applies(i, "s") /\ Applies(j, "s")
         /\ NewMax(i, "s") <= NewMax(j, "s")
<1>1. /\ Usage(i) \in Nat /\ Usage(j) \in Nat /\ Share \in Nat
      /\ Divided(i) \in Nat /\ Divided(j) \in Nat
      /\ plan.min \in Nat /\ plan.max \in Nat /\ plan.min <= plan.max
  BY JudgedAsUsed, DividedNat, PlanFields DEF Counting, Priced
<1>2. Reduce("s") = 0
  BY DEF Reduce
<1>3. ASSUME NEW k \in Ip, ~AsOne(k), Usage(k) \in Nat, Divided(k) \in Nat
      PROVE  /\ Applies(k, "s")
             /\ Usage(k) < Share => NewMax(k, "s") = Desired
             /\ Share <= Usage(k) => NewMax(k, "s") = Larger(Divided(k), plan.min)
                                    /\ NewMax(k, "s") <= Desired
  <2>1. CASE Usage(k) < Share
    <3>1. Unshaped(k, "s")
      BY <2>1, JudgedAsUsed DEF Unshaped
    <3> QED
      BY <1>1, <1>3, <2>1, <3>1 DEF Applies, NewMax
  <2>2. CASE Share <= Usage(k)
    <3>1. ~Unshaped(k, "s")
      BY <2>2, JudgedAsUsed DEF Unshaped
    <3>2. Divided(k) < Desired
      BY <1>3, <2>2, HeavyIsLimited
    <3>3. NewMax(k, "s") = Larger(Divided(k), plan.min)
      BY <1>2, <3>1 DEF NewMax
    <3>4. NewMax(k, "s") <= Desired
      BY <1>1, <1>3, <3>2, <3>3 DEF Larger, Desired
    <3> QED
      BY <1>1, <1>3, <2>2, <3>2, <3>3, <3>4 DEF Applies
  <2> QED
    BY <1>1, <1>3, <2>1, <2>2
<1>4. CASE Usage(i) < Share
  <2>1. NewMax(i, "s") = Desired /\ NewMax(j, "s") = Desired
    BY <1>1, <1>3, <1>4
  <2> QED
    BY <1>1, <1>3, <2>1 DEF Desired
<1>5. CASE Share <= Usage(i) /\ Usage(j) < Share
  <2>1. NewMax(i, "s") <= Desired /\ NewMax(j, "s") = Desired
    BY <1>1, <1>3, <1>5
  <2> QED
    BY <1>1, <1>3, <2>1
<1>6. CASE Share <= Usage(j)
  <2>1. Divided(i) <= Divided(j)
    BY <1>6, HeavierIsDividedMore
  <2>2. /\ NewMax(i, "s") = Larger(Divided(i), plan.min)
        /\ NewMax(j, "s") = Larger(Divided(j), plan.min)
    BY <1>1, <1>3, <1>6
  <2> QED
    BY <1>1, <1>3, <2>1, <2>2 DEF Larger
<1> QED
  BY <1>1, <1>4, <1>5, <1>6

-----------------------------------------------------------------------------

(* The classes of one IP after a switch.                                   *)
LEMMA PolicyClasses ==
  ASSUME IInv, NEW sw, FairUsePolicy(sw), NEW i \in Ip
  PROVE  /\ Counting
         /\ down'[i] = IF Applies(i, sw) THEN Changed(down[i], plan.min, NewMax(i, sw))
                       ELSE down[i]
         /\ up'[i] = IF Applies(i, sw)
                     THEN Changed(up[i], Upload(plan.min), Upload(NewMax(i, sw)))
                     ELSE up[i]
         /\ plan.min \in Int /\ NewMax(i, sw) \in Int
         /\ Upload(plan.min) \in Int /\ Upload(NewMax(i, sw)) \in Int
         /\ Priced => /\ plan.min <= NewMax(i, sw)
                      /\ Upload(plan.min) <= Upload(NewMax(i, sw))
<1>1. Counting
  BY FairUseAssumption DEF IInv, TypeOK, FairUsePolicy, Counting
<1>2. plan.min \in Int /\ plan \in Plans
  BY <1>1, PlanFields DEF Counting
<1>3. NewMax(i, sw) \in Int /\ (Priced => NewMax(i, sw) >= plan.min)
  BY <1>1, NewMaxCovers
<1>4. /\ Upload(plan.min) \in Int /\ Upload(NewMax(i, sw)) \in Int
      /\ plan.min <= NewMax(i, sw) => Upload(plan.min) <= Upload(NewMax(i, sw))
  BY <1>2, <1>3, UploadMonotone
<1>5. /\ down'[i] = IF Applies(i, sw) THEN Changed(down[i], plan.min, NewMax(i, sw))
                    ELSE down[i]
      /\ up'[i] = IF Applies(i, sw)
                  THEN Changed(up[i], Upload(plan.min), Upload(NewMax(i, sw)))
                  ELSE up[i]
  BY DEF FairUsePolicy
<1> QED
  BY <1>1, <1>2, <1>3, <1>4, <1>5

LEMMA PolicyType ==
  ASSUME IInv, NEW sw \in Switches, FairUsePolicy(sw)
  PROVE  TypeOK'
<1>1. ASSUME NEW i \in Ip PROVE down'[i] \in ClassType /\ up'[i] \in ClassType
  <2>1. down[i] \in ClassType /\ up[i] \in ClassType
    BY DEF IInv, TypeOK
  <2> QED
    BY <2>1, PolicyClasses, ChangedType
<1>2. /\ down' = [i \in Ip |-> down'[i]] /\ up' = [i \in Ip |-> up'[i]]
  BY DEF FairUsePolicy
<1>3. down' \in [Ip -> ClassType] /\ up' \in [Ip -> ClassType]
  BY <1>1, <1>2
<1> QED
  BY <1>3 DEF IInv, TypeOK, FairUsePolicy

LEMMA PolicyCovers ==
  ASSUME IInv, NEW sw \in Switches, FairUsePolicy(sw)
  PROVE  CeilCoversRate'
<1>1. Priced' = Priced
  BY DEF Priced, FairUsePolicy
<1>2. ASSUME Priced, NEW i \in Ip
      PROVE  down'[i].rate <= down'[i].ceil /\ up'[i].rate <= up'[i].ceil
  <2>1. /\ down[i] \in ClassType /\ up[i] \in ClassType
        /\ down[i].rate <= down[i].ceil /\ up[i].rate <= up[i].ceil
    BY <1>2 DEF IInv, TypeOK, CeilCoversRate
  <2> QED
    BY <1>2, <2>1, PolicyClasses, ChangedType
<1> QED
  BY <1>1, <1>2 DEF CeilCoversRate

LEMMA PolicyRefused ==
  ASSUME IInv, NEW sw \in Switches, FairUsePolicy(sw)
  PROVE  UploadRefused'
<1>1. Upload(plan.min)' = Upload(plan.min) /\ Added' = Added
  BY DEF FairUsePolicy, Upload, Added, MaxOf
<1>2. ASSUME Upload(plan.min) <= 0, NEW i \in Ip PROVE up'[i] = Added
  <2>1. up[i] = Added
    BY <1>2 DEF IInv, UploadRefused
  <2> QED
    BY <1>2, <2>1, PolicyClasses DEF Changed
<1> QED
  BY <1>1, <1>2 DEF UploadRefused

(* A switch leaves the numbers it judges by as they are.                   *)
LEMMA PolicyKeeps ==
  ASSUME NEW sw, FairUsePolicy(sw)
  PROVE  /\ plan' = plan /\ last' = sw
         /\ Priced' = Priced /\ Aggregated' = Aggregated /\ Desired' = Desired
         /\ Share' = Share
         /\ \A i \in Ip : Usage(i)' = Usage(i) /\ AsOne(i)' = AsOne(i)
<1>1. /\ plan' = plan /\ last' = sw /\ age' = age
      /\ traffic_down' = traffic_down /\ traffic_up' = traffic_up
  BY DEF FairUsePolicy
<1>2. Priced' = Priced /\ Aggregated' = Aggregated /\ Desired' = Desired
  BY <1>1 DEF Priced, Aggregated, Desired
<1>3. Share' = Share
  BY <1>1 DEF Share, MinMbps
<1>4. \A i \in Ip : Usage(i)' = Usage(i)
  BY <1>1 DEF Usage, Average
<1>5. \A i \in Ip : AsOne(i)' = AsOne(i)
  BY <1>3, <1>4 DEF AsOne
<1> QED
  BY <1>1, <1>2, <1>3, <1>4, <1>5

(* Whose limit is lifted has what he pays for.                             *)
LEMMA PolicyLifts ==
  ASSUME IInv, NEW sw \in Switches, FairUsePolicy(sw)
  PROVE  LimitsEnd'
<1>1. ASSUME Priced, NEW i \in Ip, Unshaped(i, sw) PROVE down'[i].ceil = Desired
  <2>1. down'[i] = Changed(down[i], plan.min, Desired)
    BY <1>1, PolicyClasses DEF Applies, NewMax
  <2>2. plan.min \in Nat /\ plan.min > 0 /\ plan.max \in Nat /\ plan.max >= plan.min
    BY <1>1, PlanFields DEF IInv, TypeOK, Priced
  <2> QED
    BY <2>1, <2>2 DEF Changed, Desired
<1>2. ASSUME NEW i \in Ip, sw = "q" PROVE Unshaped(i, sw)
  BY <1>2 DEF Unshaped
<1>3. ASSUME NEW i \in Ip, Aggregated, Usage(i) < Share PROVE Unshaped(i, sw)
  BY <1>3, PolicyClasses, JudgedAsUsed DEF Unshaped
<1> QED
  BY <1>1, <1>2, <1>3, PolicyKeeps DEF LimitsEnd

LEMMA PolicyOrders ==
  ASSUME IInv, NEW sw \in Switches, FairUsePolicy(sw)
  PROVE  HeavierNotFaster'
<1>1. ASSUME sw = "s", Aggregated, Priced, plan.reserve_min < plan.min,
             NEW i \in Ip, NEW j \in Ip, Usage(i) > Usage(j), ~AsOne(i), ~AsOne(j)
      PROVE  down'[i].ceil <= down'[j].ceil /\ up'[i].ceil <= up'[j].ceil
  <2>1. Counting
    BY PolicyClasses
  <2>2. /\ Applies(i, "s") /\ Applies(j, "s")
        /\ NewMax(i, "s") <= NewMax(j, "s")
    BY <1>1, <2>1, ShapedCeilings
  <2>3. plan.min \in Nat /\ plan.min > 0 /\ plan \in Plans
    BY <2>1, PlanFields DEF Counting
  <2>4. /\ NewMax(i, "s") \in Int /\ NewMax(i, "s") >= plan.min
        /\ NewMax(j, "s") \in Int /\ NewMax(j, "s") >= plan.min
    BY <1>1, <2>1, NewMaxCovers
  <2>5. down'[i].ceil <= down'[j].ceil
    <3>1. /\ down'[i] = Changed(down[i], plan.min, NewMax(i, "s"))
          /\ down'[j] = Changed(down[j], plan.min, NewMax(j, "s"))
      BY <1>1, <2>2, PolicyClasses
    <3> QED
      BY <2>2, <2>3, <2>4, <3>1 DEF Changed
  <2>6. up'[i].ceil <= up'[j].ceil
    <3>1. /\ Upload(plan.min) \in Int
          /\ Upload(NewMax(i, "s")) \in Int /\ Upload(NewMax(j, "s")) \in Int
          /\ Upload(plan.min) <= Upload(NewMax(i, "s"))
          /\ Upload(NewMax(i, "s")) <= Upload(NewMax(j, "s"))
      BY <2>2, <2>3, <2>4, UploadMonotone
    <3>2. CASE Upload(plan.min) <= 0
      <4>1. up'[i] = Added /\ up'[j] = Added /\ Added \in ClassType
        BY <2>3, <3>2, PolicyRefused, PolicyKeeps, AddedType DEF UploadRefused, Upload,
           Added, MaxOf
      <4> QED
        BY <4>1 DEF ClassType
    <3>3. CASE Upload(plan.min) > 0
      <4>1. /\ up'[i] = Changed(up[i], Upload(plan.min), Upload(NewMax(i, "s")))
            /\ up'[j] = Changed(up[j], Upload(plan.min), Upload(NewMax(j, "s")))
        BY <1>1, <2>2, PolicyClasses
      <4> QED
        BY <3>1, <3>3, <4>1 DEF Changed
    <3> QED
      BY <3>1, <3>2, <3>3
  <2> QED
    BY <2>5, <2>6
<1> QED
  BY <1>1, PolicyKeeps DEF HeavierNotFaster

LEMMA NextInvariant == IInv /\ [Next]_vars => IInv'
<1> SUFFICES ASSUME IInv, [Next]_vars PROVE IInv'
  OBVIOUS
<1>1. CASE Run
  BY <1>1, RunInvariant
<1>2. ASSUME NEW i \in Ip, NEW d \in Loads, NEW u \in Loads, Count(i, d, u) PROVE IInv'
  BY <1>2, CountElapses, ElapsedInvariant DEF IInv
<1>3. CASE Tick
  <2>1. Elapsed
    BY <1>3 DEF Tick, Elapsed, IInv, TypeOK
  <2> QED
    BY <2>1, ElapsedInvariant
<1>4. ASSUME NEW sw \in Switches, FairUsePolicy(sw) PROVE IInv'
  BY <1>4, PolicyType, PolicyCovers, PolicyRefused, PolicyLifts, PolicyOrders DEF IInv
<1>5. CASE UNCHANGED vars
  <2>1. /\ plan' = plan /\ age' = age /\ last' = last /\ down' = down /\ up' = up
        /\ traffic_down' = traffic_down /\ traffic_up' = traffic_up
    BY <1>5 DEF vars
  <2>2. TypeOK' /\ CeilCoversRate' /\ UploadRefused'
    BY <2>1 DEF IInv, TypeOK, CeilCoversRate, UploadRefused, Priced, Upload, Added, MaxOf
  <2>3. LimitsEnd'
    BY <2>1 DEF IInv, LimitsEnd, Priced, Aggregated, Usage, Average, Share, MinMbps, Desired
  <2>4. HeavierNotFaster'
    BY <2>1 DEF IInv, HeavierNotFaster, Priced, Aggregated, Usage, Average, Share, MinMbps, AsOne
  <2> QED
    BY <2>2, <2>3, <2>4 DEF IInv
<1> QED
  BY <1>1, <1>2, <1>3, <1>4, <1>5 DEF Next

(* What the properties rest on is kept by every step.                      *)
THEOREM Invariance == Spec => []IInv
  BY InitInvariant, NextInvariant, PTL DEF Spec

(* Of a line whose "-MAX" covers its MIN, no sequence of switches takes    *)
(* back what the class is guaranteed.                                      *)
THEOREM CeilsCoverRates == Spec => []CeilCoversRate
<1>1. IInv => CeilCoversRate
  BY DEF IInv
<1> QED
  BY <1>1, Invariance, PTL

(* After -s who used more has no higher ceiling, whatever both had before. *)
THEOREM HeavierIsNotFaster == Spec => []HeavierNotFaster
<1>1. IInv => HeavierNotFaster
  BY DEF IInv
<1> QED
  BY <1>1, Invariance, PTL

(* After -q, and after -s for who uses less than his share, a class has    *)
(* the ceiling that is paid for.                                           *)
THEOREM LimitsAreLifted == Spec => []LimitsEnd
<1>1. IInv => LimitsEnd
  BY DEF IInv
<1> QED
  BY <1>1, Invariance, PTL
=============================================================================
