------------------------------- MODULE FairUse -------------------------------
(***************************************************************************)
(* The fair use policy: what -s, -q, -2 and -4 make of the rates of the    *)
(* classes that -r has added, by the averages since then.                  *)
(*                                                                         *)
(* Customers of one line of the price list: min, max and the keyword they  *)
(* have in the hosts file are the same.  Rates are in kbit/s, averages in  *)
(* Mbit/s, traffic in MB, ages in seconds.  An invocation is one step      *)
(* here; Runs cuts it up.                                                  *)
(***************************************************************************)
EXTENDS Integers, FiniteSets

CONSTANTS
  Ip,
  Plans,         \* the prices: what a line of hosts and its keyword say
  Loads,         \* MB that pass between two events
  MaxTraffic,    \* bound on the MB counted, in either direction
  Ages,          \* bound on the age of the class map: those it can have
  Switches       \* of {"s", "q", "2", "4"}

(* The ratio of the asymmetry is a float in the code.                      *)
PlanType ==
  [min : Nat \ {0}, max : Nat, reserve_min : Nat, reserve_max : Nat,
   download_aggregation : Nat, upload_aggregation : Nat,
   asymetry_ratio : Nat \ {0}, asymetry_fixed : Nat]

ASSUME FairUseAssumption ==
  /\ Plans \subseteq PlanType
  /\ Loads \subseteq Nat /\ Ages \subseteq Nat \ {0} /\ MaxTraffic \in Nat
  /\ Switches \subseteq {"s", "q", "2", "4"}

VARIABLES
  plan,
  traffic_down, traffic_up,   \* what the counters of an IP hold
  age,                        \* time(NULL) - get_mtime(classmap)
  down, up,                   \* its class on the interfaces for either direction
  last                        \* the switch, until the counters or the clock move

vars == <<plan, traffic_down, traffic_up, age, down, up, last>>

-----------------------------------------------------------------------------

Larger(a, b) == IF a > b THEN a ELSE b

(* What parse_hosts makes of min and max; 0 stands for no "-MAX".          *)
Desired == plan.max
MaxOf ==
  IF plan.max <= plan.min THEN plan.min + plan.reserve_min
  ELSE Larger(plan.max - plan.reserve_max, plan.min)

(* (int)((x/asymetry_ratio)-asymetry_fixed), for ratios that are integers  *)
Truncated(x, d) == IF x >= 0 THEN x \div d ELSE -((-x) \div d)
Upload(x) ==
  Truncated(x - plan.asymetry_fixed * plan.asymetry_ratio, plan.asymetry_ratio)

(* tc class change: a rate of 0 or less is refused, as is a negative       *)
(* ceiling; one of 0 is that of the rate.                                  *)
Changed(class, rate, ceil) ==
  IF rate <= 0 \/ ceil < 0 THEN class
  ELSE [rate |-> rate, ceil |-> IF ceil = 0 THEN rate ELSE ceil]

(* tc class add, the same on every interface                               *)
Added == [rate |-> plan.min, ceil |-> MaxOf]

Average(mb) == (mb * 8) \div age

(* min/aggregation>>10, but not 0: the average that the plan guarantees    *)
MinMbps(aggregation) ==
  Larger((plan.min \div aggregation) \div 1024, 1)

\* Seeded fault: the ratio is cut, not rounded.
Ratio_Down(avg, min_mbps) == (avg + 1) \div min_mbps

(* (int)((float)(avg+1)/min_mbps+.5)                                       *)
Ratio(avg, min_mbps) == (2 * (avg + 1) + min_mbps) \div (2 * min_mbps)

(* How many customers an aggregated one counts for, and whether his limit  *)
(* is lifted.                                                              *)
JudgedBy(avg, aggregation) ==
  LET m == MinMbps(aggregation) IN
  IF m <= avg THEN [agreg |-> Ratio(avg, m), unshape |-> FALSE]
              ELSE [agreg |-> 1, unshape |-> TRUE]
Judged(i) ==
  CASE plan.download_aggregation # 0 ->
         JudgedBy(Average(traffic_down[i]), plan.download_aggregation)
    [] plan.download_aggregation = 0 /\ plan.upload_aggregation # 0 ->
         JudgedBy(Average(traffic_up[i]), plan.upload_aggregation)
    [] OTHER -> [agreg |-> 1, unshape |-> FALSE]

Reduce(sw) == CASE sw = "2" -> 2 [] sw = "4" -> 4 [] OTHER -> 0
Unshaped(i, sw) == sw = "q" \/ Judged(i).unshape
Divided(i) == MaxOf \div Judged(i).agreg

\* Seeded fault: a limit is not lifted when the average falls again.
Applies_Limits(i, sw) == Divided(i) < Desired \/ Reduce(sw) # 0

(* "apply or disable FUP limit immediately": ip->max < ip->desired ||      *)
(* unshape_this_ip || reduce_ceil                                          *)
Applies(i, sw) == Divided(i) < Desired \/ Unshaped(i, sw) \/ Reduce(sw) # 0

\* Seeded fault: the ceiling is divided however low it gets.
NewMax_NoFloor(i, sw) ==
  IF Unshaped(i, sw) THEN Desired
  ELSE IF Reduce(sw) # 0
       THEN plan.min + Truncated(Desired - plan.min, Reduce(sw))
       ELSE Divided(i)

NewMax(i, sw) ==
  IF Unshaped(i, sw) THEN Desired
  ELSE IF Reduce(sw) # 0
       THEN plan.min + Truncated(Desired - plan.min, Reduce(sw))
       ELSE Larger(Divided(i), plan.min)

-----------------------------------------------------------------------------

Init ==
  /\ plan \in Plans
  /\ traffic_down = [i \in Ip |-> 0] /\ traffic_up = [i \in Ip |-> 0]
  /\ age = 0
  /\ down = [i \in Ip |-> Added] /\ up = [i \in Ip |-> Added]
  /\ last = "r"

(* -r: new rules, whose counters are 0, new classes and a new class map    *)
Run ==
  /\ traffic_down' = [i \in Ip |-> 0] /\ traffic_up' = [i \in Ip |-> 0]
  /\ age' = 0
  /\ down' = [i \in Ip |-> Added] /\ up' = [i \in Ip |-> Added]
  /\ last' = "r"
  /\ UNCHANGED plan

Count(i, d, u) ==
  /\ traffic_down[i] + d <= MaxTraffic /\ traffic_up[i] + u <= MaxTraffic
  /\ traffic_down' = [traffic_down EXCEPT ![i] = @ + d]
  /\ traffic_up' = [traffic_up EXCEPT ![i] = @ + u]
  /\ last' = "none"
  /\ UNCHANGED <<plan, age, down, up>>

Tick ==
  /\ age' \in {a \in Ages : a > age}
  /\ last' = "none"
  /\ UNCHANGED <<plan, traffic_down, traffic_up, down, up>>

(* The loop over the class map.  With an age of 0 its first line ends the  *)
(* run by a division, and nothing is changed.                              *)
FairUsePolicy(sw) ==
  /\ age > 0
  /\ down' = [i \in Ip |->
       IF Applies(i, sw) THEN Changed(down[i], plan.min, NewMax(i, sw)) ELSE down[i]]
  /\ up' = [i \in Ip |->
       IF Applies(i, sw)
       THEN Changed(up[i], Upload(plan.min), Upload(NewMax(i, sw))) ELSE up[i]]
  /\ last' = sw
  /\ UNCHANGED <<plan, traffic_down, traffic_up, age>>

Next ==
  \/ Run
  \/ \E i \in Ip, d, u \in Loads : Count(i, d, u)
  \/ Tick
  \/ \E sw \in Switches : FairUsePolicy(sw)

Spec == Init /\ [][Next]_vars

-----------------------------------------------------------------------------

ClassType == [rate : Nat \ {0}, ceil : Nat \ {0}]

(* Every variable keeps its type: no class is left without a rate or a     *)
(* ceiling, whatever is subtracted for the asymmetry.                      *)
TypeOK ==
  /\ plan \in Plans
  /\ traffic_down \in [Ip -> 0..MaxTraffic] /\ traffic_up \in [Ip -> 0..MaxTraffic]
  /\ age \in {0} \cup Ages
  /\ down \in [Ip -> ClassType] /\ up \in [Ip -> ClassType]
  /\ last \in {"r", "none"} \cup Switches

(* A line with a "-MAX" that is not below its MIN.                         *)
Priced == plan.max >= plan.min

(* No switch takes back what a class is guaranteed, in whichever order and *)
(* how often they are used: the ceiling stays at or above the rate.  Of a  *)
(* line without "-MAX", or with one below its MIN, -2 and -4 halve the     *)
(* rate itself (prometheus.c:1189).                                        *)
CeilCoversRate ==
  Priced => \A i \in Ip :
    down[i].rate <= down[i].ceil /\ up[i].rate <= up[i].ceil

(* The plans of which -s knows the customers that use more than their      *)
(* share.                                                                  *)
Aggregated == plan.download_aggregation # 0 \/ plan.upload_aggregation # 0
Usage(i) ==
  IF plan.download_aggregation # 0 THEN Average(traffic_down[i]) ELSE Average(traffic_up[i])
Share ==
  MinMbps(IF plan.download_aggregation # 0
          THEN plan.download_aggregation ELSE plan.upload_aggregation)

(* An average between the share and half as much again counts as one       *)
(* customer: such a class is left as it is, with the limit it may have     *)
(* from an earlier -s, -2 or -4.                                           *)
AsOne(i) == Share <= Usage(i) /\ 2 * (Usage(i) + 1) < 3 * Share

(* Of two customers of a plan, -s never gives the one who used more the    *)
(* higher ceiling, whatever -s, -q, -2 and -4 did to them before.  (Without *)
(* "-MAX" it does, as only who used less is set to the rate then, and so   *)
(* does a bonus that is not below the rate.)                               *)
HeavierNotFaster ==
  last = "s" /\ Aggregated /\ Priced /\ plan.reserve_min < plan.min =>
    \A i, j \in Ip : Usage(i) > Usage(j) /\ ~AsOne(i) /\ ~AsOne(j) =>
      down[i].ceil <= down[j].ceil /\ up[i].ceil <= up[j].ceil

(* What was limited is given back: a customer who after a switch uses less *)
(* than his share has the ceiling he pays for, and after -q everybody has. *)
LimitsEnd ==
  Priced =>
    \A i \in Ip :
      last = "q" \/ (last = "s" /\ Aggregated /\ Usage(i) < Share) =>
        down[i].ceil = Desired
=============================================================================
