----------------------------- MODULE RunsProofs -----------------------------
(***************************************************************************)
(* Proofs about Runs, for any addresses, hosts files, marks and bounds.    *)
(*                                                                         *)
(* The places of an invocation are known by the step it takes next, Now    *)
(* and KeepNow; what follows what is read off the lists of steps once      *)
(* (Follows, KeepFollows).                                                 *)
(***************************************************************************)
EXTENDS Runs, TLAPS

Now == IF main.mode = "none" THEN "idle" ELSE MainSteps(main.mode)[main.pc]
KeepNow == IF keep.mode = "none" THEN "idle" ELSE KeepSteps(keep.mode)[keep.pc]

Shapers == {"r", "n", "d"}

-----------------------------------------------------------------------------

(* The lists of steps, one by one.                                         *)
LEMMA ShapingSteps ==
  ASSUME NEW mode \in Shapers
  PROVE  /\ Len(MainSteps(mode)) = 11
         /\ MainSteps(mode)[1] = "truncate" /\ MainSteps(mode)[2] = "list"
         /\ MainSteps(mode)[3] = "read" /\ MainSteps(mode)[4] = "parse"
         /\ MainSteps(mode)[5] = "flush" /\ MainSteps(mode)[6] = "qdisc"
         /\ MainSteps(mode)[7] = "logs" /\ MainSteps(mode)[8] = "open"
         /\ MainSteps(mode)[9] = "class" /\ MainSteps(mode)[10] = "restore"
         /\ MainSteps(mode)[11] = "exit"
<1>1. mode # "9" /\ mode # "f"
  BY DEF Shapers
<1>2. MainSteps(mode) = (Reading \o <<"flush", "qdisc", "logs">>) \o Building
  BY <1>1 DEF MainSteps
<1>3. /\ Len(MainSteps(mode)) = 11
      /\ MainSteps(mode)[1] = "truncate" /\ MainSteps(mode)[2] = "list"
      /\ MainSteps(mode)[3] = "read" /\ MainSteps(mode)[4] = "parse"
  BY <1>2 DEF Reading, Building
<1>4. /\ MainSteps(mode)[5] = "flush" /\ MainSteps(mode)[6] = "qdisc"
      /\ MainSteps(mode)[7] = "logs"
  BY <1>2 DEF Reading, Building
<1>5. /\ MainSteps(mode)[8] = "open" /\ MainSteps(mode)[9] = "class"
  BY <1>2 DEF Reading, Building
<1>6. /\ MainSteps(mode)[10] = "restore" /\ MainSteps(mode)[11] = "exit"
  BY <1>2 DEF Reading, Building
<1> QED
  BY <1>3, <1>4, <1>5, <1>6

(* -f ends after the flush.                                                *)
LEMMA FlushSteps ==
  /\ Len(MainSteps("f")) = 7
  /\ MainSteps("f")[1] = "truncate" /\ MainSteps("f")[2] = "list"
  /\ MainSteps("f")[3] = "read" /\ MainSteps("f")[4] = "parse"
  /\ MainSteps("f")[5] = "flush" /\ MainSteps("f")[6] = "qdisc"
  /\ MainSteps("f")[7] = "exit"
<1>1. MainSteps("f") = Reading \o <<"flush", "qdisc", "exit">>
  BY DEF MainSteps
<1> QED
  BY <1>1 DEF Reading

(* -9 does not read the counters.                                          *)
LEMMA EmergencySteps ==
  /\ Len(MainSteps("9")) = 4
  /\ MainSteps("9")[1] = "parse" /\ MainSteps("9")[2] = "flush"
  /\ MainSteps("9")[3] = "qdisc" /\ MainSteps("9")[4] = "exit"
<1>1. MainSteps("9") = <<"parse", "flush", "qdisc", "exit">>
  BY DEF MainSteps
<1> QED
  BY <1>1

(* -p ends when it has read.                                               *)
LEMMA PreviewSteps ==
  /\ Len(KeepSteps("p")) = 5
  /\ KeepSteps("p")[1] = "truncate" /\ KeepSteps("p")[2] = "list"
  /\ KeepSteps("p")[3] = "read" /\ KeepSteps("p")[4] = "parse"
  /\ KeepSteps("p")[5] = "exit"
  BY DEF KeepSteps, Reading

(* -s, -q, -2 and -4 go on to the class map.                               *)
LEMMA ChangingSteps ==
  ASSUME NEW mode \in {"s", "q", "2"}
  PROVE  /\ Len(KeepSteps(mode)) = 7
         /\ KeepSteps(mode)[1] = "truncate" /\ KeepSteps(mode)[2] = "list"
         /\ KeepSteps(mode)[3] = "read" /\ KeepSteps(mode)[4] = "parse"
         /\ KeepSteps(mode)[5] = "mtime" /\ KeepSteps(mode)[6] = "change"
         /\ KeepSteps(mode)[7] = "exit"
<1>1. KeepSteps(mode) = Reading \o <<"mtime", "change", "exit">>
  BY DEF KeepSteps
<1> QED
  BY <1>1 DEF Reading

(* An invocation is somewhere in its list of steps.                        *)
Placed ==
  /\ main \in ProcessType /\ keep \in ProcessType
  /\ main.mode # "none" =>
       main.mode \in MainModes /\ main.pc \in 1..Len(MainSteps(main.mode))
  /\ keep.mode # "none" =>
       keep.mode \in KeepModes /\ keep.pc \in 1..Len(KeepSteps(keep.mode))

(* Which invocations take a step.                                          *)
LEMMA WhoseStep ==
  ASSUME Placed
  PROVE  /\ \A step \in STRING : step # "idle" => (MainAt(step) <=> Now = step)
         /\ Now = "idle" <=> main.mode = "none"
         /\ Now \in {"logs", "open", "class", "restore"} => main.mode \in Shapers
         /\ Now \in {"idle", "truncate", "list", "read", "parse", "flush", "qdisc",
                     "logs", "open", "class", "restore", "exit"}
<1>1. CASE main.mode = "none"
  BY <1>1 DEF Now, MainAt
<1>2. CASE main.mode \in Shapers
  <2>1. main.mode # "none" /\ main.pc \in 1..11
    BY <1>2, ShapingSteps DEF Placed, Shapers
  <2>2. Now = MainSteps(main.mode)[main.pc]
    BY <2>1 DEF Now
  <2>3. Now \in {"truncate", "list", "read", "parse", "flush", "qdisc", "logs",
                     "open", "class", "restore", "exit"}
    BY <1>2, <2>1, <2>2, ShapingSteps
  <2> QED
    BY <1>2, <2>1, <2>2, <2>3 DEF MainAt
<1>3. CASE main.mode = "f"
  <2>1. main.mode # "none" /\ main.pc \in 1..7
    BY <1>3, FlushSteps DEF Placed
  <2>2. Now = MainSteps("f")[main.pc]
    BY <1>3, <2>1 DEF Now
  <2>3. Now \in {"truncate", "list", "read", "parse", "flush", "qdisc", "exit"}
    BY <2>1, <2>2, FlushSteps
  <2> QED
    BY <1>3, <2>1, <2>2, <2>3 DEF MainAt
<1>4. CASE main.mode = "9"
  <2>1. main.mode # "none" /\ main.pc \in 1..4
    BY <1>4, EmergencySteps DEF Placed
  <2>2. Now = MainSteps("9")[main.pc]
    BY <1>4, <2>1 DEF Now
  <2>3. Now \in {"parse", "flush", "qdisc", "exit"}
    BY <2>1, <2>2, EmergencySteps
  <2> QED
    BY <1>4, <2>1, <2>2, <2>3 DEF MainAt
<1> QED
  BY <1>1, <1>2, <1>3, <1>4, RunsAssumption DEF Placed, Shapers

(* The step after a step.                                                  *)
LEMMA Follows ==
  ASSUME Placed, Now # "idle", Now # "exit",
         main'.mode = main.mode, main'.pc = main.pc + 1
  PROVE  /\ main'.pc \in 1..Len(MainSteps(main'.mode)) /\ main'.pc \in 1..11
         /\ main'.mode \in MainModes
         /\ Now = "truncate" => Now' = "list"
         /\ Now = "list" => Now' = "read"
         /\ Now = "read" => Now' = "parse"
         /\ Now = "parse" => Now' = "flush"
         /\ Now = "flush" => Now' = "qdisc"
         /\ Now = "qdisc" => Now' = IF main.mode \in Shapers THEN "logs" ELSE "exit"
         /\ Now = "logs" => Now' = "open"
         /\ Now = "open" => Now' = "class"
         /\ Now = "class" => Now' = "restore"
         /\ Now = "restore" => Now' = "exit"
<1>1. main.mode # "none" /\ main.mode \in MainModes
  BY DEF Now, Placed
<1>2. /\ Now = MainSteps(main.mode)[main.pc]
      /\ Now' = MainSteps(main.mode)[main.pc + 1]
  BY <1>1 DEF Now
<1>3. CASE main.mode \in Shapers
  <2>1. main.pc \in 1..11
    BY <1>1, <1>3, ShapingSteps DEF Placed
  <2>2. main.pc \in 1..10
    BY <1>2, <1>3, <2>1, ShapingSteps
  <2>3. main'.pc \in 1..Len(MainSteps(main'.mode)) /\ main'.pc \in 1..11
    <3>1. Len(MainSteps(main'.mode)) = 11
      BY <1>3, ShapingSteps
    <3>2. main.pc + 1 \in 1..11
      BY <2>2
    <3> QED
      BY <3>1, <3>2
  <2>4. LET steps == MainSteps(main.mode)
        IN  /\ steps[1] = "truncate" /\ steps[2] = "list" /\ steps[3] = "read"
            /\ steps[4] = "parse" /\ steps[5] = "flush" /\ steps[6] = "qdisc"
            /\ steps[7] = "logs" /\ steps[8] = "open" /\ steps[9] = "class"
            /\ steps[10] = "restore" /\ steps[11] = "exit"
    BY <1>3, ShapingSteps
  <2>5. CASE main.pc \in 1..5
    <3>1. CASE main.pc = 1
      BY <1>1, <1>2, <1>3, <2>3, <2>4, <3>1
    <3>2. CASE main.pc = 2
      BY <1>1, <1>2, <1>3, <2>3, <2>4, <3>2
    <3>3. CASE main.pc = 3
      BY <1>1, <1>2, <1>3, <2>3, <2>4, <3>3
    <3>4. CASE main.pc = 4
      BY <1>1, <1>2, <1>3, <2>3, <2>4, <3>4
    <3>5. CASE main.pc = 5
      BY <1>1, <1>2, <1>3, <2>3, <2>4, <3>5
    <3> QED
      BY <2>5, <3>1, <3>2, <3>3, <3>4, <3>5
  <2>6. CASE main.pc \in 6..10
    <3>1. CASE main.pc = 6
      BY <1>1, <1>2, <1>3, <2>3, <2>4, <3>1
    <3>2. CASE main.pc = 7
      BY <1>1, <1>2, <1>3, <2>3, <2>4, <3>2
    <3>3. CASE main.pc = 8
      BY <1>1, <1>2, <1>3, <2>3, <2>4, <3>3
    <3>4. CASE main.pc = 9
      BY <1>1, <1>2, <1>3, <2>3, <2>4, <3>4
    <3>5. CASE main.pc = 10
      BY <1>1, <1>2, <1>3, <2>3, <2>4, <3>5
    <3> QED
      BY <2>6, <3>1, <3>2, <3>3, <3>4, <3>5
  <2> QED
    BY <2>2, <2>5, <2>6
<1>4. CASE main.mode = "f"
  <2>1. main.pc \in 1..7
    BY <1>1, <1>4, FlushSteps DEF Placed
  <2>2. main.pc \in 1..6
    BY <1>2, <1>4, <2>1, FlushSteps
  <2> QED
    BY <1>1, <1>2, <1>4, <2>2, FlushSteps DEF Shapers
<1>5. CASE main.mode = "9"
  <2>1. main.pc \in 1..4
    BY <1>1, <1>5, EmergencySteps DEF Placed
  <2>2. main.pc \in 1..3
    BY <1>2, <1>5, <2>1, EmergencySteps
  <2> QED
    BY <1>1, <1>2, <1>5, <2>2, EmergencySteps DEF Shapers
<1> QED
  BY <1>1, <1>3, <1>4, <1>5, RunsAssumption DEF Shapers

(* The same of the other invocation.                                       *)
LEMMA WhoseKeepStep ==
  ASSUME Placed
  PROVE  /\ \A step \in STRING : step # "idle" => (KeepAt(step) <=> KeepNow = step)
         /\ KeepNow = "idle" <=> keep.mode = "none"
         /\ KeepNow \in {"mtime", "change"} => keep.mode \in {"s", "q", "2"}
         /\ KeepNow \in {"idle", "truncate", "list", "read", "parse", "mtime", "change",
                         "exit"}
<1>1. CASE keep.mode = "none"
  BY <1>1 DEF KeepNow, KeepAt
<1>2. CASE keep.mode = "p"
  <2>1. keep.mode # "none" /\ keep.pc \in 1..5
    BY <1>2, PreviewSteps DEF Placed
  <2>2. KeepNow = KeepSteps("p")[keep.pc]
    BY <1>2, <2>1 DEF KeepNow
  <2>3. KeepNow \in {"truncate", "list", "read", "parse", "exit"}
    BY <2>1, <2>2, PreviewSteps
  <2> QED
    BY <1>2, <2>1, <2>2, <2>3 DEF KeepAt
<1>3. CASE keep.mode \in {"s", "q", "2"}
  <2>1. keep.mode # "none" /\ keep.pc \in 1..7
    BY <1>3, ChangingSteps DEF Placed
  <2>2. KeepNow = KeepSteps(keep.mode)[keep.pc]
    BY <2>1 DEF KeepNow
  <2>3. KeepNow \in {"truncate", "list", "read", "parse", "mtime", "change", "exit"}
    BY <1>3, <2>1, <2>2, ChangingSteps
  <2> QED
    BY <1>3, <2>1, <2>2, <2>3 DEF KeepAt
<1> QED
  BY <1>1, <1>2, <1>3, RunsAssumption DEF Placed

(* What is left of a list is not empty before "exit".                      *)
LEMMA KeepFollows ==
  ASSUME Placed, KeepNow # "idle", KeepNow # "exit",
         keep'.mode = keep.mode, keep'.pc = keep.pc + 1
  PROVE  /\ keep'.pc \in 1..Len(KeepSteps(keep'.mode))
         /\ keep'.pc \in 1..11 /\ keep'.mode \in KeepModes
<1>1. keep.mode # "none" /\ keep.mode \in KeepModes
  BY DEF KeepNow, Placed
<1>2. /\ KeepNow = KeepSteps(keep.mode)[keep.pc]
      /\ KeepNow' = KeepSteps(keep.mode)[keep.pc + 1]
  BY <1>1 DEF KeepNow
<1>3. CASE keep.mode = "p"
  <2>1. keep.pc \in 1..5
    BY <1>1, <1>3, PreviewSteps DEF Placed
  <2>2. keep.pc \in 1..4
    BY <1>2, <1>3, <2>1, PreviewSteps
  <2> QED
    BY <1>1, <1>2, <1>3, <2>2, PreviewSteps
<1>4. CASE keep.mode \in {"s", "q", "2"}
  <2>1. keep.pc \in 1..7
    BY <1>1, <1>4, ChangingSteps DEF Placed
  <2>2. keep.pc \in 1..6
    BY <1>2, <1>4, <2>1, ChangingSteps
  <2> QED
    BY <1>1, <1>2, <1>4, <2>2, ChangingSteps
<1> QED
  BY <1>1, <1>3, <1>4, RunsAssumption

(* After the listing of IPv4, the one of IPv6 is begun.                    *)
LEMMA ListsAgain ==
  ASSUME Placed, Now = "read", main'.mode = main.mode, main'.pc = 1
  PROVE  /\ main'.pc \in 1..Len(MainSteps(main'.mode)) /\ main'.pc \in 1..11
         /\ main'.mode \in MainModes /\ Now' = "truncate"
<1>1. main.mode # "none" /\ main.mode \in MainModes
  BY DEF Now, Placed
<1>2. Now = MainSteps(main.mode)[main.pc] /\ Now' = MainSteps(main.mode)[1]
  BY <1>1 DEF Now
<1>3. CASE main.mode \in Shapers
  BY <1>1, <1>2, <1>3, ShapingSteps
<1>4. CASE main.mode = "f"
  BY <1>1, <1>2, <1>4, FlushSteps
<1>5. CASE main.mode = "9"
  <2>1. main.pc \in 1..4
    BY <1>1, <1>5, EmergencySteps DEF Placed
  <2>2. Now # "read"
    BY <1>2, <1>5, <2>1, EmergencySteps
  <2> QED
    BY <2>2
<1> QED
  BY <1>1, <1>3, <1>4, <1>5, RunsAssumption DEF Shapers

LEMMA KeepListsAgain ==
  ASSUME Placed, KeepNow = "read", keep'.mode = keep.mode, keep'.pc = 1
  PROVE  /\ keep'.pc \in 1..Len(KeepSteps(keep'.mode)) /\ keep'.pc \in 1..11
         /\ keep'.mode \in KeepModes
<1>1. keep.mode # "none" /\ keep.mode \in KeepModes
  BY DEF KeepNow, Placed
<1>2. CASE keep.mode = "p"
  BY <1>1, <1>2, PreviewSteps
<1>3. CASE keep.mode \in {"s", "q", "2"}
  BY <1>1, <1>3, ChangingSteps
<1> QED
  BY <1>1, <1>2, <1>3, RunsAssumption

-----------------------------------------------------------------------------

Ahead == {"qdisc", "logs", "open", "class", "restore"}
Making == {"logs", "open", "class", "restore"}
Changing == {"s", "q", "2"}

Pending == Counters + (IF main.reset THEN main.stat ELSE 0)

(* Neither the counters nor the class map are of the future.               *)
Clocked == since <= clock /\ classmap.time <= clock

(* A run owns what it has read from the reset on.  Before that what it has *)
(* read is never more than is in the counters it is about to reset.        *)
ReadWithin ==
  /\ Now \in {"truncate", "list", "read"} =>
       main.stat <= IF main.family = 6 THEN counter[4] ELSE 0
  /\ Now = "read" => dump.units <= counter[main.family]
  /\ Now \in {"parse", "flush"} => main.stat <= Counters

Counted ==
  /\ main.reset <=> ~Dry /\ Now \in Ahead \cup {"exit"}
  /\ Alone => ReadWithin

(* A run that builds classes: for the addresses it has visited they are    *)
(* there, and all classes are of the hosts file it has read.               *)
Built ==
  /\ Now \in {"flush"} \cup Ahead => main.hosts \in Hosts
  /\ Now \in {"flush", "qdisc", "logs", "open"} => main.left = Addr
  /\ Now = "restore" => main.left = {}
  /\ ~Dry /\ Now \in Ahead => rules = {}
  /\ ~Dry /\ Now \in Making =>
       /\ \A c \in tree : c.mark = MarkOf[main.hosts][c.owner]
       /\ \A a \in Addr \ main.left :
            \E c \in tree : c.mark = MarkOf[main.hosts][a] /\ c.owner = a

(* Classes are not changed while another run makes them.                   *)
Exclusive == keep.mode \in Changing => main.mode = "none"

(* The class map has no line for a class of another address.               *)
LinesMatchTree ==
  \A l \in classmap.lines, c \in tree : l[2] = c.mark => l[1] = c.owner

Mapped ==
  /\ LinesMatchTree
  /\ Now \in {"class", "restore"} =>
       /\ classmap.there
       /\ \A l \in classmap.lines : l[2] = MarkOf[main.hosts][l[1]]
  /\ keep.mode \in Changing => keep.lines \subseteq classmap.lines
  /\ FupHitsOwnClass /\ MapAsOldAsCounters

IInv ==
  /\ TypeOK /\ Placed /\ Clocked /\ Counted /\ Built /\ Exclusive /\ RulesMatchTree
  /\ "d" \notin MainModes => Mapped

-----------------------------------------------------------------------------

(* One step on, nothing else.                                              *)
LEMMA MainGoes ==
  ASSUME Placed, Now # "idle", Now # "exit", main' = MainNext, keep' = keep
  PROVE  /\ Placed'
         /\ main'.mode = main.mode /\ main'.pc = main.pc + 1 /\ main'.stat = main.stat
         /\ main'.hosts = main.hosts /\ main'.left = main.left /\ main'.reset = main.reset
         /\ main'.family = main.family
<1>1. main \in ProcessType
  BY DEF Placed
<1>2. /\ main'.mode = main.mode /\ main'.pc = main.pc + 1 /\ main'.stat = main.stat
      /\ main'.hosts = main.hosts /\ main'.left = main.left /\ main'.reset = main.reset
      /\ main'.family = main.family
  BY <1>1 DEF MainNext, ProcessType
<1>3. /\ main'.pc \in 1..Len(MainSteps(main'.mode)) /\ main'.pc \in 1..11
      /\ main'.mode \in MainModes
  BY <1>2, Follows
<1>4. main' \in ProcessType
  BY <1>1, <1>3 DEF MainNext, ProcessType
<1> QED
  BY <1>2, <1>3, <1>4 DEF Placed

(* The same of the other invocation.                                       *)
LEMMA KeepGoes ==
  ASSUME Placed, KeepNow # "idle", KeepNow # "exit", keep' = KeepNext, main' = main
  PROVE  Placed' /\ keep'.mode = keep.mode /\ keep'.lines = keep.lines /\ Now' = Now
<1>1. keep \in ProcessType
  BY DEF Placed
<1>2. keep'.mode = keep.mode /\ keep'.pc = keep.pc + 1 /\ keep'.lines = keep.lines
  BY <1>1 DEF KeepNext, ProcessType
<1>3. /\ keep'.pc \in 1..Len(KeepSteps(keep'.mode)) /\ keep'.pc \in 1..11
      /\ keep'.mode \in KeepModes
  BY <1>2, KeepFollows
<1>4. keep' \in ProcessType
  BY <1>1, <1>3 DEF KeepNext, ProcessType
<1> QED
  BY <1>2, <1>3, <1>4 DEF Placed, Now

(* Whoever reads it next, what is listed stays listed.                     *)
LEMMA DumpStays ==
  ASSUME IInv, dump' = dump
  PROVE  /\ dump' \in [family : Families, units : Nat]
         /\ Alone /\ Now = "read" => dump'.units <= counter[main.family]
  BY DEF IInv, TypeOK, Counted, ReadWithin

(* A step of the invocation beside the shaping one that touches neither    *)
(* rules nor classes nor the class map.                                    *)
LEMMA KeepOnly ==
  ASSUME IInv, Placed', main' = main, dump' \in [family : Families, units : Nat],
         Alone /\ Now = "read" => dump'.units <= counter[main.family],
         UNCHANGED <<hosts, clock, rules, counter, since, tree, classmap,
                     logged, seen>>,
         faults' \in 0..MaxFaults, edits' = edits,
         keep'.mode \in Changing => main.mode = "none",
         "d" \notin MainModes /\ keep'.mode \in Changing =>
           keep'.lines \subseteq classmap.lines
  PROVE  IInv'
<1>1. /\ TypeOK /\ Placed /\ Clocked /\ Counted /\ Built /\ Exclusive /\ RulesMatchTree
      /\ "d" \notin MainModes => Mapped
  BY DEF IInv
<1>2. Now' = Now
  BY DEF Now
<1>3. TypeOK'
  BY <1>1, RunsAssumption DEF TypeOK, Placed
<1>4. Counted'
  BY <1>1, <1>2 DEF Counted, ReadWithin, Counters, Dry
<1>5. Built'
  BY <1>1, <1>2 DEF Built, Dry
<1>6. Clocked' /\ Exclusive' /\ RulesMatchTree'
  BY <1>1 DEF Clocked, Exclusive, RulesMatchTree
<1>7. "d" \notin MainModes => Mapped'
  BY <1>1, <1>2 DEF Mapped, LinesMatchTree, FupHitsOwnClass, MapAsOldAsCounters
<1> QED
  BY <1>3, <1>4, <1>5, <1>6, <1>7 DEF IInv

(* iptablesdump is emptied.                                                *)
LEMMA TruncateStep ==
  ASSUME IInv, Truncate
  PROVE  IInv'
<1>1. /\ TypeOK /\ Placed /\ Clocked /\ Counted /\ Built /\ Exclusive /\ RulesMatchTree
      /\ "d" \notin MainModes => Mapped
  BY DEF IInv
<1>2. /\ dump' = EmptyDump /\ dump' \in [family : Families, units : Nat] /\ dump'.units = 0
      /\ UNCHANGED <<hosts, clock, rules, counter, since, tree, classmap,
                     logged, seen, faults, edits>>
      /\ faults' \in 0..MaxFaults
  BY <1>1 DEF Truncate, kernel, TypeOK, EmptyDump, Families
<1>3. CASE MainAt("truncate") /\ main' = MainNext /\ UNCHANGED keep
  <2>1. Now = "truncate" /\ main.mode # "none"
    BY <1>3 DEF MainAt, Now
  <2>2. /\ Placed'
        /\ main'.mode = main.mode /\ main'.pc = main.pc + 1 /\ main'.stat = main.stat
        /\ main'.hosts = main.hosts /\ main'.left = main.left /\ main'.reset = main.reset
        /\ main'.family = main.family
    BY <1>1, <1>3, <2>1, MainGoes
  <2>3. Now' = "list"
    BY <1>1, <2>1, <2>2, Follows
  <2>4. TypeOK'
    BY <1>1, <1>2, <1>3, <2>1, <2>2, <2>3, RunsAssumption DEF TypeOK, Placed
  <2>5. Counted'
    BY <1>1, <1>2, <1>3, <2>1, <2>2, <2>3 DEF Counted, ReadWithin, Counters, Dry, Ahead, TypeOK
  <2>6. Built'
    BY <1>1, <1>2, <1>3, <2>1, <2>2, <2>3 DEF Built, Dry, Ahead, Making
  <2>7. Clocked' /\ Exclusive' /\ RulesMatchTree'
    BY <1>1, <1>2, <1>3, <2>1, <2>2, <2>3 DEF Clocked, Exclusive, RulesMatchTree
  <2>8. "d" \notin MainModes => Mapped'
    BY <1>1, <1>2, <1>3, <2>1, <2>2, <2>3
       DEF Mapped, LinesMatchTree, FupHitsOwnClass, MapAsOldAsCounters
  <2> QED
    BY <2>2, <2>4, <2>5, <2>6, <2>7, <2>8 DEF IInv
<1>4. CASE KeepAt("truncate") /\ keep' = KeepNext /\ UNCHANGED main
  <2>1. KeepNow = "truncate"
    BY <1>4 DEF KeepAt, KeepNow
  <2>2. Placed' /\ keep'.mode = keep.mode /\ keep'.lines = keep.lines
    BY <1>1, <1>4, <2>1, KeepGoes
  <2>3. Alone /\ Now = "read" => dump'.units <= counter[main.family]
    BY <1>1, <1>2 DEF TypeOK, Placed, ProcessType, Families
  <2> QED
    BY <1>1, <1>2, <1>4, <2>2, <2>3, KeepOnly DEF Exclusive, Mapped
<1> QED
  BY <1>3, <1>4 DEF Truncate

(* The counters are listed into iptablesdump.                              *)
LEMMA ListStep ==
  ASSUME IInv, List
  PROVE  IInv'
<1>1. /\ TypeOK /\ Placed /\ Clocked /\ Counted /\ Built /\ Exclusive /\ RulesMatchTree
      /\ "d" \notin MainModes => Mapped
  BY DEF IInv
<1>2. /\ UNCHANGED <<hosts, clock, rules, counter, since, tree, classmap,
                     logged, seen, faults, edits>>
      /\ faults' \in 0..MaxFaults
  BY <1>1 DEF List, kernel, TypeOK
<1>5. Listed(main.family) \in [family : Families, units : Nat]
     /\ Listed(keep.family) \in [family : Families, units : Nat]
     /\ Listed(main.family).units = counter[main.family]
     /\ Listed(keep.family).units = counter[keep.family]
  BY <1>1 DEF Listed, TypeOK, Placed, ProcessType, Families
<1>3. CASE MainAt("list") /\ main' = MainNext /\ UNCHANGED keep /\ dump' = Listed(main.family)
  <2>1. Now = "list" /\ main.mode # "none"
    BY <1>3 DEF MainAt, Now
  <2>2. /\ Placed'
        /\ main'.mode = main.mode /\ main'.pc = main.pc + 1 /\ main'.stat = main.stat
        /\ main'.hosts = main.hosts /\ main'.left = main.left /\ main'.reset = main.reset
        /\ main'.family = main.family
    BY <1>1, <1>3, <2>1, MainGoes
  <2>3. Now' = "read"
    BY <1>1, <2>1, <2>2, Follows
  <2>4. TypeOK'
    BY <1>1, <1>2, <1>3, <1>5, <2>1, <2>2, <2>3, RunsAssumption DEF TypeOK, Placed
  <2>5. Counted'
    BY <1>1, <1>2, <1>3, <1>5, <2>1, <2>2, <2>3 DEF Counted, ReadWithin, Counters, Dry, Ahead, TypeOK
  <2>6. Built'
    BY <1>1, <1>2, <1>3, <1>5, <2>1, <2>2, <2>3 DEF Built, Dry, Ahead, Making
  <2>7. Clocked' /\ Exclusive' /\ RulesMatchTree'
    BY <1>1, <1>2, <1>3, <1>5, <2>1, <2>2, <2>3 DEF Clocked, Exclusive, RulesMatchTree
  <2>8. "d" \notin MainModes => Mapped'
    BY <1>1, <1>2, <1>3, <1>5, <2>1, <2>2, <2>3
       DEF Mapped, LinesMatchTree, FupHitsOwnClass, MapAsOldAsCounters
  <2> QED
    BY <2>2, <2>4, <2>5, <2>6, <2>7, <2>8 DEF IInv
<1>4. CASE KeepAt("list") /\ keep' = KeepNext /\ UNCHANGED main /\ dump' = Listed(keep.family)
  <2>1. KeepNow = "list"
    BY <1>4 DEF KeepAt, KeepNow
  <2>2. Placed' /\ keep'.mode = keep.mode /\ keep'.lines = keep.lines
    BY <1>1, <1>4, <2>1, KeepGoes
  <2>3. ASSUME Alone, Now = "read"
        PROVE  dump'.units <= counter[main.family]
    <3>1. main.mode # "none"
      BY <2>3 DEF Now
    <3>2. keep.mode = "p"
      BY <1>1, <1>4, <3>1, RunsAssumption DEF Exclusive, Changing, Placed, KeepAt
    <3>3. ~Ip6
      BY <1>1, <1>4, <2>3, <3>2 DEF Alone, Placed, KeepAt
    <3>4. main.family = keep.family
      BY <1>1, <3>3 DEF Placed, ProcessType, Families
    <3> QED
      BY <1>1, <1>4, <1>5, <3>4 DEF TypeOK, Placed, ProcessType, Families
  <2> QED
    BY <1>1, <1>2, <1>4, <1>5, <2>2, <2>3, KeepOnly DEF Exclusive, Mapped
<1> QED
  BY <1>3, <1>4 DEF List

(* The list is read.                                                       *)
LEMMA ReadStep ==
  ASSUME IInv, Read
  PROVE  IInv'
<1>1. /\ TypeOK /\ Placed /\ Clocked /\ Counted /\ Built /\ Exclusive /\ RulesMatchTree
      /\ "d" \notin MainModes => Mapped
  BY DEF IInv
<1>2. /\ UNCHANGED <<hosts, clock, rules, counter, since, tree, dump, classmap,
                     logged, seen, faults, edits>>
      /\ faults' \in 0..MaxFaults /\ dump.units \in Nat /\ (IF Ip6 THEN 6 ELSE 4) \in Families
  BY <1>1, RunsAssumption DEF Read, kernel, files, TypeOK, Families
<1>3. ASSUME NEW n \in Understood(main.family), MainAt("read"),
             main' = AfterRead(main, n), UNCHANGED keep
      PROVE  IInv'
  <2>1. Now = "read" /\ main.mode # "none"
    BY <1>3 DEF MainAt, Now
  <2>2. main \in ProcessType /\ main.stat \in Nat /\ n \in Nat /\ n <= dump.units
    BY <1>1, <1>2 DEF Placed, ProcessType, Understood
  <2>3. /\ main'.mode = main.mode /\ main'.stat = main.stat + n
        /\ main'.pc = IF Ip6 /\ main.family = 4 THEN 1 ELSE main.pc + 1
        /\ main'.hosts = main.hosts /\ main'.left = main.left /\ main'.reset = main.reset
        /\ main'.family = IF Ip6 THEN 6 ELSE 4
    BY <1>3, <2>2 DEF AfterRead, ProcessType
  <2>4. /\ Now' = IF Ip6 /\ main.family = 4 THEN "truncate" ELSE "parse"
        /\ main'.pc \in 1..Len(MainSteps(main'.mode)) /\ main'.pc \in 1..11
        /\ main'.mode \in MainModes
    <3>1. CASE Ip6 /\ main.family = 4
      BY <1>1, <2>1, <2>3, <3>1, ListsAgain
    <3>2. CASE ~(Ip6 /\ main.family = 4)
      BY <1>1, <2>1, <2>3, <3>2, Follows
    <3> QED
      BY <3>1, <3>2
  <2>5. main' \in ProcessType
    <3>1. main.stat + n \in Nat
      BY <2>2
    <3>2. (IF Ip6 /\ main.family = 4 THEN 1 ELSE main.pc + 1) \in 1..11
      BY <2>3, <2>4
    <3> QED
      BY <1>2, <1>3, <2>2, <3>1, <3>2 DEF AfterRead, ProcessType
  <2>6. Placed'
    BY <1>1, <1>3, <2>4, <2>5 DEF Placed
  <2>7. TypeOK'
    BY <1>1, <1>2, <1>3, <2>6, RunsAssumption DEF TypeOK, Placed
  <2>8. Counted'
    <3>1. Dry' = Dry /\ (main.reset' <=> main.reset) /\ ~main.reset
      BY <1>1, <2>1, <2>3 DEF Dry, Counted, Ahead
    <3>2. main'.reset <=> ~Dry' /\ Now' \in Ahead \cup {"exit"}
      BY <2>3, <2>4, <3>1 DEF Ahead
    <3>3. ASSUME Alone
          PROVE  ReadWithin'
      <4>1. /\ main.stat <= IF main.family = 6 THEN counter[4] ELSE 0
            /\ n <= counter[main.family]
            /\ counter[4] \in Nat /\ counter[6] \in Nat /\ main.family \in Families
        BY <1>1, <2>1, <2>2, <3>3 DEF Counted, ReadWithin, TypeOK, ProcessType, Families
      <4>2. CASE Ip6 /\ main.family = 4
        BY <1>2, <2>2, <2>3, <2>4, <4>1, <4>2 DEF ReadWithin
      <4>3. CASE ~(Ip6 /\ main.family = 4)
        <5>1. Now' = "parse"
          BY <2>4, <4>3
        <5>2. main.stat + n <= counter[4] + counter[6]
          BY <2>2, <4>1 DEF Families
        <5> QED
          BY <1>2, <2>3, <5>1, <5>2 DEF ReadWithin, Counters
      <4> QED
        BY <4>2, <4>3
    <3> QED
      BY <3>2, <3>3 DEF Counted, Alone
  <2>9. Built'
    BY <1>1, <1>2, <1>3, <2>1, <2>3, <2>4 DEF Built, Dry, Ahead, Making
  <2>10. Clocked' /\ Exclusive' /\ RulesMatchTree'
    BY <1>1, <1>2, <1>3, <2>1, <2>3, <2>4 DEF Clocked, Exclusive, RulesMatchTree
  <2>11. "d" \notin MainModes => Mapped'
    BY <1>1, <1>2, <1>3, <2>1, <2>3, <2>4
       DEF Mapped, LinesMatchTree, FupHitsOwnClass, MapAsOldAsCounters
  <2> QED
    BY <2>6, <2>7, <2>8, <2>9, <2>10, <2>11 DEF IInv
<1>4. ASSUME NEW n \in Understood(keep.family), KeepAt("read"),
             keep' = AfterRead(keep, n), UNCHANGED main
      PROVE  IInv'
  <2>1. KeepNow = "read"
    BY <1>4 DEF KeepAt, KeepNow
  <2>2. keep \in ProcessType /\ keep.stat \in Nat /\ n \in Nat
    BY <1>1, <1>2 DEF Placed, ProcessType, Understood
  <2>3. /\ keep'.mode = keep.mode /\ keep'.lines = keep.lines
        /\ keep'.pc = IF Ip6 /\ keep.family = 4 THEN 1 ELSE keep.pc + 1
    BY <1>4, <2>2 DEF AfterRead, ProcessType
  <2>4. /\ keep'.pc \in 1..Len(KeepSteps(keep'.mode)) /\ keep'.pc \in 1..11
        /\ keep'.mode \in KeepModes
    <3>1. CASE Ip6 /\ keep.family = 4
      BY <1>1, <2>1, <2>3, <3>1, KeepListsAgain
    <3>2. CASE ~(Ip6 /\ keep.family = 4)
      BY <1>1, <2>1, <2>3, <3>2, KeepFollows
    <3> QED
      BY <3>1, <3>2
  <2>5. keep' \in ProcessType
    <3>1. keep.stat + n \in Nat
      BY <2>2
    <3>2. (IF Ip6 /\ keep.family = 4 THEN 1 ELSE keep.pc + 1) \in 1..11
      BY <2>3, <2>4
    <3> QED
      BY <1>2, <1>4, <2>2, <3>1, <3>2 DEF AfterRead, ProcessType
  <2>6. Placed'
    BY <1>1, <1>4, <2>4, <2>5 DEF Placed
  <2> QED
    BY <1>1, <1>2, <1>4, <2>3, <2>6, DumpStays, KeepOnly DEF Exclusive, Mapped
<1> QED
  BY <1>3, <1>4 DEF Read

(* The hosts file is read.                                                 *)
LEMMA ParseStep ==
  ASSUME IInv, Parse
  PROVE  IInv'
<1>1. /\ TypeOK /\ Placed /\ Clocked /\ Counted /\ Built /\ Exclusive /\ RulesMatchTree
      /\ "d" \notin MainModes => Mapped
  BY DEF IInv
<1>2. /\ UNCHANGED <<hosts, clock, rules, counter, since, tree, dump, classmap,
                     logged, seen, faults, edits>>
      /\ faults' \in 0..MaxFaults /\ hosts \in Hosts
  BY <1>1 DEF Parse, kernel, files, TypeOK
<1>3. CASE /\ MainAt("parse")
           /\ main' = [MainNext EXCEPT !.hosts = hosts, !.left = Addr]
           /\ UNCHANGED keep
  <2>1. Now = "parse" /\ main.mode # "none"
    BY <1>3 DEF MainAt, Now
  <2>2. main \in ProcessType
    BY <1>1 DEF Placed
  <2>3. /\ main'.mode = main.mode /\ main'.pc = main.pc + 1 /\ main'.stat = main.stat
         /\ main'.hosts = hosts /\ main'.left = Addr /\ main'.reset = main.reset
    BY <1>3, <2>2 DEF MainNext, ProcessType
  <2>4. /\ Now' = "flush"
        /\ main'.pc \in 1..Len(MainSteps(main'.mode)) /\ main'.pc \in 1..11
        /\ main'.mode \in MainModes
    BY <1>1, <2>1, <2>3, Follows
  <2>5. main' \in ProcessType
    BY <1>2, <1>3, <2>4, <2>2 DEF MainNext, ProcessType
  <2>6. Placed' /\ main'.mode = main.mode /\ main'.stat = main.stat
        /\ main'.hosts = hosts /\ main'.left = Addr /\ main'.reset = main.reset
    BY <1>1, <1>3, <2>4, <2>3, <2>5 DEF Placed
  <2>7. TypeOK'
    BY <1>1, <1>2, <1>3, <2>1, <2>6, <2>4, RunsAssumption DEF TypeOK, Placed
  <2>8. Counted'
    BY <1>1, <1>2, <1>3, <2>1, <2>6, <2>4 DEF Counted, ReadWithin, Counters, Dry, Ahead, TypeOK
  <2>9. Built'
    BY <1>1, <1>2, <1>3, <2>1, <2>6, <2>4 DEF Built, Dry, Ahead, Making
  <2>10. Clocked' /\ Exclusive' /\ RulesMatchTree'
    BY <1>1, <1>2, <1>3, <2>1, <2>6, <2>4 DEF Clocked, Exclusive, RulesMatchTree
  <2>11. "d" \notin MainModes => Mapped'
    BY <1>1, <1>2, <1>3, <2>1, <2>6, <2>4
       DEF Mapped, LinesMatchTree, FupHitsOwnClass, MapAsOldAsCounters
  <2> QED
    BY <2>6, <2>7, <2>8, <2>9, <2>10, <2>11 DEF IInv
<1>4. CASE KeepAt("parse") /\ keep' = [KeepNext EXCEPT !.hosts = hosts] /\ UNCHANGED main
  <2>1. KeepNow = "parse"
    BY <1>4 DEF KeepAt, KeepNow
  <2>2. keep \in ProcessType
    BY <1>1 DEF Placed
  <2>3. keep'.mode = keep.mode /\ keep'.pc = keep.pc + 1 /\ keep'.lines = keep.lines
    BY <1>4, <2>2 DEF KeepNext, ProcessType
  <2>4. /\ keep'.pc \in 1..Len(KeepSteps(keep'.mode)) /\ keep'.pc \in 1..11
        /\ keep'.mode \in KeepModes
    BY <1>1, <2>1, <2>3, KeepFollows
  <2>5. keep' \in ProcessType
    BY <1>2, <1>4, <2>2, <2>4 DEF KeepNext, ProcessType
  <2>6. Placed'
    BY <1>1, <1>4, <2>4, <2>5 DEF Placed
  <2> QED
    BY <1>1, <1>2, <1>4, <2>3, <2>6, DumpStays, KeepOnly DEF Exclusive, Mapped
<1> QED
  BY <1>3, <1>4 DEF Parse

(* Rules and counters go, and with them what was read becomes the run's.   *)
LEMMA FlushStep ==
  ASSUME IInv, Flush
  PROVE  IInv'
<1>1. /\ TypeOK /\ Placed /\ Clocked /\ Counted /\ Built /\ Exclusive /\ RulesMatchTree
      /\ "d" \notin MainModes => Mapped
  BY DEF IInv
<1>2. /\ UNCHANGED <<hosts, clock, since, tree, dump, classmap, logged, keep,
                     seen, faults, edits>>
      /\ Dry => rules' = rules /\ counter' = counter
      /\ ~Dry => rules' = {} /\ counter' = NoneCounted
  BY DEF Flush, files
<1>3. Now = "flush" /\ main.mode # "none" /\ main' = [MainNext EXCEPT !.reset = ~Dry]
  BY DEF Flush, MainAt, Now
<1>4. main \in ProcessType /\ Dry \in BOOLEAN
  BY <1>1 DEF Placed, Dry
<1>5. /\ main'.mode = main.mode /\ main'.pc = main.pc + 1 /\ main'.stat = main.stat
       /\ main'.hosts = main.hosts /\ main'.left = main.left /\ main'.reset = ~Dry
  BY <1>3, <1>4 DEF MainNext, ProcessType
<1>6. /\ Now' = "qdisc"
       /\ main'.pc \in 1..Len(MainSteps(main'.mode)) /\ main'.pc \in 1..11
       /\ main'.mode \in MainModes
  BY <1>1, <1>3, <1>5, Follows
<1>7. main' \in ProcessType
  BY <1>3, <1>4, <1>6 DEF MainNext, ProcessType
<1>8. Placed'
  BY <1>1, <1>2, <1>6, <1>7 DEF Placed
<1>9. TypeOK'
  <2>1. rules' \subseteq Addr \X Nat /\ counter' \in [{4, 6} -> Nat]
    BY <1>1, <1>2 DEF TypeOK, NoneCounted
  <2>2. main' \in ProcessType /\ keep' \in ProcessType
    BY <1>8 DEF Placed
  <2> QED
    BY <1>1, <1>2, <2>1, <2>2 DEF TypeOK
<1>10. Counted'
  <2>1. ~main.reset /\ Dry' = Dry
    BY <1>1, <1>3, <1>5 DEF Counted, Ahead, Dry
  <2> QED
    BY <1>5, <1>6, <2>1 DEF Counted, ReadWithin, Ahead
<1>11. Built'
  BY <1>1, <1>2, <1>3, <1>4, <1>5, <1>6, <1>8 DEF Built, Dry, Ahead, Making
<1>12. Clocked' /\ Exclusive' /\ RulesMatchTree'
  BY <1>1, <1>2, <1>3, <1>4, <1>5, <1>6, <1>8 DEF Clocked, Exclusive, RulesMatchTree
<1>13. "d" \notin MainModes => Mapped'
  BY <1>1, <1>2, <1>3, <1>4, <1>5, <1>6, <1>8
     DEF Mapped, LinesMatchTree, FupHitsOwnClass, MapAsOldAsCounters
<1> QED
  BY <1>9, <1>10, <1>11, <1>12, <1>13, <1>8 DEF IInv

(* The classes go.                                                         *)
LEMMA QdiscStep ==
  ASSUME IInv, Qdisc
  PROVE  IInv'
<1>1. /\ TypeOK /\ Placed /\ Clocked /\ Counted /\ Built /\ Exclusive /\ RulesMatchTree
      /\ "d" \notin MainModes => Mapped
  BY DEF IInv
<1>2. /\ UNCHANGED <<hosts, clock, rules, counter, since, dump, classmap,
                     logged, keep, seen, faults, edits>>
      /\ tree' = IF Dry THEN tree ELSE {}
  BY <1>1 DEF Qdisc, files
<1>3. Now = "qdisc" /\ main.mode # "none" /\ main' = MainNext
  BY DEF Qdisc, MainAt, Now
<1>4. /\ Placed'
      /\ main'.mode = main.mode /\ main'.pc = main.pc + 1 /\ main'.stat = main.stat
      /\ main'.hosts = main.hosts /\ main'.left = main.left /\ main'.reset = main.reset
      /\ main'.family = main.family
  BY <1>1, <1>2, <1>3, MainGoes
<1>5. Now' = IF main.mode \in Shapers THEN "logs" ELSE "exit"
  BY <1>1, <1>3, <1>4, Follows
<1>6. TypeOK'
  BY <1>1, <1>2, <1>3, <1>4, <1>5, RunsAssumption DEF TypeOK, Placed
<1>7. Counted'
  BY <1>1, <1>2, <1>3, <1>4, <1>5 DEF Counted, ReadWithin, Counters, Dry, Ahead, TypeOK
<1>8. Built'
  BY <1>1, <1>2, <1>3, <1>4, <1>5 DEF Built, Dry, Ahead, Making
<1>9. Clocked' /\ Exclusive' /\ RulesMatchTree'
  BY <1>1, <1>2, <1>3, <1>4, <1>5
     DEF Clocked, Exclusive, RulesMatchTree, Built, Ahead, Dry
<1>10. "d" \notin MainModes => Mapped'
  BY <1>1, <1>2, <1>3, <1>4, <1>5
     DEF Mapped, LinesMatchTree, FupHitsOwnClass, MapAsOldAsCounters
<1> QED
  BY <1>6, <1>7, <1>8, <1>9, <1>10, <1>4 DEF IInv

(* Only a shaping run has a place at the logs.                             *)
LEMMA NoKeepLogs ==
  ASSUME Placed
  PROVE  ~KeepAt("logs")
<1>1. CASE keep.mode = "none"
  BY <1>1 DEF KeepAt
<1>2. CASE keep.mode # "none"
  <2>1. KeepNow # "logs"
    BY WhoseKeepStep
  <2> QED
    BY <1>2, <2>1 DEF KeepAt, KeepNow
<1> QED
  BY <1>1, <1>2

(* A unit of what was read is booked.                                      *)
LEMMA AppendLogStep ==
  ASSUME IInv, AppendLog
  PROVE  IInv'
<1>1. /\ TypeOK /\ Placed /\ Clocked /\ Counted /\ Built /\ Exclusive /\ RulesMatchTree
      /\ "d" \notin MainModes => Mapped
  BY DEF IInv
<1>2. /\ UNCHANGED <<hosts, clock, rules, counter, since, tree, dump, classmap,
                     keep, seen, faults, edits>>
      /\ logged' = logged + 1
      /\ MainAt("logs") /\ ~Dry /\ main.stat > 0 /\ main' = [main EXCEPT !.stat = @ - 1]
  BY <1>1, NoKeepLogs DEF AppendLog, kernel, Unbooked
<1>3. Now = "logs" /\ main.mode # "none"
  BY <1>2 DEF MainAt, Now
<1>4. main \in ProcessType /\ main.stat \in Nat
  BY <1>1 DEF Placed, ProcessType
<1>5. /\ main'.mode = main.mode /\ main'.pc = main.pc /\ main'.stat = main.stat - 1
       /\ main'.hosts = main.hosts /\ main'.left = main.left /\ main'.reset = main.reset
       /\ main'.family = main.family
  BY <1>2, <1>4 DEF ProcessType
<1>6. Now' = "logs"
  BY <1>3, <1>5 DEF Now
<1>7. main' \in ProcessType
  <2>1. main.stat - 1 \in Nat
    BY <1>2, <1>4
  <2> QED
    BY <1>2, <1>4, <2>1 DEF ProcessType
<1>8. Placed'
  BY <1>1, <1>2, <1>5, <1>7 DEF Placed
<1>9. Counted'
  BY <1>1, <1>2, <1>3, <1>5, <1>6 DEF Counted, ReadWithin, Ahead, Dry
<1>10. TypeOK'
  BY <1>1, <1>2, <1>7 DEF TypeOK, Placed
<1>11. Built'
  BY <1>1, <1>2, <1>3, <1>5, <1>6 DEF Built, Dry, Ahead, Making
<1>12. Clocked' /\ Exclusive' /\ RulesMatchTree'
  BY <1>1, <1>2, <1>5 DEF Clocked, Exclusive, RulesMatchTree
<1>13. "d" \notin MainModes => Mapped'
  BY <1>1, <1>2, <1>5, <1>6
     DEF Mapped, LinesMatchTree, FupHitsOwnClass, MapAsOldAsCounters
<1> QED
  BY <1>10, <1>9, <1>11, <1>12, <1>13, <1>8 DEF IInv

(* The logs are written.                                                   *)
LEMMA LogsDoneStep ==
  ASSUME IInv, LogsDone
  PROVE  IInv'
<1>1. /\ TypeOK /\ Placed /\ Clocked /\ Counted /\ Built /\ Exclusive /\ RulesMatchTree
      /\ "d" \notin MainModes => Mapped
  BY DEF IInv
<1>2. /\ UNCHANGED <<hosts, clock, rules, counter, since, tree, dump, classmap,
                     logged, keep, seen, faults, edits>>
      /\ MainAt("logs") /\ main' = MainNext
  BY <1>1, NoKeepLogs DEF LogsDone, kernel, files
<1>3. Now = "logs" /\ main.mode # "none" /\ main' = MainNext
  BY <1>2 DEF MainAt, Now
<1>4. /\ Placed'
      /\ main'.mode = main.mode /\ main'.pc = main.pc + 1 /\ main'.stat = main.stat
      /\ main'.hosts = main.hosts /\ main'.left = main.left /\ main'.reset = main.reset
      /\ main'.family = main.family
  BY <1>1, <1>2, <1>3, MainGoes
<1>5. Now' = "open"
  BY <1>1, <1>3, <1>4, Follows
<1>6. TypeOK'
  BY <1>1, <1>2, <1>3, <1>4, <1>5, RunsAssumption DEF TypeOK, Placed
<1>7. Counted'
  BY <1>1, <1>2, <1>3, <1>4, <1>5 DEF Counted, ReadWithin, Counters, Dry, Ahead, TypeOK
<1>8. Built'
  BY <1>1, <1>2, <1>3, <1>4, <1>5 DEF Built, Dry, Ahead, Making
<1>9. Clocked' /\ Exclusive' /\ RulesMatchTree'
  BY <1>1, <1>2, <1>3, <1>4, <1>5 DEF Clocked, Exclusive, RulesMatchTree
<1>10. "d" \notin MainModes => Mapped'
  BY <1>1, <1>2, <1>3, <1>4, <1>5
     DEF Mapped, LinesMatchTree, FupHitsOwnClass, MapAsOldAsCounters
<1> QED
  BY <1>6, <1>7, <1>8, <1>9, <1>10, <1>4 DEF IInv

(* The class map is opened and emptied.                                    *)
LEMMA OpenMapStep ==
  ASSUME IInv, OpenMap
  PROVE  IInv'
<1>1. /\ TypeOK /\ Placed /\ Clocked /\ Counted /\ Built /\ Exclusive /\ RulesMatchTree
      /\ "d" \notin MainModes => Mapped
  BY DEF IInv
<1>2. /\ UNCHANGED <<hosts, clock, rules, counter, since, tree, dump, logged,
                     keep, seen, faults, edits>>
      /\ classmap' = [there |-> TRUE, lines |-> {}, time |-> clock]
  BY <1>1 DEF OpenMap, kernel
<1>3. Now = "open" /\ main.mode # "none" /\ main' = MainNext
  BY DEF OpenMap, MainAt, Now
<1>4. /\ Placed'
      /\ main'.mode = main.mode /\ main'.pc = main.pc + 1 /\ main'.stat = main.stat
      /\ main'.hosts = main.hosts /\ main'.left = main.left /\ main'.reset = main.reset
      /\ main'.family = main.family
  BY <1>1, <1>2, <1>3, MainGoes
<1>5. Now' = "class"
  BY <1>1, <1>3, <1>4, Follows
<1>6. TypeOK'
  BY <1>1, <1>2, <1>3, <1>4, <1>5, RunsAssumption DEF TypeOK, Placed
<1>7. Counted'
  BY <1>1, <1>2, <1>3, <1>4, <1>5 DEF Counted, ReadWithin, Counters, Dry, Ahead, TypeOK
<1>8. Built'
  BY <1>1, <1>2, <1>3, <1>4, <1>5 DEF Built, Dry, Ahead, Making
<1>9. Clocked' /\ Exclusive' /\ RulesMatchTree'
  BY <1>1, <1>2, <1>3, <1>4, <1>5 DEF Clocked, Exclusive, RulesMatchTree, TypeOK
<1>10. "d" \notin MainModes => Mapped'
  BY <1>1, <1>2, <1>3, <1>4, <1>5
     DEF Mapped, LinesMatchTree, FupHitsOwnClass, MapAsOldAsCounters, Built, Ahead,
         Dry, Exclusive, Placed
<1> QED
  BY <1>6, <1>7, <1>8, <1>9, <1>10, <1>4 DEF IInv

(* Every address has its class.                                            *)
LEMMA ClassesDoneStep ==
  ASSUME IInv, ClassesDone
  PROVE  IInv'
<1>1. /\ TypeOK /\ Placed /\ Clocked /\ Counted /\ Built /\ Exclusive /\ RulesMatchTree
      /\ "d" \notin MainModes => Mapped
  BY DEF IInv
<1>2. /\ UNCHANGED <<hosts, clock, rules, counter, since, tree, dump, classmap,
                     logged, keep, seen, faults, edits>> /\ main.left = {}
  BY <1>1 DEF ClassesDone, kernel, files
<1>3. Now = "class" /\ main.mode # "none" /\ main' = MainNext
  BY DEF ClassesDone, MainAt, Now
<1>4. /\ Placed'
      /\ main'.mode = main.mode /\ main'.pc = main.pc + 1 /\ main'.stat = main.stat
      /\ main'.hosts = main.hosts /\ main'.left = main.left /\ main'.reset = main.reset
      /\ main'.family = main.family
  BY <1>1, <1>2, <1>3, MainGoes
<1>5. Now' = "restore"
  BY <1>1, <1>3, <1>4, Follows
<1>6. TypeOK'
  BY <1>1, <1>2, <1>3, <1>4, <1>5, RunsAssumption DEF TypeOK, Placed
<1>7. Counted'
  BY <1>1, <1>2, <1>3, <1>4, <1>5 DEF Counted, ReadWithin, Counters, Dry, Ahead, TypeOK
<1>8. Built'
  BY <1>1, <1>2, <1>3, <1>4, <1>5 DEF Built, Dry, Ahead, Making
<1>9. Clocked' /\ Exclusive' /\ RulesMatchTree'
  BY <1>1, <1>2, <1>3, <1>4, <1>5 DEF Clocked, Exclusive, RulesMatchTree
<1>10. "d" \notin MainModes => Mapped'
  BY <1>1, <1>2, <1>3, <1>4, <1>5
     DEF Mapped, LinesMatchTree, FupHitsOwnClass, MapAsOldAsCounters
<1> QED
  BY <1>6, <1>7, <1>8, <1>9, <1>10, <1>4 DEF IInv

(* Rules are restored, with the marks of all addresses.                    *)
LEMMA RestoreStep ==
  ASSUME IInv, Restore
  PROVE  IInv'
<1>1. /\ TypeOK /\ Placed /\ Clocked /\ Counted /\ Built /\ Exclusive /\ RulesMatchTree
      /\ "d" \notin MainModes => Mapped
  BY DEF IInv
<1>2. /\ UNCHANGED <<hosts, clock, tree, dump, classmap, logged, keep, seen,
                     faults, edits>>
      /\ Dry => rules' = rules /\ counter' = counter /\ since' = since
      /\ ~Dry => /\ rules' = {<<a, MarkOf[main.hosts][a]>> : a \in Addr}
                 /\ counter' = NoneCounted /\ since' = clock
  BY <1>1 DEF Restore, files, Marks
<1>3. Now = "restore" /\ main.mode # "none" /\ main' = MainNext
  BY DEF Restore, MainAt, Now
<1>4. /\ Placed'
      /\ main'.mode = main.mode /\ main'.pc = main.pc + 1 /\ main'.stat = main.stat
      /\ main'.hosts = main.hosts /\ main'.left = main.left /\ main'.reset = main.reset
      /\ main'.family = main.family
  BY <1>1, <1>2, <1>3, MainGoes
<1>5. Now' = "exit"
  BY <1>1, <1>3, <1>4, Follows
<1>6. main.hosts \in Hosts /\ main.left = {}
  BY <1>1, <1>3 DEF Built, Ahead
<1>7. ~Dry => \A a \in Addr :
         \E c \in tree : c.mark = MarkOf[main.hosts][a] /\ c.owner = a
  BY <1>1, <1>3, <1>6 DEF Built, Making
<1>8. /\ clock \in Nat /\ since \in Nat /\ classmap.time \in Nat
      /\ since' <= clock /\ classmap.time <= clock
  <2>1. clock \in Nat /\ since \in Nat /\ classmap.time \in Nat
    BY <1>1, RunsAssumption DEF TypeOK
  <2> QED
    BY <1>1, <1>2, <2>1 DEF Clocked
<1>9. TypeOK'
  <2>1. \A a \in Addr : MarkOf[main.hosts][a] \in Nat
    BY <1>6, RunsAssumption
  <2>2. rules' \subseteq Addr \X Nat /\ counter' \in [{4, 6} -> Nat] /\ since' \in 0..MaxClock
    BY <1>1, <1>2, <2>1, RunsAssumption DEF TypeOK, NoneCounted
  <2> QED
    BY <1>1, <1>2, <1>4, <2>2 DEF TypeOK, Placed
<1>10. Counted'
  BY <1>1, <1>3, <1>4, <1>5 DEF Counted, ReadWithin, Ahead, Dry
<1>11. Built'
  BY <1>5 DEF Built, Ahead, Making
<1>12. Clocked' /\ Exclusive' /\ RulesMatchTree'
  <2>1. Clocked' /\ Exclusive'
    BY <1>1, <1>2, <1>4, <1>8 DEF Clocked, Exclusive
  <2>2. CASE Dry
    BY <1>1, <1>2, <2>1, <2>2 DEF RulesMatchTree
  <2>3. CASE ~Dry
    <3>1. \A r \in rules' : \E a \in Addr : r = <<a, MarkOf[main.hosts][a]>>
      BY <1>2, <2>3
    <3>2. \A r \in rules' : r[1] \in Addr /\ r[2] = MarkOf[main.hosts][r[1]]
      BY <3>1
    <3> QED
      BY <1>2, <1>7, <2>1, <2>3, <3>2 DEF RulesMatchTree
  <2> QED
    BY <2>2, <2>3
<1>13. ASSUME "d" \notin MainModes
      PROVE  Mapped'
  <2>1. ~Dry /\ since' = clock
    BY <1>1, <1>2, <1>3, <1>13 DEF Placed, Dry
  <2>2. classmap.there /\ classmap.time <= since'
    BY <1>1, <1>3, <1>13, <1>8, <2>1 DEF Mapped
  <2> QED
    BY <1>1, <1>2, <1>13, <1>4, <1>5, <2>2
       DEF Mapped, LinesMatchTree, FupHitsOwnClass, MapAsOldAsCounters
<1> QED
  BY <1>9, <1>10, <1>11, <1>12, <1>13, <1>4 DEF IInv

(* A class is made, unless one of that number is there, and a line of the  *)
(* class map.  Marks differ, so that class is of the same address.         *)
LEMMA AddClassStep ==
  ASSUME IInv, NEW a \in Addr, AddClass(a)
  PROVE  IInv'
<1>1. /\ TypeOK /\ Placed /\ Clocked /\ Counted /\ Built /\ Exclusive /\ RulesMatchTree
      /\ "d" \notin MainModes => Mapped
  BY DEF IInv
<1> DEFINE m == MarkOf[main.hosts][a]
<1> DEFINE new == [mark |-> m, owner |-> a, setBy |-> a]
<1>2. /\ UNCHANGED <<hosts, clock, rules, counter, since, dump, logged, keep,
                     seen, faults, edits>>
      /\ a \in main.left /\ main' = [main EXCEPT !.left = @ \ {a}]
      /\ tree' = IF Dry \/ \E c \in tree : c.mark = m THEN tree ELSE tree \cup {new}
      /\ classmap' = [classmap EXCEPT !.lines = @ \cup {<<a, m>>}, !.time = clock]
      /\ MainAt("class")
  BY DEF AddClass, Marks
<1>3. Now = "class" /\ main.mode # "none"
  BY <1>2 DEF MainAt, Now
<1>4. main \in ProcessType /\ main.hosts \in Hosts /\ m \in Nat
  BY <1>1, <1>3, RunsAssumption DEF Placed, Built, Ahead
<1>5. /\ main'.mode = main.mode /\ main'.pc = main.pc /\ main'.stat = main.stat
       /\ main'.hosts = main.hosts /\ main'.left = main.left \ {a} /\ main'.reset = main.reset
  BY <1>2, <1>4 DEF ProcessType
<1>6. Now' = "class"
  BY <1>3, <1>5 DEF Now
<1>7. main' \in ProcessType
  BY <1>2, <1>4 DEF ProcessType
<1>8. Placed'
  BY <1>1, <1>2, <1>5, <1>7 DEF Placed
<1>9. /\ classmap'.there = classmap.there /\ classmap'.time = clock
       /\ classmap'.lines = classmap.lines \cup {<<a, m>>}
  BY <1>1, <1>2 DEF TypeOK
<1>10. /\ new \in [mark : Nat, owner : Addr, setBy : Addr]
       /\ new.mark = m /\ new.owner = a /\ new.setBy = a
  BY <1>4
<1>11. tree' = tree \/ tree' = tree \cup {new}
  BY <1>2
<1>12. \A c \in tree : c.owner \in Addr /\ c.mark \in Nat
  BY <1>1 DEF TypeOK
<1>13. \A b, c \in Addr : MarkOf[main.hosts][b] = MarkOf[main.hosts][c] => b = c
  BY <1>4, RunsAssumption
<1>14. ~Dry => \A c \in tree' : c.owner \in Addr /\ c.mark = MarkOf[main.hosts][c.owner]
  BY <1>1, <1>3, <1>10, <1>11, <1>12 DEF Built, Making
<1>15. ~Dry => \E c \in tree' : c.mark = m /\ c.owner = a
  <2>1. SUFFICES ASSUME ~Dry
                 PROVE  \E c \in tree' : c.mark = m /\ c.owner = a
    OBVIOUS
  <2>2. CASE \E c \in tree : c.mark = m
    <3>1. PICK c \in tree : c.mark = m
      BY <2>2
    <3>2. c \in tree'
      BY <1>11
    <3>3. c.owner = a
      BY <1>13, <1>14, <2>1, <3>1, <3>2
    <3> QED
      BY <3>1, <3>2, <3>3
  <2>3. CASE ~\E c \in tree : c.mark = m
    <3>1. new \in tree'
      BY <1>2, <2>1, <2>3
    <3> QED
      BY <1>10, <3>1
  <2> QED
    BY <2>2, <2>3
<1> HIDE DEF new, m
<1>16. TypeOK'
  <2>1. tree' \subseteq [mark : Nat, owner : Addr, setBy : Addr]
    BY <1>1, <1>10, <1>11 DEF TypeOK
  <2>2. classmap' \in [there : BOOLEAN, lines : SUBSET (Addr \X Nat), time : 0..MaxClock]
    <3>1. /\ classmap \in [there : BOOLEAN, lines : SUBSET (Addr \X Nat), time : 0..MaxClock]
          /\ clock \in 0..MaxClock
      BY <1>1 DEF TypeOK
    <3>2. classmap.lines \cup {<<a, m>>} \in SUBSET (Addr \X Nat)
      BY <1>4, <3>1
    <3>3. classmap' = [classmap EXCEPT !.lines = classmap.lines \cup {<<a, m>>}, !.time = clock]
      BY <1>2
    <3> QED
      BY <3>1, <3>2, <3>3
  <2> QED
    BY <1>1, <1>2, <1>8, <2>1, <2>2 DEF TypeOK, Placed
<1>17. Counted'
  BY <1>1, <1>2, <1>3, <1>5, <1>6 DEF Counted, ReadWithin, Counters, Dry, Ahead, TypeOK
<1>18. Built'
  <2>1. ~Dry => rules' = {}
    BY <1>1, <1>2, <1>3 DEF Built, Ahead
  <2>2. \A b \in Addr \ main'.left : b = a \/ b \in Addr \ main.left
    BY <1>5
  <2>3. tree \subseteq tree'
    BY <1>11
  <2>4. ~Dry => \A b \in Addr \ main.left :
            \E c \in tree : c.mark = MarkOf[main.hosts][b] /\ c.owner = b
    BY <1>1, <1>3 DEF Built, Making
  <2>5. ~Dry => \A b \in Addr \ main'.left :
            \E c \in tree' : c.mark = MarkOf[main.hosts][b] /\ c.owner = b
    BY <1>15, <2>2, <2>3, <2>4 DEF m
  <2> QED
    BY <1>4, <1>5, <1>6, <1>14, <2>1, <2>5 DEF Built, Dry, Ahead, Making
<1>19. Clocked' /\ Exclusive' /\ RulesMatchTree'
  <2>1. Clocked' /\ Exclusive'
    BY <1>1, <1>2, <1>5, <1>9 DEF Clocked, Exclusive, TypeOK
  <2> QED
    BY <1>1, <1>2, <1>11, <2>1 DEF RulesMatchTree
<1>20. ASSUME "d" \notin MainModes
      PROVE  Mapped'
  <2>1. ~Dry /\ rules' = {} /\ keep'.mode \notin Changing
    BY <1>1, <1>2, <1>3, <1>20 DEF Placed, Dry, Built, Ahead, Exclusive
  <2>2. /\ classmap'.there
        /\ \A l \in classmap'.lines : l[1] \in Addr /\ l[2] = MarkOf[main.hosts][l[1]]
    <3>1. \A l \in classmap.lines : l[1] \in Addr
      BY <1>1 DEF TypeOK
    <3>2. classmap.there /\ \A l \in classmap.lines : l[2] = MarkOf[main.hosts][l[1]]
      BY <1>1, <1>3, <1>20 DEF Mapped
    <3> QED
      BY <1>9, <3>1, <3>2 DEF m
  <2>3. LinesMatchTree'
    BY <1>13, <1>14, <2>1, <2>2 DEF LinesMatchTree
  <2>4. FupHitsOwnClass'
    BY <1>1, <1>20, <1>10, <1>11 DEF Mapped, FupHitsOwnClass
  <2> QED
    BY <1>5, <1>6, <2>1, <2>2, <2>3, <2>4 DEF Mapped, MapAsOldAsCounters
<1> QED
  BY <1>16, <1>17, <1>18, <1>19, <1>20, <1>8 DEF IInv

(* An invocation that is over.                                             *)
LEMMA IdleType ==
  /\ Idle \in ProcessType /\ Idle.mode = "none" /\ Idle.reset = FALSE
  /\ Idle.stat = 0 /\ Idle.lines = {} /\ Idle.pc = 1 /\ Idle.family = 4
  BY DEF Idle, ProcessType, Families

(* The other invocation is over.                                           *)
LEMMA IdleKeep ==
  ASSUME IInv, keep' = Idle, main' = main, dump' = dump,
         UNCHANGED <<hosts, clock, rules, counter, since, tree, classmap,
                     logged, seen>>,
         faults' \in 0..MaxFaults, edits' = edits
  PROVE  IInv'
<1>1. Placed
  BY DEF IInv
<1>2. Placed'
  BY <1>1, IdleType DEF Placed
<1>3. keep'.mode \notin Changing
  BY IdleType DEF Changing
<1> QED
  BY <1>2, <1>3, DumpStays, KeepOnly

(* A shaping run is over; what it had read and not booked is lost.         *)
LEMMA IdleMain ==
  ASSUME IInv, main' = Idle, keep' = keep,
         UNCHANGED <<hosts, clock, rules, counter, since, tree, dump, classmap,
                     logged, seen>>,
         faults' \in 0..MaxFaults, edits' = edits
  PROVE  IInv'
<1>1. /\ TypeOK /\ Placed /\ Clocked /\ Counted /\ Built /\ Exclusive /\ RulesMatchTree
      /\ "d" \notin MainModes => Mapped
  BY DEF IInv
<1>2. Placed'
  BY <1>1, IdleType DEF Placed
<1>3. Now' = "idle" /\ main'.mode = "none" /\ main'.reset = FALSE
  BY IdleType DEF Now
<1>4. TypeOK'
  BY <1>1, <1>2, RunsAssumption DEF TypeOK, Placed
<1>5. Counted'
  BY <1>3 DEF Counted, ReadWithin, Ahead
<1>6. Built'
  BY <1>3 DEF Built, Ahead, Making
<1>7. Clocked' /\ Exclusive' /\ RulesMatchTree'
  BY <1>1, <1>3 DEF Clocked, Exclusive, RulesMatchTree
<1>8. "d" \notin MainModes => Mapped'
  BY <1>1, <1>3 DEF Mapped, LinesMatchTree, FupHitsOwnClass, MapAsOldAsCounters
<1> QED
  BY <1>2, <1>4, <1>5, <1>6, <1>7, <1>8 DEF IInv

(* The age of the class map is taken, or there is none to take.            *)
LEMMA CheckAgeStep ==
  ASSUME IInv, CheckAge
  PROVE  IInv'
<1>1. /\ TypeOK /\ Placed /\ Clocked /\ Counted /\ Built /\ Exclusive /\ RulesMatchTree
      /\ "d" \notin MainModes => Mapped
  BY DEF IInv
<1>2. /\ UNCHANGED <<hosts, clock, rules, counter, since, tree, dump, classmap,
                     logged, main, seen, faults, edits>>
      /\ keep' = Idle \/ keep' = [KeepNext EXCEPT !.lines = classmap.lines]
      /\ faults' \in 0..MaxFaults /\ KeepAt("mtime")
  BY <1>1 DEF CheckAge, kernel, files, TypeOK
<1>3. CASE keep' = Idle
  BY <1>1, <1>2, <1>3, IdleKeep
<1>4. CASE keep' = [KeepNext EXCEPT !.lines = classmap.lines]
  <2>1. KeepNow = "mtime"
    BY <1>2 DEF KeepAt, KeepNow
  <2>2. keep \in ProcessType /\ classmap.lines \in SUBSET (Addr \X Nat)
    BY <1>1 DEF Placed, TypeOK
  <2>3. keep'.mode = keep.mode /\ keep'.pc = keep.pc + 1 /\ keep'.lines = classmap.lines
    BY <1>4, <2>2 DEF KeepNext, ProcessType
  <2>4. /\ keep'.pc \in 1..Len(KeepSteps(keep'.mode)) /\ keep'.pc \in 1..11
        /\ keep'.mode \in KeepModes
    BY <1>1, <2>1, <2>3, KeepFollows
  <2>5. keep' \in ProcessType
    BY <1>4, <2>2, <2>4 DEF KeepNext, ProcessType
  <2>6. Placed'
    BY <1>1, <1>2, <2>4, <2>5 DEF Placed
  <2> QED
    BY <1>1, <1>2, <2>3, <2>6, DumpStays, KeepOnly DEF Exclusive
<1> QED
  BY <1>2, <1>3, <1>4

(* A line of the class map: only the ceiling of its own class changes.     *)
LEMMA ChangeClassStep ==
  ASSUME IInv, ChangeClass
  PROVE  IInv'
<1>1. /\ TypeOK /\ Placed /\ Clocked /\ Counted /\ Built /\ Exclusive /\ RulesMatchTree
      /\ "d" \notin MainModes => Mapped
  BY DEF IInv
<1>2. /\ UNCHANGED <<hosts, clock, rules, counter, since, dump, classmap,
                     logged, main, seen, faults, edits>>
      /\ KeepAt("change")
  BY DEF ChangeClass, files
<1>3. PICK line \in keep.lines :
        /\ keep' = [keep EXCEPT !.lines = @ \ {line}]
        /\ \/ tree' = {[c EXCEPT !.setBy = IF c.mark = line[2] THEN line[1] ELSE @] : c \in tree}
           \/ tree' = tree
  BY DEF ChangeClass, ChangedMark
<1>4. keep \in ProcessType
  BY <1>1 DEF Placed
<1>5. keep'.mode = keep.mode /\ keep'.pc = keep.pc /\ keep'.lines = keep.lines \ {line}
  BY <1>3, <1>4 DEF ProcessType
<1>6. keep' \in ProcessType
  <2>1. keep.lines \ {line} \in SUBSET (Addr \X Nat)
    BY <1>4 DEF ProcessType
  <2>2. keep' = [keep EXCEPT !.lines = keep.lines \ {line}]
    BY <1>3
  <2> QED
    BY <1>4, <2>1, <2>2 DEF ProcessType
<1>7. Placed'
  BY <1>1, <1>2, <1>5, <1>6 DEF Placed
<1>8. Now' = Now
  BY <1>2 DEF Now
<1>9. line[1] \in Addr /\ line[2] \in Nat
  BY <1>4 DEF ProcessType
<1>10. main.mode = "none" /\ Now = "idle" /\ keep.mode \in Changing
  <2>1. KeepNow = "change"
    BY <1>2 DEF KeepAt, KeepNow
  <2>2. keep.mode \in Changing
    BY <1>1, <2>1, WhoseKeepStep DEF Changing
  <2> QED
    BY <1>1, <2>2 DEF Exclusive, Now
<1>11. \A d \in tree' : \E c \in tree :
         /\ d.mark = c.mark /\ d.owner = c.owner
         /\ d.setBy = c.setBy \/ (c.mark = line[2] /\ d.setBy = line[1])
         /\ d \in [mark : Nat, owner : Addr, setBy : Addr]
  <2>1. \A c \in tree : c \in [mark : Nat, owner : Addr, setBy : Addr]
    BY <1>1 DEF TypeOK
  <2>2. CASE tree' = tree
    BY <2>1, <2>2
  <2>3. CASE tree' = {[c EXCEPT !.setBy = IF c.mark = line[2] THEN line[1] ELSE @] : c \in tree}
    <3>1. SUFFICES ASSUME NEW c \in tree, NEW d,
                          d = [c EXCEPT !.setBy = IF c.mark = line[2] THEN line[1] ELSE @]
                   PROVE  /\ d.mark = c.mark /\ d.owner = c.owner
                          /\ d.setBy = c.setBy \/ (c.mark = line[2] /\ d.setBy = line[1])
                          /\ d \in [mark : Nat, owner : Addr, setBy : Addr]
      BY <2>3
    <3>2. CASE c.mark = line[2]
      BY <1>9, <2>1, <3>1, <3>2
    <3>3. CASE c.mark # line[2]
      BY <2>1, <3>1, <3>3
    <3> QED
      BY <3>2, <3>3
  <2> QED
    BY <1>3, <2>2, <2>3
<1>12. \A c \in tree : \E d \in tree' : d.mark = c.mark /\ d.owner = c.owner
  <2>1. \A c \in tree : c \in [mark : Nat, owner : Addr, setBy : Addr]
    BY <1>1 DEF TypeOK
  <2>2. CASE tree' = tree
    BY <2>2
  <2>3. CASE tree' = {[c EXCEPT !.setBy = IF c.mark = line[2] THEN line[1] ELSE @] : c \in tree}
    <3>1. TAKE c \in tree
    <3> DEFINE d == [c EXCEPT !.setBy = IF c.mark = line[2] THEN line[1] ELSE @]
    <3>2. d \in tree'
      BY <2>3
    <3>3. d.mark = c.mark /\ d.owner = c.owner
      BY <2>1
    <3> QED
      BY <3>2, <3>3
  <2> QED
    BY <1>3, <2>2, <2>3
<1>13. TypeOK'
  <2>1. tree' \subseteq [mark : Nat, owner : Addr, setBy : Addr]
    BY <1>11
  <2> QED
    BY <1>1, <1>2, <1>7, <2>1, RunsAssumption DEF TypeOK, Placed
<1>14. Counted'
  BY <1>1, <1>2, <1>8 DEF Counted, ReadWithin, Counters, Alone, Dry
<1>15. Built'
  BY <1>8, <1>10 DEF Built, Ahead, Making
<1>16. Clocked' /\ Exclusive' /\ RulesMatchTree'
  BY <1>1, <1>2, <1>5, <1>12 DEF Clocked, Exclusive, RulesMatchTree
<1>17. ASSUME "d" \notin MainModes
      PROVE  Mapped'
  <2>1. /\ LinesMatchTree /\ keep.lines \subseteq classmap.lines
        /\ FupHitsOwnClass /\ MapAsOldAsCounters
    BY <1>1, <1>17, <1>10 DEF Mapped
  <2>2. LinesMatchTree'
    BY <1>2, <1>11, <2>1 DEF LinesMatchTree
  <2>3. FupHitsOwnClass'
    BY <1>3, <1>11, <2>1 DEF LinesMatchTree, FupHitsOwnClass
  <2> QED
    BY <1>2, <1>5, <1>8, <1>10, <2>1, <2>2, <2>3 DEF Mapped, MapAsOldAsCounters
<1> QED
  BY <1>13, <1>14, <1>15, <1>16, <1>17, <1>7 DEF IInv

(* The class map is through.                                               *)
LEMMA ChangesDoneStep ==
  ASSUME IInv, ChangesDone
  PROVE  IInv'
<1>1. /\ TypeOK /\ Placed /\ Clocked /\ Counted /\ Built /\ Exclusive /\ RulesMatchTree
      /\ "d" \notin MainModes => Mapped
  BY DEF IInv
<1>2. /\ UNCHANGED <<hosts, clock, rules, counter, since, tree, dump, classmap,
                     logged, main, seen, faults, edits>>
      /\ faults' \in 0..MaxFaults
  BY <1>1 DEF ChangesDone, kernel, files, TypeOK
<1>3. KeepAt("change") /\ keep' = KeepNext
  BY DEF ChangesDone
<1>4. KeepNow = "change"
  BY <1>3 DEF KeepAt, KeepNow
<1>5. Placed' /\ keep'.mode = keep.mode /\ keep'.lines = keep.lines
  BY <1>1, <1>2, <1>3, <1>4, KeepGoes
<1> QED
  BY <1>1, <1>2, <1>5, DumpStays, KeepOnly DEF Exclusive, Mapped

(* An invocation ends.                                                     *)
LEMMA ExitStep ==
  ASSUME IInv, Exit
  PROVE  IInv'
<1>1. /\ TypeOK /\ Placed /\ Clocked /\ Counted /\ Built /\ Exclusive /\ RulesMatchTree
      /\ "d" \notin MainModes => Mapped
  BY DEF IInv
<1>2. /\ UNCHANGED <<hosts, clock, rules, counter, since, tree, dump, classmap,
                     logged, seen, faults, edits>>
      /\ faults' \in 0..MaxFaults
  BY <1>1 DEF Exit, kernel, files, TypeOK
<1> QED
  BY <1>2, IdleMain, IdleKeep DEF Exit

(* An invocation is killed.                                                *)
LEMMA CrashStep ==
  ASSUME IInv, Crash
  PROVE  IInv'
<1>1. /\ TypeOK /\ Placed /\ Clocked /\ Counted /\ Built /\ Exclusive /\ RulesMatchTree
      /\ "d" \notin MainModes => Mapped
  BY DEF IInv
<1>2. /\ UNCHANGED <<hosts, clock, rules, counter, since, tree, dump, classmap,
                     logged, seen, edits>>
      /\ faults' = faults + 1 /\ faults < MaxFaults
  BY DEF Crash, kernel, files
<1>3. faults' \in 0..MaxFaults
  BY <1>1, <1>2, RunsAssumption DEF TypeOK
<1> QED
  BY <1>2, <1>3, IdleMain, IdleKeep DEF Crash

(* A packet is counted.                                                    *)
LEMMA TrafficStep ==
  ASSUME IInv, Traffic
  PROVE  IInv'
<1>1. /\ TypeOK /\ Placed /\ Clocked /\ Counted /\ Built /\ Exclusive /\ RulesMatchTree
      /\ "d" \notin MainModes => Mapped
  BY DEF IInv
<1>2. /\ UNCHANGED <<hosts, clock, rules, since, tree, dump, classmap, logged,
                     main, keep, faults, edits>>
      /\ seen' = seen + 1 /\ seen < MaxUnits
  BY DEF Traffic, files
<1>3. Now' = Now /\ Dry' = Dry
  BY <1>2 DEF Now, Dry
<1>4. PICK family \in Families : counter' = [counter EXCEPT ![family] = @ + 1]
  BY DEF Traffic
<1>5. counter \in [{4, 6} -> Nat] /\ family \in {4, 6}
  BY <1>1 DEF TypeOK, Families
<1>6. counter' \in [{4, 6} -> Nat] /\ \A v \in {4, 6} : counter[v] <= counter'[v]
  BY <1>4, <1>5
<1>7. seen' \in 0..MaxUnits
  BY <1>1, <1>2, RunsAssumption DEF TypeOK
<1>8. TypeOK'
  BY <1>1, <1>2, <1>6, <1>7 DEF TypeOK
<1>9. Counted'
  <2>1. ASSUME Alone
        PROVE  ReadWithin'
    <3>1. /\ counter[4] \in Nat /\ counter'[4] \in Nat /\ counter[4] <= counter'[4]
          /\ counter[6] \in Nat /\ counter'[6] \in Nat /\ counter[6] <= counter'[6]
          /\ main.stat \in Nat /\ dump.units \in Nat /\ main.family \in {4, 6}
      BY <1>1, <1>5, <1>6 DEF TypeOK, ProcessType, Families
    <3>2. ReadWithin
      BY <1>1, <2>1 DEF Counted
    <3> QED
      BY <1>2, <1>3, <3>1, <3>2 DEF ReadWithin, Counters
  <2> QED
    BY <1>1, <1>2, <1>3, <2>1 DEF Counted, Alone
<1>10. Built'
  BY <1>1, <1>2, <1>3 DEF Built
<1>11. Clocked' /\ Exclusive' /\ RulesMatchTree' /\ Placed'
  BY <1>1, <1>2 DEF Clocked, Exclusive, RulesMatchTree, Placed
<1>12. "d" \notin MainModes => Mapped'
  BY <1>1, <1>2, <1>3 DEF Mapped, LinesMatchTree, FupHitsOwnClass, MapAsOldAsCounters
<1> QED
  BY <1>8, <1>9, <1>10, <1>11, <1>12 DEF IInv

(* Time passes.                                                            *)
LEMMA TickStep ==
  ASSUME IInv, Tick
  PROVE  IInv'
<1>1. /\ TypeOK /\ Placed /\ Clocked /\ Counted /\ Built /\ Exclusive /\ RulesMatchTree
      /\ "d" \notin MainModes => Mapped
  BY DEF IInv
<1>2. /\ UNCHANGED <<hosts, rules, counter, since, tree, dump, classmap,
                     logged, main, keep, seen, faults, edits>>
      /\ clock' = clock + 1 /\ clock < MaxClock
  BY DEF Tick, kernel, files
<1>3. Now' = Now /\ Dry' = Dry
  BY <1>2 DEF Now, Dry
<1>4. clock \in Nat /\ since \in Nat /\ classmap.time \in Nat /\ MaxClock \in Nat
  BY <1>1, RunsAssumption DEF TypeOK
<1>5. TypeOK'
  <2>1. clock' \in 0..MaxClock
    BY <1>2, <1>4
  <2> QED
    BY <1>1, <1>2, <2>1 DEF TypeOK
<1>6. Counted'
  BY <1>1, <1>2, <1>3 DEF Counted, ReadWithin, Counters, Alone
<1>7. Built'
  BY <1>1, <1>2, <1>3 DEF Built
<1>8. Exclusive' /\ RulesMatchTree' /\ Placed'
  BY <1>1, <1>2 DEF Exclusive, RulesMatchTree, Placed
<1>9. Clocked'
  BY <1>1, <1>2, <1>4 DEF Clocked
<1>10. "d" \notin MainModes => Mapped'
  BY <1>1, <1>2, <1>3 DEF Mapped, LinesMatchTree, FupHitsOwnClass, MapAsOldAsCounters
<1> QED
  BY <1>5, <1>6, <1>7, <1>8, <1>10, <1>9 DEF IInv

(* The hosts file is edited.                                               *)
LEMMA EditStep ==
  ASSUME IInv, Edit
  PROVE  IInv'
<1>1. /\ TypeOK /\ Placed /\ Clocked /\ Counted /\ Built /\ Exclusive /\ RulesMatchTree
      /\ "d" \notin MainModes => Mapped
  BY DEF IInv
<1>2. /\ UNCHANGED <<clock, rules, counter, since, tree, dump, classmap,
                     logged, main, keep, seen, faults>>
      /\ hosts' \in Hosts /\ edits' = edits + 1 /\ edits < MaxEdits
  BY DEF Edit, kernel, files
<1>3. Now' = Now /\ Dry' = Dry
  BY <1>2 DEF Now, Dry
<1>4. TypeOK'
  <2>1. edits' \in 0..MaxEdits
    BY <1>1, <1>2, RunsAssumption DEF TypeOK
  <2> QED
    BY <1>1, <1>2, <2>1 DEF TypeOK
<1>5. Counted'
  BY <1>1, <1>2, <1>3 DEF Counted, ReadWithin, Counters, Alone
<1>6. Built'
  BY <1>1, <1>2, <1>3 DEF Built
<1>7. Clocked' /\ Exclusive' /\ RulesMatchTree' /\ Placed'
  BY <1>1, <1>2 DEF Clocked, Exclusive, RulesMatchTree, Placed
<1>8. "d" \notin MainModes => Mapped'
  BY <1>1, <1>2, <1>3 DEF Mapped, LinesMatchTree, FupHitsOwnClass, MapAsOldAsCounters
<1> QED
  BY <1>4, <1>5, <1>6, <1>7, <1>8 DEF IInv

(* Rules, counters and classes are of the running kernel only.             *)
LEMMA RebootStep ==
  ASSUME IInv, Reboot
  PROVE  IInv'
<1>1. /\ TypeOK /\ Placed /\ Clocked /\ Counted /\ Built /\ Exclusive /\ RulesMatchTree
      /\ "d" \notin MainModes => Mapped
  BY DEF IInv
<1>2. /\ UNCHANGED <<hosts, clock, since, dump, classmap, logged, seen, edits>>
      /\ rules' = {} /\ counter' = NoneCounted /\ tree' = {} /\ main' = Idle /\ keep' = Idle
      /\ faults' = faults + 1 /\ faults < MaxFaults
  BY DEF Reboot, files
<1>3. Now' = "idle" /\ main'.mode = "none" /\ keep'.mode = "none" /\ main'.reset = FALSE
  BY <1>2, IdleType DEF Now
<1>4. Placed'
  BY <1>2, <1>3, IdleType DEF Placed
<1>5. TypeOK'
  <2>1. faults' \in 0..MaxFaults /\ counter' \in [{4, 6} -> Nat]
    BY <1>1, <1>2, RunsAssumption DEF TypeOK, NoneCounted
  <2> QED
    BY <1>1, <1>2, <1>4, <2>1 DEF TypeOK, Placed
<1>6. Counted'
  BY <1>3 DEF Counted, ReadWithin, Ahead
<1>7. Built'
  BY <1>3 DEF Built, Ahead, Making
<1>8. Clocked' /\ Exclusive' /\ RulesMatchTree'
  BY <1>1, <1>2, <1>3 DEF Clocked, Exclusive, RulesMatchTree
<1>9. "d" \notin MainModes => Mapped'
  BY <1>1, <1>2, <1>3
     DEF Mapped, LinesMatchTree, FupHitsOwnClass, MapAsOldAsCounters, Changing
<1> QED
  BY <1>5, <1>6, <1>7, <1>8, <1>9, <1>4 DEF IInv

(* A new invocation is at its first step.                                  *)
LEMMA ProcessStarts ==
  ASSUME NEW mode \in MainModes \cup KeepModes
  PROVE  /\ Process(mode) \in ProcessType /\ Process(mode).mode = mode
         /\ Process(mode).pc = 1 /\ Process(mode).stat = 0
         /\ Process(mode).reset = FALSE /\ Process(mode).lines = {}
         /\ Process(mode).family = 4
<1>1. Process(mode) = [Idle EXCEPT !.mode = mode]
  BY DEF Process
<1> QED
  BY <1>1, IdleType DEF ProcessType

(* A shaping run starts: no changing run is there.                         *)
LEMMA StartMainStep ==
  ASSUME IInv, NEW mode \in MainModes, StartMain(mode)
  PROVE  IInv'
<1>1. /\ TypeOK /\ Placed /\ Clocked /\ Counted /\ Built /\ Exclusive /\ RulesMatchTree
      /\ "d" \notin MainModes => Mapped
  BY DEF IInv
<1>2. /\ UNCHANGED <<hosts, clock, rules, counter, since, tree, dump, classmap,
                     logged, keep, seen, faults, edits>>
      /\ main' = Process(mode) /\ main = Idle /\ keep.mode \in {"none", "p"}
  BY DEF StartMain, kernel, files
<1>3. /\ main' \in ProcessType /\ main'.mode = mode /\ main'.pc = 1 /\ main'.stat = 0
      /\ main'.reset = FALSE /\ main.reset = FALSE
  BY <1>2, ProcessStarts, IdleType
<1>4. /\ 1 \in 1..Len(MainSteps(mode))
      /\ MainSteps(mode)[1] = "truncate" \/ MainSteps(mode)[1] = "parse"
  <2>1. CASE mode \in Shapers
    BY <2>1, ShapingSteps
  <2>2. CASE mode = "f"
    BY <2>2, FlushSteps
  <2>3. CASE mode = "9"
    BY <2>3, EmergencySteps
  <2> QED
    BY <2>1, <2>2, <2>3, RunsAssumption DEF Shapers
<1>5. Placed'
  BY <1>1, <1>2, <1>3, <1>4 DEF Placed
<1>6. mode # "none"
  BY RunsAssumption
<1>7. Now' \in {"truncate", "parse"}
  BY <1>3, <1>4, <1>6 DEF Now
<1>8. TypeOK'
  BY <1>1, <1>2, <1>3, RunsAssumption DEF TypeOK
<1>9. Counted'
  <2>1. main'.stat = 0 /\ main'.reset = FALSE
    BY <1>2, <1>3
  <2>2. counter'[4] \in Nat /\ counter'[6] \in Nat
    BY <1>8 DEF TypeOK
  <2>3. ReadWithin'
    BY <1>7, <2>1, <2>2 DEF ReadWithin, Counters
  <2> QED
    BY <1>7, <2>1, <2>3 DEF Counted, Ahead
<1>10. Built'
  BY <1>7 DEF Built, Ahead, Making
<1>11. Clocked' /\ Exclusive' /\ RulesMatchTree'
  BY <1>1, <1>2 DEF Clocked, Exclusive, RulesMatchTree, Changing
<1>12. "d" \notin MainModes => Mapped'
  BY <1>1, <1>2, <1>7 DEF Mapped, LinesMatchTree, FupHitsOwnClass, MapAsOldAsCounters
<1> QED
  BY <1>8, <1>9, <1>10, <1>11, <1>12, <1>5 DEF IInv

(* The other invocation starts: no shaping run is there if it changes      *)
(* classes.                                                                *)
LEMMA StartKeepStep ==
  ASSUME IInv, NEW mode \in KeepModes, StartKeep(mode)
  PROVE  IInv'
<1>1. /\ TypeOK /\ Placed /\ Clocked /\ Counted /\ Built /\ Exclusive /\ RulesMatchTree
      /\ "d" \notin MainModes => Mapped
  BY DEF IInv
<1>2. /\ UNCHANGED <<hosts, clock, rules, counter, since, tree, dump, classmap,
                     logged, main, seen, faults, edits>>
      /\ keep' = Process(mode) /\ (mode = "p" \/ main = Idle) /\ faults' \in 0..MaxFaults
  BY <1>1 DEF StartKeep, kernel, files, TypeOK
<1>3. keep' \in ProcessType /\ keep'.mode = mode /\ keep'.pc = 1 /\ keep'.lines = {}
  BY <1>2, ProcessStarts
<1>4. 1 \in 1..Len(KeepSteps(mode))
  <2>1. CASE mode = "p"
    BY <2>1, PreviewSteps
  <2>2. CASE mode \in {"s", "q", "2"}
    BY <2>2, ChangingSteps
  <2> QED
    BY <2>1, <2>2, RunsAssumption
<1>5. Placed'
  BY <1>1, <1>2, <1>3, <1>4 DEF Placed
<1>6. keep'.mode \in Changing => main.mode = "none"
  BY <1>2, <1>3, IdleType DEF Changing
<1> QED
  BY <1>2, <1>3, <1>5, <1>6, DumpStays, KeepOnly

(* Nothing happens.                                                        *)
LEMMA StutterStep ==
  ASSUME IInv, UNCHANGED vars
  PROVE  IInv'
<1>1. /\ UNCHANGED <<hosts, clock, rules, counter, since, tree, dump, classmap,
                     logged, main, keep, seen, faults, edits>>
      /\ Placed
  BY DEF vars, IInv
<1>2. Placed'
  BY <1>1 DEF Placed
<1>3. faults' \in 0..MaxFaults
  BY <1>1 DEF IInv, TypeOK
<1> QED
  BY <1>1, <1>2, <1>3, DumpStays, KeepOnly DEF IInv, Exclusive, Mapped

(* A router that was never shaped.                                         *)
LEMMA InitIInv ==
  ASSUME Init
  PROVE  IInv
<1>1. /\ hosts \in Hosts /\ clock = 0 /\ rules = {} /\ counter = NoneCounted /\ since = 0 /\ tree = {}
      /\ dump = EmptyDump /\ classmap = NoMap /\ logged = 0 /\ main = Idle /\ keep = Idle
      /\ seen = 0 /\ faults = 0 /\ edits = 0
  BY DEF Init
<1>2. NoMap \in [there : BOOLEAN, lines : SUBSET (Addr \X Nat), time : 0..MaxClock]
  BY RunsAssumption DEF NoMap
<1>3. NoMap.lines = {} /\ NoMap.time = 0
  BY DEF NoMap
<1>4. TypeOK
  BY <1>1, <1>2, IdleType, RunsAssumption DEF TypeOK, NoneCounted, EmptyDump, Families
<1>5. Placed /\ Now = "idle" /\ main.mode = "none" /\ keep.mode = "none" /\ ~main.reset
  BY <1>1, IdleType DEF Placed, Now
<1>7. Counted
  BY <1>5 DEF Counted, ReadWithin, Ahead
<1>8. Clocked /\ Built /\ Exclusive /\ RulesMatchTree
  BY <1>1, <1>3, <1>5
     DEF Clocked, Built, Exclusive, RulesMatchTree, Ahead, Making, Changing
<1>9. Mapped
  BY <1>1, <1>3, <1>5
     DEF Mapped, LinesMatchTree, FupHitsOwnClass, MapAsOldAsCounters, Changing
<1> QED
  BY <1>4, <1>5, <1>7, <1>8, <1>9 DEF IInv

(* Every step keeps the invariant.                                         *)
LEMMA NextIInv ==
  ASSUME IInv, [Next]_vars
  PROVE  IInv'
<1>1. CASE Step
  <2>1. CASE Truncate \/ List \/ Read \/ Parse
    BY <2>1, TruncateStep, ListStep, ReadStep, ParseStep
  <2>2. CASE Flush \/ Qdisc \/ AppendLog \/ LogsDone
    BY <2>2, FlushStep, QdiscStep, AppendLogStep, LogsDoneStep
  <2>3. CASE OpenMap \/ (\E a \in Addr : AddClass(a)) \/ ClassesDone \/ Restore
    BY <2>3, OpenMapStep, AddClassStep, ClassesDoneStep, RestoreStep
  <2>4. CASE CheckAge \/ ChangeClass \/ ChangesDone \/ Exit
    BY <2>4, CheckAgeStep, ChangeClassStep, ChangesDoneStep, ExitStep
  <2> QED
    BY <1>1, <2>1, <2>2, <2>3, <2>4 DEF Step
<1>2. CASE Traffic \/ Tick \/ Edit \/ Crash \/ Reboot
  BY <1>2, TrafficStep, TickStep, EditStep, CrashStep, RebootStep
<1>3. CASE \E m \in MainModes : StartMain(m)
  BY <1>3, StartMainStep
<1>4. CASE \E m \in KeepModes : StartKeep(m)
  BY <1>4, StartKeepStep
<1>5. CASE UNCHANGED vars
  BY <1>5, StutterStep
<1> QED
  BY <1>1, <1>2, <1>3, <1>4, <1>5 DEF Next

(* The invariant of main(), for any addresses, editions and interruptions. *)
LEMMA Invariance == Spec => []IInv
<1>1. Init => IInv
  BY InitIInv
<1>2. IInv /\ [Next]_vars => IInv'
  BY NextIInv
<1> QED
  BY <1>1, <1>2, PTL DEF Spec

-----------------------------------------------------------------------------

(* Every variable keeps its type: prometheus.c, main().                    *)
THEOREM RunsTyped == Spec => []TypeOK
<1>1. IInv => TypeOK
  BY DEF IInv
<1> QED
  BY <1>1, Invariance, PTL

(* While packets are marked, the class of every mark is there and is that  *)
(* of the packet's address, wherever an invocation was interrupted         *)
(* (prometheus.c:761, 773, 1469).                                          *)
THEOREM MarksHaveClasses == Spec => []RulesMatchTree
<1>1. IInv => RulesMatchTree
  BY DEF IInv
<1> QED
  BY <1>1, Invariance, PTL

(* Without dry runs, -s, -q and -2 change the ceiling of the class of the  *)
(* address they mean, whatever was edited or killed since -r.              *)
THEOREM ChangesHitOwnClass ==
  ASSUME "d" \notin MainModes
  PROVE  Spec => []FupHitsOwnClass
<1>1. IInv => FupHitsOwnClass
  BY DEF IInv, Mapped
<1> QED
  BY <1>1, Invariance, PTL

(* Without dry runs, -s never divides by less time than the counters have  *)
(* counted.                                                                *)
THEOREM AgesNotUnderstated ==
  ASSUME "d" \notin MainModes
  PROVE  Spec => []MapAsOldAsCounters
<1>1. IInv => MapAsOldAsCounters
  BY DEF IInv, Mapped
<1> QED
  BY <1>1, Invariance, PTL

-----------------------------------------------------------------------------

(* What a step does to the units that were counted and are not booked.     *)
Same == Pending' = Pending /\ logged' = logged
Lost == Pending' \in 0..Pending /\ logged' = logged

(* A step that leaves the counters, what was read and the logs alone.      *)
LEMMA NothingBooked ==
  ASSUME counter' = counter, logged' = logged,
         main'.reset = main.reset, main'.stat = main.stat
  PROVE  Same
  BY DEF Same, Pending, Counters

(* Reading, building and changing classes books nothing and loses nothing. *)
LEMMA QuietSteps ==
  ASSUME IInv,
         \/ Truncate \/ List \/ Read \/ Parse \/ Qdisc \/ LogsDone \/ OpenMap
         \/ (\E a \in Addr : AddClass(a)) \/ ClassesDone
         \/ CheckAge \/ ChangeClass \/ ChangesDone
  PROVE  Same
<1>1. main \in ProcessType /\ Counted
  BY DEF IInv, Placed
<1>2. CASE Truncate \/ List \/ Parse \/ Qdisc \/ LogsDone \/ OpenMap \/ ClassesDone
  <2>1. counter' = counter /\ logged' = logged
    BY <1>2
       DEF Truncate, List, Parse, Qdisc, LogsDone, OpenMap, ClassesDone, kernel, files
  <2>2. \/ main' = main \/ main' = MainNext
        \/ main' = [MainNext EXCEPT !.hosts = hosts, !.left = Addr]
    BY <1>2 DEF Truncate, List, Parse, Qdisc, LogsDone, OpenMap, ClassesDone
  <2>3. main'.reset = main.reset /\ main'.stat = main.stat
    BY <1>1, <2>2 DEF MainNext, ProcessType
  <2> QED
    BY <2>1, <2>3, NothingBooked
<1>3. CASE Read
  <2>1. counter' = counter /\ logged' = logged
    BY <1>3 DEF Read, kernel, files
  <2>2. CASE main' = main
    BY <2>1, <2>2, NothingBooked
  <2>3. ASSUME MainAt("read"), NEW n \in Understood(main.family), main' = AfterRead(main, n)
        PROVE  Same
    <3>1. Now = "read"
      BY <2>3 DEF MainAt, Now
    <3>2. main.reset = FALSE
      BY <1>1, <3>1 DEF Counted, Ahead, ProcessType
    <3>3. main'.reset = FALSE
      BY <1>1, <2>3, <3>2 DEF AfterRead, ProcessType
    <3> QED
      BY <2>1, <3>2, <3>3 DEF Same, Pending, Counters
  <2> QED
    BY <1>3, <2>2, <2>3 DEF Read
<1>4. CASE \E a \in Addr : AddClass(a)
  <2>1. PICK a \in Addr : AddClass(a)
    BY <1>4
  <2>2. /\ counter' = counter /\ logged' = logged
        /\ main' = [main EXCEPT !.left = @ \ {a}]
    BY <2>1 DEF AddClass
  <2>3. main'.reset = main.reset /\ main'.stat = main.stat
    BY <1>1, <2>2 DEF ProcessType
  <2> QED
    BY <2>2, <2>3, NothingBooked
<1>5. CASE CheckAge \/ ChangeClass \/ ChangesDone
  <2>1. counter' = counter /\ logged' = logged /\ main' = main
    BY <1>5 DEF CheckAge, ChangeClass, ChangesDone, kernel, files
  <2> QED
    BY <2>1, NothingBooked
<1> QED
  BY <1>2, <1>3, <1>4, <1>5

(* Counters are reset, or an invocation ends with what it had read.        *)
LEMMA LosingSteps ==
  ASSUME IInv, Alone, Flush \/ Restore \/ Exit \/ Crash \/ Reboot
  PROVE  Lost
<1>1. /\ main \in ProcessType /\ Counted /\ main.stat \in Nat
      /\ Counters \in Nat /\ main.reset \in BOOLEAN
  BY DEF IInv, Placed, TypeOK, ProcessType, Counters
<1>2. Pending \in Nat /\ Counters <= Pending
  BY <1>1 DEF Pending
<1>3. counter' = NoneCounted => Counters' = 0
  BY DEF NoneCounted, Counters
<1>4. CASE Flush
  <2>1. Now = "flush" /\ main' = [MainNext EXCEPT !.reset = ~Dry] /\ logged' = logged
    BY <1>4 DEF Flush, MainAt, Now, files
  <2>2. main'.stat = main.stat /\ main'.reset = ~Dry
    BY <1>1, <2>1 DEF MainNext, ProcessType
  <2>3. main.reset = FALSE /\ main.stat <= Counters
    BY <1>1, <2>1 DEF Counted, Ahead, ReadWithin
  <2>4. CASE Dry
    <3>1. counter' = counter /\ main'.reset = FALSE
      BY <1>4, <2>2, <2>4 DEF Flush
    <3>2. Pending' = Pending
      BY <2>3, <3>1 DEF Pending, Counters
    <3> QED
      BY <1>2, <2>1, <3>2 DEF Lost
  <2>5. CASE ~Dry
    <3>1. Counters' = 0 /\ main'.reset = TRUE
      BY <1>3, <1>4, <2>2, <2>5 DEF Flush
    <3>2. Pending' = 0 + main.stat
      BY <2>2, <3>1 DEF Pending
    <3> QED
      BY <1>1, <1>2, <2>1, <2>3, <3>2 DEF Lost
  <2> QED
    BY <2>4, <2>5
<1>5. CASE Restore
  <2>1. /\ main' = MainNext /\ logged' = logged
        /\ counter' = counter \/ counter' = NoneCounted
    BY <1>5 DEF Restore, files
  <2>2. main'.stat = main.stat /\ main'.reset = main.reset
    BY <1>1, <2>1 DEF MainNext, ProcessType
  <2>3. CASE counter' = counter
    BY <1>2, <2>1, <2>2, <2>3, NothingBooked DEF Lost, Same
  <2>4. CASE counter' = NoneCounted
    <3>1. Pending' = 0 + (IF main.reset THEN main.stat ELSE 0)
      BY <1>3, <2>2, <2>4 DEF Pending
    <3> QED
      BY <1>1, <2>1, <3>1 DEF Lost, Pending
  <2> QED
    BY <2>1, <2>3, <2>4
<1>6. CASE Exit \/ Crash
  <2>1. counter' = counter /\ logged' = logged /\ (main' = main \/ main' = Idle)
    BY <1>6 DEF Exit, Crash, kernel, files
  <2>2. CASE main' = main
    BY <1>2, <2>1, <2>2, NothingBooked DEF Lost, Same
  <2>3. CASE main' = Idle
    <3>1. Pending' = Counters + 0
      BY <2>1, <2>3, IdleType DEF Pending, Counters
    <3> QED
      BY <1>1, <1>2, <2>1, <3>1 DEF Lost
  <2> QED
    BY <2>1, <2>2, <2>3
<1>7. CASE Reboot
  <2>1. Counters' = 0 /\ main' = Idle /\ logged' = logged
    BY <1>3, <1>7 DEF Reboot, files
  <2>2. Pending' = 0 + 0
    BY <2>1, IdleType DEF Pending
  <2> QED
    BY <1>2, <2>1, <2>2 DEF Lost
<1> QED
  BY <1>4, <1>5, <1>6, <1>7

(* A unit is booked only from what is the run's own, so that it is counted *)
(* as pending no more.                                                     *)
LEMMA BookingStep ==
  ASSUME IInv, AppendLog
  PROVE  Pending > 0 /\ Pending' = Pending - 1 /\ logged' = logged + 1
<1>1. main \in ProcessType /\ Counted /\ Placed /\ main.stat \in Nat /\ Counters \in Nat
  BY DEF IInv, Placed, TypeOK, ProcessType, Counters
<1>2. /\ MainAt("logs") /\ ~Dry /\ main.stat > 0 /\ main' = [main EXCEPT !.stat = @ - 1]
      /\ Counters' = Counters /\ logged' = logged + 1
  BY <1>1, NoKeepLogs DEF AppendLog, kernel, Unbooked, Counters
<1>3. Now = "logs"
  BY <1>2 DEF MainAt, Now
<1>4. main.reset
  BY <1>1, <1>2, <1>3 DEF Counted, Ahead
<1>5. main'.reset = main.reset /\ main'.stat = main.stat - 1
  BY <1>1, <1>2 DEF ProcessType
<1>6. Pending = Counters + main.stat
  BY <1>4 DEF Pending
<1>7. Pending' = Counters + (main.stat - 1)
  BY <1>2, <1>4, <1>5 DEF Pending
<1> QED
  BY <1>1, <1>2, <1>6, <1>7

(* A packet is pending from when it is counted.                            *)
LEMMA CountingStep ==
  ASSUME IInv, Traffic
  PROVE  Pending' = Pending + 1 /\ logged' = logged
<1>1. counter \in [{4, 6} -> Nat] /\ main.stat \in Nat
  BY DEF IInv, TypeOK, ProcessType
<1>2. main' = main /\ logged' = logged
  BY DEF Traffic, files
<1>3. PICK family \in Families : counter' = [counter EXCEPT ![family] = @ + 1]
  BY DEF Traffic
<1>4. counter[4] \in Nat /\ counter[6] \in Nat
  BY <1>1
<1>5. Counters' = Counters + 1
  <2>1. CASE family = 6
    BY <1>1, <1>3, <1>4, <2>1 DEF Counters
  <2>2. CASE family = 4
    BY <1>1, <1>3, <1>4, <2>2 DEF Counters
  <2> QED
    BY <2>1, <2>2 DEF Families
<1>6. Counters \in Nat
  BY <1>4 DEF Counters
<1>7. CASE main.reset
  BY <1>1, <1>2, <1>5, <1>6, <1>7 DEF Pending
<1>8. CASE ~main.reset
  BY <1>2, <1>5, <1>6, <1>8 DEF Pending
<1> QED
  BY <1>2, <1>7, <1>8

(* An invocation starts with nothing read.                                 *)
LEMMA StartingSteps ==
  ASSUME \/ \E m \in MainModes : StartMain(m)
         \/ \E m \in KeepModes : StartKeep(m)
         \/ Tick \/ Edit \/ UNCHANGED vars
  PROVE  Same
<1>1. CASE \E m \in MainModes : StartMain(m)
  <2>1. PICK m \in MainModes : StartMain(m)
    BY <1>1
  <2>2. main = Idle /\ main' = Process(m) /\ counter' = counter /\ logged' = logged
    BY <2>1 DEF StartMain, kernel, files
  <2> QED
    BY <2>2, IdleType, ProcessStarts, NothingBooked
<1>2. CASE (\E m \in KeepModes : StartKeep(m)) \/ Tick \/ Edit \/ UNCHANGED vars
  <2>1. main' = main /\ counter' = counter /\ logged' = logged
    BY <1>2 DEF StartKeep, Tick, Edit, vars, kernel, files
  <2> QED
    BY <2>1, NothingBooked
<1> QED
  BY <1>1, <1>2

(* Every unit the kernel counted is booked once or lost, and none is       *)
(* booked that was not counted, with runs killed and the router rebooted   *)
(* at any step: the counters are reset before what was read is appended to *)
(* the logs (prometheus.c:761, 1006).  This is so if no preview runs on a  *)
(* router that lists IPv6 counters after those of IPv4 (prometheus.c:607). *)
THEOREM CountedOnce ==
  ASSUME Alone
  PROVE  Spec => BooksSpec
<1>1. Init => Books!Init
  BY IdleType DEF Init, Books!Init, Counters, NoneCounted
<1>2. IInv /\ [Next]_vars
        => [Books!Next]_<<Counters + (IF main.reset THEN main.stat ELSE 0), logged>>
  <2>1. SUFFICES ASSUME IInv, [Next]_vars
                 PROVE  [Books!Next]_<<Pending, logged>>
    BY DEF Pending
  <2>2. CASE Same
    BY <2>2 DEF Same
  <2>3. CASE Lost
    BY <2>3 DEF Lost, Books!Next, Books!Lose, Pending
  <2>4. CASE AppendLog
    BY <2>1, <2>4, BookingStep DEF Books!Next, Books!Book, Pending
  <2>5. CASE Traffic
    BY <2>1, <2>5, CountingStep DEF Books!Next, Books!Count, Pending
  <2> QED
    BY <2>1, <2>2, <2>3, <2>4, <2>5, QuietSteps, LosingSteps, StartingSteps
       DEF Next, Step
<1> QED
  BY <1>1, <1>2, Invariance, PTL DEF Spec, BooksSpec, Books!Spec
=============================================================================
