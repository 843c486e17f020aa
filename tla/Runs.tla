-------------------------------- MODULE Runs --------------------------------
(***************************************************************************)
(* The life of a router: invocations of prometheus, between reboots, over  *)
(* the rules and counters of iptables, the HTB classes and the files they  *)
(* share.  main() is one list of steps; the switches decide which of them  *)
(* an invocation takes.                                                    *)
(*                                                                         *)
(* Two invocations may run at once: a shaping one (-r -n -f -9 -d) and one *)
(* that keeps the statistics (-p -s -q -2 -4).  Those that change classes  *)
(* (all but -p) are not started during a shaping run, nor it during them:  *)
(* nothing in the code prevents it, whoever starts them has to.            *)
(*                                                                         *)
(* Statistics are counted in units, of which each append to a traffic log  *)
(* books one.  An address has a class of its own.                          *)
(***************************************************************************)
EXTENDS Integers, Sequences, FiniteSets

CONSTANTS
  Addr,          \* addresses
  Hosts,         \* editions of the hosts file
  MarkOf,        \* [Hosts -> [Addr -> mark]], what parse_hosts gives out
  Ip6,           \* is an ip6-prefix configured
  MainModes,     \* of {"r", "n", "f", "9", "d"}
  KeepModes,     \* of {"p", "s", "q", "2"}; "4" is "2" with another ratio
  MaxUnits,      \* bound on the units counted
  MaxClock,      \* bound on the clock
  MaxFaults,     \* bound on crashes and reboots
  MaxEdits       \* bound on editions of the hosts file

ASSUME RunsAssumption ==
  /\ MarkOf \in [Hosts -> [Addr -> Nat]]
  /\ \A h \in Hosts : \A a, b \in Addr : MarkOf[h][a] = MarkOf[h][b] => a = b
  /\ Ip6 \in BOOLEAN
  /\ MainModes \subseteq {"r", "n", "f", "9", "d"} /\ KeepModes \subseteq {"p", "s", "q", "2"}
  /\ MaxUnits \in Nat /\ MaxClock \in Nat /\ MaxFaults \in Nat /\ MaxEdits \in Nat

VARIABLES
  hosts,         \* the hosts file
  clock,
  rules,         \* <<address, mark>> of the iptables rules in force
  counter,       \* what they have counted, by family
  since,         \* when they started to count
  tree,          \* the leaf classes: mark, owner, who set the ceiling last
  dump,          \* iptablesdump: what was listed, and of which family
  classmap,      \* its lines and its mtime
  logged,        \* units in the traffic logs
  main, keep,    \* the two invocations
  seen, faults, edits     \* bounded counters

kernel == <<rules, counter, since, tree>>
files == <<dump, classmap, logged>>
vars == <<hosts, clock, rules, counter, since, tree, dump, classmap, logged,
          main, keep, seen, faults, edits>>

Families == IF Ip6 THEN {4, 6} ELSE {4}
NoneCounted == [family \in {4, 6} |-> 0]
Counters == counter[4] + counter[6]
EmptyDump == [family |-> 4, units |-> 0]
NoMap == [there |-> FALSE, lines |-> {}, time |-> 0]
Marks(h) == MarkOf[h]

(* A process: its switch, its place in main(), the family it lists, what   *)
(* it read of counters and hosts file, the addresses its loop has still to *)
(* visit, and whether it has reset the counters.                           *)
Idle == [mode |-> "none", pc |-> 1, family |-> 4, stat |-> 0, hosts |-> 0,
         left |-> {}, lines |-> {}, reset |-> FALSE]
Process(mode) == [Idle EXCEPT !.mode = mode]

-----------------------------------------------------------------------------

Reading == <<"truncate", "list", "read", "parse">>
Building == <<"open", "class", "restore", "exit">>

\* Seeded fault: the classes go while the rules still mark for them.
MainSteps_QdiscFirst(mode) ==
  Reading \o <<"qdisc", "flush", "logs">> \o Building

\* Seeded fault: the rules stay while their traffic is booked.
MainSteps_NoFlush(mode) == Reading \o <<"qdisc", "logs">> \o Building

\* Seeded fault: the class map is written last.
MainSteps_MapLast(mode) ==
  Reading \o <<"flush", "qdisc", "logs", "class", "restore", "open", "exit">>

\* Seeded fault: -r ends after the flush, as -f does.
MainSteps_FlushOnly(mode) == Reading \o <<"flush", "qdisc", "exit">>

(* main() without just_preview.  -9 leaves the counters unread, -f and -9  *)
(* end after the flush.                                                    *)
MainSteps(mode) ==
  CASE mode = "9" -> <<"parse", "flush", "qdisc", "exit">>
    [] mode = "f" -> Reading \o <<"flush", "qdisc", "exit">>
    [] OTHER      -> Reading \o <<"flush", "qdisc", "logs">> \o Building

\* Seeded fault: a preview appends to the logs.
KeepSteps_Logging(mode) == Reading \o <<"logs", "exit">>

(* main() with just_preview.                                               *)
KeepSteps(mode) ==
  IF mode = "p" THEN Reading \o <<"exit">>
                ELSE Reading \o <<"mtime", "change", "exit">>

MainAt(step) ==
  main.mode # "none" /\ MainSteps(main.mode)[main.pc] = step
KeepAt(step) ==
  keep.mode # "none" /\ KeepSteps(keep.mode)[keep.pc] = step

Dry == main.mode = "d"
MainNext == [main EXCEPT !.pc = @ + 1]
KeepNext == [keep EXCEPT !.pc = @ + 1]

-----------------------------------------------------------------------------

Init ==
  /\ hosts \in Hosts
  /\ clock = 0
  /\ rules = {} /\ counter = NoneCounted /\ since = 0 /\ tree = {}
  /\ dump = EmptyDump /\ classmap = NoMap /\ logged = 0
  /\ main = Idle /\ keep = Idle
  /\ seen = 0 /\ faults = 0 /\ edits = 0

StartMain(mode) ==
  /\ main = Idle /\ keep.mode \in {"none", "p"}
  /\ main' = Process(mode)
  /\ UNCHANGED <<hosts, clock, kernel, files, keep, seen, faults, edits>>

StartKeep(mode) ==
  /\ keep = Idle /\ (mode = "p" \/ main = Idle)
  /\ keep' = Process(mode)
  /\ UNCHANGED <<hosts, clock, kernel, files, main, seen, faults, edits>>

(* get_traffic_statistics: the shell empties iptablesdump, iptables writes *)
(* it, prometheus reads it.  Both processes use the same file, for both    *)
(* families.                                                               *)
Truncate ==
  /\ \/ MainAt("truncate") /\ main' = MainNext /\ UNCHANGED keep
     \/ KeepAt("truncate") /\ keep' = KeepNext /\ UNCHANGED main
  /\ dump' = EmptyDump
  /\ UNCHANGED <<hosts, clock, kernel, classmap, logged, seen, faults, edits>>

Listed(family) == [family |-> family, units |-> counter[family]]

List ==
  /\ \/ /\ MainAt("list") /\ main' = MainNext /\ UNCHANGED keep
        /\ dump' = Listed(main.family)
     \/ /\ KeepAt("list") /\ keep' = KeepNext /\ UNCHANGED main
        /\ dump' = Listed(keep.family)
  /\ UNCHANGED <<hosts, clock, kernel, classmap, logged, seen, faults, edits>>

(* The columns of the other family's listing are shifted: the address is   *)
(* found elsewhere in the line, or not at all.                             *)
Understood(family) == IF dump.family = family THEN {dump.units} ELSE 0..dump.units

(* Once read, the listing of IPv4 is followed by that of IPv6, if there is *)
(* a prefix for it.                                                        *)
AfterRead(process, units) ==
  [process EXCEPT !.stat = @ + units,
                  !.family = IF Ip6 THEN 6 ELSE 4,
                  !.pc = IF Ip6 /\ process.family = 4 THEN 1 ELSE @ + 1]

Read ==
  /\ \/ /\ MainAt("read") /\ UNCHANGED keep
        /\ \E n \in Understood(main.family) : main' = AfterRead(main, n)
     \/ /\ KeepAt("read") /\ UNCHANGED main
        /\ \E n \in Understood(keep.family) : keep' = AfterRead(keep, n)
  /\ UNCHANGED <<hosts, clock, kernel, files, seen, faults, edits>>

(* parse_hosts *)
Parse ==
  /\ \/ /\ MainAt("parse")
        /\ main' = [MainNext EXCEPT !.hosts = hosts, !.left = Addr]
        /\ UNCHANGED keep
     \/ /\ KeepAt("parse")
        /\ keep' = [KeepNext EXCEPT !.hosts = hosts]
        /\ UNCHANGED main
  /\ UNCHANGED <<hosts, clock, kernel, files, seen, faults, edits>>

(* run_iptables_restore with the bare preamble: no rule, no counter.  The  *)
(* two families are one step here and in Restore.                          *)
Flush ==
  /\ MainAt("flush")
  /\ main' = [MainNext EXCEPT !.reset = ~Dry]
  /\ IF Dry THEN UNCHANGED <<rules, counter>> ELSE rules' = {} /\ counter' = NoneCounted
  /\ UNCHANGED <<hosts, clock, since, tree, files, keep, seen, faults, edits>>

(* tc qdisc del, for every interface *)
Qdisc ==
  /\ MainAt("qdisc")
  /\ main' = MainNext
  /\ tree' = IF Dry THEN tree ELSE {}
  /\ UNCHANGED <<hosts, clock, rules, counter, since, files, keep, seen, faults, edits>>

\* Seeded fault: one log more than there are megabytes.
Unbooked_OneMore(process) == process.stat >= 0

Unbooked(process) == process.stat > 0

(* write_htmlandlogs, one append_log at a time; a dry run writes none.     *)
AppendLog ==
  /\ \/ /\ MainAt("logs") /\ ~Dry /\ Unbooked(main)
        /\ main' = [main EXCEPT !.stat = @ - 1]
        /\ UNCHANGED keep
     \/ /\ KeepAt("logs") /\ Unbooked(keep)
        /\ keep' = [keep EXCEPT !.stat = @ - 1]
        /\ UNCHANGED main
  /\ logged' = logged + 1
  /\ UNCHANGED <<hosts, clock, kernel, dump, classmap, seen, faults, edits>>

LogsDone ==
  /\ \/ MainAt("logs") /\ (Dry \/ main.stat = 0) /\ main' = MainNext /\ UNCHANGED keep
     \/ KeepAt("logs") /\ keep.stat = 0 /\ keep' = KeepNext /\ UNCHANGED main
  /\ UNCHANGED <<hosts, clock, kernel, files, seen, faults, edits>>

(* fopen(classmap, "w"), in a dry run too *)
OpenMap ==
  /\ MainAt("open")
  /\ main' = MainNext
  /\ classmap' = [there |-> TRUE, lines |-> {}, time |-> clock]
  /\ UNCHANGED <<hosts, clock, kernel, dump, logged, keep, seen, faults, edits>>

(* One address: tc class add, which a class of that number refuses, and a  *)
(* line of the class map, which stdio may hold back until fclose: a run    *)
(* that is killed here can leave fewer lines than the model does.          *)
AddClass(a) ==
  LET mark == Marks(main.hosts)[a] IN
  /\ MainAt("class") /\ a \in main.left
  /\ main' = [main EXCEPT !.left = @ \ {a}]
  /\ tree' = IF Dry \/ \E c \in tree : c.mark = mark THEN tree
             ELSE tree \cup {[mark |-> mark, owner |-> a, setBy |-> a]}
  /\ classmap' = [classmap EXCEPT !.lines = @ \cup {<<a, mark>>}, !.time = clock]
  /\ UNCHANGED <<hosts, clock, rules, counter, since, dump, logged, keep, seen, faults, edits>>

ClassesDone ==
  /\ MainAt("class") /\ main.left = {}
  /\ main' = MainNext
  /\ UNCHANGED <<hosts, clock, kernel, files, keep, seen, faults, edits>>

(* run_iptables_restore with the marks of all addresses.                   *)
Restore ==
  /\ MainAt("restore")
  /\ main' = MainNext
  /\ IF Dry THEN UNCHANGED <<rules, counter, since>>
     ELSE /\ rules' = {<<a, Marks(main.hosts)[a]>> : a \in Addr}
          /\ counter' = NoneCounted
          /\ since' = clock
  /\ UNCHANGED <<hosts, clock, tree, files, keep, seen, faults, edits>>

(* get_mtime ends the program when there is no class map.  A class map of  *)
(* this very second is divided by its age, zero, at its first line.        *)
CheckAge ==
  /\ KeepAt("mtime")
  /\ keep' = IF \/ ~classmap.there
                \/ clock = classmap.time /\ classmap.lines # {}
             THEN Idle
             ELSE [KeepNext EXCEPT !.lines = classmap.lines]
  /\ UNCHANGED <<hosts, clock, kernel, files, main, seen, faults, edits>>

\* Seeded fault: the mark is that of the hosts file as it is now.
ChangedMark_FromHosts(line) == Marks(keep.hosts)[line[1]]

(* ip->mark = atoi(ptr): the mark that was given out when the class was    *)
(* made, whatever the hosts file has become.                               *)
ChangedMark(line) == line[2]

(* A line of the class map: tc class change, of nothing if there is no     *)
(* such class.  -s changes only the addresses it finds limited.            *)
ChangeClass ==
  /\ KeepAt("change")
  /\ \E line \in keep.lines :
       /\ keep' = [keep EXCEPT !.lines = @ \ {line}]
       /\ \/ tree' = {[c EXCEPT !.setBy = IF c.mark = ChangedMark(line) THEN line[1] ELSE @]
                        : c \in tree}
          \/ keep.mode = "s" /\ UNCHANGED tree
  /\ UNCHANGED <<hosts, clock, rules, counter, since, files, main, seen, faults, edits>>

ChangesDone ==
  /\ KeepAt("change") /\ keep.lines = {}
  /\ keep' = KeepNext
  /\ UNCHANGED <<hosts, clock, kernel, files, main, seen, faults, edits>>

Exit ==
  /\ \/ MainAt("exit") /\ main' = Idle /\ UNCHANGED keep
     \/ KeepAt("exit") /\ keep' = Idle /\ UNCHANGED main
  /\ UNCHANGED <<hosts, clock, kernel, files, seen, faults, edits>>

-----------------------------------------------------------------------------

(* A packet that a rule counts.                                            *)
Traffic ==
  /\ rules # {} /\ seen < MaxUnits
  /\ \E family \in Families : counter' = [counter EXCEPT ![family] = @ + 1]
  /\ seen' = seen + 1
  /\ UNCHANGED <<hosts, clock, rules, since, tree, files, main, keep, faults, edits>>

Tick ==
  /\ clock < MaxClock
  /\ clock' = clock + 1
  /\ UNCHANGED <<hosts, kernel, files, main, keep, seen, faults, edits>>

Edit ==
  /\ edits < MaxEdits
  /\ hosts' \in Hosts \ {hosts}
  /\ edits' = edits + 1
  /\ UNCHANGED <<clock, kernel, files, main, keep, seen, faults>>

(* A process is killed, or leaves because it cannot open a file.           *)
Crash ==
  /\ faults < MaxFaults
  /\ \/ main # Idle /\ main' = Idle /\ UNCHANGED keep
     \/ keep # Idle /\ keep' = Idle /\ UNCHANGED main
  /\ faults' = faults + 1
  /\ UNCHANGED <<hosts, clock, kernel, files, seen, edits>>

Reboot ==
  /\ faults < MaxFaults
  /\ rules' = {} /\ counter' = NoneCounted /\ tree' = {}
  /\ main' = Idle /\ keep' = Idle
  /\ faults' = faults + 1
  /\ UNCHANGED <<hosts, clock, since, files, seen, edits>>

Step ==
  \/ Truncate \/ List \/ Read \/ Parse
  \/ Flush \/ Qdisc \/ AppendLog \/ LogsDone
  \/ OpenMap \/ (\E a \in Addr : AddClass(a)) \/ ClassesDone \/ Restore
  \/ CheckAge \/ ChangeClass \/ ChangesDone \/ Exit

Next ==
  \/ \E m \in MainModes : StartMain(m)
  \/ \E m \in KeepModes : StartKeep(m)
  \/ Step
  \/ Traffic \/ Tick \/ Edit \/ Crash \/ Reboot

Spec == Init /\ [][Next]_vars

(* A shaping run that was started goes on.                                 *)
FairSpec == Spec /\ WF_vars(Step /\ main' # main)

-----------------------------------------------------------------------------

ProcessType ==
  [mode : {"none"} \cup MainModes \cup KeepModes, pc : 1..11,
   family : Families, stat : Nat,
   hosts : {0} \cup Hosts, left : SUBSET Addr, lines : SUBSET (Addr \X Nat),
   reset : BOOLEAN]

(* Every variable keeps its type.                                          *)
TypeOK ==
  /\ hosts \in Hosts
  /\ clock \in 0..MaxClock /\ since \in 0..MaxClock
  /\ rules \subseteq Addr \X Nat
  /\ counter \in [{4, 6} -> Nat] /\ dump \in [family : Families, units : Nat]
  /\ logged \in Nat
  /\ tree \subseteq [mark : Nat, owner : Addr, setBy : Addr]
  /\ classmap \in [there : BOOLEAN, lines : SUBSET (Addr \X Nat), time : 0..MaxClock]
  /\ main \in ProcessType /\ keep \in ProcessType
  /\ seen \in 0..MaxUnits /\ faults \in 0..MaxFaults /\ edits \in 0..MaxEdits

(* While packets are marked, the class of every mark is there and is that  *)
(* of the packet's address, wherever a run was interrupted and whatever    *)
(* the hosts file was then: rules go before the classes and come after     *)
(* them (prometheus.c:761, 773, 1469).                                     *)
RulesMatchTree ==
  \A r \in rules : \E c \in tree : c.mark = r[2] /\ c.owner = r[1]

(* Nothing is booked twice, and nothing that was not counted: a run owns   *)
(* what it has read only once it has reset the counters.  This is so while *)
(* it lists Alone: with one family there is one listing whoever makes it,  *)
(* with two only a preview, -p, may put another in its place.              *)
Books == INSTANCE Ledger WITH
  pending <- Counters + (IF main.reset THEN main.stat ELSE 0), booked <- logged
Alone == Ip6 => "p" \notin KeepModes
BooksSpec == Books!Spec

(* "just generate preview of data transfer statistics and exit",           *)
(* prometheus.1:41 and help.c:13: with previews run between, no more is    *)
(* booked than was counted.                                                *)
PreviewHarmless == logged <= seen

(* A shaping run that is left alone shapes: at its end every address of    *)
(* its hosts file has its rule and its class, and nobody else has, whatever*)
(* flush, kill, reboot or edition of the hosts file came before it.        *)
Shaped ==
  /\ rules = {<<a, Marks(main.hosts)[a]>> : a \in Addr}
  /\ {<<c.owner, c.mark>> : c \in tree} = rules
ShapesAnew ==
  \A f \in 0..MaxFaults :
    (main.mode = "r" /\ faults = f) ~> (faults > f \/ (MainAt("exit") /\ Shaped))

(* A line of the class map changes the ceiling of its own address's class, *)
(* with hosts files edited and runs interrupted between -r and -s, -q, -2. *)
FupHitsOwnClass == \A c \in tree : c.setBy = c.owner

(* -s divides what was counted by the age of the class map: the class map  *)
(* is at least as old as the counters, so that no customer is charged with *)
(* a higher average than he had.                                           *)
MapAsOldAsCounters ==
  rules # {} => classmap.there /\ classmap.time <= since

(* "Dry run (preview tc and iptables commands on stdout)", help.c:11 and   *)
(* prometheus.1:26: what -s, -q, -2 do to the classes does not depend on   *)
(* dry runs that came before.                                              *)
DryRunHarmless == FupHitsOwnClass
=============================================================================
