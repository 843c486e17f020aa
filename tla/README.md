# Prometheus QoS in TLA+

Prometheus QoS turns a hosts file into the traffic shaping of a router: one HTB
class per customer (`tc`), and the `iptables` rules that mark his packets for
it. It is run once a day to shape (`-r`, "daily usage" in help.c), at boot (`-n`,
conf/prometheus.init), every hour to look at the counters (`-p`,
conf/prometheus.cron), and by the operator to limit who uses too much (`-s`, `-q`,
`-2`, `-4`). This directory holds TLA+ models of the program, the TLC runs that
check them and TLAPS proofs of the same properties for every value of the
constants.

`PROJECT.json` lists components, runs, seeded faults, the source lines behind
every definition, findings, hazards and theorems.

## 1. The system

| Component | State it keeps | Operations | Where |
|---|---|---|---|
| hosts file | `ips`, `networks`, `groups`, `class_count` | one line: a class, a sharer, a network | parsehosts.c, networks.c |
| lists | every list of the program | push, if_exists, insert, sort | cll1-0.6.2.h |
| shared connections | traffic, mark, code, limit of each IP | one pass over the list | prometheus.c:678 |
| class tree | `tc` classes and filters, iptables marks, class map | loops over interfaces, groups, IPs | prometheus.c:982-1474 |
| index of chains | `idxs`, iptables chains | leaf indexes, larger subnets, sorting, writing | prometheus.c:831-968, ipv4subnets.c, ipv6subnets.c |
| invocations | rules, counters, classes, `iptablesdump`, class map, logs | the switches -r -n -f -9 -d -p -s -q -2 -4 | prometheus.c main() |
| traffic statistics | counters, four sums per IP | list, read, reset | parseiptables.c |
| fair use policy | ceilings of classes | -s, -q, -2, -4 | prometheus.c:1102-1241 |
| logs and pages | traffic logs, HTML, JSON | append, write | htmlandlogs.c, json.c |
| log summary | a list per month or year | -l, -m, -y | parselogs.c |
| configuration | keywords, interfaces, file names | read once | prometheus.c:214-578 |

They interact as one sequence in `main()`: the counters are read, the hosts file
is parsed into the same list, shared connections are resolved, the rules and
classes are removed, the logs written, then index, classes and rules are made
again. There are no threads. What makes it hard is

* that the kernel, four files and two invocations share state without a lock,
  and that an invocation may be killed between any two steps (`Runs`);
* that later loops rely on what earlier loops left in lists, in loop variables
  (`parent`, `limit_pkts`, `rate`) and in their order (`Hosts`, `HtbTree`,
  `Traffic`, `IndexTree`);
* that nobody looks at what `tc` and `iptables-restore` answer.

## 2. The modules

`Cll1` has the list macros. A C list is a sequence from its head, a sort key is
an operator `Exp(old, new)`. `Sort` empties the list and inserts its elements one by
one, behind those it ties with, so that a second sort keeps the order of the first;
`IndexTree` depends on it.

`Hosts` is `parse_hosts`. One action per kind of line: `SharingLine`,
`NetworkLine`, `ClassLine`. A line is a record of what the `strstr` tests make
of its text. The IPv6 parts of a line (a range `xxxx::`, an uplink `xxxx::+`)
create IPs of their own (`WithParts`). They are pushed after the caller has passed
the head of the list in which the address of the line is then looked up
(`Named`, `ParseAndAppendIp`), and an IP that is made while both lists are empty
becomes a network (`Stray`); section 5 says what comes of both. `Init` starts from
the list get_traffic_statistics left. `ips` and `nets` are kept in order of creation; the C
list is read from the end.

`HtbTree` is the part of `main()` that makes the class tree: `RootClasses`,
`GroupClass`, `GroupsDone`, `SkipIp`, `IpClass`, `IpsDone`, `FreeClass`, `Restore`,
one step per turn of a loop, with the loop variables that survive it as
variables. `Known`, `Accepts`, `HtbClass`, `Destination` and the like are the
kernel's: HTB refuses an id in use and a ninth level, makes a root class of one
whose parent does not exist, and lets a packet that no filter leads to a leaf
pass unshaped. `Config` is what earlier passes can have left. `GoodLists` assumes of it
only what `Hosts` gives out: groups sorted, with ids of their own, and for an
address with a mark and a rate a group that guarantees it (`GroupsSorted`,
`ClassIdsDistinct`, `GroupFits`). It assumes nothing of the sharing pass, of free-min or
of the speeds: a mark may be that of several addresses or of none with a rate, an
address with a rate may have no mark (0.0.0.0/0), and an interface may be slower
than a guarantee.

`Traffic` composes what happens to the counters in one run: `Count` is
get_traffic_statistics, a line of a listing at a time (`Start`, `Chain`, `Rule`);
`Describe` is parse_hosts, as far as it names IPs; `Resolving` is a step of
`Sharing`, which it extends; then `Sorting` (or `SortNothing`, the end of a run
without an IP), `WriteJson`, one `Row` per turn of write_htmlandlogs with the
records it appends to the traffic logs, and `PageDone` with the rows of the ERP
table that are found by a search.

`Sharing` is the pass that resolves `sharing-NAME` (`Own`, `Resolve`,
`Unresolved`). It declares the IP that `Traffic` uses, and has no run of its own:
the lists it is given are those that `Traffic` makes.

`IndexTree` is the index of chains over IPv4 and IPv6 addresses: `Leaf` makes the
/29 or /61 of an address, `NextLevel` and `Group` larger subnets, `Sorting` and
`Write` the file. `index_id` and `subnet_id` do to octets or groups what
`very_ugly_ipv4_code` and `very_ugly_ipv6_code` do to text.

`FairUse` is the loop over the class map (prometheus.c:1102-1241), as one step per
invocation, between any sequence of packets, seconds and new runs of `-r`. It
holds the rate and the ceiling of every customer's class, downstream and
upstream. `Judged` is the aggregation, `NewMax` the new ceiling, `Upload` the
asymmetry, `Changed` what tc takes of it.

`Summary` is `parse_ip_log` (`-l`, `-m`, `-y`): `Open`, `Read`, `EmptyLine`, `Close` for
each log, with the variables that are and are not reset between logs, then
`WriteRow` and `Table` for the page. A division by zero ends the run (`dead`).

`Runs` has the whole program as lists of steps, `MainSteps` and `KeepSteps`, which
the switches select, and one action per step. A shaping invocation and one that
keeps the statistics interleave. The environment counts packets, lets time pass,
edits the hosts file, kills processes and reboots the router. Traffic is counted
in units of which one append to a log books one. With an ip6-prefix (`Ip6`) each
invocation empties, writes and reads `iptablesdump` once for each family (`Truncate`,
`List`, `Read`, `AfterRead`); if another one has put the listing of the other family in
its place, any part of it may be booked (`Understood`).

`Ledger` is the abstract specification of the books: what is counted is booked
once or lost, and nothing else is booked. `Runs` implements it (`BooksSpec`): pending
is what the counters of both families hold, plus what a shaping run has read after
it has reset them.

`MCHosts`, `MCHtbTree`, `MCTraffic`, `MCIndexTree`, `MCFairUse`, `MCSummary` and `MCRuns`
hold the constants of the runs. `Cll1Proofs`, `HostsProofs`, `HtbTreeProofs`,
`TrafficProofs` (with those about `Sharing`), `IndexTreeProofs`, `FairUseProofs`,
`SummaryProofs` and `RunsProofs` hold the proofs. Operators whose name has a suffix
(`MaxOf_NoFloor`) are seeded faults: put in the place of the operator they are named
after, they break the property they are listed with.

## 3. The runs

| Run | Question | Bounds |
|---|---|---|
| hosts | do the lists keep what the tree relies on? | 4 lines out of 9, 3 counter lists, 2 ids for groups |
| htb_tree | is the tree accepted, nested, and does it catch every packet? | 3 interfaces, up to 6 groups, 5 lists for each number of them, nesting 0 to 4, divide 0 to 2 |
| runs | do rules, classes, class map and books stay consistent, and does a run shape whatever came before? | 2 addresses, 2 editions, 2 units, clock 2, 1 crash, 1 edition |
| traffic | does every MB reach the right IP, log, page and JSON entry, once? | 4 listings of up to 22 lines, 3 lines of hosts out of 9, both settings of two options |
| fairuse | do limits respect guarantees and usage, and end? | 2 customers, 6 plans, 4 MB in either direction, 4 ages |
| summary | does the page say what the logs say, and when does it die? | 4 logs out of 9 |
| index_tree | does every packet find its chain, and is the file loadable? | every subset of 9 addresses, thresholds 1 and 4 |
| hosts_first, traffic_upload, runs_preview, htb_depth, runs_dry | the findings below | |

Why the bounds are enough. `hosts`: a fault takes a line that makes an entry, one
that changes it and one that meets both; four lines leave room for the group ids
to run into the address ids (two are left to the groups, 1024 in the code).
`htb_tree`: six groups are one more than the deepest accepted nesting with one group
beside it; on the second interface `parent` and `rate` are carried over, and it is
slower than the largest guarantee; on the third the tree of the second is one that
was carried over itself. `runs`: two marks that the two editions of the hosts file
give out the other way round are the worst an edition can do; a crash, a new run and
a statistics run fit within the clock; the crash may come at any step, after which
any switch may be used. It has the counters of one family, with previews at any
time; with two families `runs_preview` shows what a preview does, and that all is
well without one is proved. `traffic`: the long listing has a rule in every kind of
chain, twice for one address, and numbers of which no two sums are alike, so that
a MB in the wrong place shows; three lines of hosts are a customer, one who shares
with him and one more, in any order. `MB = 4` bytes and `Top = 2` rows stand for
2^20 and 10. `fairuse`: averages of 0 to 32 Mbit/s against a share of 4 make
divisors of 1 to 8; the proofs need no bound. `summary`: two logs show what is not
reset, two more what follows; `GB = 4` and `Top = 2` stand for 1024 and 10.
`index_tree`: the nine addresses part in each octet, within a /29 and outside of it,
and in the third and fourth group of IPv6; together they make the index go through
every level down to /8 and /40.

Fairness. Only `ShapesAnew` of `runs` needs it: a shaping process that was started
takes its next step (`WF_vars(Step /\ main' # main)`: the scheduler runs it). Nothing
is assumed of who starts it or when, nor of the statistics run beside it, nor of
the environment: the crontab in conf/ does not start `-r` (its nightly line calls
prometheus without a switch, which prints the help, prometheus.c:587), and that a
router is shaped again after a crash is up to who runs it. The property says that a
run which meets no crash of its own ends with the rules and classes of the hosts
file it has read, whatever earlier ones left.

`CHECK_DEADLOCK FALSE` stands in every run of a program part that ends. `Runs` and
`FairUse` do not end; their runs check deadlock.

## 4. Properties

`Hosts`: `GroupsSorted`, `GroupFits`, `ClassIdsDistinct`, `GroupCoversMembers`,
`RateBelowCeil`, `OneEntryPerAddress`. What the later loops need of the lists, for any
sequence of lines, with addresses and ranges that come twice; a rate of 0 is
possible with a free-min of 0 only, a second entry of an address only by an uplink
or a line that is its own range.

`HtbTree`: `GroupKeepsItsRate` and `RatesNest` (no promise is made below a class that
the class cannot keep, where the line carries the largest guarantee; on a slower
line what the floors leave), `LineShared` (one class limits the interface although
`parent` leaks from one interface to the next), `ClassesAccepted` (all but a second
class of a mark), `Shaped` (every packet within its limit ends in the leaf of its
mark, or past HTB if no address with the mark has a rate), `ClassmapBacked`.

`Runs`: `RulesMatchTree` (rules never mark for a class that is not that address's),
`FupHitsOwnClass`, `MapAsOldAsCounters`, `BooksSpec` (no unit is booked twice; with two
families as long as no preview is run), `ShapesAnew`.

`Traffic`: `CounterIsSum` (an address is charged with its downloads and uploads over
all of its rules, and no index chain's; with include_upload its total is both),
`Resolved` and `TrafficConserved` of `Sharing`
(the result as one equation per IP, whatever the order; no step loses traffic,
chains of sharers included), `BooksBalance` (logs and page hold what was counted,
with popups and without), `HeaviestFirst` (the table names the fewest customers
that make a share of the traffic), `JsonByCustomer`.

`IndexTree`: `WellLinked`, `Routed`, `Loadable`, `FewAtTheTop`.

`FairUse`: `CeilCoversRate`, `HeavierNotFaster`, `LimitsEnd`.

`Summary`: `MonthTotals`, `OnePeriod` (all averages are over the first log's time),
`SumsOfHeaviest` (the sums that the table searches), `DiesOfNothing` (there are two ways
to divide by zero, no more).

Some of them say what the code does where one would expect another thing, and no
text of the repository says which it should be:

* the averages of a page are over the period of the log which is listed first;
* `-q` gives the "-MAX" of the line, not the ceiling that `-r` had made of it with
  malus and bonus; a line without "-MAX" is never limited by `-s`, while `-2` and `-4`
  halve its rate; an average between the share and half as much again leaves a
  limit as it is (the premises `Priced` and `AsOne`);
* the totals of downloads and of uploads at the foot of the page lack those of
  IPs that share when popups are on: they have no row.

## 5. Findings

* **hosts_first.** A hosts line "sets HTB rate" for its address
  (conf/prometheus.conf:26-27): the first address of a file that is read without
  counters becomes a network and has no class, as both list heads are NULL
  (parsehosts.c:180). In the hosts file in conf/ that is mypc.
* **traffic_upload.** "is data counter sum of upload and download ? 1=yes|0=no"
  (conf/prometheus.conf:84, 87): with 0 it is the sum too, as uploads are listed
  before downloads (parseiptables.c:203).
* **runs_preview.** A preview "just" previews (prometheus.1:41): with IPv6 its listing
  can take the place of the one a shaping run is about to read, which then books
  IPv6 traffic twice (parseiptables.c:28).
* **htb_depth.** The default `max_nesting = 5` (prometheus.c:120) lets a sixth group's
  addresses fall off HTB's eight levels; a limit of 4 is right.
* **runs_dry.** A dry run, "preview" by help.c:11, rewrites the class map.

Five more places where a text and the code disagree came up in the modelling. No
run is kept for them; the modules follow the code, and each property says so where
it meets one:

* "allocated range must be unique" (parsehosts.c:140): a line whose address is the
  range it creates makes two entries, as the address is looked up from the head
  before the range was pushed (parsehosts.c:177; `OneEntryPerAddress` leaves such an
  address out).
* "Top 10 downloaders" (parselogs.c:245) are nine: the rank is kept after it was
  incremented (parselogs.c:210). `SumsOfHeaviest` is about the sums, not the ten.
* "upload is limited to 50% of the rate of download" (conf/prometheus.conf:63) is not
  so after `-r`: the asymmetry is applied only by the switches that change a class
  (prometheus.c:1372, 1216). `CeilCoversRate` compares a class with itself only.
* "classify overlimit packets to separate overlimit class" (prometheus.c:1351): no
  filter leads to that class with filter-type mark, and whether it exists depends on
  the last address only (prometheus.c:1458). `Shaped` is about packets within limits.
* "indexing iptables rules to improve performance" (prometheus.c:836): with addresses
  of more class A networks than the second threshold the index goes on from /8 to
  /5, for which it writes a subnet of five octets (prometheus.c:877,
  ipv4subnets.c:42), and iptables-restore refuses the file. `Loadable` is checked
  within the threshold (`FewNetworks` in the proofs).

## 6. The proofs

Every invariant that a passing run checks, and the refinement of `Ledger`, is a
theorem as well; `PROJECT.json` lists them. The run shows the property on a small
instance, the theorem for every value of the constants that the module's named
`ASSUME`s allow. Each proof module states one inductive invariant, proves that
`Init` and every action give it (one lemma per action), and draws the properties
from it.

### The library: `Cll1Proofs`

Sums, sorted lists and selections are folds of the community modules: `CHOOSE` of a
function that satisfies a recursion. No induction theorem with an operator as a
parameter can be used, so the lemmas here argue by the smallest counterexample in
a set of naturals (`LeastNatural`) or by `NatInSet` and `SubsetInduction`, whose
parameter is a set. From them follow that the recursion has one solution
(`SolutionExists`, `SolutionUnique`, `FoldSolutionExists`), how a sum changes with one
term (`SumAdd`, `SumOneChanged`, `SumMoved`), with its order (`SumRenamed`) and with
heavier terms (`SumSmaller`), that `sort` gives a permutation in order
(`SortProperties`), `insert` keeps one (`InsertInOrder`), and `for_selected` gives what
satisfies the condition, once (`SelectedProperties`).

### `HostsProofs`

For every hosts file, keyword list and set of constants in `HostsAssumption`. The
invariant adds to the type invariant and the six properties what they need to be
inductive: every mark lies between `FIRSTIPCLASS + 1` and `FIRSTIPCLASS + class_count`,
every group id between `FIRSTGROUPID` and `groupidx - 1`, every group has at least
`MinGroup`, and no addresses repeat but uplinks and those that are their own range.
`GrownInvariant` covers the two actions that only add entries without a mark.
`GroupsCoverMembers` takes the sum over the members as it changes when a line makes a
member, moves him to another group or raises what he is guaranteed.

### `HtbTreeProofs`

For every configuration in `HtbAssumption`, any number and speed of interfaces and
any nesting limit. `IInv` says of the loop over the groups that `rate` is between the
minimum of the next group and the speed of the interface, or, on an interface that
is slower than the largest guarantee, the speed for the first group and at most that
guarantee for the others (`RateBetween`), and that `parent` is 1 or a group. From it follow `TypeOK`,
`GroupKeepsItsRate` and `RatesNest`.

`TInv` is about the whole tree: `Complete` (in every turn an interface has exactly
the classes of the turns before, and none was refused but for a mark that has one),
`Parents` (what `parent` names when a loop begins again on the next interface), `Placed`
(how deep a class can be and what it hangs under), `AllServed` (rules of each address
already visited, and a class and a filter if it has a rate: the class is that of the
first address with its mark and a rate) and `MarksMeant`. It gives `ClassesAccepted`,
`ClassmapBacked`, `LineShared` and `Shaped` under the hypothesis `LevelsSuffice`,
`nesting + 4 <= MaxDepth`: two roots, the nested groups, one beside the last of them
and an address. The default configuration does not satisfy it, which is finding
`htb_depth`.

A mark without an address that has a rate leads to no class, so that its packets
pass HTB unshaped: `Shaped` says so, and it happens with a free-min of 0.

### `TrafficProofs`

`IInv` has the types, the state of the pass (`Pass`: before `pos` the list has what
its equations say, from `pos` on what was given) and the conservation of its sum;
`Before` keeps the pass away from the earlier loops. `TypeCorrect`, `SharesResolved`
and `TrafficIsConserved` follow. Further invariants, each proved with the ones before
it, go with one loop each:

* `Counting`: after k lines of a listing an IP has the sum over those lines of the
  rules that mark its address, in the direction of the chain they stand in, for
  listings in any order. Without include_upload the total depends on that order
  (finding `traffic_upload`) and nothing is proved of it but its type.
* `Written`: the sorted list is the sort of the list, and the JSON file the selection
  from it. A selection of a permutation adds up to what the list does
  (`SumOverSelected`, `SumOverReordered`), as what is left out has no downloads.
* `Paged`: the totals, the active classes and the n-th sum of the page are those of
  the rows written. In a sorted list no choice of n rows weighs more than the first.
* `Seen`, `Logbook`: without counters nothing has traffic and nothing is logged;
  otherwise the records add up to the rows, and an IP that shares is logged in its
  owner's row.
* `Tabled`: the ERP table has the rows that the searches find.

`Resolved` assumes, as the code does, that sharers name an owner who shares with
nobody (`Direct`); the conservation of the sum assumes nothing.

### `IndexTreeProofs`

For any addresses and thresholds in `IndexAssumption`, which has one conjunct for the
program's `NULL`: it is the id of no index. `Linked`: an id stands for one index, of
its address, under the index of its larger subnet, and `idxcount` counts those
without a parent. `Indexed`: every address visited has its /29 or /61. `Grouped`: what
has no parent yet is of this level, or of the level before and still to be
visited. `Filed`: the list that is written is sorted by length of prefix, and the
file has the three lines of each index written.

`TypeCorrect`, `LinksAreGood` and `TopIsSmall` hold without a condition. `FileIsLoadable`
and `PacketsAreRouted` have the hypothesis `FewNetworks`: the addresses lie in no more
networks of /8 and /40 than the second threshold lets pass. Without it the loop
goes on to /5 (section 5); with it the mask never falls below 8 (`NeverBelowEight`).

### `FairUseProofs`

All three properties for every price list in `FairUseAssumption`, any customers, loads
and ages. `IInv` has the types of all classes (tc refuses what would break them) and
one conjunct beside the properties: when the asymmetry leaves no rate for uploads,
tc has refused every change and the upstream classes are still those of `-r`. The
argument is one of order: divisions are monotone in the dividend and
antitone in the divisor (`DivMonotone`, `DivAntitone`), so `Upload` keeps the order of
rate and ceiling, and a higher average makes a larger divisor and a lower ceiling.

### `SummaryProofs`

For any directory in `SummaryAssumption`: the records of a log have times that do not
fall, are not 0 and lie before now. `Counted`: within a log, `accept_month` and
`traffic_month` are those of the records read. `Timed`: the two times that are never
reset are 0 until the first record of the month of the first log that has one, and
its beginning and end (`StartTime`, `EndTime`) from its last line on, whatever the
later logs hold. `Listed`: one row for each log that was closed, in falling order,
with the sum of its month and an average over the one period. `Ranking`: rows with
traffic come first, and each has as its sum that of the rows down to it.
`DiesOfNothing` is part of the invariant: the division in `Close` is by
`EndTime - StartTime`, that in `Table` by a total whose terms are then all 0.

### `RunsProofs`

The four invariants of `Runs` and that it implements `Ledger`, for any addresses,
hosts files, switches and number of faults, from `RunsAssumption` (an edition gives
no mark twice). Places in `main()` are named by the step that is next (`Now`); the
lists of steps are read off once, in `Follows` and `KeepFollows`. The invariant has a
part for each hazard of the order of steps. `Counted`: what a run has read is at
most what the counters of the families it has listed hold until it resets them, and
its own only after; the file has no more than the family it is of has counted;
hence `CountedOnce`, under the hypothesis `Alone`: with two families no previews are
run, so that the listing a shaping run reads is its own. Without it run
`runs_preview` refutes the statement. `Built`: rules are gone while classes are, and
the classes of the addresses already visited are there under the marks of the hosts
file that was read; hence `MarksHaveClasses`. `Mapped`: no line of the class map is for a class of
another address, and lines a changing run still holds are lines of the file; hence
`ChangesHitOwnClass` and `AgesNotUnderstated`. These two assume that `-d` is never used,
without which run `runs_dry` refutes the first, and all rest on the guards of
`StartMain` and `StartKeep`: shaping and changing runs do not overlap.

### Model-checked only

`ShapesAnew`, because liveness under fairness is beyond the prover. The findings,
which are refutations. That the lists of `Hosts` satisfy `GoodLists`: the conjuncts
are theorems of `HostsProofs`, but no theorem composes the modules.

## 7. Not modelled

Configuration parsing, QoS free zones, credit file (nothing acts on it), help,
`analyse_topology` (never called), the scripts in optional-tools, packaging: text in,
text out. Of the page, its layout, the table of bandwidth classes, the table of
protocols and the ERP.log line. Burst, priority, quantum and leaf discipline are
arguments that no property tells apart; `-s` divides `pps_limit` too, but writes no
rule after it. The common chains' rules at the end of an interface's chain are
not in `IndexTree`, and it has one interface: each gets the same jumps.

Addresses are values: that ip6tables prints them in their shortest form and the
hosts file may not, in which case parseiptables.c:161 finds no IP for a counter,
is not in `Traffic`; that very_ugly_ipv6_code rounds an unread number when fewer
than four groups stand before the "::" is not in `IndexTree`. The address an IPv6
uplink is given is the fact that it was given one (`prefixes`).

A shaping invocation never overlaps one that changes classes: nothing in the code
prevents it, whoever starts them has to.

## 8. Plan

1. Composition of `Hosts`, `Sharing` and `HtbTree`: the assumption `GoodLists` as one
   theorem about the lists that the first two leave.
2. Action properties of `Hosts` and `Runs` (which step may take a class away from an
   address, which may lower what was booked), with their proofs.
3. `HtbTree` with ids in their notation (decimal for tc's hexadecimal), over-limit
   marks, IPv6 filters.
