------------------------------- MODULE Traffic -------------------------------
(***************************************************************************)
(* From the counters to the books of one run: get_traffic_statistics reads *)
(* what iptables lists, parse_hosts says whose the addresses are, shared   *)
(* connections are resolved (Sharing), the list is sorted, and             *)
(* write_json_traffic and write_htmlandlogs write it down, the latter in    *)
(* the traffic logs too, as the run is one that shapes.                    *)
(*                                                                         *)
(* A line of a listing is a record: where the listing of one of the two    *)
(* programs begins ("start"), the head of a chain, or a rule with its      *)
(* target, bytes, source and destination.  A line of the hosts file is     *)
(* what Hosts makes of it, reduced to the fields this module uses: `range' *)
(* (xxxx::) and `uplink' (xxxx::+) are its IPv6 parts.                     *)
(***************************************************************************)
EXTENDS Sharing, Cll1

CONSTANTS
  Listings,      \* iptables -L -v -x -n, then ip6tables
  HostsFiles,    \* sequences of HostsLine
  Config,        \* include_upload and use_jquery_popups of prometheus.conf
  NoAddr,        \* no such IPv6 part in the line
  V6,            \* the addresses with a colon
  Unregistered,  \* 0.0.0.0/0
  NoHost,        \* "(unregistered)"
  EmptyCode,     \* that of a line with "{}"
  MB,            \* 2^20
  Top            \* 10, of the ERP table

Chains == {"FORWARD", "forw", "forw_common", "POSTROUTING", "post", "post_common", "other"}
ListingLine ==
  [kind : {"start"}] \cup [kind : {"chain"}, chain : Chains]
  \cup [kind : {"rule"}, target : {"mark", "jump", "accept"}, bytes : Nat,
        src : Addr, dst : Addr]
HostsLine ==
  [kind : {"class", "sharing", "network"}, addr : Addr, name : Name,
   sharing : Name, mark : Nat, pps_limit : Nat, code : Code \cup {NoCode},
   range : Addr \cup {NoAddr}, uplink : Addr \cup {NoAddr}]

(* Whom the IPv6 parts of a line share with.                               *)
SharedBy(line) ==
  CASE line.kind = "class"   -> line.name
    [] line.kind = "sharing" -> line.sharing
    [] line.kind = "network" -> NoName

ASSUME TrafficAssumption ==
  /\ Addr \cup {NoHost} \subseteq Name
  /\ V6 \subseteq Addr /\ Unregistered \in Addr /\ NoAddr \notin Addr
  /\ EmptyCode \in Code
  /\ MB \in Nat \ {0} /\ Top \in Nat \ {0}
  /\ Listings \subseteq Seq(ListingLine) /\ HostsFiles \subseteq Seq(HostsLine)
  /\ Config \subseteq [include_upload : BOOLEAN, popups : BOOLEAN]
  \* an uplink ends with "::+", which nothing else does
  /\ \A h \in HostsFiles : \A i, j \in 1..Len(h) : h[i].uplink # NoAddr =>
       /\ h[i].uplink \notin {h[j].addr, h[j].name, h[j].range, SharedBy(h[j])}
       /\ \A l \in Listings : \A k \in 1..Len(l) :
            l[k].kind = "rule" => h[i].uplink \notin {l[k].src, l[k].dst}

VARIABLES
  config,
  phase,
  listing,       \* the listing
  at,            \* its next line, or that of the hosts file, or of the list
  downloadflag,
  detected,      \* traffic_detected
  hosts,         \* the hosts file
  sorted,        \* the list as sort leaves it
  logs,          \* what append_log has written
  page,          \* the sums of the hall of fame
  erp,           \* the rows of the table below it
  json

read_vars == <<config, listing, hosts>>
book_vars == <<sorted, logs, page, erp, json>>
vars == <<config, phase, listing, at, downloadflag, detected, hosts, sorted,
          logs, page, erp, json, sharing_vars>>

-----------------------------------------------------------------------------

(* TheIP, which push puts at the head of the list.                         *)
TheIP(a) ==
  [addr |-> a, name |-> IF a = Unregistered THEN NoHost ELSE a, sharing |-> NoName,
   code |-> NoCode, mark |-> 0, pps_limit |-> 0, v6 |-> a \in V6, uplink |-> FALSE,
   traffic |-> 0, direct |-> 0, upload |-> 0, traffic_down |-> 0, traffic_up |-> 0]

Known(a) == IfExists(list, LAMBDA e : e.addr = a)
FoundOrNew(a) == IF Known(a) = 0 THEN Push(TheIP(a), list) ELSE list
PlaceOf(a) == IF Known(a) = 0 THEN 1 ELSE Known(a)

(* traffic += (1<<19); traffic >>= 20;                                     *)
Rounded(bytes) == (bytes + MB \div 2) \div MB

Larger(a, b) == IF a > b THEN a ELSE b

\* Seeded fault: what was counted as upload first is forgotten.
Downloaded_Assigned(e, t) ==
  [e EXCEPT !.traffic = t, !.traffic_down = @ + t, !.direct = @ + t]

Downloaded(e, t) ==
  [e EXCEPT !.traffic = @ + t, !.traffic_down = @ + t, !.direct = @ + t]

Uploaded(e, t) ==
  [e EXCEPT !.upload = @ + t,
            !.traffic_up = @ + t,
            !.traffic = IF config.include_upload THEN @ + t
                        ELSE Larger(e.upload + t, e.traffic)]

Init ==
  /\ config \in Config /\ listing \in Listings /\ hosts = <<>>
  /\ phase = "count" /\ at = 1
  /\ downloadflag = FALSE /\ detected = FALSE
  /\ given = <<>> /\ list = <<>> /\ pos = 0
  /\ prefixes = {} /\ unresolved = {}
  /\ sorted = <<>> /\ logs = <<>>
  /\ page = [total_traffic |-> 1, total_direct |-> 0, total_upload |-> 0,
             active_classes |-> 0, sums |-> <<>>]
  /\ json = <<>> /\ erp = <<>>

Line == listing[at]

(* A listing begins with downloadflag = 0.                                 *)
Start ==
  /\ Line.kind = "start"
  /\ downloadflag' = FALSE
  /\ UNCHANGED <<detected, list>>

(* Other chains leave the flag as it is.                                   *)
FlagAfter(chain) ==
  CASE chain \in {"post", "post_common", "POSTROUTING"} -> TRUE
    [] chain \in {"forw", "forw_common", "FORWARD"}     -> FALSE
    [] OTHER                                            -> downloadflag

Chain ==
  /\ Line.kind = "chain"
  /\ downloadflag' = FlagAfter(Line.chain)
  /\ UNCHANGED <<detected, list>>

(* accept && traffic>0                                                     *)
Accepted(line) == line.target = "mark" /\ Rounded(line.bytes) > 0

Rule ==
  LET t == Rounded(Line.bytes)
      a == IF downloadflag THEN Line.dst ELSE Line.src
  IN
  /\ Line.kind = "rule"
  /\ IF Accepted(Line)
     THEN /\ detected' = TRUE
          /\ list' = [FoundOrNew(a) EXCEPT ![PlaceOf(a)] =
                        IF downloadflag THEN Downloaded(@, t) ELSE Uploaded(@, t)]
     ELSE UNCHANGED <<detected, list>>
  /\ UNCHANGED downloadflag

(* get_traffic_statistics, a line at a time                                *)
Count ==
  /\ phase = "count" /\ at <= Len(listing)
  /\ Start \/ Chain \/ Rule
  /\ at' = at + 1
  /\ UNCHANGED <<read_vars, phase, book_vars, given, pos, prefixes, unresolved>>

(* parse(hosts): what the file holds by now.                               *)
Counted ==
  /\ phase = "count" /\ at > Len(listing)
  /\ hosts' \in HostsFiles
  /\ phase' = "hosts" /\ at' = 1
  /\ UNCHANGED <<config, listing, downloadflag, detected, book_vars, sharing_vars>>

(* The entry of an IPv6 part of a line, whose class it shares.             *)
Part(e, a, line) ==
  [e EXCEPT !.name = a,
            !.sharing = IF SharedBy(line) = NoName THEN @ ELSE SharedBy(line),
            !.code = IF line.code = NoCode THEN @ ELSE line.code]

(* A range is looked for in the list, an uplink is always a new IP.        *)
WithRange(line) ==
  IF line.range = NoAddr THEN list
  ELSE [FoundOrNew(line.range) EXCEPT ![PlaceOf(line.range)] = Part(@, line.range, line)]

Uplink(a, line) == [Part(TheIP(a), a, line) EXCEPT !.uplink = TRUE]

WithParts(line) ==
  IF line.uplink = NoAddr THEN WithRange(line)
  ELSE Push(Uplink(line.uplink, line), WithRange(line))

(* What parse_hosts makes of the entry: the counters of the address stay.  *)
Described(e, line) ==
  [e EXCEPT !.name = line.name,
            !.sharing = IF line.kind = "class" THEN @ ELSE line.sharing,
            !.code = IF line.code = NoCode THEN @ ELSE line.code,
            !.mark = IF line.kind = "class" THEN line.mark ELSE @,
            !.pps_limit = IF line.kind = "class" THEN line.pps_limit ELSE @]

(* The address itself is looked for in the list without the parts of the   *)
(* line, which stand in front of that one.                                 *)
WithAddr(line) ==
  LET moved == Len(WithParts(line)) - Len(list) IN
  IF Known(line.addr) = 0 THEN Push(Described(TheIP(line.addr), line), WithParts(line))
  ELSE [WithParts(line) EXCEPT ![Known(line.addr) + moved] = Described(@, line)]

(* As long as there is neither an IP nor a network, an IP becomes a        *)
(* network.                                                                *)
Stray == list = <<>> /\ at = 1

(* parse_hosts, a line at a time                                           *)
Describe ==
  LET line == hosts[at] IN
  /\ phase = "hosts" /\ at <= Len(hosts)
  /\ list' = IF line.kind = "network" \/ Stray THEN WithParts(line) ELSE WithAddr(line)
  /\ at' = at + 1
  /\ UNCHANGED <<read_vars, phase, downloadflag, detected, book_vars, given, pos,
                 prefixes, unresolved>>

AllDescribed ==
  /\ phase = "hosts" /\ at > Len(hosts)
  /\ phase' = "share"
  /\ StartSharing
  /\ UNCHANGED <<read_vars, at, downloadflag, detected, book_vars, list, prefixes,
                 unresolved>>

Resolving ==
  /\ phase = "share" /\ Share
  /\ UNCHANGED <<read_vars, phase, at, downloadflag, detected, book_vars>>

\* Seeded fault: order_by instead of desc_order_by.
LessTraffic_Rising(b, a) == b.traffic > a.traffic

(* sort(ip,ips,desc_order_by,traffic)                                      *)
LessTraffic(b, a) == b.traffic < a.traffic

Sorting ==
  /\ phase = "share" /\ Ended /\ list # <<>>
  /\ sorted' = Sort(list, LessTraffic)
  /\ phase' = "json"
  /\ UNCHANGED <<read_vars, at, downloadflag, detected, logs, page, erp, json, sharing_vars>>

(* The macro sort reads the element behind the head before it looks for    *)
(* one: a run without an IP ends here.                                     *)
SortNothing ==
  /\ phase = "share" /\ Ended /\ list = <<>>
  /\ phase' = "dead"
  /\ UNCHANGED <<read_vars, at, downloadflag, detected, book_vars, sharing_vars>>

\* Seeded fault: only an IP with a total is listed.
InJson_Total(ip) == ip.code # EmptyCode /\ ip.traffic > 0

(* A code has a first character unless the line holds "{}".                *)
InJson(ip) == ip.code # EmptyCode /\ (ip.traffic > 0 \/ ip.direct > 0 \/ ip.upload > 0)

WriteJson ==
  /\ phase = "json"
  /\ json' = Selected(sorted, InJson)
  /\ phase' = "page" /\ at' = 1
  /\ UNCHANGED <<read_vars, downloadflag, detected, sorted, logs, page, erp, sharing_vars>>

-----------------------------------------------------------------------------

(* append_log                                                              *)
Record(ip) ==
  [name |-> ip.name, traffic |-> ip.traffic, direct |-> ip.direct, upload |-> ip.upload]

SharersIn(l, ip) == Selected(l, LAMBDA e : e.sharing = ip.name)

\* Seeded fault: the log is of those that share only.
Logged_SharersOnly(ip) ==
  LET who == SharersIn(sorted, ip) IN [i \in 1..Len(who) |-> Record(who[i])]

Logged(ip) ==
  LET who == <<ip>> \o SharersIn(sorted, ip) IN [i \in 1..Len(who) |-> Record(who[i])]

(* !use_jquery_popups || !ip->sharing                                      *)
HasRow(ip) == ~config.popups \/ ip.sharing = NoName

(* A turn of the loop of write_htmlandlogs.                                *)
Row ==
  LET ip == sorted[at] IN
  /\ phase = "page" /\ at <= Len(sorted)
  /\ IF HasRow(ip)
     THEN /\ page' =
               [total_traffic  |-> page.total_traffic + ip.traffic,
                total_direct   |-> page.total_direct + ip.direct,
                total_upload   |-> page.total_upload + ip.upload,
                active_classes |-> page.active_classes + (IF ip.traffic > 0 THEN 1 ELSE 0),
                sums           |-> IF ip.traffic = 0 THEN page.sums
                                   ELSE Append(page.sums,
                                          [l |-> page.total_traffic + ip.traffic - 1,
                                           i |-> page.active_classes + 1])]
          /\ logs' = IF detected THEN logs \o Logged(ip) ELSE logs
     ELSE UNCHANGED <<page, logs>>
  /\ at' = at + 1
  /\ UNCHANGED <<read_vars, phase, downloadflag, detected, sorted, erp, json, sharing_vars>>

(* The first sum that has so many twentieths of the traffic, or of the     *)
(* downloaders, by division of integers.                                   *)
TrafficRow(share) ==
  SelectInSeq(page.sums, LAMBDA s : s.l >= (share * page.total_traffic) \div 20)
DownloadersRow(share) ==
  SelectInSeq(page.sums, LAMBDA s : s.i >= (share * (page.active_classes + 1)) \div 20)

(* "Enterprise Resource Planning", for more than ten active classes.       *)
PageDone ==
  /\ phase = "page" /\ at > Len(sorted)
  /\ phase' = "done"
  /\ erp' = IF page.active_classes > Top
            THEN [traffic     |-> [share \in {5, 10, 16} |-> TrafficRow(share)],
                  downloaders |-> [share \in {4, 5, 10, 16} |-> DownloadersRow(share)],
                  top         |-> SelectInSeq(page.sums, LAMBDA s : s.i = Top)]
            ELSE <<>>
  /\ UNCHANGED <<read_vars, at, downloadflag, detected, sorted, logs, page, json,
                 sharing_vars>>

Next ==
  \/ Count \/ Counted \/ Describe \/ AllDescribed
  \/ Resolving \/ Sorting \/ SortNothing \/ WriteJson
  \/ Row \/ PageDone

Spec == Init /\ [][Next]_vars

-----------------------------------------------------------------------------

Total(l, Field(_)) == SumFunction([i \in 1..Len(l) |-> Field(l[i])])
TrafficOf(e) == e.traffic

(* Every variable keeps its type: nothing that is subtracted or moved      *)
(* leaves a negative sum behind.                                           *)
TypeOK ==
  /\ config \in Config /\ listing \in Listings /\ hosts \in HostsFiles \cup {<<>>}
  /\ phase \in {"count", "hosts", "share", "json", "page", "done", "dead"}
  /\ at \in Nat /\ pos \in Nat
  /\ downloadflag \in BOOLEAN /\ detected \in BOOLEAN
  /\ \A l \in {given, list, sorted, json} : \A i \in 1..Len(l) : l[i] \in IpType
  /\ \A i \in 1..Len(logs) :
       logs[i] \in [name : Name, traffic : Nat, direct : Nat, upload : Nat]
  /\ page \in [total_traffic : Nat, total_direct : Nat, total_upload : Nat,
               active_classes : Nat, sums : Seq([l : Nat, i : Nat])]

(* Whether line k of a listing belongs to a chain for downloads: the last  *)
(* chain of prometheus's own before it says so.                            *)
Heads(l, k) ==
  {j \in 1..(k - 1) : \/ l[j].kind = "start"
                      \/ l[j].kind = "chain" /\ l[j].chain # "other"}
ForDownload(l, k) ==
  Heads(l, k) # {} /\ LET h == l[Max(Heads(l, k))] IN
                      h.kind = "chain" /\ h.chain \in {"post", "post_common", "POSTROUTING"}
Marked(l, k) == l[k].kind = "rule" /\ l[k].target = "mark"

Nearest(bytes) ==
  CHOOSE m \in 0..bytes :
    2 * MB * m <= 2 * bytes + MB /\ 2 * bytes + MB < 2 * MB * (m + 1)
Downloads(a) ==
  SumFunction([k \in {k \in 1..Len(listing) : /\ Marked(listing, k) /\ ForDownload(listing, k)
                                              /\ listing[k].dst = a}
                 |-> Nearest(listing[k].bytes)])
Uploads(a) ==
  SumFunction([k \in {k \in 1..Len(listing) : /\ Marked(listing, k) /\ ~ForDownload(listing, k)
                                              /\ listing[k].src = a}
                 |-> Nearest(listing[k].bytes)])

(* An address is charged with the sum of its downloads and that of its     *)
(* uploads, over all of its rules, those beyond a packet limit too, and    *)
(* with no byte that an index chain or an accepting rule saw on the way;   *)
(* with include_upload its total is the sum of both.                       *)
CounterIsSum ==
  phase = "hosts" /\ at = 1 =>
    /\ \A a \in Addr : Known(a) = 0 => Downloads(a) = 0 /\ Uploads(a) = 0
    /\ \A i \in 1..Len(list) :
         /\ list[i].direct = Downloads(list[i].addr)
         /\ list[i].upload = Uploads(list[i].addr)
         /\ config.include_upload => list[i].traffic = list[i].direct + list[i].upload

(* What the traffic logs and the page hold is what was counted: with and   *)
(* without popups, although an IP that shares is logged twice without      *)
(* them, and although the page has no row for it with them.  An IP whose   *)
(* sharing was not resolved is left out with popups.                       *)
BooksBalance ==
  phase = "done" /\ Direct(given) /\ (config.popups => unresolved = {}) =>
    /\ page.total_traffic - 1 = Total(given, TrafficOf)
    /\ Total(logs, TrafficOf) = Total(given, TrafficOf)
    /\ \A i \in 1..Len(given) : detected => \E j \in 1..Len(logs) : logs[j].name = given[i].name

(* The sum of the first i rows is the largest that i rows can have, and    *)
(* no row with traffic is missing: what "Top 10 downloaders" names are the *)
(* ten heaviest, and the fewest who make a quarter, half or four fifths of *)
(* the traffic, to a MB.                                                   *)
HeaviestFirst ==
  LET rows == {i \in 1..Len(sorted) : sorted[i].traffic > 0 /\ HasRow(sorted[i])}
      Weight(S) == SumFunction([i \in S |-> sorted[i].traffic]) IN
  phase = "done" =>
    /\ Len(page.sums) = Cardinality(rows)
    /\ \A n \in 1..Len(page.sums) : page.sums[n].i = n
    /\ \A S \in SUBSET rows : S # {} => Weight(S) <= page.sums[Cardinality(S)].l
    /\ erp # <<>> =>
         /\ erp.top = Top
         /\ \A share \in {5, 10, 16} :
              LET n == erp.traffic[share] IN
              /\ n # 0 /\ 20 * (page.sums[n].l + 1) > share * Weight(rows)
              /\ \A S \in SUBSET rows :
                   Cardinality(S) < n => 20 * Weight(S) < share * (Weight(rows) + 1)

(* In the JSON file every MB that was downloaded stands under the code of  *)
(* the customer who has the connection: that of an IP that shares under    *)
(* the code of the one it shares with, although its own total is 0.  Only  *)
(* an empty code has no line.                                              *)
JsonByCustomer ==
  LET Owner(i) == LET s == FirstOf(given, given[i].sharing) IN
                  IF given[i].sharing # NoName /\ s # 0 THEN given[s].code ELSE given[i].code
  IN
  phase = "done" /\ Direct(given) =>
    \A c \in (Code \cup {NoCode}) \ {EmptyCode} :
      SumFunction([i \in {i \in 1..Len(json) : json[i].code = c} |-> json[i].direct])
        = SumFunction([i \in {i \in 1..Len(given) : Owner(i) = c} |-> given[i].direct])

-----------------------------------------------------------------------------

(* What the repository says and the code does not do.                      *)

(* "magic-include-upload - is data counter sum of upload and download ?    *)
(* 1=yes|0=no" (conf/prometheus.conf:84): without it the total of an       *)
(* address that was counted both ways is not the sum.                      *)
UploadNotIncluded ==
  phase = "hosts" /\ at = 1 /\ ~config.include_upload =>
    \A i \in 1..Len(list) :
      list[i].direct > 0 /\ list[i].upload > 0 =>
        list[i].traffic # list[i].direct + list[i].upload
=============================================================================
