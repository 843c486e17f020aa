------------------------------- MODULE Summary -------------------------------
(***************************************************************************)
(* The summary of the traffic logs, parse_ip_log (-l, -m and -y): every    *)
(* log is read from its first record to its last, the records of the month *)
(* or year are added up, and the list that results is written as a page.   *)
(*                                                                         *)
(* A log is a sequence of records as append_log writes them; `of' says     *)
(* whether the date of a record is that of the month.                      *)
(***************************************************************************)
EXTENDS Cll1

CONSTANTS
  Directories,   \* sequences of logs, as ls lists them
  Now,           \* time(NULL)
  GB,            \* 1024 MB
  Top            \* 10

LogRecord == [time : Nat \ {0}, of : BOOLEAN, traffic : Nat, guaranted : Nat]

ASSUME SummaryAssumption ==
  /\ Directories \subseteq Seq(Seq(LogRecord))
  /\ \A d \in Directories : \A n \in 1..Len(d) : \A a, b \in 1..Len(d[n]) :
       /\ a < b => d[n][a].time <= d[n][b].time
       /\ d[n][a].time < Now
  /\ GB \in Nat \ {0} /\ Top \in Nat \ {0}

VARIABLES
  dir,
  phase,
  file,          \* the log that is read
  line,          \* its next record
  log_timestamp, log_started, log_ended,
  accept_month, traffic_month, guaranted,
  iplogs,
  i, total       \* rank and sum of the page

read_vars == <<dir, file, line, log_timestamp, log_started, log_ended,
               accept_month, traffic_month, guaranted>>
vars == <<read_vars, phase, iplogs, i, total>>

-----------------------------------------------------------------------------

Init ==
  /\ dir \in Directories
  /\ phase = "open" /\ file = 1 /\ line = 1
  /\ log_timestamp = 0 /\ log_started = 0 /\ log_ended = 0
  /\ accept_month = FALSE /\ traffic_month = 0 /\ guaranted = 0
  /\ iplogs = <<>> /\ i = 1 /\ total = 0

\* Seeded fault: the sum of the last log goes on.
Reset_Kept == accept_month' = FALSE /\ guaranted' = 0 /\ UNCHANGED traffic_month

(* What is reset for a log: neither log_started nor log_ended.             *)
Reset == accept_month' = FALSE /\ guaranted' = 0 /\ traffic_month' = 0

Open ==
  /\ phase = "open" /\ file <= Len(dir)
  /\ Reset
  /\ line' = 1
  /\ phase' = "read"
  /\ UNCHANGED <<dir, file, log_timestamp, log_started, log_ended, iplogs, i, total>>

\* Seeded fault: the time begins again with the first record of each log.
Started_Again(time) == IF log_started = 0 \/ ~accept_month THEN time ELSE log_started

Started(time) == IF log_started = 0 THEN time ELSE log_started

(* A record or a line that is not of the month, the first one after those  *)
(* that are.                                                               *)
EndedBefore(time) == IF log_started # 0 /\ log_ended = 0 THEN time ELSE log_ended

Read ==
  LET r == dir[file][line] IN
  /\ phase = "read" /\ line <= Len(dir[file])
  /\ log_timestamp' = r.time /\ guaranted' = r.guaranted
  /\ IF r.of
     THEN /\ traffic_month' = traffic_month + r.traffic
          /\ log_started' = Started(r.time)
          /\ accept_month' = TRUE
          /\ UNCHANGED log_ended
     ELSE /\ log_ended' = EndedBefore(r.time)
          /\ UNCHANGED <<traffic_month, log_started, accept_month>>
  /\ line' = line + 1
  /\ UNCHANGED <<dir, file, phase, iplogs, i, total>>

(* The macro parse hands out an empty line before it sees the end of the   *)
(* file: log_timestamp is still that of the last record.                   *)
EmptyLine ==
  /\ phase = "read" /\ line > Len(dir[file])
  /\ log_ended' = EndedBefore(log_timestamp)
  /\ phase' = "close"
  /\ UNCHANGED <<dir, file, line, log_timestamp, log_started, accept_month,
                 traffic_month, guaranted, iplogs, i, total>>

LessTraffic(b, a) == b.traffic < a.traffic

IpLog(ended) ==
  [file |-> file, traffic |-> traffic_month, guaranted |-> guaranted,
   avg |-> (traffic_month * 8) \div (ended - log_started),
   logged_time |-> ended - log_started, i |-> 0, l |-> 0]

(* The page's row of a log; the division by no time ends the run.          *)
Close ==
  LET ended == IF log_ended = 0 THEN Now ELSE log_ended IN
  /\ phase = "close"
  /\ IF ~accept_month
     THEN phase' = "open" /\ UNCHANGED <<log_ended, iplogs>>
     ELSE /\ log_ended' = ended
          /\ IF ended = log_started
             THEN phase' = "dead" /\ UNCHANGED iplogs
             ELSE /\ phase' = "open"
                  /\ iplogs' = Insert(IpLog(ended), iplogs, LessTraffic)
  /\ file' = file + 1
  /\ UNCHANGED <<dir, line, log_timestamp, log_started, accept_month,
                 traffic_month, guaranted, i, total>>

AllRead ==
  /\ phase = "open" /\ file > Len(dir)
  /\ phase' = "write" /\ line' = 1
  /\ UNCHANGED <<dir, file, log_timestamp, log_started, log_ended, accept_month,
                 traffic_month, guaranted, iplogs, i, total>>

\* Seeded fault: the sum is rounded once, not row by row.
Ranked_Exact(x) ==
  [x EXCEPT !.i = i + 1,
            !.l = MapThenSumSet(LAMBDA n : iplogs[n].traffic, 1..line) \div GB]

(* i++ when the rank is printed, total+=iplog->traffic>>10, and then       *)
(* iplog->i=i, iplog->l=total.                                             *)
Ranked(x) == [x EXCEPT !.i = i + 1, !.l = total + x.traffic \div GB]

(* A row of the page; an IP without traffic has none.                      *)
WriteRow ==
  LET x == iplogs[line] IN
  /\ phase = "write" /\ line <= Len(iplogs)
  /\ IF x.traffic = 0
     THEN UNCHANGED <<iplogs, i, total>>
     ELSE /\ iplogs' = [iplogs EXCEPT ![line] = Ranked(x)]
          /\ total' = total + x.traffic \div GB
          /\ i' = i + 1
  /\ line' = line + 1
  /\ UNCHANGED <<dir, file, phase, log_timestamp, log_started, log_ended, accept_month,
                 traffic_month, guaranted>>

\* Seeded fault: the table is written for a list of any length.
HasTable_Always == TRUE

HasTable == i > Top

(* "Enterprise Resource Planning": shares of a total of 0 GB end the run.  *)
Table ==
  /\ phase = "write" /\ line > Len(iplogs)
  /\ phase' = IF HasTable /\ total = 0 THEN "dead" ELSE "done"
  /\ UNCHANGED <<read_vars, iplogs, i, total>>

Next == Open \/ Read \/ EmptyLine \/ Close \/ AllRead \/ WriteRow \/ Table

Spec == Init /\ [][Next]_vars

-----------------------------------------------------------------------------

(* The records of the month in log n, and the logs that have any.          *)
OfMonth(n) == {k \in 1..Len(dir[n]) : dir[n][k].of}
MonthTotal(n) == SumFunction([k \in OfMonth(n) |-> dir[n][k].traffic])
Accepted == {n \in 1..Len(dir) : OfMonth(n) # {}}

(* The page has every log with records of the month once, with the sum of  *)
(* just these records, and the heavier before the lighter.                 *)
MonthTotals ==
  phase \in {"write", "done"} =>
    /\ {iplogs[k].file : k \in 1..Len(iplogs)} = Accepted /\ Len(iplogs) = Cardinality(Accepted)
    /\ \A k \in 1..Len(iplogs) : iplogs[k].traffic = MonthTotal(iplogs[k].file)
    /\ \A k \in 1..(Len(iplogs) - 1) : iplogs[k].traffic >= iplogs[k + 1].traffic

(* From the first record of the month of the first log that has one to the *)
(* record after its last, or to its last if there is none after it.        *)
FirstPeriod ==
  LET log == dir[Min(Accepted)]
      months == OfMonth(Min(Accepted))
      next == {k \in 1..Len(log) : k > Min(months) /\ ~log[k].of}
  IN (IF next = {} THEN log[Len(log)].time ELSE log[Min(next)].time) - log[Min(months)].time

(* All averages of a page are over one and the same time, that of the log  *)
(* which ls lists first, whenever the others begin and end: they compare   *)
(* as the traffic does, but are not those of a customer who came later     *)
(* (parselogs.c:126-135: neither end is reset).                            *)
OnePeriod ==
  \A k \in 1..Len(iplogs) :
    /\ iplogs[k].logged_time = FirstPeriod
    /\ iplogs[k].avg = (MonthTotal(iplogs[k].file) * 8) \div FirstPeriod

(* The sums that the table looks its lines up by: the sum of a row, each   *)
(* of them rounded down to GB, is that of no lighter rows than any other   *)
(* choice of as many, and the last one is the total of the page.           *)
Ranks == {k \in 1..Len(iplogs) : iplogs[k].traffic > 0}
GBOf(S) == SumFunction([k \in S |-> iplogs[k].traffic \div GB])
SumsOfHeaviest ==
  phase = "done" =>
    /\ i = Cardinality(Ranks) + 1 /\ total = GBOf(Ranks)
    /\ \A k \in Ranks :
         /\ iplogs[k].l = GBOf(1..k)
         /\ \A S \in SUBSET Ranks : Cardinality(S) = k => GBOf(S) <= iplogs[k].l

(* A run ends by a division in two cases only: the records of the month in *)
(* the first log, and the one after them, are of one second, or there are  *)
(* Top rows or more and none has a GB.                                     *)
DiesOfNothing ==
  phase = "dead" =>
    \/ Accepted # {} /\ FirstPeriod = 0
    \/ /\ Cardinality({n \in Accepted : MonthTotal(n) > 0}) >= Top
       /\ \A n \in Accepted : MonthTotal(n) < GB
=============================================================================
