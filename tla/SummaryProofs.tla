---------------------------- MODULE SummaryProofs ----------------------------
(***************************************************************************)
(* The summary of any directory of logs: its sums, its one period, its     *)
(* ranks, and when it ends by a division.                                  *)
(***************************************************************************)
EXTENDS Summary, Cll1Proofs

(* The end of the month's records of the log that is listed first, as      *)
(* FirstPeriod has it.                                                     *)
First == Min(Accepted)
Begin == Min(OfMonth(First))
After == {k \in 1..Len(dir[First]) : k > Begin /\ ~dir[First][k].of}
StartTime == dir[First][Begin].time
EndTime ==
  IF After = {} THEN dir[First][Len(dir[First])].time ELSE dir[First][Min(After)].time

RowType ==
  [file : Nat, traffic : Nat, guaranted : Nat, avg : Nat, logged_time : Nat,
   i : Nat, l : Nat]

Typed ==
  /\ dir \in Directories /\ dir \in Seq(Seq(LogRecord))
  /\ phase \in {"open", "read", "close", "write", "dead", "done"}
  /\ file \in 1..(Len(dir) + 1) /\ line \in Nat \ {0}
  /\ guaranted \in Nat /\ iplogs \in Seq(RowType)

(* What has been read of a log.                                            *)
Upto(n, m) == {k \in OfMonth(n) : k < m}
Traffic(n, S) == SumFunctionOnSet([k \in 1..Len(dir[n]) |-> dir[n][k].traffic], S)

Counted ==
  /\ phase \in {"read", "close"} =>
       /\ file \in 1..Len(dir) /\ line \in 1..(Len(dir[file]) + 1)
       /\ accept_month <=> Upto(file, line) # {}
       /\ traffic_month = Traffic(file, Upto(file, line))
       /\ line > 1 => log_timestamp = dir[file][line - 1].time
  /\ phase = "close" => line = Len(dir[file]) + 1
  /\ phase \in {"write", "done"} => file = Len(dir) + 1

(* The time is that of the first log of the month from its end on.         *)
Past == \E n \in Accepted : n < file
Within ==
  phase \in {"read", "close"} /\ file \in Accepted /\ ~Past /\ line > Min(OfMonth(file))
Timed ==
  /\ Past \/ (Within /\ phase = "close") => log_started = StartTime /\ log_ended = EndTime
  /\ ~Past /\ ~Within => log_started = 0 /\ log_ended = 0
  /\ Within /\ phase = "read" =>
       /\ log_started = StartTime
       /\ log_ended =
            IF {k \in After : k < line} = {} THEN 0 ELSE dir[First][Min(After)].time

(* The rows are those of the logs that have been closed.                   *)
GoodRow(x) ==
  /\ x.file \in Accepted /\ x.file < file
  /\ x.traffic = MonthTotal(x.file)
  /\ FirstPeriod > 0 /\ x.logged_time = FirstPeriod
  /\ x.avg = (MonthTotal(x.file) * 8) \div FirstPeriod

Listed ==
  /\ \A k \in 1..Len(iplogs) : GoodRow(iplogs[k])
  /\ \A k, j \in 1..Len(iplogs) : iplogs[k].file = iplogs[j].file => k = j
  /\ \A k, j \in 1..Len(iplogs) : k < j => iplogs[k].traffic >= iplogs[j].traffic
  /\ phase # "dead" =>
       \A n \in Accepted : n < file => \E k \in 1..Len(iplogs) : iplogs[k].file = n

(* The rows with traffic, which come first, have ranks and sums.           *)
Weight(list, S) == SumFunctionOnSet([k \in 1..Len(list) |-> list[k].traffic \div GB], S)
Ranking ==
  /\ phase \in {"open", "read", "close"} => i = 1 /\ total = 0
  /\ phase \in {"write", "done"} =>
       /\ line <= Len(iplogs) + 1 /\ i \in 1..line
       /\ total = Weight(iplogs, 1..(i - 1))
       /\ \A k \in 1..(line - 1) : k < i <=> iplogs[k].traffic > 0
       /\ \A k \in 1..(i - 1) : iplogs[k].i = k + 1 /\ iplogs[k].l = Weight(iplogs, 1..k)
  /\ phase = "done" => line = Len(iplogs) + 1

IInv == Typed /\ Counted /\ Timed /\ Listed /\ Ranking /\ DiesOfNothing

-----------------------------------------------------------------------------

LEMMA MinProperties ==
  ASSUME NEW I \in SUBSET Nat, I # {}
  PROVE  Min(I) \in I /\ \A x \in I : Min(I) <= x
  <1>1. \E x \in I : \A y \in I : x <= y
    BY LeastNatural
  <1>. QED  BY <1>1 DEF Min

(* The records of a log.                                                   *)
LEMMA LogFacts ==
  ASSUME Typed, NEW n \in 1..Len(dir)
  PROVE  /\ dir[n] \in Seq(LogRecord) /\ Len(dir[n]) \in Nat
         /\ \A k \in 1..Len(dir[n]) :
              /\ dir[n][k].time \in Nat /\ dir[n][k].time # 0
              /\ dir[n][k].of \in BOOLEAN /\ dir[n][k].traffic \in Nat
              /\ dir[n][k].guaranted \in Nat
         /\ \A k, m \in 1..Len(dir[n]) : k < m => dir[n][k].time <= dir[n][m].time
         /\ OfMonth(n) \in SUBSET (1..Len(dir[n])) /\ IsFiniteSet(OfMonth(n))
         /\ OfMonth(n) \in SUBSET Nat
  <1>1. dir \in Seq(Seq(LogRecord)) /\ dir \in Directories
    BY DEF Typed
  <1>2. dir[n] \in Seq(LogRecord)
    BY <1>1
  <1>3. Len(dir[n]) \in Nat /\ \A k \in 1..Len(dir[n]) : dir[n][k] \in LogRecord
    BY <1>2
  <1>4. \A k \in 1..Len(dir[n]) :
          /\ dir[n][k].time \in Nat /\ dir[n][k].time # 0
          /\ dir[n][k].of \in BOOLEAN /\ dir[n][k].traffic \in Nat
          /\ dir[n][k].guaranted \in Nat
    BY <1>3 DEF LogRecord
  <1>5. \A k, m \in 1..Len(dir[n]) : k < m => dir[n][k].time <= dir[n][m].time
    BY <1>1, SummaryAssumption
  <1>6. OfMonth(n) \in SUBSET (1..Len(dir[n]))
    BY DEF OfMonth
  <1>7. IsFiniteSet(OfMonth(n))
    <2>1. IsFiniteSet(1..Len(dir[n]))
      BY <1>3, CountUpTo
    <2>. QED  BY <1>6, <2>1, FS_Subset
  <1>. QED  BY <1>2, <1>3, <1>4, <1>5, <1>6, <1>7

(* A directory keeps its logs.                                             *)
LEMMA DirFixed ==
  ASSUME dir' = dir
  PROVE  /\ \A n : OfMonth(n)' = OfMonth(n) /\ MonthTotal(n)' = MonthTotal(n)
         /\ \A n, m : Upto(n, m)' = Upto(n, m) /\ Traffic(n, m)' = Traffic(n, m)
         /\ Accepted' = Accepted /\ First' = First /\ Begin' = Begin /\ After' = After
         /\ StartTime' = StartTime /\ EndTime' = EndTime /\ FirstPeriod' = FirstPeriod
  <1>1. \A n : OfMonth(n)' = OfMonth(n)
    BY DEF OfMonth
  <1>2. \A n : MonthTotal(n)' = MonthTotal(n)
    BY <1>1 DEF MonthTotal
  <1>3. \A n, m : Upto(n, m)' = Upto(n, m) /\ Traffic(n, m)' = Traffic(n, m)
    BY <1>1 DEF Upto, Traffic
  <1>4. Accepted' = Accepted
    BY <1>1 DEF Accepted
  <1>5. First' = First /\ Begin' = Begin
    BY <1>1, <1>4 DEF First, Begin
  <1>6. After' = After
    BY <1>5 DEF After
  <1>7. StartTime' = StartTime /\ EndTime' = EndTime
    BY <1>5, <1>6 DEF StartTime, EndTime
  <1>8. FirstPeriod' = FirstPeriod
    BY <1>1, <1>4 DEF FirstPeriod
  <1>. QED  BY <1>1, <1>2, <1>3, <1>4, <1>5, <1>6, <1>7, <1>8

(* The first log with records of the month.                                *)
LEMMA FirstFacts ==
  ASSUME Typed, Accepted # {}
  PROVE  /\ First \in Accepted /\ First \in 1..Len(dir)
         /\ \A n \in Accepted : First <= n
         /\ Begin \in OfMonth(First) /\ \A k \in OfMonth(First) : Begin <= k
         /\ Begin \in 1..Len(dir[First]) /\ Len(dir[First]) \in Nat
         /\ After \in SUBSET (1..Len(dir[First]))
         /\ After # {} => Min(After) \in After /\ \A k \in After : Min(After) <= k
         /\ StartTime \in Nat /\ StartTime # 0 /\ EndTime \in Nat /\ EndTime # 0
         /\ FirstPeriod = EndTime - StartTime /\ StartTime <= EndTime
         /\ After # {} => dir[First][Min(After)].time # 0
  <1>1. Accepted \in SUBSET Nat /\ Accepted \in SUBSET (1..Len(dir))
    BY DEF Accepted
  <1>2. First \in Accepted /\ First \in 1..Len(dir) /\ \A n \in Accepted : First <= n
    BY <1>1, MinProperties DEF First
  <1>3. /\ OfMonth(First) # {} /\ OfMonth(First) \in SUBSET (1..Len(dir[First]))
        /\ OfMonth(First) \in SUBSET Nat /\ Len(dir[First]) \in Nat
        /\ \A k \in 1..Len(dir[First]) : dir[First][k].time \in Nat /\ dir[First][k].time # 0
        /\ \A k, m \in 1..Len(dir[First]) : k < m => dir[First][k].time <= dir[First][m].time
    BY <1>2, LogFacts DEF Accepted
  <1>4. Begin \in OfMonth(First) /\ \A k \in OfMonth(First) : Begin <= k
    BY <1>3, MinProperties DEF Begin
  <1>5. After \in SUBSET (1..Len(dir[First])) /\ After \in SUBSET Nat
        /\ \A k \in After : k > Begin
    BY DEF After
  <1>6. After # {} => Min(After) \in After /\ \A k \in After : Min(After) <= k
    BY <1>5, MinProperties
  <1>7. Begin \in 1..Len(dir[First]) /\ Len(dir[First]) \in 1..Len(dir[First])
        /\ Begin <= Len(dir[First])
    BY <1>3, <1>4
  <1>8. StartTime \in Nat /\ StartTime # 0
    BY <1>3, <1>7 DEF StartTime
  <1>9. EndTime \in Nat /\ EndTime # 0 /\ StartTime <= EndTime
    <2>1. CASE After = {}
      <3>1. EndTime = dir[First][Len(dir[First])].time
        BY <2>1 DEF EndTime
      <3>2. Begin = Len(dir[First]) \/ Begin < Len(dir[First])
        BY <1>3, <1>7
      <3>. QED  BY <1>3, <1>7, <3>1, <3>2 DEF StartTime
    <2>2. CASE After # {}
      <3>1. EndTime = dir[First][Min(After)].time
        BY <2>2 DEF EndTime
      <3>2. Min(After) \in 1..Len(dir[First]) /\ Begin < Min(After)
        BY <1>5, <1>6, <2>2
      <3>. QED  BY <1>3, <1>7, <3>1, <3>2 DEF StartTime
    <2>. QED  BY <2>1, <2>2
  <1>10. FirstPeriod = EndTime - StartTime
    BY DEF FirstPeriod, EndTime, StartTime, After, Begin, First
  <1>11. After # {} => dir[First][Min(After)].time # 0
    BY <1>3, <1>5, <1>6
  <1>. QED  BY <1>2, <1>3, <1>4, <1>5, <1>6, <1>7, <1>8, <1>9, <1>10, <1>11

(* The sums of a log.                                                      *)
LEMMA TrafficFacts ==
  ASSUME Typed, NEW n \in 1..Len(dir)
  PROVE  /\ Traffic(n, {}) = 0
         /\ \A m \in Nat : /\ Upto(n, m) \in SUBSET OfMonth(n)
                           /\ Traffic(n, Upto(n, m)) \in Nat
         /\ MonthTotal(n) = Traffic(n, OfMonth(n)) /\ MonthTotal(n) \in Nat
         /\ \A m \in 1..Len(dir[n]) :
              IF dir[n][m].of
              THEN /\ Upto(n, m + 1) = Upto(n, m) \cup {m}
                   /\ Traffic(n, Upto(n, m + 1)) = Traffic(n, Upto(n, m)) + dir[n][m].traffic
              ELSE Upto(n, m + 1) = Upto(n, m)
         /\ Upto(n, 1) = {} /\ Upto(n, Len(dir[n]) + 1) = OfMonth(n)
  <1>. DEFINE f == [k \in 1..Len(dir[n]) |-> dir[n][k].traffic]
  <1>1. /\ Len(dir[n]) \in Nat /\ \A k \in 1..Len(dir[n]) : dir[n][k].traffic \in Nat
        /\ OfMonth(n) \in SUBSET (1..Len(dir[n])) /\ IsFiniteSet(OfMonth(n))
        /\ \A k \in OfMonth(n) : dir[n][k].of
    BY LogFacts DEF OfMonth
  <1>2. \A k \in OfMonth(n) : f[k] \in Nat
    BY <1>1
  <1>3. \A S : Traffic(n, S) = SumFunctionOnSet(f, S)
    BY DEF Traffic
  <1>. HIDE DEF f
  <1>4. Traffic(n, {}) = 0
    BY <1>3, SumEmpty
  <1>5. ASSUME NEW S \in SUBSET OfMonth(n)
        PROVE  IsFiniteSet(S) /\ Traffic(n, S) \in Nat
    <2>1. IsFiniteSet(S) /\ \A k \in S : f[k] \in Nat
      BY <1>1, <1>2, FS_Subset
    <2>. QED  BY <1>3, <2>1, SumNat
  <1>6. \A m \in Nat : Upto(n, m) \in SUBSET OfMonth(n) /\ Traffic(n, Upto(n, m)) \in Nat
    BY <1>5 DEF Upto
  <1>7. MonthTotal(n) = Traffic(n, OfMonth(n)) /\ MonthTotal(n) \in Nat
    <2>. DEFINE g == [k \in OfMonth(n) |-> dir[n][k].traffic]
    <2>1. MonthTotal(n) = SumFunctionOnSet(g, OfMonth(n))
      BY DEF MonthTotal, SumFunction
    <2>2. \A k \in OfMonth(n) : g[k] = f[k]
      BY <1>1 DEF f
    <2>. HIDE DEF g
    <2>3. SumFunctionOnSet(g, OfMonth(n)) = SumFunctionOnSet(f, OfMonth(n))
      BY <1>1, <2>2, SumSame
    <2>. QED  BY <1>3, <1>5, <2>1, <2>3
  <1>8. ASSUME NEW m \in 1..Len(dir[n]), dir[n][m].of
        PROVE  /\ Upto(n, m + 1) = Upto(n, m) \cup {m}
               /\ Traffic(n, Upto(n, m + 1)) = Traffic(n, Upto(n, m)) + dir[n][m].traffic
    <2>1. m \in OfMonth(n) /\ m \in Nat /\ f[m] = dir[n][m].traffic
      BY <1>8 DEF OfMonth, f
    <2>2. Upto(n, m + 1) = Upto(n, m) \cup {m} /\ m \notin Upto(n, m)
      BY <1>1, <2>1 DEF Upto
    <2>3. /\ Upto(n, m) \in SUBSET OfMonth(n) /\ IsFiniteSet(Upto(n, m))
          /\ \A k \in Upto(n, m) \cup {m} : f[k] \in Nat
      BY <1>2, <1>5, <1>6, <2>1
    <2>4. Traffic(n, Upto(n, m + 1)) = f[m] + Traffic(n, Upto(n, m))
      BY <1>3, <2>2, <2>3, SumAdd
    <2>5. f[m] \in Nat /\ Traffic(n, Upto(n, m)) \in Nat
      BY <1>2, <1>6, <2>1
    <2>. QED  BY <2>1, <2>2, <2>4, <2>5
  <1>9. ASSUME NEW m \in 1..Len(dir[n]), ~dir[n][m].of
        PROVE  Upto(n, m + 1) = Upto(n, m)
    <2>1. m \notin OfMonth(n)
      BY <1>1, <1>9
    <2>. QED  BY <1>1, <2>1 DEF Upto
  <1>10. Upto(n, 1) = {} /\ Upto(n, Len(dir[n]) + 1) = OfMonth(n)
    BY <1>1 DEF Upto
  <1>. QED  BY <1>4, <1>6, <1>7, <1>8, <1>9, <1>10

-----------------------------------------------------------------------------

LEMMA InitInv ==
  Init => IInv
  <1>. SUFFICES ASSUME Init PROVE IInv
    OBVIOUS
  <1>. USE DEF Init
  <1>1. Typed
    <2>1. dir \in Seq(Seq(LogRecord)) /\ Len(dir) \in Nat
      BY SummaryAssumption
    <2>. QED  BY <2>1 DEF Typed
  <1>2. Counted
    BY DEF Counted
  <1>3. Timed
    <2>1. ~Past
      BY DEF Past, Accepted
    <2>. QED  BY <2>1 DEF Timed, Within
  <1>4. Listed
    BY DEF Listed, Accepted
  <1>5. Ranking /\ DiesOfNothing
    BY DEF Ranking, DiesOfNothing
  <1>. QED  BY <1>1, <1>2, <1>3, <1>4, <1>5 DEF IInv

(* Until the first log of the month has been read no other has been.       *)
LEMMA FileIsFirst ==
  ASSUME Typed, file \in Accepted, ~Past
  PROVE  file = First
  <1>1. First \in Accepted /\ First <= file /\ First \in 1..Len(dir)
    BY FirstFacts
  <1>2. ~(First < file) /\ file \in Nat
    BY <1>1 DEF Past, Typed
  <1>. QED  BY <1>1, <1>2

(* The list is good as long as no log is closed.                           *)
LEMMA ListedKept ==
  ASSUME dir' = dir, iplogs' = iplogs, file' = file, phase # "dead", Listed
  PROVE  Listed'
  <1>2. Accepted' = Accepted
    BY DirFixed
  <1>3. \A k \in 1..Len(iplogs) : (GoodRow(iplogs[k]))'
    <2>. SUFFICES ASSUME NEW k \in 1..Len(iplogs) PROVE (GoodRow(iplogs[k]))'
      OBVIOUS
    <2>1. GoodRow(iplogs[k])
      BY DEF Listed
    <2>2. (MonthTotal(iplogs[k].file))' = MonthTotal(iplogs[k].file)
      BY DEF MonthTotal, OfMonth
    <2>. QED  BY <1>2, <2>1, <2>2, DirFixed DEF GoodRow
  <1>. QED  BY <1>2, <1>3 DEF Listed

(* The first log of the month has been read: its times stay.               *)
LEMMA TimedWhenPast ==
  ASSUME dir' = dir, file' = file, log_started' = log_started, log_ended' = log_ended,
         Timed, Past
  PROVE  Timed'
  <1>1. Past' = Past /\ StartTime' = StartTime /\ EndTime' = EndTime
    BY DirFixed DEF Past
  <1>2. log_started' = StartTime /\ log_ended' = EndTime
    BY DEF Timed
  <1>. QED  BY <1>1, <1>2 DEF Timed, Within

LEMMA OpenInv ==
  ASSUME IInv, Open
  PROVE  IInv'
  <1>. USE DEF IInv
  <1>1. /\ phase = "open" /\ file <= Len(dir) /\ accept_month' = FALSE /\ guaranted' = 0
        /\ traffic_month' = 0 /\ line' = 1 /\ phase' = "read" /\ dir' = dir /\ file' = file
        /\ log_timestamp' = log_timestamp /\ log_started' = log_started
        /\ log_ended' = log_ended /\ iplogs' = iplogs /\ i' = i /\ total' = total
    BY DEF Open, Reset
  <1>2. Typed'
    BY <1>1 DEF Typed
  <1>3. file \in 1..Len(dir)
    BY <1>1 DEF Typed
  <1>4. Upto(file, 1) = {} /\ Traffic(file, {}) = 0 /\ Len(dir[file]) \in Nat
        /\ OfMonth(file) \in SUBSET (1..Len(dir[file])) /\ OfMonth(file) \in SUBSET Nat
    BY <1>3, LogFacts, TrafficFacts
  <1>5. Counted'
    <2>1. (Upto(file, line))' = Upto(file, 1)
      BY <1>1 DEF Upto, OfMonth
    <2>2. (Traffic(file, Upto(file, line)))' = Traffic(file, Upto(file, 1))
      BY <1>1, <2>1 DEF Traffic
    <2>3. /\ (file \in 1..Len(dir))' /\ (line \in 1..(Len(dir[file]) + 1))'
          /\ (accept_month <=> Upto(file, line) # {})'
      BY <1>1, <1>3, <1>4, <2>1
    <2>4. (traffic_month = Traffic(file, Upto(file, line)))'
      BY <1>1, <1>4, <2>2
    <2>. QED  BY <1>1, <2>3, <2>4 DEF Counted
  <1>6. Timed'
    <2>1. CASE Past
      BY <1>1, <2>1, TimedWhenPast
    <2>2. CASE ~Past
      <3>1. ~Within
        BY <1>1 DEF Within
      <3>2. log_started' = 0 /\ log_ended' = 0
        BY <1>1, <2>2, <3>1 DEF Timed
      <3>3. ~Past'
        BY <1>1, <2>2, DirFixed DEF Past
      <3>4. ~Within'
        <4>1. file \in Accepted => OfMonth(file) # {}
          BY DEF Accepted
        <4>2. file \in Accepted => Min(OfMonth(file)) \in 1..Len(dir[file])
          BY <1>4, <4>1, MinProperties
        <4>3. file \in Accepted => ~(1 > Min(OfMonth(file)))
          BY <1>4, <4>2
        <4>4. Accepted' = Accepted /\ \A n : OfMonth(n)' = OfMonth(n)
          BY <1>1, DirFixed
        <4>. QED  BY <1>1, <4>3, <4>4 DEF Within
      <3>. QED  BY <3>2, <3>3, <3>4 DEF Timed
    <2>. QED  BY <2>1, <2>2
  <1>7. Listed'
    BY <1>1, ListedKept
  <1>8. Ranking' /\ DiesOfNothing'
    BY <1>1 DEF Ranking, DiesOfNothing
  <1>. QED  BY <1>2, <1>5, <1>6, <1>7, <1>8

(* While a log is read: where in it, and in the first of the month, it is. *)
LEMMA ReadFacts ==
  ASSUME Typed, Counted, phase \in {"read", "close"}
  PROVE  /\ file \in 1..Len(dir) /\ line \in 1..(Len(dir[file]) + 1) /\ line \in Nat
         /\ Len(dir[file]) \in Nat
         /\ file \in Accepted <=> OfMonth(file) # {}
         /\ file \in Accepted /\ ~Past =>
              /\ file = First /\ Min(OfMonth(file)) = Begin
              /\ Within <=> line > Begin
         /\ file \notin Accepted => ~Within
  <1>1. file \in 1..Len(dir) /\ line \in 1..(Len(dir[file]) + 1)
    BY DEF Counted
  <1>2. line \in Nat /\ Len(dir[file]) \in Nat
    BY <1>1, LogFacts
  <1>3. file \in Accepted <=> OfMonth(file) # {}
    BY <1>1 DEF Accepted
  <1>4. ASSUME file \in Accepted, ~Past
        PROVE  /\ file = First /\ Min(OfMonth(file)) = Begin
               /\ Within <=> line > Begin
    <2>1. file = First
      BY <1>4, FileIsFirst
    <2>2. Min(OfMonth(file)) = Begin
      BY <2>1 DEF Begin
    <2>. QED  BY <1>4, <2>1, <2>2 DEF Within
  <1>. QED  BY <1>1, <1>2, <1>3, <1>4 DEF Within

LEMMA ReadTimed ==
  ASSUME IInv, Read
  PROVE  Timed'
  <1>. DEFINE r == dir[file][line]
  <1>. USE DEF IInv
  <1>1. /\ phase = "read" /\ line <= Len(dir[file])
        /\ log_started' = IF r.of THEN Started(r.time) ELSE log_started
        /\ log_ended' = IF r.of THEN log_ended ELSE EndedBefore(r.time)
        /\ line' = line + 1 /\ dir' = dir /\ file' = file /\ phase' = "read"
    BY DEF Read
  <1>2. /\ file \in 1..Len(dir) /\ line \in 1..Len(dir[file]) /\ line \in Nat
        /\ file \in Accepted /\ ~Past =>
             /\ file = First /\ Min(OfMonth(file)) = Begin
             /\ Within <=> line > Begin
        /\ file \notin Accepted => ~Within
    BY <1>1, ReadFacts
  <1>3. /\ r.of \in BOOLEAN /\ r.time \in Nat /\ r.time # 0
        /\ r.of => file \in Accepted /\ line \in OfMonth(file)
    <2>1. /\ r.of \in BOOLEAN /\ r.time \in Nat /\ r.time # 0
      BY <1>2, LogFacts
    <2>2. r.of => line \in OfMonth(file)
      BY <1>2 DEF OfMonth
    <2>3. r.of => file \in Accepted
      BY <1>2, <2>2 DEF Accepted
    <2>. QED  BY <2>1, <2>2, <2>3
  <1>4. /\ Past' = Past /\ First' = First /\ Begin' = Begin /\ After' = After
        /\ StartTime' = StartTime /\ EndTime' = EndTime /\ Accepted' = Accepted
    BY <1>1, DirFixed DEF Past
  <1>5. Within' <=> file \in Accepted /\ ~Past /\ line + 1 > Min(OfMonth(file))
    <2>1. (Min(OfMonth(file)))' = Min(OfMonth(file))
      BY <1>1 DEF OfMonth
    <2>. QED  BY <1>1, <1>4, <2>1 DEF Within
  <1>6. file \in Accepted =>
          /\ First \in Accepted /\ Begin \in OfMonth(First)
          /\ \A k \in OfMonth(First) : Begin <= k
          /\ Begin \in Nat
          /\ After # {} => Min(After) \in After /\ \A k \in After : Min(After) <= k
          /\ StartTime # 0 /\ EndTime # 0
          /\ After # {} => dir[First][Min(After)].time # 0
          /\ Begin \in 1..Len(dir[First]) /\ After \in SUBSET (1..Len(dir[First]))
    BY FirstFacts
  <1>7. CASE Past
    <2>1. Accepted # {}
      BY <1>7 DEF Past
    <2>2. log_started = StartTime /\ log_ended = EndTime /\ StartTime # 0 /\ EndTime # 0
      BY <1>7, <2>1, FirstFacts DEF Timed
    <2>3. log_started' = log_started /\ log_ended' = log_ended
      BY <1>1, <2>2 DEF Started, EndedBefore
    <2>. QED  BY <1>1, <1>7, <2>3, TimedWhenPast
  <1>8. CASE ~Past /\ Within
    <2>1. file \in Accepted /\ file = First /\ line > Begin /\ Begin \in Nat
      BY <1>2, <1>6, <1>8
    <2>2. /\ log_started = StartTime /\ StartTime # 0
          /\ log_ended = IF {k \in After : k < line} = {} THEN 0 ELSE dir[First][Min(After)].time
      BY <1>1, <1>6, <1>8, <2>1 DEF Timed
    <2>3. log_started' = StartTime
      BY <1>1, <2>2 DEF Started
    <2>4. log_ended' = IF {k \in After : k < line + 1} = {} THEN 0
                       ELSE dir[First][Min(After)].time
      <3>1. After \in SUBSET Nat
        BY <1>6, <2>1
      <3>2. CASE r.of
        <4>1. line \notin After
          BY <2>1, <3>2 DEF After
        <4>2. {k \in After : k < line + 1} = {k \in After : k < line}
          <5>1. \A k \in After : k \in Nat /\ k # line
            BY <3>1, <4>1
          <5>2. \A k \in After : k < line + 1 <=> k < line
            BY <1>2, <5>1
          <5>. QED  BY <5>2
        <4>. QED  BY <1>1, <2>2, <3>2, <4>2
      <3>3. CASE ~r.of
        <4>1. line \in After
          BY <1>2, <2>1, <3>3 DEF After
        <4>2. line \in {k \in After : k < line + 1}
          BY <1>2, <4>1
        <4>3. log_ended' = IF log_ended = 0 THEN r.time ELSE log_ended
          BY <1>1, <2>2, <3>3 DEF EndedBefore
        <4>4. CASE {k \in After : k < line} = {}
          <5>1. Min(After) \in After /\ Min(After) <= line
            BY <1>6, <2>1, <4>1
          <5>2. ~(Min(After) < line)
            BY <4>4, <5>1
          <5>3. Min(After) = line
            <6>1. Min(After) \in Nat /\ line \in Nat
              BY <1>2, <3>1, <5>1
            <6>. QED  BY <5>1, <5>2, <6>1
          <5>. QED  BY <2>1, <2>2, <4>2, <4>3, <4>4, <5>3
        <4>5. CASE {k \in After : k < line} # {}
          <5>1. log_ended = dir[First][Min(After)].time /\ log_ended # 0
            BY <1>6, <2>1, <2>2, <4>5, <4>1
          <5>. QED  BY <4>2, <4>3, <5>1
        <4>. QED  BY <4>4, <4>5
      <3>. QED  BY <1>3, <3>2, <3>3
    <2>5. Within' /\ ~Past'
      BY <1>2, <1>4, <1>5, <1>8, <2>1
    <2>. QED  BY <1>1, <1>4, <2>3, <2>4, <2>5 DEF Timed
  <1>9. CASE ~Past /\ ~Within
    <2>1. log_started = 0 /\ log_ended = 0
      BY <1>9 DEF Timed
    <2>2. CASE r.of
      <3>1. /\ file \in Accepted /\ file = First /\ line \in OfMonth(First)
            /\ Begin \in Nat /\ ~(line > Begin) /\ Begin <= line
        BY <1>2, <1>3, <1>6, <1>9, <2>2
      <3>2. line = Begin
        BY <1>2, <3>1
      <3>3. log_started' = StartTime /\ log_ended' = 0
        BY <1>1, <2>1, <2>2, <3>1, <3>2 DEF Started, StartTime
      <3>4. {k \in After : k < line + 1} = {}
        BY <1>2, <1>6, <3>1, <3>2 DEF After
      <3>5. ~Past' /\ phase' = "read"
        BY <1>1, <1>4, <1>9
      <3>. QED  BY <1>1, <1>4, <3>1, <3>2, <3>3, <3>4, <3>5, <1>5, <1>2 DEF Timed
    <2>3. CASE ~r.of
      <3>1. log_started' = 0 /\ log_ended' = 0
        BY <1>1, <2>1, <2>3 DEF EndedBefore
      <3>2. ~Within'
        <4>1. SUFFICES ASSUME file \in Accepted PROVE ~(line + 1 > Begin)
          BY <1>2, <1>5
        <4>2. ~(line > Begin) /\ Begin \in Nat /\ Begin \in OfMonth(file)
          BY <1>2, <1>6, <1>9, <4>1
        <4>3. line # Begin
          BY <2>3, <4>2 DEF OfMonth
        <4>. QED  BY <1>2, <4>2, <4>3
      <3>3. ~Past'
        BY <1>4, <1>9
      <3>. QED  BY <3>1, <3>2, <3>3 DEF Timed
    <2>. QED  BY <1>3, <2>2, <2>3
  <1>. QED  BY <1>7, <1>8, <1>9

LEMMA ReadInv ==
  ASSUME IInv, Read
  PROVE  IInv'
  <1>. DEFINE r == dir[file][line]
  <1>. USE DEF IInv
  <1>1. /\ phase = "read" /\ line <= Len(dir[file]) /\ log_timestamp' = r.time
        /\ guaranted' = r.guaranted
        /\ IF r.of THEN traffic_month' = traffic_month + r.traffic /\ accept_month' = TRUE
                   ELSE traffic_month' = traffic_month /\ accept_month' = accept_month
        /\ line' = line + 1 /\ dir' = dir /\ file' = file /\ phase' = "read"
        /\ iplogs' = iplogs /\ i' = i /\ total' = total
    BY DEF Read
  <1>2. /\ file \in 1..Len(dir) /\ line \in 1..Len(dir[file]) /\ line \in Nat
        /\ Len(dir[file]) \in Nat
    BY <1>1, ReadFacts
  <1>3. r.of \in BOOLEAN /\ r.guaranted \in Nat
    BY <1>2, LogFacts
  <1>4. Typed'
    BY <1>1, <1>2, <1>3 DEF Typed
  <1>5. Counted'
    <2>1. (Upto(file, line))' = Upto(file, line + 1)
      BY <1>1 DEF Upto, OfMonth
    <2>2. (Traffic(file, Upto(file, line)))' = Traffic(file, Upto(file, line + 1))
      BY <1>1, <2>1 DEF Traffic
    <2>3. /\ accept_month <=> Upto(file, line) # {}
          /\ traffic_month = Traffic(file, Upto(file, line))
      BY <1>1 DEF Counted
    <2>4. /\ accept_month' <=> Upto(file, line + 1) # {}
          /\ traffic_month' = Traffic(file, Upto(file, line + 1))
      <3>1. IF r.of
            THEN /\ Upto(file, line + 1) = Upto(file, line) \cup {line}
                 /\ Traffic(file, Upto(file, line + 1))
                      = Traffic(file, Upto(file, line)) + r.traffic
            ELSE Upto(file, line + 1) = Upto(file, line)
        BY <1>2, TrafficFacts
      <3>. HIDE DEF r
      <3>2. CASE r.of
        <4>1. line \in Upto(file, line + 1)
          BY <3>1, <3>2
        <4>. QED  BY <1>1, <2>3, <3>1, <3>2, <4>1
      <3>3. CASE ~r.of
        BY <1>1, <2>3, <3>1, <3>3
      <3>. QED  BY <1>3, <3>2, <3>3
    <2>5. /\ (file \in 1..Len(dir))' /\ (line \in 1..(Len(dir[file]) + 1))'
          /\ (log_timestamp = dir[file][line - 1].time)'
      BY <1>1, <1>2
    <2>6. (accept_month <=> Upto(file, line) # {})'
      BY <2>1, <2>4
    <2>7. (traffic_month = Traffic(file, Upto(file, line)))'
      BY <2>2, <2>4
    <2>. QED  BY <1>1, <2>5, <2>6, <2>7 DEF Counted
  <1>6. Timed'
    BY ReadTimed
  <1>7. Listed'
    BY <1>1, ListedKept
  <1>8. Ranking' /\ DiesOfNothing'
    BY <1>1 DEF Ranking, DiesOfNothing
  <1>. QED  BY <1>4, <1>5, <1>6, <1>7, <1>8

LEMMA EmptyLineInv ==
  ASSUME IInv, EmptyLine
  PROVE  IInv'
  <1>. USE DEF IInv
  <1>1. /\ phase = "read" /\ line > Len(dir[file])
        /\ log_ended' = EndedBefore(log_timestamp)
        /\ log_started' = log_started /\ log_timestamp' = log_timestamp
        /\ accept_month' = accept_month /\ traffic_month' = traffic_month
        /\ guaranted' = guaranted
        /\ line' = line /\ dir' = dir /\ file' = file /\ phase' = "close"
        /\ iplogs' = iplogs /\ i' = i /\ total' = total
    BY DEF EmptyLine
  <1>2. /\ file \in 1..Len(dir) /\ line \in Nat
        /\ Len(dir[file]) \in Nat /\ line = Len(dir[file]) + 1
        /\ file \in Accepted /\ ~Past => file = First
        /\ file \notin Accepted => ~Within
    <2>1. /\ file \in 1..Len(dir) /\ line \in 1..(Len(dir[file]) + 1)
          /\ Len(dir[file]) \in Nat
          /\ file \in Accepted /\ ~Past => file = First
          /\ file \notin Accepted => ~Within
      BY <1>1, ReadFacts
    <2>. QED  BY <1>1, <2>1
  <1>3. Typed'
    BY <1>1 DEF Typed
  <1>4. Counted'
    <2>1. (Upto(file, line))' = Upto(file, line)
      BY <1>1 DEF Upto, OfMonth
    <2>2. (Traffic(file, Upto(file, line)))' = Traffic(file, Upto(file, line))
      BY <1>1, <2>1 DEF Traffic
    <2>3. /\ (file \in 1..Len(dir))' /\ (line \in 1..(Len(dir[file]) + 1))'
          /\ (line > 1 => log_timestamp = dir[file][line - 1].time)'
          /\ (line = Len(dir[file]) + 1)'
      BY <1>1, <1>2 DEF Counted
    <2>4. (accept_month <=> Upto(file, line) # {})'
      BY <1>1, <2>1 DEF Counted
    <2>5. (traffic_month = Traffic(file, Upto(file, line)))'
      BY <1>1, <2>2 DEF Counted
    <2>. QED  BY <1>1, <2>3, <2>4, <2>5 DEF Counted
  <1>5. Timed'
    <2>1. /\ Past' = Past /\ StartTime' = StartTime /\ EndTime' = EndTime
      BY <1>1, DirFixed DEF Past
    <2>2. Within' <=> Within
      <3>1. (Min(OfMonth(file)))' = Min(OfMonth(file)) /\ Accepted' = Accepted
        BY <1>1, DirFixed DEF OfMonth
      <3>. QED  BY <1>1, <2>1, <3>1 DEF Within
    <2>3. CASE Past
      <3>1. Accepted # {}
        BY <2>3 DEF Past
      <3>2. log_started = StartTime /\ log_ended = EndTime /\ EndTime # 0
        BY <2>3, <3>1, FirstFacts DEF Timed
      <3>3. log_ended' = log_ended
        BY <1>1, <3>2 DEF EndedBefore
      <3>. QED  BY <1>1, <2>3, <3>3, TimedWhenPast
    <2>4. CASE ~Past /\ Within
      <3>1. file \in Accepted /\ file = First
        BY <1>2, <2>4
      <3>2. /\ log_started = StartTime /\ StartTime # 0 /\ EndTime # 0
            /\ log_ended = IF {k \in After : k < line} = {} THEN 0
                           ELSE dir[First][Min(After)].time
            /\ After \in SUBSET (1..Len(dir[First]))
            /\ After # {} => dir[First][Min(After)].time # 0
            /\ Begin \in 1..Len(dir[First])
        BY <1>1, <2>4, <3>1, FirstFacts DEF Timed
      <3>3. {k \in After : k < line} = After
        <4>1. \A k \in After : k < line
          <5>1. \A k \in After : k \in 1..Len(dir[file])
            BY <3>1, <3>2
          <5>. QED  BY <1>2, <5>1
        <4>. QED  BY <4>1
      <3>4. log_ended' = EndTime
        <4>1. CASE After = {}
          <5>1. log_ended = 0
            BY <3>2, <3>3, <4>1
          <5>2. line > 1 /\ line - 1 = Len(dir[First])
            BY <1>2, <3>1, <3>2
          <5>3. log_timestamp = dir[First][Len(dir[First])].time
            BY <1>1, <3>1, <5>2 DEF Counted
          <5>. QED  BY <1>1, <3>2, <4>1, <5>1, <5>3 DEF EndedBefore, EndTime
        <4>2. CASE After # {}
          <5>1. log_ended = EndTime
            BY <3>2, <3>3, <4>2 DEF EndTime
          <5>. QED  BY <1>1, <3>2, <5>1 DEF EndedBefore
        <4>. QED  BY <4>1, <4>2
      <3>. QED  BY <1>1, <2>1, <2>2, <2>4, <3>2, <3>4 DEF Timed
    <2>5. CASE ~Past /\ ~Within
      <3>1. log_started = 0 /\ log_ended = 0
        BY <2>5 DEF Timed
      <3>. QED  BY <1>1, <2>1, <2>2, <2>5, <3>1 DEF Timed, EndedBefore
    <2>. QED  BY <2>3, <2>4, <2>5
  <1>6. Listed'
    BY <1>1, ListedKept
  <1>7. Ranking' /\ DiesOfNothing'
    BY <1>1 DEF Ranking, DiesOfNothing
  <1>. QED  BY <1>3, <1>4, <1>5, <1>6, <1>7

-----------------------------------------------------------------------------

(* The key of insert: more traffic stands before less.                     *)
ByTraffic == {x \in RowType \X RowType : x[1].traffic < x[2].traffic}

LEMMA LessTrafficIsKey ==
  /\ IsKey(ByTraffic, RowType)
  /\ \A b, a \in RowType : <<b, a>> \in ByTraffic <=> LessTraffic(b, a)
  <1>1. \A e \in RowType : e.traffic \in Nat
    BY DEF RowType
  <1>2. \A b, a \in RowType : <<b, a>> \in ByTraffic <=> b.traffic < a.traffic
    BY DEF ByTraffic
  <1>. QED  BY <1>1, <1>2 DEF IsKey, LessTraffic

LEMMA InsertStops ==
  ASSUME NEW u \in Seq(RowType), NEW a \in RowType
  PROVE  \E q : StopsAt(q, a, u, ByTraffic) /\ Insert(a, u, LessTraffic) = InsertAt(u, q, a)
  <1>. DEFINE q == InsertPlace(a, u, LessTraffic)
  <1>1. \A k \in 1..Len(u) : <<u[k], a>> \in ByTraffic <=> LessTraffic(u[k], a)
    BY LessTrafficIsKey
  <1>2. \E k \in 1..(Len(u) + 1) : StopsAt(k, a, u, ByTraffic)
    BY PlaceExists
  <1>3. Len(u) \in Nat
    OBVIOUS
  <1>4. \A k \in 1..(Len(u) + 1) : StopsAt(k, a, u, ByTraffic) <=>
          /\ k = Len(u) + 1 \/ LessTraffic(u[k], a)
          /\ \A p \in 1..(k - 1) : ~LessTraffic(u[p], a)
    <2>1. ASSUME NEW k \in 1..(Len(u) + 1)
          PROVE  StopsAt(k, a, u, ByTraffic) <=>
                   /\ k = Len(u) + 1 \/ LessTraffic(u[k], a)
                   /\ \A p \in 1..(k - 1) : ~LessTraffic(u[p], a)
      <3>1. \A p \in 1..(k - 1) : p \in 1..Len(u)
        BY <1>3
      <3>2. k # Len(u) + 1 => k \in 1..Len(u)
        BY <1>3
      <3>. QED  BY <1>1, <3>1, <3>2 DEF StopsAt
    <2>. QED  BY <2>1
  <1>5. q \in 1..(Len(u) + 1) /\ StopsAt(q, a, u, ByTraffic)
    <2>1. q = CHOOSE k \in 1..(Len(u) + 1) :
                /\ k = Len(u) + 1 \/ LessTraffic(u[k], a)
                /\ \A p \in 1..(k - 1) : ~LessTraffic(u[p], a)
      BY DEF InsertPlace
    <2>. HIDE DEF q
    <2>. QED  BY <1>2, <1>4, <2>1
  <1>6. Insert(a, u, LessTraffic) = InsertAt(u, q, a)
    BY DEF Insert
  <1>. QED  BY <1>5, <1>6

(* A list that falls stays so, and gets the new row and no other.          *)
Falls(u) == \A k, j \in 1..Len(u) : k < j => u[k].traffic >= u[j].traffic

LEMMA InsertedRow ==
  ASSUME NEW u \in Seq(RowType), NEW a \in RowType, Falls(u),
         NEW q, StopsAt(q, a, u, ByTraffic), NEW t, t = InsertAt(u, q, a)
  PROVE  /\ t \in Seq(RowType) /\ Falls(t) /\ Len(t) = Len(u) + 1
         /\ \A k \in 1..Len(t) : t[k] = a \/ \E j \in 1..Len(u) : t[k] = u[j]
         /\ \A j \in 1..Len(u) : \E k \in 1..Len(t) : t[k] = u[j]
         /\ \E k \in 1..Len(t) : t[k] = a
         /\ (/\ \A k, j \in 1..Len(u) : u[k].file = u[j].file => k = j
             /\ \A k \in 1..Len(u) : u[k].file # a.file)
            => \A k, j \in 1..Len(t) : t[k].file = t[j].file => k = j
  <1>. DEFINE n == Len(u)
  <1>1. StopsAt(q, a, u, ByTraffic) /\ t = InsertAt(u, q, a)
    OBVIOUS
  <1>2. q \in 1..(n + 1) /\ n \in Nat /\ q \in Int
    <2>1. q \in 1..(n + 1) /\ n \in Nat
      BY <1>1 DEF StopsAt
    <2>. QED  BY <2>1
  <1>3. /\ t \in Seq(RowType) /\ Len(t) = n + 1
        /\ \A k \in 1..(n + 1) :
             t[k] = IF k < q THEN u[k] ELSE IF k = q THEN a ELSE u[k - 1]
    <2>1. q \in 1..(Len(u) + 1)
      BY <1>2
    <2>2. /\ InsertAt(u, q, a) \in Seq(RowType) /\ Len(InsertAt(u, q, a)) = Len(u) + 1
          /\ \A k \in 1..(Len(u) + 1) : InsertAt(u, q, a)[k] =
               IF k < q THEN u[k] ELSE IF k = q THEN a ELSE u[k - 1]
      <3>1. u \in Seq(RowType) /\ a \in RowType
        OBVIOUS
      <3>. HIDE DEF n
      <3>2. InsertAt(u, q, a) \in Seq(RowType)
        BY <2>1, <3>1, InsertAtProperties
      <3>3. Len(InsertAt(u, q, a)) = Len(u) + 1
        BY <2>1, <3>1, InsertAtProperties
      <3>4. \A k \in 1..(Len(u) + 1) : InsertAt(u, q, a)[k] =
              IF k < q THEN u[k] ELSE IF k = q THEN a ELSE u[k - 1]
        BY <2>1, <3>1, InsertAtProperties, SMTT(30)
      <3>. QED  BY <3>2, <3>3, <3>4
    <2>. QED  BY <1>1, <2>2
  <1>4. Falls(t)
    <2>1. \A b, c \in RowType : <<b, c>> \notin ByTraffic <=> b.traffic >= c.traffic
      <3>1. \A e \in RowType : e.traffic \in Nat
        BY DEF RowType
      <3>2. \A b, c \in RowType : <<b, c>> \in ByTraffic <=> b.traffic < c.traffic
        BY LessTrafficIsKey DEF LessTraffic
      <3>3. \A b, c \in RowType : ~(b.traffic < c.traffic) <=> b.traffic >= c.traffic
        BY <3>1
      <3>. QED  BY <3>2, <3>3
    <2>2. InOrder(u, ByTraffic)
      <3>1. \A k \in 1..Len(u) : u[k] \in RowType
        OBVIOUS
      <3>. QED  BY <2>1, <3>1 DEF InOrder, Falls
    <2>3. InOrder(t, ByTraffic)
      <3>. QED  BY <1>1, <2>2, LessTrafficIsKey, InsertInOrder
    <2>4. \A k \in 1..Len(t) : t[k] \in RowType
      BY <1>3
    <2>. QED  BY <2>1, <2>3, <2>4 DEF InOrder, Falls
  <1>5. \A k \in 1..(n + 1) : t[k] = a \/ \E j \in 1..n : t[k] = u[j]
    <2>. SUFFICES ASSUME NEW k \in 1..(n + 1) PROVE t[k] = a \/ \E j \in 1..n : t[k] = u[j]
      OBVIOUS
    <2>1. (k < q /\ k \in 1..n) \/ k = q \/ (k > q /\ k - 1 \in 1..n)
      BY <1>2
    <2>. HIDE DEF n
    <2>. QED  BY <1>2, <1>3, <2>1
  <1>6. \A j \in 1..n : \E k \in 1..(n + 1) : t[k] = u[j]
    <2>. SUFFICES ASSUME NEW j \in 1..n PROVE \E k \in 1..(n + 1) : t[k] = u[j]
      OBVIOUS
    <2>1. CASE j < q
      <3>1. j \in 1..(n + 1)
        BY <1>2
      <3>. QED  BY <1>3, <2>1, <3>1
    <2>2. CASE ~(j < q)
      <3>1. j + 1 \in 1..(n + 1) /\ ~(j + 1 < q) /\ j + 1 # q /\ (j + 1) - 1 = j
        BY <1>2, <2>2
      <3>2. t[j + 1] = u[j]
        BY <1>3, <3>1
      <3>. QED  BY <3>1, <3>2
    <2>. QED  BY <2>1, <2>2
  <1>7. \E k \in 1..(n + 1) : t[k] = a
    BY <1>2, <1>3
  <1>8. ASSUME \A k, j \in 1..n : u[k].file = u[j].file => k = j,
               \A k \in 1..n : u[k].file # a.file,
               NEW k \in 1..(n + 1), NEW j \in 1..(n + 1), t[k].file = t[j].file
        PROVE  k = j
    <2>. DEFINE P(x) == IF x < q THEN x ELSE x - 1
    <2>1. \A x \in 1..(n + 1) :
            x # q => P(x) \in 1..n /\ t[x] = u[P(x)]
      <3>. SUFFICES ASSUME NEW x \in 1..(n + 1), x # q PROVE P(x) \in 1..n /\ t[x] = u[P(x)]
        OBVIOUS
      <3>1. CASE x < q
        <4>1. x \in 1..n
          BY <1>2, <3>1
        <4>. QED  BY <1>3, <3>1, <4>1
      <3>2. CASE ~(x < q)
        <4>1. x - 1 \in 1..n
          BY <1>2, <3>2
        <4>. QED  BY <1>3, <3>2, <4>1
      <3>. QED  BY <3>1, <3>2
    <2>2. t[q] = a
      BY <1>2, <1>3
    <2>3. \A x, y \in 1..(n + 1) : x # q /\ y # q /\ P(x) = P(y) => x = y
      BY <1>2
    <2>. HIDE DEF P, n
    <2>4. CASE k = q
      BY <1>8, <2>1, <2>2, <2>4
    <2>5. CASE j = q
      BY <1>8, <2>1, <2>2, <2>5
    <2>6. CASE k # q /\ j # q
      BY <1>8, <2>1, <2>3, <2>6
    <2>. QED  BY <2>4, <2>5, <2>6
  <1>. QED  BY <1>3, <1>4, <1>5, <1>6, <1>7, <1>8

(* At its end a log has the sum of its month, and the time is known.       *)
LEMMA CloseFacts ==
  ASSUME Typed, Counted, Timed, phase = "close"
  PROVE  /\ file \in 1..Len(dir) /\ file \in Nat
         /\ accept_month <=> file \in Accepted
         /\ traffic_month = MonthTotal(file) /\ traffic_month \in Nat
         /\ file \notin Accepted => ~Within
         /\ file \in Accepted => log_started = StartTime /\ log_ended = EndTime
  <1>1. /\ file \in 1..Len(dir) /\ line = Len(dir[file]) + 1 /\ Len(dir[file]) \in Nat
        /\ file \in Accepted <=> OfMonth(file) # {}
        /\ file \in Accepted /\ ~Past =>
             /\ file = First /\ Min(OfMonth(file)) = Begin
             /\ Within <=> line > Begin
        /\ file \notin Accepted => ~Within
    BY ReadFacts DEF Counted
  <1>2. /\ Upto(file, line) = OfMonth(file)
        /\ MonthTotal(file) = Traffic(file, OfMonth(file)) /\ MonthTotal(file) \in Nat
    BY <1>1, TrafficFacts
  <1>3. /\ accept_month <=> file \in Accepted
        /\ traffic_month = MonthTotal(file) /\ traffic_month \in Nat
    BY <1>1, <1>2 DEF Counted
  <1>4. ASSUME file \in Accepted
        PROVE  log_started = StartTime /\ log_ended = EndTime
    <2>1. CASE Past
      BY <2>1 DEF Timed
    <2>2. CASE ~Past
      <3>1. file = First /\ Begin \in 1..Len(dir[First])
        BY <1>1, <1>4, <2>2, FirstFacts
      <3>2. line > Begin
        BY <1>1, <3>1
      <3>3. Within
        BY <1>1, <1>4, <2>2, <3>2
      <3>. QED  BY <3>3 DEF Timed
    <2>. QED  BY <2>1, <2>2
  <1>. QED  BY <1>1, <1>3, <1>4

LEMMA CloseListed ==
  ASSUME IInv, Close
  PROVE  iplogs' \in Seq(RowType) /\ Listed'
  <1>. DEFINE ended == IF log_ended = 0 THEN Now ELSE log_ended
  <1>. USE DEF IInv
  <1>1. /\ phase = "close" /\ file' = file + 1 /\ dir' = dir
        /\ ~accept_month => phase' = "open" /\ iplogs' = iplogs
        /\ accept_month /\ ended = log_started => phase' = "dead" /\ iplogs' = iplogs
        /\ accept_month /\ ended # log_started =>
             phase' = "open" /\ iplogs' = Insert(IpLog(ended), iplogs, LessTraffic)
    BY DEF Close
  <1>2. /\ file \in 1..Len(dir) /\ file \in Nat
        /\ accept_month <=> file \in Accepted
        /\ traffic_month = MonthTotal(file) /\ traffic_month \in Nat
        /\ file \in Accepted => log_started = StartTime /\ log_ended = EndTime
    BY <1>1, CloseFacts
  <1>3. iplogs \in Seq(RowType) /\ Accepted \in SUBSET Nat
    BY DEF Typed, Accepted
  <1>4. \A x : GoodRow(x) =>
          /\ x.file \in Accepted /\ x.file < file + 1
          /\ x.traffic = MonthTotal(x.file)
          /\ FirstPeriod > 0 /\ x.logged_time = FirstPeriod
          /\ x.avg = (MonthTotal(x.file) * 8) \div FirstPeriod
    <2>1. ASSUME NEW x, GoodRow(x)
          PROVE  x.file < file + 1
      <3>1. x.file \in Accepted /\ x.file < file
        BY <2>1 DEF GoodRow
      <3>2. x.file \in Nat
        BY <1>3, <3>1
      <3>. QED  BY <1>2, <3>1, <3>2
    <2>. QED  BY <2>1 DEF GoodRow
  <1>5. /\ Accepted' = Accepted /\ FirstPeriod' = FirstPeriod
        /\ \A n : MonthTotal(n)' = MonthTotal(n)
    BY <1>1, DirFixed
  <1>6. CASE iplogs' = iplogs /\ (phase' = "dead" \/ file \notin Accepted)
    <2>1. \A k \in 1..Len(iplogs) : (GoodRow(iplogs[k]))'
      <3>. SUFFICES ASSUME NEW k \in 1..Len(iplogs) PROVE (GoodRow(iplogs[k]))'
        OBVIOUS
      <3>1. GoodRow(iplogs[k])
        BY DEF Listed
      <3>2. (MonthTotal(iplogs[k].file))' = MonthTotal(iplogs[k].file)
        BY <1>1, <1>6 DEF MonthTotal, OfMonth
      <3>. QED  BY <1>1, <1>4, <1>5, <1>6, <3>1, <3>2 DEF GoodRow
    <2>2. phase' # "dead" =>
            \A n \in Accepted : n < file + 1 => \E k \in 1..Len(iplogs) : iplogs[k].file = n
      <3>. SUFFICES ASSUME phase' # "dead", NEW n \in Accepted, n < file + 1
                    PROVE  \E k \in 1..Len(iplogs) : iplogs[k].file = n
        OBVIOUS
      <3>1. n # file /\ n \in Nat
        BY <1>3, <1>6
      <3>2. n < file
        BY <1>2, <3>1
      <3>. QED  BY <1>1, <3>2 DEF Listed
    <2>3. /\ \A k, j \in 1..Len(iplogs) : iplogs[k].file = iplogs[j].file => k = j
          /\ \A k, j \in 1..Len(iplogs) : k < j => iplogs[k].traffic >= iplogs[j].traffic
      BY DEF Listed
    <2>. QED  BY <1>1, <1>3, <1>5, <1>6, <2>1, <2>2, <2>3 DEF Listed
  <1>7. CASE file \in Accepted /\ ended # log_started
    <2>1. /\ StartTime \in Nat /\ EndTime \in Nat /\ EndTime # 0 /\ StartTime <= EndTime
          /\ FirstPeriod = EndTime - StartTime
      BY <1>7, FirstFacts
    <2>2. ended = EndTime /\ log_started = StartTime
      BY <1>2, <1>7, <2>1
    <2>3. ended - log_started = FirstPeriod /\ FirstPeriod > 0 /\ FirstPeriod \in Nat
      BY <1>7, <2>1, <2>2
    <2>. DEFINE a == IpLog(ended)
    <2>4. /\ iplogs' = Insert(a, iplogs, LessTraffic) /\ phase' = "open"
      BY <1>1, <1>2, <1>7
    <2>5. a = [file |-> file, traffic |-> MonthTotal(file), guaranted |-> guaranted,
               avg |-> (MonthTotal(file) * 8) \div FirstPeriod,
               logged_time |-> FirstPeriod, i |-> 0, l |-> 0]
      BY <1>2, <2>3 DEF IpLog
    <2>6. a \in RowType
      <3>1. (MonthTotal(file) * 8) \div FirstPeriod \in Nat
        <4>1. \A x, y \in Nat : y > 0 => (x * 8) \div y \in Nat
          OBVIOUS
        <4>. QED  BY <1>2, <2>3, <4>1
      <3>2. guaranted \in Nat
        BY DEF Typed
      <3>. HIDE DEF a
      <3>. QED  BY <1>2, <2>3, <2>5, <3>1, <3>2 DEF RowType
    <2>. HIDE DEF a, ended
    <2>7. Falls(iplogs)
      BY DEF Falls, Listed
    <2>8. /\ iplogs' \in Seq(RowType) /\ Falls(iplogs') /\ Len(iplogs') = Len(iplogs) + 1
          /\ \A k \in 1..Len(iplogs') :
               iplogs'[k] = a \/ \E j \in 1..Len(iplogs) : iplogs'[k] = iplogs[j]
          /\ \A j \in 1..Len(iplogs) : \E k \in 1..Len(iplogs') : iplogs'[k] = iplogs[j]
          /\ \E k \in 1..Len(iplogs') : iplogs'[k] = a
          /\ (/\ \A k, j \in 1..Len(iplogs) : iplogs[k].file = iplogs[j].file => k = j
              /\ \A k \in 1..Len(iplogs) : iplogs[k].file # a.file)
             => \A k, j \in 1..Len(iplogs') : iplogs'[k].file = iplogs'[j].file => k = j
      <3>1. PICK q : StopsAt(q, a, iplogs, ByTraffic)
                     /\ Insert(a, iplogs, LessTraffic) = InsertAt(iplogs, q, a)
        BY <1>3, <2>6, InsertStops
      <3>2. iplogs' = InsertAt(iplogs, q, a)
        BY <2>4, <3>1
      <3>. QED  BY <1>3, <2>6, <2>7, <3>1, <3>2, InsertedRow
    <2>9. /\ a.file = file /\ a.traffic = MonthTotal(file) /\ a.logged_time = FirstPeriod
          /\ a.avg = (MonthTotal(file) * 8) \div FirstPeriod
      BY <2>5
    <2>10. \A k \in 1..Len(iplogs') :
             LET x == iplogs'[k] IN
             /\ x.file \in Accepted /\ x.file < file + 1
             /\ x.traffic = MonthTotal(x.file)
             /\ FirstPeriod > 0 /\ x.logged_time = FirstPeriod
             /\ x.avg = (MonthTotal(x.file) * 8) \div FirstPeriod
      <3>. SUFFICES ASSUME NEW x, x = a \/ \E j \in 1..Len(iplogs) : x = iplogs[j]
                    PROVE  /\ x.file \in Accepted /\ x.file < file + 1
                           /\ x.traffic = MonthTotal(x.file)
                           /\ FirstPeriod > 0 /\ x.logged_time = FirstPeriod
                           /\ x.avg = (MonthTotal(x.file) * 8) \div FirstPeriod
        BY <2>8
      <3>1. CASE x = a
        <4>1. file < file + 1
          BY <1>2
        <4>. QED  BY <1>7, <2>3, <2>9, <3>1, <4>1
      <3>2. CASE \E j \in 1..Len(iplogs) : x = iplogs[j]
        <4>1. GoodRow(x)
          BY <3>2 DEF Listed
        <4>. QED  BY <1>4, <4>1
      <3>. QED  BY <3>1, <3>2
    <2>11. \A k \in 1..Len(iplogs') : (GoodRow(iplogs[k]))'
      <3>. SUFFICES ASSUME NEW k \in 1..Len(iplogs') PROVE (GoodRow(iplogs[k]))'
        OBVIOUS
      <3>1. (MonthTotal(iplogs[k].file))' = MonthTotal(iplogs'[k].file)
        BY <1>1 DEF MonthTotal, OfMonth
      <3>. QED  BY <1>1, <1>5, <2>10, <3>1 DEF GoodRow
    <2>12. \A k, j \in 1..Len(iplogs') : iplogs'[k].file = iplogs'[j].file => k = j
      <3>1. \A k \in 1..Len(iplogs) : iplogs[k].file # a.file
        <4>1. \A k \in 1..Len(iplogs) : iplogs[k].file < file
          BY DEF Listed, GoodRow
        <4>. QED  BY <1>2, <2>9, <4>1
      <3>. QED  BY <2>8, <3>1 DEF Listed
    <2>13. \A n \in Accepted : n < file + 1 => \E k \in 1..Len(iplogs') : iplogs'[k].file = n
      <3>. SUFFICES ASSUME NEW n \in Accepted, n < file + 1
                    PROVE  \E k \in 1..Len(iplogs') : iplogs'[k].file = n
        OBVIOUS
      <3>1. CASE n = file
        BY <2>8, <2>9, <3>1
      <3>2. CASE n # file
        <4>1. n < file
          BY <1>2, <1>3, <3>2
        <4>2. PICK j \in 1..Len(iplogs) : iplogs[j].file = n
          BY <1>1, <4>1 DEF Listed
        <4>. QED  BY <2>8, <4>2
      <3>. QED  BY <3>1, <3>2
    <2>. QED  BY <1>1, <1>5, <2>8, <2>11, <2>12, <2>13 DEF Listed, Falls
  <1>8. accept_month \/ ~accept_month
    OBVIOUS
  <1>. QED  BY <1>1, <1>2, <1>3, <1>6, <1>7

LEMMA CloseInv ==
  ASSUME IInv, Close
  PROVE  IInv'
  <1>. DEFINE ended == IF log_ended = 0 THEN Now ELSE log_ended
  <1>. USE DEF IInv
  <1>1. /\ phase = "close" /\ file' = file + 1 /\ dir' = dir /\ line' = line
        /\ log_started' = log_started /\ guaranted' = guaranted /\ i' = i /\ total' = total
        /\ phase' \in {"open", "dead"}
        /\ log_ended' = IF accept_month THEN ended ELSE log_ended
        /\ phase' = "dead" => accept_month /\ ended = log_started
    BY DEF Close
  <1>2. /\ file \in 1..Len(dir) /\ file \in Nat /\ Len(dir) \in Nat
        /\ accept_month <=> file \in Accepted
        /\ file \notin Accepted => ~Within
        /\ file \in Accepted => log_started = StartTime /\ log_ended = EndTime
    <2>1. Len(dir) \in Nat
      BY DEF Typed
    <2>. QED  BY <1>1, <2>1, CloseFacts
  <1>3. file \in Accepted =>
          /\ ended = EndTime /\ StartTime \in Nat
          /\ FirstPeriod = EndTime - StartTime /\ EndTime \in Nat
    BY <1>2, FirstFacts
  <1>4. iplogs' \in Seq(RowType) /\ Listed'
    BY CloseListed
  <1>5. Typed'
    <2>1. file' \in 1..(Len(dir) + 1)
      BY <1>1, <1>2
    <2>. QED  BY <1>1, <1>4, <2>1 DEF Typed
  <1>6. Counted'
    BY <1>1 DEF Counted
  <1>7. Timed'
    <2>1. StartTime' = StartTime /\ EndTime' = EndTime /\ Accepted' = Accepted
      BY <1>1, DirFixed
    <2>2. Past' <=> \E n \in Accepted : n < file + 1
      BY <1>1, <2>1 DEF Past
    <2>3. ~Within'
      BY <1>1 DEF Within
    <2>. HIDE DEF ended
    <2>4. CASE file \in Accepted
      <3>1. Past'
        BY <1>2, <2>2, <2>4
      <3>2. log_started' = StartTime /\ log_ended' = EndTime
        BY <1>1, <1>2, <1>3, <2>4
      <3>. QED  BY <1>1, <2>1, <2>3, <3>1, <3>2 DEF Timed
    <2>5. CASE file \notin Accepted
      <3>1. Accepted \in SUBSET Nat
        BY DEF Accepted
      <3>2. Past' <=> Past
        <4>1. \A n \in Accepted : n < file + 1 <=> n < file
          <5>. SUFFICES ASSUME NEW n \in Accepted PROVE n < file + 1 <=> n < file
            OBVIOUS
          <5>1. n # file /\ n \in Nat
            BY <2>5, <3>1
          <5>. QED  BY <1>2, <5>1
        <4>. QED  BY <2>2, <4>1 DEF Past
      <3>3. log_started' = log_started /\ log_ended' = log_ended
        BY <1>1, <1>2, <2>5
      <3>4. ~Within
        BY <1>2, <2>5
      <3>. QED  BY <1>1, <2>1, <2>3, <3>2, <3>3, <3>4 DEF Timed
    <2>. QED  BY <2>4, <2>5
  <1>8. Ranking'
    BY <1>1 DEF Ranking
  <1>9. DiesOfNothing'
    <2>1. phase' = "dead" => Accepted # {} /\ FirstPeriod = 0
      BY <1>1, <1>2, <1>3
    <2>2. Accepted' = Accepted /\ FirstPeriod' = FirstPeriod
      BY <1>1, DirFixed
    <2>. QED  BY <2>1, <2>2 DEF DiesOfNothing
  <1>. QED  BY <1>4, <1>5, <1>6, <1>7, <1>8, <1>9

LEMMA AllReadInv ==
  ASSUME IInv, AllRead
  PROVE  IInv'
  <1>. USE DEF IInv
  <1>1. /\ phase = "open" /\ file > Len(dir) /\ phase' = "write" /\ line' = 1
        /\ dir' = dir /\ file' = file /\ guaranted' = guaranted
        /\ log_started' = log_started /\ log_ended' = log_ended
        /\ iplogs' = iplogs /\ i' = i /\ total' = total
    BY DEF AllRead
  <1>2. Typed'
    BY <1>1 DEF Typed
  <1>3. Counted'
    <2>1. file = Len(dir) + 1
      BY <1>1 DEF Typed
    <2>. QED  BY <1>1, <2>1 DEF Counted
  <1>4. Timed'
    <2>1. /\ Past' = Past /\ StartTime' = StartTime /\ EndTime' = EndTime
          /\ ~Within /\ ~Within'
      BY <1>1, DirFixed DEF Past, Within
    <2>. QED  BY <1>1, <2>1 DEF Timed
  <1>5. Listed'
    BY <1>1, ListedKept
  <1>6. Ranking'
    <2>1. i = 1 /\ total = 0 /\ Len(iplogs) \in Nat
      BY <1>1 DEF Ranking, Typed
    <2>2. Weight(iplogs, 1..(1 - 1)) = 0
      <3>1. 1..(1 - 1) = {}
        OBVIOUS
      <3>. QED  BY <3>1, SumEmpty DEF Weight
    <2>3. (Weight(iplogs, 1..(i - 1)))' = Weight(iplogs, 1..(1 - 1))
      BY <1>1, <2>1 DEF Weight
    <2>. QED  BY <1>1, <2>1, <2>2, <2>3 DEF Ranking
  <1>7. DiesOfNothing'
    BY <1>1 DEF DiesOfNothing
  <1>. QED  BY <1>2, <1>3, <1>4, <1>5, <1>6, <1>7

-----------------------------------------------------------------------------

LEMMA SameCount ==
  ASSUME NEW s, IsFiniteSet(s), NEW t, NEW p \in [s -> t],
         \A x, y \in s : p[x] = p[y] => x = y, \A z \in t : \E x \in s : p[x] = z
  PROVE  IsFiniteSet(t) /\ Cardinality(t) = Cardinality(s)
  <1>1. p \in Surjection(s, t)
    BY DEF Surjection
  <1>2. p \in Injection(s, t)
    BY DEF Injection, IsInjective
  <1>. QED  BY <1>1, <1>2, FS_Surjection

(* What the rows weigh.                                                    *)
LEMMA WeightFacts ==
  ASSUME NEW list \in Seq(RowType)
  PROVE  /\ Len(list) \in Nat
         /\ \A k \in 1..Len(list) : list[k].traffic \in Nat /\ list[k].traffic \div GB \in Nat
         /\ \A S \in SUBSET (1..Len(list)) :
              /\ IsFiniteSet(S) /\ Weight(list, S) \in Nat
              /\ Weight(list, S) = SumFunction([k \in S |-> list[k].traffic \div GB])
         /\ \A m \in 1..Len(list) :
              Weight(list, 1..m) = list[m].traffic \div GB + Weight(list, 1..(m - 1))
         /\ Weight(list, 1..0) = 0
  <1>. DEFINE f == [k \in 1..Len(list) |-> list[k].traffic \div GB]
  <1>1. Len(list) \in Nat /\ \A k \in 1..Len(list) : list[k].traffic \in Nat
    <2>1. Len(list) \in Nat /\ \A k \in 1..Len(list) : list[k] \in RowType
      OBVIOUS
    <2>. QED  BY <2>1 DEF RowType
  <1>2. \A k \in 1..Len(list) : list[k].traffic \div GB \in Nat
    <2>1. GB \in Nat /\ GB > 0
      BY SummaryAssumption
    <2>2. \A x \in Nat : x \div GB \in Nat
      BY <2>1
    <2>. QED  BY <1>1, <2>2
  <1>3. \A k \in 1..Len(list) : f[k] = list[k].traffic \div GB /\ f[k] \in Nat
    BY <1>2
  <1>4. \A S : Weight(list, S) = SumFunctionOnSet(f, S)
    BY DEF Weight
  <1>. HIDE DEF f
  <1>5. ASSUME NEW S \in SUBSET (1..Len(list))
        PROVE  /\ IsFiniteSet(S) /\ Weight(list, S) \in Nat
               /\ Weight(list, S) = SumFunction([k \in S |-> list[k].traffic \div GB])
    <2>1. IsFiniteSet(S)
      <3>1. IsFiniteSet(1..Len(list))
        BY <1>1, CountUpTo
      <3>. QED  BY <3>1, FS_Subset
    <2>2. Weight(list, S) \in Nat
      BY <1>3, <1>4, <2>1, SumNat
    <2>. DEFINE g == [k \in S |-> list[k].traffic \div GB]
    <2>3. SumFunction(g) = SumFunctionOnSet(g, S)
      BY DEF SumFunction
    <2>4. \A k \in S : g[k] = f[k]
      BY <1>3
    <2>. HIDE DEF g
    <2>5. SumFunctionOnSet(g, S) = SumFunctionOnSet(f, S)
      BY <2>1, <2>4, SumSame
    <2>6. Weight(list, S) = SumFunction(g)
      BY <1>4, <2>3, <2>5
    <2>. QED  BY <2>1, <2>2, <2>6 DEF g
  <1>6. ASSUME NEW m \in 1..Len(list)
        PROVE  Weight(list, 1..m) = list[m].traffic \div GB + Weight(list, 1..(m - 1))
    <2>1. 1..m = (1..(m - 1)) \cup {m} /\ m \notin 1..(m - 1)
      BY <1>1
    <2>2. (1..(m - 1)) \in SUBSET (1..Len(list))
      BY <1>1
    <2>3. IsFiniteSet(1..(m - 1)) /\ \A k \in (1..(m - 1)) \cup {m} : f[k] \in Nat
      BY <1>3, <1>5, <2>2
    <2>4. SumFunctionOnSet(f, (1..(m - 1)) \cup {m}) = f[m] + SumFunctionOnSet(f, 1..(m - 1))
      BY <2>1, <2>3, SumAdd
    <2>. QED  BY <1>3, <1>4, <2>1, <2>4
  <1>7. Weight(list, 1..0) = 0
    <2>1. 1..0 = {}
      OBVIOUS
    <2>. QED  BY <1>4, <2>1, SumEmpty
  <1>. QED  BY <1>1, <1>2, <1>5, <1>6, <1>7

LEMMA WriteRowInv ==
  ASSUME IInv, WriteRow
  PROVE  IInv'
  <1>. DEFINE x == iplogs[line]
  <1>. USE DEF IInv
  <1>1. /\ phase = "write" /\ line <= Len(iplogs) /\ phase' = "write" /\ line' = line + 1
        /\ dir' = dir /\ file' = file /\ guaranted' = guaranted
        /\ log_started' = log_started /\ log_ended' = log_ended
        /\ x.traffic = 0 => iplogs' = iplogs /\ i' = i /\ total' = total
        /\ x.traffic # 0 => /\ iplogs' = [iplogs EXCEPT ![line] = Ranked(x)]
                            /\ total' = total + x.traffic \div GB /\ i' = i + 1
    BY DEF WriteRow
  <1>2. /\ iplogs \in Seq(RowType) /\ Len(iplogs) \in Nat /\ line \in 1..Len(iplogs)
        /\ line \in Nat /\ x \in RowType /\ x.traffic \in Nat /\ x.traffic \div GB \in Nat
        /\ i \in 1..line /\ i \in Nat /\ total \in Nat
        /\ total = Weight(iplogs, 1..(i - 1))
    <2>1. iplogs \in Seq(RowType) /\ Len(iplogs) \in Nat /\ line \in Nat \ {0}
      BY DEF Typed
    <2>2. line \in 1..Len(iplogs) /\ x \in RowType
      BY <1>1, <2>1
    <2>3. i \in 1..line /\ total = Weight(iplogs, 1..(i - 1))
      BY <1>1 DEF Ranking
    <2>4. (1..(i - 1)) \in SUBSET (1..Len(iplogs))
      BY <2>1, <2>2, <2>3
    <2>5. total \in Nat
      BY <2>1, <2>3, <2>4, WeightFacts
    <2>. QED  BY <2>1, <2>2, <2>3, <2>5, WeightFacts
  <1>3. x.traffic # 0 => i = line
    <2>. SUFFICES ASSUME x.traffic # 0, i # line PROVE FALSE
      OBVIOUS
    <2>1. i \in 1..(line - 1) /\ i \in 1..Len(iplogs) /\ i < line
      BY <1>2
    <2>2. ~(iplogs[i].traffic > 0)
      BY <1>1, <2>1 DEF Ranking
    <2>3. iplogs[i].traffic >= x.traffic
      BY <1>2, <2>1 DEF Listed
    <2>4. iplogs[i].traffic \in Nat
      BY <1>2, <2>1, WeightFacts
    <2>. QED  BY <1>2, <2>2, <2>3, <2>4
  <1>. DEFINE y == Ranked(x)
  <1>4. /\ y \in RowType /\ y.file = x.file /\ y.traffic = x.traffic
        /\ y.logged_time = x.logged_time /\ y.avg = x.avg
        /\ y.i = i + 1 /\ y.l = total + x.traffic \div GB
    <2>1. y = [x EXCEPT !.i = i + 1, !.l = total + x.traffic \div GB]
      BY DEF Ranked
    <2>2. total + x.traffic \div GB \in Nat /\ i + 1 \in Nat
      BY <1>2
    <2>. HIDE DEF y, x
    <2>. QED  BY <1>2, <2>1, <2>2 DEF RowType
  <1>5. /\ iplogs' \in Seq(RowType) /\ Len(iplogs') = Len(iplogs)
        /\ \A k \in 1..Len(iplogs) :
             /\ iplogs'[k] = IF k = line /\ x.traffic # 0 THEN y ELSE iplogs[k]
             /\ iplogs'[k].file = iplogs[k].file /\ iplogs'[k].traffic = iplogs[k].traffic
             /\ iplogs'[k].logged_time = iplogs[k].logged_time /\ iplogs'[k].avg = iplogs[k].avg
    <2>1. CASE x.traffic = 0
      BY <1>1, <1>2, <2>1
    <2>2. CASE x.traffic # 0
      <3>1. iplogs' = [iplogs EXCEPT ![line] = y]
        BY <1>1, <2>2
      <3>. HIDE DEF y
      <3>2. /\ iplogs' \in Seq(RowType) /\ Len(iplogs') = Len(iplogs)
            /\ \A k \in 1..Len(iplogs) : iplogs'[k] = IF k = line THEN y ELSE iplogs[k]
        BY <1>2, <1>4, <3>1
      <3>. QED  BY <1>4, <2>2, <3>2
    <2>. QED  BY <2>1, <2>2
  <1>. HIDE DEF y
  <1>6. Typed'
    BY <1>1, <1>2, <1>5 DEF Typed
  <1>7. Counted'
    BY <1>1 DEF Counted
  <1>8. Timed'
    <2>1. /\ Past' = Past /\ StartTime' = StartTime /\ EndTime' = EndTime
          /\ ~Within /\ ~Within'
      BY <1>1, DirFixed DEF Past, Within
    <2>. QED  BY <1>1, <2>1 DEF Timed
  <1>9. Listed'
    <2>1. Accepted' = Accepted /\ FirstPeriod' = FirstPeriod
      BY <1>1, DirFixed
    <2>2. \A k \in 1..Len(iplogs) : (GoodRow(iplogs[k]))'
      <3>. SUFFICES ASSUME NEW k \in 1..Len(iplogs) PROVE (GoodRow(iplogs[k]))'
        OBVIOUS
      <3>1. GoodRow(iplogs[k])
        BY DEF Listed
      <3>2. (MonthTotal(iplogs[k].file))' = MonthTotal(iplogs[k].file)
        <4>1. iplogs'[k].file = iplogs[k].file
          BY <1>5
        <4>. QED  BY <1>1, <4>1 DEF MonthTotal, OfMonth
      <3>. QED  BY <1>1, <1>5, <2>1, <3>1, <3>2 DEF GoodRow
    <2>3. \A k, j \in 1..Len(iplogs) : iplogs'[k].file = iplogs'[j].file => k = j
      BY <1>5 DEF Listed
    <2>4. \A k, j \in 1..Len(iplogs) : k < j => iplogs'[k].traffic >= iplogs'[j].traffic
      BY <1>5 DEF Listed
    <2>5. \A n \in Accepted : n < file => \E k \in 1..Len(iplogs) : iplogs'[k].file = n
      BY <1>1, <1>5 DEF Listed
    <2>. QED  BY <1>1, <1>5, <2>1, <2>2, <2>3, <2>4, <2>5 DEF Listed
  <1>10. Ranking'
    <2>1. \A S : Weight(iplogs', S) = Weight(iplogs, S)
      <3>1. [k \in 1..Len(iplogs') |-> iplogs'[k].traffic \div GB]
              = [k \in 1..Len(iplogs) |-> iplogs[k].traffic \div GB]
        BY <1>5
      <3>. QED  BY <3>1 DEF Weight
    <2>2. /\ \A k \in 1..(line - 1) : k < i <=> iplogs[k].traffic > 0
          /\ \A k \in 1..(i - 1) : iplogs[k].i = k + 1 /\ iplogs[k].l = Weight(iplogs, 1..k)
      BY <1>1 DEF Ranking
    <2>3. CASE x.traffic = 0
      <3>1. iplogs' = iplogs /\ i' = i /\ total' = total
        BY <1>1, <2>3
      <3>2. line' <= Len(iplogs') + 1 /\ i' \in 1..line'
        BY <1>1, <1>2, <3>1
      <3>3. \A k \in 1..line : k < i <=> iplogs[k].traffic > 0
        <4>1. \A k \in 1..line : k \in 1..(line - 1) \/ k = line
          BY <1>2
        <4>2. ~(line < i) /\ ~(iplogs[line].traffic > 0)
          BY <1>2, <2>3
        <4>. QED  BY <2>2, <4>1, <4>2
      <3>4. line' - 1 = line
        BY <1>1, <1>2
      <3>5. \A S : (Weight(iplogs, S))' = Weight(iplogs', S)
        BY DEF Weight
      <3>. QED  BY <1>1, <1>2, <2>2, <3>1, <3>2, <3>3, <3>4, <3>5 DEF Ranking
    <2>4. CASE x.traffic # 0
      <3>1. i = line /\ i' = line + 1 /\ total' = total + x.traffic \div GB
        BY <1>1, <1>3, <2>4
      <3>2. /\ line' <= Len(iplogs') + 1 /\ i' \in 1..line'
            /\ line' - 1 = line /\ i' - 1 = line
        BY <1>1, <1>2, <1>5, <3>1
      <3>3. total' = Weight(iplogs, 1..line)
        <4>1. Weight(iplogs, 1..line) = x.traffic \div GB + Weight(iplogs, 1..(line - 1))
          BY <1>2, WeightFacts
        <4>. QED  BY <1>2, <3>1, <4>1
      <3>4. \A k \in 1..line : k \in 1..Len(iplogs) /\ (k \in 1..(line - 1) \/ k = line)
                               /\ k < i'
        BY <1>2, <3>1
      <3>5. \A k \in 1..line : iplogs'[k].traffic > 0
        <4>1. iplogs[line].traffic > 0
          BY <1>2, <2>4
        <4>2. \A k \in 1..(line - 1) : k < i
          BY <1>2, <3>1
        <4>. QED  BY <1>5, <2>2, <3>4, <4>1, <4>2
      <3>6. \A k \in 1..line : iplogs'[k].i = k + 1 /\ iplogs'[k].l = Weight(iplogs', 1..k)
        <4>. SUFFICES ASSUME NEW k \in 1..line
                      PROVE  iplogs'[k].i = k + 1 /\ iplogs'[k].l = Weight(iplogs', 1..k)
          OBVIOUS
        <4>1. CASE k = line
          <5>1. iplogs'[k] = y
            BY <1>2, <1>5, <2>4, <4>1
          <5>2. y.l = total'
            BY <1>4, <3>1
          <5>. QED  BY <1>4, <2>1, <3>1, <3>3, <4>1, <5>1, <5>2
        <4>2. CASE k # line
          <5>1. k \in 1..(i - 1)
            BY <3>1, <3>4, <4>2
          <5>2. iplogs'[k] = iplogs[k]
            BY <1>5, <3>4, <4>2
          <5>. QED  BY <2>1, <2>2, <5>1, <5>2
        <4>. QED  BY <4>1, <4>2
      <3>7. \A S : (Weight(iplogs, S))' = Weight(iplogs', S)
        BY DEF Weight
      <3>8. (total = Weight(iplogs, 1..(i - 1)))'
        <4>1. (Weight(iplogs, 1..(i - 1)))' = Weight(iplogs', 1..line)
          BY <3>2 DEF Weight
        <4>. QED  BY <2>1, <3>3, <4>1
      <3>9. (\A k \in 1..(line - 1) : k < i <=> iplogs[k].traffic > 0)'
        BY <3>2, <3>4, <3>5
      <3>10. (\A k \in 1..(i - 1) : iplogs[k].i = k + 1 /\ iplogs[k].l = Weight(iplogs, 1..k))'
        <4>1. \A k : (Weight(iplogs, 1..k))' = Weight(iplogs', 1..k)
          BY DEF Weight
        <4>. QED  BY <3>2, <3>6, <4>1
      <3>. QED  BY <1>1, <3>2, <3>8, <3>9, <3>10 DEF Ranking
    <2>. QED  BY <2>3, <2>4
  <1>11. DiesOfNothing'
    BY <1>1 DEF DiesOfNothing
  <1>. QED  BY <1>6, <1>7, <1>8, <1>9, <1>10, <1>11

(* Once all are read, there is one row for each log of the month.          *)
LEMMA AllListed ==
  ASSUME Typed, Listed, phase # "dead", file = Len(dir) + 1
  PROVE  /\ {iplogs[k].file : k \in 1..Len(iplogs)} = Accepted
         /\ IsFiniteSet(Accepted) /\ Len(iplogs) = Cardinality(Accepted)
         /\ \A k \in 1..Len(iplogs) :
              iplogs[k].file \in Accepted /\ iplogs[k].traffic = MonthTotal(iplogs[k].file)
         /\ \A n \in Accepted : \E k \in 1..Len(iplogs) : iplogs[k].file = n
         /\ \A k, j \in 1..Len(iplogs) : iplogs[k].file = iplogs[j].file => k = j
  <1>1. /\ \A k \in 1..Len(iplogs) :
              iplogs[k].file \in Accepted /\ iplogs[k].traffic = MonthTotal(iplogs[k].file)
        /\ \A k, j \in 1..Len(iplogs) : iplogs[k].file = iplogs[j].file => k = j
    BY DEF Listed, GoodRow
  <1>2. \A n \in Accepted : \E k \in 1..Len(iplogs) : iplogs[k].file = n
    <2>1. \A n \in Accepted : n < file
      <3>1. \A n \in Accepted : n \in 1..Len(dir)
        BY DEF Accepted
      <3>2. Len(dir) \in Nat
        BY DEF Typed
      <3>. QED  BY <3>1, <3>2
    <2>. QED  BY <2>1 DEF Listed
  <1>3. {iplogs[k].file : k \in 1..Len(iplogs)} = Accepted
    BY <1>1, <1>2
  <1>4. IsFiniteSet(Accepted) /\ Len(iplogs) = Cardinality(Accepted)
    <2>1. Len(iplogs) \in Nat
      BY DEF Typed
    <2>2. IsFiniteSet(1..Len(iplogs)) /\ Cardinality(1..Len(iplogs)) = Len(iplogs)
      BY <2>1, CountUpTo
    <2>. DEFINE p == [k \in 1..Len(iplogs) |-> iplogs[k].file]
                s == 1..Len(iplogs)
    <2>3. /\ p \in [s -> Accepted]
          /\ \A k, j \in s : p[k] = p[j] => k = j
          /\ \A n \in Accepted : \E k \in s : p[k] = n
      BY <1>1, <1>2
    <2>4. IsFiniteSet(s) /\ Cardinality(s) = Len(iplogs)
      BY <2>2
    <2>. HIDE DEF p, s
    <2>. QED  BY <2>3, <2>4, SameCount
  <1>. QED  BY <1>1, <1>2, <1>3, <1>4

LEMMA TableInv ==
  ASSUME IInv, Table
  PROVE  IInv'
  <1>. USE DEF IInv
  <1>1. /\ phase = "write" /\ line > Len(iplogs) /\ phase' \in {"dead", "done"}
        /\ phase' = "dead" => HasTable /\ total = 0
        /\ dir' = dir /\ file' = file /\ line' = line /\ guaranted' = guaranted
        /\ log_started' = log_started /\ log_ended' = log_ended
        /\ iplogs' = iplogs /\ i' = i /\ total' = total
    BY DEF Table, read_vars
  <1>2. /\ iplogs \in Seq(RowType) /\ Len(iplogs) \in Nat /\ line = Len(iplogs) + 1
        /\ i \in 1..line /\ total = Weight(iplogs, 1..(i - 1))
        /\ \A k \in 1..Len(iplogs) : k < i <=> iplogs[k].traffic > 0
        /\ file = Len(dir) + 1
    <2>1. iplogs \in Seq(RowType) /\ Len(iplogs) \in Nat /\ line \in Nat
      BY DEF Typed
    <2>2. line = Len(iplogs) + 1
      BY <1>1, <2>1 DEF Ranking
    <2>3. line - 1 = Len(iplogs)
      BY <2>1, <2>2
    <2>. QED  BY <1>1, <2>1, <2>2, <2>3 DEF Ranking, Counted
  <1>3. Typed'
    BY <1>1 DEF Typed
  <1>4. Counted'
    BY <1>1, <1>2 DEF Counted
  <1>5. Timed'
    <2>1. /\ Past' = Past /\ StartTime' = StartTime /\ EndTime' = EndTime
          /\ ~Within /\ ~Within'
      BY <1>1, DirFixed DEF Past, Within
    <2>. QED  BY <1>1, <2>1 DEF Timed
  <1>6. Listed'
    BY <1>1, ListedKept
  <1>7. Ranking'
    <2>1. \A S : (Weight(iplogs, S))' = Weight(iplogs, S)
      BY <1>1 DEF Weight
    <2>2. (Weight(iplogs, 1..(i - 1)))' = Weight(iplogs, 1..(i - 1))
      BY <1>1 DEF Weight
    <2>. QED  BY <1>1, <1>2, <2>1, <2>2 DEF Ranking
  <1>8. ASSUME phase' = "dead"
        PROVE  /\ Cardinality({n \in Accepted : MonthTotal(n) > 0}) >= Top
               /\ \A n \in Accepted : MonthTotal(n) < GB
    <2>1. i > Top /\ total = 0 /\ Top \in Nat /\ GB \in Nat /\ GB > 0
      BY <1>1, <1>8, SummaryAssumption DEF HasTable
    <2>. DEFINE s == 1..(i - 1)
                t == {n \in Accepted : MonthTotal(n) > 0}
                p == [k \in s |-> iplogs[k].file]
    <2>2. /\ \A k \in s : k \in 1..Len(iplogs) /\ k < i
          /\ \A k \in 1..Len(iplogs) : k < i => k \in s
          /\ s \in SUBSET (1..Len(iplogs)) /\ i - 1 \in Nat
      BY <1>2
    <2>3. /\ \A k \in 1..Len(iplogs) :
                iplogs[k].file \in Accepted /\ iplogs[k].traffic = MonthTotal(iplogs[k].file)
          /\ \A n \in Accepted : \E k \in 1..Len(iplogs) : iplogs[k].file = n
          /\ \A k, j \in 1..Len(iplogs) : iplogs[k].file = iplogs[j].file => k = j
      BY <1>1, <1>2, AllListed
    <2>4. IsFiniteSet(s) /\ Cardinality(s) = i - 1
      BY <2>2, CountUpTo
    <2>. HIDE DEF s
    <2>5. /\ p \in [s -> t]
          /\ \A k, j \in s : p[k] = p[j] => k = j
          /\ \A n \in t : \E k \in s : p[k] = n
      <3>1. \A k \in s : iplogs[k].file \in t
        BY <1>2, <2>2, <2>3
      <3>2. \A n \in t : \E k \in s : iplogs[k].file = n
        <4>. SUFFICES ASSUME NEW n \in t PROVE \E k \in s : iplogs[k].file = n
          OBVIOUS
        <4>1. PICK k \in 1..Len(iplogs) : iplogs[k].file = n
          BY <2>3
        <4>2. iplogs[k].traffic > 0
          BY <2>3, <4>1
        <4>. QED  BY <1>2, <2>2, <4>1, <4>2
      <3>. HIDE DEF t
      <3>. QED  BY <2>2, <2>3, <3>1, <3>2
    <2>6. Cardinality(t) >= Top
      <3>1. Cardinality(t) = i - 1
        <4>. HIDE DEF p, t
        <4>. QED  BY <2>4, <2>5, SameCount
      <3>. QED  BY <1>2, <2>1, <3>1
    <2>7. ASSUME NEW k \in 1..Len(iplogs)
          PROVE  iplogs[k].traffic < GB
      <3>1. iplogs[k].traffic \in Nat /\ iplogs[k].traffic \div GB \in Nat
        BY <1>2, WeightFacts
      <3>2. CASE k < i
        <4>. DEFINE f == [m \in 1..Len(iplogs) |-> iplogs[m].traffic \div GB]
        <4>1. SumFunctionOnSet(f, s) = 0
          BY <1>2, <2>1 DEF Weight, s
        <4>2. \A m \in 1..Len(iplogs) : f[m] \in Nat
          BY <1>2, WeightFacts
        <4>3. f[k] = iplogs[k].traffic \div GB
          OBVIOUS
        <4>. HIDE DEF f
        <4>4. \A m \in s : f[m] \in Nat
          BY <2>2, <4>2
        <4>5. k \in s
          BY <2>2, <3>2
        <4>6. \A m \in s : f[m] = 0
          <5>1. IsFiniteSet(s) /\ \A m \in s : f[m] \in Nat
            BY <2>4, <4>4
          <5>. HIDE DEF s
          <5>. QED  BY <4>1, <5>1, SumOfNothing
        <4>8. iplogs[k].traffic \div GB = 0
          BY <4>3, <4>5, <4>6
        <4>9. \A m \in Nat : m \div GB = 0 => m < GB
          BY <2>1
        <4>. QED  BY <3>1, <4>8, <4>9
      <3>3. CASE ~(k < i)
        <4>1. ~(iplogs[k].traffic > 0)
          BY <1>2, <3>3
        <4>. QED  BY <2>1, <3>1, <4>1
      <3>. QED  BY <3>2, <3>3
    <2>8. \A n \in Accepted : MonthTotal(n) < GB
      <3>. SUFFICES ASSUME NEW n \in Accepted PROVE MonthTotal(n) < GB
        OBVIOUS
      <3>1. PICK k \in 1..Len(iplogs) : iplogs[k].file = n
        BY <2>3
      <3>2. iplogs[k].traffic = MonthTotal(n)
        BY <2>3, <3>1
      <3>. QED  BY <2>7, <3>2
    <2>. QED  BY <2>6, <2>8
  <1>9. DiesOfNothing'
    <2>1. Accepted' = Accepted /\ \A n : MonthTotal(n)' = MonthTotal(n)
      BY <1>1, DirFixed
    <2>2. ({n \in Accepted : MonthTotal(n) > 0})' = {n \in Accepted : MonthTotal(n) > 0}
      BY <2>1
    <2>. QED  BY <1>8, <2>1, <2>2 DEF DiesOfNothing
  <1>. QED  BY <1>3, <1>4, <1>5, <1>6, <1>7, <1>9

LEMMA StutterInv ==
  ASSUME IInv, UNCHANGED vars
  PROVE  IInv'
  <1>. USE DEF IInv
  <1>1. /\ dir' = dir /\ file' = file /\ line' = line /\ phase' = phase
        /\ log_timestamp' = log_timestamp /\ log_started' = log_started
        /\ log_ended' = log_ended /\ accept_month' = accept_month
        /\ traffic_month' = traffic_month /\ guaranted' = guaranted
        /\ iplogs' = iplogs /\ i' = i /\ total' = total
    BY DEF vars, read_vars
  <1>2. Typed'
    BY <1>1 DEF Typed
  <1>3. Counted'
    BY <1>1 DEF Counted, Upto, Traffic, OfMonth
  <1>4. Timed'
    <2>1. /\ Accepted' = Accepted /\ First' = First /\ After' = After
          /\ StartTime' = StartTime /\ EndTime' = EndTime
      BY <1>1, DirFixed
    <2>2. Past' = Past
      BY <1>1, <2>1 DEF Past
    <2>3. Within' = Within
      BY <1>1, <2>1, <2>2 DEF Within, OfMonth
    <2>. QED  BY <1>1, <2>1, <2>2, <2>3 DEF Timed
  <1>5. Listed'
    <2>1. Accepted' = Accepted /\ FirstPeriod' = FirstPeriod
      BY <1>1, DirFixed
    <2>. QED  BY <1>1, <2>1 DEF Listed, GoodRow, MonthTotal, OfMonth
  <1>6. Ranking'
    BY <1>1 DEF Ranking, Weight
  <1>7. DiesOfNothing'
    <2>1. /\ Accepted' = Accepted /\ FirstPeriod' = FirstPeriod
          /\ \A n : MonthTotal(n)' = MonthTotal(n)
      BY <1>1, DirFixed
    <2>2. ({n \in Accepted : MonthTotal(n) > 0})' = {n \in Accepted : MonthTotal(n) > 0}
      BY <2>1
    <2>. QED  BY <1>1, <2>1, <2>2 DEF DiesOfNothing
  <1>. QED  BY <1>2, <1>3, <1>4, <1>5, <1>6, <1>7

LEMMA Invariance ==
  Spec => []IInv
  <1>1. IInv /\ [Next]_vars => IInv'
    <2>. SUFFICES ASSUME IInv, [Next]_vars PROVE IInv'
      OBVIOUS
    <2>. QED  BY OpenInv, ReadInv, EmptyLineInv, CloseInv, AllReadInv, WriteRowInv, TableInv,
                 StutterInv DEF Next
  <1>. QED  BY InitInv, <1>1, PTL DEF Spec

-----------------------------------------------------------------------------

(* Whatever the logs: the page has each log with records of the month      *)
(* once, with the sum of just these records, the heavier before the        *)
(* lighter (parselogs.c:107-160).                                          *)
THEOREM PageIsOfTheMonth ==
  Spec => []MonthTotals
  <1>1. ASSUME IInv PROVE MonthTotals
    <2>1. Typed /\ Counted /\ Listed
      BY <1>1 DEF IInv
    <2>. SUFFICES ASSUME phase \in {"write", "done"}
                  PROVE  /\ {iplogs[k].file : k \in 1..Len(iplogs)} = Accepted
                         /\ Len(iplogs) = Cardinality(Accepted)
                         /\ \A k \in 1..Len(iplogs) :
                              iplogs[k].traffic = MonthTotal(iplogs[k].file)
                         /\ \A k \in 1..(Len(iplogs) - 1) :
                              iplogs[k].traffic >= iplogs[k + 1].traffic
      BY DEF MonthTotals
    <2>2. file = Len(dir) + 1 /\ phase # "dead"
      BY <2>1 DEF Counted
    <2>3. \A k \in 1..(Len(iplogs) - 1) : iplogs[k].traffic >= iplogs[k + 1].traffic
      <3>1. Len(iplogs) \in Nat
        BY <2>1 DEF Typed
      <3>2. \A k \in 1..(Len(iplogs) - 1) :
              k \in 1..Len(iplogs) /\ k + 1 \in 1..Len(iplogs) /\ k < k + 1
        BY <3>1
      <3>. QED  BY <2>1, <3>2 DEF Listed
    <2>. QED  BY <2>1, <2>2, <2>3, AllListed
  <1>2. IInv => MonthTotals
    BY <1>1
  <1>. QED  BY Invariance, <1>2, PTL

(* Whatever the logs: all averages are over the time of the log that ls    *)
(* lists first (parselogs.c:126-135).                                      *)
THEOREM AveragesAreOverOnePeriod ==
  Spec => []OnePeriod
  <1>1. IInv => OnePeriod
    BY DEF IInv, Listed, GoodRow, OnePeriod
  <1>. QED  BY Invariance, <1>1, PTL

(* A sum is that of what is in a set and of what is not.                   *)
LEMMA SumSplit ==
  ASSUME NEW f, NEW s, IsFiniteSet(s), \A x \in s : f[x] \in Nat, NEW t
  PROVE  /\ SumFunctionOnSet(f, s)
              = SumFunctionOnSet(f, s \cap t) + SumFunctionOnSet(f, s \ t)
         /\ SumFunctionOnSet(f, s \cap t) \in Nat /\ SumFunctionOnSet(f, s \ t) \in Nat
  <1>. DEFINE r == s \cap t
              c == s \ t
  <1>1. r \in SUBSET s /\ s \ r = c /\ c \in SUBSET s
    OBVIOUS
  <1>2. /\ IsFiniteSet(r) /\ IsFiniteSet(c)
        /\ \A x \in r : f[x] \in Nat
        /\ \A x \in c : f[x] \in Nat
    BY <1>1, FS_Subset
  <1>. HIDE DEF r, c
  <1>3. SumFunctionOnSet(f, s) = SumFunctionOnSet(f, r) + SumFunctionOnSet(f, s \ r)
    BY <1>1, SumParts
  <1>4. SumFunctionOnSet(f, r) \in Nat /\ SumFunctionOnSet(f, c) \in Nat
    BY <1>2, SumNat
  <1>. QED  BY <1>1, <1>3, <1>4 DEF r, c

(* What is in one set only is lighter than what is in the other only.      *)
LEMMA SumLighter ==
  ASSUME NEW f, NEW s, IsFiniteSet(s), NEW t, IsFiniteSet(t),
         \A x \in s : f[x] \in Nat, \A x \in t : f[x] \in Nat,
         \A x \in s \ t, y \in t \ s : f[x] <= f[y], Cardinality(s) = Cardinality(t)
  PROVE  SumFunctionOnSet(f, s) <= SumFunctionOnSet(f, t)
  <1>1. /\ SumFunctionOnSet(f, s)
             = SumFunctionOnSet(f, s \cap t) + SumFunctionOnSet(f, s \ t)
        /\ SumFunctionOnSet(f, s \cap t) \in Nat /\ SumFunctionOnSet(f, s \ t) \in Nat
    BY SumSplit
  <1>2. /\ SumFunctionOnSet(f, t)
             = SumFunctionOnSet(f, t \cap s) + SumFunctionOnSet(f, t \ s)
        /\ SumFunctionOnSet(f, t \ s) \in Nat
    BY SumSplit
  <1>3. t \cap s = s \cap t
    OBVIOUS
  <1>. DEFINE c == s \ t
              d == t \ s
  <1>4. IsFiniteSet(c) /\ IsFiniteSet(d) /\ \A x \in c \cup d : f[x] \in Nat
    BY FS_Subset
  <1>5. Cardinality(c) = Cardinality(d)
    <2>1. /\ Cardinality(s \ t) = Cardinality(s) - Cardinality(s \cap t)
          /\ Cardinality(t \ s) = Cardinality(t) - Cardinality(t \cap s)
      BY FS_Difference
    <2>. QED  BY <1>3, <2>1
  <1>6. \A x \in c, y \in d : f[x] <= f[y]
    OBVIOUS
  <1>. HIDE DEF c, d
  <1>7. SumFunctionOnSet(f, c) <= SumFunctionOnSet(f, d)
    BY <1>4, <1>5, <1>6, SumSmaller
  <1>. QED  BY <1>1, <1>2, <1>3, <1>7 DEF c, d

(* Rows in falling order: none of k rows is heavier than the first k.      *)
LEMMA FirstAreHeaviest ==
  ASSUME Typed, Listed, NEW k \in 1..Len(iplogs),
         NEW S \in SUBSET (1..Len(iplogs)), Cardinality(S) = k
  PROVE  Weight(iplogs, S) <= Weight(iplogs, 1..k)
  <1>. DEFINE f == [m \in 1..Len(iplogs) |-> iplogs[m].traffic \div GB]
              P == 1..k
  <1>1. iplogs \in Seq(RowType) /\ Len(iplogs) \in Nat
    BY DEF Typed
  <1>2. /\ \A m \in 1..Len(iplogs) : f[m] \in Nat
        /\ \A x, y \in 1..Len(iplogs) : y < x => f[x] <= f[y]
    <2>1. \A m \in 1..Len(iplogs) :
            iplogs[m].traffic \in Nat /\ iplogs[m].traffic \div GB \in Nat
      BY <1>1, WeightFacts
    <2>2. \A a, b \in Nat : a <= b => a \div GB <= b \div GB
      <3>1. GB \in Nat /\ GB > 0
        BY SummaryAssumption
      <3>. QED  BY <3>1
    <2>3. \A x, y \in 1..Len(iplogs) : y < x => iplogs[x].traffic <= iplogs[y].traffic
      BY <2>1 DEF Listed
    <2>. QED  BY <2>1, <2>2, <2>3
  <1>3. P \in SUBSET (1..Len(iplogs)) /\ IsFiniteSet(P) /\ Cardinality(P) = k
    BY <1>1, CountUpTo
  <1>4. IsFiniteSet(S)
    BY <1>1, CountUpTo, FS_Subset
  <1>5. \A x \in S \ P, y \in P \ S : f[x] <= f[y]
    <2>. SUFFICES ASSUME NEW x \in S \ P, NEW y \in P \ S
                  PROVE  f[x] <= f[y]
      OBVIOUS
    <2>1. x \in 1..Len(iplogs) /\ y \in 1..Len(iplogs) /\ y < x
      BY <1>1, <1>3
    <2>. HIDE DEF f
    <2>. QED  BY <1>2, <2>1
  <1>6. /\ Weight(iplogs, S) = SumFunctionOnSet(f, S)
        /\ Weight(iplogs, 1..k) = SumFunctionOnSet(f, P)
    BY DEF Weight
  <1>. HIDE DEF P, f
  <1>7. (\A x \in S : f[x] \in Nat) /\ \A x \in P : f[x] \in Nat
    BY <1>2, <1>3
  <1>8. SumFunctionOnSet(f, S) <= SumFunctionOnSet(f, P)
    BY <1>3, <1>4, <1>5, <1>7, SumLighter
  <1>. QED  BY <1>6, <1>8

(* Whatever the logs: the sum of a row is that of it and the rows above    *)
(* it, and no other choice of as many rows has more (parselogs.c:209-211). *)
THEOREM SumsAreOfTheHeaviest ==
  Spec => []SumsOfHeaviest
  <1>1. ASSUME IInv PROVE SumsOfHeaviest
    <2>. DEFINE ranked == {k \in 1..Len(iplogs) : iplogs[k].traffic > 0}
                Total(S) == GBOf(S)
    <2>. SUFFICES ASSUME phase = "done"
                  PROVE  /\ i = Cardinality(ranked) + 1 /\ total = Total(ranked)
                         /\ \A k \in ranked :
                              /\ iplogs[k].l = Total(1..k)
                              /\ \A S \in SUBSET ranked :
                                   Cardinality(S) = k => Total(S) <= iplogs[k].l
      BY DEF SumsOfHeaviest, Ranks
    <2>1. Typed /\ Listed /\ Ranking /\ iplogs \in Seq(RowType) /\ Len(iplogs) \in Nat
      BY <1>1 DEF IInv, Typed
    <2>2. line = Len(iplogs) + 1 /\ i \in 1..line /\ total = Weight(iplogs, 1..(i - 1))
      BY <2>1 DEF Ranking
    <2>3. line - 1 = Len(iplogs) /\ i \in Nat /\ i - 1 \in Nat
      BY <2>1, <2>2
    <2>4. /\ \A k \in 1..Len(iplogs) : k < i <=> iplogs[k].traffic > 0
          /\ \A k \in 1..(i - 1) : iplogs[k].i = k + 1 /\ iplogs[k].l = Weight(iplogs, 1..k)
      BY <2>1, <2>3 DEF Ranking
    <2>5. ranked = 1..(i - 1) /\ ranked \in SUBSET (1..Len(iplogs))
      <3>1. \A k \in Int : k \in 1..(i - 1) <=> k \in 1..Len(iplogs) /\ k < i
        BY <2>1, <2>2, <2>3
      <3>2. \A k : k \in ranked <=> k \in 1..Len(iplogs) /\ k < i
        BY <2>4
      <3>3. \A k : k \in ranked <=> k \in 1..(i - 1)
        BY <3>1, <3>2
      <3>. QED  BY <3>3
    <2>6. \A S \in SUBSET (1..Len(iplogs)) : Weight(iplogs, S) = Total(S)
      BY <2>1, WeightFacts DEF GBOf
    <2>7. Cardinality(1..(i - 1)) = i - 1
      BY <2>3, CountUpTo
    <2>. HIDE DEF ranked, Total
    <2>8. i = Cardinality(ranked) + 1 /\ total = Total(ranked)
      BY <2>2, <2>3, <2>5, <2>6, <2>7
    <2>9. ASSUME NEW k \in ranked
          PROVE  /\ iplogs[k].l = Total(1..k)
                 /\ \A S \in SUBSET ranked : Cardinality(S) = k => Total(S) <= iplogs[k].l
      <3>1. k \in 1..Len(iplogs) /\ k \in 1..(i - 1) /\ k \in Nat
            /\ (1..k) \in SUBSET (1..Len(iplogs))
        BY <2>1, <2>5
      <3>2. iplogs[k].l = Weight(iplogs, 1..k)
        BY <2>4, <3>1
      <3>3. ASSUME NEW S \in SUBSET ranked, Cardinality(S) = k
            PROVE  Total(S) <= iplogs[k].l
        <4>1. S \in SUBSET (1..Len(iplogs))
          BY <2>5
        <4>2. Weight(iplogs, S) <= Weight(iplogs, 1..k)
          BY <2>1, <3>1, <3>3, <4>1, FirstAreHeaviest
        <4>. QED  BY <2>6, <3>2, <4>1, <4>2
      <3>. QED  BY <2>6, <3>1, <3>2, <3>3
    <2>. QED  BY <2>8, <2>9
  <1>2. IInv => SumsOfHeaviest
    BY <1>1
  <1>. QED  BY Invariance, <1>2, PTL

(* Whatever the logs: a run ends by a division when the first log of the   *)
(* month has one record of it and none after it, or when there are Top     *)
(* rows or more and none has a GB (parselogs.c:152, 223-324).              *)
THEOREM DivisionsByNothing ==
  Spec => []DiesOfNothing
  <1>1. IInv => DiesOfNothing
    BY DEF IInv
  <1>. QED  BY Invariance, <1>1, PTL
=============================================================================
