----------------------------- MODULE DataProofs ------------------------------
(***************************************************************************)
(* The Form 4 backfill and the caches of the feed adapters, for every      *)
(* history of listings, faults, crashes and callers.  BackfillInv says     *)
(* that a backfill under way has planned, written or failed exactly what   *)
(* SEC lists in the quarters it has read, and that those are complete;     *)
(* CachesInv what each adapter's disk and callers know of what was         *)
(* published.                                                              *)
(***************************************************************************)
EXTENDS FeedCaches, EdgarBackfill, SequenceTheorems, SumProofs

-----------------------------------------------------------------------------
(* Greatest elements, and sequences as sets.                                *)

\* A finite set of numbers has a greatest and a least element.
LEMMA MaxMinOf ==
  ASSUME NEW S, IsFiniteSet(S), S # {}, S \subseteq Int
  PROVE  /\ Max(S) \in S /\ \A y \in S : y <= Max(S)
         /\ Min(S) \in S /\ \A y \in S : Min(S) <= y
<1> DEFINE Ends == {T \in SUBSET S : T # {} => (\E x \in T : \A y \in T : x >= y) /\ (\E x \in T : \A y \in T : x <= y)}
<1>1. {} \in Ends
  OBVIOUS
<1>2. ASSUME NEW T \in SUBSET S, NEW z \in S \ T, T \in Ends PROVE T \cup {z} \in Ends
  <2>1. CASE T = {}
    BY <2>1
  <2>2. CASE T # {}
    <3>1. PICK a \in T : \A y \in T : a >= y
      BY <1>2, <2>2
    <3>2. PICK b \in T : \A y \in T : b <= y
      BY <1>2, <2>2
    <3>3. \E x \in T \cup {z} : \A y \in T \cup {z} : x >= y
      BY <3>1, a >= z \/ z >= a
    <3>4. \E x \in T \cup {z} : \A y \in T \cup {z} : x <= y
      BY <3>2, b <= z \/ z <= b
    <3> QED BY <3>3, <3>4
  <2> QED BY <2>1, <2>2
<1>3. SUBSET S \subseteq Ends
  <2> HIDE DEF Ends
  <2> QED BY <1>1, <1>2, SubsetInduction
<1>4. (\E x \in S : \A y \in S : x >= y) /\ (\E x \in S : \A y \in S : x <= y)
  BY <1>3
<1>5. Max(S) \in S /\ \A y \in S : Max(S) >= y
  BY <1>4 DEF Max
<1>6. Min(S) \in S /\ \A y \in S : Min(S) <= y
  BY <1>4 DEF Min
<1> QED BY <1>5, <1>6

\* Every number of the sequence a finite set is turned into is one of the set, and back.
LEMMA SetToSeqAll ==
  ASSUME NEW S, IsFiniteSet(S)
  PROVE  SetToSeq(S) \in Seq(S) /\ ToSet(SetToSeq(S)) = S
<1> DEFINE n == Cardinality(S)
<1>1. n \in Nat
  BY FS_CardinalityType
<1>2. \E f \in [1..n -> S] : IsInjective(f)
  <2>1. ExistsBijection(1..n, S)
    BY FS_CardinalityType
  <2>2. PICK f : f \in Bijection(1..n, S)
    BY <2>1 DEF ExistsBijection
  <2>3. f \in [1..n -> S] /\ IsInjective(f)
    BY <2>2 DEF Bijection, Injection, IsInjective
  <2> QED BY <2>3
<1> DEFINE g == SetToSeq(S)
<1>3. g \in [1..n -> S] /\ IsInjective(g)
  BY <1>2 DEF SetToSeq
<1> DEFINE T == {g[i] : i \in 1..n}
<1>4. IsFiniteSet(T) /\ Cardinality(T) = n
  <2> HIDE DEF n, g
  <2>1. g \in Bijection(1..n, T)
    BY <1>3 DEF Bijection, Injection, Surjection, IsInjective
  <2>2. ExistsBijection(1..n, T)
    BY <2>1 DEF ExistsBijection
  <2> QED BY <2>2, <1>1, FS_Interval, FS_Bijection, FS_CountingElements
<1>5. T \subseteq S
  <2> HIDE DEF n, g
  <2> QED BY <1>3
<1>6. T = S
  <2> HIDE DEF T
  <2> QED BY <1>4, <1>5, FS_Subset
<1>7. g \in Seq(S) /\ DOMAIN g = 1..n
  <2> HIDE DEF n, g
  <2> QED BY <1>1, <1>3
<1> QED BY <1>6, <1>7 DEF ToSet

\* The elements of two sequences end to end.
LEMMA ToSetConcat ==
  ASSUME NEW S, NEW s \in Seq(S), NEW t \in Seq(S)
  PROVE  s \o t \in Seq(S) /\ ToSet(s \o t) = ToSet(s) \cup ToSet(t)
<1>1. s \o t \in Seq(S) /\ Len(s \o t) = Len(s) + Len(t)
      /\ \A i \in 1..(Len(s) + Len(t)) : (s \o t)[i] = IF i <= Len(s) THEN s[i] ELSE t[i - Len(s)]
  OBVIOUS
<1>2. \A i \in 1..Len(s) : i \in 1..Len(s \o t) /\ (s \o t)[i] = s[i]
  BY <1>1
<1>3. \A i \in 1..Len(t) : Len(s) + i \in 1..Len(s \o t) /\ (s \o t)[Len(s) + i] = t[i]
  BY <1>1
<1>4. \A i \in 1..Len(s \o t) : i \in 1..Len(s) \/ i - Len(s) \in 1..Len(t)
  BY <1>1
<1>5. DOMAIN s = 1..Len(s) /\ DOMAIN t = 1..Len(t) /\ DOMAIN (s \o t) = 1..Len(s \o t)
  BY <1>1
<1>6. ToSet(s \o t) \subseteq ToSet(s) \cup ToSet(t)
  <2>1. SUFFICES ASSUME NEW i \in 1..Len(s \o t) PROVE (s \o t)[i] \in ToSet(s) \cup ToSet(t)
    BY <1>5 DEF ToSet
  <2>2. CASE i \in 1..Len(s)
    BY <2>2, <1>2, <1>5 DEF ToSet
  <2>3. CASE i \notin 1..Len(s) /\ i - Len(s) \in 1..Len(t)
    <3>1. (s \o t)[i] = t[i - Len(s)]
      BY <2>3, <1>1
    <3> QED BY <3>1, <2>3, <1>5 DEF ToSet
  <2> QED BY <2>2, <2>3, <1>4
<1>7. ToSet(s) \cup ToSet(t) \subseteq ToSet(s \o t)
  BY <1>2, <1>3, <1>5 DEF ToSet
<1> QED BY <1>1, <1>6, <1>7

\* The elements of a sequence are its head and those of its tail.
LEMMA ToSetTail ==
  ASSUME NEW S, NEW s \in Seq(S), s # <<>>
  PROVE  /\ Head(s) \in S /\ Tail(s) \in Seq(S) /\ Len(s) \in Nat /\ Len(s) > 0 /\ Len(Tail(s)) = Len(s) - 1
         /\ Head(s) = s[1] /\ \A i \in 1..(Len(s) - 1) : Tail(s)[i] = s[i + 1]
         /\ ToSet(s) = {Head(s)} \cup ToSet(Tail(s))
<1>1. /\ Head(s) \in S /\ Tail(s) \in Seq(S) /\ Len(s) \in Nat /\ Len(s) > 0 /\ Len(Tail(s)) = Len(s) - 1
      /\ Head(s) = s[1] /\ \A i \in 1..(Len(s) - 1) : Tail(s)[i] = s[i + 1]
  OBVIOUS
<1>2. DOMAIN s = 1..Len(s) /\ DOMAIN Tail(s) = 1..(Len(s) - 1)
  BY <1>1
<1>3. \A i \in 1..Len(s) : i = 1 \/ i - 1 \in 1..(Len(s) - 1)
  BY <1>1
<1>4. ToSet(s) \subseteq {Head(s)} \cup ToSet(Tail(s))
  <2>1. SUFFICES ASSUME NEW i \in 1..Len(s) PROVE s[i] \in {Head(s)} \cup ToSet(Tail(s))
    BY <1>2 DEF ToSet
  <2>2. CASE i # 1
    <3>1. i - 1 \in 1..(Len(s) - 1) /\ Tail(s)[i - 1] = s[i]
      BY <2>2, <1>1, <1>3
    <3> QED BY <3>1, <1>2 DEF ToSet
  <2> QED BY <2>2, <1>1
<1>5. {Head(s)} \cup ToSet(Tail(s)) \subseteq ToSet(s)
  <2>1. \A i \in 1..(Len(s) - 1) : i + 1 \in 1..Len(s)
    BY <1>1
  <2> QED BY <2>1, <1>1, <1>2 DEF ToSet
<1> QED BY <1>1, <1>4, <1>5

-----------------------------------------------------------------------------
(* The Form 4 backfill.                                                     *)

\* A later day is in no earlier quarter.
LEMMA QuarterGrows ==
  ASSUME NEW a \in Int, NEW b \in Int
  PROVE  QuarterOf(a) \in Int /\ QuarterOf(b) \in Int /\ (a <= b => QuarterOf(a) <= QuarterOf(b))
BY EdgarAssumption DEF EdgarAssumption, QuarterOf

\* What the run of a backfill owes of the rows listed once every quarter up to n is read.
Owed(rows, r, n) ==
  {x \in rows : x.cik \in Issuers /\ r.start <= x.filed /\ x.filed <= r.end /\ QuarterOf(x.filed) <= n}
Due(rows, r, n) == {x.acc : x \in Owed(rows, r, n)}

Runs == [pc : {"index", "filings", "summary"}, started : Nat, start : Int, end : Int, quarters : Seq(Int),
         planned : Seq(Accessions), done : SUBSET Accessions, failed : SUBSET Accessions, attempt : Nat]

\* The disk: an index is final, a filing was written once more than it was damaged.
DiskOk ==
  /\ today \in Int /\ listed \subseteq Rows
  /\ \A q \in DOMAIN index : q \in Int /\ q < QuarterOf(today) /\ index[q] = ListedIn(q)
  /\ filings \subseteq {a \in Accessions : Parses(a)}
  /\ writes \in [Accessions -> Nat] /\ damages \in [Accessions -> Nat]
  /\ \A a \in Accessions : writes[a] = damages[a] + IF a \in filings THEN 1 ELSE 0

\* The client: the next send is an interval away.
PaceOk == throttle \in {Cold, Interval} /\ gap \in Int /\ gap >= Interval

\* The run: what it has planned, written and failed is what it owes so far.
RunOk ==
  \/ run.pc = "idle" /\ run.started \in Nat
  \/ /\ run \in Runs /\ run.attempt < MaxAttempts
     /\ QuarterOf(run.end) < QuarterOf(today)
     /\ \A k \in 1..Len(run.quarters) : run.quarters[k] = QuarterOf(run.end) - Len(run.quarters) + k
     /\ (run.pc = "index") <=> (run.quarters # <<>>)
     /\ run.pc = "index" => run.done = {} /\ run.failed = {}
     /\ run.pc = "summary" => run.planned = <<>>
     /\ ToSet(run.planned) \cup run.done \cup run.failed = Due(listed, run, QuarterOf(run.end) - Len(run.quarters))
     /\ run.done \subseteq filings /\ \A a \in run.failed : ~Parses(a)

BackfillInv == DiskOk /\ PaceOk /\ RunOk

\* The first state: nothing on disk, nobody at work.
LEMMA BackfillStarts == EdgarInit => BackfillInv
<1>1. SUFFICES ASSUME EdgarInit PROVE BackfillInv
  OBVIOUS
<1>2. DiskOk
  BY <1>1, EdgarAssumption DEF EdgarInit, DiskOk, EdgarAssumption
<1>3. PaceOk
  BY <1>1, EdgarAssumption DEF EdgarInit, PaceOk, EdgarAssumption
<1>4. RunOk
  BY <1>1 DEF EdgarInit, RunOk, Idle
<1> QED BY <1>2, <1>3, <1>4 DEF BackfillInv

\* A send keeps the pace, whenever it comes.
LEMMA SendPaced ==
  ASSUME PaceOk, NEW busy \in Busy, Throttle(busy), run.pc # "idle" => run.attempt \in Nat /\ run.attempt < MaxAttempts
  PROVE  PaceOk'
<1>1. busy \in Nat
  <2>1. CASE run.pc # "idle" /\ run.attempt > 0
    <3>1. run.attempt - 1 \in 0..MaxAttempts /\ busy = Backoff * 2^(run.attempt - 1)
      BY <2>1, EdgarAssumption DEF Busy, EdgarAssumption
    <3> QED BY <3>1, EdgarAssumption DEF EdgarAssumption
  <2>2. CASE ~(run.pc # "idle" /\ run.attempt > 0)
    BY <2>2, EdgarAssumption DEF Busy, EdgarAssumption
  <2> QED BY <2>1, <2>2
<1>2. Interval \in Nat
  BY EdgarAssumption DEF EdgarAssumption
<1>3. Max({busy, Interval}) \in Int /\ Max({busy, Interval}) >= Interval
  <2>1. \E x \in {busy, Interval} : \A y \in {busy, Interval} : x >= y
    BY <1>1, <1>2, busy >= Interval \/ Interval >= busy
  <2> QED BY <2>1, <1>1, <1>2 DEF Max
<1>4. SendGap(busy) \in Int /\ SendGap(busy) >= Interval
  BY <1>2, <1>3 DEF PaceOk, SendGap, Cold
<1> QED BY <1>2, <1>4 DEF Throttle, PaceOk

\* The world moves: what is listed now was filed today, after everything that is read.
LEMMA ListingKept ==
  ASSUME BackfillInv, NEW new, new \subseteq Rows, \A r \in new : r.filed = today,
         listed' = listed \cup new, today' \in {today, today + 1},
         UNCHANGED <<index, filings, run, throttle, gap, writes, damages>>
  PROVE  BackfillInv'
<1>1. today \in Int /\ today' \in Int /\ QuarterOf(today) <= QuarterOf(today') /\ QuarterOf(today) \in Int /\ QuarterOf(today') \in Int
  BY QuarterGrows DEF BackfillInv, DiskOk
<1>2. \A q \in Int : q < QuarterOf(today) => {r \in listed' : QuarterOf(r.filed) = q} = ListedIn(q)
  <2>1. \A r \in new : QuarterOf(r.filed) = QuarterOf(today)
    OBVIOUS
  <2> QED BY <2>1, <1>1 DEF ListedIn
<1>3. DiskOk'
  <2>1. \A q \in DOMAIN index : q \in Int /\ q < QuarterOf(today') /\ index[q] = {r \in listed' : QuarterOf(r.filed) = q}
    BY <1>1, <1>2 DEF BackfillInv, DiskOk
  <2>2. listed' \subseteq Rows
    BY DEF BackfillInv, DiskOk
  <2> QED BY <1>1, <2>1, <2>2 DEF BackfillInv, DiskOk, ListedIn, Parses, Accessions, QuarterOf
<1>4. ASSUME run.pc # "idle" PROVE Owed(listed', run, QuarterOf(run.end) - Len(run.quarters)) = Owed(listed, run, QuarterOf(run.end) - Len(run.quarters))
  <2>1. run.end \in Int /\ QuarterOf(run.end) < QuarterOf(today)
    BY <1>4 DEF BackfillInv, RunOk, Runs
  <2>2. ~(today <= run.end)
    BY <2>1, <1>1, QuarterGrows
  <2>3. \A r \in new : ~(r.filed <= run.end)
    BY <2>2
  <2> QED BY <2>3 DEF Owed
<1>5. RunOk'
  <2>1. CASE run.pc = "idle"
    <3>1. run' = run /\ run.started \in Nat
      BY <2>1 DEF BackfillInv, RunOk, Runs
    <3> QED BY <2>1, <3>1 DEF RunOk
  <2>2. CASE run.pc # "idle"
    <3>1. run \in Runs /\ QuarterOf(run.end) < QuarterOf(today')
      <4>1. run \in Runs /\ run.end \in Int /\ QuarterOf(run.end) < QuarterOf(today)
        BY <2>2 DEF BackfillInv, RunOk, Runs
      <4>2. QuarterOf(run.end) \in Int
        BY <4>1, QuarterGrows
      <4> QED BY <4>1, <4>2, <1>1
    <3>2. Due(listed', run, QuarterOf(run.end) - Len(run.quarters)) = Due(listed, run, QuarterOf(run.end) - Len(run.quarters))
      BY <2>2, <1>4 DEF Due
    <3> QED BY <2>2, <3>1, <3>2 DEF BackfillInv, RunOk, Parses, QuarterOf
  <2> QED BY <2>1, <2>2
<1>6. PaceOk'
  BY DEF BackfillInv, PaceOk
<1> QED BY <1>3, <1>5, <1>6 DEF BackfillInv

\* A row of numbers that count on from one of them.
LEMMA Consecutive ==
  ASSUME NEW a \in Int, NEW n \in Nat, NEW s, s = [k \in 1..n |-> a + k - 1]
  PROVE  s \in Seq(Int) /\ Len(s) = n /\ \A k \in 1..n : s[k] = a + k - 1
OBVIOUS

\* A call is refused, or plans to read every quarter its range overlaps.
LEMMA StartKept ==
  ASSUME BackfillInv, NEW r \in Ranges, StartBackfill(r[1], r[2])
  PROVE  BackfillInv'
<1> DEFINE start == r[1]
           end == r[2]
           n == QuarterOf(end) - QuarterOf(start) + 1
<1>1. start \in Int /\ end \in Int /\ QuarterOf(start) \in Int /\ QuarterOf(end) \in Int
  BY EdgarAssumption, QuarterGrows DEF EdgarAssumption
<1>2. run.pc = "idle" /\ run.started \in Nat /\ UNCHANGED <<today, listed, index, filings, throttle, gap, writes, damages, crashes>>
  BY DEF StartBackfill, BackfillInv, RunOk, Runs
<1>3. DiskOk' /\ PaceOk'
  BY <1>2 DEF BackfillInv, DiskOk, PaceOk, ListedIn, Parses, Accessions, QuarterOf
<1>4. RunOk'
  <2>1. CASE start > end \/ QuarterOf(end) >= QuarterOf(today)
    <3>1. run' = [Idle EXCEPT !.started = run.started + 1]
      BY <2>1 DEF StartBackfill
    <3> QED BY <3>1, <1>2 DEF RunOk, Idle
  <2>2. CASE ~(start > end \/ QuarterOf(end) >= QuarterOf(today))
    <3>1. run' = [pc |-> "index", started |-> run.started + 1, start |-> start, end |-> end,
                  quarters |-> BackfillQuarters(start, end), planned |-> <<>>,
                  done |-> {}, failed |-> {}, attempt |-> 0]
      BY <2>2 DEF StartBackfill
    <3>2. n \in Nat /\ n > 0 /\ QuarterOf(end) < QuarterOf(today)
      <4>1. start <= end /\ today \in Int
        BY <2>2, <1>1 DEF BackfillInv, DiskOk
      <4> QED BY <4>1, <2>2, <1>1, QuarterGrows
    <3>3. /\ run'.quarters \in Seq(Int) /\ Len(run'.quarters) = n
          /\ \A k \in 1..n : run'.quarters[k] = QuarterOf(end) - n + k
      <4>1. run'.quarters = [k \in 1..n |-> QuarterOf(start) + k - 1]
        BY <3>1 DEF BackfillQuarters
      <4>2. \A k \in 1..n : QuarterOf(start) + k - 1 = QuarterOf(end) - n + k
        BY <3>2, <1>1
      <4> HIDE DEF start, end, n
      <4>3. run'.quarters \in Seq(Int) /\ Len(run'.quarters) = n /\ \A k \in 1..n : run'.quarters[k] = QuarterOf(start) + k - 1
        BY <4>1, <3>2, <1>1, Consecutive
      <4> QED BY <4>2, <4>3
    <3>4. Due(listed, run', QuarterOf(end) - n) = {}
      <4>1. \A x \in listed : x.filed \in Int
        BY EdgarAssumption DEF EdgarAssumption, BackfillInv, DiskOk
      <4>2. \A x \in listed : run'.start <= x.filed => ~(QuarterOf(x.filed) <= QuarterOf(end) - n)
        <5>1. SUFFICES ASSUME NEW x \in listed, start <= x.filed PROVE ~(QuarterOf(x.filed) <= QuarterOf(end) - n)
          BY <3>1
        <5>2. QuarterOf(x.filed) \in Int /\ QuarterOf(start) <= QuarterOf(x.filed)
          BY <5>1, <4>1, <1>1, QuarterGrows
        <5> QED BY <5>2, <1>1
      <4> QED BY <4>2 DEF Due, Owed
    <3>5. run' \in Runs /\ run'.attempt < MaxAttempts
      <4>1. <<>> \in Seq(Accessions)
        OBVIOUS
      <4> QED BY <3>1, <3>3, <4>1, <1>1, <1>2, EdgarAssumption DEF Runs, EdgarAssumption
    <3>6. ToSet(<<>>) = {}
      BY DEF ToSet
    <3>7. run'.quarters # <<>>
      BY <3>2, <3>3
    <3> HIDE DEF n, start, end
    <3> QED BY <3>1, <3>2, <3>3, <3>4, <3>5, <3>6, <3>7, <1>2 DEF RunOk, QuarterOf
  <2> QED BY <2>1, <2>2
<1> QED BY <1>3, <1>4 DEF BackfillInv

\* A run with one more attempt is a run.
LEMMA AttemptTyped ==
  ASSUME NEW r \in Runs
  PROVE  [r EXCEPT !.attempt = @ + 1] \in Runs /\ [r EXCEPT !.attempt = @ + 1].attempt = r.attempt + 1
<1>1. r.attempt + 1 \in Nat
  BY DEF Runs
<1> DEFINE S == Seq(Accessions)
           Z == Seq(Int)
<1>2. \A n \in Nat : [r EXCEPT !.attempt = n] \in Runs /\ [r EXCEPT !.attempt = n].attempt = n
  <2>1. Runs = [pc : {"index", "filings", "summary"}, started : Nat, start : Int, end : Int, quarters : Z,
                planned : S, done : SUBSET Accessions, failed : SUBSET Accessions, attempt : Nat]
    BY DEF Runs
  <2> HIDE DEF S, Z
  <2> QED BY <2>1
<1> QED BY <1>1, <1>2

\* An attempt that is retried, and one that raises: the disk is as it was.
LEMMA AttemptKept ==
  ASSUME BackfillInv, run.pc \in {"index", "filings"}, PaceOk',
         \/ run.attempt + 1 < MaxAttempts /\ run' = [run EXCEPT !.attempt = @ + 1]
         \/ Raise,
         UNCHANGED <<today, listed, index, filings, writes, damages>>
  PROVE  BackfillInv'
<1>1. DiskOk'
  BY DEF BackfillInv, DiskOk, ListedIn, Parses, Accessions, QuarterOf
<1>2. run \in Runs
  BY DEF BackfillInv, RunOk
<1>3. RunOk'
  <2>1. CASE Raise
    BY <2>1, <1>2 DEF Raise, RunOk, Idle, Runs
  <2>2. CASE run.attempt + 1 < MaxAttempts /\ run' = [run EXCEPT !.attempt = @ + 1]
    <3>1. run' \in Runs /\ run'.attempt = run.attempt + 1
      BY <2>2, <1>2, AttemptTyped
    <3>2. /\ run'.pc = run.pc /\ run'.quarters = run.quarters /\ run'.planned = run.planned /\ run'.done = run.done
          /\ run'.failed = run.failed /\ run'.start = run.start /\ run'.end = run.end
      BY <2>2, <1>2 DEF Runs
    <3>3. \A n : Due(listed', run', n) = Due(listed, run, n)
      BY <3>2 DEF Due, Owed
    <3> QED BY <2>2, <3>1, <3>2, <3>3 DEF BackfillInv, RunOk, Parses, QuarterOf
  <2> QED BY <2>1, <2>2
<1> QED BY <1>1, <1>3 DEF BackfillInv

\* What the run has planned once a quarter's rows are read.
LEMMA PlannedAll ==
  ASSUME run \in Runs, NEW rows, rows \subseteq Rows
  PROVE  /\ Planned(rows) \in Seq(Accessions)
         /\ ToSet(Planned(rows)) = ToSet(run.planned) \cup
               {x.acc : x \in {y \in rows : y.cik \in Issuers /\ run.start <= y.filed /\ y.filed <= run.end}}
<1> DEFINE wanted == {x \in rows : x.cik \in Issuers /\ run.start <= x.filed /\ x.filed <= run.end}
           accs == {x.acc : x \in wanted}
           fresh == accs \ ToSet(run.planned)
<1>1. Planned(rows) = run.planned \o SetToSeq(fresh)
  BY DEF Planned
<1>2. accs \subseteq Accessions /\ IsFiniteSet(accs)
  <2>1. wanted \subseteq Rows
    OBVIOUS
  <2>2. IsFiniteSet(wanted)
    <3> HIDE DEF wanted
    <3> QED BY <2>1, EdgarAssumption, FS_Subset DEF EdgarAssumption
  <2>3. IsFiniteSet(accs)
    <3> HIDE DEF wanted
    <3> DEFINE f == [x \in wanted |-> x.acc]
    <3>1. f \in Surjection(wanted, accs)
      BY DEF Surjection
    <3> HIDE DEF f, accs
    <3> QED BY <2>2, <3>1, FS_Surjection
  <2> QED BY <2>1, <2>3 DEF Accessions
<1>3. IsFiniteSet(fresh) /\ fresh \subseteq Accessions
  <2> HIDE DEF accs
  <2> QED BY <1>2, FS_Subset
<1>4. SetToSeq(fresh) \in Seq(Accessions) /\ ToSet(SetToSeq(fresh)) = fresh
  <2> HIDE DEF fresh
  <2>1. SetToSeq(fresh) \in Seq(fresh) /\ ToSet(SetToSeq(fresh)) = fresh
    BY <1>3, SetToSeqAll
  <2>2. Seq(fresh) \subseteq Seq(Accessions)
    BY <1>3
  <2> QED BY <2>1, <2>2
<1>5. run.planned \in Seq(Accessions)
  BY DEF Runs
<1>6. Planned(rows) \in Seq(Accessions) /\ ToSet(Planned(rows)) = ToSet(run.planned) \cup fresh
  <2> HIDE DEF fresh
  <2> QED BY <1>1, <1>4, <1>5, ToSetConcat
<1>7. ToSet(Planned(rows)) = ToSet(run.planned) \cup accs
  <2> HIDE DEF accs
  <2> QED BY <1>6
<1> QED BY <1>6, <1>7

\* The fields of a run after a quarter's rows are planned.
LEMMA PlanFields ==
  ASSUME run \in Runs, NEW rows, PlanQuarter(rows)
  PROVE  /\ run' = [pc |-> IF Len(run.quarters) = 1 THEN "filings" ELSE "index", started |-> run.started,
                    start |-> run.start, end |-> run.end, quarters |-> Tail(run.quarters), planned |-> Planned(rows),
                    done |-> run.done, failed |-> run.failed, attempt |-> 0]
<1> DEFINE S == Seq(Accessions)
           Z == Seq(Int)
<1>1. run \in [pc : {"index", "filings", "summary"}, started : Nat, start : Int, end : Int, quarters : Z,
               planned : S, done : SUBSET Accessions, failed : SUBSET Accessions, attempt : Nat]
  BY DEF Runs
<1> HIDE DEF S, Z
<1> QED BY <1>1 DEF PlanQuarter

\* The tail of numbers that count up to one of them counts up to it.
LEMMA CountingTail ==
  ASSUME NEW s \in Seq(Int), s # <<>>, NEW e \in Int, \A k \in 1..Len(s) : s[k] = e - Len(s) + k
  PROVE  Head(s) = e - Len(s) + 1 /\ \A k \in 1..(Len(s) - 1) : Tail(s)[k] = e - (Len(s) - 1) + k
<1>1. Len(s) \in Nat /\ Len(s) > 0 /\ Head(s) = s[1] /\ \A i \in 1..(Len(s) - 1) : Tail(s)[i] = s[i + 1]
  BY ToSetTail
<1>2. \A n \in Nat : \A k \in 1..(n - 1) : k + 1 \in 1..n /\ e - n + (k + 1) = e - (n - 1) + k
  OBVIOUS
<1>3. \A k \in 1..(Len(s) - 1) : Tail(s)[k] = e - (Len(s) - 1) + k
  BY <1>1, <1>2
<1> QED BY <1>1, <1>3

\* The tail of one element is empty.
LEMMA TailEmpty == ASSUME NEW S, NEW s \in Seq(S), s # <<>> PROVE Tail(s) = <<>> <=> Len(s) = 1
<1>1. Tail(s) \in Seq(S) /\ Len(Tail(s)) = Len(s) - 1 /\ Len(s) \in Nat
  BY ToSetTail
<1> DEFINE t == Tail(s)
<1>2. t \in Seq(S)
  BY <1>1
<1> HIDE DEF t
<1>3. t = <<>> <=> Len(t) = 0
  BY <1>2
<1>4. Len(t) = 0 <=> Len(s) = 1
  BY <1>1 DEF t
<1>5. t = <<>> <=> Len(s) = 1
  BY <1>3, <1>4
<1> QED BY <1>5 DEF t

\* Reading a quarter's index: the run owes the rows of one quarter more.
LEMMA PlanKept ==
  ASSUME BackfillInv, run.pc = "index", PlanQuarter(ListedIn(Head(run.quarters))),
         UNCHANGED <<today, listed, filings>>
  PROVE  RunOk'
<1> DEFINE q == Head(run.quarters)
           e == QuarterOf(run.end)
           n == Len(run.quarters)
           rows == ListedIn(q)
<1>1. run \in Runs /\ run.end \in Int /\ run.quarters \in Seq(Int) /\ run.quarters # <<>> /\ e < QuarterOf(today)
  BY DEF BackfillInv, RunOk, Runs
<1>2. e \in Int
  BY <1>1, QuarterGrows
<1>3. /\ Tail(run.quarters) \in Seq(Int) /\ n \in Nat /\ n > 0 /\ Len(Tail(run.quarters)) = n - 1 /\ q = run.quarters[1]
      /\ \A i \in 1..(n - 1) : Tail(run.quarters)[i] = run.quarters[i + 1]
  BY <1>1, ToSetTail
<1>4. \A k \in 1..n : run.quarters[k] = e - n + k
  BY DEF BackfillInv, RunOk, Runs
<1>5. q = e - n + 1 /\ \A k \in 1..(n - 1) : Tail(run.quarters)[k] = e - (n - 1) + k
  <2> HIDE DEF e
  <2> QED BY <1>1, <1>2, <1>4, CountingTail
<1>7. rows \subseteq Rows
  BY DEF ListedIn, BackfillInv, DiskOk
<1>8. run' = [pc |-> IF n = 1 THEN "filings" ELSE "index", started |-> run.started,
              start |-> run.start, end |-> run.end, quarters |-> Tail(run.quarters), planned |-> Planned(rows),
              done |-> run.done, failed |-> run.failed, attempt |-> 0]
  BY <1>1, PlanFields
<1>9. Planned(rows) \in Seq(Accessions)
  BY <1>1, <1>7, PlannedAll
<1>10. run.done = {} /\ run.failed = {} /\ ToSet(run.planned) = Due(listed, run, e - n)
  BY DEF BackfillInv, RunOk, Runs
<1>11. ToSet(run'.planned) = Due(listed', run', e - (n - 1))
  <2> DEFINE wanted == {y \in rows : y.cik \in Issuers /\ run.start <= y.filed /\ y.filed <= run.end}
  <2>1. ToSet(Planned(rows)) = ToSet(run.planned) \cup {x.acc : x \in wanted}
    BY <1>1, <1>7, PlannedAll
  <2>2. Owed(listed, run, e - (n - 1)) = Owed(listed, run, e - n) \cup wanted
    <3>1. \A x \in listed : QuarterOf(x.filed) \in Int
      <4>1. \A x \in listed : x.filed \in Int
        BY EdgarAssumption DEF EdgarAssumption, BackfillInv, DiskOk
      <4> QED BY <4>1, QuarterGrows
    <3>2. \A x \in listed : QuarterOf(x.filed) <= e - (n - 1) <=> QuarterOf(x.filed) <= e - n \/ QuarterOf(x.filed) = q
      BY <3>1, <1>2, <1>3, <1>5
    <3>3. \A x \in listed : x \in rows <=> QuarterOf(x.filed) = q
      BY DEF ListedIn
    <3>4. rows \subseteq listed
      BY DEF ListedIn
    <3> HIDE DEF rows, q, e, n
    <3> QED BY <3>2, <3>3, <3>4 DEF Owed
  <2>3. Owed(listed', run', e - (n - 1)) = Owed(listed, run, e - (n - 1))
    BY <1>8 DEF Owed
  <2> HIDE DEF wanted, rows, e, n
  <2> QED BY <2>1, <2>2, <2>3, <1>8, <1>10 DEF Due
<1>12. run' \in Runs /\ run'.attempt < MaxAttempts
  <2>1. /\ run.started \in Nat /\ run.start \in Int /\ run.done \subseteq Accessions /\ run.failed \subseteq Accessions
        /\ MaxAttempts \in Nat /\ 0 < MaxAttempts
    BY <1>1, EdgarAssumption DEF Runs, EdgarAssumption
  <2> DEFINE pc == IF n = 1 THEN "filings" ELSE "index"
  <2>2. pc \in {"index", "filings", "summary"}
    OBVIOUS
  <2> HIDE DEF pc, rows, n
  <2> QED BY <2>1, <2>2, <1>1, <1>3, <1>8, <1>9 DEF Runs, pc
<1>13. (run'.pc = "index") <=> (run'.quarters # <<>>)
  <2>1. Tail(run.quarters) = <<>> <=> n = 1
    BY <1>1, TailEmpty
  <2> QED BY <2>1, <1>8
<1>14. e = QuarterOf(run'.end) /\ QuarterOf(run'.end) < QuarterOf(today')
  BY <1>1, <1>8 DEF QuarterOf
<1>15. /\ Len(run'.quarters) = n - 1 /\ run'.pc # "summary" /\ run'.done = {} /\ run'.failed = {}
       /\ \A k \in 1..Len(run'.quarters) : run'.quarters[k] = e - Len(run'.quarters) + k
  BY <1>3, <1>5, <1>8, <1>10
<1> HIDE DEF e, n, rows, q
<1> QED BY <1>11, <1>12, <1>13, <1>14, <1>15 DEF RunOk

\* One step of a backfill's first phase.
LEMMA IndexKept == ASSUME BackfillInv, QuarterIndex PROVE BackfillInv'
<1> DEFINE q == Head(run.quarters)
<1>1. /\ run \in Runs /\ run.pc = "index" /\ run.quarters \in Seq(Int) /\ run.quarters # <<>> /\ run.attempt \in Nat
      /\ run.attempt < MaxAttempts /\ run.end \in Int /\ UNCHANGED <<today, listed, damages, crashes>>
  BY DEF BackfillInv, RunOk, Runs, QuarterIndex
<1>2. q \in Int /\ q < QuarterOf(today)
  <2>1. q \in Int /\ q = run.quarters[1] /\ Len(run.quarters) \in Nat /\ Len(run.quarters) > 0
    BY <1>1, ToSetTail
  <2>2. q = QuarterOf(run.end) - Len(run.quarters) + 1
    BY <2>1, <1>1 DEF BackfillInv, RunOk, Runs
  <2>3. QuarterOf(run.end) \in Int /\ QuarterOf(today) \in Int /\ QuarterOf(run.end) < QuarterOf(today)
    BY <1>1, QuarterGrows DEF BackfillInv, RunOk, DiskOk, Runs
  <2> HIDE DEF q
  <2> QED BY <2>1, <2>2, <2>3
<1>3. CASE q \in DOMAIN index
  <2>1. PlanQuarter(index[q]) /\ UNCHANGED <<index, filings, writes, throttle, gap>>
    BY <1>3 DEF QuarterIndex
  <2>2. index[q] = ListedIn(q)
    BY <1>3 DEF BackfillInv, DiskOk
  <2>3. RunOk'
    BY <1>1, <2>1, <2>2, PlanKept
  <2>4. DiskOk' /\ PaceOk'
    BY <1>1, <2>1 DEF BackfillInv, DiskOk, PaceOk, ListedIn, Parses, Accessions, QuarterOf
  <2> QED BY <2>3, <2>4 DEF BackfillInv
<1>4. CASE q \notin DOMAIN index
  <2> DEFINE Read == /\ index' = [k \in DOMAIN index \cup {q} |-> IF k = q THEN ListedIn(q) ELSE index[k]]
                     /\ PlanQuarter(ListedIn(q)) /\ UNCHANGED <<filings, writes>>
  <2>1. PICK status \in Statuses : Get(status, Read)
    BY <1>4 DEF QuarterIndex
  <2>2. PaceOk'
    <3>1. PICK busy \in Busy : Throttle(busy)
      BY <2>1 DEF Get
    <3> QED BY <3>1, <1>1, SendPaced DEF BackfillInv
  <2>3. CASE Read
    <3>1. RunOk'
      BY <1>1, <2>3, PlanKept
    <3>2. \A k \in DOMAIN index' : k \in Int /\ k < QuarterOf(today) /\ index'[k] = ListedIn(k)
      BY <1>2, <2>3 DEF BackfillInv, DiskOk
    <3>3. DiskOk'
      BY <1>1, <2>3, <3>2 DEF BackfillInv, DiskOk, ListedIn, Parses, Accessions, QuarterOf
    <3> QED BY <2>2, <3>1, <3>3 DEF BackfillInv
  <2>4. CASE ~Read
    <3>1. /\ \/ run.attempt + 1 < MaxAttempts /\ run' = [run EXCEPT !.attempt = @ + 1]
             \/ Raise
          /\ UNCHANGED <<index, filings, writes>>
      BY <2>1, <2>4 DEF Get
    <3> QED BY <3>1, <1>1, <2>2, AttemptKept
  <2> QED BY <2>3, <2>4
<1> QED BY <1>3, <1>4

\* The fields of a run after a filing is dealt with.
LEMMA NextFields ==
  ASSUME run \in Runs, NEW failed, NEW done, NextFiling(failed, done)
  PROVE  run' = [pc |-> run.pc, started |-> run.started, start |-> run.start, end |-> run.end,
                 quarters |-> run.quarters, planned |-> Tail(run.planned), done |-> done, failed |-> failed, attempt |-> 0]
<1> DEFINE S == Seq(Accessions)
           Z == Seq(Int)
<1>1. run \in [pc : {"index", "filings", "summary"}, started : Nat, start : Int, end : Int, quarters : Z,
               planned : S, done : SUBSET Accessions, failed : SUBSET Accessions, attempt : Nat]
  BY DEF Runs
<1> HIDE DEF S, Z
<1> QED BY <1>1 DEF NextFiling

\* A filing that is planned is written, or named a failure: the run owes the same.
LEMMA FiledKept ==
  ASSUME BackfillInv, run.pc = "filings", run.planned # <<>>, NEW failed, NEW done, NextFiling(failed, done),
         \/ done = run.done \cup {Head(run.planned)} /\ failed = run.failed /\ Head(run.planned) \in filings'
         \/ done = run.done /\ failed = run.failed \cup {Head(run.planned)} /\ ~Parses(Head(run.planned)),
         filings \subseteq filings', UNCHANGED <<today, listed>>
  PROVE  RunOk'
<1> DEFINE a == Head(run.planned)
<1>1. /\ run \in Runs /\ run.attempt < MaxAttempts /\ QuarterOf(run.end) < QuarterOf(today) /\ run.quarters = <<>>
      /\ ToSet(run.planned) \cup run.done \cup run.failed = Due(listed, run, QuarterOf(run.end) - Len(run.quarters))
      /\ run.done \subseteq filings /\ \A x \in run.failed : ~Parses(x)
  BY DEF BackfillInv, RunOk
<1>2. run.planned \in Seq(Accessions) /\ run.done \subseteq Accessions /\ run.failed \subseteq Accessions
  BY <1>1 DEF Runs
<1>3. a \in Accessions /\ Tail(run.planned) \in Seq(Accessions) /\ ToSet(run.planned) = {a} \cup ToSet(Tail(run.planned))
  BY <1>2, ToSetTail
<1>4. run' = [pc |-> run.pc, started |-> run.started, start |-> run.start, end |-> run.end,
              quarters |-> run.quarters, planned |-> Tail(run.planned), done |-> done, failed |-> failed, attempt |-> 0]
  BY <1>1, NextFields
<1>5. done \subseteq Accessions /\ failed \subseteq Accessions /\ done \cup failed = run.done \cup run.failed \cup {a}
  BY <1>2, <1>3
<1>6. run' \in Runs /\ run'.attempt < MaxAttempts
  <2>1. /\ run.started \in Nat /\ run.start \in Int /\ run.end \in Int /\ run.quarters \in Seq(Int)
        /\ run.pc \in {"index", "filings", "summary"} /\ MaxAttempts \in Nat /\ 0 < MaxAttempts
    BY <1>1, EdgarAssumption DEF Runs, EdgarAssumption
  <2> QED BY <2>1, <1>3, <1>4, <1>5 DEF Runs
<1>7. /\ run'.pc = "filings" /\ run'.quarters = <<>> /\ run'.planned = Tail(run.planned) /\ run'.end = run.end /\ run'.start = run.start
      /\ run'.done = done /\ run'.failed = failed
  BY <1>1, <1>4
<1>8. ToSet(run'.planned) \cup run'.done \cup run'.failed = Due(listed', run', QuarterOf(run'.end) - Len(run'.quarters))
  <2>1. \A n : Due(listed', run', n) = Due(listed, run, n)
    BY <1>7 DEF Due, Owed
  <2>2. ToSet(run'.planned) \cup run'.done \cup run'.failed = ToSet(run.planned) \cup run.done \cup run.failed
    BY <1>3, <1>5, <1>7
  <2> QED BY <2>1, <2>2, <1>1, <1>7
<1>9. run'.done \subseteq filings' /\ \A x \in run'.failed : ~Parses(x)
  BY <1>1, <1>7
<1>10. \A k \in 1..Len(run'.quarters) : run'.quarters[k] = QuarterOf(run'.end) - Len(run'.quarters) + k
  <2>1. 1..Len(<<>>) = {}
    OBVIOUS
  <2> QED BY <2>1, <1>7
<1>11. QuarterOf(run'.end) < QuarterOf(today')
  BY <1>1, <1>7
<1>12. (run'.pc = "index") <=> (run'.quarters # <<>>)
  BY <1>7
<1> QED BY <1>6, <1>7, <1>8, <1>9, <1>10, <1>11, <1>12 DEF RunOk, Parses

\* One step of its second phase: from disk, or by a request that may fail.
LEMMA FilingKept == ASSUME BackfillInv, FetchFiling PROVE BackfillInv'
<1> DEFINE a == Head(run.planned)
<1>1. /\ run \in Runs /\ run.pc = "filings" /\ run.planned # <<>> /\ run.attempt \in Nat
      /\ run.attempt < MaxAttempts /\ UNCHANGED <<today, listed, damages, crashes>>
  BY DEF BackfillInv, RunOk, Runs, FetchFiling
<1>2. a \in Accessions
  <2>1. run.planned \in Seq(Accessions)
    BY <1>1 DEF Runs
  <2> QED BY <1>1, <2>1, ToSetTail
<1>3. CASE a \in filings
  <2>1. NextFiling(run.failed, run.done \cup {a}) /\ UNCHANGED <<index, filings, writes, throttle, gap>>
    BY <1>3 DEF FetchFiling
  <2>2. RunOk'
    BY <1>1, <1>3, <2>1, FiledKept
  <2>3. DiskOk' /\ PaceOk'
    BY <1>1, <2>1 DEF BackfillInv, DiskOk, PaceOk, ListedIn, Parses, Accessions, QuarterOf
  <2> QED BY <2>2, <2>3 DEF BackfillInv
<1>4. CASE a \notin filings
  <2> DEFINE Write == /\ filings' = filings \cup {a} /\ writes' = [writes EXCEPT ![a] = @ + 1]
                      /\ NextFiling(run.failed, run.done \cup {a}) /\ UNCHANGED index
             Skip == NextFiling(run.failed \cup {a}, run.done) /\ UNCHANGED <<index, filings, writes>>
  <2>1. PICK status \in Statuses : Get(status, IF Parses(a) THEN Write ELSE Skip)
    BY <1>4 DEF FetchFiling
  <2>2. PaceOk'
    <3>1. PICK busy \in Busy : Throttle(busy)
      BY <2>1 DEF Get
    <3> QED BY <3>1, <1>1, SendPaced DEF BackfillInv
  <2>3. CASE Parses(a) /\ Write
    <3>1. RunOk'
      BY <1>1, <2>3, FiledKept
    <3>2. DiskOk'
      <4>1. filings' \subseteq {x \in Accessions : Parses(x)}
        BY <2>3, <1>2 DEF BackfillInv, DiskOk
      <4>2. /\ writes' \in [Accessions -> Nat]
            /\ \A x \in Accessions : writes'[x] = damages[x] + IF x \in filings' THEN 1 ELSE 0
        BY <2>3, <1>2, <1>4 DEF BackfillInv, DiskOk
      <4> QED BY <4>1, <4>2, <2>3, <1>1 DEF BackfillInv, DiskOk, ListedIn, Parses, Accessions, QuarterOf
    <3> QED BY <2>2, <3>1, <3>2 DEF BackfillInv
  <2>4. CASE ~Parses(a) /\ Skip
    <3>1. RunOk'
      BY <1>1, <2>4, FiledKept
    <3>2. DiskOk'
      BY <1>1, <2>4 DEF BackfillInv, DiskOk, ListedIn, Parses, Accessions, QuarterOf
    <3> QED BY <2>2, <3>1, <3>2 DEF BackfillInv
  <2>5. CASE ~(Parses(a) /\ Write) /\ ~(~Parses(a) /\ Skip)
    <3>1. /\ \/ run.attempt + 1 < MaxAttempts /\ run' = [run EXCEPT !.attempt = @ + 1]
             \/ Raise
          /\ UNCHANGED <<index, filings, writes>>
      BY <2>1, <2>5 DEF Get
    <3> QED BY <3>1, <1>1, <2>2, AttemptKept
  <2> QED BY <2>3, <2>4, <2>5
<1> QED BY <1>3, <1>4

\* The plan is done: the summary is what the run has.
LEMMA SummaryKept == ASSUME BackfillInv, Summarise PROVE BackfillInv'
<1>1. /\ run \in Runs /\ run.attempt < MaxAttempts /\ QuarterOf(run.end) < QuarterOf(today) /\ run.quarters = <<>>
      /\ ToSet(run.planned) \cup run.done \cup run.failed = Due(listed, run, QuarterOf(run.end) - Len(run.quarters))
      /\ run.done \subseteq filings /\ \A x \in run.failed : ~Parses(x)
      /\ run.planned = <<>> /\ run' = [run EXCEPT !.pc = "summary"]
      /\ UNCHANGED <<today, listed, index, filings, throttle, gap, writes, damages, crashes>>
  BY DEF BackfillInv, RunOk, Summarise
<1>2. DiskOk' /\ PaceOk'
  BY <1>1 DEF BackfillInv, DiskOk, PaceOk, ListedIn, Parses, Accessions, QuarterOf
<1>3. /\ run' \in Runs /\ run'.pc = "summary" /\ run'.quarters = run.quarters /\ run'.planned = run.planned
      /\ run'.done = run.done /\ run'.failed = run.failed /\ run'.start = run.start /\ run'.end = run.end
      /\ run'.attempt = run.attempt
  <2> DEFINE S == Seq(Accessions)
             Z == Seq(Int)
  <2>1. Runs = [pc : {"index", "filings", "summary"}, started : Nat, start : Int, end : Int, quarters : Z,
                planned : S, done : SUBSET Accessions, failed : SUBSET Accessions, attempt : Nat]
    BY DEF Runs
  <2> HIDE DEF S, Z
  <2> QED BY <1>1, <2>1
<1>4. \A n : Due(listed', run', n) = Due(listed, run, n)
  BY <1>1, <1>3 DEF Due, Owed
<1>5. \A k \in 1..Len(run'.quarters) : run'.quarters[k] = QuarterOf(run'.end) - Len(run'.quarters) + k
  <2>1. 1..Len(<<>>) = {}
    OBVIOUS
  <2> QED BY <2>1, <1>1, <1>3
<1>6. RunOk'
  BY <1>1, <1>3, <1>4, <1>5 DEF RunOk, Parses, QuarterOf
<1> QED BY <1>2, <1>6 DEF BackfillInv

\* A run that returns or dies leaves its disk; a new client starts cold.
LEMMA LeaveKept ==
  ASSUME BackfillInv, Return \/ EdgarCrash
  PROVE  BackfillInv'
<1>1. run \in Runs /\ Raise /\ UNCHANGED <<today, listed, index, filings, writes, damages>>
  BY DEF BackfillInv, RunOk, Return, EdgarCrash
<1>2. RunOk'
  BY <1>1 DEF Raise, RunOk, Idle, Runs
<1>3. DiskOk'
  BY <1>1 DEF BackfillInv, DiskOk, ListedIn, Parses, Accessions, QuarterOf
<1>4. PaceOk'
  BY EdgarAssumption DEF EdgarAssumption, BackfillInv, PaceOk, Return, EdgarCrash
<1> QED BY <1>2, <1>3, <1>4 DEF BackfillInv

\* What happens beside a run: other requests, and files that are lost.
LEMMA BesidesKept == ASSUME BackfillInv, FetchUncached \/ Damage PROVE BackfillInv'
<1>1. run.pc = "idle" /\ run.started \in Nat /\ run' = run /\ UNCHANGED <<today, listed, index>>
  BY DEF BackfillInv, RunOk, Runs, FetchUncached, Damage
<1>2. RunOk'
  BY <1>1 DEF RunOk
<1>3. CASE FetchUncached
  <2>1. PaceOk'
    BY <1>1, <1>3, SendPaced DEF BackfillInv, FetchUncached
  <2>2. DiskOk'
    BY <1>3 DEF FetchUncached, BackfillInv, DiskOk, ListedIn, Parses, Accessions, QuarterOf
  <2> QED BY <1>2, <2>1, <2>2 DEF BackfillInv
<1>4. CASE Damage
  <2>1. PICK a \in filings : filings' = filings \ {a} /\ damages' = [damages EXCEPT ![a] = @ + 1]
    BY <1>4 DEF Damage
  <2>2. UNCHANGED <<throttle, gap, writes>>
    BY <1>4 DEF Damage
  <2>3. /\ damages' \in [Accessions -> Nat]
        /\ \A x \in Accessions : writes[x] = damages'[x] + IF x \in filings' THEN 1 ELSE 0
    <3>1. a \in Accessions
      BY DEF BackfillInv, DiskOk
    <3> QED BY <2>1, <3>1 DEF BackfillInv, DiskOk
  <2>4. DiskOk'
    BY <1>1, <2>1, <2>2, <2>3 DEF BackfillInv, DiskOk, ListedIn, Parses, Accessions, QuarterOf
  <2>5. PaceOk'
    BY <2>2 DEF BackfillInv, PaceOk
  <2> QED BY <1>2, <2>4, <2>5 DEF BackfillInv
<1> QED BY <1>3, <1>4

\* What the summary and the index say follows from what every step keeps.
LEMMA BackfillTrue == ASSUME BackfillInv PROVE BackfillHonest
<1>1. IndexFinal
  <2>1. \A q \in DOMAIN index : q \in Int /\ q < QuarterOf(today) /\ index[q] = ListedIn(q)
    BY DEF BackfillInv, DiskOk
  <2>2. QuarterOf(today) \in Int
    BY QuarterGrows DEF BackfillInv, DiskOk
  <2> QED BY <2>1, <2>2 DEF IndexFinal
<1>2. ResumeRefetchesNothing
  BY DEF BackfillInv, DiskOk, ResumeRefetchesNothing
<1>3. Spaced
  BY DEF BackfillInv, PaceOk, Spaced
<1>4. ASSUME run.pc = "summary" PROVE SummaryComplete
  <2> DEFINE due == {r.acc : r \in {x \in listed : x.cik \in Issuers /\ run.start <= x.filed /\ x.filed <= run.end}}
  <2>1. /\ run \in Runs /\ run.planned = <<>> /\ run.quarters = <<>>
        /\ ToSet(run.planned) \cup run.done \cup run.failed = Due(listed, run, QuarterOf(run.end) - Len(run.quarters))
        /\ run.done \subseteq filings /\ \A x \in run.failed : ~Parses(x)
    BY <1>4 DEF BackfillInv, RunOk
  <2>2. QuarterOf(run.end) - Len(run.quarters) = QuarterOf(run.end)
    <3>1. run.end \in Int
      BY <2>1 DEF Runs
    <3>2. QuarterOf(run.end) \in Int /\ Len(<<>>) = 0
      BY <3>1, QuarterGrows
    <3> QED BY <3>2, <2>1
  <2>3. Owed(listed, run, QuarterOf(run.end)) = {x \in listed : x.cik \in Issuers /\ run.start <= x.filed /\ x.filed <= run.end}
    <3>1. \A x \in listed : x.filed \in Int
      BY EdgarAssumption DEF EdgarAssumption, BackfillInv, DiskOk
    <3>2. run.end \in Int
      BY <2>1 DEF Runs
    <3>3. \A x \in listed : x.filed <= run.end => QuarterOf(x.filed) <= QuarterOf(run.end)
      BY <3>1, <3>2, QuarterGrows
    <3> QED BY <3>3 DEF Owed
  <2>4. run.done \cup run.failed = due
    <3>1. ToSet(<<>>) = {}
      BY DEF ToSet
    <3> QED BY <2>1, <2>2, <2>3, <3>1 DEF Due
  <2>5. \A x \in run.done : Parses(x)
    BY <2>1 DEF BackfillInv, DiskOk
  <2>6. run.done \cap run.failed = {} /\ run.done = {a \in due : Parses(a)}
    <3> HIDE DEF due
    <3> QED BY <2>1, <2>4, <2>5
  <2> QED BY <2>1, <2>4, <2>6 DEF SummaryComplete
<1> QED BY <1>1, <1>2, <1>3, <1>4 DEF BackfillHonest, SummaryComplete

\* The Form 4 backfill keeps BackfillInv: EdgarForm4Client, its cache and its throttle.
THEOREM BackfillInvariant == EdgarSpec => []BackfillInv
<1>1. BackfillInv /\ [EdgarNext]_edgarVars => BackfillInv'
  <2>1. SUFFICES ASSUME BackfillInv, [EdgarNext]_edgarVars PROVE BackfillInv'
    OBVIOUS
  <2>2. CASE SecLists
    <3>1. PICK r \in Rows \ listed : r.filed = today /\ listed' = listed \cup {r}
      BY <2>2 DEF SecLists
    <3> QED BY <2>1, <2>2, <3>1, ListingKept DEF SecLists
  <2>3. CASE DayPasses
    <3> DEFINE new == {r \in Rows : r.filed = today}
    <3>1. /\ new \subseteq Rows /\ \A r \in new : r.filed = today
          /\ listed' = listed \cup new /\ today' \in {today, today + 1}
          /\ UNCHANGED <<index, filings, run, throttle, gap, writes, damages>>
      BY <2>3 DEF DayPasses
    <3> HIDE DEF new
    <3> QED BY <2>1, <3>1, ListingKept
  <2>4. CASE EdgarCrash \/ Return
    BY <2>1, <2>4, LeaveKept
  <2>5. CASE Damage \/ FetchUncached
    BY <2>1, <2>5, BesidesKept
  <2>6. CASE QuarterIndex
    BY <2>1, <2>6, IndexKept
  <2>7. CASE FetchFiling
    BY <2>1, <2>7, FilingKept
  <2>8. CASE Summarise
    BY <2>1, <2>8, SummaryKept
  <2>9. CASE \E r \in Ranges : StartBackfill(r[1], r[2])
    BY <2>1, <2>9, StartKept
  <2>10. CASE UNCHANGED edgarVars
    <3>1. DiskOk' /\ PaceOk'
      BY <2>1, <2>10 DEF edgarVars, BackfillInv, DiskOk, PaceOk, ListedIn, Parses, Accessions, QuarterOf
    <3>2. RunOk'
      BY <2>1, <2>10 DEF edgarVars, BackfillInv, RunOk, Due, Owed, Parses, QuarterOf
    <3> QED BY <3>1, <3>2 DEF BackfillInv
  <2> QED BY <2>1, <2>2, <2>3, <2>4, <2>5, <2>6, <2>7, <2>8, <2>9, <2>10 DEF EdgarNext, Backfill
<1> QED BY <1>1, BackfillStarts, PTL DEF EdgarSpec

\* For every history of listings, failures, damages and kills: an index that is cached is
\* final, no filing is fetched again that is on disk, a summary accounts for every
\* filing, and requests are an interval apart.
THEOREM BackfillKept == EdgarSpec => []BackfillHonest
BY BackfillInvariant, BackfillTrue, PTL

-----------------------------------------------------------------------------
(* The caches: callers and what they hold.                                  *)

\* Every caller has a state of its own.
CallersOk == procs = [q \in Procs |-> procs[q]]

\* Only the caller that moves changes.
LEMMA Becomes ==
  ASSUME CallersOk, NEW p \in Procs, NEW s, Become(p, s)
  PROVE  CallersOk' /\ procs'[p] = s /\ \A q \in Procs \ {p} : procs'[q] = procs[q]
BY DEF CallersOk, Become

-----------------------------------------------------------------------------
(* FINRA's daily files.                                                     *)

\* Every trading day after the seed up to n is among those there or asked for.
Handled == Known \cup disk.tried
Asked(n, handled) == \A d \in (Max(SeedDays) + 1)..n : TradingDay(d) => d \in handled

ToppingUp(s) == s \in [pc : {"topup"}, day : Int, through : Int]

FinraInv ==
  /\ CallersOk
  /\ \E raw, parsed, tried : disk = [raw |-> raw, parsed |-> parsed, tried |-> tried]
  /\ IsFiniteSet(Known) /\ Known \subseteq Int /\ SeedDays \subseteq Known
  /\ \A d \in DOMAIN disk.raw : disk.raw[d] \in {"good", "bad"}
  /\ \A d \in DOMAIN disk.parsed : disk.parsed[d] = "good"
  /\ Asked(Max(Known), Handled)
  /\ \A p \in Procs : procs[p] = Resting \/ (ToppingUp(procs[p]) /\ Asked(procs[p].day - 1, Handled))
  /\ served # NoFrame => served.clean

\* The steps of a behaviour about FINRA's files.
LEMMA FinraSteps ==
  ASSUME FinraInv, adapter = "finra", CachesNext
  PROVE  \/ Tick \/ CacheCrash
         \/ \E p \in Procs : \/ FinraDay(p)
                             \/ \E t \in Days0..LastClock : FinraUpdate(p, t) \/ FinraDaily(p, Days0, t)
<1>1. \A p \in Procs : procs[p].pc \in {"idle", "topup"}
  BY DEF FinraInv, ToppingUp, Resting
<1>2. ASSUME NEW p \in Procs, Call(p) PROVE \E t \in Days0..LastClock : FinraUpdate(p, t) \/ FinraDaily(p, Days0, t)
  BY <1>2 DEF Call, Calling, EventsRefresh, EventsLoad, FredFetch, TickPull, VolFeaturesCall, BridgeFetch
<1>3. ASSUME NEW p \in Procs, Resume(p) PROVE FinraDay(p)
  BY <1>1, <1>3 DEF Resume, RefreshSymbol, RefreshEnd, LoadSymbol, LoadEnd, FredAnswer, FredMerge, TickPage
<1>4. ~RawArrives /\ ~VolDamage
  BY DEF RawArrives, VolDamage
<1> QED BY <1>2, <1>3, <1>4 DEF CachesNext

\* What is there, and the last seeded day.
LEMMA FinraNumbers ==
  ASSUME FinraInv
  PROVE  Max(SeedDays) \in Int /\ Max(Known) \in Known /\ Max(Known) \in Int /\ \A d \in Known : d <= Max(Known)
<1>1. Max(SeedDays) \in SeedDays
  BY CachesAssumption, MaxMinOf DEF CachesAssumption
<1>2. Known # {}
  BY CachesAssumption DEF CachesAssumption, FinraInv
<1>3. Max(Known) \in Known /\ \A d \in Known : d <= Max(Known)
  BY <1>2, MaxMinOf DEF FinraInv
<1> QED BY <1>1, <1>3, CachesAssumption DEF CachesAssumption, FinraInv

\* A top-up begins after the newest day, up to which every day was asked for.
LEMMA UpdateKept == ASSUME FinraInv, NEW p \in Procs, NEW t \in Days0..LastClock, FinraUpdate(p, t) PROVE FinraInv'
<1>1. Become(p, [pc |-> "topup", day |-> Max(Known) + 1, through |-> t]) /\ UNCHANGED <<disk, served>>
  BY DEF FinraUpdate, FirstMissing
<1> DEFINE s == [pc |-> "topup", day |-> Max(Known) + 1, through |-> t]
<1>2. CallersOk' /\ procs'[p] = s /\ \A q \in Procs \ {p} : procs'[q] = procs[q]
  BY <1>1, Becomes DEF FinraInv
<1>3. t \in Int
  BY CachesAssumption DEF CachesAssumption
<1>4. ToppingUp(s) /\ s.day - 1 = Max(Known)
  BY <1>3, FinraNumbers DEF ToppingUp
<1>5. Known' = Known /\ Handled' = Handled
  BY <1>1 DEF Known, Handled
<1>6. \A q \in Procs : procs'[q] = Resting \/ (ToppingUp(procs'[q]) /\ Asked(procs'[q].day - 1, Handled))
  BY <1>2, <1>4 DEF FinraInv
<1> QED BY <1>1, <1>2, <1>5, <1>6 DEF FinraInv

\* A day of a top-up is asked for, whatever comes back, before the next one is.
LEMMA DayKept == ASSUME FinraInv, NEW p \in Procs, FinraDay(p) PROVE FinraInv'
<1> DEFINE s == procs[p]
           days == {d \in s.day..s.through : TradingDay(d)}
           day == Min(days)
<1>1. s.pc = "topup" /\ ToppingUp(s) /\ Asked(s.day - 1, Handled) /\ s.day \in Int /\ s.through \in Int
  BY DEF FinraDay, FinraInv, ToppingUp, Resting
<1>2. UNCHANGED served
  BY DEF FinraDay
<1>3. CASE days = {}
  <2>1. Become(p, Resting) /\ UNCHANGED disk
    BY <1>3 DEF FinraDay
  <2>2. CallersOk' /\ procs'[p] = Resting /\ \A q \in Procs \ {p} : procs'[q] = procs[q]
    BY <2>1, Becomes DEF FinraInv
  <2>3. Known' = Known /\ Handled' = Handled
    BY <2>1 DEF Known, Handled
  <2>4. \A q \in Procs : procs'[q] = Resting \/ (ToppingUp(procs'[q]) /\ Asked(procs'[q].day - 1, Handled))
    BY <2>2 DEF FinraInv
  <2> QED BY <1>2, <2>1, <2>2, <2>3, <2>4 DEF FinraInv
<1>4. CASE days # {}
  <2>1. day \in days /\ day \in Int /\ \A d \in days : day <= d
    <3>1. IsFiniteSet(days) /\ days \subseteq Int
      <4>1. IsFiniteSet(s.day..s.through)
        BY <1>1, FS_Interval
      <4>2. days \subseteq s.day..s.through /\ days \subseteq Int
        OBVIOUS
      <4> HIDE DEF days, s
      <4> QED BY <4>1, <4>2, FS_Subset
    <3> HIDE DEF days
    <3> QED BY <3>1, <1>4, MaxMinOf
  <2>2. PICK raw, parsed, tried : disk = [raw |-> raw, parsed |-> parsed, tried |-> tried]
    BY DEF FinraInv
  <2>3. /\ Become(p, [s EXCEPT !.day = day + 1])
        /\ \/ \E v \in {"good", "bad"} : disk' = [raw |-> Put(raw, day, v), parsed |-> parsed, tried |-> tried \cup {day}]
           \/ disk' = [raw |-> raw, parsed |-> parsed, tried |-> tried \cup {day}]
    <3>1. /\ Become(p, [s EXCEPT !.day = day + 1])
          /\ \/ \E v \in {"good", "bad"} : disk' = [disk EXCEPT !.raw = Put(@, day, v), !.tried = @ \cup {day}]
             \/ disk' = [disk EXCEPT !.tried = @ \cup {day}]
      <4> HIDE DEF day
      <4> QED BY <1>4 DEF FinraDay, day
    <3> HIDE DEF day, s
    <3> QED BY <3>1, <2>2
  <2> DEFINE new == [s EXCEPT !.day = day + 1]
  <2>4. CallersOk' /\ procs'[p] = new /\ \A q \in Procs \ {p} : procs'[q] = procs[q]
    <3> HIDE DEF new
    <3> QED BY <2>3, Becomes DEF FinraInv, new
  <2>5. ToppingUp(new) /\ new.day = day + 1
    BY <1>1, <2>1 DEF ToppingUp
  <2>6. /\ Known' \in {Known, Known \cup {day}} /\ disk'.tried = disk.tried \cup {day} /\ disk'.parsed = disk.parsed
        /\ \A d \in DOMAIN disk'.raw : disk'.raw[d] \in {"good", "bad"}
        /\ \E r, t : disk' = [raw |-> r, parsed |-> parsed, tried |-> t]
    <3>1. \A d \in DOMAIN raw : raw[d] \in {"good", "bad"}
      BY <2>2 DEF FinraInv
    <3>2. CASE \E v \in {"good", "bad"} : disk' = [raw |-> Put(raw, day, v), parsed |-> parsed, tried |-> tried \cup {day}]
      <4>1. PICK v \in {"good", "bad"} : disk' = [raw |-> Put(raw, day, v), parsed |-> parsed, tried |-> tried \cup {day}]
        BY <3>2
      <4>2. DOMAIN Put(raw, day, v) = DOMAIN raw \cup {day} /\ \A d \in DOMAIN Put(raw, day, v) : Put(raw, day, v)[d] \in {"good", "bad"}
        <5> HIDE DEF day
        <5> QED BY <3>1 DEF Put
      <4> HIDE DEF day
      <4> QED BY <4>1, <4>2, <2>2 DEF Known
    <3>3. CASE disk' = [raw |-> raw, parsed |-> parsed, tried |-> tried \cup {day}]
      <4> HIDE DEF day
      <4> QED BY <3>1, <3>3, <2>2 DEF Known
    <3> QED BY <2>3, <3>2, <3>3
  <2>7. IsFiniteSet(Known') /\ Known' \subseteq Int /\ SeedDays \subseteq Known'
    <3>1. IsFiniteSet(Known \cup {day})
      BY FS_AddElement DEF FinraInv
    <3> HIDE DEF day
    <3> QED BY <2>1, <2>6, <3>1 DEF FinraInv
  <2>8. Handled' = Handled \cup {day} /\ \A n : Asked(n, Handled) => Asked(n, Handled')
    <3> HIDE DEF day
    <3>1. Handled' = Handled \cup {day}
      BY <2>6 DEF Handled
    <3> QED BY <3>1 DEF Asked
  <2>9. Asked(day, Handled')
    <3>1. SUFFICES ASSUME NEW d \in (Max(SeedDays) + 1)..day, TradingDay(d) PROVE d \in Handled'
      BY DEF Asked
    <3>2. Max(SeedDays) \in Int /\ d \in Int /\ Max(SeedDays) + 1 <= d /\ d <= day
      BY <2>1, FinraNumbers
    <3>3. CASE d <= s.day - 1
      <4>1. d \in (Max(SeedDays) + 1)..(s.day - 1)
        BY <3>2, <3>3, <1>1
      <4>2. d \in Handled
        BY <4>1, <3>1, <1>1 DEF Asked
      <4> HIDE DEF day
      <4> QED BY <4>2, <2>8
    <3>4. CASE ~(d <= s.day - 1)
      <4>1. day <= s.through
        BY <2>1
      <4>2. d \in s.day..s.through
        <5> HIDE DEF day, s
        <5> QED BY <3>2, <3>4, <4>1, <1>1, <2>1
      <4>3. d \in days
        BY <4>2, <3>1
      <4>4. d = day
        <5> HIDE DEF day, days
        <5> QED BY <4>3, <3>2, <2>1
      <4> HIDE DEF day
      <4> QED BY <4>4, <2>8
    <3> QED BY <3>3, <3>4
  <2>10. Asked(Max(Known'), Handled')
    <3>1. Max(Known') \in Known' /\ Max(Known') \in Int
      <4>1. Known' # {}
        BY <2>7, CachesAssumption DEF CachesAssumption
      <4> QED BY <4>1, <2>7, MaxMinOf
    <3>2. CASE Max(Known') = day
      BY <3>2, <2>9
    <3>3. CASE Max(Known') \in Known
      <4>1. Max(Known') <= Max(Known) /\ Max(Known) \in Int /\ Max(SeedDays) \in Int
        BY <3>3, FinraNumbers
      <4>2. (Max(SeedDays) + 1)..Max(Known') \subseteq (Max(SeedDays) + 1)..Max(Known)
        BY <4>1, <3>1
      <4>3. Asked(Max(Known'), Handled)
        BY <4>2 DEF FinraInv, Asked
      <4> QED BY <4>3, <2>8
    <3> QED BY <3>1, <3>2, <3>3, <2>6
  <2>11. \A q \in Procs : procs'[q] = Resting \/ (ToppingUp(procs'[q]) /\ Asked(procs'[q].day - 1, Handled'))
    <3>1. new.day - 1 = day
      BY <2>1, <2>5
    <3> HIDE DEF new, day
    <3> QED BY <2>4, <2>5, <2>8, <2>9, <3>1 DEF FinraInv
  <2> HIDE DEF new, day, days, s
  <2> QED BY <1>2, <2>4, <2>6, <2>7, <2>10, <2>11 DEF FinraInv
<1> QED BY <1>3, <1>4

\* A range that parses is served from good files only; a bad one is not served at all.
LEMMA DailyKept == ASSUME FinraInv, NEW p \in Procs, NEW t \in Days0..LastClock, FinraDaily(p, Days0, t) PROVE FinraInv'
<1> DEFINE days == {d \in Known : Days0 <= d /\ d <= t}
           bad == {d \in days \ DOMAIN disk.parsed : disk.raw[d] = "bad"}
           before == IF bad = {} THEN days ELSE {d \in days : d < Min(bad)}
<1>1. PICK raw, parsed, tried : disk = [raw |-> raw, parsed |-> parsed, tried |-> tried]
  BY DEF FinraInv
<1>2. /\ disk' = [disk EXCEPT !.parsed = Loaded(before)]
      /\ served' = IF bad = {} THEN Frame(days) ELSE NoFrame
      /\ UNCHANGED procs
  BY DEF FinraDaily, Parsed
<1>3. disk' = [raw |-> raw, parsed |-> Loaded(before), tried |-> tried]
  <2> HIDE DEF before
  <2> QED BY <1>1, <1>2
<1>4. \A S : DOMAIN Loaded(S) = DOMAIN parsed \cup S
  BY <1>1 DEF Loaded
<1>5. ASSUME NEW S, S \subseteq days, S \cap bad = {} PROVE \A d \in DOMAIN Loaded(S) : Loaded(S)[d] = "good"
  <2>1. SUFFICES ASSUME NEW d \in DOMAIN Loaded(S) PROVE Loaded(S)[d] = "good"
    OBVIOUS
  <2>2. CASE d \in DOMAIN parsed
    BY <1>1, <1>4, <2>1, <2>2 DEF Loaded, FinraInv
  <2>3. CASE d \notin DOMAIN parsed
    <3>1. d \in S /\ d \in days /\ d \notin bad
      <4> HIDE DEF days, bad
      <4> QED BY <1>4, <1>5, <2>1, <2>3
    <3>2. d \in DOMAIN raw /\ raw[d] # "bad"
      BY <3>1, <2>3, <1>1 DEF Known
    <3>3. raw[d] = "good"
      BY <3>2, <1>1 DEF FinraInv
    <3>4. Loaded(S)[d] = raw[d]
      BY <2>1, <2>3, <1>1, <1>4 DEF Loaded
    <3> QED BY <3>3, <3>4
  <2> QED BY <2>2, <2>3
<1>6. before \subseteq days /\ before \cap bad = {}
  <2>1. CASE bad = {}
    BY <2>1
  <2>2. CASE bad # {}
    <3>1. bad \subseteq Known
      OBVIOUS
    <3>2. IsFiniteSet(bad) /\ bad \subseteq Int
      <4> HIDE DEF bad
      <4> QED BY <3>1, FS_Subset DEF FinraInv
    <3>3. \A d \in bad : Min(bad) <= d /\ Min(bad) \in Int /\ d \in Int
      <4> HIDE DEF bad
      <4> QED BY <2>2, <3>2, MaxMinOf
    <3> HIDE DEF bad, days
    <3> QED BY <2>2, <3>3 DEF before
  <2> QED BY <2>1, <2>2
<1>7. \A d \in DOMAIN disk'.parsed : disk'.parsed[d] = "good"
  <2> HIDE DEF before, bad, days
  <2> QED BY <1>3, <1>5, <1>6
<1>8. served' # NoFrame => served'.clean
  <2>1. CASE bad = {}
    <3>1. \A d \in days : Loaded(days)[d] = "good"
      <4> HIDE DEF bad, days
      <4> QED BY <1>4, <1>5, <2>1
    <3>2. served' = Frame(days)
      BY <1>2, <2>1
    <3> HIDE DEF days
    <3> QED BY <3>1, <3>2 DEF Frame
  <2>2. CASE bad # {}
    BY <1>2, <2>2
  <2> QED BY <2>1, <2>2
<1>9. Known' = Known /\ Handled' = Handled /\ disk'.raw = disk.raw
  <2>1. before \subseteq Known
    BY <1>6
  <2>2. DOMAIN disk'.parsed = DOMAIN parsed \cup before
    <3> HIDE DEF before
    <3> QED BY <1>3, <1>4
  <2> HIDE DEF before
  <2>3. Known' = Known
    BY <1>1, <1>3, <2>1, <2>2 DEF Known
  <2> QED BY <1>1, <1>3, <2>3 DEF Handled
<1> HIDE DEF before, bad, days
<1>10. CallersOk' /\ \A q \in Procs : procs'[q] = procs[q]
  BY <1>2 DEF FinraInv, CallersOk
<1>11. \E r, s, u : disk' = [raw |-> r, parsed |-> s, tried |-> u]
  BY <1>3
<1> QED BY <1>7, <1>8, <1>9, <1>10, <1>11 DEF FinraInv

\* Time, and a caller that dies.
LEMMA FinraRests == ASSUME FinraInv, Tick \/ CacheCrash PROVE FinraInv'
<1>1. UNCHANGED <<disk, served>> /\ Known' = Known /\ Handled' = Handled
  BY DEF Tick, CacheCrash, Known, Handled
<1>2. CallersOk' /\ \A q \in Procs : procs'[q] \in {procs[q], Resting}
  <2>1. CASE UNCHANGED procs
    BY <2>1 DEF FinraInv, CallersOk
  <2>2. CASE \E p \in Procs : Become(p, Resting)
    BY <2>2, Becomes DEF FinraInv
  <2> QED BY <2>1, <2>2 DEF Tick, CacheCrash
<1> QED BY <1>1, <1>2 DEF FinraInv

\* FinraShortDaily, whatever updates overlap, fail and die.
LEMMA FinraKept == ASSUME FinraInv, adapter = "finra", CachesNext PROVE FinraInv'
BY FinraSteps, UpdateKept, DailyKept, DayKept, FinraRests

-----------------------------------------------------------------------------
(* The earnings archive and its table.                                      *)

\* A row is stamped no earlier than its content was fetched.
Stamped(row) == row.content \in Int /\ row.stamp \in Int /\ row.stamp >= row.content

\* The rows of the archive as it is.
AsArchived(rows, archive) == \A s \in DOMAIN rows : rows[s].content = archive[s]

Refreshing(s) == s.pc = "refresh" /\ s \in [pc : {"refresh"}, todo : SUBSET Symbols, wrote : BOOLEAN]

\* A load has the rows of the files it has read, and what it has read of the next one:
\* no newer than that file's stamp, and the archive's unless a refresh overlapped it.
Picked(todo) == CHOOSE x \in todo : TRUE
LoadOk(todo, got, rows, overlapped, archive, mtime) ==
  /\ todo \subseteq Symbols /\ DOMAIN rows = Symbols \ todo
  /\ \A x \in DOMAIN rows : Stamped(rows[x])
  /\ overlapped \in BOOLEAN /\ (overlapped \/ AsArchived(rows, archive))
  /\ got # NoFrame /\ todo # {} =>
       got \in Int /\ got <= mtime[Picked(todo)] /\ (overlapped \/ got = archive[Picked(todo)])
LoadRun(todo, got, rows, overlapped) ==
  [pc |-> "load", todo |-> todo, got |-> got, rows |-> rows, overlapped |-> overlapped]
Loading(s, archive, mtime) ==
  \E todo, got, rows, overlapped :
     s = LoadRun(todo, got, rows, overlapped) /\ LoadOk(todo, got, rows, overlapped, archive, mtime)

\* A table is whole; the archive has moved past it only where the files say so.
TableOk(table, archive, mtime) ==
  /\ DOMAIN table.rows = Symbols /\ table.mtime \in Int
  /\ \A s \in Symbols : Stamped(table.rows[s])
  /\ table.overlapped \/ \A s \in Symbols : table.rows[s].content = archive[s] \/ mtime[s] >= table.mtime

EventsInv ==
  /\ CallersOk /\ clock \in Int
  /\ \E archive, mtime, cache : disk = [archive |-> archive, mtime |-> mtime, cache |-> cache]
  /\ disk.archive \in [Symbols -> Int] /\ disk.mtime = disk.archive
  /\ \A s \in Symbols : disk.mtime[s] <= clock
  /\ disk.cache # NoFrame => TableOk(disk.cache, disk.archive, disk.mtime) /\ disk.cache.mtime <= clock
  /\ \A p \in Procs : procs[p] = Resting \/ Refreshing(procs[p]) \/ Loading(procs[p], disk.archive, disk.mtime)
  /\ served # NoFrame => \A s \in DOMAIN served : Stamped(served[s])

\* The steps of a behaviour about the earnings archive.
LEMMA EventsSteps ==
  ASSUME EventsInv, adapter = "events", CachesNext
  PROVE  \/ Tick \/ CacheCrash
         \/ \E p \in Procs : \/ RefreshSymbol(p) \/ RefreshEnd(p) \/ LoadSymbol(p) \/ LoadEnd(p) \/ EventsLoad(p)
                             \/ \E s \in SUBSET Symbols : EventsRefresh(p, s)
<1>1. \A p \in Procs : procs[p].pc \in {"idle", "refresh", "load"}
  <2>1. SUFFICES ASSUME NEW p \in Procs PROVE procs[p].pc \in {"idle", "refresh", "load"}
    OBVIOUS
  <2>2. Loading(procs[p], disk.archive, disk.mtime) => procs[p].pc = "load"
    BY DEF Loading, LoadRun
  <2> QED BY <2>2 DEF EventsInv, Refreshing, Resting
<1>2. ASSUME NEW p \in Procs, Call(p) PROVE EventsLoad(p) \/ \E s \in SUBSET Symbols : EventsRefresh(p, s)
  BY <1>2 DEF Call, Calling, FinraUpdate, FinraDaily, FredFetch, TickPull, VolFeaturesCall, BridgeFetch
<1>3. ASSUME NEW p \in Procs, Resume(p) PROVE RefreshSymbol(p) \/ RefreshEnd(p) \/ LoadSymbol(p) \/ LoadEnd(p)
  BY <1>1, <1>3 DEF Resume, FinraDay, FredAnswer, FredMerge, TickPage
<1>4. ~RawArrives /\ ~VolDamage
  BY DEF RawArrives, VolDamage
<1> QED BY <1>2, <1>3, <1>4 DEF CachesNext

\* One caller moves and the disk is as it was.
LEMMA EventsMove ==
  ASSUME EventsInv, NEW p \in Procs, NEW s, Become(p, s), UNCHANGED <<clock, disk>>,
         s = Resting \/ Refreshing(s) \/ Loading(s, disk.archive, disk.mtime),
         served' # NoFrame => \A x \in DOMAIN served' : Stamped(served'[x])
  PROVE  EventsInv'
<1>1. CallersOk' /\ procs'[p] = s /\ \A q \in Procs \ {p} : procs'[q] = procs[q]
  BY Becomes DEF EventsInv
<1>2. \A q \in Procs : procs'[q] = Resting \/ Refreshing(procs'[q]) \/ Loading(procs'[q], disk.archive, disk.mtime)
  BY <1>1 DEF EventsInv
<1> QED BY <1>1, <1>2 DEF EventsInv

\* A refresh or a load begins, and a table that is new enough is served.
LEMMA EventsBegin ==
  ASSUME EventsInv, NEW p \in Procs, EventsLoad(p) \/ \E s \in SUBSET Symbols : EventsRefresh(p, s)
  PROVE  EventsInv'
<1>1. CASE \E s \in SUBSET Symbols : EventsRefresh(p, s)
  <2>1. PICK s \in SUBSET Symbols : EventsRefresh(p, s)
    BY <1>1
  <2> DEFINE new == [pc |-> "refresh", todo |-> s, wrote |-> FALSE]
  <2>2. Become(p, new) /\ UNCHANGED <<clock, disk, served>>
    BY <2>1 DEF EventsRefresh
  <2>3. Refreshing(new)
    BY DEF Refreshing
  <2> HIDE DEF new
  <2> QED BY <2>2, <2>3, EventsMove DEF EventsInv
<1>2. CASE EventsLoad(p)
  <2>1. CASE CacheServes
    <3>1. served' = disk.cache.rows /\ UNCHANGED <<procs, clock, disk>> /\ disk.cache # NoFrame
      BY <1>2, <2>1 DEF EventsLoad, CacheServes
    <3>2. \A x \in DOMAIN served' : Stamped(served'[x])
      BY <3>1 DEF EventsInv, TableOk
    <3>3. CallersOk'
      BY <3>1 DEF EventsInv, CallersOk
    <3> QED BY <3>1, <3>2, <3>3 DEF EventsInv
  <2>2. CASE ~CacheServes
    <3> DEFINE new == LoadRun(Symbols, NoFrame, <<>>, FALSE)
    <3>1. Become(p, new) /\ UNCHANGED <<clock, disk, served>>
      BY <1>2, <2>2 DEF EventsLoad, LoadRun
    <3>2. DOMAIN <<>> = {}
      OBVIOUS
    <3>3. LoadOk(Symbols, NoFrame, <<>>, FALSE, disk.archive, disk.mtime)
      BY <3>2 DEF LoadOk, AsArchived
    <3>4. Loading(new, disk.archive, disk.mtime)
      BY <3>3 DEF Loading
    <3> HIDE DEF new
    <3> QED BY <3>1, <3>4, EventsMove DEF EventsInv
  <2> QED BY <2>1, <2>2
<1> QED BY <1>1, <1>2

\* A load reads one file's rows, then its stamp.
LEMMA LoadKept == ASSUME EventsInv, NEW p \in Procs, LoadSymbol(p) PROVE EventsInv'
<1>1. /\ procs[p].pc = "load" /\ procs[p].todo # {} /\ ReadThenStamp(p, Picked(procs[p].todo))
      /\ UNCHANGED <<clock, disk, served>>
  BY DEF LoadSymbol, Picked
<1>2. Loading(procs[p], disk.archive, disk.mtime)
  BY <1>1 DEF EventsInv, Resting, Refreshing
<1>3. PICK todo, got, rows, overlapped :
        /\ procs[p] = LoadRun(todo, got, rows, overlapped)
        /\ LoadOk(todo, got, rows, overlapped, disk.archive, disk.mtime)
  BY <1>2 DEF Loading
<1>4. procs[p].todo = todo /\ procs[p].got = got /\ procs[p].rows = rows
  BY <1>3 DEF LoadRun
<1>5. PICK x : x = Picked(todo)
  OBVIOUS
<1>6. x \in todo /\ x \in Symbols /\ todo \subseteq Symbols
  BY <1>1, <1>3, <1>4, <1>5 DEF Picked, LoadOk
<1>7. disk.archive[x] \in Int /\ disk.mtime[x] = disk.archive[x]
  BY <1>6 DEF EventsInv
<1>8. CASE got = NoFrame
  <2>1. LoadRun(todo, disk.archive[x], rows, overlapped) = [LoadRun(todo, got, rows, overlapped) EXCEPT !.got = disk.archive[x]]
    BY DEF LoadRun
  <2>2. Become(p, LoadRun(todo, disk.archive[x], rows, overlapped))
    BY <1>1, <1>3, <1>4, <1>5, <1>8, <2>1 DEF ReadThenStamp
  <2>3. LoadOk(todo, disk.archive[x], rows, overlapped, disk.archive, disk.mtime)
    BY <1>3, <1>5, <1>7 DEF LoadOk
  <2>4. Loading(LoadRun(todo, disk.archive[x], rows, overlapped), disk.archive, disk.mtime)
    BY <2>3 DEF Loading
  <2> QED BY <2>2, <2>4, <1>1, EventsMove DEF EventsInv
<1>9. CASE got # NoFrame
  <2>1. PICK grown : grown = Put(rows, x, Snapshot(got, disk.mtime[x]))
    OBVIOUS
  <2>0. PICK left : left = todo \ {x}
    OBVIOUS
  <2>2. LoadRun(left, NoFrame, grown, overlapped)
          = [LoadRun(todo, got, rows, overlapped) EXCEPT !.got = NoFrame, !.todo = left, !.rows = grown]
    <3>1. LoadRun(todo, NoFrame, rows, overlapped) = [LoadRun(todo, got, rows, overlapped) EXCEPT !.got = NoFrame]
      BY DEF LoadRun
    <3>2. LoadRun(left, NoFrame, rows, overlapped) = [LoadRun(todo, NoFrame, rows, overlapped) EXCEPT !.todo = left]
      BY DEF LoadRun
    <3>3. LoadRun(left, NoFrame, grown, overlapped) = [LoadRun(left, NoFrame, rows, overlapped) EXCEPT !.rows = grown]
      BY DEF LoadRun
    <3> QED BY <3>1, <3>2, <3>3
  <2>3. Become(p, LoadRun(todo \ {x}, NoFrame, grown, overlapped))
    BY <1>1, <1>3, <1>4, <1>5, <1>9, <2>0, <2>1, <2>2 DEF ReadThenStamp
  <2>4. DOMAIN grown = DOMAIN rows \cup {x} /\ grown[x] = Snapshot(got, disk.mtime[x]) /\ \A y \in DOMAIN rows \ {x} : grown[y] = rows[y]
    BY <2>1 DEF Put
  <2>5. got \in Int /\ got <= disk.mtime[x] /\ (overlapped \/ got = disk.archive[x])
    BY <1>3, <1>5, <1>6, <1>9 DEF LoadOk
  <2>6. Stamped(grown[x]) /\ grown[x].content = got
    BY <2>4, <2>5, <1>7 DEF Stamped, Snapshot
  <2>7. DOMAIN grown = Symbols \ (todo \ {x}) /\ \A y \in DOMAIN grown : Stamped(grown[y])
    BY <2>4, <2>6, <1>3, <1>6 DEF LoadOk
  <2>8. overlapped \in BOOLEAN /\ (overlapped \/ AsArchived(grown, disk.archive))
    BY <2>4, <2>5, <2>6, <1>3 DEF AsArchived, LoadOk
  <2>9. LoadOk(todo \ {x}, NoFrame, grown, overlapped, disk.archive, disk.mtime)
    BY <2>7, <2>8, <1>6 DEF LoadOk
  <2>10. Loading(LoadRun(todo \ {x}, NoFrame, grown, overlapped), disk.archive, disk.mtime)
    BY <2>9 DEF Loading
  <2> QED BY <2>3, <2>10, <1>1, EventsMove DEF EventsInv
<1> QED BY <1>8, <1>9

\* A load ends: the table it writes is what it has read.
LEMMA LoadEnds == ASSUME EventsInv, NEW p \in Procs, LoadEnd(p) PROVE EventsInv'
<1>1. /\ procs[p].pc = "load" /\ procs[p].todo = {} /\ Become(p, Resting) /\ UNCHANGED clock /\ served' = procs[p].rows
      /\ disk' = [disk EXCEPT !.cache = [rows |-> procs[p].rows, mtime |-> clock, overlapped |-> procs[p].overlapped]]
  BY DEF LoadEnd
<1>2. Loading(procs[p], disk.archive, disk.mtime)
  BY <1>1 DEF EventsInv, Resting, Refreshing
<1>3. PICK todo, got, rows, overlapped :
        /\ procs[p] = LoadRun(todo, got, rows, overlapped)
        /\ LoadOk(todo, got, rows, overlapped, disk.archive, disk.mtime)
  BY <1>2 DEF Loading
<1>4. procs[p].todo = todo /\ procs[p].rows = rows /\ procs[p].overlapped = overlapped
  BY <1>3 DEF LoadRun
<1>5. PICK table : table = [rows |-> rows, mtime |-> clock, overlapped |-> overlapped]
  OBVIOUS
<1>6. PICK archive, mtime, cache : disk = [archive |-> archive, mtime |-> mtime, cache |-> cache]
  BY DEF EventsInv
<1>7. disk' = [archive |-> archive, mtime |-> mtime, cache |-> table]
  BY <1>1, <1>4, <1>5, <1>6
<1>8. table.rows = rows /\ table.mtime = clock /\ (overlapped => table.overlapped)
  BY <1>5
<1>9. DOMAIN rows = Symbols /\ (\A x \in Symbols : Stamped(rows[x])) /\ (overlapped \/ \A x \in Symbols : rows[x].content = archive[x])
  BY <1>1, <1>3, <1>4, <1>6 DEF LoadOk, AsArchived
<1>10. TableOk(table, archive, mtime) /\ table.mtime <= clock
  BY <1>8, <1>9 DEF TableOk, EventsInv
<1>11. CallersOk' /\ procs'[p] = Resting /\ \A q \in Procs \ {p} : procs'[q] = procs[q]
  BY <1>1, Becomes DEF EventsInv
<1>12. disk'.archive = disk.archive /\ disk'.mtime = disk.mtime /\ disk'.cache = table
  BY <1>6, <1>7
<1>13. served' # NoFrame => \A x \in DOMAIN served' : Stamped(served'[x])
  BY <1>1, <1>4, <1>9
<1>14. \E a, b, c : disk' = [archive |-> a, mtime |-> b, cache |-> c]
  BY <1>7
<1>15. TableOk(table, disk.archive, disk.mtime)
  BY <1>6, <1>10
<1>16. \A q \in Procs : procs'[q] = Resting \/ Refreshing(procs'[q]) \/ Loading(procs'[q], disk.archive, disk.mtime)
  BY <1>11 DEF EventsInv
<1>17. disk.archive \in [Symbols -> Int] /\ disk.mtime = disk.archive /\ clock \in Int /\ \A s \in Symbols : disk.mtime[s] <= clock
  BY DEF EventsInv
<1> QED BY <1>1, <1>10, <1>11, <1>12, <1>13, <1>14, <1>15, <1>16, <1>17 DEF EventsInv

\* A refresh ends: the table goes if a file was written.
LEMMA RefreshEnds == ASSUME EventsInv, NEW p \in Procs, RefreshEnd(p) PROVE EventsInv'
<1>1. Become(p, Resting) /\ UNCHANGED <<clock, served>> /\ disk' \in {disk, [disk EXCEPT !.cache = NoFrame]}
  BY DEF RefreshEnd
<1>2. PICK archive, mtime, cache : disk = [archive |-> archive, mtime |-> mtime, cache |-> cache]
  BY DEF EventsInv
<1>3. disk'.archive = disk.archive /\ disk'.mtime = disk.mtime /\ disk'.cache \in {disk.cache, NoFrame}
      /\ \E a, b, c : disk' = [archive |-> a, mtime |-> b, cache |-> c]
  <2>1. CASE disk' = disk
    BY <2>1, <1>2
  <2>2. CASE disk' = [archive |-> archive, mtime |-> mtime, cache |-> NoFrame]
    BY <2>2, <1>2
  <2> QED BY <2>1, <2>2, <1>1, <1>2
<1>4. CallersOk' /\ procs'[p] = Resting /\ \A q \in Procs \ {p} : procs'[q] = procs[q]
  BY <1>1, Becomes DEF EventsInv
<1>5. \A q \in Procs : procs'[q] = Resting \/ Refreshing(procs'[q]) \/ Loading(procs'[q], disk.archive, disk.mtime)
  BY <1>4 DEF EventsInv
<1>6. disk'.cache # NoFrame => TableOk(disk'.cache, disk.archive, disk.mtime) /\ disk'.cache.mtime <= clock
  BY <1>3 DEF EventsInv
<1>7. disk.archive \in [Symbols -> Int] /\ disk.mtime = disk.archive /\ clock \in Int /\ \A s \in Symbols : disk.mtime[s] <= clock
  BY DEF EventsInv
<1>8. served' # NoFrame => \A s \in DOMAIN served' : Stamped(served'[s])
  BY <1>1 DEF EventsInv
<1> QED BY <1>1, <1>3, <1>4, <1>5, <1>6, <1>7, <1>8 DEF EventsInv

\* A load that a refresh runs into is a load that was overlapped.
LEMMA LoadOverlapped ==
  ASSUME NEW state, NEW archive, NEW mtime \in [Symbols -> Int], Loading(state, archive, mtime),
         NEW newer, NEW later \in [Symbols -> Int], \A x \in Symbols : mtime[x] <= later[x]
  PROVE  Loading([state EXCEPT !.overlapped = TRUE], newer, later)
<1>1. PICK todo, got, rows, overlapped :
        state = LoadRun(todo, got, rows, overlapped) /\ LoadOk(todo, got, rows, overlapped, archive, mtime)
  BY DEF Loading
<1>2. [state EXCEPT !.overlapped = TRUE] = LoadRun(todo, got, rows, TRUE)
  <2>1. ASSUME NEW now PROVE [LoadRun(todo, got, rows, overlapped) EXCEPT !.overlapped = now] = LoadRun(todo, got, rows, now)
    BY DEF LoadRun
  <2>2. PICK now : now = TRUE
    OBVIOUS
  <2>3. [LoadRun(todo, got, rows, overlapped) EXCEPT !.overlapped = now] = LoadRun(todo, got, rows, now)
    BY <2>1
  <2> QED BY <1>1, <2>2, <2>3, Zenon
<1>3. got # NoFrame /\ todo # {} => got \in Int /\ got <= later[Picked(todo)]
  <2>1. SUFFICES ASSUME got # NoFrame, todo # {} PROVE got \in Int /\ got <= later[Picked(todo)]
    OBVIOUS
  <2>2. PICK x : x = Picked(todo)
    OBVIOUS
  <2>3. x \in Symbols
    BY <2>1, <2>2, <1>1 DEF Picked, LoadOk
  <2>4. got \in Int /\ got <= mtime[x]
    BY <2>1, <2>2, <1>1 DEF LoadOk
  <2>5. mtime[x] \in Int /\ later[x] \in Int /\ mtime[x] <= later[x]
    BY <2>3
  <2> QED BY <2>2, <2>4, <2>5
<1>4. LoadOk(todo, got, rows, TRUE, newer, later)
  BY <1>1, <1>3 DEF LoadOk
<1> QED BY <1>2, <1>4 DEF Loading

\* The archive moves under a table.
LEMMA TableBehind ==
  ASSUME NEW table, NEW archive \in [Symbols -> Int], NEW s \in Symbols, NEW now \in Int,
         TableOk(table, archive, archive), table.mtime <= now
  PROVE  TableOk(table, [archive EXCEPT ![s] = now], [archive EXCEPT ![s] = now])
<1>1. PICK newer : newer = [archive EXCEPT ![s] = now]
  OBVIOUS
<1>2. newer[s] = now /\ \A x \in Symbols \ {s} : newer[x] = archive[x]
  BY <1>1
<1>3. table.overlapped \/ \A x \in Symbols : table.rows[x].content = newer[x] \/ newer[x] >= table.mtime
  BY <1>2 DEF TableOk
<1> QED BY <1>1, <1>3 DEF TableOk

\* One symbol of a refresh: its file is replaced, or the fetch fails.
LEMMA RefreshKept == ASSUME EventsInv, NEW p \in Procs, RefreshSymbol(p) PROVE EventsInv'
<1>1. /\ procs[p].pc = "refresh" /\ procs[p].todo # {} /\ UNCHANGED <<clock, served>>
  BY DEF RefreshSymbol
<1>2. Refreshing(procs[p])
  <2>1. Loading(procs[p], disk.archive, disk.mtime) => procs[p].pc = "load"
    BY DEF Loading, LoadRun
  <2> QED BY <1>1, <2>1 DEF EventsInv, Resting
<1>3. PICK s : s = CHOOSE x \in procs[p].todo : TRUE
  OBVIOUS
<1>4. s \in Symbols
  BY <1>1, <1>2, <1>3 DEF Refreshing
<1>5. PICK a, b, c : disk = [archive |-> a, mtime |-> b, cache |-> c]
  BY DEF EventsInv
<1>6. a \in [Symbols -> Int] /\ b = a /\ clock \in Int /\ (\A x \in Symbols : a[x] <= clock)
      /\ (c # NoFrame => TableOk(c, a, a) /\ c.mtime <= clock)
  BY <1>5 DEF EventsInv
<1>7. \A q \in Procs : procs[q] = Resting \/ Refreshing(procs[q]) \/ Loading(procs[q], a, a)
  BY <1>5, <1>6 DEF EventsInv
<1>8. DOMAIN procs = Procs /\ \A x \in (IF served # NoFrame THEN DOMAIN served ELSE {}) : Stamped(served[x])
  BY DEF EventsInv, CallersOk
<1>9. Refreshing([procs[p] EXCEPT !.todo = @ \ {s}, !.wrote = TRUE]) /\ Refreshing([procs[p] EXCEPT !.todo = @ \ {s}])
  BY <1>2 DEF Refreshing
<1>10. CASE Become(p, [procs[p] EXCEPT !.todo = @ \ {s}]) /\ UNCHANGED disk
  BY <1>1, <1>9, <1>10, EventsMove DEF EventsInv
<1>11. CASE /\ disk' = [disk EXCEPT !.archive[s] = clock, !.mtime[s] = clock]
            /\ procs' = [q \in Procs |->
                           IF q = p THEN [procs[p] EXCEPT !.todo = @ \ {s}, !.wrote = TRUE]
                           ELSE IF procs[q].pc = "load" THEN [procs[q] EXCEPT !.overlapped = TRUE]
                           ELSE procs[q]]
  <2>1. PICK n : n = [a EXCEPT ![s] = clock]
    OBVIOUS
  <2>2. disk' = [archive |-> n, mtime |-> n, cache |-> c]
    BY <1>5, <1>6, <1>11, <2>1
  <2>3. n \in [Symbols -> Int] /\ (\A x \in Symbols : n[x] <= clock /\ a[x] <= n[x])
    BY <1>4, <1>6, <2>1
  <2>4. c # NoFrame => TableOk(c, n, n) /\ c.mtime <= clock
    BY <1>4, <1>6, <2>1, TableBehind
  <2>5. \A q \in Procs : procs'[q] = Resting \/ Refreshing(procs'[q]) \/ Loading(procs'[q], n, n)
    <3>1. SUFFICES ASSUME NEW q \in Procs PROVE procs'[q] = Resting \/ Refreshing(procs'[q]) \/ Loading(procs'[q], n, n)
      OBVIOUS
    <3>2. CASE q = p
      BY <3>2, <1>9, <1>11
    <3>3. CASE q # p /\ procs[q].pc = "load"
      <4>1. Loading(procs[q], a, a)
        BY <3>3, <1>7 DEF Resting, Refreshing
      <4>2. Loading([procs[q] EXCEPT !.overlapped = TRUE], n, n)
        BY <4>1, <1>6, <2>3, LoadOverlapped
      <4> QED BY <3>3, <4>2, <1>11
    <3>4. CASE q # p /\ procs[q].pc # "load"
      <4>1. Loading(procs[q], a, a) => procs[q].pc = "load"
        BY DEF Loading, LoadRun
      <4> QED BY <3>4, <4>1, <1>7, <1>11
    <3> QED BY <3>2, <3>3, <3>4
  <2>6. CallersOk'
    BY <1>11 DEF CallersOk
  <2>7. disk'.archive = n /\ disk'.mtime = n /\ disk'.cache = c /\ \E u, v, w : disk' = [archive |-> u, mtime |-> v, cache |-> w]
    BY <2>2
  <2>8. served' # NoFrame => \A x \in DOMAIN served' : Stamped(served'[x])
    BY <1>1 DEF EventsInv
  <2> QED BY <1>1, <1>6, <2>3, <2>4, <2>5, <2>6, <2>7, <2>8 DEF EventsInv
<1> QED BY <1>3, <1>10, <1>11 DEF RefreshSymbol

\* Time, and a caller that dies.
LEMMA EventsRest == ASSUME EventsInv, Tick \/ CacheCrash PROVE EventsInv'
<1>1. CASE Tick
  <2>1. UNCHANGED <<disk, procs, served>> /\ clock' = clock + 1
    BY <1>1 DEF Tick
  <2>2. clock' \in Int /\ \A x : x \in Int /\ x <= clock => x <= clock'
    BY <2>1 DEF EventsInv
  <2>3. CallersOk'
    BY <2>1 DEF EventsInv, CallersOk
  <2>4. \A s \in Symbols : disk.mtime[s] <= clock'
    BY <2>2 DEF EventsInv
  <2>5. disk.cache # NoFrame => TableOk(disk.cache, disk.archive, disk.mtime) /\ disk.cache.mtime <= clock'
    BY <2>2 DEF EventsInv, TableOk
  <2> QED BY <2>1, <2>2, <2>3, <2>4, <2>5 DEF EventsInv
<1>2. CASE CacheCrash
  <2>1. PICK p \in Procs : Become(p, Resting)
    BY <1>2 DEF CacheCrash
  <2>2. UNCHANGED <<clock, disk, served>>
    BY <1>2 DEF CacheCrash
  <2> QED BY <2>1, <2>2, EventsMove DEF EventsInv
<1> QED BY <1>1, <1>2

\* EarningsFeed, whatever refreshes and loads overlap, fail and die.
LEMMA EventsKept == ASSUME EventsInv, adapter = "events", CachesNext PROVE EventsInv'
BY EventsSteps, EventsBegin, LoadKept, LoadEnds, RefreshKept, RefreshEnds, EventsRest

\* What the table says when it is served.
LEMMA EventsTrue == ASSUME EventsInv, adapter = "events" PROVE NeverStampedEarly /\ CacheFollowsArchive
<1>1. NeverStampedEarly
  BY DEF EventsInv, NeverStampedEarly, Stamped
<1>2. CASE Symbols = {}
  BY <1>1, <1>2 DEF CacheFollowsArchive
<1>3. CASE Symbols # {} /\ CacheServes
  <2> DEFINE stamps == {disk.mtime[s] : s \in Symbols}
  <2>1. IsFiniteSet(stamps)
    <3> DEFINE f == [s \in Symbols |-> disk.mtime[s]]
    <3>1. f \in Surjection(Symbols, stamps)
      BY DEF Surjection
    <3> QED BY <3>1, FS_Surjection, CachesAssumption
  <2>2. stamps \subseteq Int /\ stamps # {} /\ \A s \in Symbols : disk.mtime[s] \in stamps
    BY <1>3 DEF EventsInv
  <2>3. disk.cache # NoFrame /\ disk.cache.mtime >= Max(stamps)
    BY <1>3 DEF CacheServes
  <2> HIDE DEF stamps
  <2>4. Max(stamps) \in Int /\ \A x \in stamps : x <= Max(stamps)
    BY <2>1, <2>2, MaxMinOf
  <2>5. TableOk(disk.cache, disk.archive, disk.mtime)
    BY <2>3 DEF EventsInv
  <2>6. disk.cache.mtime \in Int
    BY <2>5 DEF TableOk
  <2>7. ASSUME NEW s \in Symbols PROVE disk.mtime[s] \in Int /\ disk.mtime[s] <= disk.cache.mtime
    <3>1. PICK newest : newest = Max(stamps)
      OBVIOUS
    <3>2. PICK stamp : stamp = disk.mtime[s]
      OBVIOUS
    <3>3. stamp \in stamps /\ stamp \in Int
      BY <2>2, <3>2
    <3>4. newest \in Int /\ stamp <= newest /\ newest <= disk.cache.mtime
      BY <2>3, <2>4, <3>1, <3>3
    <3> QED BY <2>6, <3>2, <3>3, <3>4
  <2>8. disk.cache.overlapped \/ \A s \in Symbols : disk.cache.rows[s].content = disk.archive[s] \/ disk.mtime[s] = disk.cache.mtime
    BY <2>5, <2>6, <2>7 DEF TableOk
  <2> QED BY <1>1, <2>8 DEF CacheFollowsArchive
<1> QED BY <1>1, <1>2, <1>3 DEF CacheFollowsArchive

-----------------------------------------------------------------------------
(* FRED's history.                                                          *)

\* Days without a gap since the first.
GapFree(days) == IsFiniteSet(days) /\ days \subseteq Int /\ \A d \in days : \A e \in Days0..d : e \in days

\* A caller asks from the last day of the history it read, and merges what it got into it.
Asking(s) == \E cache : s = [pc |-> "get", cache |-> cache, from |-> FromCached(cache)] /\ GapFree(DOMAIN cache)
Merging(s) == \E cache, fresh :
                 /\ s = [pc |-> "merge", cache |-> cache, fresh |-> fresh]
                 /\ GapFree(DOMAIN cache \cup DOMAIN fresh)

FredInv ==
  /\ CallersOk /\ clock \in Int
  /\ \E cache : disk = [cache |-> cache] /\ GapFree(DOMAIN cache)
  /\ \A p \in Procs : procs[p] = Resting \/ Asking(procs[p]) \/ Merging(procs[p])

\* The steps of a behaviour about FRED.
LEMMA FredSteps ==
  ASSUME FredInv, adapter = "fred", CachesNext
  PROVE  Tick \/ CacheCrash \/ \E p \in Procs : FredFetch(p) \/ FredAnswer(p) \/ FredMerge(p)
<1>1. \A p \in Procs : procs[p].pc \in {"idle", "get", "merge"}
  <2>1. SUFFICES ASSUME NEW p \in Procs PROVE procs[p].pc \in {"idle", "get", "merge"}
    OBVIOUS
  <2>2. Asking(procs[p]) => procs[p].pc = "get"
    BY DEF Asking
  <2>3. Merging(procs[p]) => procs[p].pc = "merge"
    BY DEF Merging
  <2> QED BY <2>2, <2>3 DEF FredInv, Resting
<1>2. ASSUME NEW p \in Procs, Call(p) PROVE FredFetch(p)
  BY <1>2 DEF Call, Calling, FinraUpdate, FinraDaily, EventsRefresh, EventsLoad, TickPull, VolFeaturesCall, BridgeFetch
<1>3. ASSUME NEW p \in Procs, Resume(p) PROVE FredAnswer(p) \/ FredMerge(p)
  BY <1>1, <1>3 DEF Resume, FinraDay, RefreshSymbol, RefreshEnd, LoadSymbol, LoadEnd, TickPage
<1>4. ~RawArrives /\ ~VolDamage
  BY DEF RawArrives, VolDamage
<1> QED BY <1>2, <1>3, <1>4 DEF CachesNext

\* One caller moves and the history is as it was.
LEMMA FredMove ==
  ASSUME FredInv, NEW p \in Procs, NEW s, Become(p, s), UNCHANGED <<clock, disk>>, s = Resting \/ Asking(s) \/ Merging(s)
  PROVE  FredInv'
<1>1. CallersOk' /\ procs'[p] = s /\ \A q \in Procs \ {p} : procs'[q] = procs[q]
  BY Becomes DEF FredInv
<1>2. \A q \in Procs : procs'[q] = Resting \/ Asking(procs'[q]) \/ Merging(procs'[q])
  BY <1>1 DEF FredInv
<1> QED BY <1>1, <1>2 DEF FredInv

\* The days asked for from the last one on leave no gap behind it.
LEMMA Overlap ==
  ASSUME NEW cache, GapFree(DOMAIN cache), NEW n \in Int
  PROVE  GapFree(DOMAIN cache \cup (FromCached(cache)..n))
<1> DEFINE old == DOMAIN cache
           from == FromCached(cache)
           all == old \cup (from..n)
<1>1. Days0 \in Int
  BY CachesAssumption DEF CachesAssumption
<1>2. from \in Int /\ (from = Days0 \/ from \in old)
  <2>1. CASE old = {}
    BY <1>1, <2>1 DEF FromCached
  <2>2. CASE old # {}
    <3>1. Max(old) \in old
      BY <2>2, MaxMinOf DEF GapFree
    <3> QED BY <2>2, <3>1 DEF FromCached, GapFree
  <2> QED BY <2>1, <2>2
<1> HIDE DEF from
<1>3. IsFiniteSet(all) /\ all \subseteq Int
  <2>1. n \in Int /\ IsFiniteSet(from..n) /\ from..n \subseteq Int
    BY <1>2, FS_Interval
  <2>2. IsFiniteSet(old) /\ old \subseteq Int
    BY DEF GapFree
  <2> HIDE DEF old
  <2> QED BY <2>1, <2>2, FS_Union
<1>4. ASSUME NEW d \in all, NEW e \in Days0..d PROVE e \in all
  <2>1. d \in Int /\ e \in Int /\ Days0 <= e /\ e <= d
    BY <1>1, <1>3, <1>4
  <2>2. CASE d \in old
    BY <2>2 DEF GapFree
  <2>3. CASE d \in from..n /\ from <= e
    BY <2>1, <2>3, <1>2
  <2>4. CASE d \in from..n /\ e < from
    <3>1. from \in old
      BY <2>1, <2>4, <1>1, <1>2
    <3>2. e \in Days0..from
      BY <2>1, <2>4, <1>1, <1>2
    <3> QED BY <3>1, <3>2 DEF GapFree
  <2> QED BY <2>1, <2>2, <2>3, <2>4, <1>2
<1>5. all = DOMAIN cache \cup (FromCached(cache)..n)
  BY DEF from
<1> HIDE DEF all
<1> QED BY <1>3, <1>4, <1>5 DEF GapFree

\* A request, its answer, and the merge.
LEMMA FredMoves == ASSUME FredInv, NEW p \in Procs, FredFetch(p) \/ FredAnswer(p) \/ FredMerge(p) PROVE FredInv'
<1>1. PICK cache : disk = [cache |-> cache] /\ GapFree(DOMAIN cache)
  BY DEF FredInv
<1>2. CASE FredFetch(p)
  <2>1. Become(p, [pc |-> "get", cache |-> cache, from |-> FromCached(cache)]) /\ UNCHANGED <<clock, disk>>
    BY <1>1, <1>2 DEF FredFetch
  <2>2. Asking([pc |-> "get", cache |-> cache, from |-> FromCached(cache)])
    BY <1>1 DEF Asking
  <2> QED BY <2>1, <2>2, FredMove
<1>3. CASE FredAnswer(p)
  <2>1. /\ procs[p].pc = "get" /\ UNCHANGED <<clock, disk>>
        /\ \/ Become(p, Resting)
           \/ Become(p, [pc |-> "merge", cache |-> procs[p].cache, fresh |-> [d \in procs[p].from..(clock - 1) |-> clock]])
    BY <1>3 DEF FredAnswer
  <2>2. Asking(procs[p])
    <3>1. Merging(procs[p]) => procs[p].pc = "merge"
      BY DEF Merging
    <3> QED BY <2>1, <3>1 DEF FredInv, Resting
  <2>3. PICK old : procs[p] = [pc |-> "get", cache |-> old, from |-> FromCached(old)] /\ GapFree(DOMAIN old)
    BY <2>2 DEF Asking
  <2>4. PICK fresh : fresh = [d \in FromCached(old)..(clock - 1) |-> clock]
    OBVIOUS
  <2>5. DOMAIN fresh = FromCached(old)..(clock - 1) /\ clock - 1 \in Int
    BY <2>4 DEF FredInv
  <2>6. Merging([pc |-> "merge", cache |-> old, fresh |-> fresh])
    BY <2>3, <2>5, Overlap DEF Merging
  <2>7. Become(p, Resting) \/ Become(p, [pc |-> "merge", cache |-> old, fresh |-> fresh])
    BY <2>1, <2>3, <2>4
  <2> QED BY <2>1, <2>6, <2>7, FredMove
<1>4. CASE FredMerge(p)
  <2>1. /\ procs[p].pc = "merge" /\ UNCHANGED clock /\ Become(p, Resting)
        /\ disk' = [disk EXCEPT !.cache = Merged(procs[p].fresh, procs[p].cache)]
    BY <1>4 DEF FredMerge
  <2>2. Merging(procs[p])
    <3>1. Asking(procs[p]) => procs[p].pc = "get"
      BY DEF Asking
    <3> QED BY <2>1, <3>1 DEF FredInv, Resting
  <2>3. PICK old, fresh : /\ procs[p] = [pc |-> "merge", cache |-> old, fresh |-> fresh]
                          /\ GapFree(DOMAIN old \cup DOMAIN fresh)
    BY <2>2 DEF Merging
  <2>4. PICK merged : merged = Merged(fresh, old)
    OBVIOUS
  <2>5. DOMAIN merged = DOMAIN old \cup DOMAIN fresh
    BY <2>4 DEF Merged
  <2>6. disk' = [cache |-> merged] /\ GapFree(DOMAIN merged)
    BY <2>1, <2>3, <2>4, <2>5, <1>1
  <2>7. CallersOk' /\ procs'[p] = Resting /\ \A q \in Procs \ {p} : procs'[q] = procs[q]
    BY <2>1, Becomes DEF FredInv
  <2>8. \A q \in Procs : procs'[q] = Resting \/ Asking(procs'[q]) \/ Merging(procs'[q])
    BY <2>7 DEF FredInv
  <2> QED BY <2>1, <2>6, <2>7, <2>8 DEF FredInv
<1> QED BY <1>2, <1>3, <1>4

\* RatesFeed, whatever updaters race, fail and die.
LEMMA FredKept == ASSUME FredInv, adapter = "fred", CachesNext PROVE FredInv'
<1>1. CASE Tick
  <2>1. UNCHANGED <<disk, procs>> /\ clock' \in Int
    BY <1>1 DEF Tick, FredInv
  <2>2. CallersOk'
    BY <2>1 DEF FredInv, CallersOk
  <2> QED BY <2>1, <2>2 DEF FredInv
<1>2. CASE CacheCrash
  <2>1. PICK p \in Procs : Become(p, Resting)
    BY <1>2 DEF CacheCrash
  <2> QED BY <1>2, <2>1, FredMove DEF CacheCrash
<1> QED BY <1>1, <1>2, FredSteps, FredMoves

-----------------------------------------------------------------------------
(* A tick pull.                                                             *)

\* The first k pages.
FirstPages(k) == [n \in 1..k |-> n]

Paging(s) == \E k, attempt : k \in Nat /\ s = [pc |-> "page", rows |-> FirstPages(k), attempt |-> attempt] /\ k < Pages

TicksInv ==
  /\ CallersOk
  /\ \E cache \in {<<>>, FirstPages(Pages)} : disk = [cache |-> cache]
  /\ \A p \in Procs : procs[p] = Resting \/ Paging(procs[p])

LEMMA PagesGrow ==
  ASSUME NEW k \in Nat
  PROVE  Len(FirstPages(k)) = k /\ Append(FirstPages(k), k + 1) = FirstPages(k + 1)
<1> DEFINE s == FirstPages(k)
           t == FirstPages(k + 1)
<1>1. s \in Seq(Int) /\ Len(s) = k /\ t \in Seq(Int) /\ Len(t) = k + 1
  BY DEF FirstPages
<1>2. Append(s, k + 1) \in Seq(Int) /\ Len(Append(s, k + 1)) = k + 1
  BY <1>1
<1>3. ASSUME NEW n \in 1..(k + 1) PROVE Append(s, k + 1)[n] = t[n]
  <2>1. \A i \in 1..k : s[i] = i
    BY DEF FirstPages
  <2>2. t[n] = n
    BY DEF FirstPages
  <2> HIDE DEF s, t
  <2> QED BY <2>1, <2>2, <1>1
<1> QED BY <1>1, <1>2, <1>3, SeqEqual

\* The steps of a behaviour about ticks.
LEMMA TicksSteps ==
  ASSUME TicksInv, adapter = "ticks", CachesNext
  PROVE  Tick \/ CacheCrash \/ \E p \in Procs : TickPull(p) \/ TickPage(p)
<1>1. \A p \in Procs : procs[p].pc \in {"idle", "page"}
  <2>1. SUFFICES ASSUME NEW p \in Procs PROVE procs[p].pc \in {"idle", "page"}
    OBVIOUS
  <2>2. Paging(procs[p]) => procs[p].pc = "page"
    BY DEF Paging
  <2> QED BY <2>2 DEF TicksInv, Resting
<1>2. ASSUME NEW p \in Procs, Call(p) PROVE TickPull(p)
  BY <1>2 DEF Call, Calling, FinraUpdate, FinraDaily, EventsRefresh, EventsLoad, FredFetch, VolFeaturesCall, BridgeFetch
<1>3. ASSUME NEW p \in Procs, Resume(p) PROVE TickPage(p)
  BY <1>1, <1>3 DEF Resume, FinraDay, RefreshSymbol, RefreshEnd, LoadSymbol, LoadEnd, FredAnswer, FredMerge
<1>4. ~RawArrives /\ ~VolDamage
  BY DEF RawArrives, VolDamage
<1> QED BY <1>2, <1>3, <1>4 DEF CachesNext

\* One caller moves and what is cached is nothing or everything.
LEMMA TicksMove ==
  ASSUME TicksInv, NEW p \in Procs, NEW s, Become(p, s), s = Resting \/ Paging(s),
         \E cache \in {<<>>, FirstPages(Pages)} : disk' = [cache |-> cache]
  PROVE  TicksInv'
<1>1. CallersOk' /\ procs'[p] = s /\ \A q \in Procs \ {p} : procs'[q] = procs[q]
  BY Becomes DEF TicksInv
<1>2. \A q \in Procs : procs'[q] = Resting \/ Paging(procs'[q])
  BY <1>1 DEF TicksInv
<1> QED BY <1>1, <1>2 DEF TicksInv

\* A page arrives, the last page arrives, a request fails.
LEMMA PageKept == ASSUME TicksInv, NEW p \in Procs, TickPage(p) PROVE TicksInv'
<1>1. procs[p].pc = "page"
  BY DEF TickPage
<1>2. PICK k, attempt : k \in Nat /\ procs[p] = [pc |-> "page", rows |-> FirstPages(k), attempt |-> attempt] /\ k < Pages
  <2>1. Paging(procs[p])
    BY <1>1 DEF TicksInv, Resting
  <2> QED BY <2>1 DEF Paging
<1>3. PICK rows : rows = FirstPages(k)
  OBVIOUS
<1>4. procs[p].rows = rows /\ Len(rows) = k
  BY <1>2, <1>3, PagesGrow
<1>5. Pages \in Nat
  BY CachesAssumption DEF CachesAssumption
<1>6. CASE /\ Len(procs[p].rows) + 1 < Pages /\ UNCHANGED disk
           /\ Become(p, [procs[p] EXCEPT !.rows = Append(@, Len(@) + 1), !.attempt = 0])
  <2>1. PICK more : more = Append(rows, k + 1)
    OBVIOUS
  <2>2. more = FirstPages(k + 1) /\ k + 1 < Pages /\ k + 1 \in Nat
    BY <2>1, <1>3, <1>4, <1>6, PagesGrow
  <2>3. [pc |-> "page", rows |-> more, attempt |-> 0] = [procs[p] EXCEPT !.rows = more, !.attempt = 0]
    <3>1. procs[p] = [pc |-> "page", rows |-> rows, attempt |-> attempt]
      BY <1>2, <1>3
    <3>2. [pc |-> "page", rows |-> more, attempt |-> attempt] = [procs[p] EXCEPT !.rows = more]
      BY <3>1
    <3>3. [pc |-> "page", rows |-> more, attempt |-> 0] = [[pc |-> "page", rows |-> more, attempt |-> attempt] EXCEPT !.attempt = 0]
      OBVIOUS
    <3> QED BY <3>2, <3>3
  <2>4. Become(p, [pc |-> "page", rows |-> more, attempt |-> 0])
    BY <2>1, <2>3, <1>4, <1>6
  <2>5. Paging([pc |-> "page", rows |-> more, attempt |-> 0])
    BY <2>2 DEF Paging
  <2> QED BY <2>4, <2>5, <1>6, TicksMove DEF TicksInv
<1>7. CASE Len(procs[p].rows) + 1 = Pages /\ disk' = [disk EXCEPT !.cache = Append(procs[p].rows, Pages)] /\ Become(p, Resting)
  <2>1. Append(procs[p].rows, Pages) = FirstPages(Pages)
    BY <1>3, <1>4, <1>7, PagesGrow
  <2>2. disk' = [cache |-> FirstPages(Pages)]
    BY <2>1, <1>7 DEF TicksInv
  <2> QED BY <2>2, <1>7, TicksMove
<1>8. CASE Become(p, [procs[p] EXCEPT !.attempt = @ + 1]) /\ UNCHANGED disk
  <2>1. PICK next : next = attempt + 1
    OBVIOUS
  <2>2. [pc |-> "page", rows |-> FirstPages(k), attempt |-> next] = [procs[p] EXCEPT !.attempt = next]
    BY <1>2
  <2>3. procs[p].attempt = attempt
    BY <1>2
  <2>4. Become(p, [pc |-> "page", rows |-> FirstPages(k), attempt |-> next])
    BY <2>1, <2>2, <2>3, <1>8
  <2>5. Paging([pc |-> "page", rows |-> FirstPages(k), attempt |-> next])
    BY <1>2 DEF Paging
  <2> QED BY <2>4, <2>5, <1>8, TicksMove DEF TicksInv
<1>9. CASE Abandon(p)
  BY <1>9, TicksMove DEF TicksInv, Abandon
<1> QED BY <1>6, <1>7, <1>8, <1>9 DEF TickPage

\* AlpacaTicks, whatever requests fail and callers die.
LEMMA TicksKept == ASSUME TicksInv, adapter = "ticks", CachesNext PROVE TicksInv'
<1>1. CASE Tick
  <2>1. UNCHANGED <<disk, procs>>
    BY <1>1 DEF Tick
  <2> QED BY <2>1 DEF TicksInv, CallersOk
<1>2. CASE CacheCrash
  <2>1. PICK p \in Procs : Become(p, Resting)
    BY <1>2 DEF CacheCrash
  <2> QED BY <1>2, <2>1, TicksMove DEF CacheCrash, TicksInv
<1>3. ASSUME NEW p \in Procs, TickPull(p) PROVE TicksInv'
  <2>1. UNCHANGED disk /\ (UNCHANGED procs \/ Become(p, [pc |-> "page", rows |-> <<>>, attempt |-> 0]))
    BY <1>3 DEF TickPull
  <2>2. CASE UNCHANGED procs
    BY <2>1, <2>2 DEF TicksInv, CallersOk
  <2>3. CASE Become(p, [pc |-> "page", rows |-> <<>>, attempt |-> 0])
    <3>1. <<>> = FirstPages(0)
      BY DEF FirstPages
    <3>2. 0 \in Nat /\ 0 < Pages
      BY CachesAssumption DEF CachesAssumption
    <3>3. Paging([pc |-> "page", rows |-> <<>>, attempt |-> 0])
      BY <3>1, <3>2 DEF Paging
    <3> QED BY <2>1, <2>3, <3>3, TicksMove DEF TicksInv
  <2> QED BY <2>1, <2>2, <2>3
<1> QED BY <1>1, <1>2, <1>3, TicksSteps, PageKept

-----------------------------------------------------------------------------
(* The index caches and the bridge: a call is one step.                     *)

AllRest == \A p \in Procs : procs[p] = Resting

Since(frame, refreshed) == frame # NoFrame => frame \in Int /\ frame >= refreshed
VolOk(raw, idx, features, refreshed, out) ==
  /\ raw \in Int /\ refreshed \in Int /\ refreshed <= raw
  /\ Since(idx, refreshed) /\ Since(features, refreshed) /\ Since(out, refreshed)
VolDisk(raw, idx, features, refreshed) == [raw |-> raw, index |-> idx, features |-> features, refreshed |-> refreshed]

VolInv ==
  /\ CallersOk /\ AllRest /\ clock \in Int
  /\ \E raw, idx, features, refreshed :
        disk = VolDisk(raw, idx, features, refreshed) /\ VolOk(raw, idx, features, refreshed, served)

BridgeInv ==
  /\ CallersOk /\ AllRest
  /\ \E cache : disk = [cache |-> cache]
  /\ served # NoFrame => served.days = served.asked \/ served.skip

\* Where nobody is under way only calls, time and the outside move.
LEMMA RestingSteps ==
  ASSUME AllRest, CachesNext
  PROVE  Tick \/ RawArrives \/ VolDamage \/ \E p \in Procs : Call(p)
<1>1. \A p \in Procs : procs[p].pc = "idle"
  BY DEF AllRest, Resting
<1>2. ~CacheCrash
  BY <1>1 DEF CacheCrash, Busyp
<1>3. \A p \in Procs : ~Resume(p)
  BY <1>1 DEF Resume, FinraDay, RefreshSymbol, RefreshEnd, LoadSymbol, LoadEnd, FredAnswer, FredMerge, TickPage
<1> QED BY <1>2, <1>3 DEF CachesNext

\* A frame that is served comes from a cache or from the raw file, and no refresh is newer.
LEMMA VolCallKept ==
  ASSUME VolInv, NEW p \in Procs, NEW refresh \in BOOLEAN, VolFeaturesCall(p, refresh)
  PROVE  VolInv'
<1>1. PICK raw, idx, features, refreshed :
        disk = VolDisk(raw, idx, features, refreshed) /\ VolOk(raw, idx, features, refreshed, served)
  BY DEF VolInv
<1>2. disk.raw = raw /\ disk.index = idx /\ disk.features = features /\ disk.refreshed = refreshed
  BY <1>1 DEF VolDisk
<1>3. UNCHANGED <<clock, procs>>
  BY DEF VolFeaturesCall
<1>4. CallersOk' /\ AllRest' /\ clock' \in Int
  BY <1>3 DEF VolInv, CallersOk, AllRest
<1>5. CASE ~refresh /\ features # NoFrame
  <2>1. served' = features /\ disk' = disk
    BY <1>2, <1>5 DEF VolFeaturesCall
  <2>2. disk' = VolDisk(raw, idx, features, refreshed) /\ VolOk(raw, idx, features, refreshed, served')
    BY <1>1, <2>1 DEF VolOk
  <2> QED BY <1>4, <2>2 DEF VolInv
<1>6. CASE refresh \/ features = NoFrame
  <2>1. PICK leg : leg = IndexLeg(refresh)
    OBVIOUS
  <2>2. PICK now : now = IF refresh THEN raw ELSE refreshed
    OBVIOUS
  <2>3. served' = leg /\ disk' = [disk EXCEPT !.index = leg, !.features = leg, !.refreshed = now]
    BY <1>2, <1>6, <2>1, <2>2 DEF VolFeaturesCall
  <2>4. disk' = VolDisk(raw, leg, leg, now)
    <3>1. [VolDisk(raw, idx, features, refreshed) EXCEPT !.index = leg] = VolDisk(raw, leg, features, refreshed)
      BY DEF VolDisk
    <3>2. [VolDisk(raw, leg, features, refreshed) EXCEPT !.features = leg] = VolDisk(raw, leg, leg, refreshed)
      BY DEF VolDisk
    <3>3. [VolDisk(raw, leg, leg, refreshed) EXCEPT !.refreshed = now] = VolDisk(raw, leg, leg, now)
      BY DEF VolDisk
    <3> QED BY <2>3, <1>1, <3>1, <3>2, <3>3
  <2>5. leg \in Int /\ now \in Int /\ now <= raw /\ leg >= now
    BY <1>1, <1>2, <2>1, <2>2 DEF IndexLeg, VolOk, Since
  <2>6. VolOk(raw, leg, leg, now, served')
    BY <1>1, <2>3, <2>5 DEF VolOk, Since
  <2> QED BY <1>4, <2>4, <2>6 DEF VolInv
<1> QED BY <1>5, <1>6

\* The volatility features, whatever is refreshed, arrives and is damaged.
LEMMA VolKept == ASSUME VolInv, adapter = "vol", CachesNext PROVE VolInv'
<1>1. PICK raw, idx, features, refreshed :
        disk = VolDisk(raw, idx, features, refreshed) /\ VolOk(raw, idx, features, refreshed, served)
  BY DEF VolInv
<1>2. CASE Tick
  <2>1. UNCHANGED <<disk, procs, served>> /\ clock' \in Int
    BY <1>2 DEF Tick, VolInv
  <2>2. CallersOk' /\ AllRest'
    BY <2>1 DEF VolInv, CallersOk, AllRest
  <2> QED BY <1>1, <2>1, <2>2 DEF VolInv
<1>3. CASE RawArrives \/ VolDamage
  <2>1. UNCHANGED <<procs, served, clock>>
    BY <1>3 DEF RawArrives, VolDamage
  <2>2. CallersOk' /\ AllRest' /\ clock' \in Int
    BY <2>1 DEF VolInv, CallersOk, AllRest
  <2>3. CASE disk.raw < clock /\ disk' = [disk EXCEPT !.raw = clock]
    <3>1. disk' = VolDisk(clock, idx, features, refreshed) /\ disk.raw = raw
      BY <1>1, <2>3 DEF VolDisk
    <3>2. VolOk(clock, idx, features, refreshed, served')
      BY <1>1, <2>1, <2>3, <3>1 DEF VolInv, VolOk
    <3> QED BY <2>2, <3>1, <3>2 DEF VolInv
  <2>4. CASE disk' = [disk EXCEPT !.features = NoFrame]
    <3>1. disk' = VolDisk(raw, idx, NoFrame, refreshed)
      BY <1>1, <2>4 DEF VolDisk
    <3>2. VolOk(raw, idx, NoFrame, refreshed, served')
      BY <1>1, <2>1 DEF VolOk, Since
    <3> QED BY <2>2, <3>1, <3>2 DEF VolInv
  <2>5. CASE disk' = [disk EXCEPT !.index = NoFrame]
    <3>1. disk' = VolDisk(raw, NoFrame, features, refreshed)
      BY <1>1, <2>5 DEF VolDisk
    <3>2. VolOk(raw, NoFrame, features, refreshed, served')
      BY <1>1, <2>1 DEF VolOk, Since
    <3> QED BY <2>2, <3>1, <3>2 DEF VolInv
  <2> QED BY <1>3, <2>3, <2>4, <2>5 DEF RawArrives, VolDamage
<1>4. ASSUME NEW p \in Procs, Call(p) PROVE VolInv'
  <2>1. \E refresh \in BOOLEAN : VolFeaturesCall(p, refresh)
    BY <1>4 DEF Call, Calling, FinraUpdate, FinraDaily, EventsRefresh, EventsLoad, FredFetch, TickPull, BridgeFetch
  <2> QED BY <2>1, VolCallKept
<1> QED BY <1>2, <1>3, <1>4, RestingSteps DEF VolInv

\* The bridge, whatever is missing, allowed and fails.
LEMMA BridgeKept == ASSUME BridgeInv, adapter = "bridge", CachesNext PROVE BridgeInv'
<1>1. PICK cache : disk = [cache |-> cache]
  BY DEF BridgeInv
<1>2. CASE Tick
  <2>1. UNCHANGED <<disk, procs, served>>
    BY <1>2 DEF Tick
  <2> QED BY <2>1 DEF BridgeInv, CallersOk, AllRest
<1>3. ~RawArrives /\ ~VolDamage
  BY DEF RawArrives, VolDamage
<1>4. ASSUME NEW p \in Procs, NEW t, NEW allow \in BOOLEAN, NEW skip \in BOOLEAN, BridgeFetch(p, Days0, t, allow, skip)
      PROVE  BridgeInv'
  <2>1. PICK days : days = {d \in Days0..t : BusinessDay(d)}
    OBVIOUS
  <2>2. UNCHANGED procs
    BY <1>4 DEF BridgeFetch
  <2>3. CallersOk' /\ AllRest'
    BY <2>2 DEF BridgeInv, CallersOk, AllRest
  <2>4. disk' = disk \/ \E more : disk' = [disk EXCEPT !.cache = more]
    BY <1>4 DEF BridgeFetch
  <2>5. \E more : disk' = [cache |-> more]
    BY <1>1, <2>4
  <2>6. \/ served' = NoFrame
        \/ served' = [days |-> days, asked |-> days, skip |-> skip]
        \/ skip /\ served' = [days |-> days \cap disk.cache, asked |-> days, skip |-> skip]
    BY <1>4, <2>1 DEF BridgeFetch, OnMiss
  <2>7. served' # NoFrame => served'.days = served'.asked \/ served'.skip
    BY <2>6
  <2> QED BY <2>3, <2>5, <2>7 DEF BridgeInv
<1>5. ASSUME NEW p \in Procs, Call(p) PROVE BridgeInv'
  <2>1. \E t \in Days0..LastClock, allow, skip \in BOOLEAN : BridgeFetch(p, Days0, t, allow, skip)
    BY <1>5 DEF Call, Calling, FinraUpdate, FinraDaily, EventsRefresh, EventsLoad, FredFetch, TickPull, VolFeaturesCall
  <2> QED BY <2>1, <1>4
<1> QED BY <1>2, <1>3, <1>5, RestingSteps DEF BridgeInv

-----------------------------------------------------------------------------
(* Every adapter.                                                           *)

\* What the disk and the callers of the behaviour's adapter know.
CachesInv ==
  /\ adapter \in Adapters
  /\ adapter = "finra" => FinraInv
  /\ adapter = "events" => EventsInv
  /\ adapter = "fred" => FredInv
  /\ adapter = "ticks" => TicksInv
  /\ adapter = "vol" => VolInv
  /\ adapter = "bridge" => BridgeInv

LEMMA AdapterStays == ASSUME CachesNext PROVE adapter' = adapter
<1>1. ASSUME NEW p \in Procs, Call(p) PROVE adapter' = adapter
  BY <1>1 DEF Call, FinraUpdate, FinraDaily, EventsRefresh, EventsLoad, FredFetch, TickPull, VolFeaturesCall, BridgeFetch
<1>2. ASSUME NEW p \in Procs, Resume(p) PROVE adapter' = adapter
  BY <1>2 DEF Resume, FinraDay, RefreshSymbol, RefreshEnd, LoadSymbol, LoadEnd, FredAnswer, FredMerge, TickPage
<1> QED BY <1>1, <1>2 DEF CachesNext, Tick, CacheCrash, RawArrives, VolDamage

\* A new archive has its seed, or nothing.
LEMMA CachesStart == ASSUME CachesInit PROVE CachesInv
<1>1. CallersOk /\ AllRest
  BY DEF CachesInit, CallersOk, AllRest
<1>2. adapter \in Adapters /\ disk = EmptyDisk(adapter) /\ clock = Days0 /\ clock \in Nat /\ served = NoFrame
  BY CachesAssumption DEF CachesInit, CachesAssumption
<1>3. DOMAIN <<>> = {} /\ GapFree({})
  BY FS_EmptySet DEF GapFree
<1>4. CASE adapter = "finra"
  <2>1. disk = [raw |-> [d \in SeedDays |-> "good"], parsed |-> <<>>, tried |-> {}]
    BY <1>2, <1>4 DEF EmptyDisk
  <2>2. disk.raw = [d \in SeedDays |-> "good"] /\ disk.parsed = <<>> /\ \E r, s, u : disk = [raw |-> r, parsed |-> s, tried |-> u]
    BY <2>1
  <2>3. Known = SeedDays
    BY <1>3, <2>2 DEF Known
  <2>4. Max(SeedDays) \in Int
    BY CachesAssumption, MaxMinOf DEF CachesAssumption
  <2>5. Asked(Max(Known), Handled)
    BY <2>3, <2>4 DEF Asked
  <2> QED BY <1>1, <1>2, <1>3, <2>2, <2>3, <2>5, CachesAssumption, <1>4 DEF FinraInv, CachesAssumption, AllRest, CachesInv
<1>5. CASE adapter = "events"
  <2>1. PICK zero : zero = [s \in Symbols |-> 0]
    OBVIOUS
  <2>2. disk = [archive |-> zero, mtime |-> zero, cache |-> NoFrame]
    BY <1>2, <1>5, <2>1 DEF EmptyDisk
  <2>3. disk.archive = zero /\ disk.mtime = zero /\ disk.cache = NoFrame /\ \E a, b, c : disk = [archive |-> a, mtime |-> b, cache |-> c]
    BY <2>2
  <2>4. zero \in [Symbols -> Int] /\ \A s \in Symbols : zero[s] <= clock
    BY <1>2, <2>1
  <2>5. EventsInv
    <3>1. disk.archive \in [Symbols -> Int] /\ disk.mtime = disk.archive /\ (\A s \in Symbols : disk.mtime[s] <= clock) /\ clock \in Int
      BY <1>2, <2>3, <2>4
    <3>2. \A p \in Procs : procs[p] = Resting
      BY <1>1 DEF AllRest
    <3> QED BY <1>1, <1>2, <2>3, <3>1, <3>2 DEF EventsInv
  <2> QED BY <1>2, <1>5, <2>5 DEF CachesInv
<1>6. CASE adapter = "fred"
  <2>1. disk = [cache |-> <<>>]
    BY <1>2, <1>6 DEF EmptyDisk
  <2> QED BY <1>1, <1>2, <1>3, <2>1, <1>6 DEF FredInv, AllRest, CachesInv
<1>7. CASE adapter = "ticks"
  <2>1. disk = [cache |-> <<>>]
    BY <1>2, <1>7 DEF EmptyDisk
  <2>2. \E cache \in {<<>>, FirstPages(Pages)} : disk = [cache |-> cache]
    BY <2>1
  <2>3. TicksInv
    BY <1>1, <2>2 DEF TicksInv, AllRest
  <2> QED BY <1>2, <1>7, <2>3 DEF CachesInv
<1>8. CASE adapter = "vol"
  <2>1. disk = VolDisk(0, NoFrame, NoFrame, 0)
    BY <1>2, <1>8 DEF EmptyDisk, VolDisk
  <2>2. VolOk(0, NoFrame, NoFrame, 0, served)
    BY <1>2 DEF VolOk, Since
  <2> QED BY <1>1, <1>2, <2>1, <2>2, <1>8 DEF VolInv, CachesInv
<1>9. CASE adapter = "bridge"
  <2>1. disk = [cache |-> {}]
    BY <1>2, <1>9 DEF EmptyDisk
  <2> QED BY <1>1, <1>2, <2>1, <1>9 DEF BridgeInv, CachesInv
<1> QED BY <1>2, <1>4, <1>5, <1>6, <1>7, <1>8, <1>9 DEF Adapters

\* The caches of the feed adapters keep CachesInv.
THEOREM CachesInvariant == CachesSpec => []CachesInv
<1>1. CachesInv /\ [CachesNext]_cacheVars => CachesInv'
  <2>1. SUFFICES ASSUME CachesInv, [CachesNext]_cacheVars PROVE CachesInv'
    OBVIOUS
  <2>2. CASE CachesNext
    <3>1. adapter' = adapter
      BY <2>2, AdapterStays
    <3>2. adapter = "finra" => FinraInv'
      BY <2>1, <2>2, FinraKept DEF CachesInv
    <3>3. adapter = "events" => EventsInv'
      BY <2>1, <2>2, EventsKept DEF CachesInv
    <3>4. adapter = "fred" => FredInv'
      BY <2>1, <2>2, FredKept DEF CachesInv
    <3>5. adapter = "ticks" => TicksInv'
      BY <2>1, <2>2, TicksKept DEF CachesInv
    <3>6. adapter = "vol" => VolInv'
      BY <2>1, <2>2, VolKept DEF CachesInv
    <3>7. adapter = "bridge" => BridgeInv'
      BY <2>1, <2>2, BridgeKept DEF CachesInv
    <3> QED BY <2>1, <3>1, <3>2, <3>3, <3>4, <3>5, <3>6, <3>7 DEF CachesInv
  <2>3. CASE UNCHANGED cacheVars
    <3>1. UNCHANGED <<adapter, clock, disk, procs, served>>
      BY <2>3 DEF cacheVars
    <3>2. CallersOk' = CallersOk /\ AllRest' = AllRest /\ Known' = Known /\ Handled' = Handled
      BY <3>1 DEF CallersOk, AllRest, Known, Handled
    <3>3. (FinraInv => FinraInv') /\ (EventsInv => EventsInv')
      BY <3>1, <3>2 DEF FinraInv, EventsInv
    <3>4. (FredInv => FredInv') /\ (TicksInv => TicksInv') /\ (VolInv => VolInv') /\ (BridgeInv => BridgeInv')
      BY <3>1, <3>2 DEF FredInv, TicksInv, VolInv, BridgeInv
    <3> QED BY <2>1, <3>1, <3>3, <3>4 DEF CachesInv
  <2> QED BY <2>1, <2>2, <2>3
<1> QED BY <1>1, CachesStart, PTL DEF CachesSpec

\* What CachesInv says of what is cached and served.
LEMMA CachesTrue == ASSUME CachesInv PROVE CachesHonest
<1>1. HolesWereTried /\ BadFileIsLoud
  BY DEF CachesInv, HolesWereTried, BadFileIsLoud, FinraInv, Asked, Handled
<1>2. NeverStampedEarly /\ CacheFollowsArchive
  <2>1. CASE adapter = "events"
    BY <2>1, EventsTrue DEF CachesInv
  <2>2. CASE adapter # "events"
    BY <2>2 DEF NeverStampedEarly, CacheFollowsArchive
  <2> QED BY <2>1, <2>2
<1>3. FredGapFree
  BY DEF CachesInv, FredInv, FredGapFree, GapFree
<1>4. PullComplete
  BY DEF CachesInv, TicksInv, PullComplete, FirstPages
<1>5. RefreshReachesFeatures
  BY DEF CachesInv, VolInv, VolDisk, VolOk, Since, RefreshReachesFeatures
<1>6. MissIsLoud
  BY DEF CachesInv, BridgeInv, MissIsLoud
<1> QED BY <1>1, <1>2, <1>3, <1>4, <1>5, <1>6 DEF CachesHonest

\* For every archive, clock and number of callers, faults and crashes: a hole in an archive
\* was asked for, a bad file is loud, no row is stamped early, a table follows its archive, a
\* history has no gap, a pull has every page, a refresh is seen, and a miss is never silent.
THEOREM CachesKept == CachesSpec => []CachesHonest
BY CachesInvariant, CachesTrue, PTL
=============================================================================
