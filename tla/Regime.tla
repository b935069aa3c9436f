--------------------------------- MODULE Regime ---------------------------------
(***************************************************************************)
(* edge/regime/classifier.py: every session of the index classified from   *)
(* rows published before its open, and the three places that look a label  *)
(* up again: the harness' entry gate, its report (an index of              *)
(* available_at stamps) and the campaign's tearsheet (an index of session  *)
(* midnights).  An instant is 24 * day + hour.                             *)
(***************************************************************************)
EXTENDS Integers, Sequences, FiniteSets, FiniteSetsExt, Functions

CONSTANTS VolRows,     \* choices of the vol_indices frame: sets of [asof, vix, vix9d]
          BarRows,     \* choices of the index bars: sets of [ts, high, low, close]
          TrendWindow, \* TREND_WINDOW
          Missing      \* a value the vendor did not publish

\* Sessions open at 09:30; what is stamped 09:00 is before and 10:00 after.
SessionOpen(day) == 24 * day + 10
Evening(day) == 24 * day + 18
EntryHours == {10, 13, 16}

VARIABLES vol, bars, records  \* one classify call: its two frames, the rows so far
regimeVars == <<vol, bars, records>>

SessionOf(instant) == instant \div 24
\* Rows without a VIX carry nothing; the market-wide feed stamps 18:00 of the day.
VolHistory == {v \in vol : v.vix # Missing}
VolAvailable(v) == Evening(v.asof)

\* One bar per session; its stamp never precedes the evening.
DailyBar(rows, day) ==
    LET of == {b \in rows : SessionOf(b.ts) = day}
    IN  [day |-> day, high |-> Max({b.high : b \in of}), low |-> Min({b.low : b \in of}),
         close |-> (CHOOSE b \in of : \A o \in of : o.ts <= b.ts).close, available |-> Evening(day)]
DailyBars == {DailyBar(bars, day) : day \in {SessionOf(b.ts) : b \in bars}}

\* Twice the midrank percentile, over 100, as <<count, size>>.
Percentile(usable) ==
    LET x == (CHOOSE v \in usable : \A w \in usable : w.asof <= v.asof).vix
    IN  <<Cardinality({v \in usable : v.vix < x}) + Cardinality({v \in usable : v.vix <= x}), Cardinality(usable)>>
AtLeast(p, pct) == 100 * p[1] >= 2 * pct * p[2]

VolState(p, latest) ==
    CASE latest.vix9d # Missing /\ latest.vix > 0 /\ latest.vix9d > latest.vix -> "stressed_backwardation"
      [] ~AtLeast(p, 33) -> "low"
      [] ~AtLeast(p, 67) -> "mid"
      [] OTHER -> "high"

Abs(n) == IF n < 0 THEN -n ELSE n
RangeOf(b, prev) == Max({b.high - b.low, Abs(b.high - prev.close), Abs(b.low - prev.close)})
\* The window change against one mean true range; warmup is chop.
TrendState(usable) ==
    LET n == Cardinality(usable)
        at == [k \in 0..TrendWindow |-> CHOOSE b \in usable : Cardinality({o \in usable : o.day > b.day}) = k]
        ranges == MapThenSumSet(LAMBDA k : RangeOf(at[k], at[k + 1]), 0..(TrendWindow - 1))
        change == at[0].close - at[TrendWindow].close
    IN  IF n < TrendWindow + 1 THEN "chop"
        ELSE IF TrendWindow * change > ranges THEN "up"
        ELSE IF TrendWindow * change < -ranges THEN "down" ELSE "chop"
BucketFrom(p, trend) ==
    CASE AtLeast(p, 50) -> IF trend # "chop" THEN "high_vol_trending" ELSE "high_vol_chopping"
      [] OTHER -> IF trend # "chop" THEN "low_vol_trending" ELSE "low_vol_chopping"

\* Published by the end of the session's day.
PublishedThatDay(available, day) == available <= Evening(day)
\* Published strictly before the session opens.
Published(available, day) == available < SessionOpen(day)
ClassifiedFrom(v, b, day) ==
    LET p == Percentile(v)
        latest == CHOOSE r \in v : \A o \in v : o.asof <= r.asof
        trend == TrendState(b)
    IN  [session |-> day, vol_state |-> VolState(p, latest), trend_state |-> trend, bucket |-> BucketFrom(p, trend),
         available_at |-> Max({Evening(Max({r.day : r \in b}))} \cup {VolAvailable(r) : r \in v} \cup {r.available : r \in b})]

\* One session of the loop, in order; without usable rows it is omitted.
Classify ==
    /\ bars # {} /\ \E day \in {d.day : d \in DailyBars} : day > records.upto
    /\ LET day == Min({d.day : d \in {e \in DailyBars : e.day > records.upto}})
           v == {r \in VolHistory : Published(VolAvailable(r), day)}
           b == {r \in DailyBars : Published(r.available, day)}
       IN  records' = [upto |-> day, rows |-> IF v = {} \/ b = {} THEN records.rows
                                              ELSE Append(records.rows, ClassifiedFrom(v, b, day))]
    /\ UNCHANGED <<vol, bars>>

NoRecords == records = [upto |-> -1, rows |-> <<>>]
RegimeRest == vol = {} /\ bars = {} /\ NoRecords
RegimeInit == vol \in VolRows /\ bars \in BarRows /\ NoRecords
RegimeNext == Classify
----------------------------------------------------------------------------
\* The first label at or after an entry.
LabelAtNext(series, entry) ==
    LET seen == {s \in series : s[1] >= entry}
    IN  IF seen = {} THEN Missing ELSE (CHOOSE s \in seen : \A o \in seen : o[1] >= s[1])[2]
\* The last label at or before an entry, in a series of <<stamp, bucket>>.
LabelAt(series, entry) ==
    LET seen == {s \in series : s[1] <= entry}
    IN  IF seen = {} THEN Missing ELSE (CHOOSE s \in seen : \A o \in seen : o[1] <= s[1])[2]
ReportSeries == {<<r.available_at, r.bucket>> : r \in Range(records.rows)}
TearsheetSeries == {<<24 * r.session, r.bucket>> : r \in Range(records.rows)}
\* RegimeGate on the bucket axis; an unclassified session blocks.
RegimeGate(allowed, entry) ==
    LET label == {r.bucket : r \in {q \in Range(records.rows) : q.session = SessionOf(entry)}}
    IN  label # {} /\ label \subseteq allowed

\* "truncating the future never changes a past session's state": every row is the one a
\* reader would compute at that session's open from the bars and indices published until
\* then, and it is stamped before the open.
RegimePrefix ==
    \A r \in Range(records.rows) :
        LET now == SessionOpen(r.session)
            seenBars == {b \in bars : Evening(SessionOf(b.ts)) < now}
            seenVol == {v \in VolHistory : VolAvailable(v) < now}
        IN  /\ seenBars # {} /\ seenVol # {}
            /\ r = ClassifiedFrom(seenVol, {DailyBar(seenBars, SessionOf(b.ts)) : b \in seenBars}, r.session)
            /\ r.available_at < now

\* A trade entered during a classified session is counted in the bucket that let it in:
\* the report's series, the tearsheet's series and the gate agree, though one is indexed
\* by the evening before, one by midnight and one by date.
LabelsAgree ==
    records.upto >= 0 /\ (\A d \in DailyBars : d.day <= records.upto) =>
        \A r \in Range(records.rows), h \in EntryHours :
            LET entry == 24 * r.session + h
                label == LabelAt(ReportSeries, entry)
            IN  /\ label = r.bucket /\ LabelAt(TearsheetSeries, entry) = label
                /\ RegimeGate({label}, entry)
=============================================================================
