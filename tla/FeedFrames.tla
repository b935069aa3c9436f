----------------------------- MODULE FeedFrames -----------------------------
(***************************************************************************)
(* The calendar and the publication stamps of the point-in-time feeds, and *)
(* the frames the adapters build from their archives.                      *)
(*                                                                         *)
(* Days are naturals, day 0 a Monday; an instant is an hour of a day.  For *)
(* every source there are two instants: the one the adapter stamps as      *)
(* available_at, and the one at which the source really publishes, taken   *)
(* from what the adapters say about their sources.                         *)
(*                                                                         *)
(* An archive is a series (day -> observation) or a set of filings; a      *)
(* frame is a set of rows that carry asof and available.  A z-score keeps  *)
(* its deviation and its variance, both scaled by the size of the window,  *)
(* instead of their quotient; NaN is NoValue.                              *)
(***************************************************************************)
EXTENDS Integers, FiniteSets, FiniteSetsExt, Sequences, Functions

CONSTANTS Holidays,          \* weekdays on which NYSE does not trade
          AvailabilityLag,   \* hours from EDGAR acceptance to dissemination
          NoValue,
          RollingWindow, RollingMinPeriods,   \* FinraShortConfig
          ZWindowWeeks,                       \* CotTffConfig, min periods equal
          WinsorWindow, WinsorMinPeriods,     \* CboeConfig
          WinsorLowPct, WinsorHighPct,
          PcZWindow, SlopeZWindow, HyOasZWindow,
          InsiderWindow,                      \* window_days of insider_features
          RatioUnit                           \* the scale of a ratio

ASSUME WindowsAssumption ==
    /\ RollingMinPeriods \in 2..RollingWindow /\ WinsorMinPeriods \in 2..WinsorWindow
    /\ {ZWindowWeeks, PcZWindow, SlopeZWindow, HyOasZWindow} \subseteq Nat \ {0, 1}
-----------------------------------------------------------------------------
(* The calendar and the stamps.                                            *)

Weekday(d) == d % 7
BusinessDay(d) == Weekday(d) < 5
TradingDay(d) == BusinessDay(d) /\ d \notin Holidays
At(d, h) == 24 * d + h
DayOf(t) == t \div 24
HourOf(t) == t % 24

\* Every search for a trading day is padded by three weeks.
TradingDayOnOrAfter(d) == Min({e \in d..(d + 21) : TradingDay(e)})
NextTradingDay(d) == TradingDayOnOrAfter(d + 1)

\* numpy.busday_offset(d, n, roll="backward"): weekends only, no holidays.
RollBackward(d) == Max({e \in (d - 2)..d : BusinessDay(e)})
BusdayOffset(d, n) ==
    LET from == RollBackward(d)
    IN  Min({e \in (from + 1)..(from + 7 * n) :
               Cardinality({b \in (from + 1)..e : BusinessDay(b)}) = n})

FinraAvailable(d) == At(NextTradingDay(d), 9)
CboeAvailable(d) == At(d, 18)
TreasuryAvailable(d) == At(d, 18)
FredAvailable(d) == At(BusdayOffset(d, 1), 18)
TffAvailable(d) == At(TradingDayOnOrAfter(d + ((4 - Weekday(d)) % 7)), 16)
FilingAvailable(acceptance) == acceptance + AvailabilityLag
SnapshotStamp(mtime) == At(DayOf(mtime), 18)
OiAvailable(d) == At(BusdayOffset(d, 1), 9)
EodAvailable(d) == At(d, 18)

\* When the sources publish: FINRA in the evening of the day, CBOE and the
\* Treasury before it, FRED during the next business day, the CFTC on Friday
\* afternoon or on the next trading day when that Friday is a holiday, the
\* OCC overnight, EDGAR at acceptance plus dissemination.
FinraPublishes(d) == At(d, 20)
CboePublishes(d) == At(d, 17)
TreasuryPublishes(d) == At(d, 15)
FredPublishes(d) == At(BusdayOffset(d, 1), 17)
TffPublishes(d) == At(TradingDayOnOrAfter(d + ((4 - Weekday(d)) % 7)), 15)
FilingPublishes(acceptance) == acceptance + AvailabilityLag
OccPublishes(d) == At(BusdayOffset(d, 1), 8)
EodPublishes(d) == At(d, 17)
-----------------------------------------------------------------------------
(* Windows and z-scores.                                                   *)

\* The n newest elements of a set of days, and a series at a day it may lack.
Newest(S, n) == {d \in S : Cardinality({e \in S : e > d}) < n}
ValueAt(series, d) == IF d \in DOMAIN series THEN series[d] ELSE NoValue

\* x against the observations of a window of rows: NaN rows are skipped, fewer
\* than min valid ones or no dispersion give NaN.
ZScore(series, window, x, min) ==
    LET valid == {d \in window : ValueAt(series, d) # NoValue}
        n == Cardinality(valid)
        sum == MapThenSumSet(LAMBDA d : series[d], valid)
        squares == MapThenSumSet(LAMBDA d : series[d] * series[d], valid)
        var == n * squares - sum * sum
    IN  IF x = NoValue \/ n < min \/ var <= 0 THEN NoValue
        ELSE [dev |-> n * x - sum, var |-> var, n |-> n]

\* |z| > halves / 2, and z > halves / 2: dev^2 (n - 1) / (n var) against the square.
ZExceeds(z, halves) ==
    z # NoValue /\ 4 * z.dev * z.dev * (z.n - 1) > halves * halves * z.n * z.var
ZAbove(z, halves) == ZExceeds(z, halves) /\ z.dev > 0
----------------------------------------------------------------------------
(* FINRA daily short volume: symbol -> day -> [short, total].              *)

ShortRatio(obs) == IF obs.total > 0 THEN (RatioUnit * obs.short) \div obs.total ELSE NoValue
FileDates(short) == UNION {DOMAIN short[s] : s \in DOMAIN short}

ShortFeatures(short, start, end) ==
    LET warmup == Newest({d \in FileDates(short) : d < start}, RollingWindow)
        load_start == IF warmup = {} THEN start ELSE Min(warmup)
        days(s) == {d \in DOMAIN short[s] : load_start <= d /\ d <= end}
        ratio == [s \in DOMAIN short |-> [d \in days(s) |-> ShortRatio(short[s][d])]]
        onDay(d) == [s \in {r \in DOMAIN short : d \in days(r)} |-> ratio[s][d]]
        row(s, d) ==
          [symbol |-> s, asof |-> d, available |-> FinraAvailable(d), ratio |-> ratio[s][d],
           z |-> ZScore(ratio[s], Newest({e \in days(s) : e < d}, RollingWindow),
                        ratio[s][d], RollingMinPeriods),
           xs |-> ZScore(onDay(d), DOMAIN onDay(d), ratio[s][d], 2)]
    IN  UNION {{row(s, d) : d \in {e \in days(s) : e >= start}} : s \in DOMAIN short}
----------------------------------------------------------------------------
(* CFTC positioning of one market: day -> [net, oi], net being long minus  *)
(* short of the leveraged funds.                                           *)

NetOi(obs) == IF obs.oi > 0 THEN (RatioUnit * obs.net) \div obs.oi ELSE NoValue

CotFeatures(cot) ==
    LET net == [d \in DOMAIN cot |-> NetOi(cot[d])]
    IN  {[asof |-> d, available |-> TffAvailable(d), net |-> net[d],
          z |-> ZScore(net, Newest({e \in DOMAIN cot : e <= d}, ZWindowWeeks),
                       net[d], ZWindowWeeks)] : d \in DOMAIN cot}
----------------------------------------------------------------------------
(* CBOE: vix, vvix and the two put/call archives, each day -> value.       *)

MedianTwice(series, days) ==
    LET below(d) == Cardinality({e \in days : series[e] < series[d]})
        upto(d) == Cardinality({e \in days : series[e] <= series[d]})
        n == Cardinality(days)
        rank(k) == series[CHOOSE d \in days : below(d) < k /\ k <= upto(d)]
    IN  rank((n + 1) \div 2) + rank(n \div 2 + 1)

\* A centred window, which sees the next print.
WinsorBaseCentred(series, d) ==
    {e \in DOMAIN series : e # d /\ Cardinality({x \in DOMAIN series : d < x /\ x < e}) = 0
                                 /\ Cardinality({x \in DOMAIN series : e < x /\ x < d}) < 2}

\* The raw prints a print is judged against: the prior ones, never itself.
WinsorBase(series, d) == Newest({e \in DOMAIN series : e < d}, WinsorWindow)

\* A print outside the band around the trailing median is replaced by it (doubled).
Winsorized(series) ==
    [d \in DOMAIN series |->
       LET base == WinsorBase(series, d)
           median2 == MedianTwice(series, base)
       IN  IF /\ Cardinality(base) >= WinsorMinPeriods
              /\ 200 * series[d] < WinsorLowPct * median2 \/ 200 * series[d] > WinsorHighPct * median2
           THEN median2 ELSE 2 * series[d]]

\* Where the archives overlap the daily file wins over the frozen one.
PutCall(vol) == [d \in DOMAIN vol.frozen \cup DOMAIN vol.daily |->
                   IF d \in DOMAIN vol.daily THEN vol.daily[d] ELSE vol.frozen[d]]

VolFeatures(vol) ==
    LET pc == PutCall(vol)
        clean == Winsorized(vol.vvix)
        days == DOMAIN vol.vix \cup DOMAIN clean \cup DOMAIN pc
        ratio(a, b) == IF a = NoValue \/ b = NoValue THEN NoValue ELSE <<a, b>>
    IN  {[asof |-> d, available |-> CboeAvailable(d),
          vix |-> ValueAt(vol.vix, d), vvix |-> ValueAt(clean, d),
          vvix_vix |-> ratio(ValueAt(clean, d), ValueAt(vol.vix, d)),
          pc |-> ValueAt(pc, d),
          z |-> ZScore(pc, Newest({e \in days : e <= d}, PcZWindow), ValueAt(pc, d), PcZWindow)]
         : d \in days}
----------------------------------------------------------------------------
(* Treasury yields (day -> [y2, y10]) and the FRED credit spread.          *)

HyRows(fred) ==
    {[available |-> FredAvailable(d), hy |-> fred[d],
      z |-> ZScore(fred, Newest({e \in DOMAIN fred : e <= d}, HyOasZWindow), fred[d], HyOasZWindow)]
     : d \in {e \in DOMAIN fred : \A x \in DOMAIN fred : FredAvailable(x) = FredAvailable(e) => x <= e}}

\* The nearest print in either direction, as direction="nearest" would take.
AsofNearest(rows, t) ==
    IF rows = {} THEN [hy |-> NoValue, z |-> NoValue]
    ELSE LET far(r) == IF r.available > t THEN r.available - t ELSE t - r.available
             near == CHOOSE r \in rows : \A q \in rows : far(r) <= far(q)
         IN  [hy |-> near.hy, z |-> near.z]

\* merge_asof(direction="backward"): the newest print available by then.
AsofBackward(rows, t) ==
    LET seen == {r \in rows : r.available <= t}
    IN  IF seen = {} THEN [hy |-> NoValue, z |-> NoValue]
        ELSE LET newest == CHOOSE r \in seen : \A q \in seen : q.available <= r.available
             IN  [hy |-> newest.hy, z |-> newest.z]

RatesFeatures(rates) ==
    LET slope == [d \in DOMAIN rates.yields |-> rates.yields[d].y10 - rates.yields[d].y2]
        hy == HyRows(rates.fred)
    IN  {[asof |-> d, available |-> TreasuryAvailable(d),
          level |-> rates.yields[d].y2, slope |-> slope[d],
          z |-> ZScore(slope, Newest({e \in DOMAIN slope : e <= d}, SlopeZWindow), slope[d], SlopeZWindow),
          hy |-> AsofBackward(hy, TreasuryAvailable(d))] : d \in DOMAIN slope}
----------------------------------------------------------------------------
(* Form 4 transactions: a set of [symbol, asof, acceptance, code, dollars, *)
(* officer, buyer].                                                        *)

SignedDollars(x) == CASE x.code = "P" -> x.dollars [] x.code = "S" -> -x.dollars [] OTHER -> 0
OfficerBuy(x) == x.officer /\ x.code = "P"

InsiderFeatures(filings) ==
    LET trailing(s, d) == {x \in filings : x.symbol = s /\ d - InsiderWindow < x.asof /\ x.asof <= d}
        row(s, d) ==
          [symbol |-> s, asof |-> d,
           available |-> Max({FilingAvailable(x.acceptance) : x \in trailing(s, d)}),
           net |-> MapThenSumSet(SignedDollars, trailing(s, d)),
           officer_buy |-> \E x \in filings : x.symbol = s /\ x.asof = d /\ OfficerBuy(x),
           buyers |-> Cardinality({x.buyer : x \in {y \in trailing(s, d) : OfficerBuy(y)}})]
    IN  {row(x.symbol, x.asof) : x \in filings}
----------------------------------------------------------------------------
(* The earnings calendar of a symbol: its snapshot [events, mtime], or     *)
(* nothing before the first snapshot.                                      *)

EarningsFeatures(calendar, start, end) ==
    LET snap == SnapshotStamp(calendar.mtime)
        ahead(d) == {e \in calendar.events : e >= d}
        behind(d) == {e \in calendar.events : e <= d}
        monday(d) == d - Weekday(d)
    IN  IF calendar = NoValue THEN {}
        ELSE {[asof |-> d, available |-> Max({At(d, 0), snap}), snapshot |-> snap,
               to_next |-> IF ahead(d) = {} THEN NoValue ELSE Min(ahead(d)) - d,
               since_last |-> IF behind(d) = {} THEN NoValue ELSE d - Max(behind(d)),
               is_week |-> \E e \in calendar.events : monday(d) <= e /\ e <= monday(d) + 6]
              : d \in {e \in start..end : BusinessDay(e)}}
----------------------------------------------------------------------------
(* The trade-tape cache (rows carry ts), and the options archive of one    *)
(* expiry: day -> the set of [strike, right, gamma] or [strike, right, oi].*)

MicroFrame(micro, start, end) ==
    {[asof |-> DayOf(r.ts), available |-> r.ts, ts |-> r.ts, vpin |-> r.vpin,
      imbalance |-> r.imbalance, intensity |-> r.intensity]
     : r \in {q \in micro : start <= DayOf(q.ts) /\ DayOf(q.ts) <= end}}

OpenInterestFrame(archive, start, end) ==
    UNION {{[asof |-> d, available |-> OiAvailable(d), quote |-> q] : q \in archive[d]}
           : d \in {e \in DOMAIN archive : BusinessDay(e) /\ start <= e /\ e <= end}}
GreeksFrame(archive, start, end) ==
    UNION {{[asof |-> d, available |-> EodAvailable(d), quote |-> q] : q \in archive[d]}
           : d \in {e \in DOMAIN archive : start <= e /\ e <= end}}
=============================================================================
