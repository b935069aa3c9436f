-------------------------------- MODULE Tearsheet --------------------------------
(***************************************************************************)
(* edge/research/tearsheet.py: one signal's out-of-sample sheet from its   *)
(* ledger, its equity and the regime series, and the verdict of the        *)
(* promotion gates.  Returns are pairs <<end, previous>> of equities; the  *)
(* bounds of a bootstrap interval are any the resamples may give.          *)
(***************************************************************************)
EXTENDS Integers, Sequences, FiniteSets, FiniteSetsExt, Functions

CONSTANTS Ledgers,     \* ledgers: sequences of [signal, entry, r, mfe, costs]
          Equities,    \* equity curves: sequences of [month, value]
          SeriesSet,   \* regime series: sequences of <<stamp, bucket>>
          Sheeted,     \* the signal of the sheet
          MinOosTrades, Undefined

Buckets == <<"low_vol_trending", "low_vol_chopping", "high_vol_trending", "high_vol_chopping">>
MinPositiveBuckets == 3
PboChoices == {"missing", "below max", "at max"}

VARIABLES ledger, equity_curve, series, sheet  \* the inputs and the rendered sheet
sheetVars == <<ledger, equity_curve, series, sheet>>

NonDecreasing(s, At(_)) == \A i \in 1..(Len(s) - 1) : At(s[i]) <= At(s[i + 1])
\* Without the starting equity the first month has no return.
MonthlyReturnsDropFirst(e) ==
    LET ends == SelectSeq([i \in DOMAIN e |-> IF i = Len(e) \/ e[i].month # e[Min({i + 1, Len(e)})].month THEN e[i].value ELSE 0],
                          LAMBDA v : v > 0)
    IN  [k \in 1..(Len(ends) - 1) |-> <<ends[k + 1], ends[k]>>]
\* The last equity of each month over that of the month observed before it; the first
\* month is measured from the first observation.
MonthlyReturns(e) ==
    LET ends == SelectSeq([i \in DOMAIN e |-> IF i = Len(e) \/ e[i].month # e[Min({i + 1, Len(e)})].month THEN e[i].value ELSE 0],
                          LAMBDA v : v > 0)
    IN  [k \in DOMAIN ends |-> <<ends[k], IF k = 1 THEN e[1].value ELSE ends[k - 1]>>]
EquityRefused(e) ==
    \/ ~NonDecreasing(e, LAMBDA o : o.month) \/ \E i \in DOMAIN e : e[i].value <= 0
    \/ Len(MonthlyReturns(e)) < 2
SameReturn(a, b) == a[1] * b[2] = b[1] * a[2]
FlatMonths(rets) == \A i, j \in DOMAIN rets : SameReturn(rets[i], rets[j])
Headline(rets) == [months |-> Len(rets), positive |-> Cardinality({i \in DOMAIN rets : rets[i][1] > rets[i][2]})]

Trades(l) == SelectSeq(l, LAMBDA x : x.signal = Sheeted)
SumR(s, I) == MapThenSumSet(LAMBDA i : s[i].r, I)
\* Ratios are undefined without both sides, or without an excursion.
TradeStats(s, ci) ==
    LET winners == {i \in DOMAIN s : s[i].r > 0}
        losers == {i \in DOMAIN s : s[i].r < 0}
    IN  [n |-> Len(s), total |-> SumR(s, DOMAIN s), ci |-> ci, hits |-> Cardinality(winners),
         payoff |-> IF winners # {} /\ losers # {} THEN <<SumR(s, winners), -SumR(s, losers)>> ELSE Undefined,
         mfe_capture |-> IF \E i \in winners : s[i].mfe > 0
                         THEN <<SumR(s, winners), MapThenSumSet(LAMBDA i : s[i].mfe, winners)>> ELSE Undefined]
Intervals(s) == {w \in Range([i \in DOMAIN s |-> s[i].r]) \X Range([i \in DOMAIN s |-> s[i].r]) : w[1] <= w[2]}
CostAttribution(s) ==
    LET net == SumR(s, DOMAIN s)
        costs == MapThenSumSet(LAMBDA i : s[i].costs, DOMAIN s)
    IN  [gross |-> net + costs, costs |-> costs, net |-> net]

\* The label the series had last said at an instant.
LabelOf(ser, entry) == ser[Max({k \in DOMAIN ser : ser[k][1] <= entry})][2]
BreakdownRefused(s, ser) ==
    \/ ~NonDecreasing(ser, LAMBDA x : x[1]) \/ \E k \in DOMAIN ser : ser[k][2] \notin Range(Buckets)
    \/ \E i \in DOMAIN s : \A k \in DOMAIN ser : ser[k][1] > s[i].entry
\* The label at the exit of a trade that lasts past the next stamp.
RegimeBreakdownAtNext(s, ser) ==
    [b \in Range(Buckets) |->
       LET members == {i \in DOMAIN s : ser[Min({Max({k \in DOMAIN ser : ser[k][1] <= s[i].entry}) + 1, Len(ser)})][2] = b}
       IN  [n |-> Cardinality(members), total |-> SumR(s, members)]]
RegimeBreakdown(s, ser) ==
    [b \in Range(Buckets) |->
       LET members == {i \in DOMAIN s : LabelOf(ser, s[i].entry) = b}
       IN  [n |-> Cardinality(members), total |-> SumR(s, members)]]
Positive(breakdown) == Cardinality({b \in DOMAIN breakdown : breakdown[b].n > 0 /\ breakdown[b].total > 0})

\* The gates, a missing PBO left to the other four.
FailuresSparing(n, ci, pbo, latency, positive) ==
    {g \in {"expectancy-ci-includes-zero", "insufficient-oos-trades", "pbo-too-high", "latency-failure", "regime-instability"} :
       CASE g = "expectancy-ci-includes-zero" -> ci[1] <= 0
         [] g = "insufficient-oos-trades" -> n < MinOosTrades
         [] g = "pbo-too-high" -> pbo = "at max"
         [] g = "latency-failure" -> ~latency
         [] OTHER -> positive < MinPositiveBuckets}
\* evaluate_promotion: the named gates that fail.
Failures(n, ci, pbo, latency, positive) ==
    {g \in {"expectancy-ci-includes-zero", "insufficient-oos-trades", "pbo-missing", "pbo-too-high", "latency-failure", "regime-instability"} :
       CASE g = "expectancy-ci-includes-zero" -> ci[1] <= 0
         [] g = "insufficient-oos-trades" -> n < MinOosTrades
         [] g = "pbo-missing" -> pbo = "missing"
         [] g = "pbo-too-high" -> pbo = "at max"
         [] g = "latency-failure" -> ~latency
         [] OTHER -> positive < MinPositiveBuckets}

\* The deflated Sharpe never aborts a sheet: it may stay undefined.
DeflatedSharpe(rets) == IF FlatMonths(rets) THEN {Undefined} ELSE {Undefined, "defined"}

NoSheet == [status |-> "none"]
RenderTearsheet ==
    /\ sheet = NoSheet /\ series # <<>>
    /\ LET s == Trades(ledger)
           rets == MonthlyReturns(equity_curve)
       IN  IF s = <<>> \/ EquityRefused(equity_curve) \/ FlatMonths(rets) \/ BreakdownRefused(s, series)
           THEN sheet' = [status |-> "raised"]
           ELSE LET breakdown == RegimeBreakdown(s, series)
                IN  \E ci \in Intervals(s), pbo \in PboChoices, latency \in BOOLEAN, dsr \in DeflatedSharpe(rets) :
                      sheet' = [status |-> "rendered", headline |-> Headline(rets), rets |-> rets,
                                stats |-> TradeStats(s, ci), costs |-> CostAttribution(s), regimes |-> breakdown, dsr |-> dsr,
                                pbo |-> pbo, failures |-> Failures(Len(s), ci, pbo, latency, Positive(breakdown))]
    /\ UNCHANGED <<ledger, equity_curve, series>>

SheetRest == ledger = <<>> /\ equity_curve = <<>> /\ series = <<>> /\ sheet = NoSheet
SheetInit == ledger \in Ledgers /\ equity_curve \in Equities /\ series \in SeriesSet /\ sheet = NoSheet
SheetNext == RenderTearsheet
----------------------------------------------------------------------------
Product(s) == LET p[k \in 0..Len(s)] == IF k = 0 THEN 1 ELSE p[k - 1] * s[k] IN p[Len(s)]
\* "months with no observations are skipped, so the next observed month's return spans
\* the gap and geometric compounding over the whole series stays exact".
CompoundingExact ==
    sheet.status = "rendered" =>
        LET rets == sheet.rets
        IN  Product([k \in DOMAIN rets |-> rets[k][1]]) * equity_curve[1].value
            = Product([k \in DOMAIN rets |-> rets[k][2]]) * equity_curve[Len(equity_curve)].value

\* Every trade of the sheet is counted in one bucket, that of the last stamp the trader
\* could know at its entry, and the buckets add up to the trade block.
BucketsKnownAtEntry ==
    sheet.status = "rendered" =>
        LET s == Trades(ledger)
            Last(i) == CHOOSE k \in DOMAIN series : series[k][1] <= s[i].entry /\ \A j \in DOMAIN series : j > k => series[j][1] > s[i].entry
        IN  /\ MapThenSumSet(LAMBDA b : sheet.regimes[b].n, Range(Buckets)) = sheet.stats.n
            /\ MapThenSumSet(LAMBDA b : sheet.regimes[b].total, Range(Buckets)) = sheet.costs.net
            /\ \A b \in Range(Buckets) : sheet.regimes[b].n = Cardinality({i \in DOMAIN s : series[Last(i)][2] = b})

\* "None means not computed, which fails promotion rather than passing silently": a sheet
\* promotes only enough trades, profitable in three regimes known at entry, with a computed
\* PBO; what the drivers here pass (no PBO) is never promoted.
PromotedMeansAll ==
    sheet.status = "rendered" /\ sheet.failures = {} =>
        /\ sheet.pbo = "below max" /\ sheet.stats.n >= MinOosTrades
        /\ \E B \in kSubset(MinPositiveBuckets, Range(Buckets)) : \A b \in B : sheet.regimes[b].total > 0
=============================================================================
