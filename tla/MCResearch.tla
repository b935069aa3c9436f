---------------------------- MODULE MCResearch -----------------------------
(***************************************************************************)
(* The research side of both systems.  The edge's parts meet in files that *)
(* the campaign models (trial lines, regimes, run directories, reports);   *)
(* each of the others, the catalyst pipeline with its verdict among them,  *)
(* is a computation over inputs of its own.  A behaviour is one part at    *)
(* work, the others at rest.                                               *)
(***************************************************************************)
EXTENDS Campaign, SignalBench, OrbOptions, Selector, TapeBars, Validation, Regime,
        Tearsheet, SignalCatalog, DataGateway, BacktestPipeline, TLC

VARIABLE part

statisticsVars == <<statsVars, budgetVars>>
researchVars == <<part, campaignVars, benchVars, orbVars, selectVars, tapeVars, splitVars, statisticsVars,
                  regimeVars, sheetVars, catalogVars, gatewayVars, pipeVars>>

Parts == {"campaign", "signals", "orb options", "selector", "tape", "splits", "overfitting", "budget",
          "regime", "tearsheet", "catalog", "gateway", "pipeline"}

ResearchInit ==
    /\ part \in Parts
    /\ IF part = "campaign" THEN CampaignInit ELSE CampaignRest
    /\ IF part = "signals" THEN BenchInit ELSE BenchRest
    /\ IF part = "orb options" THEN OrbOptionsInit ELSE OrbOptionsRest
    /\ IF part = "selector" THEN SelectInit ELSE SelectRest
    /\ IF part = "tape" THEN TapeInit ELSE TapeRest
    /\ IF part = "splits" THEN SplitsInit ELSE SplitsRest
    /\ IF part = "overfitting" THEN StatsInit ELSE StatsRest
    /\ IF part = "budget" THEN BudgetInit ELSE BudgetRest
    /\ IF part = "regime" THEN RegimeInit ELSE RegimeRest
    /\ IF part = "tearsheet" THEN SheetInit ELSE SheetRest
    /\ IF part = "catalog" THEN CatalogInit ELSE CatalogRest
    /\ IF part = "gateway" THEN GatewayInit ELSE GatewayRest
    /\ IF part = "pipeline" THEN PipeInit ELSE PipeRest

\* A part works, the others stay as they are.
Still(v, p) == IF part = p THEN TRUE ELSE UNCHANGED v
OthersStill ==
    /\ UNCHANGED part
    /\ Still(campaignVars, "campaign") /\ Still(benchVars, "signals") /\ Still(orbVars, "orb options")
    /\ Still(selectVars, "selector") /\ Still(tapeVars, "tape") /\ Still(splitVars, "splits")
    /\ Still(statsVars, "overfitting") /\ Still(budgetVars, "budget") /\ Still(regimeVars, "regime")
    /\ Still(sheetVars, "tearsheet") /\ Still(catalogVars, "catalog") /\ Still(gatewayVars, "gateway")
    /\ Still(pipeVars, "pipeline")

ResearchNext ==
    \/ part = "campaign" /\ CampaignNext /\ OthersStill
    \/ part = "signals" /\ BenchNext /\ OthersStill
    \/ part = "orb options" /\ OrbOptionsNext /\ OthersStill
    \/ part = "selector" /\ SelectNext /\ OthersStill
    \/ part = "tape" /\ TapeNext /\ OthersStill
    \/ part = "splits" /\ SplitsNext /\ OthersStill
    \/ part = "overfitting" /\ StatsNext /\ OthersStill
    \/ part = "budget" /\ BudgetNext /\ OthersStill
    \/ part = "regime" /\ RegimeNext /\ OthersStill
    \/ part = "tearsheet" /\ SheetNext /\ OthersStill
    \/ part = "catalog" /\ CatalogNext /\ OthersStill
    \/ part = "gateway" /\ GatewayNext /\ OthersStill
    \/ part = "pipeline" /\ PipeNext /\ OthersStill

\* The orchestrator's loop and the report run on; a worker's process is scheduled.
ResearchSpec ==
    /\ ResearchInit /\ [][ResearchNext]_researchVars
    /\ WF_researchVars(part = "campaign" /\ (OrchEnsure \/ OrchRecord \/ OrchPass) /\ OthersStill)
    /\ WF_researchVars(part = "campaign" /\ (ReportEnsure \/ ReportRow \/ ReportFiles) /\ OthersStill)
    /\ \A i \in Ids : WF_researchVars(part = "campaign" /\ i \in DOMAIN runs /\ RunStep(i) /\ OthersStill)
----------------------------------------------------------------------------
\* The signals: the memos kept across bars change no decision, a second run over the same
\* instances repeats the first, and the ORB options strategy decides at a minute by what
\* was over then.
SignalsExact ==
    /\ part = "signals" => SignalsTypeOK /\ OrbMemoExact /\ VwapMemoExact /\ LeadLagMemoExact /\ RerunsIdentical
    /\ part = "orb options" => OrbOptionsPrior

\* The contract chosen does not depend on the order of the chain, is never further from the
\* aimed delta than another eligible one, and what is paid for it is its excursion.
SelectionSound == part = "selector" => ChoiceOrderFree /\ NeverWorseDelta /\ ExcursionPaysDebit

\* What is built from the prints and from the session's bars is complete and causal: the
\* sampled bars, the microstructure and internals rows, the regime labels.
FeaturesCausal ==
    /\ part = "tape" => BarsExact /\ TapeFramesCausal
    /\ part = "regime" => RegimePrefix /\ LabelsAgree

\* Validation statistics say what the rows and the paths say: folds purged exactly, every
\* sample tested once, overfitting, bootstrap and ruin as counted one by one.  A tearsheet
\* compounds exactly, buckets trades by what was known at entry, and promotes nothing by
\* omission.
StatisticsExact ==
    /\ part = "splits" => PurgeExact /\ TestedOnce /\ WalkTiles
    /\ part = "overfitting" => PboMatchesRows /\ DrawsUniform
    /\ part = "budget" => RuinNested /\ RuinAbsorbs /\ NoOverrideGrows
    /\ part = "tearsheet" => CompoundingExact /\ BucketsKnownAtEntry /\ PromotedMeansAll

\* A CANDIDATE of the catalyst pipeline rests on the whole matrix and on days nobody trained
\* on; frictions, gate counts and failed engines are filed with the cell they belong to, the
\* record is granted by the saved report, and walk-forward windows test what comes after.
VerdictSound ==
    part = "pipeline" => PassEarned /\ TwinApart /\ NothingOmitted /\ GrantedByReport /\ WindowsSound

\* What the registry says of a run is what the engine got, and code outside edge.data
\* reaches the raw data through the loader only.
ResearchHonest ==
    /\ part = "catalog" => RecordedIsApplied /\ DuplicatesRepeat
    /\ part = "gateway" => GatewayExact
----------------------------------------------------------------------------
(* Campaign: three signals, one with a solo run, two heavy runs.           *)
MCPlan == <<<<"a", "OOS">>, <<"a", "IS">>, <<"b", "IS">>, <<"c", "OOS">>>>
MCOnlys == {{"a", "b"}, {"a"}, {"c"}}
MCEvents == [o \in MCOnlys |-> CASE "b" \in o -> 0 [] "c" \in o -> 2 [] OTHER -> 1]
MCSolo == {<<"c", "OOS">>}
MCHeavy == {<<"a", "IS">>, <<"b", "IS">>}
MCSpecs == <<"c">>
-----------------------------------------------------------------------------
CONSTANTS idx, nam

MCOrder == <<idx, nam>>
PriceBar(close, volume) == [close |-> close, high |-> close + 1, low |-> close - 1, volume |-> volume]

\* Days by minute: a break of the range on volume, a day with a bar at the open and a
\* jump, a gapped day whose first bar has no volume, a day with one late bar.
Break == 1 :> PriceBar(2, 1) @@ 2 :> PriceBar(2, 1) @@ 3 :> PriceBar(4, 2)
Long == 0 :> PriceBar(4, 1) @@ 1 :> PriceBar(4, 1) @@ 2 :> PriceBar(4, 0) @@ 3 :> PriceBar(2, 2) @@ 4 :> PriceBar(2, 1)
Gapped == 1 :> PriceBar(4, 0) @@ 3 :> PriceBar(2, 1)
Late == 4 :> PriceBar(4, 1)
Rising == 1 :> PriceBar(2, 1) @@ 2 :> PriceBar(2, 1) @@ 3 :> PriceBar(4, 1) @@ 4 :> PriceBar(4, 1)
Falling == 0 :> PriceBar(4, 1) @@ 1 :> PriceBar(4, 1) @@ 2 :> PriceBar(2, 1) @@ 3 :> PriceBar(4, 1) @@ 4 :> PriceBar(2, 1)

\* A tape is a day after the other.
Days(templates) ==
    [t_ \in {DayLength * (d - 1) + m : d \in DOMAIN templates, m \in 0..(DayLength - 1)}
           \cap UNION {{DayLength * (d - 1) + m : m \in DOMAIN templates[d]} : d \in DOMAIN templates}
     |-> templates[DayOf(t_) + 1][TimeOfDay(t_)]]

MCTapes == {(idx :> Days(<<i[1], i[2], i[3], i[4]>>)) @@ (nam :> Days(<<n[1], n[2], n[3], n[4]>>)) :
              i \in {<<Rising, Falling, Rising, Falling>>, <<Falling, Falling, Rising, Falling>>},
              n \in [1..4 -> {Break, Long, Gapped, Late}]}
-----------------------------------------------------------------------------
OB(h, l, c, v) == [high |-> h, low |-> l, close |-> c, volume |-> v]
\* A breakout up on volume that runs, chop after a pre-market bar, a breakdown, no opening.
DUp == 0 :> OB(22, 20, 20, 2) @@ 1 :> OB(22, 20, 21, 2) @@ 2 :> OB(26, 21, 25, 9) @@ 3 :> OB(32, 25, 30, 4) @@ 4 :> OB(30, 26, 28, 1)
DChop == (-1) :> OB(40, 10, 20, 50) @@ 0 :> OB(22, 20, 20, 2) @@ 1 :> OB(22, 20, 21, 2) @@ 2 :> OB(22, 20, 21, 2) @@ 3 :> OB(26, 18, 20, 2) @@ 4 :> OB(22, 20, 20, 1)
DDown == 0 :> OB(22, 20, 21, 2) @@ 1 :> OB(22, 20, 20, 2) @@ 2 :> OB(20, 15, 16, 9) @@ 3 :> OB(16, 10, 12, 9) @@ 4 :> OB(16, 12, 15, 1)
DLate == (-1) :> OB(30, 10, 20, 5) @@ 3 :> OB(24, 20, 22, 2) @@ 4 :> OB(26, 20, 24, 2)
MCReplays == [1..4 -> {DUp, DChop, DDown, DLate}]
MCDeltas == (-1) :> 70 @@ 0 :> 50 @@ 1 :> 30
MCBooks == {(-1) :> [bid |-> 3, ask |-> 3] @@ 0 :> [bid |-> 1, ask |-> 1] @@ 1 :> NoBar,
            (-1) :> NoBar @@ 0 :> [bid |-> 1, ask |-> 3] @@ 1 :> [bid |-> 1, ask |-> 1]}
-----------------------------------------------------------------------------
Row(k, right, d, dte, bid, ask, oi) ==
    [strike |-> k, right |-> right, delta |-> IF right = "P" THEN -d ELSE d, dte |-> dte, bid |-> bid,
     ask |-> ask, oi |-> oi, size |-> 10, finite |-> TRUE]
\* Rows below and above every floor; a tie; a thin, an unquoted and a malformed row.
MCChains ==
    {<<Row(10, "C", a, x, 18, 20, o), Row(11, "C", b, y, p, 20, 6), Row(10, "P", 4, 0, 18, 20, 7),
       Row(12, "C", c, 7, 8, z, 5)>> :
         a \in {3, 5}, b \in {3, 4}, c \in {2, 5}, x \in {7, 3}, y \in {7, 4}, p \in {17, 18, 23}, z \in {8, 9}, o \in {5, 6}}
    \cup {<<[Row(12, "P", 5, 0, 18, 19, 9) EXCEPT !.size = 3], Row(10, "C", 5, 1, 0, 0, 7), Row(9, "C", 4, 9, 9, 10, 7),
            Row(9, "C", 4, 8, 9, 10, 7), [Row(10, "C", 4, 7, 1, 1, 7) EXCEPT !.finite = FALSE]>>}
MCCalls == [side : {BUY, SELL}, rung : {0, 1, 2, 7}, excursion : {50, 57}, fat_tailed : BOOLEAN]
-----------------------------------------------------------------------------
Print3(ts, p, s) == [ts |-> ts, price |-> p, size |-> s]
MCSessions ==
    {[a |-> <<Print3(0, 5, 2), Print3(x, 5, 1), Print3(3, p, 2), Print3(4, q, 3), Print3(y, q, 1), Print3(9, r, 2)>>,
      b |-> IF z = 0 THEN <<>> ELSE <<Print3(z, 7, 2), Print3(8, w, 2)>>, c |-> <<Print3(6, 3, 1)>>] :
         x \in {1, 2}, p \in {4, 6}, q \in {5, 7}, r \in {4, 6, 9}, y \in {4, 5}, z \in {0, 3, 5}, w \in {6, 8}}
MCPrior == [a |-> 5, b |-> 6, c |-> 4]
-----------------------------------------------------------------------------
Label(a, b) == [t0 |-> a, t1 |-> b]
MCSamples == {<<Label(1, a), Label(2, b), Label(c, c + 1), Label(d, e), Label(6, 7)>> :
                a \in {1, 3}, b \in {2, 6}, c \in 2..3, d \in 3..4, e \in {2, 4, 8}}
MCWindows == [fit : 1..3, test : 1..2, step : 1..3, sessions : 2..7]

\* Two strategies over eight or nine rows, one of them often best by a single block; three
\* strategies over four rows.
Pieces == {<<0, 1>>, <<1, 2>>, <<-1, 0>>}
Col(p) == [r \in 1..8 |-> p[1 + (r - 1) \div 2][1 + ((r - 1) % 2)]]
MCMatrices ==
    {[r \in 1..(8 + e) |-> IF r = 9 THEN <<5, 0>> ELSE <<Col(p)[r], Col(q)[r]>>] :
       p \in {z \in [1..4 -> Pieces] : z[1] = <<0, 1>>},
       q \in {[k \in 1..4 |-> IF k = j THEN <<1, 2>> ELSE <<-1, 0>>] : j \in 1..4}
             \cup {[k \in 1..4 |-> IF k % 2 = 0 THEN <<3, 1>> ELSE <<0, -1>>]},
       e \in 0..1}
    \cup {<<a, b, c, <<1, 0, 2>>>> : a \in {<<0, 1, 2>>, <<1, 0, 1>>}, b \in {<<2, 1, 2>>, <<2, 0, 1>>, <<2, 2, 1>>},
                                     c \in {<<2, 1, 1>>, <<0, -1, 3>>}}
MCReturns == {<<m - d, m, m + d>> : m \in -2..2, d \in 1..2} \cup {<<m + d, m - d, m>> : m \in -2..2, d \in 1..2}
             \cup {<<m, m + 2, m, m>> : m \in -1..1} \cup {<<1>>, <<1, 1, 1>>}
MCHorizons == <<2, 4>>
-----------------------------------------------------------------------------
Vol(d, x, n) == [asof |-> d, vix |-> x, vix9d |-> n]
MCVol == {{Vol(1, 2, Missing)} \cup {Vol(d, f[d], IF d = 3 THEN 3 ELSE Missing) : d \in D} :
            D \in SUBSET {2, 3, 6}, f \in [{2, 3, 6} -> {1, 3}]} \cup {{Vol(1, 2, Missing), Vol(2, Missing, Missing)}}
HourBar(ts, h, l, c) == [ts |-> ts, high |-> h, low |-> l, close |-> c]
MCBars == {{HourBar(24 * d + 11, 5 + f[d] + 1, 5 + f[d] - 1, 5 + f[d]) : d \in {1, 2, 3, 6}}
             \cup {HourBar(24 * 2 + 15, 5 + g, 5 + g, 5 + g)} : f \in [{1, 2, 3, 6} -> {-2, 3}], g \in {-1, 4}}
Trade(s, e, r) == [signal |-> s, entry |-> e, r |-> r, mfe |-> IF r > 0 THEN r + 1 ELSE 0, costs |-> 1]
MCLedgers == {<<Trade("x", 1, 1), Trade("y", 2, 5), Trade("x", 2, a), Trade("x", 4, b), Trade("x", 5, c)>> :
                a \in {-2, 1}, b \in {-1, 2}, c \in {1, 3}}
             \cup {<<Trade("y", 2, 1)>>, <<Trade("x", 0, 1)>>}
Obs(m, v) == [month |-> m, value |-> v]
MCEquities == {<<Obs(1, 4), Obs(1, a), Obs(2, b), Obs(5, 6), Obs(5, d)>> : a \in {3, 5}, b \in {2, 4, 0}, d \in {4, 9}}
              \cup {<<Obs(1, 4), Obs(1, 5)>>, <<Obs(2, 4), Obs(1, 5)>>, <<Obs(1, 2), Obs(1, 4), Obs(2, 8)>>}
MCSeries == {<<<<1, Buckets[1]>>, <<2, Buckets[a]>>, <<4, Buckets[3]>>, <<5, Buckets[b]>>>> : a \in 1..2, b \in 3..4}
            \cup {<<<<1, "low_vol_trend">>>>, <<<<2, Buckets[1]>>>>}
-----------------------------------------------------------------------------
SignalClass(id, name, hyp) ==
    [id |-> id, name |-> name, hypothesis |-> hyp, concrete |-> TRUE, warmup |-> 0, allowed |-> {"*"}]
MCClasses == {SignalClass("A", "orb", 2), SignalClass("B", "orb", 2), SignalClass("C", "gap", 1)}
MCRunSpecs == {[span |-> "IS", symbols |-> 1, latency |-> 1, half |-> h, overrides |-> o] :
                 h \in {1, 2}, o \in {<<>>, [fill |-> 1]}}
MCBase == {[execution |-> [fill |-> 2, slip |-> 1], risk |-> 1], [execution |-> [fill |-> 2, slip |-> 3], risk |-> 2]}

EdgeData == <<"edge", "data">>
MCModules == {<<"edge">>, EdgeData, EdgeData \o <<"loader">>, EdgeData \o <<"feeds">>, EdgeData \o <<"feeds", "ticks">>,
              <<"edge", "database">>, <<"edge", "signals">>, <<"edge", "signals", "data">>, <<"edge", "signals", "orb">>,
              <<"catalyst">>, <<"catalyst", "data">>, <<"pandas">>, <<"importlib">>}
MCNodes ==
    {[form |-> "import", level |-> 0, module |-> m, name |-> ""] : m \in MCModules}
    \cup {[form |-> "from", level |-> l, module |-> m, name |-> n] :
            l \in 0..3,
            m \in {<<>>, <<"edge">>, <<"data">>, <<"feeds">>, <<"data", "feeds">>, <<"data", "loader">>} \cup MCModules,
            n \in {"data", "loader", "feeds", "ticks", "orb", "SyntheticBackend", "EdgeDataLoader", "*"}}
    \cup {[form |-> "name", level |-> 0, module |-> <<>>, name |-> n] : n \in {"eval", "len"}}
MCSources ==
    {[package |-> p, parses |-> TRUE, nodes |-> <<a>>] :
       p \in {<<"edge">>, <<"edge", "signals">>, <<"edge", "signals", "data">>, EdgeData},
       a \in {x \in MCNodes : x.form # "from" \/ x.level > 0 \/ x.module # <<>>}}
    \cup {[package |-> <<"edge">>, parses |-> FALSE, nodes |-> <<>>]}
-----------------------------------------------------------------------------
GoodRun == [outcome |-> "ok", thin |-> FALSE, equity |-> 100, monthly |-> 9, drag |-> 5, n |-> 3, top |-> 5, total |-> 10,
            gates |-> 1]
OtherRuns ==
    {[GoodRun EXCEPT !.outcome = o, !.gates = g] : o \in {"failed", "unavailable"}, g \in {0, 2}}
    \cup {[GoodRun EXCEPT !.equity = e] : e \in {60, 65, 140}} \cup {[GoodRun EXCEPT !.monthly = m] : m \in {-200, 8, 109, 120}}
    \cup {[GoodRun EXCEPT !.n = n] : n \in {0, 2}} \cup {[GoodRun EXCEPT !.top = 6], [GoodRun EXCEPT !.thin = TRUE]}
MCEngines == {<<"native">>, <<"native", "nautilus">>, <<"lean", "native">>, <<"nautilus">>}
\* Two runs of the matrix go differently from the others.
MCAnswers(es) ==
    {[c \in CellSet |-> [e \in Range(es) |->
        CASE c = cell /\ e = engine -> a [] c = <<"test", "real">> /\ c # cell -> b [] OTHER -> GoodRun]] :
       cell \in CellSet, engine \in Range(es), a \in OtherRuns,
       b \in {GoodRun, [GoodRun EXCEPT !.monthly = 6]}}
MCRequest(span, intraday, research, es, answers) ==
    [span |-> span, intraday |-> intraday, research |-> research, engines |-> es, answers |-> answers]
MCRequests ==
    UNION {{MCRequest(<<1, 10>>, FALSE, FALSE, es, a) : a \in MCAnswers(es)} : es \in MCEngines}
    \cup {MCRequest(<<1, 10>>, TRUE, r, <<"native">>, a) : r \in BOOLEAN, a \in MCAnswers(<<"intraday_native">>)}
    \cup {MCRequest(<<1, d>>, FALSE, FALSE, <<"native">>, [c \in CellSet |-> [e \in {"native"} |-> GoodRun]]) : d \in {1, 2, 4, 5}}
MCMonthLengths == <<4, 2, 3>>
MCWalks == [start : {<<0, 2>>, <<0, 4>>, <<1, 2>>}, end : {<<6, 1>>, <<7, 2>>}, train : 1..3, test : 1..2, step : 1..2]
=============================================================================
