---------------------------- MODULE MCDataPlane ----------------------------
(***************************************************************************)
(* The data layer: an edge replay through the locked loader (DataDesk),    *)
(* the edge adapters' disk caches (FeedCaches), the Form 4 backfill        *)
(* (EdgarBackfill), and the minute and option data of the catalyst         *)
(* backtests (CatalystData).  They share no state but the archive, which   *)
(* the replay takes as given: a behaviour is one of the five at work.      *)
(***************************************************************************)
EXTENDS DataDesk, FeedCaches, EdgarBackfill, CatalystData

CONSTANTS sym, other

VARIABLE part

planeVars == <<part, deskVars, cacheVars, edgarVars, minuteVars, optVars>>

DeskAtRest == /\ kind = "earnings" /\ world = CHOOSE w \in Worlds["earnings"] : TRUE
              /\ wall = Min(Walls) /\ sentinel = "none" /\ DeskInit
CachesAtRest == adapter = "bridge" /\ CachesInit
MinuteAtRest == store = [k \in Keys |-> NotCached] /\ MinuteInit

PlaneInit ==
    \/ part = "desk" /\ DeskInit /\ CachesAtRest /\ EdgarInit /\ MinuteAtRest /\ OptInit
    \/ part = "caches" /\ DeskAtRest /\ CachesInit /\ EdgarInit /\ MinuteAtRest /\ OptInit
    \/ part = "edgar" /\ DeskAtRest /\ CachesAtRest /\ EdgarInit /\ MinuteAtRest /\ OptInit
    \/ part = "minute" /\ DeskAtRest /\ CachesAtRest /\ EdgarInit /\ MinuteInit /\ OptInit
    \/ part = "options" /\ DeskAtRest /\ CachesAtRest /\ EdgarInit /\ MinuteAtRest /\ OptInit
PlaneNext ==
    \/ part = "desk" /\ DeskNext /\ UNCHANGED <<part, cacheVars, edgarVars, minuteVars, optVars>>
    \/ part = "caches" /\ CachesNext /\ UNCHANGED <<part, deskVars, edgarVars, minuteVars, optVars>>
    \/ part = "edgar" /\ EdgarNext /\ UNCHANGED <<part, deskVars, cacheVars, minuteVars, optVars>>
    \/ part = "minute" /\ MinuteNext /\ UNCHANGED <<part, deskVars, cacheVars, edgarVars, optVars>>
    \/ part = "options" /\ OptNext /\ UNCHANGED <<part, deskVars, cacheVars, edgarVars, minuteVars>>
PlaneSpec ==
    PlaneInit /\ [][PlaneNext]_planeVars
    /\ WF_planeVars(part = "edgar" /\ Backfill /\ UNCHANGED <<part, deskVars, cacheVars, minuteVars, optVars>>)
----------------------------------------------------------------------------
\* What a replay sees at a bar is what a reader of that day saw, be it a feed's rows,
\* the option data of the engine, or the minutes, chains and volatility ranks that the
\* catalyst backtests assemble from pulls of many months.  See the conjuncts in
\* DataDesk and CatalystData.
RowsAsLive ==
    /\ ReplayMatchesLive /\ OptionsCacheExact
    /\ MinuteFilesWhole /\ RankAsLive /\ SeriesFilesWhole /\ HolesExplained /\ ChainsExact

\* What a replay does at a bar is what a reader of that day did, once per release,
\* also behind the gate that skips the bars at which nothing new is visible.
DecisionsAsLive == ReplayDecidesLive /\ GateTransparent /\ OncePerRelease /\ TradedWhenNews
----------------------------------------------------------------------------
\* Weeks start on days 0, 7 and 14; day 11 is a holiday, the wall is day 16.
Ratio(n) == [short |-> n, total |-> 4]
Base == 3 :> Ratio(1) @@ 4 :> Ratio(2) @@ 15 :> Ratio(2) @@ 16 :> Ratio(4) @@ 17 :> Ratio(4)
Middle == {[d \in {7, 8, 9, 10, 14} |-> IF d = 14 THEN Ratio(4) ELSE f[d]] :
             f \in [{7, 8, 9, 10} -> {Ratio(1), Ratio(3), Ratio(4)}]}
ShortWorlds ==
    {(sym :> (m @@ Base)) @@ (other :> (8 :> Ratio(2) @@ 9 :> [short |-> 0, total |-> 0])) : m \in Middle}
    \cup {(sym :> ([d \in {7, 8, 10, 14} |-> m[d]] @@ Base)) : m \in Middle}

CotWorlds == {[d \in {1, 8, 15} |-> [net |-> f[d], oi |-> 2]] : f \in [{1, 8, 15} -> {0, 1, 3}]}
             \cup {[d \in {7, 8, 9, 15} |-> [net |-> f[d], oi |-> 2]] : f \in [{7, 8, 9, 15} -> {0, 1}]}

VolWorlds ==
    {[vix |-> [d \in 7..10 |-> 2], vvix |-> f @@ (4 :> 3), frozen |-> (4 :> 1 @@ 7 :> 3 @@ 8 :> 1),
      daily |-> (8 :> 2 @@ 10 :> 4 @@ 14 :> 5)] : f \in [{7, 8, 9, 14} -> {1, 3, 12}]}

RatesWorlds ==
    {[yields |-> [d \in {7, 8, 9, 10, 14} |-> [y2 |-> 1, y10 |-> IF d = 14 THEN 3 ELSE f[d]]], fred |-> g] :
       f \in [{7, 8, 9, 10} -> {1, 3}], g \in [{4, 7, 9} -> {1, 2}] \cup [{4, 5, 10, 14} -> {1, 2}]}

Filing(asof, acceptance, code, buyer) ==
    [symbol |-> sym, asof |-> asof, acceptance |-> acceptance, code |-> code, dollars |-> 2,
     officer |-> TRUE, buyer |-> buyer]
InsiderWorlds == SUBSET {Filing(7, At(7, 21), "P", 1), Filing(8, At(14, 9), "P", 2), Filing(9, At(9, 12), "P", 2),
                         Filing(9, At(10, 11), "S", 3), Filing(14, At(15, 20), "P", 1)}

EarningsWorlds == {[events |-> e, mtime |-> m] : e \in SUBSET {8, 12, 16}, m \in {At(5, 3), At(9, 12), At(9, 20), At(30, 0)}}

MicroRow(t, vpin, imbalance, intensity) == [ts |-> t, vpin |-> vpin, imbalance |-> imbalance, intensity |-> intensity]
MicroWorlds ==
    {{MicroRow(At(8, 10), 1, 3, 2), a, b} :
       a \in {MicroRow(At(8, 13), v, i, 2) : v \in {1, 6, NoValue}, i \in {-4, 1, 4}},
       b \in {MicroRow(At(9, h), 6, 4, n) : h \in {10, 13, 16}, n \in {0, 2}}}

Quote(strike, right, n) == [strike |-> strike, right |-> right, oi |-> n, gamma |-> n]
OptionDays == {{Quote(9, "C", 2), Quote(10, "C", 1)}, {Quote(9, "C", 1), Quote(11, "P", 3)}, {}}
OptionsWorlds == {[oi |-> f, greeks |-> g] : f \in [{7, 10, 14} -> OptionDays], g \in [{7, 15} -> OptionDays]}

\* Quarters of two days; b and c are filed by tracked issuers, d by an owner only.
FormRow(acc, cik, filed, parses) == [acc |-> acc, cik |-> cik, filed |-> filed, parses |-> parses]
MCRows == {FormRow("a", 1, 0, TRUE), FormRow("a", 9, 0, TRUE), FormRow("b", 1, 1, FALSE),
           FormRow("b", 2, 1, FALSE), FormRow("c", 2, 3, TRUE), FormRow("d", 9, 1, TRUE)}
MCRanges == {<<0, 1>>, <<1, 3>>, <<3, 2>>}

MCDailyRanges == {<<0, 1>>, <<1, 1>>}

\* Months of five days, expiries near days 3, 8 and 13; a weekly beside the second.
MCListedOn == 8 :> 0 @@ 9 :> 6 @@ 13 :> 7
MCClose(spot, ivs) == [spot |-> spot, quotes |-> ivs]
MCAt(iv) == {[strike |-> 10, iv |-> iv], [strike |-> 10, iv |-> iv + 2], [strike |-> 12, iv |-> 9]}
MCSmiles ==
    8 :> [d \in 0..5 |-> IF d = 3 THEN MCClose(14, MCAt(4)) ELSE MCClose(10, MCAt(6 - d))]
    @@ 9 :> [d \in 6..7 |-> MCClose(10, MCAt(2))]
    @@ 13 :> [d \in 7..10 |-> MCClose(11, MCAt(d - 5))]
MCQuote(strike, bid, ask, greeks) == [strike |-> strike, bid |-> bid, ask |-> ask, spot |-> 10, greeks |-> greeks]
MCSnapshots ==
    [e \in {8, 9, 13} |-> IF e = 9 THEN {MCQuote(9, 2, 3, "served"), MCQuote(10, 3, 2, "served")}
                             ELSE {MCQuote(10, Unread, 2, "nan"), MCQuote(11, 1, 2, "served")}]
MCSeriesAsked == {<<6, 8>>}
MCChainsAsked == {[day |-> 7, expiries |-> {}, liquidity |-> l] : l \in BOOLEAN} \cup {[day |-> 7, expiries |-> {6, 8, 9}, liquidity |-> FALSE]}

MCWorlds == [k \in Kinds |->
    CASE k = "short_ratio" -> ShortWorlds [] k = "cot" -> CotWorlds [] k = "vol_indices" -> VolWorlds
      [] k = "rates" -> RatesWorlds [] k = "insider" -> InsiderWorlds [] k = "earnings" -> EarningsWorlds
      [] k = "micro" -> MicroWorlds [] OTHER -> OptionsWorlds]
=============================================================================
