--------------------------- MODULE MCBacktests -----------------------------
(***************************************************************************)
(* A small book for the daily engine (two catalysts of one strategy on one *)
(* symbol, a credit vertical, a calendar whose front leg expires first, a  *)
(* scheduled trade, a hedge put) and one for the intraday engine.          *)
(***************************************************************************)
EXTENDS DailyBacktest, IntradayBacktest

Plain == [closeBefore |-> 0, hardExit |-> Off, maxHold |-> Off, tpCredit |-> Off,
          stopCredit |-> Off, stops |-> TRUE, stopLoss |-> Off, tpMax |-> Off,
          tp1Gain |-> Off, tp1Pct |-> Off, trail |-> Off]

\* Sells half at +50%, trails the rest; two units.
Call == [engine |-> "drift", ref |-> "cpi", sym |-> "A", dir |-> "long",
         cost |-> 20, maxLoss |-> 20, width |-> Off, riskPct |-> 30, days |-> {1},
         legs |-> [c |-> 3], marks |-> [s \in {{"c"}} |-> {14, 40}],
         pays |-> [s \in {{"c"}} |-> {30}],
         rules |-> [Plain EXCEPT !.tp1Gain = 50, !.tp1Pct = 50, !.trail = 30]]

\* The same strategy and symbol, another catalyst: a spread with a profit target.
Spread == [engine |-> "drift", ref |-> "fomc", sym |-> "A", dir |-> "long",
           cost |-> 20, maxLoss |-> 20, width |-> 30, riskPct |-> 15, days |-> {1, 2},
           legs |-> [c |-> 5, d |-> 5], marks |-> [s \in (SUBSET {"c", "d"}) \ {{}} |-> {5, 30}],
           pays |-> [s \in (SUBSET {"c", "d"}) \ {{}} |-> {0}],
           rules |-> [Plain EXCEPT !.stopLoss = -50, !.tpMax = 90, !.trail = 30]]

\* Raises cash, posts collateral.
Credit == [engine |-> "vrp", ref |-> "week", sym |-> "B", dir |-> "neutral",
           cost |-> -8, maxLoss |-> 12, width |-> 20, riskPct |-> 15, days |-> {1},
           legs |-> [s |-> 3, l |-> 3], marks |-> [s \in (SUBSET {"s", "l"}) \ {{}} |-> {-3, -14}],
           pays |-> [s \in (SUBSET {"s", "l"}) \ {{}} |-> {-20}],
           rules |-> [Plain EXCEPT !.tpCredit = 50, !.stopCredit = 150]]

\* A calendar: the front leg expires in session 3, the back leg lives on.
Calendar == [engine |-> "cal", ref |-> "iv", sym |-> "B", dir |-> "neutral",
             cost |-> 10, maxLoss |-> 10, width |-> Off, riskPct |-> 14, days |-> {1},
             legs |-> [f |-> 3, b |-> 5],
             marks |-> [s \in (SUBSET {"f", "b"}) \ {{}} |-> IF s = {"b"} THEN {12} ELSE {10, 18}],
             pays |-> [s \in (SUBSET {"f", "b"}) \ {{}} |-> IF s = {"f"} THEN {-5} ELSE {3}],
             rules |-> [Plain EXCEPT !.maxHold = 3, !.tp1Gain = 50, !.tp1Pct = 50]]

Monthly == [engine |-> "sched", ref |-> "m1", sym |-> "B", dir |-> "long",
            cost |-> 10, maxLoss |-> 10, width |-> Off, riskPct |-> 8, days |-> {3},
            legs |-> [c |-> 9], marks |-> [s \in {{"c"}} |-> {10}],
            pays |-> [s \in {{"c"}} |-> {0}],
            rules |-> [Plain EXCEPT !.hardExit = 4]]

Put == [engine |-> Hedge, ref |-> "hedge-sleeve", sym |-> "A", dir |-> "short",
        cost |-> 4, maxLoss |-> 5, width |-> Off, riskPct |-> 0, days |-> {},
        legs |-> [p |-> 9], marks |-> [s \in {{"p"}} |-> {3}],
        pays |-> [s \in {{"p"}} |-> {0}],
        rules |-> [Plain EXCEPT !.stops = FALSE]]

MCBets == <<Call, Spread, Credit, Calendar>>
MCScheduled == <<Monthly>>
MCPuts == {Put}
MCSlips == {1}
MCCorrelated == {}
-----------------------------------------------------------------------------
\* The intraday book: shares with a stop, a long option held for two minutes, a credit
\* structure with a stop on its liability.
Rules0 == [closeBy |-> Off, maxMinutes |-> Off, stops |-> TRUE, stopLoss |-> Off, trail |-> Off]
Shares == [k |-> 1, engine |-> "momo", ref |-> "m", sym |-> "A", dir |-> "long", cost |-> 20, maxLoss |-> 20, riskPct |-> 30,
  legs |-> <<>>, rows |-> {[mid |-> 20, open |-> 20, buyer |-> TRUE], [mid |-> 10, open |-> 20, buyer |-> TRUE]},
  rules |-> [Rules0 EXCEPT !.stopLoss = -50]]
Long == [k |-> 2, engine |-> "orb", ref |-> "o", sym |-> "A", dir |-> "long", cost |-> 10, maxLoss |-> 10, riskPct |-> 15,
  legs |-> [c |-> 9], rows |-> {[mid |-> 10, buyer |-> TRUE], [mid |-> 10, buyer |-> FALSE]},
  rules |-> [Rules0 EXCEPT !.maxMinutes = 2]]
Short == [k |-> 3, engine |-> "vrp", ref |-> "v", sym |-> "A", dir |-> "short", cost |-> -10, maxLoss |-> 10, riskPct |-> 15,
  legs |-> [s |-> 9, l |-> 9], rows |-> {[mid |-> -10, buyer |-> TRUE], [mid |-> -20, buyer |-> TRUE]},
  rules |-> [Rules0 EXCEPT !.stopLoss = -200]]
MCProposals == <<Shares, Long, Short>>
MCCloses == {4, 6}
MCPaces == {1, 6}
---------------------------------------------------------------------------
\* A replay is daily or intraday, over the one broker, risk manager and set of exit rules.
benchVars == <<brokerVars, loopVars, minuteVars>>

BenchInit == (DailyInit /\ IntradayRest) \/ (IntradayInit /\ DailyRest)

BenchNext == (phase # "off" /\ DailyNext /\ UNCHANGED minuteVars) \/ (step # "off" /\ IntradayNext /\ UNCHANGED loopVars)

BenchSpec == BenchInit /\ [][BenchNext]_benchVars
----------------------------------------------------------------------------
\* The mirror of either engine is the broker's book, with the same remaining units and
\* the same realized profit of scale-outs and settled legs.
BooksAgree == MirrorExact /\ RecordsAgree

\* Bets are not doubled and nothing due is carried: no catalyst is entered twice, no
\* symbol held twice by a strategy, and no position outlives its expiry buffer or time
\* stop unless its closing order was refused.
BetsKept == OneEntryPerBet /\ OnePerSymbol /\ NoneOverdue

\* Money: the records explain every dollar and collateral follows its units.
MoneyKept == Reconciled /\ ReserveFollows

\* Intraday: flat by the close whatever the pace and the quotes, the mirror is the broker's
\* book over refused closes and synthetic fills, and the records reconcile with cash.
IntradayKept == FlatByClose /\ MinuteBooks

\* Both engines implement the trade book: a position that was entered is open until it
\* has its one trade record, whether an exit, a settlement, the flatten or the end of the
\* replay closes it, no identity is used twice, and a replay returns with none open.
Book == INSTANCE TradeBook WITH
  open <- DOMAIN state \cup DOMAIN live,
  booked <- {r.id : r \in trades} \cup {r.id : r \in records},
  outcome <- IF phase = "done" \/ step = "done" THEN "returned" ELSE "running"
KeepsTradeBook == Book!BookSpec

\* The caps of the daily gate hold for what was entered, fills and commissions included: what
\* the sizing buffer keeps back is enough for both.
RiskKept == CapsKept

\* What a minute may do: a fill had a market in that minute and a synthetic one is never
\* better than the mark; nothing is entered once the breaker has tripped.
MinutesKept == FillsAreReal /\ BreakerHolds
=============================================================================
