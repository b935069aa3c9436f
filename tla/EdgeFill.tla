------------------------------ MODULE EdgeFill ------------------------------
(***************************************************************************)
(* The fill model of the edge platform (src/edge/execution/costmodel.py):  *)
(* the only place where a quote becomes a fill.  Money is exact: quotes    *)
(* are whole ticks, and prices, marks and cash are counted in 1/Unit of a  *)
(* tick, the finest fraction spread_fill_fraction and slippage_pct (both   *)
(* whole percents here) can produce.                                       *)
(***************************************************************************)
EXTENDS Integers, FiniteSets, Sequences, SequencesExt

CONSTANTS SpreadFillPct,   \* execution.spread_fill_fraction, in percent
          SlippagePct,     \* execution.slippage_pct, in percent
          Commission,      \* execution.commission_per_contract, in 1/Unit
          Multiplier       \* contract_multiplier

ASSUME FillAssumption ==
    /\ SpreadFillPct \in 0..100
    /\ SlippagePct \in Nat
    /\ Commission \in Nat
    /\ Multiplier \in Nat \ {0}

BUY == "buy"
SELL == "sell"
Opposite(side) == IF side = BUY THEN SELL ELSE BUY

Unit == 20000

\* QuoteEvent.mid
Mid(q) == 10000 * (q.bid + q.ask)

Crossed(q) == q.bid > q.ask

\* How far past mid a marketable order fills, before slippage.
CrossedPrice(q, side) ==
    IF side = BUY THEN 100 * (100 * (q.bid + q.ask) + SpreadFillPct * (q.ask - q.bid))
                  ELSE 100 * (100 * (q.bid + q.ask) - SpreadFillPct * (q.ask - q.bid))

\* slippage_pct of the premium, against the trader, floored at zero.
SlippedPrice(q, side) ==
    IF side = BUY
    THEN (CrossedPrice(q, side) \div 100) * (100 + SlippagePct)
    ELSE Max({(CrossedPrice(q, side) \div 100) * (100 - SlippagePct), 0})

\* assert_not_better_than_mid
NotBetterThanMid(price, q, side) ==
    IF side = BUY THEN price >= Mid(q) ELSE price <= Mid(q)

\* The adverse distance of a price from mid: what the fill costs.
Adverse(price, q, side) ==
    IF side = BUY THEN price - Mid(q) ELSE Mid(q) - price

NoFill == [status |-> "unfilled", qty |-> 0, price |-> 0,
           spread |-> 0, slip |-> 0, commission |-> 0]
Refused == [NoFill EXCEPT !.status = "raised"]

\* Mutant of MarketableFill: the spread is booked per order, not per contract.
MarketableFillPerOrder(q, side, qty) ==
    LET price == SlippedPrice(q, side)
        spread == Adverse(CrossedPrice(q, side), q, side) * Multiplier
    IN  IF qty < 1 \/ Crossed(q) \/ ~NotBetterThanMid(price, q, side) THEN Refused
        ELSE [status |-> "filled", qty |-> qty, price |-> price, spread |-> spread,
              slip |-> Adverse(price, q, side) * Multiplier - spread,
              commission |-> Commission * qty]

\* CostModel.marketable_fill: a crossed book is refused, never priced.
MarketableFill(q, side, qty) ==
    LET price == SlippedPrice(q, side)
        scale == qty * Multiplier
        spread == Adverse(CrossedPrice(q, side), q, side) * scale
    IN  IF qty < 1 \/ Crossed(q) \/ ~NotBetterThanMid(price, q, side) THEN Refused
        ELSE [status |-> "filled", qty |-> qty, price |-> price, spread |-> spread,
              slip |-> Adverse(price, q, side) * scale - spread,
              commission |-> Commission * qty]

\* CostModel.fill_with_latency: the fill prices off the quote at arrival. A
\* quote later than the arrival is look-ahead and raises; one that predates
\* the decision cannot be the book the order met.
FillWithLatency(decision, arrival, latency, side, qty) ==
    IF arrival.ts > decision.ts + latency THEN Refused
    ELSE IF arrival.ts < decision.ts THEN NoFill
    ELSE MarketableFill(arrival, side, qty)

\* CostModel.limit_fill: one step of the walk along the quote path.
LimitCrosses(q, side, limit) ==
    IF side = BUY THEN 0 < q.ask /\ q.ask <= limit ELSE q.bid >= limit

LimitTake(q, side, remaining) ==
    Min({remaining, Max({1, IF side = BUY THEN q.ask_size ELSE q.bid_size})})

LimitStep(acc, q, side, limit) ==
    IF acc.raised \/ q.ts < acc.prev \/ Crossed(q) THEN [acc EXCEPT !.raised = TRUE]
    ELSE IF acc.remaining = 0 \/ ~LimitCrosses(q, side, limit) THEN [acc EXCEPT !.prev = q.ts]
    ELSE IF ~NotBetterThanMid(limit * Unit, q, side) THEN [acc EXCEPT !.raised = TRUE]
    ELSE LET take == LimitTake(q, side, acc.remaining)
         IN  [acc EXCEPT !.prev = q.ts, !.remaining = @ - take,
                         !.spread = @ + Adverse(limit * Unit, q, side) * take * Multiplier]

LimitFill(side, limit, qty, path) ==
    LET start == [remaining |-> qty, spread |-> 0, prev |-> 0, raised |-> FALSE]
        end == FoldLeft(LAMBDA acc, q : LimitStep(acc, q, side, limit), start, path)
        filled == qty - end.remaining
    IN  IF qty < 1 \/ limit <= 0 \/ end.raised THEN Refused
        ELSE IF filled = 0 THEN NoFill
        ELSE [status |-> IF end.remaining = 0 THEN "filled" ELSE "partial",
              qty |-> filled, price |-> limit * Unit, spread |-> end.spread, slip |-> 0,
              commission |-> Commission * filled]
=============================================================================
