----------------------------- MODULE EdgeEngine -----------------------------
(***************************************************************************)
(* The event-driven backtest engine of the edge platform                   *)
(* (src/edge/runners/engine.py): one run() over a merged tape of bars,     *)
(* with next-bar fills, exit policies, the drop-counted signal pipeline,   *)
(* the books and the terminal flatten.                                     *)
(*                                                                         *)
(* A tape gives every symbol a function from the instants at which it has  *)
(* a bar to that bar: its close and extremes in ticks and the top of book  *)
(* kept for it, NoQuote when the quote tape has no row.  What the signals, *)
(* the regime gate and the invalidation callback answer is left open: the  *)
(* engine must keep its books right whatever its hooks say.                *)
(***************************************************************************)
EXTENDS EdgeFill

CONSTANTS
    SymbolOrder,      \* the symbols in the order sorted() gives them
    Tapes,            \* the tapes a run may be given
    NoQuote,
    DayLength,        \* instants per ET day
    InitialEquity,    \* params.initial_equity, in ticks
    LatencyTicks,     \* params.latency_ms, in instants
    RiskRPct,         \* params.risk_r_pct
    StopR,            \* params.stop_r_multiple, 0 for None
    MaxHold,          \* params.max_hold_minutes in instants, 0 for None
    EodTime,          \* params.eod_flatten_time, DayLength for None
    PerTradeCapPct,   \* config.risk.per_trade_cap_pct
    DailyHaltPct,     \* config.risk.daily_loss_halt_pct
    Convictions,      \* conviction, in quarters
    MaxEmits          \* bound: events processed per bar

ASSUME EngineAssumption ==
    /\ InitialEquity \in Nat \ {0}
    /\ LatencyTicks \in Nat
    /\ RiskRPct \in Nat \ {0}
    /\ {StopR, MaxHold, EodTime} \subseteq Nat
    /\ Convictions \subseteq 0..4
    /\ DayLength \in Nat \ {0}
    /\ {PerTradeCapPct, DailyHaltPct, MaxEmits} \subseteq Nat

Symbols == {SymbolOrder[i] : i \in DOMAIN SymbolOrder}

\* What BarEvent and QuoteEvent (core/events.py) let through: a bar has a positive
\* close and no negative extreme, a quote no negative side. An instant is a natural.
ASSUME TapeAssumption ==
    /\ SymbolOrder \in Seq(Symbols)
    /\ \A tp \in Tapes, s \in Symbols :
        /\ DOMAIN tp[s] \subseteq Nat
        /\ \A t \in DOMAIN tp[s] :
            /\ tp[s][t].close \in Nat \ {0} /\ {tp[s][t].low, tp[s][t].high} \subseteq Nat
            /\ tp[s][t].quote # NoQuote =>
                 {tp[s][t].quote.bid, tp[s][t].quote.ask} \subseteq Nat

VARIABLES
    tape,          \* state.bars and state.quotes
    now,           \* the clock; -1 before the first bar
    phase,         \* where run() stands
    todo,          \* the bars of this instant still to be handled
    emits,         \* events processed at the current bar
    positions,     \* state.positions, by symbol
    last_close,    \* state.last_close, in 1/Unit; 0 before the first bar
    cash,          \* state.cash
    day,           \* state.current_day
    day_start,     \* state.day_start_equity
    emitted, executed, counters,
    rows,          \* state.rows, the ledger
    mark           \* the last value of state.equity_values

booksVars == <<positions, cash, rows, executed, counters, emitted>>
clockVars == <<tape, now, last_close, day, day_start, mark>>
engineVars == <<tape, now, phase, todo, emits, positions, last_close, cash, day,
                day_start, emitted, executed, counters, rows, mark>>

DROP_STAGES == {"regime-gated", "sizing-zero", "no-quote", "latency-no-fill",
                "position-already-open", "risk-cap", "daily-halt"}

BarTimes(s) == DOMAIN tape[s]
AllTimes == UNION {BarTimes(s) : s \in Symbols}
Later(times, t) == {u \in times : u > t}
DayOf(t) == t \div DayLength
TimeOfDay(t) == t % DayLength
Direction(side) == IF side = BUY THEN 1 ELSE -1
Held == DOMAIN positions

\* The symbols of a set, in the order sorted() gives them.
InOrder(S) ==
    LET upto[i \in 0..Len(SymbolOrder)] ==
            IF i = 0 THEN <<>>
            ELSE IF SymbolOrder[i] \in S THEN Append(upto[i - 1], SymbolOrder[i])
            ELSE upto[i - 1]
    IN  upto[Len(SymbolOrder)]

\* groupby(merged): the bars of one instant, in symbol order.
Group(t) == InOrder({s \in Symbols : t \in BarTimes(s)})

\* _equity: cash plus signed open-position value at the last closes.
Value(pos, close) ==
    [s \in DOMAIN pos |-> Direction(pos[s].side) * pos[s].qty * close[s] * Multiplier]
EquityOf(c, pos, close) == c + SumFunction(Value(pos, close))
Equity == EquityOf(cash, positions, last_close)

----------------------------------------------------------------------------
(* Execution                                                               *)

\* TapeQuoteSource.quote_for_bar: the row of that very bar, or none.
QuoteForBar(s, t) ==
    IF t \notin BarTimes(s) THEN NoQuote ELSE tape[s][t].quote

\* _next_bar
HasNextBar(s, t) == Later(BarTimes(s), t) # {}
NextBar(s, t) == Min(Later(BarTimes(s), t))

\* _attempt_fill: the quote of the next bar, re-stamped at the arrival. The
\* reason of a failure becomes the status.
AttemptFill(s, side, qty, t) ==
    IF ~HasNextBar(s, t) THEN [NoFill EXCEPT !.status = "no-next-bar"]
    ELSE LET atDecision == QuoteForBar(s, t)
             atNext == QuoteForBar(s, NextBar(s, t))
             Stamped(q, ts) == [bid |-> q.bid, ask |-> q.ask, ts |-> ts]
         IN  IF NoQuote \in {atDecision, atNext} THEN [NoFill EXCEPT !.status = "no-quote"]
             ELSE FillWithLatency(Stamped(atDecision, t), Stamped(atNext, t + LatencyTicks),
                                  LatencyTicks, side, qty)

\* What a fill takes from cash.
Outlay(side, fill) == Direction(side) * fill.price * fill.qty * Multiplier + fill.commission

\* _book_trade: the ledger row of a closed trade.
TradeRow(p, exitTs, exitPx, reason, costs) ==
    LET commission == p.costs.commission + costs.commission
    IN  [symbol |-> p.symbol, side |-> p.side, qty |-> p.qty,
         entry_ts |-> p.entry_ts, entry_px |-> p.entry_px,
         exit_ts |-> exitTs, exit_px |-> exitPx, exit_reason |-> reason,
         pnl |-> Direction(p.side) * (exitPx - p.entry_px) * p.qty * Multiplier - commission,
         friction |-> p.costs.spread + p.costs.slip + costs.spread + costs.slip,
         commission |-> commission]

----------------------------------------------------------------------------
(* Exit policies, first hit wins (build_exit_policies)                     *)

\* StopLossExit: k times R against the position, on the path of the bar.
StopHit(p, bar) ==
    LET distance == StopR * p.risk_per_share
    IN  /\ StopR > 0
        /\ IF p.side = BUY THEN bar.low * Unit <= p.entry_px - distance
                           ELSE bar.high * Unit >= p.entry_px + distance

\* Mutant of MaxHoldHit: the hold must be exceeded, not reached.
MaxHoldLate(p, t) == MaxHold > 0 /\ t - p.entry_ts > MaxHold

MaxHoldHit(p, t) == MaxHold > 0 /\ t - p.entry_ts >= MaxHold
EodHit(t) == TimeOfDay(t) >= EodTime

\* The reason of the first policy that fires, "" when none does.
ExitReason(p, bar, t, invalidated) ==
    IF StopHit(p, bar) THEN "stop"
    ELSE IF MaxHoldHit(p, t) THEN "max_hold"
    ELSE IF EodHit(t) THEN "eod_flatten"
    ELSE IF invalidated THEN "signal_invalidation" ELSE ""

----------------------------------------------------------------------------
(* Sizing                                                                  *)

\* RiskBudgetSizer.size: risk_per_share, then the floor of the budget over it.
RiskPerShare(ref) == (ref * RiskRPct) \div 100
SizerQty(conviction, ref, equity) ==
    (equity * PerTradeCapPct * conviction) \div (400 * RiskPerShare(ref) * Multiplier)
CapQty(ref, equity) == equity \div (ref * Multiplier)

\* The daily-halt test of _process_signal.
HaltTripped(equity) == 100 * (day_start - equity) >= day_start * DailyHaltPct

----------------------------------------------------------------------------
(* run()                                                                   *)

EngineInit ==
    /\ tape \in Tapes
    /\ now = -1 /\ phase = "idle" /\ todo = <<>> /\ emits = 0
    /\ positions = <<>>
    /\ last_close = [s \in Symbols |-> 0]
    /\ cash = InitialEquity * Unit
    /\ day = -1 /\ day_start = 0
    /\ emitted = 0 /\ executed = 0 /\ counters = [d \in DROP_STAGES |-> 0]
    /\ rows = <<>> /\ mark = InitialEquity * Unit

\* Phase 1 of an instant: clock.advance, _apply_marks over the whole group,
\* then _roll_day takes the new day's baseline from the equity just marked.
NextGroup ==
    /\ phase = "idle"
    /\ Later(AllTimes, now) # {}
    /\ LET t == Min(Later(AllTimes, now))
       IN  /\ now' = t
           /\ todo' = Group(t)
           /\ last_close' = [s \in Symbols |->
                IF t \in BarTimes(s) THEN tape[s][t].close * Unit ELSE last_close[s]]
           /\ day' = DayOf(t)
           /\ day_start' = IF DayOf(t) # day THEN EquityOf(cash, positions, last_close')
                                             ELSE day_start
    /\ phase' = "exits"
    /\ UNCHANGED <<tape, emits, mark, booksVars>>

\* Mutant of ExitsAdvance: the group is checked again and again.
ExitsRestart ==
    /\ todo' = IF Len(todo) = 1 THEN Group(now) ELSE Tail(todo)
    /\ phase' = "exits"

\* The next bar of the phase; the exits of every bar come before the signals.
ExitsAdvance ==
    /\ todo' = IF Len(todo) = 1 THEN Group(now) ELSE Tail(todo)
    /\ phase' = IF Len(todo) = 1 THEN "signals" ELSE "exits"

\* Phase 2: _check_exits for one bar, and _execute_exit when a policy fires. A
\* failed fill leaves the position open for the next bar to try again; a quote
\* the cost model refuses ends the run.
CheckExits(invalidated) ==
    /\ phase = "exits"
    /\ LET s == Head(todo)
           p == positions[s]
           reason == IF s \notin Held THEN ""
                     ELSE ExitReason(p, tape[s][now], now, invalidated)
           fill == AttemptFill(s, Opposite(p.side), p.qty, now)
       IN  IF reason = ""
           THEN ExitsAdvance /\ UNCHANGED booksVars
           ELSE CASE fill.status = "raised" ->
                       phase' = "failed" /\ UNCHANGED <<todo, booksVars>>
                  [] fill.status = "filled" ->
                       /\ cash' = cash - Outlay(Opposite(p.side), fill)
                       /\ positions' = Restrict(positions, Held \ {s})
                       /\ rows' = Append(rows,
                            TradeRow(p, now + LatencyTicks, fill.price, reason, fill))
                       /\ UNCHANGED <<executed, counters, emitted>>
                       /\ ExitsAdvance
                  [] OTHER -> ExitsAdvance /\ UNCHANGED booksVars
    /\ UNCHANGED <<emits, clockVars>>

\* The stage that drops an event before execution, "" for none: the fixed order
\* of the pipeline.
DropStage(s, conviction, admitted) ==
    LET equity == Equity
        ref == last_close[s]
    IN  IF ~admitted THEN "regime-gated"
        ELSE IF HaltTripped(equity) THEN "daily-halt"
        ELSE IF s \in Held THEN "position-already-open"
        ELSE IF ref = 0 THEN "no-quote"
        ELSE IF SizerQty(conviction, ref, equity) <= 0 THEN "sizing-zero"
        ELSE IF CapQty(ref, equity) <= 0 THEN "risk-cap"
        ELSE ""

Dropped(stage) ==
    /\ counters' = [counters EXCEPT ![stage] = @ + 1]
    /\ UNCHANGED <<phase, positions, cash, rows, executed>>

Opened(s, side, conviction, fill) ==
    /\ cash' = cash - Outlay(side, fill)
    /\ positions' = [r \in Held \cup {s} |-> IF r # s THEN positions[r]
         ELSE [symbol |-> s, side |-> side, qty |-> fill.qty,
               risk_per_share |-> RiskPerShare(last_close[s]),
               entry_ts |-> now + LatencyTicks, entry_px |-> fill.price, costs |-> fill]]
    /\ executed' = executed + 1
    /\ UNCHANGED <<phase, rows, counters>>

\* Phase 3: _process_signal for one event a signal emitted at this bar. The
\* event may name any symbol, not only the one whose bar closed.
ProcessSignal(s, side, conviction, admitted) ==
    /\ phase = "signals"
    /\ emits < MaxEmits
    /\ emits' = emits + 1
    /\ emitted' = emitted + 1
    /\ LET stage == DropStage(s, conviction, admitted)
           qty == Min({SizerQty(conviction, last_close[s], Equity),
                       CapQty(last_close[s], Equity)})
           fill == AttemptFill(s, side, qty, now)
       IN  IF stage # "" THEN Dropped(stage)
           ELSE CASE fill.status = "raised" ->
                       phase' = "failed"
                       /\ UNCHANGED <<positions, cash, rows, executed, counters>>
                  [] fill.status = "no-quote" -> Dropped("no-quote")
                  [] fill.status \in {"no-next-bar", "unfilled"} -> Dropped("latency-no-fill")
                  [] OTHER -> Opened(s, side, conviction, fill)
    /\ UNCHANGED <<todo, clockVars>>

\* The signals have nothing more to say at this bar. After the last bar of the
\* instant the equity is marked.
BarDone ==
    /\ phase = "signals"
    /\ emits' = 0
    /\ todo' = Tail(todo)
    /\ IF Len(todo) = 1 THEN phase' = "idle" /\ mark' = Equity
                        ELSE UNCHANGED <<phase, mark>>
    /\ UNCHANGED <<tape, now, last_close, day, day_start, booksVars>>

\* _flatten_end_of_data, in one symbol after the other: the final close, no
\* costs, no quote. The identity run() asserts decides how it ends.
FreeFill == [NoFill EXCEPT !.status = "filled"]
FlattenOutlay(s) ==
    Outlay(Opposite(positions[s].side),
           [FreeFill EXCEPT !.price = last_close[s], !.qty = positions[s].qty])
FlattenRow(s) ==
    TradeRow(positions[s], Max(BarTimes(s)), last_close[s], "end_of_data", FreeFill)

\* Mutant of FlattenRows: only what trades at the last instant is flattened.
FlattenRowsTrading(stranded) ==
    LET trading == SelectSeq(stranded, LAMBDA s : now \in BarTimes(s))
    IN  [i \in DOMAIN trading |-> FlattenRow(trading[i])]

FlattenRows(stranded) == [i \in DOMAIN stranded |-> FlattenRow(stranded[i])]

\* list(state.positions) has the order of the entries, which is left open here.
Finish(stranded) ==
    /\ phase = "idle"
    /\ Later(AllTimes, now) = {}
    /\ cash' = cash - SumFunction([s \in Held |-> FlattenOutlay(s)])
    /\ rows' = rows \o FlattenRows(stranded)
    /\ positions' = <<>>
    /\ phase' = IF emitted = executed + SumFunction(counters) THEN "done" ELSE "failed"
    /\ UNCHANGED <<clockVars, todo, emits, emitted, executed, counters>>

EngineNext ==
    \/ NextGroup
    \/ \E invalidated \in BOOLEAN : CheckExits(invalidated)
    \/ \E s \in Symbols, side \in {BUY, SELL}, c \in Convictions, admitted \in BOOLEAN :
         ProcessSignal(s, side, c, admitted)
    \/ BarDone
    \/ \E stranded \in Bijection(1..Cardinality(Held), Held) : Finish(stranded)

\* run() is one sequential call: it goes on until it returns or raises.
EngineSpec == EngineInit /\ [][EngineNext]_engineVars /\ WF_engineVars(EngineNext)
----------------------------------------------------------------------------
(* Properties                                                              *)

\* Every variable of the run has its type.
EngineTypeOK ==
    /\ now \in AllTimes \cup {-1}
    /\ phase \in {"idle", "exits", "signals", "done", "failed"}
    /\ todo \in Seq(Symbols) /\ emits \in 0..MaxEmits
    /\ {cash, day, day_start, mark} \subseteq Int
    /\ emitted \in Nat /\ executed \in Nat /\ counters \in [DROP_STAGES -> Nat]
    /\ Held \subseteq Symbols
    /\ \A s \in Held : positions[s].symbol = s /\ positions[s].qty > 0

\* The books reconcile at every point of the run: cash is the initial equity plus
\* the pnl of every ledger row less what the open positions cost to enter, so no
\* path of entries, failed exits, retries and the terminal flatten creates or
\* loses money between state.cash and state.rows.
LedgerReconciles ==
    cash = InitialEquity * Unit + SumFunction([i \in DOMAIN rows |-> rows[i].pnl])
           - SumFunction([s \in Held |-> Outlay(positions[s].side, positions[s].costs)])

\* No signal and no trade is lost: a run that has not raised has emitted exactly
\* what it executed plus what its counters dropped (the identity run() asserts
\* at the end), and every executed trade is one open position or one ledger row.
EveryTradeBooked ==
    phase # "failed" =>
        /\ emitted = executed + SumFunction(counters)
        /\ executed = Len(rows) + Cardinality(Held)

\* RunResult.summary reports the last equity mark as final_equity although the
\* flatten happens after it: marking out at the final closes without costs must
\* leave exactly that cash behind, and no position.
FinalEquityIsCash == phase = "done" => mark = cash /\ Held = {}

\* The friction columns explain the ledger: pnl is the move between the mids the
\* two fills met, less spread, slippage and commission, and no friction is
\* negative (costmodel.py: a fill is never better than mid).
MidMet(s, fillTs) == Mid(tape[s][NextBar(s, fillTs - LatencyTicks)].quote)
AttributionExact ==
    \A i \in DOMAIN rows :
        LET r == rows[i]
            exitMid == IF r.exit_reason = "end_of_data" THEN r.exit_px
                                                        ELSE MidMet(r.symbol, r.exit_ts)
            move == Direction(r.side) * (exitMid - MidMet(r.symbol, r.entry_ts))
        IN  /\ r.friction >= 0 /\ r.commission >= 0
            /\ r.pnl = move * r.qty * Multiplier - r.friction - r.commission

\* Exit retries do not lose a position: once its bar has been checked, a position
\* past max_hold is still open only because the tape had no book to close it
\* into, at this bar or at the next.
Unfillable(s) ==
    \/ ~HasNextBar(s, now)
    \/ NoQuote \in {QuoteForBar(s, now), QuoteForBar(s, NextBar(s, now))}
OverdueOnlyIfUnfillable ==
    phase = "signals" =>
        \A s \in Held : MaxHold > 0 /\ now \in BarTimes(s) /\ now >= positions[s].entry_ts + MaxHold
            => Unfillable(s)

\* The engine implements the trade book: every position it opens becomes exactly
\* one ledger row, none is overwritten by a second entry, and a run that returns
\* leaves none open.
Book == INSTANCE TradeBook WITH
    open <- {<<s, positions[s].entry_ts>> : s \in Held},
    booked <- {<<rows[i].symbol, rows[i].entry_ts>> : i \in DOMAIN rows},
    outcome <- CASE phase = "done" -> "returned" [] phase = "failed" -> "raised"
                 [] OTHER -> "running"
KeepsTradeBook == Book!BookSpec

\* The replay ends: run() returns or raises on every tape.
RunEnds == <>(phase \in {"done", "failed"})
=============================================================================
