----------------------------- MODULE BarSignals -----------------------------
(***************************************************************************)
(* The bar-driven signals of src/edge/signals: the opening-range breakout  *)
(* (orb.py), the VWAP reversion (vwap_rev.py) and the index lead-lag       *)
(* (leadlag.py).  Each keeps an incremental memo of the tape and decides   *)
(* on it; beside it stands the full recomputation that it must agree with. *)
(***************************************************************************)
EXTENDS Integers, FiniteSets, Sequences, SequencesExt, Functions

----------------------------------------------------------------------------
(***************************************************************************)
(* What the bar-driven signals of src/edge/signals share: the completed    *)
(* bars of a symbol in order, ET sessions and times of day, and what       *)
(* MarketContext.history serves.  An instant is a whole minute; a day has  *)
(* DayLength of them and the session opens at SESSION_OPEN.                *)
(***************************************************************************)
CONSTANTS DayLength, SESSION_OPEN, NoMemo, NoPrice, NoSignal

DayOf(t) == t \div DayLength
TimeOfDay(t) == t % DayLength
SumOf(seq) == FoldSeq(LAMBDA x, y : x + y, 0, seq)
LastN(seq, n) == SubSeq(seq, Len(seq) - n + 1, Len(seq))

\* MarketContext.history(symbol, n): the last n completed bars.
History(bars, n) == IF Len(bars) <= n THEN bars ELSE LastN(bars, n)

LONG == "buy"
SHORT == "sell"

----------------------------------------------------------------------------
(***************************************************************************)
(* The opening-range breakout of src/edge/signals/orb.py: an incremental   *)
(* memo of the tape per symbol, the rule evaluated on the memo, and the    *)
(* full recomputation over the capped history request that the memo says   *)
(* it mirrors.                                                             *)
(***************************************************************************)
CONSTANTS OrMinutes,      \* opening_range_minutes
          EntryStart,     \* entry_start_minutes
          EntryEnd,       \* entry_end_minutes
          Lookback,       \* volume_lookback_sessions
          BARS_PER_SESSION_CEILING,
          RelVolPct       \* rel_vol_threshold, in percent

ASSUME OrbAssumption ==
    /\ OrMinutes \in Nat \ {0} /\ EntryStart >= OrMinutes /\ EntryEnd > EntryStart
    /\ Lookback \in Nat \ {0} /\ BARS_PER_SESSION_CEILING \in Nat \ {0}

NRequest == (Lookback + 1) * BARS_PER_SESSION_CEILING

InOpeningRange(ts) ==
    /\ TimeOfDay(ts) > SESSION_OPEN
    /\ TimeOfDay(ts) <= SESSION_OPEN + OrMinutes

----------------------------------------------------------------------------
(* The memo                                                                *)

\* _DayState: the session's rows after the open with their global indices and
\* the running volume, the opening range and the last two closes.
DayState(start) ==
    [start |-> start, count |-> 0, tods |-> <<>>, gidx |-> <<>>, vols |-> <<>>,
     prefix |-> <<>>, or_high |-> NoPrice, or_low |-> NoPrice,
     last_close |-> NoPrice, prev_close |-> NoPrice]

EmptyTape == [total |-> 0, last_ts |-> -1, days |-> <<>>, states |-> <<>>]

\* _window_start: the index of the first bar the capped request would serve.
WindowStart(st) == st.total - NRequest

\* The days kept when a new one begins: those that have left the window entirely
\* go, oldest first, and never the last.
PrunedDays(st) ==
    LET Below(d) == st.states[d].start + st.states[d].count <= WindowStart(st)
        kept == {i \in 1..Len(st.days) : i = Len(st.days) \/ ~Below(st.days[i])}
    IN  SubSeq(st.days, Min(kept), Len(st.days))

\* The memo with a state for the day of the bar.
WithDay(st, d) ==
    IF d \in ToSet(st.days) THEN st
    ELSE LET grown == [st EXCEPT !.days = Append(@, d),
                         !.states = [e \in ToSet(st.days) \cup {d} |->
                                       IF e = d THEN DayState(st.total) ELSE st.states[e]]]
             days == PrunedDays(grown)
         IN  [grown EXCEPT !.days = days,
                           !.states = [e \in ToSet(days) |-> grown.states[e]]]

\* One bar folded into the aggregates of its day.
DayFold(ds, b, gi) ==
    LET closes == [ds EXCEPT !.count = @ + 1, !.prev_close = ds.last_close,
                             !.last_close = b.close]
        running == IF ds.prefix = <<>> THEN 0 ELSE Last(ds.prefix)
        ranged == [closes EXCEPT
                    !.or_high = IF @ = NoPrice THEN b.high ELSE Max({@, b.high}),
                    !.or_low = IF @ = NoPrice THEN b.low ELSE Min({@, b.low})]
    IN  IF TimeOfDay(b.ts) <= SESSION_OPEN THEN closes
        ELSE [(IF InOpeningRange(b.ts) THEN ranged ELSE closes) EXCEPT
                !.tods = Append(@, TimeOfDay(b.ts)), !.gidx = Append(@, gi),
                !.vols = Append(@, b.volume), !.prefix = Append(@, running + b.volume)]

\* _fold
Fold(st, b) ==
    LET s1 == WithDay(st, DayOf(b.ts))
    IN  [s1 EXCEPT !.total = @ + 1, !.last_ts = b.ts,
                   !.states = [@ EXCEPT ![DayOf(b.ts)] = DayFold(@, b, s1.total)]]

\* _rebuild, from the capped request.
Rebuild(bars, now) ==
    FoldLeft(Fold, EmptyTape,
             SelectSeq(History(bars, NRequest), LAMBDA b : b.ts <= now))

\* Step 0 of on_bar: fold the bar, or rebuild when the memo is cold or the bar is
\* not after the newest one it has.
OrbIngest(memo, bars, bar, now) ==
    IF memo = NoMemo \/ memo.last_ts = -1 \/ bar.ts <= memo.last_ts \/ bar.ts # now
    THEN Rebuild(bars, now) ELSE Fold(memo, bar)

\* Mutant of DaySameTime: the rows below the window are counted.
DaySameTimeWhole(ds, cutoff, wstart) ==
    LET k == Cardinality({i \in DOMAIN ds.tods : ds.tods[i] <= cutoff})
    IN  IF k = 0 THEN [cum |-> 0, n |-> 0] ELSE [cum |-> ds.prefix[k], n |-> k]

\* _day_same_time: volume and rows of the day up to a time of day, within the
\* window; the whole-day path reads the running sum.
DaySameTime(ds, cutoff, wstart) ==
    LET k == Cardinality({i \in DOMAIN ds.tods : ds.tods[i] <= cutoff})
        lo == Cardinality({i \in DOMAIN ds.gidx : ds.gidx[i] < wstart})
    IN  IF ds.start >= wstart
        THEN IF k = 0 THEN [cum |-> 0, n |-> 0] ELSE [cum |-> ds.prefix[k], n |-> k]
        ELSE IF k <= lo THEN [cum |-> 0, n |-> 0]
        ELSE [cum |-> SumOf(SubSeq(ds.vols, lo + 1, k)), n |-> k - lo]

----------------------------------------------------------------------------
(* The rule                                                                *)

\* Twice the median of a sequence of volumes.
Median2(seq) ==
    LET s == SortSeq(seq, <) n == Len(seq)
    IN  IF n % 2 = 1 THEN 2 * s[(n + 1) \div 2] ELSE s[n \div 2] + s[n \div 2 + 1]

InEntryWindow(now) ==
    /\ TimeOfDay(now) - SESSION_OPEN >= EntryStart
    /\ TimeOfDay(now) - SESSION_OPEN <= EntryEnd

\* Steps 4 to 6: participation over the baseline, then the crossing of an edge;
\* conviction is rel_vol over twice the threshold, at most 1.
OrbRule(baseline, volume, range, prev, close) ==
    LET median2 == Median2(baseline)
        side == IF close > range.high /\ prev <= range.high THEN LONG
                ELSE IF close < range.low /\ prev >= range.low THEN SHORT ELSE NoSignal
    IN  IF \/ Len(baseline) < Lookback
           \/ median2 <= 0
           \/ 200 * volume <= RelVolPct * median2
           \/ prev = NoPrice \/ side = NoSignal
        THEN NoSignal
        ELSE [side |-> side, full |-> 100 * volume >= RelVolPct * median2]

\* on_bar after ingestion.
OrbFires(st, bar, now) ==
    LET day == DayOf(now)
        wstart == WindowStart(st)
        prior == SelectSeq(Reverse(st.days), LAMBDA d :
                    d < day /\ st.states[d].start + st.states[d].count > wstart)
        Slice(d) == DaySameTime(st.states[d], TimeOfDay(now), wstart)
        informed == SelectSeq(prior, LAMBDA d : Slice(d).n > 0)
        used == SubSeq(informed, 1, Min({Lookback, Len(informed)}))
        today == st.states[day]
        prev == IF st.last_ts = bar.ts THEN today.prev_close ELSE today.last_close
    IN  IF \/ ~InEntryWindow(now) \/ st.total = 0
           \/ day \notin ToSet(st.days) \/ today.or_high = NoPrice
        THEN NoSignal
        ELSE OrbRule([i \in DOMAIN used |-> Slice(used[i]).cum], Slice(day).cum,
                     [high |-> today.or_high, low |-> today.or_low], prev, bar.close)

----------------------------------------------------------------------------
(* The reference: one pass over the capped request, no memo                *)

OrbReference(bars, bar, now) ==
    LET rows == History(bars, NRequest)
        day == DayOf(now)
        OfDay(d) == SelectSeq(rows, LAMBDA b : DayOf(b.ts) = d)
        SameTime(d) == SelectSeq(OfDay(d), LAMBDA b :
                          SESSION_OPEN < TimeOfDay(b.ts) /\ TimeOfDay(b.ts) <= TimeOfDay(now))
        Volume(d) == SumOf([i \in DOMAIN SameTime(d) |-> SameTime(d)[i].volume])
        informed == {DayOf(rows[i].ts) : i \in DOMAIN rows} \cap
                    {d \in 0..(day - 1) : SameTime(d) # <<>>}
        used == {d \in informed : Cardinality({e \in informed : e > d}) < Lookback}
        days == SetToSortSeq(used, <)
        range == {i \in DOMAIN rows : DayOf(rows[i].ts) = day /\ InOpeningRange(rows[i].ts)}
        before == SelectSeq(OfDay(day), LAMBDA b : b.ts < bar.ts)
    IN  IF ~InEntryWindow(now) \/ range = {} THEN NoSignal
        ELSE OrbRule([i \in DOMAIN days |-> Volume(days[i])], Volume(day),
                     [high |-> Max({rows[i].high : i \in range}),
                      low |-> Min({rows[i].low : i \in range})],
                     IF before = <<>> THEN NoPrice ELSE Last(before).close, bar.close)

----------------------------------------------------------------------------
(***************************************************************************)
(* The VWAP reversion of src/edge/signals/vwap_rev.py: the session memo of *)
(* running sums, the full computation it falls back to and is rebuilt      *)
(* from, and the rule.  Spreads are exact: they are counted in 1/VwapUnit, *)
(* a multiple of three times every cumulative volume of a session.         *)
(***************************************************************************)
CONSTANTS MaxHistory,       \* max_history_bars
          MinSessionBars,   \* min_session_bars
          ZEntry,           \* z_entry
          VwapUnit

ASSUME VwapAssumption == {MaxHistory, MinSessionBars, ZEntry, VwapUnit} \subseteq Nat \ {0}

\* close - session_vwap, from the running sums of typical price times volume
\* (three times it) and of volume.
Spread(close, cumPv, cumV) == close * VwapUnit - (cumPv * VwapUnit) \div (3 * cumV)
PriceVolume(b) == (b.high + b.low + b.close) * b.volume

CumPv(rows, i) == SumOf([j \in 1..i |-> PriceVolume(rows[j])])
CumV(rows, i) == SumOf([j \in 1..i |-> rows[j].volume])

\* spread_series: bars before any volume has printed have no VWAP and are left out.
SpreadSeries(rows) ==
    LET traded == SelectSeq([i \in DOMAIN rows |-> i], LAMBDA i : CumV(rows, i) > 0)
    IN  [k \in DOMAIN traded |->
          Spread(rows[traded[k]].close, CumPv(rows, traded[k]), CumV(rows, traded[k]))]

\* The rows of _rebuild_session: this session's visible bars of the request, the
\* current bar if the request does not end with it, cut to the cap.
SessionRows(bars, bar, now) ==
    LET ofSession == SelectSeq(History(bars, MaxHistory),
                        LAMBDA b : b.ts <= now /\ DayOf(b.ts) = DayOf(now))
        rows == IF ofSession = <<>> \/ Last(ofSession).ts # bar.ts
                THEN Append(ofSession, bar) ELSE ofSession
    IN  History(rows, MaxHistory)

\* _rebuild_session
RebuildSession(bars, bar, now) ==
    LET rows == SessionRows(bars, bar, now)
    IN  [day |-> DayOf(now), last_ts |-> Last(rows).ts, n_rows |-> Len(rows),
         cum_pv |-> CumPv(rows, Len(rows)), cum_v |-> CumV(rows, Len(rows)),
         spreads |-> SpreadSeries(rows)]

\* When the memo plus the bar provably is the session's row list.
Contiguous(memo, bar, now) ==
    /\ memo # NoMemo
    /\ memo.day = DayOf(now)
    /\ bar.ts = now
    /\ bar.ts - memo.last_ts = 1
    /\ memo.n_rows + 1 < MaxHistory

\* on_bar up to the spreads.
VwapIngest(memo, bars, bar, now) ==
    IF ~Contiguous(memo, bar, now) THEN RebuildSession(bars, bar, now)
    ELSE LET pv == memo.cum_pv + PriceVolume(bar)
             v == memo.cum_v + bar.volume
         IN  [memo EXCEPT !.cum_pv = pv, !.cum_v = v, !.last_ts = bar.ts, !.n_rows = @ + 1,
                !.spreads = IF v > 0 THEN Append(@, Spread(bar.close, pv, v)) ELSE @]

\* current_z against z_entry: z = Deviation / sqrt(Variance), both times the
\* number of observations; no z without two observations or without variance.
Deviation(spreads) == Len(spreads) * Last(spreads) - SumOf(spreads)
Variance(spreads) ==
    Len(spreads) * SumOf([i \in DOMAIN spreads |-> spreads[i] * spreads[i]])
      - SumOf(spreads) * SumOf(spreads)

VwapFires(spreads) ==
    IF \/ Len(spreads) < MinSessionBars
       \/ Len(spreads) < 2 \/ Variance(spreads) = 0
       \/ Deviation(spreads) * Deviation(spreads) <= ZEntry * ZEntry * Variance(spreads)
    THEN NoSignal
    ELSE [side |-> IF Deviation(spreads) > 0 THEN SHORT ELSE LONG]

\* The full computation on every bar.
VwapReference(bars, bar, now) == VwapFires(SpreadSeries(SessionRows(bars, bar, now)))

----------------------------------------------------------------------------
(***************************************************************************)
(* The index lead-lag of src/edge/signals/leadlag.py: the incremental      *)
(* index state (tail, pending and folded moves), the per-symbol daily      *)
(* closes, the beta memo, the rule, and the pure helpers over the whole    *)
(* history that they must agree with.  Returns are counted in 1/RetUnit,   *)
(* a multiple of every close.                                              *)
(***************************************************************************)
CONSTANTS IndexSymbol,
          RET_WINDOW_BARS,
          MIN_ATR_OBSERVATIONS,
          BETA_WINDOW_DAYS,
          MIN_BETA_DAYS,
          INDEX_SYNC_WINDOW,
          RetUnit

ASSUME LeadLagAssumption ==
    {RET_WINDOW_BARS, MIN_ATR_OBSERVATIONS, BETA_WINDOW_DAYS, MIN_BETA_DAYS,
     INDEX_SYNC_WINDOW, RetUnit} \subseteq Nat \ {0}

Return(last, base) == ((last - base) * RetUnit) \div base
Magnitude(x) == IF x < 0 THEN -x ELSE x

----------------------------------------------------------------------------
(* Pure measurements over the whole history                                *)

\* The window ending at row i is an intra-session RET_WINDOW-minute move.
Qualifies(bars, i) ==
    /\ i > RET_WINDOW_BARS
    /\ bars[i].ts - bars[i - RET_WINDOW_BARS].ts = RET_WINDOW_BARS
    /\ DayOf(bars[i].ts) = DayOf(bars[i - RET_WINDOW_BARS].ts)

\* _trailing_return, NoPrice when it abstains.
TrailingReturn(bars, now) ==
    IF bars = <<>> \/ Last(bars).ts # now \/ ~Qualifies(bars, Len(bars)) THEN NoPrice
    ELSE Return(Last(bars).close, bars[Len(bars) - RET_WINDOW_BARS].close)

\* _expanding_abs_move_mean: the moves that end strictly before now.
MovesBefore(bars, now) ==
    LET rows == SelectSeq([i \in DOMAIN bars |-> i],
                  LAMBDA i : Qualifies(bars, i) /\ bars[i].ts < now)
    IN  [k \in DOMAIN rows |->
          Magnitude(Return(bars[rows[k]].close, bars[rows[k] - RET_WINDOW_BARS].close))]

\* _fold_daily, and _daily_closes_before: the last close of every session.
FoldDaily(rows, b) ==
    IF rows # <<>> /\ Last(rows).day = DayOf(b.ts)
    THEN [rows EXCEPT ![Len(rows)].close = b.close]
    ELSE Append(rows, [day |-> DayOf(b.ts), close |-> b.close])
DailyCloses(bars) == FoldLeft(FoldDaily, <<>>, bars)
Before(rows, session) == SelectSeq(rows, LAMBDA r : r.day < session)

\* _beta_core: covariance over variance of the last paired daily returns, as the
\* pair of them (times the square of their number); NoPrice when unmeasurable.
BetaCore(name, index) ==
    LET closeOf == [d \in {name[i].day : i \in DOMAIN name} |->
                      (CHOOSE r \in ToSet(name) : r.day = d).close]
        paired == SelectSeq(index, LAMBDA r : r.day \in DOMAIN closeOf)
        n == Min({BETA_WINDOW_DAYS, Len(paired) - 1})
        kept == History(paired, n + 1)
        indexRet == [i \in 1..n |-> Return(kept[i + 1].close, kept[i].close)]
        nameRet == [i \in 1..n |-> Return(closeOf[kept[i + 1].day], closeOf[kept[i].day])]
        Dot(x, y) == SumOf([i \in 1..n |-> x[i] * y[i]])
        variance == n * Dot(indexRet, indexRet) - SumOf(indexRet) * SumOf(indexRet)
    IN  IF Len(paired) < 2 \/ n < MIN_BETA_DAYS \/ variance <= 0 THEN NoPrice
        ELSE [cov |-> n * Dot(nameRet, indexRet) - SumOf(nameRet) * SumOf(indexRet),
              var |-> variance]

\* measure_beta: prior sessions only.
MeasureBeta(nameBars, indexBars, session) ==
    BetaCore(Before(DailyCloses(nameBars), session), Before(DailyCloses(indexBars), session))

\* Steps 1 to 4 of the rule, with atr_k = 1, lag_fraction = 1/2 and min_beta = 1.
LeadLagRule(rIndex, moves, rName, beta) ==
    LET direction == IF rIndex > 0 THEN 1 ELSE -1
    IN  IF \/ rIndex \in {NoPrice, 0}
           \/ moves.count < MIN_ATR_OBSERVATIONS \/ moves.sum <= 0
           \/ Magnitude(rIndex) * moves.count <= moves.sum
           \/ rName = NoPrice
           \/ beta = NoPrice
        THEN NoSignal
        ELSE IF \/ beta.cov < beta.var
                \/ 2 * direction * rName * beta.var >= beta.cov * Magnitude(rIndex)
        THEN NoSignal
        ELSE [side |-> IF direction = 1 THEN LONG ELSE SHORT]

----------------------------------------------------------------------------
(* The incremental state                                                   *)

ColdState ==
    [idx_last |-> -1, tail |-> <<>>, pending |-> <<>>, sum |-> 0, count |-> 0,
     daily |-> <<>>, daily_last |-> <<>>, last_now |-> -1, betas |-> <<>>]

Put(f, k, v) == (k :> v) @@ f
Get(f, k, default) == IF k \in DOMAIN f THEN f[k] ELSE default

\* _ingest_index_bar and the daily fold that follows it.
IngestIndexBar(st, b) ==
    LET tail == History(Append(st.tail, b), RET_WINDOW_BARS + 1)
    IN  [st EXCEPT
          !.tail = tail, !.idx_last = b.ts,
          !.pending = IF Len(tail) = RET_WINDOW_BARS + 1 /\ Qualifies(tail, Len(tail))
                      THEN Append(@, [ts |-> b.ts,
                                      value |-> Magnitude(Return(b.close, tail[1].close))])
                      ELSE @,
          !.daily = Put(@, IndexSymbol, FoldDaily(Get(@, IndexSymbol, <<>>), b))]

\* Whether the bounded window reaches back to the last ingested index bar.
Continuous(recent, last) == Len(recent) < INDEX_SYNC_WINDOW \/ recent[1].ts <= last

\* _sync_index
SyncIndex(st, indexBars, now) ==
    LET recent == History(indexBars, INDEX_SYNC_WINDOW)
        cold == [st EXCEPT !.tail = <<>>, !.pending = <<>>, !.sum = 0, !.count = 0,
                           !.daily = Put(@, IndexSymbol, <<>>)]
        fresh == SelectSeq(recent, LAMBDA b : b.ts > st.idx_last /\ b.ts <= now)
    IN  IF st.idx_last # -1 /\ Continuous(recent, st.idx_last)
        THEN FoldLeft(IngestIndexBar, st, fresh)
        ELSE FoldLeft(IngestIndexBar, cold, SelectSeq(indexBars, LAMBDA b : b.ts <= now))

\* _sync_name_daily
SyncNameDaily(st, symbol, bars, bar) ==
    LET last == Get(st.daily_last, symbol, -1)
        rows == IF last = -1 \/ bar.ts <= last THEN DailyCloses(bars)
                ELSE FoldDaily(Get(st.daily, symbol, <<>>), bar)
    IN  [st EXCEPT !.daily = Put(@, symbol, rows),
                   !.daily_last = Put(@, symbol, Last(bars).ts)]

\* _atr_at: the pending moves strictly before now are folded in.
AtrAt(st, now) ==
    LET due == SelectSeq(st.pending, LAMBDA p : p.ts < now)
    IN  [st EXCEPT !.pending = SelectSeq(@, LAMBDA p : p.ts >= now),
                   !.sum = @ + SumOf([i \in DOMAIN due |-> due[i].value]),
                   !.count = @ + Len(due)]

\* _beta: measured once per (symbol, session).
BetaAt(st, symbol, session) ==
    IF <<symbol, session>> \in DOMAIN st.betas THEN st
    ELSE [st EXCEPT !.betas = Put(@, <<symbol, session>>,
            BetaCore(Before(Get(st.daily, symbol, <<>>), session),
                     Before(Get(st.daily, IndexSymbol, <<>>), session)))]

\* The monotonicity guard of on_bar.
OnClock(st, now) ==
    [(IF st.last_now # -1 /\ now < st.last_now THEN ColdState ELSE st)
       EXCEPT !.last_now = now]

\* on_bar for a name: each measurement is only made when the ones before it let
\* the rule go on, so the order decides which parts of the state move.
LeadLagStep(memo, symbol, seen, bar) ==
    LET now == bar.ts
        index == seen[IndexSymbol]
        s1 == SyncNameDaily(OnClock(memo, now), symbol, seen[symbol], bar)
        s2 == SyncIndex(s1, index, now)
        rIndex == TrailingReturn(index, now)
        s3 == AtrAt(s2, now)
        atr == [sum |-> s3.sum, count |-> s3.count]
        rName == TrailingReturn(seen[symbol], now)
        s4 == BetaAt(s3, symbol, DayOf(now))
        jumped == /\ atr.count >= MIN_ATR_OBSERVATIONS /\ atr.sum > 0
                  /\ Magnitude(rIndex) * atr.count > atr.sum
        Silent(st) == [state |-> st, out |-> NoSignal]
    IN  IF index = <<>> \/ Last(index).ts # now THEN Silent(s1)
        ELSE IF rIndex \in {NoPrice, 0} THEN Silent(s2)
        ELSE IF ~jumped \/ rName = NoPrice THEN Silent(s3)
        ELSE [state |-> s4,
              out |-> LeadLagRule(rIndex, atr, rName, s4.betas[<<symbol, DayOf(now)>>])]

\* The full recomputation on every bar.
LeadLagReference(symbol, seen, bar) ==
    LET now == bar.ts
        index == seen[IndexSymbol]
        moves == MovesBefore(index, now)
    IN  IF index = <<>> \/ Last(index).ts # now THEN NoSignal
        ELSE LeadLagRule(TrailingReturn(index, now),
                         [sum |-> SumOf(moves), count |-> Len(moves)],
                         TrailingReturn(seen[symbol], now),
                         MeasureBeta(seen[symbol], index, DayOf(now)))
=============================================================================
