------------------------------ MODULE DataDesk ------------------------------
(***************************************************************************)
(* A replay that reads one kind of point-in-time data through the locked   *)
(* loader, beside the reader it stands for: one who at every decision      *)
(* instant has only what the source has published.                         *)
(*                                                                         *)
(* The signals that read point-in-time frames.  Each is a step from its    *)
(* instance state and the rows visible at the decision instant to the next *)
(* state and what it emits: a side and the release it acts on.             *)
(***************************************************************************)
EXTENDS FeedFrames

CONSTANTS NoSignal,
          ZThreshold,              \* of CotExtreme and ShortRatioDeviation, in halves
          CotWindow,               \* z_window_weeks of the signal
          MaxEntryAgeDays,
          MinOfficers,
          MinSustainedDays,
          AfternoonStart, SessionClose, MinToClose, PinPermille,
          FlowStart, FlowEnd, FlowMaxAge,
          ImbalanceThreshold, VpinThreshold, MinIntensity

BUY == "BUY"
SELL == "SELL"
Emit(side, release) == [side |-> side, release |-> release]
Step(memo, out) == [memo |-> memo, out |-> out]
Visible(frame, now) == {r \in frame : r.available <= now}
Opposite(side) == IF side = BUY THEN SELL ELSE BUY

Stale(now, release) == now - release > 24 * MaxEntryAgeDays

\* The newest row by (available_at, asof_date).
LatestRow(rows) ==
    CHOOSE r \in rows : \A q \in rows :
        q.available < r.available \/ (q.available = r.available /\ q.asof <= r.asof)

\* CotExtreme.on_bar.  The latest release is considered once, then judged: its
\* age, a full window, some dispersion.  A NaN z passes the threshold test and buys.
CotStep(memo, rows, now) ==
    LET release == Max({r.available : r \in rows})
        net == [d \in {r.asof : r \in rows} |-> (CHOOSE r \in rows : r.asof = d).net]
        window == Newest(DOMAIN net, CotWindow)
        valid == {d \in window : net[d] # NoValue}
        last == net[Max(window)]
        z == ZScore(net, window, IF last = NoValue THEN 0 ELSE last, 2)
    IN  IF rows = {} THEN Step(memo, NoSignal)
        ELSE IF memo # NoValue /\ release <= memo THEN Step(memo, NoSignal)
        ELSE IF Stale(now, release) \/ Cardinality(window) < CotWindow \/ z = NoValue
             THEN Step(release, NoSignal)
        ELSE IF last = NoValue THEN Step(release, Emit(BUY, release))
        ELSE IF ~ZExceeds(z, ZThreshold) THEN Step(release, NoSignal)
        ELSE Step(release, Emit(IF z.dev > 0 THEN SELL ELSE BUY, release))

\* InsiderCluster.on_bar for one symbol.
InsiderStep(memo, rows, now) ==
    LET latest == LatestRow(rows)
    IN  IF rows = {} THEN Step(memo, NoSignal)
        ELSE IF memo # NoValue /\ latest.available <= memo THEN Step(memo, NoSignal)
        ELSE IF Stale(now, latest.available) \/ latest.buyers < MinOfficers \/ latest.net <= 0
             THEN Step(latest.available, NoSignal)
        ELSE Step(latest.available, Emit(BUY, latest.available))

\* The comparison with the pattern day acted on is off by one.
ShortStepRefires(memo, rows, now) ==
    LET recent == Newest({r.asof : r \in rows}, MinSustainedDays)
        trigger == Max(recent)
    IN  IF \/ Cardinality(recent) < MinSustainedDays
           \/ \E r \in rows : r.asof \in recent /\ ~ZAbove(r.z, ZThreshold)
           \/ memo # NoValue /\ trigger < memo
        THEN Step(memo, NoSignal)
        ELSE Step(trigger, Emit(BUY, FinraAvailable(trigger)))

\* ShortRatioDeviation.on_bar for one symbol: the pattern day moves only on a firing.
ShortStep(memo, rows, now) ==
    LET recent == Newest({r.asof : r \in rows}, MinSustainedDays)
        trigger == Max(recent)
    IN  IF \/ Cardinality(recent) < MinSustainedDays
           \/ \E r \in rows : r.asof \in recent /\ ~ZAbove(r.z, ZThreshold)
           \/ memo # NoValue /\ trigger <= memo
        THEN Step(memo, NoSignal)
        ELSE Step(trigger, Emit(BUY, FinraAvailable(trigger)))

\* The rows of the freshest day visible.
LatestSnapshot(rows) == {r.quote : r \in {q \in rows : q.asof = Max({x.asof : x \in rows})}}

\* The strike of most |gamma| * open interest, the lowest of equals.
MaxGammaStrike(greeks, oi) ==
    LET joined == {<<g, o>> \in greeks \X oi : g.strike = o.strike /\ g.right = o.right}
        strikes == {p[1].strike : p \in joined}
        weight(k) == MapThenSumSet(LAMBDA p : p[1].gamma * p[2].oi, {p \in joined : p[1].strike = k})
        best == {k \in strikes : weight(k) > 0 /\ \A j \in strikes : weight(j) <= weight(k)}
    IN  IF best = {} THEN NoValue ELSE Min(best)

\* The session is not remembered as fired.
GexStepForgets(memo, oi, greeks, spot, now) ==
    LET pin == MaxGammaStrike(LatestSnapshot(greeks), LatestSnapshot(oi))
        distance == spot - pin
    IN  IF HourOf(now) < AfternoonStart \/ SessionClose - HourOf(now) < MinToClose \/ oi = {} \/ greeks = {}
        THEN Step(memo, NoSignal)
        ELSE IF pin = NoValue THEN Step(memo, NoSignal)
        ELSE IF distance = 0 THEN Step(memo, NoSignal)
        ELSE Step(memo, Emit(IF distance > 0 THEN SELL ELSE BUY, At(DayOf(now), 0)))

\* GexPinning.on_bar: once per session, in the afternoon, inside the band.
GexStep(memo, oi, greeks, spot, now) ==
    LET session == DayOf(now)
        pin == MaxGammaStrike(LatestSnapshot(greeks), LatestSnapshot(oi))
        distance == spot - pin
        inside == 1000 * (IF distance > 0 THEN distance ELSE -distance) < PinPermille * spot
    IN  IF \/ session \in memo
           \/ HourOf(now) < AfternoonStart \/ SessionClose - HourOf(now) < MinToClose
           \/ oi = {} \/ greeks = {}
        THEN Step(memo, NoSignal)
        ELSE IF pin = NoValue THEN Step(memo, NoSignal)
        ELSE IF distance = 0 \/ ~inside THEN Step(memo, NoSignal)
        ELSE Step(memo \cup {session}, Emit(IF distance > 0 THEN SELL ELSE BUY, At(session, 0)))

\* The index cut without regard to now.
PitLatestUncut(frame, now) == LatestRow(frame)

\* MarketContext.pit_latest: the index of the whole frame cut at now.
PitLatest(frame, now) == LatestRow(Visible(frame, now))

\* _tradeable, then FlowContinuation and FlowReversion: complementary on vpin.
FlowStep(memo, frame, now) ==
    LET row == PitLatest(frame, now)
        size == IF row.imbalance > 0 THEN row.imbalance ELSE -row.imbalance
        side == IF row.imbalance > 0 THEN BUY ELSE SELL
    IN  IF HourOf(now) \notin FlowStart..FlowEnd \/ Visible(frame, now) = {}
        THEN Step(memo, NoSignal)
        ELSE IF \/ NoValue \in {row.vpin, row.imbalance, row.intensity}
        THEN Step(memo, NoSignal)
        ELSE IF row.intensity < MinIntensity \/ size < ImbalanceThreshold \/ now - row.ts > FlowMaxAge
        THEN Step(memo, NoSignal)
        ELSE Step(memo, Emit(IF row.vpin >= VpinThreshold THEN side ELSE Opposite(side), row.ts))
-----------------------------------------------------------------------------
(* The desk. *)

CONSTANTS Worlds,          \* kind -> the archives to try
          Symbol,          \* the traded symbol
          Spot,            \* its price, for the pin
          Start, End,      \* the run's range of days
          Walls,           \* values of lockbox_start in the configuration
          BarHours         \* hours of a trading day at which a bar closes

PIT_KINDS == {"short_ratio", "vol_indices", "rates", "cot", "insider", "earnings", "micro"}
Kinds == PIT_KINDS \cup {"options"}

\* The kinds whose signals edge_first_backtests.py wraps in a PitTailGate.
GatedKinds == {"short_ratio", "insider", "cot"}

VARIABLES kind, world, wall,
          sentinel,   \* LOCKBOX_SPENT.json: "none", "match" (the key's nonce) or "corrupt"
          status,     \* of the run: "load", "run", "violation", "tampered"
          until,      \* the end of the loaded range
          pit,        \* state.pit[kind]
          options,    \* state.options_pit: the session loaded and its two frames
          now, memo, out,
          gate,       \* PitTailGate: rows counted, and the instance it wraps
          ideal,      \* instance state and emission of the reader described above
          acted       \* release -> how often it was acted on

deskVars == <<kind, world, wall, sentinel, status, until, pit, options, now, memo, out, gate, ideal, acted>>

\* The backends: what kind serves for [start, end], the market-wide kinds trimmed.
Trim(frame, start, end) == {r \in frame : start <= r.asof /\ r.asof <= end}
OfSymbol(frame) == {r \in frame : r.symbol = Symbol}
Fetch(k, w, start, end) ==
    CASE k = "short_ratio" -> OfSymbol(ShortFeatures(w, start, end))
      [] k = "cot" -> Trim(CotFeatures(w), start, end)
      [] k = "vol_indices" -> Trim(VolFeatures(w), start, end)
      [] k = "rates" -> Trim(RatesFeatures(w), start, end)
      [] k = "insider" -> Trim(InsiderFeatures({x \in w : x.symbol = Symbol}), start, end)
      [] k = "earnings" -> EarningsFeatures(w, start, end)
      [] k = "micro" -> MicroFrame(w, start, end)
      [] OTHER -> {}

\* What the source has published by t.
Upto(series, t, Publishes(_)) == [d \in {e \in DOMAIN series : Publishes(e) <= t} |-> series[d]]
Published(k, w, t) ==
    CASE k = "short_ratio" -> [s \in DOMAIN w |-> Upto(w[s], t, FinraPublishes)]
      [] k = "cot" -> Upto(w, t, TffPublishes)
      [] k = "vol_indices" -> [vix |-> Upto(w.vix, t, CboePublishes), vvix |-> Upto(w.vvix, t, CboePublishes),
                               frozen |-> Upto(w.frozen, t, CboePublishes),
                               daily |-> Upto(w.daily, t, CboePublishes)]
      [] k = "rates" -> [yields |-> Upto(w.yields, t, TreasuryPublishes), fred |-> Upto(w.fred, t, FredPublishes)]
      [] k = "insider" -> {x \in w : FilingPublishes(x.acceptance) <= t}
      [] k = "earnings" -> IF w.mtime <= t THEN w ELSE NoValue
      [] k = "micro" -> {r \in w : r.ts <= t}
      [] OTHER -> [oi |-> Upto(w.oi, t, OccPublishes), greeks |-> Upto(w.greeks, t, EodPublishes)]

\* EdgeDataLoader: the key's nonce against the sentinel, the gate, the row clamp.
Unlocked == sentinel = "match"
GatedEndWall(end) == IF Unlocked THEN end ELSE wall - 1
GatedEnd(end) == IF Unlocked THEN end ELSE Min({end, wall - 1})
\* The clamp on the data's own date only.
ClampAsof(frame) == {r \in frame : r.asof < wall}

Clamp(frame) == {r \in frame : r.asof < wall /\ r.available < At(wall, 0)}
Load(k, w, start, end) ==
    IF Unlocked THEN Fetch(k, w, start, end) ELSE Clamp(Fetch(k, w, start, GatedEnd(end)))

\* The bridge's kinds are gated by range, their rows are not clamped.
LoadOptions(w, end) ==
    [session |-> end, oi |-> OpenInterestFrame(w.oi, Start, GatedEnd(end)),
     greeks |-> GreeksFrame(w.greeks, Start, GatedEnd(end))]

NoOptions == [session |-> -1, oi |-> {}, greeks |-> {}]
ColdMemo(k) == IF k = "options" THEN {} ELSE NoValue

DeskInit ==
    /\ kind \in Kinds /\ world \in Worlds[kind] /\ wall \in Walls
    /\ sentinel \in {"none", "match", "corrupt"}
    /\ status = "load" /\ until = Start - 1 /\ pit = {} /\ options = NoOptions
    /\ now = -1 /\ memo = ColdMemo(kind) /\ out = NoSignal
    /\ gate = [seen |-> -1, memo |-> ColdMemo(kind), out |-> NoSignal]
    /\ ideal = [memo |-> ColdMemo(kind), out |-> NoSignal, rows |-> {}]
    /\ acted = <<>>

\* load: a corrupt sentinel raises, a start at the wall raises when locked.
LoadTape ==
    /\ status = "load"
    /\ IF sentinel = "corrupt"
       THEN status' = "tampered" /\ UNCHANGED <<until, pit>>
       ELSE IF ~Unlocked /\ Start >= wall
       THEN status' = "violation" /\ UNCHANGED <<until, pit>>
       ELSE /\ status' = "run" /\ until' = GatedEnd(End)
            /\ pit' = Load(kind, world, Start, End)
    /\ UNCHANGED <<kind, world, wall, sentinel, options, now, memo, out, gate, ideal, acted>>

BarInstants == {At(d, h) : d \in {e \in Start..until : TradingDay(e)}, h \in BarHours}
Pending == {t \in BarInstants : t > now}

\* The frame of an earlier session served for good.
OptionsAtFirst(t) ==
    IF options.session >= 0 THEN options ELSE LoadOptions(world, Min({End, DayOf(t)}))

\* _options_pit_frame: loaded once per session, through the loader of that moment.
OptionsAt(t) ==
    IF options.session = DayOf(t) THEN options ELSE LoadOptions(world, Min({End, DayOf(t)}))

\* One signal per kind; vol_indices, rates and earnings feed none of these.
Decide(m, frame, opt, t) ==
    CASE kind = "cot" -> CotStep(m, Visible(frame, t), t)
      [] kind = "insider" -> InsiderStep(m, Visible(frame, t), t)
      [] kind = "short_ratio" -> ShortStep(m, Visible(frame, t), t)
      [] kind = "micro" -> FlowStep(m, frame, t)
      [] kind = "options" -> GexStep(m, Visible(opt.oi, t), Visible(opt.greeks, t), Spot, t)
      [] OTHER -> Step(m, NoSignal)

\* The rows are counted as they are dated, not as they come.
GateStepByDate(g, t) ==
    LET visible == Cardinality({r \in pit : r.asof <= DayOf(t)})
        decision == Decide(g.memo, pit, NoOptions, t)
    IN  IF g.seen = visible THEN [g EXCEPT !.out = NoSignal]
        ELSE [seen |-> visible, memo |-> decision.memo, out |-> decision.out]

\* PitTailGate.on_bar: the signal is asked only when the count of visible rows moved.
GateStep(g, t) ==
    LET visible == Cardinality(Visible(pit, t))
        decision == Decide(g.memo, pit, NoOptions, t)
    IN  IF g.seen = visible THEN [g EXCEPT !.out = NoSignal]
        ELSE [seen |-> visible, memo |-> decision.memo, out |-> decision.out]

\* The reader with what is published at t.
Ideal(t) ==
    LET w == Published(kind, world, t)
        frame == Fetch(kind, w, Start, DayOf(t))
        opt == IF kind = "options"
               THEN [oi |-> OpenInterestFrame(w.oi, Start, DayOf(t)), greeks |-> GreeksFrame(w.greeks, Start, DayOf(t))]
               ELSE NoOptions
        decision == Decide(ideal.memo, frame, opt, t)
    IN  [memo |-> decision.memo, out |-> decision.out,
         rows |-> Visible(frame, t) \cup Visible(opt.oi, t) \cup Visible(opt.greeks, t)]

\* A bar closes: a corrupt sentinel stops a run only where it loads again.
OnBar ==
    /\ status = "run" /\ Pending # {}
    /\ LET t == Min(Pending)
           loads == kind = "options" /\ options.session # DayOf(t)
           opt == IF kind = "options" THEN OptionsAt(t) ELSE options
           decision == Decide(memo, pit, opt, t)
       IN  IF loads /\ sentinel = "corrupt"
           THEN status' = "tampered" /\ UNCHANGED <<options, now, memo, out, gate, ideal, acted>>
           ELSE /\ now' = t /\ options' = opt
                /\ memo' = decision.memo /\ out' = decision.out
                /\ gate' = IF kind \in GatedKinds THEN GateStep(gate, t) ELSE gate
                /\ ideal' = Ideal(t)
                /\ acted' = IF out' = NoSignal THEN acted
                            ELSE [r \in DOMAIN acted \cup {out'.release} |->
                                    (IF r \in DOMAIN acted THEN acted[r] ELSE 0)
                                    + (IF r = out'.release THEN 1 ELSE 0)]
                /\ UNCHANGED status
    /\ UNCHANGED <<kind, world, wall, sentinel, until, pit>>

\* The sentinel is deleted or damaged while a run is under way.
SentinelLost ==
    /\ status = "run" /\ sentinel = "match"
    /\ sentinel' \in {"none", "corrupt"}
    /\ UNCHANGED <<kind, world, wall, status, until, pit, options, now, memo, out, gate, ideal, acted>>

DeskNext == LoadTape \/ OnBar \/ SentinelLost
DeskSpec == DeskInit /\ [][DeskNext]_deskVars
----------------------------------------------------------------------------
Seen == Visible(pit, now) \cup Visible(options.oi, now) \cup Visible(options.greeks, now)
Decided == status = "run" /\ now >= 0

\* The sentinel vanished under a run that had opened the range past the wall: from
\* then on the options loads are gated while the bars go on.
Relocked == ~Unlocked /\ until >= wall

\* MarketContext ("Signals never touch ... the future"): at every decision instant
\* the rows a replay sees were computable from what was published by then, and
\* are, for every kind but two, exactly what a reader of that day saw.  Filings
\* accepted late and calendars scraped late delay rows, they never add any.
ReplayMatchesLive ==
    Decided =>
        /\ Seen \subseteq ideal.rows
        /\ kind \in {"insider", "earnings"} \/ (kind = "options" /\ Relocked) \/ Seen = ideal.rows

\* The signals' contract: at every bar the emission, with all the memory of
\* releases already considered, is the emission of the reader of that day.
ReplayDecidesLive ==
    Decided /\ kind \in {"cot", "short_ratio", "micro", "options"} /\ ~(kind = "options" /\ Relocked)
        => out = ideal.out

\* EdgeDataLoader.load: a locked frame is a function of what was published before
\* the wall; no observation published at or after it changes any row.
LockedBlind ==
    status = "run" /\ ~Unlocked /\ kind \in PIT_KINDS =>
        LET before == Published(kind, world, At(wall, 0) - 1)
        IN  Load(kind, world, Start, End) \subseteq Fetch(kind, before, Start, wall - 1)

\* "a report is acted on exactly once per run", "one emission per newly visible
\* pattern day", "at most one event per (symbol, ET session)".
OncePerRelease == \A r \in DOMAIN acted : acted[r] = 1

\* PitTailGate: skipping the bars at which nothing new is visible "reproduces the
\* exact same emissions", and leaves the wrapped instance as it would have been.
GateTransparent ==
    Decided /\ kind \in GatedKinds => gate.out = out /\ gate.memo = memo

\* A release is traded at the first bar of the run that could see it, or never.
TradedWhenNews ==
    Decided /\ out # NoSignal /\ kind \in {"cot", "insider", "short_ratio"} =>
        /\ out.release <= now
        /\ \A t \in BarInstants : out.release <= t => now <= t

\* _options_pit_frame: loading only up to the session, once, hides nothing that a
\* load of the whole range would show at this instant.
OptionsCacheExact ==
    Decided /\ kind = "options" /\ ~Relocked =>
        LET whole == [oi |-> OpenInterestFrame(world.oi, Start, until),
                      greeks |-> GreeksFrame(world.greeks, Start, until)]
        IN  /\ Visible(options.oi, now) = Visible(whole.oi, now)
            /\ Visible(options.greeks, now) = Visible(whole.greeks, now)
=============================================================================
