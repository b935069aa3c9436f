----------------------------- MODULE OrbOptions -----------------------------
(***************************************************************************)
(* OrbOptionsStrategy (strategies/active/orb_options.py) under the minute  *)
(* loop of the intraday engine: sessions are replayed one after the other, *)
(* a decision at a minute sees the bars before it, and the statistics of   *)
(* completed sessions decide whether a breakout is bought with an option.  *)
(* A session is a function from minutes after the open (negative before    *)
(* it) to bars; fractions of spot are in thousandths, others percentages.  *)
(***************************************************************************)
EXTENDS Integers, Sequences, FiniteSets, FiniteSetsExt, SequencesExt

CONSTANTS
  Replays,        \* the replays: sequences of sessions
  RthMinutes,     \* minutes of the regular session
  LastAsk,        \* the last minute the engine asks at: entries end with the flatten
  RangeBars, MinOpening, MinAfter,   \* range_minutes, and the bars a session needs in and after it
  MinRangePct, MaxRangePct, BreakPct, EntryFrom, EntryUntil,
  MinRelVolume, VolumeSessions,      \* min_rel_volume, rel_volume_lookback_sessions
  AtrSessions, Warmup, MinObservations, HoldBars,
  MinPremium, MaxQuoteSpread, AimDelta, EntryFriction, Decay, MinEdgePct,
  Deltas,         \* distance of the strike out of the money -> delta of the contract, 0 when the solve fails
  Books,          \* what the contracts may be quoted at: distance -> [bid, ask], or NoBar
  MaxReplays,
  NoBar

ASSUME OrbOptionsAssumption ==
  /\ RangeBars > 0 /\ AtrSessions > 0 /\ HoldBars > 0 /\ LastAsk \in 1..RthMinutes
  /\ EntryFrom <= EntryUntil /\ MinRangePct <= MaxRangePct /\ MaxReplays \in Nat \ {0}

VARIABLES
  replay, book,    \* the tape, and the quotes of its contracts
  at,              \* [n: the session, minute: the last minute asked at]
  pass,            \* replays over the same instance
  memory,          \* the strategy's state
  bought,          \* what it proposed at the last minute asked at, or NoBar
  first            \* what the first replay proposed: <<n, minute>> -> proposal

orbVars == <<replay, book, at, pass, memory, bought, first>>

\* _reset_state.
Empty == [session |-> 0, frame |-> <<>>, daily |-> <<>>, volumes |-> [m \in 0..(RthMinutes - 1) |-> <<>>],
          excursions |-> <<>>, seen |-> 0, fired |-> FALSE]

OrbOptionsInit ==
  /\ replay \in Replays /\ book \in Books
  /\ at = [n |-> 1, minute |-> 0] /\ pass = 1 /\ memory = Empty /\ bought = NoBar /\ first = <<>>
OrbOptionsRest ==
  /\ replay = <<>> /\ book = NoBar
  /\ at = [n |-> 1, minute |-> 0] /\ pass = 1 /\ memory = Empty /\ bought = NoBar /\ first = <<>>

\* _rth over what the engine shows at a minute: bars labelled before it.
Visible(day, minute) == {m \in DOMAIN day : m < minute}
Rth(minutes) == {m \in minutes : m \in 0..(RthMinutes - 1)}
Cut(day, M) == [m \in M |-> day[m]]
Close(day) == day[Max(DOMAIN day)].close
HighOf(day, M) == Max({day[m].high : m \in M})
LowOf(day, M) == Min({day[m].low : m \in M})
Clip(x) == Max({x, 0})

\* _true_range_atr: AtrSessions times the mean true range, NoBar when unformed.
TrueRange(daily, i) ==
  Max({daily[i].high - daily[i].low, Clip(daily[i].high - daily[i - 1].close), Clip(daily[i - 1].close - daily[i].high),
       Clip(daily[i].low - daily[i - 1].close), Clip(daily[i - 1].close - daily[i].low)})
Atr(daily) ==
  IF Len(daily) < AtrSessions + 1 THEN NoBar
  ELSE MapThenSumSet(LAMBDA i : TrueRange(daily, i), (Len(daily) - AtrSessions + 1)..Len(daily))

\* A range neither degenerate nor wider than the share of the ATR it may take.
Coiled(width, atr) == 100 * AtrSessions * width \in (MinRangePct * atr)..(MaxRangePct * atr)
Beyond(move, atr) == 100 * AtrSessions * move > BreakPct * atr

\* _record_excursion: how far the first breakout of a session that is over ran, the bar of
\* the breakout included; at most one for a session.
Excursion(day, atr) ==
  LET M == DOMAIN day
      Nth(m) == Cardinality({o \in M : o < m})
      opening == {m \in M : Nth(m) < RangeBars}
      hi == HighOf(day, opening)
      lo == LowOf(day, opening)
      broke == {m \in M \ opening : m \in EntryFrom..EntryUntil /\ (Beyond(day[m].close - hi, atr) \/ Beyond(lo - day[m].close, atr))}
      m == Min(broke)
      window == {o \in M : o >= m /\ Nth(o) < Nth(m) + HoldBars}
      run == IF day[m].close > hi THEN HighOf(day, window) - day[m].close ELSE day[m].close - LowOf(day, window)
  IN  IF Cardinality(M) < RangeBars + MinAfter \/ atr = NoBar \/ atr = 0 \/ ~Coiled(hi - lo, atr) \/ broke = {} THEN <<>>
      ELSE <<(1000 * Clip(run)) \div day[m].close>>

\* A completed session joins the statistics; its ATR includes it.
Closed(s) ==
  LET day == s.frame
      daily == Append(s.daily, [high |-> HighOf(day, DOMAIN day), low |-> LowOf(day, DOMAIN day), close |-> Close(day)])
  IN  [s EXCEPT !.daily = daily, !.seen = @ + 1,
         !.volumes = [m \in DOMAIN @ |-> IF m \in DOMAIN day THEN Append(@[m], day[m].volume) ELSE @[m]],
         !.excursions = @ \o Excursion(day, Atr(daily))]

\* Mutant: a replay that starts over keeps the statistics of the one before.
RolledOn(s, n) ==
  IF s.session = n THEN s
  ELSE LET closed == IF s.frame # <<>> THEN Closed(s) ELSE s
       IN  [closed EXCEPT !.session = n, !.frame = <<>>, !.fired = FALSE]

\* _roll_session: a move backwards is a new run.
Rolled(s, n) ==
  IF s.session = n THEN s
  ELSE IF s.session > n THEN [Empty EXCEPT !.session = n]
  ELSE LET closed == IF s.frame # <<>> THEN Closed(s) ELSE s
       IN  [closed EXCEPT !.session = n, !.frame = <<>>, !.fired = FALSE]

\* The session seen so far is kept before any gate can return.
Shown(s, day, minute) ==
  LET M == Rth(Visible(day, minute)) IN IF M = {} THEN s ELSE [s EXCEPT !.frame = Cut(day, M)]

\* _rel_volume: the volume so far against the sum of the medians up to this minute, twice.
Twice(seq) ==
  LET sorted == SortSeq(seq, LAMBDA a, b : a < b)
      n == Len(seq)
  IN  sorted[(n + 1) \div 2] + sorted[(n + 2) \div 2]
Tail2(seq) == SubSeq(seq, Max({1, Len(seq) - VolumeSessions + 1}), Len(seq))
VolumeConfirmed(s, minute) ==
  LET known == {m \in DOMAIN s.volumes : m <= minute /\ s.volumes[m] # <<>>}
      baseline == MapThenSumSet(LAMBDA m : Twice(Tail2(s.volumes[m])), known)
      today == MapThenSumSet(LAMBDA m : s.frame[m].volume, DOMAIN s.frame)
  IN  baseline > 0 /\ 200 * today >= MinRelVolume * baseline

\* _select_contract: liquid contracts with a delta; the one nearest the target, the first
\* in the scan among equals.
Liquid(d) ==
  LET q == book[d] IN
  q # NoBar /\ q.bid > 0 /\ q.ask >= q.bid /\ q.bid + q.ask >= 2 * MinPremium
  /\ 200 * (q.ask - q.bid) <= MaxQuoteSpread * (q.bid + q.ask) /\ Deltas[d] > 0
DeltaGap(d) == IF Deltas[d] > AimDelta THEN Deltas[d] - AimDelta ELSE AimDelta - Deltas[d]
Candidates == {d \in DOMAIN book : Liquid(d)}
Nearest == CHOOSE d \in Candidates : \A e \in Candidates : DeltaGap(d) < DeltaGap(e) \/ (DeltaGap(d) = DeltaGap(e) /\ d <= e)
\* The move of spot the premium, its friction and its decay need, in thousandths.
Breakeven(d, spot) == (100 * 1000 * ((book[d].bid + book[d].ask) \div 2 + EntryFriction + Decay)) \div (Deltas[d] * spot)
\* The convexity gate.
Pays(excursions, move) ==
  /\ Len(excursions) >= MinObservations
  /\ 100 * MapThenSumSet(LAMBDA i : Clip(excursions[i] - move), DOMAIN excursions) > MinEdgePct * move * Len(excursions)

\* on_minute, from the statistics and the session so far: NoBar, or the right and the contract.
Decision(s, minute) ==
  LET opening == {m \in DOMAIN s.frame : m < RangeBars}
      hi == HighOf(s.frame, opening)
      lo == LowOf(s.frame, opening)
      atr == Atr(s.daily)
      spot == Close(s.frame)
      up == Beyond(spot - hi, atr)
  IN  IF \/ s.seen < Warmup \/ minute \notin EntryFrom..EntryUntil \/ s.fired
         \/ Cardinality(opening) < MinOpening \/ atr = NoBar \/ atr = 0 \/ ~Coiled(hi - lo, atr)
         \/ ~(up \/ Beyond(lo - spot, atr)) \/ ~VolumeConfirmed(s, minute) \/ Candidates = {}
      THEN NoBar
      ELSE IF Pays(s.excursions, Breakeven(Nearest, spot)) THEN [right |-> IF up THEN "call" ELSE "put", contract |-> Nearest] ELSE NoBar

\* The engine asks at the next minute it may enter at.
AskMinute ==
  /\ replay # <<>> /\ at.minute < LastAsk
  /\ LET s == Shown(Rolled(memory, at.n), replay[at.n], at.minute + 1)
         trade == Decision(s, at.minute + 1)
     IN  /\ memory' = [s EXCEPT !.fired = @ \/ trade # NoBar]
         /\ bought' = trade
         /\ first' = IF pass = 1 /\ trade # NoBar THEN Append(first, <<at.n, at.minute + 1, trade>>) ELSE first
  /\ at' = [at EXCEPT !.minute = @ + 1]
  /\ UNCHANGED <<replay, book, pass>>

NextDay ==
  /\ replay # <<>> /\ at.minute = LastAsk /\ at.n < Len(replay)
  /\ at' = [n |-> at.n + 1, minute |-> 0] /\ bought' = NoBar
  /\ UNCHANGED <<replay, book, pass, memory, first>>

\* Another segment of the pipeline replays the same instance from an earlier session on.
ReplayAgain ==
  /\ replay # <<>> /\ at.minute = LastAsk /\ at.n = Len(replay) /\ pass < MaxReplays
  /\ at' = [n |-> 1, minute |-> 0] /\ pass' = pass + 1 /\ bought' = NoBar
  /\ UNCHANGED <<replay, book, memory, first>>

OrbOptionsNext == AskMinute \/ NextDay \/ ReplayAgain
----------------------------------------------------------------------------
\* What a strategy that kept nothing would know at a session: the sessions before it, each
\* as far as the engine showed it.
Known[n \in Nat] ==
  IF n = 0 THEN Empty
  ELSE LET before == IF n = 1 THEN Empty ELSE Known[n - 1]
           M == Rth(Visible(replay[n], LastAsk))
       IN  IF M = {} THEN before ELSE Closed([before EXCEPT !.frame = Cut(replay[n], M)])

\* "Computed only from a session that is already over, so it is point-in-time for every
\* later decision", over early returns, gaps, quiet sessions and further replays of the
\* same instance: at every minute the statistics are those of the sessions before, the
\* session is what the engine has shown of it, and what is proposed is proposed once in a
\* session and in every replay alike.
OrbOptionsPrior ==
  at.minute > 0 /\ replay # <<>> =>
    LET prior == Known[at.n - 1]
        M == Rth(Visible(replay[at.n], at.minute))
        mine == {i \in DOMAIN first : first[i][1] = at.n}
    IN  /\ memory.daily = prior.daily /\ memory.volumes = prior.volumes
        /\ memory.excursions = prior.excursions /\ memory.seen = prior.seen
        /\ memory.frame = Cut(replay[at.n], M)
        /\ Cardinality(mine) <= 1
        /\ pass > 1 => bought = IF \E i \in mine : first[i][2] = at.minute THEN first[Min(mine)][3] ELSE NoBar
=============================================================================
