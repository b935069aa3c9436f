-------------------------- MODULE IntradayBacktest --------------------------
(***************************************************************************)
(* IntradayBacktester (backtest/intraday.py): the minute loop over the     *)
(* simulated broker, the risk manager and the intraday exit rules.  A      *)
(* minute is a market update with the breaker, the flatten once its time   *)
(* has come, exits, then entries.  What the strategies propose and what    *)
(* the minute data hold is chosen as the loop reads it.                    *)
(*                                                                         *)
(* A proposal is a trade of SimBroker whose legs are its option legs (none *)
(* for shares) and whose rows are what its minute data may show: a unit    *)
(* mid (NoMid for a NaN, or for shares before their first bar), the open   *)
(* shares fill at, and whether there is a buyer for the legs to be sold.   *)
(***************************************************************************)
EXTENDS SimBroker, RiskManager, ExitRules, Sequences, SequencesExt

CONSTANTS
  Proposals,       \* what the strategies may propose, in the order of the loop
  Closes,          \* minutes after the open a session may really close at
  EodFlatten,      \* eod_flatten, in minutes after the open
  Staleness,       \* option_quote_staleness_min
  HaircutPct,      \* synthetic_haircut
  Paces,           \* values of decision_every_min
  MaxIntraday,     \* sessions of the replay
  NoMid

ASSUME IntradayAssumption ==
  /\ MaxIntraday \in Nat \ {0} /\ Closes \subseteq Nat /\ \A c \in Closes : c > 2
  /\ HaircutPct \in 1..100 /\ Staleness \in Nat /\ Paces \subseteq Nat \ {0} /\ EodFlatten \in Nat
  /\ Proposals \in Seq(Range(Proposals))
  /\ \A k \in DOMAIN Proposals : LET t == Proposals[k] IN
       /\ t.k = k /\ {t.cost, t.maxLoss, t.riskPct} \subseteq Int /\ IsFiniteSet(DOMAIN t.legs)
       /\ \A r \in t.rows : r.mid \in Int \cup {NoMid} /\ (t.legs = <<>> => r.open \in Int)

VARIABLES
  every,        \* decision_every_min of the run
  session, minute, closeAt,
  step,         \* "off", "idle", "market", "flatten", "exits", "entries", "last", "closed", "done"
  row, age,     \* instrument -> its last row, and the minutes since
  queue,        \* positions the current loop has still to look at
  asked,        \* how many proposals of this minute have been looked at
  live,         \* open_state: position id -> _OpenState
  records,      \* the trade records
  sessionMarks, \* RiskManager._marks
  openEquity, breaker,
  worst         \* the lowest equity the breaker has seen in this session

minuteVars == <<every, session, minute, closeAt, step, row, age, queue, asked, live, records,
                sessionMarks, openEquity, breaker, worst>>

Instruments == DOMAIN Proposals
IsShares(k) == Proposals[k].legs = <<>>
FlattenAt == Min({EodFlatten, closeAt - 2})

AtRest ==
  /\ session = 0 /\ minute = 0 /\ closeAt = 0 /\ row = <<>> /\ age = <<>> /\ queue = {} /\ asked = 0
  /\ live = [i \in {} |-> 0] /\ records = {} /\ sessionMarks = <<>>
  /\ openEquity = 0 /\ breaker = FALSE /\ worst = 0
IntradayRest == AtRest /\ step = "off" /\ every = 1
IntradayInit == BrokerInit /\ AtRest /\ step = "idle" /\ every \in Paces
-----------------------------------------------------------------------------
(* What the minute data show. *)

\* Shares are marked at the last close before the minute, options at their chain's mid:
\* a row older than the cap, or a NaN, is not in it and freezes the mark.
HasMark(k, r, a) == r.mid # NoMid /\ (IsShares(k) \/ a <= Staleness)

\* Mutant: a fill falls back to what the position is marked with.
FillableMarked(k) == HasMark(k, row[k], age[k])

\* _leg_fills: shares fill at the open of this minute's bar, options in their chain.
Fillable(k) == IF IsShares(k) THEN age[k] = 0 ELSE HasMark(k, row[k], age[k])
FillMid(k) == IF IsShares(k) THEN row[k].open ELSE row[k].mid

\* The rows at the next minute read, gap minutes on: for shares the last close so far, with
\* or without a bar of that minute; for options a row since, or the last one, older.
NextRows(k, gap) ==
  IF IsShares(k)
  THEN {x \in Proposals[k].rows \X {0, 1} : row[k].mid # NoMid => x[1].mid # NoMid}
  ELSE (Proposals[k].rows \X (0..(Min({gap, Staleness + 1}) - 1)))
       \cup {<<row[k], Min({age[k] + gap, Staleness + 1})>>}

\* update_market, and the equity it leads to.
MarkedTo(now) ==
  [i \in DOMAIN pos |-> LET k == pos[i].trade.k
                        IN  IF HasMark(k, now[k][1], now[k][2]) THEN Marked(pos[i], now[k][1].mid) ELSE pos[i]]
UpdateMarket(now) ==
  /\ row' = [k \in Instruments |-> now[k][1]] /\ age' = [k \in Instruments |-> now[k][2]]
  /\ pos' = MarkedTo(now)
  /\ UNCHANGED <<cash, reserved, settled, partials, seq, chains>>
Readings(gap) == {now \in [Instruments -> UNION {NextRows(k, gap) : k \in Instruments}] :
                    \A k \in Instruments : now[k] \in NextRows(k, gap)}

\* _run_session up to its loop; a session none of whose symbols has bars is skipped.
OpenSession ==
  /\ step = "idle" /\ session < MaxIntraday
  /\ session' = session + 1
  /\ \/ /\ step' = "market" /\ closeAt' \in Closes /\ minute' = 1
        /\ row' = [k \in Instruments |-> [mid |-> NoMid]] /\ age' = [k \in Instruments |-> Staleness + 1]
        /\ openEquity' = Equity /\ worst' = Equity /\ breaker' = FALSE
     \/ step' = "closed" /\ UNCHANGED <<closeAt, minute, row, age, openEquity, worst, breaker>>
  /\ UNCHANGED <<brokerVars, every, queue, asked, live, records, sessionMarks>>

\* Mutant: the breaker lets go when the equity comes back.
TrippedNow(equity) == openEquity > 0 /\ Lost(equity, openEquity, DailyHaltPct)

\* The breaker, once hit, stays hit for the session.
Tripped(equity) == breaker \/ (openEquity > 0 /\ Lost(equity, openEquity, DailyHaltPct))

\* The market state at the minute, and the breaker.
ReadMinute ==
  /\ step = "market" /\ minute <= closeAt
  /\ \E now \in Readings(every) :
       LET equity == cash + Worth(MarkedTo(now))
       IN  /\ UpdateMarket(now)
           /\ breaker' = Tripped(equity) /\ worst' = Min({worst, equity})
  /\ step' = (IF minute >= FlattenAt THEN "flatten" ELSE "exits") /\ queue' = DOMAIN pos
  /\ UNCHANGED <<every, session, minute, closeAt, asked, live, records, sessionMarks, openEquity>>
-----------------------------------------------------------------------------
(* _close. *)

One == Min(queue)
Looked == queue' = queue \ {One}
Record1(i, price) ==
  [id |-> i, pnl |-> (price - pos[i].entry) * pos[i].qty - 2 * Fee(DOMAIN pos[i].trade.legs, pos[i].qty)]

\* A zero-bid leg has no buyer.
CanClose(i) == Fillable(pos[i].trade.k) /\ row[pos[i].trade.k].buyer
ClosePrice(p, s) == IF Cardinality(DOMAIN p.trade.legs) = 1 THEN Max({0, FillMid(p.trade.k) - s}) ELSE FillMid(p.trade.k) - s

\* The broker fills the closing order.
CloseFilled(i) ==
  \E s \in Slips : LET c == ClosePrice(pos[i], s)
                   IN  Close(i, pos[i].qty, c, FALSE) /\ records' = records \cup {Record1(i, c)}

\* Mutant: the haircut is the same factor whatever the sign.
HaircutOfMark(v) == (v * HaircutPct) \div 100

\* Adverse for both signs: a long position receives less, a short one pays more.
Haircut(v) == IF v >= 0 THEN (v * HaircutPct) \div 100 ELSE -((-v * (200 - HaircutPct)) \div 100)

\* Mutant: the synthetic fill pays no commission in cash.
ForceCloseFree(i) ==
  LET v == Haircut(pos[i].value)
  IN  /\ cash' = cash + v * pos[i].qty
      /\ pos' = Without(pos, i) /\ reserved' = Released(i, pos[i].qty, pos[i].qty)
      /\ records' = records \cup {Record1(i, v)}
      /\ UNCHANGED <<settled, partials, seq, chains>>

\* force_close: what a mandatory flatten does when the broker refuses.
ForceClose(i) ==
  LET v == Haircut(pos[i].value)
  IN  /\ cash' = cash + v * pos[i].qty - Fee(DOMAIN pos[i].trade.legs, pos[i].qty)
      /\ pos' = Without(pos, i) /\ reserved' = Released(i, pos[i].qty, pos[i].qty)
      /\ records' = records \cup {Record1(i, v)}
      /\ UNCHANGED <<settled, partials, seq, chains>>

\* _flatten_all, one position.
Flatten ==
  /\ step \in {"flatten", "last"} /\ queue # {}
  /\ IF CanClose(One) THEN CloseFilled(One) ELSE ForceClose(One)
  /\ live' = Without(live, One) /\ Looked
  /\ UNCHANGED <<every, session, minute, closeAt, step, row, age, asked, sessionMarks, openEquity, breaker, worst>>

Flattened ==
  /\ step \in {"flatten", "last"} /\ queue = {}
  /\ IF step = "last" THEN step' = "closed" /\ UNCHANGED queue ELSE step' = "exits" /\ queue' = DOMAIN pos
  /\ UNCHANGED <<brokerVars, every, session, minute, closeAt, row, age, asked, live, records, sessionMarks, openEquity, breaker, worst>>

Due(i) == IntradayExit(pos[i], pos[i].trade.rules, live[i].entered, minute)

\* Mutant: a position whose close is rejected is forgotten all the same.
Forgotten(i) == Without(live, i)

\* A rejected close keeps the state: the exit is tried again next minute.
Kept(i) == live

\* _process_exits, one position.
ExitMinute ==
  /\ step = "exits" /\ queue # {}
  /\ \/ /\ Due(One) /\ CanClose(One)
        /\ CloseFilled(One) /\ live' = Without(live, One)
     \/ Due(One) /\ ~CanClose(One) /\ live' = Kept(One) /\ UNCHANGED <<brokerVars, records>>
     \/ ~Due(One) /\ UNCHANGED <<brokerVars, records, live>>
  /\ Looked
  /\ UNCHANGED <<every, session, minute, closeAt, step, row, age, asked, sessionMarks, openEquity, breaker, worst>>

NextMinute == minute' = minute + every /\ step' = "market"

\* Mutant: entries are looked at in every minute of the session.
ExitsOverAlways ==
  /\ step = "exits" /\ queue = {}
  /\ step' = "entries" /\ asked' = 0 /\ UNCHANGED minute
  /\ UNCHANGED <<brokerVars, every, session, closeAt, row, age, queue, live, records, sessionMarks, openEquity, breaker, worst>>

\* Entries only before the flatten.
ExitsOver ==
  /\ step = "exits" /\ queue = {}
  /\ IF minute < FlattenAt THEN step' = "entries" /\ asked' = 0 /\ UNCHANGED minute ELSE NextMinute /\ UNCHANGED asked
  /\ UNCHANGED <<brokerVars, every, session, closeAt, row, age, queue, live, records, sessionMarks, openEquity, breaker, worst>>
-----------------------------------------------------------------------------
(* _enter. *)

HeldBy(t) == \E i \in DOMAIN live : live[i].strategy = t.engine /\ live[i].symbol = t.sym

\* The order of an approved proposal, filled and marked.
Entered(k, units, s) ==
  LET t == Proposals[k]
      f == FillMid(k) + s
      mark == IF HasMark(k, row[k], age[k]) THEN row[k].mid ELSE f
  IN  /\ units > 0 /\ Fillable(k) /\ Funded(t, f, units)
      /\ Open(t, f, mark, units, session)
      /\ live' = With(live, seq + 1, [strategy |-> t.engine, symbol |-> t.sym, entered |-> minute])

\* One proposal: the strategy may decline; one position per (strategy, symbol); the
\* breaker, the risk gate and the broker may refuse.
Consider ==
  /\ step = "entries" /\ asked < Len(Proposals)
  /\ asked' = asked + 1
  /\ LET k == asked + 1
         t == Proposals[k]
         units == SizeEntry(t, FixedFractional(Equity, t.riskPct, t), Account, pos, sessionMarks, session)
     IN  \/ UNCHANGED <<brokerVars, live>>
         \/ ~HeldBy(t) /\ ~breaker /\ \E s \in Slips : Entered(k, units, s)
  /\ UNCHANGED <<every, session, minute, closeAt, step, row, age, queue, records, sessionMarks, openEquity, breaker, worst>>

EntriesOver ==
  /\ step = "entries" /\ asked = Len(Proposals)
  /\ NextMinute
  /\ UNCHANGED <<brokerVars, every, session, closeAt, row, age, queue, asked, live, records, sessionMarks, openEquity, breaker, worst>>
-----------------------------------------------------------------------------
\* Mutant: a session whose loop ends before the flatten is not flattened.
LoopOverOpen ==
  /\ step = "market" /\ minute > closeAt
  /\ step' = "closed"
  /\ UNCHANGED <<brokerVars, every, session, minute, closeAt, row, age, queue, asked, live, records, sessionMarks, openEquity, breaker, worst>>

\* After the loop: the market as of the flatten, for what the loop's pace has missed.
LoopOver ==
  /\ step = "market" /\ minute > closeAt
  /\ IF DOMAIN pos = {} THEN UNCHANGED <<brokerVars, row, age>>
     ELSE \E now \in Readings(Max({1, FlattenAt - (minute - every)})) : UpdateMarket(now)
  /\ step' = "last" /\ queue' = DOMAIN pos
  /\ UNCHANGED <<every, session, minute, closeAt, asked, live, records, sessionMarks, openEquity, breaker, worst>>

\* equity_curve, record_mark and the assertion that nothing is left.
CloseSession ==
  /\ step = "closed" /\ DOMAIN pos = {}
  /\ step' = (IF session = MaxIntraday THEN "done" ELSE "idle")
  /\ sessionMarks' = Append(sessionMarks, Equity)
  /\ minute' = 0 /\ closeAt' = 0 /\ row' = <<>> /\ age' = <<>> /\ asked' = 0
  /\ openEquity' = 0 /\ breaker' = FALSE /\ worst' = 0
  /\ UNCHANGED <<brokerVars, every, session, queue, live, records>>

IntradayDone == step = "done" /\ UNCHANGED <<brokerVars, minuteVars>>

IntradayNext ==
  \/ OpenSession \/ ReadMinute \/ Flatten \/ Flattened \/ ExitMinute \/ ExitsOver
  \/ Consider \/ EntriesOver \/ LoopOver \/ CloseSession \/ IntradayDone
-----------------------------------------------------------------------------
\* "no overnight exposure: everything force-flattens at eod_flatten and the loop asserts
\* flat before ending the session", whatever the pace, the real close and the quotes: a
\* minute at or past the flatten leaves nothing open, nor does the session.
FlatByClose ==
  /\ step = "closed" => DOMAIN pos = {}
  /\ step = "market" /\ minute > 1 /\ minute - every >= FlattenAt => DOMAIN pos = {}

\* "Popping on a rejected close created a zombie ... and let a SECOND concurrent position
\* open", "records must reconcile with cash": over refused closes and synthetic fills the
\* engine's mirror is the broker's book, no strategy holds a symbol twice, and cash is the
\* starting capital, the recorded profits and what is open cost.
MinuteBooks ==
  step # "off" =>
    /\ DOMAIN live = DOMAIN pos
    /\ \A i, j \in DOMAIN live : live[i].strategy = live[j].strategy /\ live[i].symbol = live[j].symbol => i = j
    /\ cash = StartCash + SumFunction([r \in records |-> r.pnl])
              - SumFunction([i \in DOMAIN pos |-> pos[i].entry * pos[i].qty + Fee(DOMAIN pos[i].trade.legs, pos[i].qty)])

\* What a step fills is real: it had a market in its minute, or it is a mandatory close,
\* booked no better than the mark.
RealFill ==
  step # "off" =>
    /\ \A i \in DOMAIN pos' \ DOMAIN pos :
         LET k == pos'[i].trade.k
         IN  IF IsShares(k) THEN age[k] = 0 ELSE age[k] <= Staleness /\ row[k].mid # NoMid
    /\ \A i \in DOMAIN pos \ DOMAIN pos' :
         LET k == pos[i].trade.k
             quoted1 == row[k].buyer /\ (IF IsShares(k) THEN age[k] = 0 ELSE age[k] <= Staleness /\ row[k].mid # NoMid)
             booked == CHOOSE r \in records' : r.id = i
         IN  \/ quoted1
             \/ /\ minute >= FlattenAt \/ minute > closeAt
                /\ booked.pnl + 2 * Fee(DOMAIN pos[i].trade.legs, pos[i].qty) <= (pos[i].value - pos[i].entry) * pos[i].qty

\* "fills only from the current bar", "the haircut must be ADVERSE for BOTH signs": what
\* is opened, or closed other than by the mandatory flatten, had a market in that very
\* minute, and no close without one books a better price than the mark.
FillsAreReal == [][RealFill]_<<brokerVars, minuteVars>>

\* What a step enters comes before the flatten, in a session that has not seen the halt.
EnteredInTime == step # "off" /\ seq' > seq => ~Lost(worst, openEquity, DailyHaltPct) /\ minute < FlattenAt

\* "an intra-session breaker ... blocks new entries after a session drawdown breach": once
\* the equity has been at or below the halt in a session nothing is entered in it, also
\* after it has recovered.
BreakerHolds == [][EnteredInTime]_<<brokerVars, minuteVars>>
=============================================================================
