--------------------------- MODULE DailyBacktest ---------------------------
(***************************************************************************)
(* Backtester.run (backtest/backtester.py): sessions of a market update, a *)
(* sweep of what settled, exits, the hedge sleeve, catalyst entries and    *)
(* scheduled entries, over the simulated broker, the risk manager and the  *)
(* exit rules.  The loop is sequential; what the market, the quotes and    *)
(* the strategies do is chosen at each step.                               *)
(*                                                                         *)
(* open_state is the backtester's own mirror of the broker's positions,    *)
(* kept up to date from fills and from the broker's settlement telemetry;  *)
(* the trade records every report is computed from are made out of it.     *)
(***************************************************************************)
EXTENDS SimBroker, RiskManager, ExitRules, Sequences, Functions

CONSTANTS
  Bets,          \* proposals of catalyst strategies, in the order of the loops
  Scheduled,     \* proposals of SCHEDULED and DAILY strategies, in order
  Puts,          \* what the hedge sleeve buys: at most one trade
  MaxSessions

Bet(t) == <<t.engine, t.ref>>
Syms == {t.sym : t \in Range(Bets) \cup Range(Scheduled) \cup Puts}

ASSUME BacktestAssumption ==
  /\ MaxSessions \in Nat \ {0} /\ Cardinality(Puts) <= 1
  /\ Bets \in Seq(Range(Bets)) /\ Scheduled \in Seq(Range(Scheduled))
  /\ \A t \in Puts : t.engine = Hedge
  /\ \A t \in Range(Scheduled) \cup Puts : \A u \in Range(Bets) : Bet(t) # Bet(u)
  /\ \A t \in Range(Bets) \cup Range(Scheduled) \cup Puts :
       /\ {t.cost, t.maxLoss, t.riskPct} \subseteq Int
       /\ DOMAIN t.legs # {} /\ IsFiniteSet(DOMAIN t.legs)
       /\ \A S \in (SUBSET DOMAIN t.legs) \ {{}} : (t.marks[S] \cup t.pays[S]) \subseteq Int
       /\ t.rules.tp1Pct \in Nat \cup {Off}

VARIABLES
  today, phase,
  todo,        \* positions the current loop has still to look at
  offers,      \* proposals the current loop has still to look at
  state,       \* open_state: position id -> _OpenTradeState
  trades,      \* the trade records
  equityMarks, \* RiskManager._marks
  already, taken,   \* the entry loops' sets of bets and of symbols
  quoted,      \* positions all of whose legs had a quote in this session
  stuck        \* positions whose closing order was rejected in this session

loopVars == <<today, phase, todo, offers, state, trades, equityMarks, already, taken, quoted, stuck>>
dailyVars == <<brokerVars, loopVars>>

Fresh ==
  /\ today = 0 /\ todo = {} /\ offers = <<>>
  /\ state = [i \in {} |-> 0] /\ trades = {} /\ equityMarks = <<>>
  /\ already = {} /\ taken = {} /\ quoted = {} /\ stuck = {}

DailyInit == BrokerInit /\ Fresh /\ phase = "idle"

\* The loop is not what runs.
DailyRest == Fresh /\ phase = "off"

-----------------------------------------------------------------------------
(* Records. *)

\* _to_record: what a record says was earned.
Pnl(st) == IF st.closed > 0 THEN st.exitCash - st.entry * st.closed - st.fees ELSE -st.fees

Record(i, st) == [id |-> i, bet |-> st.bet, pnl |-> Pnl(st)]

\* Mutant: the settled legs are booked for the units entered, not for the rest.
FoldedAll(i, st) ==
  LET legs == {x \in partials : x[1] = i}
  IN [st EXCEPT !.exitCash = @ + SumFunction([x \in legs |-> x[2] * st.maxQty])]

\* Cash of legs that settled while the structure lives on.
Folded(i, st) ==
  LET legs == {x \in partials : x[1] = i}
  IN [st EXCEPT !.exitCash = @ + SumFunction([x \in legs |-> x[2] * (st.maxQty - st.closed)])]

\* Mutant: the settlement is booked for every unit that was ever open.
ExpireAll(i, st) ==
  IF i \in DOMAIN settled
  THEN [st EXCEPT !.exitCash = @ + settled[i] * st.maxQty, !.closed = st.maxQty]
  ELSE st

\* A position the broker has settled is closed at the telemetry's value.
Expire(i, st) ==
  IF i \in DOMAIN settled
  THEN [st EXCEPT !.exitCash = @ + settled[i] * (st.maxQty - st.closed), !.closed = st.maxQty]
  ELSE st

-----------------------------------------------------------------------------
(* update_market, then _sweep_settled. *)

BeginSession ==
  /\ phase = "idle" /\ today < MaxSessions
  /\ today' = today + 1 /\ phase' = "market"
  /\ chains' \in SUBSET Syms
  /\ todo' = DOMAIN pos /\ quoted' = {} /\ stuck' = {}
  /\ UNCHANGED <<cash, pos, reserved, settled, partials, seq>>
  /\ UNCHANGED <<offers, state, trades, equityMarks, already, taken>>

\* Positions do not depend on each other here, so one step marks and settles
\* one of them; an expired leg has no quote, so nothing with one is marked.
Next1 == Min(todo)

Refresh ==
  /\ phase = "market" /\ todo # {}
  /\ LET i == Next1
         p == pos[i]
         gone == Expired(p, today)
     IN \/ /\ gone = {} /\ p.trade.sym \in chains
           /\ \E v \in p.trade.marks[DOMAIN p.legs] : Mark(i, v)
           /\ quoted' = quoted \cup {i}
        \/ /\ gone = {}                                    \* stale mark
           /\ UNCHANGED <<brokerVars, quoted>>
        \/ /\ gone # {} /\ gone = DOMAIN p.legs
           /\ \E v \in p.trade.pays[gone] \cup {p.value} : SettleWhole(i, v)
           /\ UNCHANGED quoted
        \/ /\ gone # {} /\ gone # DOMAIN p.legs
           /\ \E v \in p.trade.pays[gone] :
                \/ /\ p.trade.sym \in chains
                   /\ \E w \in p.trade.marks[DOMAIN p.legs \ gone] : SettlePart(i, v, gone, w)
                   /\ quoted' = quoted \cup {i}
                \/ SettlePart(i, v, gone, p.value) /\ UNCHANGED quoted
        \/ /\ gone # {} /\ gone # DOMAIN p.legs            \* no valid spot: retry
           /\ UNCHANGED <<brokerVars, quoted>>
  /\ todo' = todo \ {Next1}
  /\ UNCHANGED <<today, phase, offers, state, trades, equityMarks, already, taken, stuck>>

Sweep ==
  /\ phase = "market" /\ todo = {}
  /\ LET folded == [i \in DOMAIN state |-> Folded(i, state[i])]
         gone == DOMAIN state \ DOMAIN pos
     IN /\ state' = [i \in DOMAIN state \ gone |-> folded[i]]
        /\ trades' = trades \cup {Record(i, Expire(i, folded[i])) : i \in gone}
  /\ partials' = {}
  /\ phase' = "exits" /\ todo' = DOMAIN pos
  /\ UNCHANGED <<cash, pos, reserved, settled, seq, chains>>
  /\ UNCHANGED <<today, offers, equityMarks, already, taken, quoted, stuck>>

-----------------------------------------------------------------------------
(* _process_exits. *)

Action(p) == EvaluateExits(p, p.trade.rules, today)
UnitsToClose(p) == ScaleOut(p.qty, Action(p).pct)

KeepPosition ==
  /\ phase = "exits" /\ todo # {}
  /\ UnitsToClose(pos[Next1]) = 0
  /\ todo' = todo \ {Next1}
  /\ UNCHANGED <<brokerVars, today, phase, offers, state, trades, equityMarks, already, taken,
                 quoted, stuck>>

\* A leg that cannot be bought or sold back; nobody buys a worthless option.
ExitRejected ==
  /\ phase = "exits" /\ todo # {}
  /\ UnitsToClose(pos[Next1]) > 0
  /\ stuck' = stuck \cup {Next1}
  /\ todo' = todo \ {Next1}
  /\ UNCHANGED <<brokerVars, today, phase, offers, state, trades, equityMarks, already, taken, quoted>>

Sellable(i) == i \in quoted /\ (Cardinality(DOMAIN pos[i].legs) = 1 => pos[i].value > 0)
ExitPrice(p, s) == IF Cardinality(DOMAIN p.legs) = 1 THEN Max({0, p.value - s}) ELSE p.value - s

\* Mutant: a position is taken out of open_state by its first exit.
BookedAtOnce(i, st) ==
  /\ trades' = trades \cup {Record(i, st)}
  /\ state' = Without(state, i)

\* The record is made when the last unit is closed.
Booked(i, st) ==
  IF st.closed >= st.maxQty
  THEN trades' = trades \cup {Record(i, st)} /\ state' = Without(state, i)
  ELSE trades' = trades /\ state' = [state EXCEPT ![i] = st]

ExitFilled ==
  /\ phase = "exits" /\ todo # {}
  /\ LET i == Next1
         p == pos[i]
         n == UnitsToClose(p)
     IN /\ n > 0 /\ Sellable(i)
        /\ \E s \in Slips :
             LET c == ExitPrice(p, s)
             IN /\ Close(i, n, c, Action(p).reason = "take_profit_1")
                /\ Booked(i, [state[i] EXCEPT !.fees = @ + Fee(DOMAIN p.legs, n),
                                              !.exitCash = @ + c * n, !.closed = @ + n])
  /\ todo' = todo \ {Next1}
  /\ UNCHANGED <<today, phase, offers, equityMarks, already, taken, quoted, stuck>>

ExitsDone ==
  /\ phase = "exits" /\ todo = {}
  /\ phase' = "hedge" /\ quoted' = {}
  /\ UNCHANGED <<brokerVars, today, todo, offers, state, trades, equityMarks, already, taken, stuck>>

-----------------------------------------------------------------------------
(* _enter, shared by the hedge sleeve and both entry loops. *)

\* The gate's answer to proposal t.
Allowed(t, base) == SizeEntry(t, base, Account, pos, equityMarks, today)

\* Sized to zero, or refused by the broker: nothing happens.
NotEntered == UNCHANGED <<brokerVars, state>>

Enter(t, base) ==
  \/ NotEntered
  \/ \E s \in Slips :
       LET units == Allowed(t, base)
           f == t.cost + s
       IN /\ units > 0 /\ t.sym \in chains /\ Funded(t, f, units)
          /\ Open(t, f, t.cost, units, today)
          /\ state' = With(state, seq + 1,
               [bet |-> Bet(t), sym |-> t.sym, entry |-> f, maxQty |-> units,
                fees |-> Fee(DOMAIN t.legs, units), exitCash |-> 0, closed |-> 0])

DriverBase(t) == FixedFractional(Equity, t.riskPct, t)

Open1 == {state[i] : i \in DOMAIN state}

\* Mutant: a bet that has already closed may be entered again.
AlreadyOpen == {st.bet : st \in Open1}

\* Bets that are open or were.
Already == {st.bet : st \in Open1} \cup {r.bet : r \in trades}

\* _process_hedge; then the catalyst loop's sets are computed.
HedgeStep ==
  /\ phase = "hedge"
  /\ \/ NotEntered
     \/ \E t \in Puts :
          /\ WantsCheck(pos, today) /\ t.sym \in chains /\ HedgeWanted(Equity, pos)
          /\ Enter(t, HedgeBase(Equity, pos, t))
  /\ phase' = "plan"
  /\ UNCHANGED <<today, todo, offers, trades, equityMarks, already, taken, quoted, stuck>>

\* The opportunities of this session whose underlying has a chain.
InPlay(t) == today \in t.days /\ t.sym \in chains

\* Mutant: the symbols that are held already do not count.
BeginEntriesFresh ==
  /\ phase = "plan"
  /\ phase' = "entries"
  /\ offers' = Bets
  /\ already' = Already
  /\ taken' = {}
  /\ UNCHANGED <<brokerVars, today, todo, state, trades, equityMarks, quoted, stuck>>

BeginEntries ==
  /\ phase = "plan"
  /\ phase' = "entries"
  /\ offers' = Bets
  /\ already' = Already
  /\ taken' = {<<st.bet[1], st.sym>> : st \in Open1}
  /\ UNCHANGED <<brokerVars, today, todo, state, trades, equityMarks, quoted, stuck>>

\* _process_entries, one bet of its loops: the screener or plan() may decline; a proposal that the
\* gate or the broker refuses still uses up the bet and the symbol today.
EnterBet ==
  /\ phase = "entries" /\ offers # <<>>
  /\ offers' = Tail(offers)
  /\ \/ NotEntered /\ UNCHANGED <<already, taken>>
     \/ LET t == Head(offers) IN
        /\ InPlay(t) /\ Bet(t) \notin already /\ <<t.engine, t.sym>> \notin taken
        /\ Enter(t, DriverBase(t))
        /\ already' = already \cup {Bet(t)} /\ taken' = taken \cup {<<t.engine, t.sym>>}
  /\ UNCHANGED <<today, phase, todo, trades, equityMarks, quoted, stuck>>

BeginScheduled ==
  /\ phase = "entries" /\ offers = <<>>
  /\ phase' = "scheduled"
  /\ offers' = Scheduled
  /\ already' = {st.bet : st \in Open1} /\ taken' = {}
  /\ UNCHANGED <<brokerVars, today, todo, state, trades, equityMarks, quoted, stuck>>

\* _process_scheduled_entries: only what is open now keeps a bet from being
\* entered.
EnterScheduled ==
  /\ phase = "scheduled" /\ offers # <<>>
  /\ offers' = Tail(offers)
  /\ \/ NotEntered /\ UNCHANGED already
     \/ LET t == Head(offers) IN
        /\ InPlay(t) /\ Bet(t) \notin already
        /\ Enter(t, DriverBase(t))
        /\ already' = already \cup {Bet(t)}
  /\ UNCHANGED <<today, phase, todo, trades, equityMarks, taken, quoted, stuck>>

-----------------------------------------------------------------------------

\* equity_curve and record_mark.
EndSession ==
  /\ phase = "scheduled" /\ offers = <<>>
  /\ phase' = "idle"
  /\ equityMarks' = Append(equityMarks, Equity)
  /\ already' = {}
  /\ UNCHANGED <<brokerVars, today, todo, offers, state, trades, taken, quoted, stuck>>

\* _finalize_open: what is open is marked out, with a commission, in the
\* records only.
Finalize ==
  /\ phase = "idle" /\ today = MaxSessions
  /\ phase' = "done"
  /\ LET out(i) == [state[i] EXCEPT !.fees = @ + Fee(DOMAIN pos[i].legs, pos[i].qty),
                                    !.exitCash = @ + pos[i].value * pos[i].qty,
                                    !.closed = @ + pos[i].qty]
         open == DOMAIN pos \cap DOMAIN state
     IN /\ trades' = trades \cup {Record(i, out(i)) : i \in open}
        /\ state' = [i \in DOMAIN state \ open |-> state[i]]
  /\ UNCHANGED <<brokerVars, today, todo, offers, equityMarks, already, taken, quoted, stuck>>

Finished == phase = "done" /\ UNCHANGED dailyVars

DailyNext ==
  \/ BeginSession \/ Refresh \/ Sweep
  \/ KeepPosition \/ ExitRejected \/ ExitFilled \/ ExitsDone
  \/ HedgeStep \/ BeginEntries \/ BeginScheduled
  \/ EnterBet \/ EnterScheduled \/ EndSession \/ Finalize \/ Finished

-----------------------------------------------------------------------------

\* Types of the ledger, of the mirror and of the loop.
BacktestTypeOK ==
  /\ cash \in Int /\ seq \in Nat /\ chains \subseteq Syms
  /\ DOMAIN pos \subseteq 1..seq /\ DOMAIN state \subseteq 1..seq
  /\ DOMAIN reserved \subseteq 1..seq /\ DOMAIN settled \subseteq 1..seq
  /\ \A i \in DOMAIN pos : pos[i].qty \in Nat \ {0} /\ pos[i].value \in Int
                           /\ pos[i].legs # <<>> /\ pos[i].high >= pos[i].value
  /\ \A i \in DOMAIN state : state[i].closed \in 0..state[i].maxQty
  /\ today \in 0..MaxSessions /\ Len(equityMarks) \in {today, today - 1}
  /\ todo \subseteq DOMAIN pos /\ quoted \subseteq 1..seq /\ stuck \subseteq 1..seq

\* Outside the market update the mirror is the broker: the same positions, and
\* what a position still holds is what its record has not closed yet.
Swept == phase \notin {"market", "done", "off"}

MirrorExact ==
  Swept => /\ DOMAIN state = DOMAIN pos
           /\ \A i \in DOMAIN pos : pos[i].qty = state[i].maxQty - state[i].closed

\* The broker's own realized_pnl and the backtester's record of an open
\* position agree over scale-outs and settled legs.
RecordsAgree ==
  Swept => \A i \in DOMAIN pos :
             pos[i].realized = state[i].exitCash - state[i].entry * state[i].closed

\* Every dollar is accounted for: cash is the starting capital, the profits on
\* record and what open positions have cost and returned so far; at the end the
\* records explain the final equity, less the commissions of marking out.
Booking(st) == st.exitCash - st.entry * st.maxQty - st.fees

Reconciled ==
  LET booked == SumFunction([r \in trades |-> r.pnl])
      outs == SumFunction([i \in DOMAIN pos |-> Fee(DOMAIN pos[i].legs, pos[i].qty)])
  IN /\ Swept => cash = StartCash + booked + SumFunction([i \in DOMAIN state |-> Booking(state[i])])
     /\ phase = "done" => Equity = StartCash + booked + outs

\* Collateral follows the units it was posted for, over scale-outs, closes and
\* settlements: none is left behind and none is released early.
ReserveFollows ==
  \A i \in DOMAIN reserved :
    i \in DOMAIN pos /\ reserved[i] = pos[i].trade.maxLoss * pos[i].qty

\* "One entry per (engine, catalyst): don't re-enter the same bet daily, and
\* never re-enter a bet that already closed."
CatalystBets == {Bet(t) : t \in Range(Bets)}

OneEntryPerBet ==
  \A b \in CatalystBets :
    Cardinality({i \in DOMAIN state : state[i].bet = b})
      + Cardinality({r \in trades : r.bet = b}) <= 1

\* "two refs must not double a position": catalyst strategies hold one
\* position per symbol.
OnePerSymbol ==
  \A i, j \in DOMAIN state :
    /\ state[i].bet \in CatalystBets /\ state[j].bet \in CatalystBets
    /\ state[i].bet[1] = state[j].bet[1] /\ state[i].sym = state[j].sym
    => i = j

\* "never carry into assignment/pin territory": a position whose expiry buffer
\* or time stop has come does not outlive the session, unless its closing order
\* was rejected or it was entered in this very session.
NoneOverdue ==
  phase = "idle" =>
    \A i \in DOMAIN pos : Mandatory(pos[i], pos[i].trade.rules, today)
                            => i \in stuck \/ pos[i].opened = today

\* An entry leaves the cash above its floor, the premium at risk within the
\* heat cap and the hedge sleeve within its budget, all measured on the equity
\* the gate saw, fills and commissions included.
CapsKept ==
  [][seq' > seq =>
       /\ cash' < cash => 100 * cash' >= FloorPct * Equity
       /\ 100 * Deployed(pos', DOMAIN pos') <= HeatPct * Equity
       /\ Hedges(pos') # Hedges(pos)
            => 100 * Deployed(pos', Hedges(pos')) <= HedgePct * Equity]_dailyVars
=============================================================================
