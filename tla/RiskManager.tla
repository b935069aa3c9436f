---------------------------- MODULE RiskManager ----------------------------
(***************************************************************************)
(* RiskManager.size_entry (risk/manager.py) with fixed_fractional_units    *)
(* (risk/sizing.py), and the hedge sleeve's target (risk/hedge.py).        *)
(* Fractions of equity are percentages; an account is [cash, equity]; book *)
(* is a function from position ids to positions p with a trade (engine,    *)
(* sym, dir, maxLoss) and a quantity.                                      *)
(***************************************************************************)
EXTENDS Integers, FiniteSets, FiniteSetsExt, Functions

CONSTANTS
  FloorPct,       \* cash_floor_fraction
  HeatPct,        \* max_deployed
  HedgePct,       \* hedge_fraction
  BufferPct,      \* sizing_cost_buffer
  MinAddPct,      \* hedge.min_add_fraction
  DailyHaltPct,   \* -daily_loss_halt
  WeeklyHaltPct,  \* -weekly_loss_halt
  MaxCorrelated,  \* max_correlated_positions
  Correlated,     \* pairs of different underlyings above correlation_threshold
  DaysPerWeek     \* sessions in a week

ASSUME RiskAssumption ==
  /\ FloorPct \in 0..99 /\ HeatPct \in 1..100 /\ HedgePct \in 0..99
  /\ BufferPct \in 0..50 /\ MinAddPct \in 0..100
  /\ DailyHaltPct \in 1..100 /\ WeeklyHaltPct \in 1..100
  /\ MaxCorrelated \in Nat \ {0} /\ DaysPerWeek \in Nat \ {0}

Hedge == "hedge"    \* HEDGE_ENGINE_TAG

\* premium_at_risk, and its sum over some of the positions.
AtRisk(p) == p.trade.maxLoss * p.qty
Deployed(book, S) == SumFunction([i \in S |-> AtRisk(book[i])])
Hedges(book) == {i \in DOMAIN book : book[i].trade.engine = Hedge}

\* _breaker_state: marks[d] is the equity at the end of session d.
Week(d) == (d - 1) \div DaysPerWeek
Lost(equity, ref, pct) == ref > 0 /\ 100 * (ref - equity) >= pct * ref
BreakerTripped(marks, today, equity) ==
  \/ today > 1 /\ Lost(equity, marks[today - 1], DailyHaltPct)
  \/ LET before == {d \in 1..(today - 1) : Week(d) < Week(today)}
     IN before # {} /\ Lost(equity, marks[Max(before)], WeeklyHaltPct)

\* Hundredths of a dollar of risk, and of cash, per unit, with the buffer.
UnitRisk(t) == t.maxLoss * (100 + BufferPct)
UnitCash(t) == Max({t.cost, t.maxLoss, 0}) * (100 + BufferPct)

\* fixed_fractional_units on the buffered risk.
FixedFractional(equity, pct, t) ==
  IF equity <= 0 \/ t.maxLoss <= 0 THEN 0 ELSE (equity * pct) \div UnitRisk(t)

SameGroup(a, b) == a = b \/ <<a, b>> \in Correlated \/ <<b, a>> \in Correlated
CorrelatedCount(sym, book) ==
  Cardinality({i \in DOMAIN book \ Hedges(book) : SameGroup(sym, book[i].trade.sym)})

\* Headrooms in hundredths of a dollar.
CashHeadroom(acct) == 100 * acct.cash - FloorPct * acct.equity

\* Mutant: the heat cap looks at what this engine has deployed only.
HeatHeadroomOwn(acct, book, t) ==
  HeatPct * acct.equity
    - 100 * Deployed(book, {i \in DOMAIN book : book[i].trade.engine = t.engine})

HeatHeadroom(acct, book, t) == HeatPct * acct.equity - 100 * Deployed(book, DOMAIN book)

HedgeHeadroom(acct, book) == HedgePct * acct.equity - 100 * Deployed(book, Hedges(book))

\* size_entry: the units allowed of proposal t, whose base size is base.
SizeEntry(t, base, acct, book, marks, today) ==
  LET fits == {base, CashHeadroom(acct) \div UnitCash(t),
               HeatHeadroom(acct, book, t) \div UnitRisk(t)}
              \cup IF t.engine = Hedge THEN {HedgeHeadroom(acct, book) \div UnitRisk(t)} ELSE {}
      refused == \/ BreakerTripped(marks, today, acct.equity)
                 \/ t.maxLoss <= 0
                 \/ t.engine # Hedge /\ CorrelatedCount(t.sym, book) >= MaxCorrelated
  IN IF refused THEN 0 ELSE Max({0, Min(fits)})

\* HedgeManager: the drivers' net long premium decides how much of the sleeve's
\* budget is wanted; amounts below are in 1/(100 * HeatPct) of a dollar.
NetLong(book) ==
  LET drivers == DOMAIN book \ Hedges(book)
  IN Deployed(book, {i \in drivers : book[i].trade.dir = "long"})
     - Deployed(book, {i \in drivers : book[i].trade.dir = "short"})

WantsCheck(book, today) ==
  \/ today % DaysPerWeek = 1 % DaysPerWeek
  \/ Hedges(book) = {} /\ NetLong(book) > 0

HedgeTarget(equity, book) == HedgePct * Min({100 * NetLong(book), HeatPct * equity})
HedgeGap(equity, book) ==
  HedgeTarget(equity, book) - 100 * HeatPct * Deployed(book, Hedges(book))

HedgeWanted(equity, book) ==
  /\ NetLong(book) > 0 /\ equity > 0
  /\ HedgeTarget(equity, book) > 0
  /\ 100 * HedgeGap(equity, book) >= MinAddPct * HedgeTarget(equity, book)

\* The proposal is sized to the gap, not to an engine's risk fraction.
HedgeBase(equity, book, t) == HedgeGap(equity, book) \div (HeatPct * UnitRisk(t))
=============================================================================
