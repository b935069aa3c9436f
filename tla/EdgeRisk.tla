------------------------------ MODULE EdgeRisk ------------------------------
(***************************************************************************)
(* The position-sizing rules of src/edge/risk/sizing.py and the override   *)
(* rule of src/edge/risk/budget.py, as operators.  Fractions are exact: a  *)
(* Kelly fraction or a risk is a pair [n, d] of integers with d > 0.       *)
(***************************************************************************)
EXTENDS Integers, Sequences, FiniteSets, SequencesExt

\* n/d <= m/e, both denominators positive.
Leq(x, y) == x.n * y.d <= y.n * x.d
Frac(n, d) == [n |-> n, d |-> d]
Times(x, y) == Frac(x.n * y.n, x.d * y.d)
SumFracs(seq) == FoldSeq(LAMBDA x, y : Frac(x.n * y.d + y.n * x.d, x.d * y.d), Frac(0, 1), seq)

\* kelly_fraction: p - (1-p)/b for a win rate p = win/100 and a payoff ratio
\* b = payoff/100; zero without a measured edge, never negative.
KellyFraction(expectancy, win, payoff) ==
    LET n == win * payoff - (100 - win) * 100
    IN  IF expectancy <= 0 \/ n <= 0 THEN Frac(0, 1) ELSE Frac(n, 100 * payoff)

----------------------------------------------------------------------------
(* correlation_groups: a union-find over the pairs, in column order        *)

\* find: the root a symbol's parents lead to. Path halving moves no root.
Root(parent, s) ==
    FoldLeft(LAMBDA x, i : parent[x], s, [i \in 1..Cardinality(DOMAIN parent) |-> i])

\* One pair: a link joins the root of the first to the root of the second.
Union(parent, a, b, links) ==
    IF {a, b} \in links THEN [parent EXCEPT ![Root(parent, a)] = Root(parent, b)] ELSE parent

\* The pairs (a, b) with a before b, a-major, as the two loops visit them.
PairsInOrder(symbols) ==
    LET n == Len(symbols)
    IN  FlattenSeq([i \in 1..n |-> [j \in 1..(n - i) |-> <<symbols[i], symbols[i + j]>>]])

CorrelationGroups(symbols, links) ==
    LET singles == [s \in ToSet(symbols) |-> s]
        parent == FoldLeft(LAMBDA p, ab : Union(p, ab[1], ab[2], links),
                           singles, PairsInOrder(symbols))
    IN  {{t \in ToSet(symbols) : Root(parent, t) = Root(parent, s)} : s \in ToSet(symbols)}

----------------------------------------------------------------------------
(* size_position and size_positions; risks are percents of equity          *)

\* size_position: fractional Kelly under the hard per-trade cap.
SizePosition(kelly, mult, cap) ==
    LET uncapped == Times(kelly, Frac(mult.n * 100, mult.d))
    IN  IF Leq(uncapped, cap) THEN uncapped ELSE cap

\* size_positions: a group whose combined risk passes the cap is scaled so that
\* it lands exactly on the cap.
SizePositions(symbols, kelly, mult, cap, links) ==
    LET Uncapped(s) == Times(kelly[s], Frac(mult.n * 100, mult.d))
        GroupOf(s) == CHOOSE g \in CorrelationGroups(symbols, links) : s \in g
        Total(g) == SumFracs([i \in 1..Cardinality(g) |-> Uncapped(SetToSeq(g)[i])])
    IN  [s \in ToSet(symbols) |->
          LET total == Total(GroupOf(s))
          IN  IF Leq(total, cap) THEN Uncapped(s)
              ELSE Times(Uncapped(s), Frac(cap.n * total.d, cap.d * total.n))]

----------------------------------------------------------------------------
(* DailyLossHalt                                                           *)

\* daily_loss_halt, on the loss as a share of the day's starting equity.
DailyLossHalt(dayStart, equity, haltPct) == 100 * (equity - dayStart) <= -(haltPct * dayStart)

\* DailyLossHalt.observe: the session that trips is remembered, and no later
\* recovery within it clears the memory.
ObserveHalt(halted, session, tripped) == IF tripped THEN session ELSE halted
EntriesAllowed(halted, session) == session # halted

\* budget.requires_kelly_override: a target vol over the measured Sharpe beyond
\* full Kelly; a Sharpe that is not positive makes the multiple infinite.
RequiresKellyOverride(targetVol, sharpe) == sharpe <= 0 \/ targetVol > sharpe
=============================================================================
