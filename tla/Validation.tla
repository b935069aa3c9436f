------------------------------- MODULE Validation -------------------------------
(***************************************************************************)
(* What edge/validation computes of returns and labels.  stats.py: the     *)
(* CSCV probability of backtest overfitting and the circular block         *)
(* bootstrap; a Sharpe ratio is the pair of sums it is computed from,      *)
(* compared by cross-multiplying.  walkforward.py: the purged, embargoed   *)
(* K-fold splitter, a generator that yields one fold at a time, and the    *)
(* rolling fit/test windows; a label is the closed interval [t0, t1] of    *)
(* its sample.  edge/risk/budget.py: the report of a volatility target     *)
(* (which Kelly multiple it implies, whether the runner must demand an     *)
(* override) and its ruin statistics over bootstrap paths of the levered   *)
(* sample.  Returns are integers, those of a budget in units of 1/One.     *)
(***************************************************************************)
EXTENDS Integers, Sequences, FiniteSets, FiniteSetsExt, Functions

CONSTANTS Matrices,    \* return matrices: sequences of rows, one return per strategy
          BlockCounts, \* choices of n_blocks
          Lengths, BlockLens \* sample and block lengths of the bootstrap

VARIABLES matrix, n_blocks, pbo,   \* a pbo_cscv call and its answer
          t, block_len             \* a block_bootstrap call
statsVars == <<matrix, n_blocks, pbo, t, block_len>>

SumOver(S, f(_)) == MapThenSumSet(f, S)
\* sums and sums of squares of strategy m over a set of rows.
Sums(x, rows, m) == [s |-> SumOver(rows, LAMBDA r : x[r][m]), q |-> SumOver(rows, LAMBDA r : x[r][m] * x[r][m])]
\* count times the sum of squared deviations.
SharpeParts(z, count) == count * z.q - z.s * z.s
Sign(n) == IF n > 0 THEN 1 ELSE IF n < 0 THEN -1 ELSE 0
\* mean / std of a is at most that of b, both over count rows.
SharpeAtMost(a, b, count) ==
    Sign(a.s) * a.s * a.s * SharpeParts(b, count) <= Sign(b.s) * b.s * b.s * SharpeParts(a, count)

\* The trailing remainder of rows belongs to no block.
BlockSize(x, n) == Len(x) \div n
RowsOf(x, n, combo) == UNION {((k - 1) * BlockSize(x, n) + 1)..(k * BlockSize(x, n)) : k \in combo}
Splittings(n) == kSubset(n \div 2, 1..n)

\* Ranks on the whole sample instead of the other half.
OosSumsOfAll(total, is) == total
OosSums(total, is) == [s |-> total.s - is.s, q |-> total.q - is.q]

\* One in-sample half: the first best strategy there, and its rank out of sample.
Outcome(x, n, combo) ==
    LET strategies == DOMAIN x[1]
        count == (n \div 2) * BlockSize(x, n)
        total == [m \in strategies |-> Sums(x, RowsOf(x, n, 1..n), m)]
        is == [m \in strategies |-> Sums(x, RowsOf(x, n, combo), m)]
        oos == [m \in strategies |-> OosSums(total[m], is[m])]
        best == Min({m \in strategies : \A k \in strategies : SharpeAtMost(is[k], is[m], count)})
        rank == Cardinality({m \in strategies : SharpeAtMost(oos[m], oos[best], count)})
    IN  IF \E m \in strategies : SharpeParts(is[m], count) <= 0 \/ SharpeParts(oos[m], count) <= 0
        THEN "raise"
        ELSE IF 2 * rank < Cardinality(strategies) + 1 THEN "below" ELSE "above"

PboRefused(x, n) == Len(x[1]) < 2 \/ n < 2 \/ n % 2 # 0 \/ BlockSize(x, n) < 2
PboCscv ==
    /\ matrix # <<>> /\ pbo.status = "none"
    /\ LET outcome == [c \in Splittings(n_blocks) |-> Outcome(matrix, n_blocks, c)]
       IN  pbo' = IF PboRefused(matrix, n_blocks) \/ "raise" \in Range(outcome) THEN [pbo EXCEPT !.status = "raised"]
                  ELSE [status |-> "answer", splits |-> Cardinality(DOMAIN outcome),
                        below |-> Cardinality({c \in DOMAIN outcome : outcome[c] = "below"})]
    /\ UNCHANGED <<matrix, n_blocks, t, block_len>>
----------------------------------------------------------------------------
\* Draws of start positions; one per block of a path.
StartsInside(len, block) == 0..(len - block)
Starts(len, block) == 0..(len - 1)
NBlocks(len, block) == (len + block - 1) \div block
\* The positions of the sample along a path of the given starts, wrapped around and cut to its length.
BootstrapPath(len, block, starts) ==
    [j \in 1..len |-> (starts[1 + ((j - 1) \div block)] + ((j - 1) % block)) % len]

NoPbo == [status |-> "none", splits |-> 0, below |-> 0]
StatsRest == pbo = NoPbo /\ matrix = <<>> /\ n_blocks = 2 /\ t = 2 /\ block_len = 1
StatsInit ==
    /\ pbo = NoPbo
    /\ \/ matrix \in Matrices /\ n_blocks \in BlockCounts /\ t = 2 /\ block_len = 1
       \/ matrix = <<>> /\ n_blocks = 2 /\ t \in Lengths /\ block_len \in {b \in BlockLens : b \in 1..t}
StatsNext == PboCscv
----------------------------------------------------------------------------
\* "PBO is the fraction of splits whose selected strategy ranks below the OOS median":
\* the shortcut through block sums gives what the rows say, each half judged only on
\* rows its selection never saw, with deviations taken from the mean of those rows.
PboMatchesRows ==
    pbo.status = "answer" =>
        LET rows == 1..(n_blocks * BlockSize(matrix, n_blocks))
            half == Cardinality(rows) \div 2
            Total(R, m) == SumOver(R, LAMBDA r : matrix[r][m])
            Deviation(R, m) == SumOver(R, LAMBDA r : (half * matrix[r][m] - Total(R, m)) * (half * matrix[r][m] - Total(R, m)))
            Better(R, a, b) == Sign(Total(R, a)) * Total(R, a) * Total(R, a) * Deviation(R, b)
                               > Sign(Total(R, b)) * Total(R, b) * Total(R, b) * Deviation(R, a)
            strategies == DOMAIN matrix[1]
            Unlucky(seen) ==
                LET chosen == Min({m \in strategies : \A k \in strategies : ~Better(seen, k, m)})
                IN  2 * Cardinality({k \in strategies : Better(rows \ seen, k, chosen)}) >= Cardinality(strategies)
            halves == {RowsOf(matrix, n_blocks, c) : c \in Splittings(n_blocks)}
        IN  /\ pbo.splits = Cardinality(halves)
            /\ pbo.below = Cardinality({h \in halves : Unlucky(h)})

\* The wrap-around of the circular bootstrap: at every position of a path each observation
\* is drawn by as many choices of starts as any other, the last ones of the sample included.
DrawsUniform ==
    \A j \in 1..t, i \in 0..(t - 1) :
        LET draws == [1..NBlocks(t, block_len) -> Starts(t, block_len)]
        IN  t * Cardinality({d \in draws : BootstrapPath(t, block_len, d)[j] = i}) = Cardinality(draws)
--------------------------------------------------------------------------------
CONSTANTS Samples,     \* the sequences of labels, in the order the caller gives them
          Folds,       \* choices of n_splits
          EmbargoPcts, \* choices of embargo_pct, in percent
          Windows      \* choices of [fit, test, step, sessions]

VARIABLES times, n_splits, embargo_pct, folds, split  \* a split call: its input, what it yielded, its state
VARIABLES windows, pairs                              \* a walkforward call and its answer
splitVars == <<times, n_splits, embargo_pct, folds, split, windows, pairs>>

\* Labels that share an instant.
Overlap(a, b) == a.t0 <= b.t1 /\ a.t1 >= b.t0
CeilDiv(a, b) == (a + b - 1) \div b
Embargo(n, pct) == CeilDiv(n * pct, 100)

\* Blocks of n \div k positions, the remainder in none.
BlockStartEven(n, k, f) == (f - 1) * (n \div k) + 1
\* numpy.array_split: the first n % k blocks have one more position than the others.
BlockStart(n, k, f) == (f - 1) * (n \div k) + Min({f - 1, n % k}) + 1
Block(n, k, f) == BlockStart(n, k, f)..(BlockStart(n, k, f + 1) - 1)

\* The embargo alone, as if no label outlived its block.
BannedByEmbargo(test) ==
    test \cup {i \in DOMAIN times : i > Max(test) /\ i <= Max(test) + Embargo(Len(times), embargo_pct)}
Banned(test) ==
    LET after == Max(test)
    IN  test \cup {i \in DOMAIN times : \E j \in test : Overlap(times[i], times[j])}
             \cup {i \in DOMAIN times : i > after /\ i <= after + Embargo(Len(times), embargo_pct)}

Sorted(s) == \A i \in 1..(Len(s) - 1) : s[i].t0 <= s[i + 1].t0
RefusesSplit == \/ n_splits < 2 \/ ~(embargo_pct \in 0..99) \/ Len(times) < n_splits
           \/ (\E i \in DOMAIN times : times[i].t1 < times[i].t0) \/ ~Sorted(times)

StartSplit ==
    /\ split = "new" /\ split' = IF RefusesSplit THEN "raised" ELSE "yielding"
    /\ UNCHANGED <<times, n_splits, embargo_pct, folds, windows, pairs>>

\* One fold: the test block and the rows that are not banned.
YieldFold ==
    /\ split = "yielding"
    /\ IF Len(folds) = n_splits THEN split' = "done" /\ UNCHANGED folds
       ELSE LET test == Block(Len(times), n_splits, Len(folds) + 1)
            IN  /\ folds' = Append(folds, [test |-> test, train |-> (DOMAIN times) \ Banned(test)])
                /\ UNCHANGED split
    /\ UNCHANGED <<times, n_splits, embargo_pct, windows, pairs>>

\* Starts the test window on the last session of the fit window.
PairTouching(w, start) ==
    LET fitEnd == start + w.fit - 1
    IN  [fit |-> start..fitEnd, test |-> fitEnd..(fitEnd + w.test - 1)]
\* One fit/test pair of session numbers.
Pair(w, start) ==
    LET fitEnd == start + w.fit - 1
    IN  [fit |-> start..fitEnd, test |-> (fitEnd + 1)..(fitEnd + w.test)]
WalkRefused(w) == Min({w.fit, w.test, w.step}) <= 0 \/ w.sessions < w.fit + w.test
Walkforward ==
    /\ windows.fit # 0 /\ pairs = <<>> /\ ~WalkRefused(windows)
    /\ LET last == (windows.sessions - windows.fit - windows.test) \div windows.step
       IN  pairs' = [k \in 1..(last + 1) |-> Pair(windows, 1 + (k - 1) * windows.step)]
    /\ UNCHANGED <<times, n_splits, embargo_pct, folds, split, windows>>

NoWindow == [fit |-> 0, test |-> 0, step |-> 0, sessions |-> 0]
NoSplit == times = <<>> /\ n_splits = 2 /\ embargo_pct = 0 /\ split = "off"
SplitsRest == NoSplit /\ windows = NoWindow /\ folds = <<>> /\ pairs = <<>>
SplitsInit ==
    /\ folds = <<>> /\ pairs = <<>>
    /\ \/ times \in Samples /\ n_splits \in Folds /\ embargo_pct \in EmbargoPcts /\ split = "new" /\ windows = NoWindow
       \/ NoSplit /\ windows \in Windows
SplitsNext == StartSplit \/ YieldFold \/ Walkforward
----------------------------------------------------------------------------
\* "no envelope shortcut, so irregular span lengths cannot cause over- or under-purging":
\* no instant belongs to a training label and to a test label of the same fold, and what
\* is left out of training either shares an instant with the block or follows it within
\* the embargo.
PurgeExact ==
    \A k \in DOMAIN folds :
        LET fold == folds[k]
            instants == UNION {times[j].t0..times[j].t1 : j \in fold.test}
        IN  /\ \A i \in fold.train : (times[i].t0..times[i].t1) \cap instants = {}
            /\ \A i \in (DOMAIN times) \ (fold.train \cup fold.test) :
                 \/ (times[i].t0..times[i].t1) \cap instants # {}
                 \/ i - Max(fold.test) \in 1..Embargo(Len(times), embargo_pct)

\* "Samples are never dropped from test folds": once the generator is exhausted every
\* sample was tested exactly once, in blocks whose sizes differ by at most one.
TestedOnce ==
    split = "done" =>
        /\ \A i \in DOMAIN times : Cardinality({k \in DOMAIN folds : i \in folds[k].test}) = 1
        /\ \A j, k \in DOMAIN folds : Cardinality(folds[j].test) - Cardinality(folds[k].test) \in -1..1

\* walkforward: whatever the step, no test session is at or before a session its own fit
\* saw, none follows it by more than the window, and with step = test every session from
\* the first test on that still fits a whole window is tested once.
WalkTiles ==
    pairs # <<>> =>
        /\ \A k \in DOMAIN pairs : Max(pairs[k].fit) + 1 = Min(pairs[k].test) /\ Max(pairs[k].test) <= windows.sessions
        /\ windows.step = windows.test =>
             \A s \in (windows.fit + 1)..windows.sessions :
                 LET times_tested == Cardinality({k \in DOMAIN pairs : s \in pairs[k].test})
                 IN  IF s - windows.fit <= windows.test * ((windows.sessions - windows.fit) \div windows.test)
                     THEN times_tested = 1 ELSE times_tested = 0
--------------------------------------------------------------------------------
CONSTANTS ReturnSamples, \* samples of daily returns with a whole standard deviation
          Targets,       \* choices of the target daily volatility
          One,           \* the unit of a return
          Horizons,      \* the horizons in days, ascending
          BlockLenDays

VARIABLES returns, target, budget, path, equity
budgetVars == <<returns, target, budget, path, equity>>

MeanSum == SumOver(DOMAIN returns, LAMBDA i : returns[i])
\* Len - 1 times Len times the sample variance.
VarSum == Len(returns) * SumOver(DOMAIN returns, LAMBDA i : returns[i] * returns[i]) - MeanSum * MeanSum
BudgetRefused == Len(returns) < 2 \/ VarSum <= 0 \/ target <= 0
\* The standard deviation, whole by the choice of ReturnSamples.
Sigma == CHOOSE s \in 0..One : s * s * Len(returns) * (Len(returns) - 1) = VarSum

\* The sign of the measured Sharpe is lost.
ImpliedAboveOfSize(k) == target * Len(returns) * Sigma > k * One * MeanSum /\ MeanSum > 0
\* target / Sharpe exceeds k; infinite with a Sharpe that is not positive.
ImpliedAbove(k) == MeanSum <= 0 \/ target * Len(returns) * Sigma > k * One * MeanSum
RequiresKellyOverride == ImpliedAbove(1)
\* mu - sigma^2/2 of the sample levered to the target, times 2 * Sigma * Len * One, over target.
GeoDrift == 2 * One * MeanSum - target * Sigma * Len(returns)

\* A levered loss beyond the whole equity stays one.
UnclippedReturn(r) == (r * target) \div Sigma
LeveredReturn(r) == Max({-One, (r * target) \div Sigma})

MaxDays == Horizons[Len(Horizons)]
Chunks == NBlocks(MaxDays, Len(returns))
Block_ == Min({BlockLenDays, Len(returns)})
\* One row of _horizon_paths: resampled samples end to end, cut to the longest horizon.
HorizonPath(starts) ==
    [day \in 1..MaxDays |->
       LET chunk == 1 + ((day - 1) \div Len(returns))
           inside == 1 + ((day - 1) % Len(returns))
       IN  LeveredReturn(returns[1 + BootstrapPath(Len(returns), Block_, starts[chunk])[inside]])]

\* equity * One^day: the running product.
EquityOf(p) ==
    LET e[day \in 0..MaxDays] == IF day = 0 THEN 1 ELSE e[day - 1] * (One + p[day]) IN e
\* Peaks from the first close on.
PeakOfCloses(e, day) == Max({e[d] * One^(day - d) : d \in 1..day})
\* The highest equity so far, the start included, in the unit of that day.
Peak(e, day) == Max({e[d] * One^(day - d) : d \in 0..day})
RuinStats(e, days) ==
    [dd_50 |-> \E d \in 1..days : 2 * e[d] <= Peak(e, d),
     dd_80 |-> \E d \in 1..days : 5 * e[d] <= Peak(e, d),
     below_20pct |-> \E d \in 1..days : 5 * e[d] < One^d]

BuildRiskBudget ==
    /\ returns # <<>> /\ budget.status = "none"
    /\ IF BudgetRefused THEN budget' = [budget EXCEPT !.status = "raised"] /\ UNCHANGED <<path, equity>>
       ELSE \E starts \in [1..Chunks -> [1..NBlocks(Len(returns), Block_) -> Starts(Len(returns), Block_)]] :
              /\ path' = HorizonPath(starts) /\ equity' = EquityOf(path')
              /\ budget' = [status |-> "report", override |-> RequiresKellyOverride,
                            ruin |-> [h \in DOMAIN Horizons |-> RuinStats(equity', Horizons[h])]]
    /\ UNCHANGED <<returns, target>>

NoBudget == [status |-> "none", override |-> FALSE, ruin |-> <<>>]
NotBuilt == budget = NoBudget /\ path = <<>> /\ equity = <<>>
BudgetRest == NotBuilt /\ returns = <<>> /\ target = 1
BudgetInit == NotBuilt /\ returns \in ReturnSamples /\ target \in Targets
BudgetNext == BuildRiskBudget
----------------------------------------------------------------------------
\* The ruin table is coherent path by path: an equity below a fifth of the start is a
\* drawdown of four fifths, that one a drawdown of half, and the longer horizon contains
\* the shorter.
RuinNested ==
    budget.status = "report" =>
        \A h, k \in DOMAIN budget.ruin :
            LET r == budget.ruin[h]
            IN  /\ r.below_20pct => r.dd_80
                /\ r.dd_80 => r.dd_50
                /\ h <= k => \A stat \in DOMAIN r : r[stat] => budget.ruin[k][stat]

\* "leverage past ruin absorbs at zero equity rather than producing negative wealth".
RuinAbsorbs ==
    \A d \in DOMAIN equity :
        equity[d] >= 0 /\ (equity[d] = 0 => \A later \in DOMAIN equity : later >= d => equity[later] = 0)

\* The guard and the drift of the report agree ("geometric growth crosses zero at 2.00x
\* full Kelly"): a target that needs no override compounds upwards, and one that
\* compounds downwards has more than twice the full-Kelly volatility or no edge at all.
NoOverrideGrows ==
    budget.status = "report" =>
        /\ ~budget.override => GeoDrift > 0
        /\ GeoDrift < 0 => budget.override /\ ImpliedAbove(2)
================================================================================
