-------------------------------- MODULE TapeBars --------------------------------
(***************************************************************************)
(* What is built from a session's trade prints: data/bars/builders.py (one *)
(* symbol's stream of trades into bars, one print at a time), and the      *)
(* frames of features/microstructure.py and features/internals.py over the *)
(* prints so far.  An instant counts ticks, TICKS of them to the minute.   *)
(***************************************************************************)
EXTENDS Integers, Sequences, FiniteSets, FiniteSetsExt, SequencesExt, Functions

CONSTANTS Sessions,       \* symbol -> sequence of [ts, price, size], in time
          Lead,           \* the symbol whose stream is built into bars
          TICKS,          \* ticks of a minute, and of a time bar
          VolumePerBar, DollarPerBar,
          EwmaUnit,       \* one, in the fixed point of the imbalance recursion (both alphas are 1/2)
          ExpectedTicks, ExpectedImbalance, MinExpectedImbalance,
          ImbalanceWindow, VpinBucket, VpinBuckets,
          MinPeriods,     \* min_periods of the intensity z-score
          PriorClose,     \* symbol -> its close of the session before
          NoTape

ASSUME TapeAssumption == TICKS \in Nat \ {0} /\ VolumePerBar > 0 /\ DollarPerBar > 0 /\ MinExpectedImbalance > 0

Kinds == {"time", "volume", "dollar", "imbalance"}

VARIABLES prints,      \* the prints of the session
          read,      \* how many of Lead's prints the builders consumed
          acc,       \* kind -> the open bar, NoTape when none is open
          emitted,   \* kind -> the bars emitted
          imb        \* the state of the imbalance recursion
tapeVars == <<prints, read, acc, emitted, imb>>

Open(p) == [open |-> p.price, high |-> p.price, low |-> p.price, close |-> p.price, volume |-> p.size]
Added(a, p) == IF a = NoTape THEN Open(p)
               ELSE [a EXCEPT !.high = Max({@, p.price}), !.low = Min({@, p.price}), !.close = p.price, !.volume = @ + p.size]
Emit(a, ts) == [ts |-> ts, bar |-> a]

NothingRead ==
    /\ read = 0
    /\ acc = [k \in Kinds |-> NoTape] /\ emitted = [k \in Kinds |-> <<>>]
    /\ imb = [ticks |-> ExpectedTicks, b |-> ExpectedImbalance, prev |-> 0, sign |-> 1, theta |-> 0, count |-> 0, dollars |-> 0]

SumSizes(s) == FoldFunction(LAMBDA p, n : p.size + n, 0, s)
Interval(ts) == ts \div TICKS
Sign3(n) == IF n > 0 THEN 1 ELSE IF n < 0 THEN -1 ELSE 0
Size(n) == IF n < 0 THEN -n ELSE n
\* The tick rule of the builder: the first print counts as bought.
TickRule(prev, sign, price) == IF prev = 0 \/ price = prev THEN sign ELSE Sign3(price - prev)

\* The new print joins the bar it ends.
TimeStepInclusive(p, last) ==
    LET a == Added(acc["time"], p)
    IN  IF acc["time"] # NoTape /\ Interval(p.ts) # Interval(last)
        THEN [acc |-> NoTape, out |-> <<Emit(a, TICKS * (Interval(last) + 1))>>]
        ELSE [acc |-> a, out |-> <<>>]
\* time_bars: the first print past the boundary proves the interval over.
TimeStep(p, last) ==
    IF acc["time"] # NoTape /\ Interval(p.ts) # Interval(last)
    THEN [acc |-> Open(p), out |-> <<Emit(acc["time"], TICKS * (Interval(last) + 1))>>]
    ELSE [acc |-> Added(acc["time"], p), out |-> <<>>]

\* volume_bars, dollar_bars, imbalance_bars: the print that crosses is in the bar.
Crossing(k, p, crossed) ==
    LET a == Added(acc[k], p)
    IN  IF crossed THEN [acc |-> NoTape, out |-> <<Emit(a, p.ts)>>] ELSE [acc |-> a, out |-> <<>>]

\* The recursion of imbalance_bars over one print.
Imbalance(p) ==
    LET sign == TickRule(imb.prev, imb.sign, p.price)
        b == (imb.b + EwmaUnit * sign) \div 2
        theta == imb.theta + sign
        crossed == Size(theta) * EwmaUnit * EwmaUnit >= imb.ticks * Max({Size(b), MinExpectedImbalance})
    IN  [crossed |-> crossed,
         state |-> [imb EXCEPT !.prev = p.price, !.sign = sign, !.b = b,
                       !.theta = IF crossed THEN 0 ELSE theta,
                       !.count = IF crossed THEN 0 ELSE @ + 1,
                       !.ticks = IF crossed THEN (@ + EwmaUnit * (imb.count + 1)) \div 2 ELSE @]]

\* One print through the four builders.
ReadPrint ==
    /\ prints # NoTape /\ read < Len(prints[Lead])
    /\ LET p == prints[Lead][read + 1]
           dollars == imb.dollars + p.price * p.size
           i == Imbalance(p)
           step == [k \in Kinds |->
                      CASE k = "time" -> TimeStep(p, IF read = 0 THEN p.ts ELSE prints[Lead][read].ts)
                        [] k = "volume" -> Crossing(k, p, Added(acc[k], p).volume >= VolumePerBar)
                        [] k = "dollar" -> Crossing(k, p, dollars >= DollarPerBar)
                        [] OTHER -> Crossing(k, p, i.crossed)]
       IN  /\ acc' = [k \in Kinds |-> step[k].acc]
           /\ emitted' = [k \in Kinds |-> emitted[k] \o step[k].out]
           /\ imb' = [i.state EXCEPT !.dollars = IF dollars >= DollarPerBar THEN 0 ELSE dollars]
    /\ read' = read + 1 /\ UNCHANGED prints

TapeInit == prints \in Sessions /\ NothingRead
TapeRest == prints = NoTape /\ NothingRead
TapeNext == ReadPrint
----------------------------------------------------------------------------
\* The prints of a symbol up to an instant.
Upto(s, ts) == SelectSeq(s, LAMBDA p : p.ts <= ts)

\* tick_rule_signs: an unsigned leading run, then the last sign that was not zero.
Signs(s) ==
    LET f[i \in 0..Len(s)] == IF i <= 1 THEN 0 ELSE IF s[i].price = s[i - 1].price THEN f[i - 1] ELSE Sign3(s[i].price - s[i - 1].price)
    IN  [i \in DOMAIN s |-> f[i]]
\* _tick_signs: the first print is seeded as bought.
SeededSigns(s) ==
    LET f[i \in 0..Len(s)] == IF i <= 1 THEN 1 ELSE IF s[i].price = s[i - 1].price THEN f[i - 1] ELSE Sign3(s[i].price - s[i - 1].price)
    IN  [i \in DOMAIN s |-> f[i]]

Total(I, f(_)) == MapThenSumSet(f, I)
\* bucket_vpin: cumulative bought and sold volume, twice, interpolated at the edges of
\* the buckets; the sum over the last ones of their imbalance, twice, over the last print's size.
BoughtAt(s, g, edge) ==
    LET i == Min({k \in DOMAIN s : Total(1..k, LAMBDA j : s[j].size) >= edge})
        before == Total(1..(i - 1), LAMBDA j : s[j].size)
    IN  Total(1..(i - 1), LAMBDA j : s[j].size * (1 + g[j])) + (edge - before) * (1 + g[i])
Vpin(s, g, bucket, n) ==
    LET complete == Total(DOMAIN s, LAMBDA j : s[j].size) \div bucket
        Bought(k) == IF k = 0 THEN 0 ELSE BoughtAt(s, g, k * bucket)
    IN  IF s = <<>> \/ complete < n THEN NoTape
        ELSE Total((complete - n + 1)..complete, LAMBDA k : Size(Bought(k) - Bought(k - 1) - bucket))

\* minute_microstructure labels a print by the minute's end, a print on it included.
CeilMinute(ts) == TICKS * ((ts + TICKS - 1) \div TICKS)
MicroMinutes(s) == {CeilMinute(s[i].ts) : i \in DOMAIN s}
MedianVolume(s) ==
    LET volume == [m \in MicroMinutes(s) |-> Total({i \in DOMAIN s : CeilMinute(s[i].ts) = m}, LAMBDA i : s[i].size)]
        At(k) == (CHOOSE m \in MicroMinutes(s) :
                    /\ Cardinality({o \in MicroMinutes(s) : volume[o] < volume[m]}) < k
                    /\ Cardinality({o \in MicroMinutes(s) : volume[o] <= volume[m]}) >= k)
        n == Cardinality(MicroMinutes(s))
    IN  (volume[At((n + 1) \div 2)] + volume[At((n + 2) \div 2)]) \div 2

\* The rolling window counts rows, one for each minute that has a print.
ImbalanceOf(s, g, m) ==
    LET rows == {o \in MicroMinutes(s) : o <= m /\ Cardinality({q \in MicroMinutes(s) : q > o /\ q <= m}) < ImbalanceWindow}
        I == {i \in DOMAIN s : CeilMinute(s[i].ts) \in rows}
    IN  <<Total(I, LAMBDA i : s[i].size * g[i]), Total(I, LAMBDA i : s[i].size)>>
Prints(s, m) == Cardinality({i \in DOMAIN s : CeilMinute(s[i].ts) = m})
\* The mean and the deviation of the whole session.
IntensityOfSession(s, m) ==
    LET rows == MicroMinutes(s)
        n == Cardinality(rows)
        total == Total(rows, LAMBDA o : Prints(s, o))
        spread == n * Total(rows, LAMBDA o : Prints(s, o) * Prints(s, o)) - total * total
    IN  IF n < MinPeriods \/ spread = 0 THEN NoTape ELSE <<n * Prints(s, m) - total, spread>>
\* n^2 times the variance and n times the deviation of the expanding count of prints.
Intensity(s, m) ==
    LET rows == {o \in MicroMinutes(s) : o <= m}
        n == Cardinality(rows)
        total == Total(rows, LAMBDA o : Prints(s, o))
        spread == n * Total(rows, LAMBDA o : Prints(s, o) * Prints(s, o)) - total * total
    IN  IF n < MinPeriods \/ spread = 0 THEN NoTape ELSE <<n * Prints(s, m) - total, spread>>
\* One row; the bucket of VPIN is the caller's, or the median volume of the whole frame.
MicroRow(s, m, bucket) ==
    LET g == Signs(s)
        I == {i \in DOMAIN s : CeilMinute(s[i].ts) = m}
        seen == Upto(s, m)
    IN  [volume |-> Total(I, LAMBDA i : s[i].size), signed |-> Total(I, LAMBDA i : s[i].size * g[i]), n_prints |-> Cardinality(I),
         imbalance |-> ImbalanceOf(s, g, m), intensity_z |-> Intensity(s, m), vpin |-> Vpin(seen, g, bucket, VpinBuckets)]
DefaultBucket(s) == Max({1, MedianVolume(s)})
----------------------------------------------------------------------------
\* Internals: a print on a boundary opens the next bar.
FloorMinute(ts) == TICKS * (1 + (ts \div TICKS))
\* A minute frame: state carried forward, flows of the minute itself.
SymbolRow(s, m) ==
    LET g == SeededSigns(s)
        seen == {i \in DOMAIN s : FloorMinute(s[i].ts) <= m}
        last == Max(seen)
        I == {i \in seen : FloorMinute(s[i].ts) = m}
    IN  [close |-> s[last].price,
         vwap |-> <<Total(seen, LAMBDA i : s[i].price * s[i].size), Total(seen, LAMBDA i : s[i].size)>>,
         up |-> Total({i \in I : g[i] > 0}, LAMBDA i : s[i].size), down |-> Total({i \in I : g[i] < 0}, LAMBDA i : s[i].size),
         tick |-> g[last]]
Traded(x, m) == {k \in DOMAIN x : \E i \in DOMAIN x[k] : FloorMinute(x[k][i].ts) <= m}
InternalsGrid(x) ==
    LET labels == UNION {{FloorMinute(x[k][i].ts) : i \in DOMAIN x[k]} : k \in DOMAIN x}
    IN  {m \in Min(labels)..Max(labels) : m % TICKS = 0}
\* One row of compute_internals; symbols that have not traded yet are in no count.
InternalsRow(x, m) ==
    LET row == [k \in Traded(x, m) |-> SymbolRow(x[k], m)]
        D == Traded(x, m)
    IN  [n_symbols |-> Cardinality(D),
         above_vwap |-> Cardinality({k \in D : row[k].close * row[k].vwap[2] > row[k].vwap[1]}),
         above_prior |-> Cardinality({k \in D : row[k].close > PriorClose[k]}),
         up_volume |-> Total(D, LAMBDA k : row[k].up), down_volume |-> Total(D, LAMBDA k : row[k].down),
         tick_proxy |-> Total(D, LAMBDA k : row[k].tick)]
----------------------------------------------------------------------------
Consumed == SubSeq(prints[Lead], 1, read)
\* "a consumer replaying events therefore sees every bar strictly after its constituent
\* trades": at every print, whatever the builder, the bars so far and the open one hold
\* every share read and no other, each bar is stamped no earlier than its prints, and the
\* time bars are the intervals that are over, those without a print left out.
BarsExact ==
    prints # NoTape =>
        /\ \A k \in Kinds :
             LET Shares(n) == Total(1..n, LAMBDA j : emitted[k][j].bar.volume)
                 open == IF acc[k] = NoTape THEN 0 ELSE acc[k].volume
             IN  /\ Shares(Len(emitted[k])) + open = Total(1..read, LAMBDA j : prints[Lead][j].size)
                 /\ \A n \in DOMAIN emitted[k] :
                      LET own == {j \in 1..read : /\ Total(1..j, LAMBDA i : prints[Lead][i].size) > Shares(n - 1)
                                                  /\ Total(1..j, LAMBDA i : prints[Lead][i].size) <= Shares(n)}
                          bar == emitted[k][n].bar
                      IN  /\ own # {} /\ bar.high = Max({prints[Lead][j].price : j \in own}) /\ bar.low = Min({prints[Lead][j].price : j \in own})
                          /\ bar.open = prints[Lead][Min(own)].price /\ bar.close = prints[Lead][Max(own)].price
                          /\ prints[Lead][Max(own)].ts <= emitted[k][n].ts
                          /\ k = "time" => {Interval(prints[Lead][j].ts) : j \in own} = {(emitted[k][n].ts \div TICKS) - 1}
        /\ read > 0 => {emitted["time"][n].ts : n \in DOMAIN emitted["time"]}
                       = {FloorMinute(p.ts) : p \in Range(Consumed)} \ {FloorMinute(Consumed[read].ts)}

\* "every row uses prints at or before its own minute close" and "the inputs are real-time
\* trade prints fully observed by the close": the row of a minute that is over is what it
\* will be at the end of the session, in the microstructure frame (with a bucket the
\* caller gives) and in the internals of the universe.
TapeFramesCausal ==
    prints # NoTape /\ read > 0 =>
        /\ \A m \in MicroMinutes(Consumed) :
             m <= Consumed[read].ts => LET seen == Upto(prints[Lead], m) IN MicroRow(seen, m, VpinBucket) = MicroRow(prints[Lead], m, VpinBucket)
        /\ \A m \in InternalsGrid(prints) :
             m <= Consumed[read].ts =>
               LET seen == [k \in DOMAIN prints |-> Upto(prints[k], m - 1)]
                   now == InternalsRow(seen, m)
               IN  /\ now = InternalsRow(prints, m) /\ now.n_symbols = Cardinality({k \in DOMAIN seen : seen[k] # <<>>})
                   /\ now.tick_proxy \in (-now.n_symbols)..now.n_symbols

\* "The frame is causal by construction", with the bucket the function chooses itself.
VpinCausal ==
    prints # NoTape /\ read > 0 =>
        \A m \in MicroMinutes(Consumed) :
            m <= Consumed[read].ts =>
              LET seen == Upto(prints[Lead], m)
              IN  MicroRow(seen, m, DefaultBucket(seen)).vpin = MicroRow(prints[Lead], m, DefaultBucket(prints[Lead])).vpin
=============================================================================
