-------------------------- MODULE EdgeEngineProofs --------------------------
(***************************************************************************)
(* What the edge engine keeps on every tape, whatever the signals, the     *)
(* regime gate and the invalidation callback answer: its limits, its       *)
(* ledger, and the trade book it implements.                               *)
(***************************************************************************)
EXTENDS MCEdgeEngine, SumProofs

-----------------------------------------------------------------------------
(* Operators the engine is built from.                                      *)

\* The larger of two integers is one of them.
LEMMA MaxPairInt == ASSUME NEW x \in Int, NEW y \in Int PROVE Max({x, y}) \in Int
<1>1. \E z \in {x, y} : \A w \in {x, y} : z >= w
  BY x >= y \/ y >= x
<1> QED BY <1>1 DEF Max

\* The smaller of two integers is one of them.
LEMMA MinPairInt == ASSUME NEW x \in Int, NEW y \in Int PROVE Min({x, y}) \in Int
<1>1. \E z \in {x, y} : \A w \in {x, y} : z <= w
  BY x <= y \/ y <= x
<1> QED BY <1>1 DEF Min

\* The table InOrder is read from.
LEMMA UptoExists ==
  ASSUME NEW S
  PROVE  \E g : g = [i \in 0..Len(SymbolOrder) |->
            IF i = 0 THEN <<>>
            ELSE IF SymbolOrder[i] \in S THEN Append(g[i - 1], SymbolOrder[i]) ELSE g[i - 1]]
<1> DEFINE Body(g, i) == IF i = 0 THEN <<>>
                         ELSE IF SymbolOrder[i] \in S THEN Append(g[i - 1], SymbolOrder[i])
                         ELSE g[i - 1]
           Fits(n) == \E g : g = [i \in 0..n |-> Body(g, i)]
           Good == {n \in Nat : Fits(n)}
<1>1. 0 \in Good
  <2>1. [i \in 0..0 |-> <<>>] = [i \in 0..0 |-> Body([j \in 0..0 |-> <<>>], i)]
    OBVIOUS
  <2> QED BY <2>1
<1>2. ASSUME NEW n \in Nat, n \in Good PROVE n + 1 \in Good
  <2>1. PICK g : g = [i \in 0..n |-> Body(g, i)]
    BY <1>2
  <2> DEFINE h == [i \in 0..(n + 1) |-> Body(g, i)]
             k == [i \in 0..(n + 1) |-> Body(h, i)]
  <2>2. ASSUME NEW i \in 0..(n + 1) PROVE Body(g, i) = Body(h, i)
    <3>1. CASE i = 0
      BY <3>1
    <3>2. CASE i # 0
      <4>1. i - 1 \in 0..n /\ i - 1 \in 0..(n + 1)
        BY <3>2
      <4>2. g[i - 1] = Body(g, i - 1) /\ h[i - 1] = Body(g, i - 1)
        <5> HIDE DEF Body
        <5> QED BY <2>1, <4>1
      <4> QED BY <3>2, <4>2
    <3> QED BY <3>1, <3>2
  <2>3. h = k
    <3> HIDE DEF Body
    <3>1. DOMAIN h = 0..(n + 1) /\ DOMAIN k = 0..(n + 1)
      OBVIOUS
    <3>2. \A i \in 0..(n + 1) : h[i] = k[i]
      BY <2>2
    <3> QED BY <3>1, <3>2, <2>2
  <2>4. Fits(n + 1)
    <3> HIDE DEF Body, h
    <3> QED BY <2>3
  <2> HIDE DEF Fits
  <2> QED BY <2>4
<1>3. Len(SymbolOrder) \in Nat
  BY TapeAssumption
<1>4. Nat \subseteq Good
  <2> HIDE DEF Good
  <2> QED BY <1>1, <1>2, NatSetInduction
<1> QED BY <1>3, <1>4

\* InOrder(S) lists S and nothing else.
LEMMA InOrderLists ==
  ASSUME NEW S, S \subseteq Symbols
  PROVE  InOrder(S) \in Seq(S) /\ \A s \in S : \E i \in 1..Len(InOrder(S)) : InOrder(S)[i] = s
<1> DEFINE N == Len(SymbolOrder)
           IsUpto(g) == g = [i \in 0..N |->
                     IF i = 0 THEN <<>>
                     ELSE IF SymbolOrder[i] \in S THEN Append(g[i - 1], SymbolOrder[i])
                     ELSE g[i - 1]]
           upto == CHOOSE g : IsUpto(g)
           Lists(i) == /\ upto[i] \in Seq(S)
                       /\ \A j \in 1..i : SymbolOrder[j] \in S =>
                            \E k \in 1..Len(upto[i]) : upto[i][k] = SymbolOrder[j]
           Good == {n \in Nat : n <= N => Lists(n)}
<1>1. upto = [i \in 0..N |->
                IF i = 0 THEN <<>>
                ELSE IF SymbolOrder[i] \in S THEN Append(upto[i - 1], SymbolOrder[i])
                ELSE upto[i - 1]]
  <2>1. \E g : IsUpto(g)
    BY UptoExists
  <2>2. IsUpto(upto)
    <3> HIDE DEF IsUpto
    <3> QED BY <2>1
  <2> QED BY <2>2
<1>2. N \in Nat
  BY TapeAssumption
<1>3. InOrder(S) = upto[N]
  BY DEF InOrder
<1> HIDE DEF upto, N
<1>4. 0 \in Good
  <2>1. upto[0] = <<>>
    BY <1>1, <1>2
  <2>2. upto[0] \in Seq(S)
    BY <2>1
  <2>3. 1..0 = {}
    OBVIOUS
  <2>4. Lists(0)
    BY <2>2, <2>3
  <2> HIDE DEF Lists
  <2> QED BY <2>4
<1>5. ASSUME NEW n \in Nat, n \in Good PROVE n + 1 \in Good
  <2>1. SUFFICES ASSUME n + 1 <= N PROVE Lists(n + 1)
    OBVIOUS
  <2>2. Lists(n)
    BY <1>2, <1>5, <2>1
  <2>3. upto[n + 1] = IF SymbolOrder[n + 1] \in S THEN Append(upto[n], SymbolOrder[n + 1])
                      ELSE upto[n]
    <3>1. n + 1 \in 0..N /\ n + 1 # 0 /\ (n + 1) - 1 = n
      BY <1>2, <2>1
    <3>2. \A i \in 0..N : upto[i] =
             IF i = 0 THEN <<>>
             ELSE IF SymbolOrder[i] \in S THEN Append(upto[i - 1], SymbolOrder[i])
             ELSE upto[i - 1]
      BY <1>1
    <3> QED BY <3>1, <3>2
  <2>4. CASE SymbolOrder[n + 1] \in S
    <3>1. upto[n + 1] = Append(upto[n], SymbolOrder[n + 1])
      BY <2>3, <2>4
    <3>2. upto[n + 1] \in Seq(S)
      BY <2>2, <2>4, <3>1
    <3>3. Len(upto[n]) \in Nat /\ Len(upto[n + 1]) = Len(upto[n]) + 1
      BY <2>2, <3>1
    <3>4. \A k \in 1..Len(upto[n]) : upto[n + 1][k] = upto[n][k]
      BY <2>2, <3>1
    <3>5. upto[n + 1][Len(upto[n]) + 1] = SymbolOrder[n + 1]
      BY <2>2, <3>1
    <3>6. ASSUME NEW j \in 1..(n + 1), SymbolOrder[j] \in S
          PROVE  \E k \in 1..Len(upto[n + 1]) : upto[n + 1][k] = SymbolOrder[j]
      <4>1. CASE j = n + 1
        <5>1. Len(upto[n]) + 1 \in 1..Len(upto[n + 1])
          BY <3>3
        <5> QED BY <3>5, <4>1, <5>1
      <4>2. CASE j # n + 1
        <5>1. j \in 1..n
          BY <4>2
        <5>2. PICK k \in 1..Len(upto[n]) : upto[n][k] = SymbolOrder[j]
          BY <2>2, <3>6, <5>1
        <5>3. k \in 1..Len(upto[n + 1])
          BY <3>3, <5>2
        <5> QED BY <3>4, <5>2, <5>3
      <4> QED BY <4>1, <4>2
    <3> QED BY <3>2, <3>6
  <2>5. CASE SymbolOrder[n + 1] \notin S
    <3>1. upto[n + 1] = upto[n]
      BY <2>3, <2>5
    <3>2. \A j \in 1..(n + 1) : SymbolOrder[j] \in S => j \in 1..n
      BY <2>5
    <3>3. upto[n + 1] \in Seq(S)
      BY <2>2, <3>1
    <3>4. \A j \in 1..(n + 1) : SymbolOrder[j] \in S =>
             \E k \in 1..Len(upto[n + 1]) : upto[n + 1][k] = SymbolOrder[j]
      BY <2>2, <3>1, <3>2
    <3> QED BY <3>3, <3>4
  <2> QED BY <2>4, <2>5
<1>6. N \in Good
  <2> HIDE DEF Good
  <2>1. Nat \subseteq Good
    BY <1>4, <1>5, NatSetInduction
  <2> QED BY <1>2, <2>1
<1>7. Lists(N)
  BY <1>2, <1>6
<1>8. \A s \in S : \E j \in 1..N : SymbolOrder[j] = s
  BY TapeAssumption DEF Symbols, N
<1> QED BY <1>3, <1>7, <1>8

-----------------------------------------------------------------------------
(* Tapes and fills.                                                         *)

\* What a bar's quote is, when there is one.
QuoteOk(q) == q.bid \in Nat /\ q.ask \in Nat

\* What the tape of a run has.
LEMMA TapeFacts ==
  ASSUME tape \in Tapes, NEW s \in Symbols
  PROVE  /\ BarTimes(s) \subseteq Nat
         /\ \A t \in BarTimes(s) : /\ tape[s][t].close \in Nat \ {0}
                                   /\ tape[s][t].low \in Nat /\ tape[s][t].high \in Nat
                                   /\ tape[s][t].quote # NoQuote => QuoteOk(tape[s][t].quote)
BY TapeAssumption DEF BarTimes, QuoteOk

\* The next bar of a symbol is a bar of the symbol, later than the present one.
LEMMA NextBarFacts ==
  ASSUME tape \in Tapes, NEW s \in Symbols, NEW t \in Int, HasNextBar(s, t)
  PROVE  NextBar(s, t) \in BarTimes(s) /\ NextBar(s, t) > t
<1> DEFINE L == Later(BarTimes(s), t)
<1>1. L # {} /\ L \subseteq Nat
  BY TapeFacts DEF HasNextBar, Later
<1>2. \E k \in L : \A j \in L : k <= j
  <2> HIDE DEF L
  <2> QED BY <1>1, LeastNat
<1>3. NextBar(s, t) \in L
  BY <1>2 DEF NextBar, Min
<1> QED BY <1>3 DEF Later

\* Products of what is not negative are not negative.
LEMMA TimesNat == \A x, y \in Int : x >= 0 /\ y >= 0 => x * y >= 0
OBVIOUS

\* Both of two instants are later by the same latency.
LEMMA Shifted ==
  \A x, y \in Int, l \in Nat : y > x => x + l < y + l /\ x + l \in Int /\ y + l \in Int
OBVIOUS

\* A natural does not shrink when it is multiplied by a positive one.
LEMMA TimesGrows == \A x \in Nat, y \in Nat \ {0} : x * y \in Nat /\ x * y >= x
<1>1. SUFFICES ASSUME NEW x \in Nat, NEW y \in Nat \ {0} PROVE x * y \in Nat /\ x * y >= x
  OBVIOUS
<1>2. x * (y - 1) >= 0 /\ x * y = x * (y - 1) + x
  BY TimesNat
<1> QED BY <1>2

Sides == {BUY, SELL}
Fills == [status : {"filled"}, qty : Nat \ {0}, price : Int, spread : Int, slip : Int,
          commission : Nat]

\* The costs of a fill are its distance from the mid of the quote, and not negative.
Costed(f, q, side) ==
    /\ f.spread + f.slip = Adverse(f.price, q, side) * (f.qty * Multiplier)
    /\ f.spread + f.slip >= 0

\* Every price the cost model computes off a quote is an integer.
LEMMA PriceInt ==
  ASSUME NEW q, QuoteOk(q), NEW side \in Sides
  PROVE  /\ Mid(q) \in Int /\ CrossedPrice(q, side) \in Int /\ SlippedPrice(q, side) \in Int
<1>1. Mid(q) \in Int
  BY DEF Mid, QuoteOk
<1>2. CrossedPrice(q, side) \in Int
  <2>1. SpreadFillPct * (q.ask - q.bid) \in Int
    BY FillAssumption DEF QuoteOk
  <2> DEFINE w == SpreadFillPct * (q.ask - q.bid)
  <2> HIDE DEF w
  <2>2. w \in Int /\ q.bid \in Int /\ q.ask \in Int
    BY <2>1 DEF w, QuoteOk
  <2>3. CrossedPrice(q, side) = IF side = BUY THEN 100 * (100 * (q.bid + q.ask) + w)
                                ELSE 100 * (100 * (q.bid + q.ask) - w)
    BY DEF CrossedPrice, w
  <2> QED BY <2>2, <2>3
<1>3. SlippedPrice(q, side) \in Int
  <2> DEFINE c == CrossedPrice(q, side) \div 100
  <2>1. c \in Int
    BY <1>2
  <2> HIDE DEF c
  <2>2. c * (100 + SlippagePct) \in Int /\ c * (100 - SlippagePct) \in Int
    BY <2>1, FillAssumption
  <2>3. Max({c * (100 - SlippagePct), 0}) \in Int
    BY <2>2, MaxPairInt
  <2> QED BY <2>2, <2>3 DEF SlippedPrice, c
<1> QED BY <1>1, <1>2, <1>3

\* marketable_fill answers a refusal or a fill that is no better than mid, with its
\* costs accounted for.
LEMMA MarketableFacts ==
  ASSUME NEW q, QuoteOk(q), NEW side \in Sides, NEW qty \in Int
  PROVE  LET f == MarketableFill(q, side, qty)
         IN  f = Refused \/ (f \in Fills /\ f.qty = qty /\ Costed(f, q, side))
<1> DEFINE price == SlippedPrice(q, side)
           k == qty * Multiplier
           adv == Adverse(price, q, side)
           spread == Adverse(CrossedPrice(q, side), q, side) * k
           f == [status |-> "filled", qty |-> qty, price |-> price, spread |-> spread,
                 slip |-> adv * k - spread, commission |-> Commission * qty]
<1>1. CASE qty < 1 \/ Crossed(q) \/ ~NotBetterThanMid(price, q, side)
  BY <1>1 DEF MarketableFill
<1>2. CASE ~(qty < 1 \/ Crossed(q) \/ ~NotBetterThanMid(price, q, side))
  <2>1. MarketableFill(q, side, qty) = f
    BY <1>2 DEF MarketableFill
  <2>2. price \in Int /\ Mid(q) \in Int /\ CrossedPrice(q, side) \in Int
    BY PriceInt
  <2>3. adv \in Int /\ adv >= 0
    <3> HIDE DEF price
    <3> QED BY <1>2, <2>2 DEF Adverse, NotBetterThanMid
  <2>4. k \in Int /\ k >= 0 /\ qty \in Nat \ {0}
    BY <1>2, FillAssumption
  <2>5. Adverse(CrossedPrice(q, side), q, side) \in Int
    BY <2>2 DEF Adverse
  <2> DEFINE cross == Adverse(CrossedPrice(q, side), q, side)
  <2> HIDE DEF k, adv, price
  <2>6. spread \in Int /\ adv * k \in Int /\ adv * k >= 0
    <3>1. cross \in Int
      BY <2>5
    <3>2. spread = cross * k
      OBVIOUS
    <3> HIDE DEF cross, spread
    <3>3. cross * k \in Int /\ adv * k \in Int
      BY <2>3, <2>4, <3>1
    <3>4. adv * k >= 0
      BY <2>3, <2>4, TimesNat
    <3> QED BY <3>2, <3>3, <3>4
  <2>7. Commission * qty \in Nat
    BY <2>4, FillAssumption
  <2> DEFINE total == adv * k
             comm == Commission * qty
  <2> HIDE DEF total, spread, comm
  <2>8. f.spread = spread /\ f.slip = total - spread /\ f.price = price /\ f.qty = qty
        /\ f.status = "filled" /\ f.commission = comm
    BY DEF total, comm
  <2>9. f \in Fills
    <3>1. total - spread \in Int /\ spread \in Int
      BY <2>6 DEF total
    <3>2. comm \in Nat
      BY <2>7 DEF comm
    <3>3. f = [status |-> "filled", qty |-> qty, price |-> price, spread |-> spread,
               slip |-> total - spread, commission |-> comm]
      BY DEF total, comm
    <3> QED BY <2>2, <2>4, <3>1, <3>2, <3>3 DEF Fills
  <2>10. f.spread + f.slip = total /\ total >= 0
    <3> HIDE DEF f
    <3>1. total \in Int /\ spread \in Int /\ total >= 0
      BY <2>6 DEF total
    <3> QED BY <2>8, <3>1
  <2>11. total = Adverse(f.price, q, side) * (f.qty * Multiplier)
    BY <2>8 DEF total, adv, k
  <2>12. Costed(f, q, side)
    <3> HIDE DEF f
    <3> QED BY <2>10, <2>11 DEF Costed
  <2> QED BY <2>1, <2>8, <2>9, <2>12
<1> QED BY <1>1, <1>2

\* A fill of the engine: priced off the quote of the symbol's next bar after t.
Honest(f, s, side, t) ==
    LET q == tape[s][NextBar(s, t)].quote IN f \in Fills /\ QuoteOk(q) /\ Costed(f, q, side)

\* _attempt_fill fails because the tape has no book for it, ends the run, or fills.
LEMMA AttemptFacts ==
  ASSUME tape \in Tapes, NEW s \in Symbols, NEW side \in Sides, NEW qty \in Int,
         now \in Int
  PROVE  LET f == AttemptFill(s, side, qty, now)
         IN  \/ f.status \in {"no-next-bar", "no-quote"} /\ Unfillable(s)
             \/ f.status = "raised"
             \/ f.status = "filled" /\ f.qty = qty /\ Honest(f, s, side, now)
<1> DEFINE f == AttemptFill(s, side, qty, now)
           first == QuoteForBar(s, now)
           next == QuoteForBar(s, NextBar(s, now))
<1>1. CASE ~HasNextBar(s, now)
  <2>1. f.status = "no-next-bar"
    BY <1>1 DEF AttemptFill, NoFill
  <2> QED BY <1>1, <2>1 DEF Unfillable
<1>2. CASE HasNextBar(s, now) /\ NoQuote \in {first, next}
  <2>1. f.status = "no-quote"
    BY <1>2 DEF AttemptFill, NoFill
  <2> QED BY <1>2, <2>1 DEF Unfillable
<1>3. CASE HasNextBar(s, now) /\ NoQuote \notin {first, next}
  <2> DEFINE from == [bid |-> first.bid, ask |-> first.ask, ts |-> now]
             at == [bid |-> next.bid, ask |-> next.ask, ts |-> now + LatencyTicks]
  <2>1. f = FillWithLatency(from, at, LatencyTicks, side, qty)
    BY <1>3 DEF AttemptFill
  <2>2. next = tape[s][NextBar(s, now)].quote /\ QuoteOk(next)
    <3>1. NextBar(s, now) \in BarTimes(s)
      BY <1>3, NextBarFacts
    <3> QED BY <1>3, <3>1, TapeFacts DEF QuoteForBar
  <2>3. f = MarketableFill(at, side, qty)
    <3>1. at.ts = now + LatencyTicks /\ from.ts = now
      OBVIOUS
    <3>2. ~(at.ts > from.ts + LatencyTicks) /\ ~(at.ts < from.ts)
      BY <3>1, EngineAssumption
    <3> HIDE DEF at, from, f
    <3> QED BY <2>1, <3>2 DEF FillWithLatency
  <2>4. QuoteOk(at)
    BY <2>2 DEF QuoteOk
  <2>5. f = Refused \/ (f \in Fills /\ f.qty = qty /\ Costed(f, at, side))
    <3> HIDE DEF at, f
    <3> QED BY <2>3, <2>4, MarketableFacts
  <2>6. ASSUME f \in Fills, Costed(f, at, side) PROVE Honest(f, s, side, now)
    <3>1. Mid(at) = Mid(next)
      BY DEF Mid
    <3>2. Adverse(f.price, at, side) = Adverse(f.price, next, side)
      <4> HIDE DEF at, f
      <4> QED BY <3>1 DEF Adverse
    <3> HIDE DEF at, f
    <3>3. Costed(f, next, side)
      BY <2>6, <3>2 DEF Costed
    <3> QED BY <2>2, <2>6, <3>3 DEF Honest
  <2>7. Refused.status = "raised"
    BY DEF Refused, NoFill
  <2>8. f \in Fills => f.status = "filled"
    BY DEF Fills
  <2>9. f.status = "raised" \/ (f.status = "filled" /\ f.qty = qty /\ Honest(f, s, side, now))
    <3> HIDE DEF f
    <3> QED BY <2>5, <2>6, <2>7, <2>8
  <2> QED BY <2>9, Zenon
<1> QED BY <1>1, <1>2, <1>3
-----------------------------------------------------------------------------
(* The inductive invariant.                                                 *)

ExitReasons == {"stop", "max_hold", "eod_flatten", "signal_invalidation"}
Reasons == ExitReasons \cup {"end_of_data"}
ExitTimes == Int \cup {Max(DOMAIN tp[s]) : tp \in Tapes, s \in Symbols}
Trades == [symbol : Symbols, side : Sides, qty : Nat \ {0}, risk_per_share : Int,
           entry_ts : Int, entry_px : Int, costs : Fills]
Rows == [symbol : Symbols, side : Sides, qty : Nat \ {0}, entry_ts : Int, entry_px : Int,
         exit_ts : ExitTimes, exit_px : Int, exit_reason : Reasons,
         pnl : Int, friction : Int, commission : Int]

Live == phase \in {"idle", "exits", "signals"}

TypeInv ==
  /\ tape \in Tapes /\ now \in AllTimes \cup {-1}
  /\ phase \in {"idle", "exits", "signals", "done", "failed"}
  /\ todo \in Seq(Symbols) /\ emits \in 0..MaxEmits
  /\ cash \in Int /\ day \in Int /\ day_start \in Int /\ mark \in Int /\ halted \in Int
  /\ emitted \in Nat /\ executed \in Nat /\ counters \in [DROP_STAGES -> Nat]
  /\ last_close \in [Symbols -> Nat]
  /\ \A s \in Symbols : last_close[s] = 0 \/ last_close[s] >= Unit
  /\ Held \subseteq Symbols /\ positions \in [Held -> Trades]
  /\ \A s \in Held : positions[s].symbol = s
  /\ rows \in Seq(Rows)

\* While an instant is handled, what is left to do are bars of that instant.
TodoInv ==
  phase \in {"exits", "signals"} =>
    /\ todo # <<>> /\ now \in Nat
    /\ \A i \in 1..Len(todo) : now \in BarTimes(todo[i])

\* The latch has seen every loss the engine's own test sees.
HaltInv == DailyLossHalt(day_start, Equity, DailyHaltPct) => halted = day

\* A position whose time is over is yet to be checked, or cannot be filled.
Overdue(s) == MaxHold > 0 /\ now \in BarTimes(s) /\ now >= positions[s].entry_ts + MaxHold
OverdueInv ==
  /\ phase = "exits" =>
       \A s \in Held : Overdue(s) => Unfillable(s) \/ \E i \in 1..Len(todo) : todo[i] = s
  /\ phase = "signals" => \A s \in Held : Overdue(s) => Unfillable(s)

\* Entries are stamped in the order of the tape: what is booked was entered before
\* anything the present instant can still enter.
StampInv ==
  Live => /\ \A i \in 1..Len(rows) : rows[i].entry_ts < now + LatencyTicks
          /\ \A s \in Held : positions[s].entry_ts <= now + LatencyTicks
          /\ phase = "exits" => \A s \in Held : positions[s].entry_ts < now + LatencyTicks

\* Every event was executed or dropped, every trade is open or booked.
CountInv ==
  phase # "failed" => /\ emitted = executed + SumFunction(counters)
                      /\ executed = Len(rows) + Cardinality(Held)

\* Cash, ledger and marks agree.
MoneyInv ==
  /\ LedgerReconciles
  /\ phase = "idle" => mark = Equity
  /\ phase = "done" => mark = cash /\ Held = {}

\* The costs of an entry and of a row are what the quotes they met say.
EntryOk(p) ==
  /\ p.costs.price = p.entry_px /\ p.costs.qty = p.qty
  /\ Honest(p.costs, p.symbol, p.side, p.entry_ts - LatencyTicks)
RowExact(r) ==
  LET exitMid == IF r.exit_reason = "end_of_data" THEN r.exit_px
                                                  ELSE MidMet(r.symbol, r.exit_ts)
      move == Direction(r.side) * (exitMid - MidMet(r.symbol, r.entry_ts))
  IN  /\ r.friction >= 0 /\ r.commission >= 0
      /\ r.pnl = move * r.qty * Multiplier - r.friction - r.commission
CostInv ==
  /\ \A s \in Held : EntryOk(positions[s])
  /\ \A i \in 1..Len(rows) : RowExact(rows[i])

EngineInv == /\ TypeInv /\ TodoInv /\ HaltInv /\ OverdueInv /\ StampInv
             /\ CountInv /\ MoneyInv /\ CostInv

-----------------------------------------------------------------------------
(* The steps, with what their guards and their fills come to.               *)

\* A bar whose position, if it has one, stays open.
Kept ==
  /\ ExitsAdvance /\ UNCHANGED booksVars
  /\ Head(todo) \in Held /\ Overdue(Head(todo)) => Unfillable(Head(todo))

\* A bar whose position is closed.
Exited ==
  \E fill \in Fills, reason \in ExitReasons :
    LET s == Head(todo)
        p == positions[s]
    IN  /\ s \in Held /\ fill.qty = p.qty /\ Honest(fill, s, Opposite(p.side), now)
        /\ cash' = cash - Outlay(Opposite(p.side), fill)
        /\ positions' = Restrict(positions, Held \ {s})
        /\ rows' = Append(rows, TradeRow(p, now + LatencyTicks, fill.price, reason, fill))
        /\ UNCHANGED <<executed, counters, emitted>>
        /\ ExitsAdvance

\* A refused quote ends the run.
ExitRaised == phase' = "failed" /\ UNCHANGED <<todo, booksVars>>

ExitStep == /\ phase = "exits" /\ UNCHANGED <<emits, clockVars>>
            /\ Kept \/ Exited \/ ExitRaised

\* An event that opens a position.
Entered ==
  \E s \in Symbols, side \in Sides, fill \in Fills :
    /\ s \notin Held /\ Honest(fill, s, side, now)
    /\ cash' = cash - Outlay(side, fill)
    /\ positions' = [r \in Held \cup {s} |-> IF r # s THEN positions[r]
         ELSE [symbol |-> s, side |-> side, qty |-> fill.qty,
               risk_per_share |-> RiskPerShare(last_close[s]),
               entry_ts |-> now + LatencyTicks, entry_px |-> fill.price, costs |-> fill]]
    /\ executed' = executed + 1
    /\ UNCHANGED <<phase, rows, counters>>

DroppedOne ==
  /\ \E stage \in DROP_STAGES : counters' = [counters EXCEPT ![stage] = @ + 1]
  /\ UNCHANGED <<phase, positions, cash, rows, executed>>

SignalRaised == phase' = "failed" /\ UNCHANGED <<positions, cash, rows, executed, counters>>

SignalStep ==
  /\ phase = "signals" /\ emits < MaxEmits /\ emits' = emits + 1 /\ emitted' = emitted + 1
  /\ UNCHANGED <<todo, clockVars>>
  /\ Entered \/ DroppedOne \/ SignalRaised

FinishStep == \E stranded \in Bijection(1..Cardinality(Held), Held) : Finish(stranded)

\* The symbols are finitely many, so a book of positions can be summed.
LEMMA SymbolsFinite == IsFiniteSet(Symbols)
<1> DEFINE N == Len(SymbolOrder)
<1>1. N \in Nat /\ SymbolOrder \in [1..N -> Symbols] /\ DOMAIN SymbolOrder = 1..N
  BY TapeAssumption
<1>2. SymbolOrder \in Surjection(1..N, Symbols)
  BY <1>1 DEF Surjection, Symbols
<1>3. IsFiniteSet(1..N)
  BY <1>1, FS_Interval
<1> QED BY <1>2, <1>3, FS_Surjection DEF ExistsSurjection

\* A finite set of integers is what a book of trades is worth.
LEMMA ValueInt ==
  ASSUME NEW D, D \subseteq Symbols, NEW pos \in [D -> Trades], NEW close \in [Symbols -> Nat],
         NEW c \in Int
  PROVE  Value(pos, close) \in [D -> Int] /\ EquityOf(c, pos, close) \in Int
<1>1. \A s \in D : Direction(pos[s].side) * pos[s].qty * close[s] * Multiplier \in Int
  <2>1. TAKE s \in D
  <2>2. pos[s].qty \in Nat /\ close[s] \in Nat
    BY DEF Trades
  <2>3. Direction(pos[s].side) \in Int
    BY DEF Direction
  <2> QED BY <2>2, <2>3, FillAssumption
<1>2. Value(pos, close) \in [D -> Int]
  BY <1>1 DEF Value
<1>3. IsFiniteSet(D)
  BY SymbolsFinite, FS_Subset
<1>4. SumFunction(Value(pos, close)) \in Int
  BY <1>2, <1>3, SumInt
<1> QED BY <1>2, <1>4 DEF EquityOf

\* _equity answers an integer.
LEMMA EquityInt == TypeInv => Equity \in Int /\ IsFiniteSet(Held)
<1>1. SUFFICES ASSUME TypeInv PROVE Equity \in Int /\ IsFiniteSet(Held)
  OBVIOUS
<1>2. Held \subseteq Symbols /\ positions \in [Held -> Trades] /\ last_close \in [Symbols -> Nat]
      /\ cash \in Int
  BY <1>1 DEF TypeInv
<1>3. Equity \in Int
  BY <1>2, ValueInt DEF Equity
<1> QED BY <1>2, <1>3, SymbolsFinite, FS_Subset

\* _check_exits: the position is kept, closed, or the run ends.
LEMMA ExitCases ==
  ASSUME TypeInv, TodoInv, NEW invalidated \in BOOLEAN, CheckExits(invalidated)
  PROVE  ExitStep
<1> DEFINE s == Head(todo)
           p == positions[s]
           reason == IF s \notin Held THEN ""
                     ELSE ExitReason(p, tape[s][now], now, invalidated)
           fill == AttemptFill(s, Opposite(p.side), p.qty, now)
<1>1. phase = "exits" /\ UNCHANGED <<emits, clockVars>>
  BY DEF CheckExits
<1>2. s \in Symbols /\ tape \in Tapes /\ now \in Nat /\ todo # <<>> /\ now \in BarTimes(s)
  BY <1>1 DEF TypeInv, TodoInv
<1>3. CASE reason = ""
  <2>1. ExitsAdvance /\ UNCHANGED booksVars
    BY <1>3 DEF CheckExits
  <2>2. ~(s \in Held /\ Overdue(s))
    <3>1. SUFFICES ASSUME s \in Held, Overdue(s) PROVE FALSE
      OBVIOUS
    <3>2. p \in Trades
      BY <3>1 DEF TypeInv
    <3>3. p.entry_ts \in Int
      BY <3>2 DEF Trades
    <3>4. MaxHoldHit(p, now)
      BY <3>1, <3>3, <1>2, EngineAssumption DEF Overdue, MaxHoldHit
    <3> QED BY <1>3, <3>1, <3>4 DEF ExitReason
  <2> QED BY <1>1, <2>1, <2>2 DEF ExitStep, Kept
<1>4. CASE reason # ""
  <2>1. s \in Held /\ reason \in ExitReasons
    BY <1>4 DEF ExitReason, ExitReasons
  <2>2. p \in Trades
    BY <2>1 DEF TypeInv
  <2>3. p.qty \in Int /\ Opposite(p.side) \in Sides
    BY <2>2 DEF Trades, Opposite, Sides
  <2>4. \/ fill.status \in {"no-next-bar", "no-quote"} /\ Unfillable(s)
        \/ fill.status = "raised"
        \/ fill.status = "filled" /\ fill.qty = p.qty /\ Honest(fill, s, Opposite(p.side), now)
    <3> HIDE DEF p, s
    <3> QED BY <1>2, <2>3, AttemptFacts
  <2>5. CASE fill.status = "raised"
    <3>1. phase' = "failed" /\ UNCHANGED <<todo, booksVars>>
      BY <1>4, <2>5 DEF CheckExits
    <3> QED BY <1>1, <3>1 DEF ExitStep, ExitRaised
  <2>6. CASE fill.status = "filled"
    <3>1. /\ cash' = cash - Outlay(Opposite(p.side), fill)
          /\ positions' = Restrict(positions, Held \ {s})
          /\ rows' = Append(rows, TradeRow(p, now + LatencyTicks, fill.price, reason, fill))
          /\ UNCHANGED <<executed, counters, emitted>>
          /\ ExitsAdvance
      BY <1>4, <2>6 DEF CheckExits
    <3>2. fill \in Fills /\ fill.qty = p.qty /\ Honest(fill, s, Opposite(p.side), now)
      BY <2>4, <2>6 DEF Honest
    <3>3. Exited
      <4> HIDE DEF fill, reason
      <4> QED BY <2>1, <3>1, <3>2 DEF Exited
    <3> QED BY <1>1, <3>3 DEF ExitStep
  <2>7. CASE fill.status \notin {"raised", "filled"}
    <3>1. ExitsAdvance /\ UNCHANGED booksVars
      BY <1>4, <2>7 DEF CheckExits
    <3>2. Unfillable(s)
      BY <2>4, <2>7
    <3> QED BY <1>1, <3>1, <3>2 DEF ExitStep, Kept
  <2> QED BY <2>5, <2>6, <2>7
<1> QED BY <1>3, <1>4

\* _process_signal: the event is dropped, opens a position, or ends the run.
LEMMA SignalCases ==
  ASSUME TypeInv, TodoInv, NEW s \in Symbols, NEW side \in Sides, NEW c \in Convictions,
         NEW admitted \in BOOLEAN, ProcessSignal(s, side, c, admitted)
  PROVE  SignalStep
<1> DEFINE stage == DropStage(s, c, admitted)
           qty == Min({SizerQty(c, last_close[s], Equity), CapQty(last_close[s], Equity)})
           fill == AttemptFill(s, side, qty, now)
<1>1. /\ phase = "signals" /\ emits < MaxEmits /\ emits' = emits + 1 /\ emitted' = emitted + 1
      /\ UNCHANGED <<todo, clockVars>>
  BY DEF ProcessSignal
<1>2. tape \in Tapes /\ now \in Nat
  BY <1>1 DEF TypeInv, TodoInv
<1>3. CASE stage # ""
  <2>1. stage \in DROP_STAGES
    BY <1>3 DEF DropStage, DROP_STAGES
  <2>2. Dropped(stage)
    BY <1>3 DEF ProcessSignal
  <2> HIDE DEF stage
  <2>3. DroppedOne
    BY <2>1, <2>2 DEF Dropped, DroppedOne
  <2> QED BY <1>1, <2>3 DEF SignalStep
<1>4. CASE stage = ""
  <2>1. s \notin Held /\ last_close[s] # 0
    BY <1>4 DEF DropStage
  <2>2. qty \in Int
    <3> DEFINE ref == last_close[s]
               eq == Equity
    <3>1. ref \in Nat \ {0} /\ ref >= 20000 /\ eq \in Int
      BY <2>1, EquityInt DEF TypeInv, Unit
    <3>2. CapQty(ref, eq) \in Int
      <4> HIDE DEF ref, eq
      <4>1. ref * Multiplier \in Nat \ {0}
        BY <3>1, FillAssumption
      <4> DEFINE m == ref * Multiplier
      <4> HIDE DEF m
      <4>2. m \in Nat \ {0}
        BY <4>1 DEF m
      <4>3. eq \div m \in Int
        BY <3>1, <4>2
      <4> QED BY <4>3 DEF CapQty, m
    <3>3. SizerQty(c, ref, eq) \in Int
      <4> HIDE DEF ref, eq
      <4> DEFINE n == eq * PerTradeCapPct * c
                 risk == RiskPerShare(ref)
      <4>1. n \in Int
        BY <3>1, EngineAssumption
      <4>2. risk \in Nat \ {0}
        <5> DEFINE w == ref * RiskRPct
        <5>1. w \in Nat /\ w >= 20000
          BY <3>1, EngineAssumption, TimesGrows
        <5> HIDE DEF w
        <5>2. w \div 100 \in Nat \ {0}
          BY <5>1
        <5> QED BY <5>2 DEF RiskPerShare, w
      <4> HIDE DEF n, risk
      <4> DEFINE d == 400 * risk * Multiplier
      <4>3. d \in Nat \ {0}
        BY <4>2, FillAssumption
      <4> HIDE DEF d
      <4>4. n \div d \in Int
        BY <4>1, <4>3
      <4> QED BY <4>4 DEF SizerQty, n, risk, d
    <3> HIDE DEF ref, eq
    <3>4. Min({SizerQty(c, ref, eq), CapQty(ref, eq)}) \in Int
      BY <3>2, <3>3, MinPairInt
    <3> QED BY <3>4 DEF ref, eq
  <2> HIDE DEF qty
  <2>3. \/ fill.status \in {"no-next-bar", "no-quote"} /\ Unfillable(s)
        \/ fill.status = "raised"
        \/ fill.status = "filled" /\ fill.qty = qty /\ Honest(fill, s, side, now)
    BY <1>2, <2>2, AttemptFacts
  <2>4. CASE fill.status = "raised"
    <3>1. phase' = "failed" /\ UNCHANGED <<positions, cash, rows, executed, counters>>
      BY <1>4, <2>4 DEF ProcessSignal, qty
    <3> QED BY <1>1, <3>1 DEF SignalStep, SignalRaised
  <2>5. CASE fill.status = "no-quote"
    <3>1. Dropped("no-quote")
      BY <1>4, <2>5 DEF ProcessSignal, qty
    <3>2. DroppedOne
      BY <3>1 DEF Dropped, DroppedOne, DROP_STAGES
    <3> QED BY <1>1, <3>2 DEF SignalStep
  <2>6. CASE fill.status = "no-next-bar"
    <3>1. Dropped("latency-no-fill")
      BY <1>4, <2>6 DEF ProcessSignal, qty
    <3>2. DroppedOne
      BY <3>1 DEF Dropped, DroppedOne, DROP_STAGES
    <3> QED BY <1>1, <3>2 DEF SignalStep
  <2>7. CASE fill.status = "filled"
    <3>1. Opened(s, side, c, fill)
      BY <1>4, <2>7 DEF ProcessSignal, qty
    <3>2. fill \in Fills /\ Honest(fill, s, side, now)
      BY <2>3, <2>7 DEF Honest
    <3>3. Entered
      <4> HIDE DEF fill
      <4> QED BY <2>1, <3>1, <3>2 DEF Opened, Entered
    <3> QED BY <1>1, <3>3 DEF SignalStep
  <2> QED BY <2>3, <2>4, <2>5, <2>6, <2>7
<1> QED BY <1>3, <1>4

\* Every step of the engine is one of these.
LEMMA EngineCases ==
  ASSUME TypeInv, TodoInv, EngineNext
  PROVE  NextGroup \/ ExitStep \/ SignalStep \/ BarDone \/ FinishStep
<1>1. CASE \E invalidated \in BOOLEAN : CheckExits(invalidated)
  BY <1>1, ExitCases
<1>2. CASE \E s \in Symbols, side \in {BUY, SELL}, c \in Convictions, admitted \in BOOLEAN :
             ProcessSignal(s, side, c, admitted)
  BY <1>2, SignalCases DEF Sides
<1>3. CASE FinishStep
  BY <1>3
<1> QED BY <1>1, <1>2, <1>3 DEF EngineNext, FinishStep

-----------------------------------------------------------------------------
(* Types.                                                                   *)

\* Every instant of the tape of a run is a natural.
LEMMA TimesNatural == TypeInv => AllTimes \subseteq Nat
BY TapeFacts DEF TypeInv, AllTimes

\* The instant a group is taken at.
LEMMA NextTime ==
  ASSUME TypeInv, Later(AllTimes, now) # {}
  PROVE  /\ Min(Later(AllTimes, now)) \in AllTimes /\ Min(Later(AllTimes, now)) \in Nat
         /\ Min(Later(AllTimes, now)) > now
<1> DEFINE L == Later(AllTimes, now)
<1>1. L # {} /\ L \subseteq Nat /\ AllTimes \subseteq Nat
  BY TimesNatural DEF Later
<1>2. \E k \in L : \A j \in L : k <= j
  <2> HIDE DEF L
  <2> QED BY <1>1, LeastNat
<1>3. Min(L) \in L
  BY <1>2 DEF Min
<1> QED BY <1>1, <1>3 DEF Later

\* A group holds a bar of every symbol that trades at the instant, and no other.
LEMMA GroupFacts ==
  ASSUME TypeInv, NEW t \in AllTimes
  PROVE  /\ Group(t) \in Seq(Symbols) /\ Group(t) # <<>>
         /\ \A i \in 1..Len(Group(t)) : t \in BarTimes(Group(t)[i])
         /\ \A s \in Symbols : t \in BarTimes(s) => \E i \in 1..Len(Group(t)) : Group(t)[i] = s
<1> DEFINE S == {s \in Symbols : t \in BarTimes(s)}
<1>1. S \subseteq Symbols /\ Group(t) = InOrder(S)
  BY DEF Group
<1> HIDE DEF S
<1>2. Group(t) \in Seq(S) /\ \A s \in S : \E i \in 1..Len(Group(t)) : Group(t)[i] = s
  BY <1>1, InOrderLists
<1> DEFINE g == Group(t)
<1>3. g \in Seq(S) /\ \A s \in S : \E i \in 1..Len(g) : g[i] = s
  BY <1>2
<1> HIDE DEF g
<1>4. \A i \in 1..Len(g) : g[i] \in S
  BY <1>3
<1>5. g \in Seq(Symbols)
  BY <1>1, <1>3, <1>4
<1>6. PICK s0 \in S : TRUE
  BY DEF AllTimes, S
<1>7. g # <<>>
  <2>1. PICK i \in 1..Len(g) : g[i] = s0
    BY <1>3, <1>6
  <2>2. Len(<<>>) = 0
    OBVIOUS
  <2> QED BY <2>1, <2>2
<1> QED BY <1>3, <1>4, <1>5, <1>7 DEF S, g

\* What a booked trade becomes.
LEMMA RowTyped ==
  ASSUME NEW p \in Trades, NEW exitTs \in ExitTimes, NEW px \in Int, NEW reason \in Reasons,
         NEW costs, costs.spread \in Int, costs.slip \in Int, costs.commission \in Int
  PROVE  TradeRow(p, exitTs, px, reason, costs) \in Rows
<1>1. /\ p.symbol \in Symbols /\ p.side \in Sides /\ p.qty \in Nat \ {0} /\ p.entry_ts \in Int
      /\ p.entry_px \in Int /\ p.costs \in Fills
  BY DEF Trades
<1>2. p.costs.commission \in Int /\ p.costs.spread \in Int /\ p.costs.slip \in Int
  BY <1>1 DEF Fills
<1> DEFINE value == Direction(p.side) * (px - p.entry_px) * p.qty * Multiplier
<1>3. value \in Int
  <2>1. Direction(p.side) \in Int
    BY DEF Direction
  <2> QED BY <1>1, <2>1, FillAssumption
<1> DEFINE comm == p.costs.commission + costs.commission
           fric == p.costs.spread + p.costs.slip + costs.spread + costs.slip
<1>4. comm \in Int /\ fric \in Int
  BY <1>2
<1>5. TradeRow(p, exitTs, px, reason, costs) =
        [symbol |-> p.symbol, side |-> p.side, qty |-> p.qty,
         entry_ts |-> p.entry_ts, entry_px |-> p.entry_px,
         exit_ts |-> exitTs, exit_px |-> px, exit_reason |-> reason,
         pnl |-> value - comm, friction |-> fric, commission |-> comm]
  BY DEF TradeRow
<1> HIDE DEF value, comm, fric
<1>6. value - comm \in Int
  BY <1>3, <1>4
<1> QED BY <1>1, <1>4, <1>5, <1>6 DEF Rows

\* What a position becomes when it is opened.
LEMMA TradeTyped ==
  ASSUME NEW s \in Symbols, NEW side \in Sides, NEW fill \in Fills, NEW t \in Int,
         NEW ref \in Nat
  PROVE  [symbol |-> s, side |-> side, qty |-> fill.qty, risk_per_share |-> RiskPerShare(ref),
          entry_ts |-> t, entry_px |-> fill.price, costs |-> fill] \in Trades
<1>1. fill.qty \in Nat \ {0} /\ fill.price \in Int
  BY DEF Fills
<1>2. RiskPerShare(ref) \in Int
  <2> DEFINE w == ref * RiskRPct
  <2>1. w \in Int
    BY EngineAssumption
  <2> HIDE DEF w
  <2>2. w \div 100 \in Int
    BY <2>1
  <2> QED BY <2>2 DEF RiskPerShare, w
<1> DEFINE risk == RiskPerShare(ref)
<1> HIDE DEF risk
<1>3. [symbol |-> s, side |-> side, qty |-> fill.qty, risk_per_share |-> risk,
       entry_ts |-> t, entry_px |-> fill.price, costs |-> fill] \in Trades
  BY <1>1, <1>2 DEF Trades, risk
<1> QED BY <1>3 DEF risk

\* What a fill takes from cash is an integer.
LEMMA OutlayInt ==
  ASSUME NEW side, NEW fill, fill.price \in Int, fill.qty \in Int, fill.commission \in Int
  PROVE  Outlay(side, fill) \in Int
<1>1. Direction(side) \in Int
  BY DEF Direction
<1>2. Direction(side) * fill.price * fill.qty * Multiplier \in Int
  BY <1>1, FillAssumption
<1> QED BY <1>2 DEF Outlay

\* The engine starts with empty books.
LEMMA EngineStart == HaltInit => TypeInv /\ TodoInv
<1>1. SUFFICES ASSUME HaltInit PROVE TypeInv /\ TodoInv
  OBVIOUS
<1>2. Held = {}
  BY <1>1 DEF HaltInit, EngineInit, Held
<1>3. positions \in [Held -> Trades]
  BY <1>1, <1>2 DEF HaltInit, EngineInit, Held
<1>4. InitialEquity * Unit \in Int
  BY EngineAssumption DEF Unit
<1>5. [d \in DROP_STAGES |-> 0] \in [DROP_STAGES -> Nat] /\ 0 \in 0..MaxEmits
  BY EngineAssumption
<1>6. [s \in Symbols |-> 0] \in [Symbols -> Nat]
  OBVIOUS
<1> QED BY <1>1, <1>2, <1>3, <1>4, <1>5, <1>6 DEF HaltInit, EngineInit, TypeInv, TodoInv

\* The part of the type that the clock and the books share out.
BooksTyped ==
  /\ cash \in Int /\ emitted \in Nat /\ executed \in Nat /\ counters \in [DROP_STAGES -> Nat]
  /\ Held \subseteq Symbols /\ positions \in [Held -> Trades]
  /\ \A s \in Held : positions[s].symbol = s
  /\ rows \in Seq(Rows)
ClockTyped ==
  /\ tape \in Tapes /\ now \in AllTimes \cup {-1}
  /\ day \in Int /\ day_start \in Int /\ mark \in Int
  /\ last_close \in [Symbols -> Nat]
  /\ \A s \in Symbols : last_close[s] = 0 \/ last_close[s] >= Unit
LoopTyped ==
  /\ phase \in {"idle", "exits", "signals", "done", "failed"}
  /\ todo \in Seq(Symbols) /\ emits \in 0..MaxEmits

\* The type is its three parts.
LEMMA TypeParts == TypeInv <=> BooksTyped /\ ClockTyped /\ LoopTyped /\ halted \in Int
BY DEF TypeInv, BooksTyped, ClockTyped, LoopTyped

\* A step that leaves the books alone leaves them typed.
LEMMA BooksSame == BooksTyped /\ UNCHANGED booksVars => BooksTyped'
BY DEF BooksTyped, booksVars, Held

\* A step that leaves the clock alone leaves it typed.
LEMMA ClockSame == ClockTyped /\ UNCHANGED clockVars => ClockTyped'
BY DEF ClockTyped, clockVars, AllTimes, BarTimes

\* The latch follows the day.
LEMMA HaltTyped == halted \in Int /\ day' \in Int /\ halted' = Observed => halted' \in Int
BY DEF Observed, ObserveHalt

\* The types after the marks of a new instant.
LEMMA NextGroupTyped ==
  ASSUME TypeInv, NextGroup
  PROVE  BooksTyped' /\ ClockTyped' /\ LoopTyped' /\ TodoInv'
<1> DEFINE t == Min(Later(AllTimes, now))
           close == [s \in Symbols |->
                       IF t \in BarTimes(s) THEN tape[s][t].close * Unit ELSE last_close[s]]
<1>0. BooksTyped /\ ClockTyped /\ LoopTyped
  BY TypeParts
<1>1. t \in AllTimes /\ t \in Nat /\ t > now
  BY NextTime DEF NextGroup
<1>2. now' = t /\ todo' = Group(t) /\ last_close' = close /\ day' = DayOf(t) /\ phase' = "exits"
  BY DEF NextGroup
<1>3. UNCHANGED <<tape, emits, mark>> /\ UNCHANGED booksVars
  BY DEF NextGroup
<1>4. close \in [Symbols -> Nat] /\ \A s \in Symbols : close[s] = 0 \/ close[s] >= Unit
  <2>1. ASSUME NEW s \in Symbols PROVE close[s] \in Nat /\ (close[s] = 0 \/ close[s] >= Unit)
    <3>1. CASE t \in BarTimes(s)
      <4>1. tape[s][t].close \in Nat \ {0}
        BY <3>1, TapeFacts DEF TypeInv
      <4>2. close[s] = tape[s][t].close * 20000
        BY <3>1 DEF Unit
      <4> HIDE DEF close, t
      <4> QED BY <4>1, <4>2 DEF Unit
    <3>2. CASE t \notin BarTimes(s)
      BY <3>2 DEF TypeInv
    <3> QED BY <3>1, <3>2
  <2> QED BY <2>1
<1> HIDE DEF close
<1>5. EquityOf(cash, positions, close) \in Int
  BY <1>4, ValueInt DEF TypeInv
<1>6. day_start' \in Int
  BY <1>2, <1>3, <1>5 DEF NextGroup, TypeInv
<1>7. DayOf(t) \in Int
  <2> HIDE DEF t
  <2> QED BY <1>1, EngineAssumption DEF DayOf
<1>8. ClockTyped'
  <2>1. AllTimes' = AllTimes
    BY <1>3 DEF AllTimes, BarTimes
  <2> HIDE DEF t
  <2> QED BY <1>0, <1>1, <1>2, <1>3, <1>4, <1>6, <1>7, <2>1 DEF ClockTyped
<1>9. BooksTyped'
  BY <1>0, <1>3, BooksSame
<1>10. /\ Group(t) \in Seq(Symbols) /\ Group(t) # <<>>
       /\ \A i \in 1..Len(Group(t)) : t \in BarTimes(Group(t)[i])
  <2> HIDE DEF t
  <2> QED BY <1>1, GroupFacts
<1>11. LoopTyped'
  BY <1>0, <1>2, <1>3, <1>10 DEF LoopTyped
<1>12. TodoInv'
  BY <1>1, <1>2, <1>3, <1>10 DEF TodoInv, BarTimes
<1> QED BY <1>8, <1>9, <1>11, <1>12

\* The next bar of the exits, or the first of the signals.
LEMMA AdvanceTyped ==
  ASSUME TypeInv, TodoInv, phase = "exits", ExitsAdvance, UNCHANGED <<emits, clockVars>>
  PROVE  LoopTyped' /\ TodoInv'
<1>1. todo \in Seq(Symbols) /\ todo # <<>> /\ now \in Nat /\ now \in AllTimes
      /\ \A i \in 1..Len(todo) : now \in BarTimes(todo[i])
  BY DEF TypeInv, TodoInv
<1>2. UNCHANGED <<tape, now>> /\ emits' = emits
  BY DEF clockVars
<1>3. CASE Len(todo) = 1
  <2>1. todo' = Group(now) /\ phase' = "signals"
    BY <1>3 DEF ExitsAdvance
  <2>2. /\ Group(now) \in Seq(Symbols) /\ Group(now) # <<>>
        /\ \A i \in 1..Len(Group(now)) : now \in BarTimes(Group(now)[i])
    BY <1>1, GroupFacts
  <2> QED BY <1>1, <1>2, <2>1, <2>2 DEF LoopTyped, TodoInv, TypeInv, BarTimes
<1>4. CASE Len(todo) # 1
  <2>1. todo' = Tail(todo) /\ phase' = "exits"
    BY <1>4 DEF ExitsAdvance
  <2>2. Tail(todo) \in Seq(Symbols) /\ Len(Tail(todo)) = Len(todo) - 1 /\ Len(todo) \in Nat
    BY <1>1
  <2>3. Tail(todo) # <<>>
    <3>1. Len(todo) # 0
      BY <1>1
    <3>2. Len(<<>>) = 0
      OBVIOUS
    <3>3. Len(Tail(todo)) # 0
      BY <1>1, <1>4, <2>2, <3>1
    <3> QED BY <3>2, <3>3
  <2>4. \A i \in 1..Len(Tail(todo)) : Tail(todo)[i] = todo[i + 1] /\ i + 1 \in 1..Len(todo)
    BY <1>1, <2>2
  <2> QED BY <1>1, <1>2, <2>1, <2>2, <2>3, <2>4 DEF LoopTyped, TodoInv, TypeInv, BarTimes
<1> QED BY <1>3, <1>4

\* The types after the exits of one bar.
LEMMA ExitTyped ==
  ASSUME TypeInv, TodoInv, ExitStep
  PROVE  BooksTyped' /\ ClockTyped' /\ LoopTyped' /\ TodoInv'
<1>0. BooksTyped /\ ClockTyped /\ LoopTyped
  BY TypeParts
<1>1. phase = "exits" /\ UNCHANGED <<emits, clockVars>>
  BY DEF ExitStep
<1>2. ClockTyped'
  BY <1>0, <1>1, ClockSame
<1>3. CASE ExitRaised
  <2>1. phase' = "failed" /\ UNCHANGED <<todo, emits>> /\ UNCHANGED booksVars
    BY <1>1, <1>3 DEF ExitRaised
  <2>2. BooksTyped'
    BY <1>0, <2>1, BooksSame
  <2> QED BY <1>0, <1>2, <2>1, <2>2 DEF LoopTyped, TodoInv
<1>4. CASE Kept
  <2>1. BooksTyped'
    BY <1>0, <1>4, BooksSame DEF Kept
  <2>2. LoopTyped' /\ TodoInv'
    BY <1>1, <1>4, AdvanceTyped DEF Kept
  <2> QED BY <1>2, <2>1, <2>2
<1>5. CASE Exited
  <2> DEFINE s == Head(todo)
             p == positions[s]
  <2>1. PICK fill \in Fills, reason \in ExitReasons :
          /\ s \in Held /\ fill.qty = p.qty /\ Honest(fill, s, Opposite(p.side), now)
          /\ cash' = cash - Outlay(Opposite(p.side), fill)
          /\ positions' = Restrict(positions, Held \ {s})
          /\ rows' = Append(rows, TradeRow(p, now + LatencyTicks, fill.price, reason, fill))
          /\ UNCHANGED <<executed, counters, emitted>>
          /\ ExitsAdvance
    BY <1>5 DEF Exited
  <2>2. LoopTyped' /\ TodoInv'
    BY <1>1, <2>1, AdvanceTyped
  <2>3. p \in Trades /\ s \in Held
    BY <1>0, <2>1 DEF BooksTyped
  <2> HIDE DEF p, s
  <2>4. fill.price \in Int /\ fill.qty \in Int /\ fill.commission \in Int
        /\ fill.spread \in Int /\ fill.slip \in Int
    BY DEF Fills
  <2>5. cash' \in Int
    <3>1. Outlay(Opposite(p.side), fill) \in Int
      BY <2>4, OutlayInt
    <3> QED BY <1>0, <2>1, <3>1 DEF BooksTyped
  <2>6. TradeRow(p, now + LatencyTicks, fill.price, reason, fill) \in Rows
    <3>1. now + LatencyTicks \in ExitTimes
      BY <1>1, EngineAssumption DEF TodoInv, ExitTimes
    <3>2. reason \in Reasons
      BY DEF Reasons
    <3> QED BY <2>3, <2>4, <3>1, <3>2, RowTyped
  <2>7. rows' \in Seq(Rows)
    BY <1>0, <2>1, <2>6 DEF BooksTyped
  <2>8. Held' = Held \ {s} /\ positions' = [r \in Held \ {s} |-> positions[r]]
    BY <2>1 DEF Held, Restrict
  <2>9. BooksTyped'
    <3>1. Held' \subseteq Symbols /\ positions' \in [Held' -> Trades]
          /\ \A r \in Held' : positions'[r].symbol = r
      <4>1. Held \subseteq Symbols /\ positions \in [Held -> Trades]
            /\ \A r \in Held : positions[r].symbol = r
        BY <1>0 DEF BooksTyped
      <4> DEFINE D == Held \ {s}
      <4>2. [r \in D |-> positions[r]] \in [D -> Trades]
        BY <4>1
      <4>3. D \subseteq Symbols /\ \A r \in D : [x \in D |-> positions[x]][r].symbol = r
        BY <4>1
      <4> HIDE DEF D
      <4>4. Held' = D /\ positions' = [r \in D |-> positions[r]]
        BY <2>8 DEF D
      <4> QED BY <4>2, <4>3, <4>4
    <3> QED BY <1>0, <2>1, <2>5, <2>7, <3>1 DEF BooksTyped
  <2> QED BY <1>2, <2>2, <2>9
<1> QED BY <1>3, <1>4, <1>5 DEF ExitStep

\* The types after one event of a signal.
LEMMA SignalTyped ==
  ASSUME TypeInv, TodoInv, SignalStep
  PROVE  BooksTyped' /\ ClockTyped' /\ LoopTyped' /\ TodoInv'
<1>0. BooksTyped /\ ClockTyped /\ LoopTyped
  BY TypeParts
<1>1. phase = "signals" /\ emits < MaxEmits /\ emits' = emits + 1 /\ emitted' = emitted + 1
      /\ UNCHANGED <<todo, clockVars>>
  BY DEF SignalStep
<1>2. ClockTyped'
  BY <1>0, <1>1, ClockSame
<1>3. phase' \in {phase, "failed"}
  BY DEF SignalStep, Entered, DroppedOne, SignalRaised
<1>4. LoopTyped'
  <2>1. emits' \in 0..MaxEmits
    BY <1>0, <1>1, EngineAssumption DEF LoopTyped
  <2> QED BY <1>0, <1>1, <1>3, <2>1 DEF LoopTyped
<1>5. TodoInv'
  <2>1. UNCHANGED <<tape, now, todo>>
    BY <1>1 DEF clockVars
  <2> QED BY <1>1, <1>3, <2>1 DEF TodoInv, BarTimes
<1>6. emitted' \in Nat
  BY <1>0, <1>1 DEF BooksTyped
<1>7. CASE SignalRaised
  BY <1>0, <1>2, <1>4, <1>5, <1>6, <1>7 DEF SignalRaised, BooksTyped, Held
<1>8. CASE DroppedOne
  <2>1. PICK stage \in DROP_STAGES : counters' = [counters EXCEPT ![stage] = @ + 1]
    BY <1>8 DEF DroppedOne
  <2>2. counters' \in [DROP_STAGES -> Nat]
    BY <1>0, <2>1 DEF BooksTyped
  <2> QED BY <1>0, <1>2, <1>4, <1>5, <1>6, <1>8, <2>2 DEF DroppedOne, BooksTyped, Held
<1>9. CASE Entered
  <2>1. PICK s \in Symbols, side \in Sides, fill \in Fills :
          /\ s \notin Held /\ Honest(fill, s, side, now)
          /\ cash' = cash - Outlay(side, fill)
          /\ positions' = [r \in Held \cup {s} |-> IF r # s THEN positions[r]
               ELSE [symbol |-> s, side |-> side, qty |-> fill.qty,
                     risk_per_share |-> RiskPerShare(last_close[s]),
                     entry_ts |-> now + LatencyTicks, entry_px |-> fill.price, costs |-> fill]]
          /\ executed' = executed + 1
          /\ UNCHANGED <<phase, rows, counters>>
    BY <1>9 DEF Entered
  <2> DEFINE p == [symbol |-> s, side |-> side, qty |-> fill.qty,
                   risk_per_share |-> RiskPerShare(last_close[s]),
                   entry_ts |-> now + LatencyTicks, entry_px |-> fill.price, costs |-> fill]
  <2>2. p \in Trades /\ p.symbol = s
    <3>1. last_close[s] \in Nat /\ now + LatencyTicks \in Int
      BY <1>0, <1>1, EngineAssumption DEF ClockTyped, TodoInv
    <3>2. p \in Trades
      <4> DEFINE ts == now + LatencyTicks
                 ref == last_close[s]
      <4>1. ts \in Int /\ ref \in Nat
        BY <3>1
      <4> HIDE DEF ts, ref
      <4>2. [symbol |-> s, side |-> side, qty |-> fill.qty, risk_per_share |-> RiskPerShare(ref),
             entry_ts |-> ts, entry_px |-> fill.price, costs |-> fill] \in Trades
        BY <4>1, TradeTyped
      <4> QED BY <4>2 DEF ts, ref
    <3> QED BY <3>2
  <2> DEFINE D == Held \cup {s}
  <2>3. positions' = [r \in D |-> IF r # s THEN positions[r] ELSE p]
    BY <2>1
  <2> HIDE DEF p
  <2>4. Held' = D
    BY <2>3 DEF Held
  <2>5. /\ D \subseteq Symbols /\ positions' \in [D -> Trades]
        /\ \A r \in D : positions'[r].symbol = r
    BY <1>0, <2>1, <2>2, <2>3 DEF BooksTyped
  <2>6. cash' \in Int
    <3>1. Outlay(side, fill) \in Int
      BY OutlayInt DEF Fills
    <3> QED BY <1>0, <2>1, <3>1 DEF BooksTyped
  <2>7. BooksTyped'
    <3> HIDE DEF D
    <3>1. executed' \in Nat /\ counters' \in [DROP_STAGES -> Nat] /\ rows' \in Seq(Rows)
      BY <1>0, <2>1 DEF BooksTyped
    <3> QED BY <1>6, <2>4, <2>5, <2>6, <3>1 DEF BooksTyped
  <2> QED BY <1>2, <1>4, <1>5, <2>7
<1> QED BY <1>7, <1>8, <1>9 DEF SignalStep

\* The types after the last event of a bar.
LEMMA BarDoneTyped ==
  ASSUME TypeInv, TodoInv, BarDone
  PROVE  BooksTyped' /\ ClockTyped' /\ LoopTyped' /\ TodoInv'
<1>0. BooksTyped /\ ClockTyped /\ LoopTyped
  BY TypeParts
<1>1. phase = "signals" /\ emits' = 0 /\ todo' = Tail(todo)
      /\ UNCHANGED <<tape, now, last_close, day, day_start>> /\ UNCHANGED booksVars
  BY DEF BarDone
<1>2. BooksTyped'
  BY <1>0, <1>1, BooksSame
<1>3. mark' \in Int
  BY EquityInt DEF BarDone, TypeInv
<1>4. ClockTyped'
  <2>1. AllTimes' = AllTimes
    BY <1>1 DEF AllTimes, BarTimes
  <2> QED BY <1>0, <1>1, <1>3, <2>1 DEF ClockTyped
<1>5. todo \in Seq(Symbols) /\ todo # <<>> /\ now \in Nat
      /\ \A i \in 1..Len(todo) : now \in BarTimes(todo[i])
  BY <1>1 DEF TypeInv, TodoInv
<1>6. Tail(todo) \in Seq(Symbols) /\ Len(Tail(todo)) = Len(todo) - 1 /\ Len(todo) \in Nat
  BY <1>5
<1>7. LoopTyped'
  BY <1>0, <1>1, <1>6, EngineAssumption DEF LoopTyped, BarDone
<1>8. TodoInv'
  <2>1. CASE Len(todo) = 1
    BY <2>1 DEF BarDone, TodoInv
  <2>2. CASE Len(todo) # 1
    <3>1. Tail(todo) # <<>>
      <4>1. Len(todo) # 0
        BY <1>5
      <4>2. Len(<<>>) = 0
        OBVIOUS
      <4>3. Len(Tail(todo)) # 0
        BY <1>6, <2>2, <4>1
      <4> QED BY <4>2, <4>3
    <3>2. \A i \in 1..Len(Tail(todo)) : Tail(todo)[i] = todo[i + 1] /\ i + 1 \in 1..Len(todo)
      BY <1>5, <1>6
    <3> QED BY <1>1, <1>5, <3>1, <3>2 DEF TodoInv, BarTimes
  <2> QED BY <2>1, <2>2
<1> QED BY <1>2, <1>4, <1>7, <1>8

\* What the terminal flatten takes and books.
LEMMA FlattenTyped ==
  ASSUME TypeInv
  PROVE  /\ [s \in Held |-> FlattenOutlay(s)] \in [Held -> Int]
         /\ \A s \in Held : FlattenRow(s) \in Rows
<1>1. ASSUME NEW s \in Held PROVE FlattenOutlay(s) \in Int /\ FlattenRow(s) \in Rows
  <2> DEFINE p == positions[s]
  <2>1. p \in Trades /\ s \in Symbols /\ last_close[s] \in Nat /\ tape \in Tapes
    BY DEF TypeInv
  <2>2. p.qty \in Nat \ {0}
    BY <2>1 DEF Trades
  <2>3. FlattenOutlay(s) \in Int
    <3> DEFINE f == [FreeFill EXCEPT !.price = last_close[s], !.qty = p.qty]
    <3>1. f.price = last_close[s] /\ f.qty = p.qty /\ f.commission = 0
      BY DEF FreeFill, NoFill
    <3>2. FlattenOutlay(s) = Outlay(Opposite(p.side), f)
      BY DEF FlattenOutlay
    <3> HIDE DEF f, p
    <3> QED BY <2>1, <2>2, <3>1, <3>2, OutlayInt
  <2>4. FlattenRow(s) \in Rows
    <3>1. Max(BarTimes(s)) \in ExitTimes
      BY <2>1 DEF ExitTimes, BarTimes
    <3>2. FreeFill.spread \in Int /\ FreeFill.slip \in Int /\ FreeFill.commission \in Int
      BY DEF FreeFill, NoFill
    <3>3. "end_of_data" \in Reasons
      BY DEF Reasons
    <3> DEFINE ts == Max(BarTimes(s))
               px == last_close[s]
    <3>4. FlattenRow(s) = TradeRow(p, ts, px, "end_of_data", FreeFill)
      BY DEF FlattenRow
    <3>5. ts \in ExitTimes /\ px \in Int
      BY <2>1, <3>1
    <3> HIDE DEF p, ts, px
    <3> QED BY <2>1, <3>2, <3>3, <3>4, <3>5, RowTyped
  <2> QED BY <2>3, <2>4
<1> QED BY <1>1

\* The flatten books the open positions as a sequence of rows.
LEMMA FlattenBooks ==
  ASSUME TypeInv, NEW stranded \in Bijection(1..Cardinality(Held), Held)
  PROVE  /\ Cardinality(Held) \in Nat
         /\ FlattenRows(stranded) \in Seq(Rows) /\ Len(FlattenRows(stranded)) = Cardinality(Held)
         /\ \A i \in 1..Cardinality(Held) : /\ stranded[i] \in Held
                                            /\ FlattenRows(stranded)[i] = FlattenRow(stranded[i])
<1> DEFINE n == Cardinality(Held)
           out == FlattenRows(stranded)
<1>1. n \in Nat
  BY EquityInt, FS_CardinalityType
<1>2. stranded \in [1..n -> Held]
  BY DEF Bijection, Surjection
<1>3. out = [i \in 1..n |-> FlattenRow(stranded[i])]
  BY <1>2 DEF FlattenRows
<1> HIDE DEF n, out
<1>4. \A i \in 1..n : stranded[i] \in Held /\ FlattenRow(stranded[i]) \in Rows
  BY <1>2, FlattenTyped
<1>5. out \in [1..n -> Rows]
  BY <1>3, <1>4
<1>6. out \in Seq(Rows) /\ Len(out) = n
  BY <1>1, <1>5
<1>7. \A i \in 1..n : out[i] = FlattenRow(stranded[i])
  BY <1>3
<1> QED BY <1>1, <1>4, <1>6, <1>7 DEF n, out

\* The types after the terminal flatten.
LEMMA FinishTyped ==
  ASSUME TypeInv, FinishStep
  PROVE  BooksTyped' /\ ClockTyped' /\ LoopTyped' /\ TodoInv'
<1>0. BooksTyped /\ ClockTyped /\ LoopTyped
  BY TypeParts
<1>1. PICK stranded \in Bijection(1..Cardinality(Held), Held) : Finish(stranded)
  BY DEF FinishStep
<1>2. /\ UNCHANGED <<todo, emits, emitted, executed, counters>> /\ UNCHANGED clockVars
      /\ positions' = <<>> /\ phase' \in {"done", "failed"}
      /\ cash' = cash - SumFunction([s \in Held |-> FlattenOutlay(s)])
      /\ rows' = rows \o FlattenRows(stranded)
  BY <1>1 DEF Finish
<1>3. ClockTyped'
  BY <1>0, <1>2, ClockSame
<1>4. LoopTyped' /\ TodoInv'
  BY <1>0, <1>2 DEF LoopTyped, TodoInv
<1>5. cash' \in Int
  <2> DEFINE out == [s \in Held |-> FlattenOutlay(s)]
  <2>1. out \in [Held -> Int]
    BY FlattenTyped
  <2>2. SumFunction(out) \in Int
    <3> HIDE DEF out
    <3> QED BY <2>1, EquityInt, SumInt
  <2> QED BY <1>0, <1>2, <2>2 DEF BooksTyped
<1>6. rows' \in Seq(Rows)
  BY <1>0, <1>2, FlattenBooks DEF BooksTyped
<1>7. Held' = {} /\ positions' \in [Held' -> Trades]
  BY <1>2 DEF Held
<1> QED BY <1>0, <1>2, <1>3, <1>4, <1>5, <1>6, <1>7 DEF BooksTyped

\* Every step of the run keeps the types.
LEMMA TypesKept ==
  ASSUME TypeInv, TodoInv, [HaltNext]_haltVars
  PROVE  TypeInv' /\ TodoInv'
<1>1. CASE UNCHANGED haltVars
  BY <1>1 DEF haltVars, engineVars, TypeInv, TodoInv, Held, AllTimes, BarTimes
<1>2. CASE HaltNext
  <2>1. EngineNext /\ halted' = Observed
    BY <1>2 DEF HaltNext
  <2>2. BooksTyped' /\ ClockTyped' /\ LoopTyped' /\ TodoInv'
    BY <2>1, EngineCases, NextGroupTyped, ExitTyped, SignalTyped, BarDoneTyped, FinishTyped
  <2>3. halted' \in Int
    BY <2>1, <2>2, HaltTyped DEF TypeInv, ClockTyped
  <2> QED BY <2>2, <2>3 DEF TypeInv, BooksTyped, ClockTyped, LoopTyped
<1> QED BY <1>1, <1>2

-----------------------------------------------------------------------------
(* The limits.                                                              *)

\* The latch is told of the loss after every step.
LEMMA HaltKept == HaltInv /\ [HaltNext]_haltVars => HaltInv'
<1>1. HaltNext => HaltInv'
  BY DEF HaltNext, Observed, ObserveHalt, HaltInv, Equity
<1>2. HaltInv /\ UNCHANGED haltVars => HaltInv'
  BY DEF haltVars, engineVars, HaltInv, Equity
<1> QED BY <1>1, <1>2

\* A loss-free start does not trip the halt.
LEMMA HaltStart == HaltInit => HaltInv
<1>1. SUFFICES ASSUME HaltInit PROVE ~DailyLossHalt(day_start, Equity, DailyHaltPct)
  BY DEF HaltInv
<1>2. DOMAIN Value(positions, last_close) = {}
  BY <1>1 DEF HaltInit, EngineInit, Value
<1>3. Equity = cash
  <2>1. SumFunction(Value(positions, last_close)) = 0
    BY <1>2, SumEmpty
  <2>2. cash \in Int
    BY <1>1, EngineAssumption DEF HaltInit, EngineInit, Unit
  <2> QED BY <2>1, <2>2 DEF Equity, EquityOf
<1>4. cash \in Nat \ {0} /\ day_start = 0
  BY <1>1, EngineAssumption DEF HaltInit, EngineInit, Unit
<1>5. DailyHaltPct * 0 = 0
  BY EngineAssumption
<1> QED BY <1>3, <1>4, <1>5 DEF DailyLossHalt

\* The engine's own test and the risk module's are the same.
LEMMA LatchCovers == TypeInv /\ HaltInv => LatchCoversEngine
<1>1. SUFFICES ASSUME TypeInv, HaltInv, HaltTripped(Equity) PROVE halted = day
  BY DEF LatchCoversEngine, EntriesAllowed
<1> DEFINE eq == Equity
           limit == day_start * DailyHaltPct
<1>2. eq \in Int /\ day_start \in Int
  BY <1>1, EquityInt DEF TypeInv
<1>3. limit \in Int /\ DailyHaltPct * day_start = limit
  BY <1>2, EngineAssumption
<1>4. 100 * (day_start - eq) >= limit
  BY <1>1 DEF HaltTripped
<1> HIDE DEF eq, limit
<1>5. 100 * (eq - day_start) <= -limit
  BY <1>2, <1>3, <1>4
<1>6. DailyLossHalt(day_start, Equity, DailyHaltPct)
  BY <1>3, <1>5 DEF DailyLossHalt, eq
<1> QED BY <1>1, <1>6 DEF HaltInv

\* What the checks of exits promise does not depend on the books it leaves alone.
LEMMA UnfillableSame ==
  ASSUME UNCHANGED <<tape, now>>
  PROVE  \A s : Unfillable(s)' <=> Unfillable(s)
BY DEF Unfillable, HasNextBar, NextBar, QuoteForBar, BarTimes, Later

\* The bars still to be checked, after the next one has been.
LEMMA AdvanceLeft ==
  ASSUME TypeInv, TodoInv, phase = "exits", ExitsAdvance
  PROVE  \/ /\ phase' = "exits"
            /\ \A s : (\E i \in 1..Len(todo) : todo[i] = s) =>
                 s = Head(todo) \/ \E i \in 1..Len(todo') : todo'[i] = s
         \/ /\ phase' = "signals"
            /\ \A s : (\E i \in 1..Len(todo) : todo[i] = s) => s = Head(todo)
<1>1. todo \in Seq(Symbols) /\ todo # <<>> /\ Len(todo) \in Nat
  BY DEF TypeInv, TodoInv
<1>2. Head(todo) = todo[1]
  BY <1>1
<1>3. CASE Len(todo) = 1
  <2>1. phase' = "signals"
    BY <1>3 DEF ExitsAdvance
  <2>2. \A i \in 1..Len(todo) : i = 1
    BY <1>3
  <2> QED BY <1>2, <2>1, <2>2
<1>4. CASE Len(todo) # 1
  <2>1. phase' = "exits" /\ todo' = Tail(todo)
    BY <1>4 DEF ExitsAdvance
  <2>2. Len(todo') = Len(todo) - 1 /\ \A i \in 1..Len(todo') : todo'[i] = todo[i + 1]
    BY <1>1, <2>1
  <2>3. ASSUME NEW i \in 1..Len(todo), i # 1
        PROVE  i - 1 \in 1..Len(todo') /\ todo'[i - 1] = todo[i]
    <3>1. i - 1 \in 1..Len(todo')
      BY <1>1, <2>2, <2>3
    <3>2. todo'[i - 1] = todo[(i - 1) + 1]
      BY <2>2, <3>1
    <3> QED BY <3>1, <3>2
  <2> QED BY <1>2, <2>1, <2>3
<1> QED BY <1>3, <1>4

\* A new instant has all its bars before it: whatever is overdue is yet to be checked.
LEMMA OverdueGroup ==
  ASSUME TypeInv, NextGroup
  PROVE  OverdueInv'
<1> DEFINE t == Min(Later(AllTimes, now))
<1>1. t \in AllTimes /\ now' = t /\ todo' = Group(t) /\ phase' = "exits" /\ tape' = tape
      /\ positions' = positions
  BY NextTime DEF NextGroup, booksVars
<1> HIDE DEF t
<1>2. \A s \in Symbols : t \in BarTimes(s) => \E i \in 1..Len(Group(t)) : Group(t)[i] = s
  BY <1>1, GroupFacts
<1>3. Held' = Held /\ Held \subseteq Symbols
  BY <1>1 DEF Held, TypeInv
<1>4. \A s \in Held : Overdue(s)' => t \in BarTimes(s)
  BY <1>1 DEF Overdue, BarTimes
<1> QED BY <1>1, <1>2, <1>3, <1>4 DEF OverdueInv

\* A checked bar leaves an overdue position only if it could not be filled.
LEMMA OverdueExit ==
  ASSUME TypeInv, TodoInv, OverdueInv, ExitStep
  PROVE  OverdueInv'
<1>1. phase = "exits" /\ UNCHANGED <<tape, now>>
  BY DEF ExitStep, clockVars
<1>2. \A s : Unfillable(s)' <=> Unfillable(s)
  BY <1>1, UnfillableSame
<1>3. \A s \in Held : Overdue(s) => Unfillable(s) \/ \E i \in 1..Len(todo) : todo[i] = s
  BY <1>1 DEF OverdueInv
<1>4. CASE ExitRaised
  BY <1>4 DEF ExitRaised, OverdueInv
<1>5. ASSUME ExitsAdvance, Held' \subseteq Held, \A s \in Held' : Overdue(s)' => Overdue(s),
             Head(todo) \in Held' /\ Overdue(Head(todo)) => Unfillable(Head(todo))
      PROVE  OverdueInv'
  <2>1. CASE phase' = "exits"
    <3>1. \A s : (\E i \in 1..Len(todo) : todo[i] = s) =>
            s = Head(todo) \/ \E i \in 1..Len(todo') : todo'[i] = s
      BY <1>1, <1>5, <2>1, AdvanceLeft
    <3>2. ASSUME NEW s \in Held', Overdue(s)'
          PROVE  Unfillable(s)' \/ \E i \in 1..Len(todo') : todo'[i] = s
      <4>1. s \in Held /\ Overdue(s)
        BY <1>5, <3>2
      <4> QED BY <1>2, <1>3, <1>5, <3>1, <3>2, <4>1
    <3> QED BY <2>1, <3>2 DEF OverdueInv
  <2>2. CASE phase' = "signals"
    <3>1. \A s : (\E i \in 1..Len(todo) : todo[i] = s) => s = Head(todo)
      BY <1>1, <1>5, <2>2, AdvanceLeft
    <3>2. ASSUME NEW s \in Held', Overdue(s)' PROVE Unfillable(s)'
      <4>1. s \in Held /\ Overdue(s)
        BY <1>5, <3>2
      <4> QED BY <1>2, <1>3, <1>5, <3>1, <3>2, <4>1
    <3> QED BY <2>2, <3>2 DEF OverdueInv
  <2> QED BY <1>1, <1>5, <2>1, <2>2, AdvanceLeft
<1>6. CASE Kept
  <2>1. positions' = positions /\ Held' = Held
    BY <1>6 DEF Kept, booksVars, Held
  <2>2. \A s \in Held' : Overdue(s)' => Overdue(s)
    BY <1>1, <2>1 DEF Overdue, BarTimes
  <2> QED BY <1>5, <1>6, <2>1, <2>2 DEF Kept
<1>7. CASE Exited
  <2>1. ExitsAdvance /\ positions' = Restrict(positions, Held \ {Head(todo)})
    BY <1>7 DEF Exited
  <2>2. Held' = Held \ {Head(todo)} /\ \A s \in Held' : positions'[s] = positions[s]
    BY <2>1 DEF Held, Restrict
  <2>3. \A s \in Held' : Overdue(s)' => Overdue(s)
    BY <1>1, <2>2 DEF Overdue, BarTimes
  <2> QED BY <1>5, <2>1, <2>2, <2>3
<1> QED BY <1>4, <1>6, <1>7 DEF ExitStep

\* An event opens no position that is overdue: it is stamped after the present instant.
LEMMA OverdueSignal ==
  ASSUME TypeInv, TodoInv, OverdueInv, SignalStep
  PROVE  OverdueInv'
<1>1. phase = "signals" /\ UNCHANGED <<tape, now>> /\ now \in Nat
  BY DEF SignalStep, clockVars, TodoInv
<1>2. \A s : Unfillable(s)' <=> Unfillable(s)
  BY <1>1, UnfillableSame
<1>3. CASE SignalRaised
  BY <1>3 DEF SignalRaised, OverdueInv
<1>4. CASE DroppedOne
  <2>1. positions' = positions /\ phase' = "signals"
    BY <1>1, <1>4 DEF DroppedOne
  <2> QED BY <1>1, <1>2, <2>1 DEF OverdueInv, Overdue, Held, BarTimes
<1>5. CASE Entered
  <2>1. PICK s \in Symbols :
          /\ Held' = Held \cup {s} /\ phase' = "signals"
          /\ \A r \in Held \ {s} : positions'[r] = positions[r]
          /\ positions'[s].entry_ts = now + LatencyTicks
    BY <1>1, <1>5 DEF Entered, Held
  <2>2. ~Overdue(s)'
    <3>1. SUFFICES ASSUME MaxHold > 0, now >= (now + LatencyTicks) + MaxHold PROVE FALSE
      BY <1>1, <2>1 DEF Overdue
    <3> QED BY <1>1, <3>1, EngineAssumption
  <2>3. \A r \in Held' \ {s} : r \in Held /\ (Overdue(r)' <=> Overdue(r))
    BY <1>1, <2>1 DEF Overdue, BarTimes
  <2>4. \A r \in Held : Overdue(r) => Unfillable(r)
    BY <1>1 DEF OverdueInv
  <2> QED BY <1>1, <1>2, <2>1, <2>2, <2>3, <2>4 DEF OverdueInv
<1> QED BY <1>3, <1>4, <1>5 DEF SignalStep

\* The end of a bar changes no position.
LEMMA OverdueBarDone ==
  ASSUME OverdueInv, BarDone
  PROVE  OverdueInv'
<1>1. phase = "signals" /\ UNCHANGED <<tape, now, positions>>
      /\ phase' \in {"signals", "idle"}
  BY DEF BarDone, booksVars
<1>2. \A s : Unfillable(s)' <=> Unfillable(s)
  BY <1>1, UnfillableSame
<1> QED BY <1>1, <1>2 DEF OverdueInv, Overdue, Held, BarTimes

\* No step loses an overdue position that can be filled.
LEMMA OverdueKept ==
  ASSUME TypeInv, TodoInv, OverdueInv, [HaltNext]_haltVars
  PROVE  OverdueInv'
<1>1. CASE UNCHANGED haltVars
  <2>1. UNCHANGED <<tape, now, positions, phase, todo>>
    BY <1>1 DEF haltVars, engineVars
  <2>2. \A s : Unfillable(s)' <=> Unfillable(s)
    BY <2>1, UnfillableSame
  <2> QED BY <2>1, <2>2 DEF OverdueInv, Overdue, Held, BarTimes
<1>2. CASE HaltNext
  <2>1. FinishStep => OverdueInv'
    BY DEF FinishStep, Finish, OverdueInv
  <2> QED BY <1>2, <2>1, EngineCases, OverdueGroup, OverdueExit, OverdueSignal, OverdueBarDone
       DEF HaltNext
<1> QED BY <1>1, <1>2

\* Whatever the tape, the signals and the hooks: a position past its maximum hold stays open
\* only when its bar has no book to close it into, and whenever the engine's daily-loss test
\* stops an entry the latch of the risk module stops it too.
THEOREM LimitsAlways == HaltSpec => []LimitsHold
<1> DEFINE Inv == TypeInv /\ TodoInv /\ HaltInv /\ OverdueInv
<1>1. HaltInit => Inv
  <2>1. HaltInit => OverdueInv
    BY DEF HaltInit, EngineInit, OverdueInv
  <2> QED BY <2>1, EngineStart, HaltStart
<1>2. Inv /\ [HaltNext]_haltVars => Inv'
  BY TypesKept, HaltKept, OverdueKept
<1>3. Inv => LimitsHold
  <2>1. OverdueInv => OverdueOnlyIfUnfillable
    BY DEF OverdueInv, Overdue, OverdueOnlyIfUnfillable
  <2> QED BY <2>1, LatchCovers DEF LimitsHold
<1> QED BY <1>1, <1>2, <1>3, PTL DEF HaltSpec

-----------------------------------------------------------------------------
(* The trade book.                                                          *)

\* The counters are finitely many.
LEMMA DropStagesFinite == IsFiniteSet(DROP_STAGES)
<1>1. IsFiniteSet({})
  BY FS_EmptySet
<1>2. \A T, x : IsFiniteSet(T) => IsFiniteSet(T \cup {x})
  BY FS_AddElement
<1>3. DROP_STAGES = (((((({} \cup {"regime-gated"}) \cup {"sizing-zero"}) \cup {"no-quote"})
                      \cup {"latency-no-fill"}) \cup {"position-already-open"})
                      \cup {"risk-cap"}) \cup {"daily-halt"}
  BY DEF DROP_STAGES
<1> QED BY <1>1, <1>2, <1>3

\* Nothing has been emitted, and nothing booked, when the run starts.
LEMMA CountStart == HaltInit => CountInv /\ StampInv
<1>1. SUFFICES ASSUME HaltInit PROVE CountInv /\ StampInv
  OBVIOUS
<1>2. Held = {} /\ rows = <<>> /\ Len(rows) = 0 /\ emitted = 0 /\ executed = 0
      /\ counters = [d \in DROP_STAGES |-> 0]
  BY <1>1 DEF HaltInit, EngineInit, Held
<1>3. SumFunction(counters) = 0
  <2> DEFINE none == [d \in {} |-> counters[d]]
  <2>1. DROP_STAGES = DOMAIN counters /\ \A d \in DROP_STAGES : counters[d] = 0
    BY <1>2
  <2>2. IsFiniteSet(DROP_STAGES)
    BY DropStagesFinite
  <2>3. counters \in [DROP_STAGES -> Int] /\ \A d \in DROP_STAGES \ {} : counters[d] = 0
    BY <1>2
  <2>4. SumFunction(counters) = SumFunction(Restrict(counters, {}))
    <3>1. {} \in SUBSET DROP_STAGES
      OBVIOUS
    <3> QED BY <2>2, <2>3, <3>1, SumExtend
  <2>5. DOMAIN Restrict(counters, {}) = {}
    BY DEF Restrict
  <2> QED BY <2>4, <2>5, SumEmpty
<1>4. Cardinality(Held) = 0
  BY <1>2, FS_EmptySet
<1> QED BY <1>2, <1>3, <1>4 DEF CountInv, StampInv

\* Whatever leaves the books alone leaves the counts alone.
LEMMA CountSame ==
  ASSUME CountInv, phase # "failed", UNCHANGED booksVars
  PROVE  CountInv'
BY DEF CountInv, booksVars, Held

\* A closed trade moves from the positions to the rows.
LEMMA CountExit ==
  ASSUME TypeInv, TodoInv, CountInv, ExitStep
  PROVE  CountInv'
<1>1. phase = "exits"
  BY DEF ExitStep
<1>2. CASE ExitRaised
  BY <1>2 DEF ExitRaised, CountInv
<1>3. CASE Kept
  BY <1>1, <1>3, CountSame DEF Kept
<1>4. CASE Exited
  <2>1. PICK s \in Held : /\ positions' = Restrict(positions, Held \ {s})
                          /\ UNCHANGED <<executed, counters, emitted>>
                          /\ \E r : rows' = Append(rows, r)
    BY <1>4 DEF Exited
  <2>2. Held' = Held \ {s}
    BY <2>1 DEF Held, Restrict
  <2>3. Cardinality(Held') = Cardinality(Held) - 1
    BY <2>1, <2>2, EquityInt, FS_RemoveElement
  <2>4. Len(rows') = Len(rows) + 1 /\ Len(rows) \in Nat
    BY <2>1 DEF TypeInv
  <2>5. Cardinality(Held) \in Nat
    BY EquityInt, FS_CardinalityType
  <2>6. emitted = executed + SumFunction(counters) /\ executed = Len(rows) + Cardinality(Held)
    BY <1>1 DEF CountInv
  <2>7. executed' = Len(rows') + Cardinality(Held')
    BY <2>1, <2>3, <2>4, <2>5, <2>6
  <2> QED BY <2>1, <2>6, <2>7 DEF CountInv
<1> QED BY <1>2, <1>3, <1>4 DEF ExitStep

\* An event is executed, and then open, or it is dropped, and then counted.
LEMMA CountSignal ==
  ASSUME TypeInv, TodoInv, CountInv, SignalStep
  PROVE  CountInv'
<1>1. phase = "signals" /\ emitted' = emitted + 1
  BY DEF SignalStep
<1>2. CASE SignalRaised
  BY <1>2 DEF SignalRaised, CountInv
<1>3. emitted = executed + SumFunction(counters) /\ executed = Len(rows) + Cardinality(Held)
  BY <1>1 DEF CountInv
<1>4. counters \in [DROP_STAGES -> Nat] /\ executed \in Nat /\ Len(rows) \in Nat
      /\ Cardinality(Held) \in Nat /\ IsFiniteSet(Held)
  BY EquityInt, FS_CardinalityType DEF TypeInv
<1>5. SumFunction(counters) \in Int
  BY <1>4, DropStagesFinite, SumInt
<1>6. CASE DroppedOne
  <2>1. PICK stage \in DROP_STAGES : counters' = [counters EXCEPT ![stage] = @ + 1]
    BY <1>6 DEF DroppedOne
  <2>2. /\ DOMAIN counters = DROP_STAGES /\ DOMAIN counters' = DROP_STAGES
        /\ \A d \in DROP_STAGES : counters[d] \in Int /\ counters'[d] \in Int
        /\ \A d \in DROP_STAGES \ {stage} : counters'[d] = counters[d]
        /\ counters'[stage] = counters[stage] + 1
    BY <1>4, <2>1
  <2>3. SumFunction(counters') = SumFunction(counters) - counters[stage] + counters'[stage]
    BY <2>2, DropStagesFinite, SumChange
  <2>4. SumFunction(counters') = SumFunction(counters) + 1
    BY <1>5, <2>2, <2>3
  <2>5. UNCHANGED <<executed, rows>> /\ Held' = Held
    BY <1>6 DEF DroppedOne, Held
  <2>6. emitted' = executed + SumFunction(counters')
    BY <1>1, <1>3, <1>4, <1>5, <2>4
  <2> QED BY <1>3, <2>5, <2>6 DEF CountInv
<1>7. CASE Entered
  <2>1. PICK s \in Symbols : /\ s \notin Held /\ Held' = Held \cup {s}
                             /\ executed' = executed + 1 /\ UNCHANGED <<rows, counters>>
    BY <1>7 DEF Entered, Held
  <2>2. Cardinality(Held') = Cardinality(Held) + 1
    BY <1>4, <2>1, FS_AddElement
  <2>3. emitted' = executed' + SumFunction(counters')
    BY <1>1, <1>3, <1>4, <1>5, <2>1
  <2>4. executed' = Len(rows') + Cardinality(Held')
    BY <1>3, <1>4, <2>1, <2>2
  <2> QED BY <2>3, <2>4 DEF CountInv
<1> QED BY <1>2, <1>6, <1>7 DEF SignalStep

\* The identity run() asserts holds when it asserts it: the run returns.
LEMMA FinishDone ==
  ASSUME CountInv, FinishStep
  PROVE  phase' = "done"
BY DEF CountInv, FinishStep, Finish

\* The flatten books one row for each position left.
LEMMA CountFinish ==
  ASSUME TypeInv, CountInv, FinishStep
  PROVE  CountInv'
<1>1. PICK stranded \in Bijection(1..Cardinality(Held), Held) : Finish(stranded)
  BY DEF FinishStep
<1>2. /\ phase = "idle" /\ UNCHANGED <<emitted, executed, counters>>
      /\ rows' = rows \o FlattenRows(stranded) /\ Held' = {}
  BY <1>1 DEF Finish, Held
<1>3. /\ Cardinality(Held) \in Nat /\ FlattenRows(stranded) \in Seq(Rows)
      /\ Len(FlattenRows(stranded)) = Cardinality(Held)
  BY FlattenBooks
<1>4. Len(rows') = Len(rows) + Cardinality(Held) /\ Len(rows) \in Nat
  <2> DEFINE more == FlattenRows(stranded)
  <2>1. rows \in Seq(Rows) /\ more \in Seq(Rows) /\ rows' = rows \o more
    BY <1>2, <1>3 DEF TypeInv
  <2> HIDE DEF more
  <2>2. Len(rows') = Len(rows) + Len(more) /\ Len(rows) \in Nat
    BY <2>1
  <2> QED BY <1>3, <2>2 DEF more
<1>5. Cardinality(Held') = 0
  BY <1>2, FS_EmptySet
<1>6. emitted = executed + SumFunction(counters) /\ executed = Len(rows) + Cardinality(Held)
  BY <1>2 DEF CountInv
<1>7. executed' = Len(rows') + Cardinality(Held')
  BY <1>2, <1>3, <1>4, <1>5, <1>6
<1> QED BY <1>2, <1>6, <1>7 DEF CountInv

\* No step loses count of an event or a trade.
LEMMA CountKept ==
  ASSUME TypeInv, TodoInv, CountInv, [HaltNext]_haltVars
  PROVE  CountInv'
<1>1. CASE UNCHANGED haltVars
  BY <1>1 DEF haltVars, engineVars, CountInv, Held
<1>2. CASE HaltNext
  <2>1. NextGroup => CountInv'
    BY CountSame DEF NextGroup
  <2>2. BarDone => CountInv'
    BY CountSame DEF BarDone
  <2> QED BY <1>2, <2>1, <2>2, EngineCases, CountExit, CountSignal, CountFinish DEF HaltNext
<1> QED BY <1>1, <1>2

\* No step breaks the order of the entry stamps.
LEMMA StampKept ==
  ASSUME TypeInv, TodoInv, StampInv, [HaltNext]_haltVars
  PROVE  StampInv'
<1>0. /\ rows \in Seq(Rows) /\ Held \subseteq Symbols /\ positions \in [Held -> Trades]
      /\ now \in Int /\ LatencyTicks \in Nat
      /\ \A s \in Held : positions[s].entry_ts \in Int
      /\ \A i \in 1..Len(rows) : rows[i].entry_ts \in Int
  <2>1. \A p \in Trades : p.entry_ts \in Int
    BY DEF Trades
  <2>2. \A r \in Rows : r.entry_ts \in Int
    BY DEF Rows
  <2>3. rows \in Seq(Rows) /\ positions \in [Held -> Trades]
    BY DEF TypeInv
  <2>4. now \in Int
    BY TimesNatural DEF TypeInv
  <2>5. Held \subseteq Symbols /\ LatencyTicks \in Nat
    BY EngineAssumption DEF TypeInv
  <2>6. \A s \in Held : positions[s] \in Trades
    BY <2>3
  <2>7. \A i \in 1..Len(rows) : rows[i] \in Rows
    BY <2>3
  <2> QED BY <2>1, <2>2, <2>3, <2>4, <2>5, <2>6, <2>7
<1>1. CASE UNCHANGED haltVars
  BY <1>1 DEF haltVars, engineVars, StampInv, Live, Held
<1>2. CASE NextGroup
  <2>1. now' \in Int /\ now' > now /\ UNCHANGED <<rows, positions>> /\ Held' = Held
        /\ phase = "idle"
    BY <1>2, NextTime DEF NextGroup, booksVars, Held
  <2>2. /\ \A i \in 1..Len(rows) : rows[i].entry_ts < now + LatencyTicks
        /\ \A s \in Held : positions[s].entry_ts <= now + LatencyTicks
    BY <2>1 DEF StampInv, Live
  <2>3. now + LatencyTicks < now' + LatencyTicks /\ now + LatencyTicks \in Int
        /\ now' + LatencyTicks \in Int
    <3>1. now \in Int /\ now' \in Int /\ now' > now /\ LatencyTicks \in Nat
      BY <1>0, <2>1
    <3> QED BY <3>1, Shifted
  <2> DEFINE old == now + LatencyTicks
             new == now' + LatencyTicks
  <2> HIDE DEF old, new
  <2>6. old \in Int /\ new \in Int /\ old < new
    BY <2>3 DEF old, new
  <2>7. ASSUME NEW e \in Int, e <= old PROVE e < new /\ e <= new
    BY ONLY <2>6, <2>7
  <2>4. \A i \in 1..Len(rows') : rows'[i].entry_ts < new
    <3>1. rows' = rows
      BY <2>1
    <3>2. \A i \in 1..Len(rows) : rows[i].entry_ts \in Int /\ rows[i].entry_ts <= old
      BY <1>0, <2>2, <2>6 DEF old
    <3> QED BY <2>7, <3>1, <3>2
  <2>5. \A s \in Held' : positions'[s].entry_ts < new /\ positions'[s].entry_ts <= new
    <3>1. positions' = positions /\ Held' = Held
      BY <2>1
    <3>2. \A s \in Held : positions[s].entry_ts \in Int /\ positions[s].entry_ts <= old
      BY <1>0, <2>2 DEF old
    <3> QED BY <2>7, <3>1, <3>2
  <2> QED BY <2>4, <2>5 DEF StampInv, new
<1>3. CASE ExitStep
  <2>1. phase = "exits" /\ now' = now
    BY <1>3 DEF ExitStep, clockVars
  <2>2. CASE ExitRaised
    BY <2>2 DEF ExitRaised, StampInv, Live
  <2>3. CASE Kept
    BY <2>1, <2>3 DEF Kept, StampInv, Live, booksVars, Held
  <2>4. CASE Exited
    <3>1. PICK s, r : /\ s \in Held /\ positions' = Restrict(positions, Held \ {s})
                      /\ rows' = Append(rows, r) /\ r.entry_ts = positions[s].entry_ts
      <4>1. \A p, t, px, reason, costs : TradeRow(p, t, px, reason, costs).entry_ts = p.entry_ts
        BY DEF TradeRow
      <4>2. PICK fill \in Fills, reason \in ExitReasons :
              /\ Head(todo) \in Held
              /\ positions' = Restrict(positions, Held \ {Head(todo)})
              /\ rows' = Append(rows, TradeRow(positions[Head(todo)], now + LatencyTicks,
                                              fill.price, reason, fill))
        BY <2>4 DEF Exited
      <4> DEFINE new == TradeRow(positions[Head(todo)], now + LatencyTicks,
                                 fill.price, reason, fill)
      <4>3. new.entry_ts = positions[Head(todo)].entry_ts /\ rows' = Append(rows, new)
        BY <4>1, <4>2
      <4> HIDE DEF new
      <4> QED BY <4>2, <4>3
    <3>2. Held' = Held \ {s} /\ \A x \in Held' : positions'[x] = positions[x]
      BY <3>1 DEF Held, Restrict
    <3>3. \A i \in 1..Len(rows') : (i \in 1..Len(rows) /\ rows'[i] = rows[i]) \/ rows'[i] = r
      BY <1>0, <3>1
    <3>4. /\ \A i \in 1..Len(rows) : rows[i].entry_ts < now + LatencyTicks
          /\ \A x \in Held : positions[x].entry_ts < now + LatencyTicks
          /\ \A x \in Held : positions[x].entry_ts <= now + LatencyTicks
      BY <2>1 DEF StampInv, Live
    <3>5. \A i \in 1..Len(rows') : rows'[i].entry_ts < now + LatencyTicks
      BY <3>1, <3>3, <3>4
    <3> QED BY <2>1, <3>2, <3>4, <3>5 DEF StampInv
  <2> QED BY <1>3, <2>2, <2>3, <2>4 DEF ExitStep
<1>4. CASE SignalStep
  <2>1. phase = "signals" /\ now' = now
    BY <1>4 DEF SignalStep, clockVars
  <2>2. CASE SignalRaised
    BY <2>2 DEF SignalRaised, StampInv, Live
  <2>3. CASE DroppedOne
    BY <2>1, <2>3 DEF DroppedOne, StampInv, Live, Held
  <2>4. CASE Entered
    <3>1. PICK s \in Symbols :
            /\ Held' = Held \cup {s} /\ phase' = phase /\ rows' = rows
            /\ \A r \in Held \ {s} : positions'[r] = positions[r]
            /\ positions'[s].entry_ts = now + LatencyTicks
      BY <2>4 DEF Entered, Held
    <3>2. now + LatencyTicks \in Int
      BY <1>0
    <3> DEFINE stamp == now + LatencyTicks
    <3>3. /\ \A i \in 1..Len(rows) : rows[i].entry_ts < stamp
          /\ \A x \in Held : positions[x].entry_ts <= stamp
      BY <2>1 DEF StampInv, Live
    <3>4. stamp \in Int /\ positions'[s].entry_ts = stamp
      BY <3>1, <3>2
    <3> HIDE DEF stamp
    <3>5. \A x \in Held' : positions'[x].entry_ts <= stamp
      BY <3>1, <3>3, <3>4
    <3> QED BY <2>1, <3>1, <3>3, <3>5 DEF StampInv, stamp
  <2> QED BY <1>4, <2>2, <2>3, <2>4 DEF SignalStep
<1>5. CASE BarDone
  BY <1>5 DEF BarDone, booksVars, StampInv, Live, Held
<1>6. CASE FinishStep
  BY <1>6 DEF FinishStep, Finish, StampInv, Live
<1> QED BY <1>1, <1>2, <1>3, <1>4, <1>5, <1>6, EngineCases DEF HaltNext

\* The trade book of the engine, as KeepsTradeBook reads it off its variables.
OpenTrades == {<<s, positions[s].entry_ts>> : s \in Held}
BookedTrades == {<<rows[i].symbol, rows[i].entry_ts>> : i \in DOMAIN rows}
Outcome == CASE phase = "done" -> "returned" [] phase = "failed" -> "raised"
             [] OTHER -> "running"
bookView == <<OpenTrades, BookedTrades, Outcome>>

\* A run that goes on and leaves its books alone is a stutter of the trade book.
LEMMA ViewSame ==
  ASSUME Live, Live', UNCHANGED <<positions, rows>>
  PROVE  UNCHANGED bookView
<1>1. Outcome = "running" /\ Outcome' = "running"
  BY DEF Live, Outcome
<1>2. OpenTrades' = OpenTrades /\ BookedTrades' = BookedTrades
  BY DEF OpenTrades, BookedTrades, Held
<1> QED BY <1>1, <1>2 DEF bookView

\* A run that raises leaves its books as they are.
LEMMA ViewRaised ==
  ASSUME Live, phase' = "failed", UNCHANGED <<positions, rows>>
  PROVE  Outcome = "running" /\ Book!Raise
<1>1. Outcome = "running" /\ Outcome' = "raised"
  BY DEF Live, Outcome
<1>2. OpenTrades' = OpenTrades /\ BookedTrades' = BookedTrades
  BY DEF OpenTrades, BookedTrades, Held
<1> QED BY <1>1, <1>2 DEF Book!Raise, Outcome, OpenTrades, BookedTrades

\* An appended row books one trade more.
LEMMA AppendBooks ==
  ASSUME rows \in Seq(Rows), NEW r, rows' = Append(rows, r)
  PROVE  BookedTrades' = BookedTrades \cup {<<r.symbol, r.entry_ts>>}
<1> DEFINE n == Len(rows)
<1>1. n \in Nat /\ DOMAIN rows = 1..n /\ DOMAIN rows' = 1..(n + 1)
  OBVIOUS
<1>2. rows'[n + 1] = r /\ \A i \in 1..n : rows'[i] = rows[i]
  OBVIOUS
<1> HIDE DEF n
<1>3. 1..(n + 1) = (1..n) \cup {n + 1}
  BY <1>1
<1>4. BookedTrades = {<<rows[i].symbol, rows[i].entry_ts>> : i \in 1..n}
  BY <1>1 DEF BookedTrades
<1>5. BookedTrades' = {<<rows'[i].symbol, rows'[i].entry_ts>> : i \in (1..n) \cup {n + 1}}
  BY <1>1, <1>3 DEF BookedTrades
<1> QED BY <1>2, <1>4, <1>5

\* A filled exit closes one trade, by booking it.
LEMMA ExitBooks ==
  ASSUME TypeInv, TodoInv, phase = "exits", Exited
  PROVE  Outcome = "running" /\ Book!CloseSome
<1> DEFINE s == Head(todo)
           p == positions[s]
           pair == <<s, p.entry_ts>>
<1>1. PICK fill \in Fills, reason \in ExitReasons :
        /\ s \in Held
        /\ positions' = Restrict(positions, Held \ {s})
        /\ rows' = Append(rows, TradeRow(p, now + LatencyTicks, fill.price, reason, fill))
        /\ ExitsAdvance
  BY DEF Exited
<1> DEFINE r == TradeRow(p, now + LatencyTicks, fill.price, reason, fill)
<1>2. r.symbol = s /\ r.entry_ts = p.entry_ts /\ rows' = Append(rows, r)
  <2>1. r.symbol = p.symbol /\ r.entry_ts = p.entry_ts
    BY DEF TradeRow
  <2>2. p.symbol = s
    BY <1>1 DEF TypeInv
  <2> HIDE DEF p, s, r
  <2> QED BY <1>1, <2>1, <2>2 DEF r, p
<1> HIDE DEF r
<1>3. BookedTrades' = BookedTrades \cup {pair}
  <2>1. rows \in Seq(Rows)
    BY DEF TypeInv
  <2> QED BY <1>2, <2>1, AppendBooks
<1>4. Held' = Held \ {s} /\ \A x \in Held \ {s} : positions'[x] = positions[x]
  BY <1>1 DEF Held, Restrict
<1>5. /\ OpenTrades' = {<<x, positions[x].entry_ts>> : x \in Held \ {s}}
  BY <1>4 DEF OpenTrades
<1>6. pair \in OpenTrades /\ OpenTrades' = OpenTrades \ {pair}
  BY <1>1, <1>5 DEF OpenTrades
<1>7. /\ OpenTrades' \subseteq OpenTrades /\ OpenTrades' # OpenTrades
      /\ OpenTrades \ OpenTrades' = {pair}
  BY <1>6
<1>8. Outcome = "running" /\ Outcome' = "running"
  BY <1>1 DEF ExitsAdvance, Outcome
<1> QED BY <1>3, <1>7, <1>8 DEF Book!CloseSome, Outcome, OpenTrades, BookedTrades

\* A filled entry opens one trade, under a name that is neither open nor booked.
LEMMA EntryBooks ==
  ASSUME TypeInv, StampInv, phase = "signals", Entered
  PROVE  Outcome = "running" /\ Book!OpenOne
<1> DEFINE stamp == now + LatencyTicks
<1>1. PICK s \in Symbols :
        /\ s \notin Held /\ Held' = Held \cup {s} /\ UNCHANGED <<phase, rows>>
        /\ \A x \in Held : positions'[x] = positions[x]
        /\ positions'[s].entry_ts = stamp
  BY DEF Entered, Held
<1> DEFINE pair == <<s, stamp>>
<1>2. OpenTrades' = OpenTrades \cup {pair}
  BY <1>1 DEF OpenTrades
<1>3. pair \notin OpenTrades
  BY <1>1 DEF OpenTrades
<1>4. pair \notin BookedTrades
  <2>1. \A i \in 1..Len(rows) : rows[i].entry_ts < stamp
    BY DEF StampInv, Live
  <2>2. DOMAIN rows = 1..Len(rows)
    BY DEF TypeInv
  <2>3. \A i \in 1..Len(rows) : rows[i].entry_ts # stamp
    <3>1. stamp \in Int
      BY EngineAssumption, TimesNatural DEF TypeInv
    <3> HIDE DEF stamp
    <3> QED BY <2>1, <3>1
  <2> HIDE DEF stamp
  <2> QED BY <2>2, <2>3 DEF BookedTrades
<1> HIDE DEF pair
<1>5. OpenTrades' \ OpenTrades = {pair}
  BY <1>2, <1>3
<1>6. Cardinality({pair}) = 1
  BY FS_Singleton
<1>7. BookedTrades' = BookedTrades /\ Outcome = "running" /\ Outcome' = "running"
  BY <1>1 DEF BookedTrades, Outcome
<1>8. /\ OpenTrades \subseteq OpenTrades' /\ Cardinality(OpenTrades' \ OpenTrades) = 1
      /\ (OpenTrades' \ OpenTrades) \cap BookedTrades = {}
      /\ UNCHANGED <<BookedTrades, Outcome>>
  BY <1>2, <1>4, <1>5, <1>6, <1>7
<1>9. Book!Cardinality(OpenTrades' \ OpenTrades) = Cardinality(OpenTrades' \ OpenTrades)
  BY Zenon DEF Book!Cardinality, Cardinality
<1> QED BY <1>7, <1>8, <1>9, Zenon DEF Book!OpenOne, Outcome, OpenTrades, BookedTrades

\* The flatten books every open trade, and the run returns.
LEMMA FinishBooks ==
  ASSUME TypeInv, CountInv, FinishStep
  PROVE  Outcome = "running" /\ Book!Return
<1>1. PICK stranded \in Bijection(1..Cardinality(Held), Held) : Finish(stranded)
  BY DEF FinishStep
<1> DEFINE n == Cardinality(Held)
           more == FlattenRows(stranded)
<1>2. phase = "idle" /\ positions' = <<>> /\ rows' = rows \o more
  BY <1>1 DEF Finish
<1>3. Outcome = "running" /\ Outcome' = "returned"
  BY <1>2, FinishDone DEF Outcome
<1>4. OpenTrades' = {}
  BY <1>2 DEF OpenTrades, Held
<1>5. /\ n \in Nat /\ more \in Seq(Rows) /\ Len(more) = n
      /\ \A i \in 1..n : stranded[i] \in Held /\ more[i] = FlattenRow(stranded[i])
  BY FlattenBooks
<1>6. \A s \in Held : \E i \in 1..n : stranded[i] = s
  BY DEF Bijection, Surjection
<1>7. \A s \in Held : FlattenRow(s).symbol = s /\ FlattenRow(s).entry_ts = positions[s].entry_ts
  <2>1. \A s \in Held : positions[s].symbol = s
    BY DEF TypeInv
  <2> QED BY <2>1 DEF FlattenRow, TradeRow
<1>8. {<<more[i].symbol, more[i].entry_ts>> : i \in 1..n} = OpenTrades
  <2> HIDE DEF more, n
  <2> QED BY <1>5, <1>6, <1>7 DEF OpenTrades
<1>9. BookedTrades' = BookedTrades \cup {<<more[i].symbol, more[i].entry_ts>> : i \in 1..n}
  <2>1. rows \in Seq(Rows) /\ more \in Seq(Rows) /\ Len(more) = n /\ rows' = rows \o more
    BY <1>2, <1>5 DEF TypeInv
  <2> DEFINE m == Len(rows)
  <2> HIDE DEF more, n
  <2>2. m \in Nat /\ n \in Nat /\ DOMAIN rows = 1..m /\ DOMAIN rows' = 1..(m + n)
    BY <1>5, <2>1
  <2>3. \A i \in 1..m : rows'[i] = rows[i]
    BY <2>1
  <2>4. \A i \in 1..n : rows'[m + i] = more[i]
    BY <2>1
  <2> HIDE DEF m
  <2>5. \A i \in 1..m : i \in 1..(m + n)
    BY <2>2
  <2>6. \A i \in 1..n : m + i \in 1..(m + n)
    BY <2>2
  <2>7. \A i \in 1..(m + n) : i \in 1..m \/ \E j \in 1..n : i = m + j
    <3>1. SUFFICES ASSUME NEW i \in 1..(m + n), i \notin 1..m PROVE \E j \in 1..n : i = m + j
      OBVIOUS
    <3>2. i - m \in 1..n /\ i = m + (i - m)
      BY <2>2, <3>1
    <3> QED BY <3>2
  <2> DEFINE Name(q) == <<q.symbol, q.entry_ts>>
  <2>8. {Name(rows'[i]) : i \in 1..(m + n)}
          = {Name(rows[i]) : i \in 1..m} \cup {Name(more[i]) : i \in 1..n}
    <3> DEFINE all == {Name(rows'[i]) : i \in 1..(m + n)}
               old == {Name(rows[i]) : i \in 1..m}
               new == {Name(more[i]) : i \in 1..n}
    <3> HIDE DEF Name
    <3>1. ASSUME NEW i \in 1..m PROVE Name(rows[i]) \in all
      BY <2>3, <2>5
    <3>2. ASSUME NEW i \in 1..n PROVE Name(more[i]) \in all
      BY <2>4, <2>6
    <3>3. ASSUME NEW i \in 1..(m + n) PROVE Name(rows'[i]) \in old \cup new
      <4>1. CASE i \in 1..m
        BY <2>3, <4>1
      <4>2. CASE i \notin 1..m
        <5>1. PICK j \in 1..n : i = m + j
          BY <2>7, <4>2
        <5> QED BY <2>4, <5>1
      <4> QED BY <4>1, <4>2
    <3>4. old \subseteq all /\ new \subseteq all /\ all \subseteq old \cup new
      BY <3>1, <3>2, <3>3
    <3> HIDE DEF all, old, new
    <3> QED BY <3>4 DEF all, old, new
  <2> QED BY <2>2, <2>8 DEF BookedTrades
<1> QED BY <1>3, <1>4, <1>8, <1>9 DEF Book!Return, Outcome, OpenTrades, BookedTrades

\* Every step of the run is a step of the trade book, or leaves it alone.
LEMMA BookStep ==
  ASSUME TypeInv, TodoInv, CountInv, StampInv, [HaltNext]_haltVars
  PROVE  [Book!BookNext]_(Book!bookVars)
<1>1. Book!bookVars = bookView /\ (Book!bookVars)' = bookView'
  BY DEF Book!bookVars, bookView, OpenTrades, BookedTrades, Outcome
<1>2. CASE UNCHANGED haltVars
  <2>1. UNCHANGED <<positions, rows, phase>>
    BY <1>2 DEF haltVars, engineVars
  <2>2. UNCHANGED bookView
    BY <2>1 DEF bookView, OpenTrades, BookedTrades, Outcome, Held
  <2> QED BY <1>1, <2>2
<1>3. CASE NextGroup
  BY <1>1, <1>3, ViewSame DEF NextGroup, booksVars, Live
<1>4. CASE ExitStep
  <2>1. phase = "exits"
    BY <1>4 DEF ExitStep
  <2>2. CASE ExitRaised
    BY <2>1, <2>2, ViewRaised DEF ExitRaised, booksVars, Live, Book!BookNext, Outcome
  <2>3. CASE Kept
    BY <1>1, <2>1, <2>3, ViewSame DEF Kept, ExitsAdvance, booksVars, Live
  <2>4. CASE Exited
    BY <2>1, <2>4, ExitBooks DEF Book!BookNext, Outcome
  <2> QED BY <1>4, <2>2, <2>3, <2>4 DEF ExitStep
<1>5. CASE SignalStep
  <2>1. phase = "signals"
    BY <1>5 DEF SignalStep
  <2>2. CASE SignalRaised
    BY <2>1, <2>2, ViewRaised DEF SignalRaised, Live, Book!BookNext, Outcome
  <2>3. CASE DroppedOne
    BY <1>1, <2>1, <2>3, ViewSame DEF DroppedOne, Live
  <2>4. CASE Entered
    BY <2>1, <2>4, EntryBooks DEF Book!BookNext, Outcome
  <2> QED BY <1>5, <2>2, <2>3, <2>4 DEF SignalStep
<1>6. CASE BarDone
  BY <1>1, <1>6, ViewSame DEF BarDone, booksVars, Live
<1>7. CASE FinishStep
  BY <1>7, FinishBooks DEF Book!BookNext, Outcome
<1> QED BY <1>2, <1>3, <1>4, <1>5, <1>6, <1>7, EngineCases DEF HaltNext

\* The engine implements the trade book (MCEdgeEngine's KeepsTradeBook): whatever the
\* tape and the hooks say, a position is opened under a name never used before, closed
\* once by its ledger row, and none is left open when run() returns.
THEOREM TradeBookKept == HaltSpec => KeepsTradeBook
<1> DEFINE Inv == TypeInv /\ TodoInv /\ CountInv /\ StampInv
<1>1. HaltInit => Inv
  BY EngineStart, CountStart
<1>2. Inv /\ [HaltNext]_haltVars => Inv'
  BY TypesKept, CountKept, StampKept
<1>3. HaltInit => Book!BookInit
  <2>1. SUFFICES ASSUME HaltInit PROVE Book!BookInit
    OBVIOUS
  <2>2. positions = <<>> /\ rows = <<>> /\ phase = "idle"
    BY <2>1 DEF HaltInit, EngineInit
  <2>3. OpenTrades = {} /\ BookedTrades = {} /\ Outcome = "running"
    BY <2>2 DEF OpenTrades, BookedTrades, Outcome, Held
  <2> QED BY <2>3 DEF Book!BookInit, OpenTrades, BookedTrades, Outcome
<1>4. Inv /\ [HaltNext]_haltVars => [Book!BookNext]_(Book!bookVars)
  BY BookStep
<1> QED BY <1>1, <1>2, <1>3, <1>4, PTL DEF HaltSpec, KeepsTradeBook, Book!BookSpec

-----------------------------------------------------------------------------
(* The costs of a trade.                                                    *)

\* The move between the mids, less the two distances from them, is the move
\* between the prices: for a long trade, and for a short one.
LEMMA LongRow ==
  \A e, x, m, px, q, u \in Int :
    1 * (px - e) * q * u = 1 * (x - m) * q * u - ((e - m) * (q * u) + (x - px) * (q * u))
OBVIOUS

\* The same for a short trade.
LEMMA ShortRow ==
  \A e, x, m, px, q, u \in Int :
    (-1) * (px - e) * q * u = (-1) * (x - m) * q * u - ((m - e) * (q * u) + (px - x) * (q * u))
OBVIOUS

\* The row of a trade whose exit has its distance from mid accounted for.
LEMMA RowCosts ==
  ASSUME NEW p \in Trades, EntryOk(p), NEW t, NEW px \in Int, NEW reason, NEW x \in Int,
         NEW c, c.spread \in Int, c.slip \in Int, c.commission \in Nat,
         c.spread + c.slip = (IF p.side = BUY THEN x - px ELSE px - x) * (p.qty * Multiplier),
         c.spread + c.slip >= 0
  PROVE  LET r == TradeRow(p, t, px, reason, c)
         IN  /\ r.friction >= 0 /\ r.commission >= 0
             /\ r.pnl = Direction(r.side) * (x - MidMet(r.symbol, r.entry_ts)) * r.qty * Multiplier
                        - r.friction - r.commission
<1> DEFINE r == TradeRow(p, t, px, reason, c)
           m == MidMet(p.symbol, p.entry_ts)
           e == p.entry_px
           q == p.qty
           u == Multiplier
           in == p.costs.spread + p.costs.slip
           out == c.spread + c.slip
           comm == p.costs.commission + c.commission
           d == Direction(p.side)
<1>1. p.side \in Sides /\ q \in Int /\ e \in Int /\ p.costs \in Fills
  BY DEF Trades
<1>2. p.costs.spread \in Int /\ p.costs.slip \in Int /\ p.costs.commission \in Nat
  BY <1>1 DEF Fills
<1>3. u \in Int /\ m \in Int
  BY FillAssumption, PriceInt, <1>1 DEF EntryOk, Honest, MidMet
<1>4. in = (IF p.side = BUY THEN e - m ELSE m - e) * (q * u) /\ in >= 0
  <2> DEFINE met == tape[p.symbol][NextBar(p.symbol, p.entry_ts - LatencyTicks)].quote
  <2>1. p.costs.price = e /\ p.costs.qty = q /\ Costed(p.costs, met, p.side) /\ m = Mid(met)
    BY DEF EntryOk, Honest, MidMet
  <2> HIDE DEF met, m
  <2> QED BY <2>1 DEF Costed, Adverse
<1>5. /\ r.pnl = d * (px - e) * q * u - comm /\ r.commission = comm
      /\ r.friction = p.costs.spread + p.costs.slip + c.spread + c.slip
      /\ r.side = p.side /\ r.qty = q /\ r.symbol = p.symbol /\ r.entry_ts = p.entry_ts
  BY DEF TradeRow
<1>6. r.friction = in + out
  <2> HIDE DEF r
  <2> QED BY <1>2, <1>5
<1>7. out = (IF p.side = BUY THEN x - px ELSE px - x) * (q * u)
  OBVIOUS
<1>8. comm \in Nat /\ in \in Int /\ out \in Int /\ out >= 0
  BY <1>2
<1>9. d * (px - e) * q * u = d * (x - m) * q * u - (in + out)
  <2> HIDE DEF m, e, q, u, in, out, r, comm
  <2>1. CASE p.side = BUY
    <3>1. d = 1 /\ in = (e - m) * (q * u) /\ out = (x - px) * (q * u)
      BY <1>4, <1>7, <2>1 DEF Direction
    <3> QED BY <1>1, <1>3, <3>1, LongRow
  <2>2. CASE p.side = SELL
    <3>1. d = -1 /\ in = (m - e) * (q * u) /\ out = (px - x) * (q * u)
      BY <1>4, <1>7, <2>2 DEF Direction, BUY, SELL
    <3> QED BY <1>1, <1>3, <3>1, ShortRow
  <2> QED BY <1>1, <2>1, <2>2 DEF Sides
<1> DEFINE move == d * (x - m) * q * u
           gain == d * (px - e) * q * u
<1>10. move \in Int /\ gain \in Int
  <2>1. d \in Int
    BY DEF Direction
  <2> HIDE DEF d, m, e, q, u
  <2> QED BY <1>1, <1>3, <2>1
<1>11. r.pnl = gain - comm /\ gain = move - (in + out)
  BY <1>5, <1>9
<1> HIDE DEF r, in, out, comm, d, move, gain
<1>12. r.friction >= 0 /\ r.commission >= 0 /\ r.pnl = move - r.friction - r.commission
  BY <1>4, <1>5, <1>6, <1>8, <1>10, <1>11
<1>13. move = Direction(r.side) * (x - MidMet(r.symbol, r.entry_ts)) * r.qty * Multiplier
  BY <1>5 DEF move, d
<1> QED BY <1>12, <1>13 DEF r

\* What the tape says of a trade stays true while trade and tape stay.
LEMMA CostSame ==
  ASSUME CostInv, UNCHANGED <<tape, positions, rows>>
  PROVE  CostInv'
BY DEF CostInv, Held, EntryOk, Honest, RowExact, MidMet, NextBar, BarTimes

\* A trade that is kept, and one that is booked, as the next state sees them.
LEMMA EntrySame ==
  ASSUME UNCHANGED tape, NEW x, NEW y, EntryOk(positions[x]), positions'[y] = positions[x]
  PROVE  EntryOk(positions[y])'
BY DEF EntryOk, Honest, NextBar, BarTimes

\* The same for a row of the ledger.
LEMMA RowSame ==
  ASSUME UNCHANGED tape, NEW r, RowExact(r), NEW i, rows'[i] = r
  PROVE  RowExact(rows[i])'
BY DEF RowExact, MidMet, NextBar, BarTimes

\* The row of a filled exit carries the costs of both its fills.
LEMMA CostExited ==
  ASSUME TypeInv, TodoInv, CostInv, phase = "exits", UNCHANGED clockVars, Exited
  PROVE  CostInv'
<1> DEFINE s == Head(todo)
           p == positions[s]
<1>1. PICK fill \in Fills, reason \in ExitReasons :
        /\ s \in Held /\ fill.qty = p.qty /\ Honest(fill, s, Opposite(p.side), now)
        /\ positions' = Restrict(positions, Held \ {s})
        /\ rows' = Append(rows, TradeRow(p, now + LatencyTicks, fill.price, reason, fill))
  BY DEF Exited
<1> DEFINE t == now + LatencyTicks
           r == TradeRow(p, t, fill.price, reason, fill)
<1>2. tape' = tape /\ now \in Int /\ LatencyTicks \in Int
  BY TimesNatural, EngineAssumption DEF clockVars, TypeInv
<1>3. p \in Trades /\ p.symbol = s /\ EntryOk(p) /\ p.side \in Sides
  BY <1>1 DEF TypeInv, CostInv, Trades
<1>4. RowExact(r)
  <2> DEFINE x == MidMet(s, t)
             met == tape[s][NextBar(s, now)].quote
  <2>1. x = Mid(met)
    <3>1. t - LatencyTicks = now
      BY <1>2
    <3> QED BY <3>1 DEF MidMet
  <2>2. Costed(fill, met, Opposite(p.side)) /\ QuoteOk(met)
    BY <1>1 DEF Honest
  <2>3. /\ fill.price \in Int /\ fill.spread \in Int /\ fill.slip \in Int
        /\ fill.commission \in Nat
    BY DEF Fills
  <2> HIDE DEF met, x, p, s, t
  <2>4. x \in Int
    BY <1>3, <2>1, <2>2, PriceInt
  <2>5. /\ fill.spread + fill.slip
             = (IF p.side = BUY THEN x - fill.price ELSE fill.price - x) * (p.qty * Multiplier)
        /\ fill.spread + fill.slip >= 0
    BY <1>1, <1>3, <2>1, <2>2 DEF Costed, Adverse, Opposite, Sides, BUY, SELL
  <2>6. /\ r.friction >= 0 /\ r.commission >= 0
        /\ r.pnl = Direction(r.side) * (x - MidMet(r.symbol, r.entry_ts)) * r.qty * Multiplier
                   - r.friction - r.commission
    BY <1>3, <2>3, <2>4, <2>5, RowCosts
  <2>7. r.symbol = s /\ r.exit_ts = t /\ r.exit_reason = reason
    BY <1>3 DEF TradeRow
  <2>8. reason # "end_of_data"
    BY DEF ExitReasons
  <2> HIDE DEF r
  <2> QED BY <2>6, <2>7, <2>8 DEF RowExact, x
<1>5. \A y \in Held' : EntryOk(positions[y])'
  <2>1. Held' = Held \ {s} /\ \A y \in Held \ {s} : positions'[y] = positions[y]
    BY <1>1 DEF Held, Restrict
  <2> QED BY <1>2, <2>1, EntrySame DEF CostInv
<1>6. \A i \in 1..Len(rows') : RowExact(rows[i])'
  <2>1. rows \in Seq(Rows) /\ rows' = Append(rows, r)
    BY <1>1 DEF TypeInv
  <2> HIDE DEF r, p, s
  <2>2. \A i \in 1..Len(rows') : (i \in 1..Len(rows) /\ rows'[i] = rows[i]) \/ rows'[i] = r
    BY <2>1
  <2>3. \A i \in 1..Len(rows) : RowExact(rows[i])
    BY DEF CostInv
  <2>4. ASSUME NEW i \in 1..Len(rows') PROVE RowExact(rows[i])'
    <3>1. CASE rows'[i] = r
      BY <1>2, <1>4, <3>1, RowSame
    <3>2. CASE i \in 1..Len(rows) /\ rows'[i] = rows[i]
      BY <1>2, <2>3, <3>2, RowSame
    <3> QED BY <2>2, <3>1, <3>2
  <2> QED BY <2>4
<1> QED BY <1>5, <1>6 DEF CostInv

\* A position carries the costs of its entry.
LEMMA CostEntered ==
  ASSUME TypeInv, TodoInv, CostInv, phase = "signals", UNCHANGED clockVars, Entered
  PROVE  CostInv'
<1>1. PICK s \in Symbols, side \in Sides, fill \in Fills :
        /\ s \notin Held /\ Honest(fill, s, side, now) /\ rows' = rows
        /\ positions' = [r \in Held \cup {s} |-> IF r # s THEN positions[r]
             ELSE [symbol |-> s, side |-> side, qty |-> fill.qty,
                   risk_per_share |-> RiskPerShare(last_close[s]),
                   entry_ts |-> now + LatencyTicks, entry_px |-> fill.price, costs |-> fill]]
  BY DEF Entered
<1> DEFINE p == positions'[s]
<1>2. tape' = tape /\ now \in Int /\ LatencyTicks \in Int
  BY TimesNatural, EngineAssumption DEF clockVars, TypeInv
<1>3. /\ Held' = Held \cup {s} /\ \A y \in Held : positions'[y] = positions[y]
      /\ p.symbol = s /\ p.side = side /\ p.qty = fill.qty /\ p.costs = fill
      /\ p.entry_px = fill.price /\ p.entry_ts = now + LatencyTicks
  BY <1>1 DEF Held
<1>4. EntryOk(positions[s])'
  <2> DEFINE t == p.entry_ts - LatencyTicks
  <2>1. t = now
    BY <1>2, <1>3
  <2>2. Honest(p.costs, p.symbol, p.side, t)
    BY <1>1, <1>3, <2>1
  <2>3. Honest(positions[s].costs, positions[s].symbol, positions[s].side,
               positions[s].entry_ts - LatencyTicks)'
    BY <1>2, <2>2 DEF Honest, NextBar, BarTimes
  <2> QED BY <1>3, <2>3 DEF EntryOk
<1>5. \A y \in Held' : EntryOk(positions[y])'
  <2>1. \A y \in Held : EntryOk(positions[y])'
    BY <1>2, <1>3, EntrySame DEF CostInv
  <2> QED BY <1>3, <1>4, <2>1
<1>6. \A i \in 1..Len(rows') : RowExact(rows[i])'
  BY <1>1, <1>2, RowSame DEF CostInv
<1> QED BY <1>5, <1>6 DEF CostInv

\* The row of a flattened trade carries the costs of its entry and no other.
LEMMA CostFinish ==
  ASSUME TypeInv, CostInv, FinishStep
  PROVE  CostInv'
<1>1. PICK stranded \in Bijection(1..Cardinality(Held), Held) : Finish(stranded)
  BY DEF FinishStep
<1> DEFINE n == Cardinality(Held)
           more == FlattenRows(stranded)
<1>2. tape' = tape /\ positions' = <<>> /\ rows' = rows \o more
  BY <1>1 DEF Finish, clockVars
<1>3. /\ n \in Nat /\ more \in Seq(Rows) /\ Len(more) = n
      /\ \A i \in 1..n : stranded[i] \in Held /\ more[i] = FlattenRow(stranded[i])
  BY FlattenBooks
<1>4. ASSUME NEW s \in Held PROVE RowExact(FlattenRow(s))
  <2> DEFINE p == positions[s]
             px == last_close[s]
             r == FlattenRow(s)
  <2>1. p \in Trades /\ EntryOk(p) /\ px \in Int
    BY DEF TypeInv, CostInv
  <2>2. /\ FreeFill.spread = 0 /\ FreeFill.slip = 0 /\ FreeFill.commission = 0
    BY DEF FreeFill, NoFill
  <2>3. r = TradeRow(p, Max(BarTimes(s)), px, "end_of_data", FreeFill)
    BY DEF FlattenRow
  <2>4. r.exit_reason = "end_of_data" /\ r.exit_px = px
    BY DEF FlattenRow, TradeRow
  <2>5. p.qty * Multiplier \in Int
    BY <2>1, FillAssumption DEF Trades
  <2> HIDE DEF p, px, r
  <2>6. (IF p.side = BUY THEN px - px ELSE px - px) * (p.qty * Multiplier) = 0
    <3>1. px - px = 0
      BY <2>1
    <3> QED BY <2>5, <3>1
  <2> DEFINE c == FreeFill
             ts == Max(BarTimes(s))
  <2> HIDE DEF c, ts
  <2>8. c.spread \in Int /\ c.slip \in Int /\ c.commission \in Nat /\ c.spread + c.slip >= 0
        /\ c.spread + c.slip
             = (IF p.side = BUY THEN px - px ELSE px - px) * (p.qty * Multiplier)
    BY <2>2, <2>6 DEF c
  <2>9. LET w == TradeRow(p, ts, px, "end_of_data", c)
        IN  /\ w.friction >= 0 /\ w.commission >= 0
            /\ w.pnl = Direction(w.side) * (px - MidMet(w.symbol, w.entry_ts)) * w.qty * Multiplier
                       - w.friction - w.commission
    BY <2>1, <2>8, RowCosts
  <2>7. /\ r.friction >= 0 /\ r.commission >= 0
        /\ r.pnl = Direction(r.side) * (px - MidMet(r.symbol, r.entry_ts)) * r.qty * Multiplier
                   - r.friction - r.commission
    BY <2>3, <2>9 DEF c, ts
  <2> QED BY <2>4, <2>7 DEF RowExact, r
<1>5. Held' = {}
  BY <1>2 DEF Held
<1>6. \A i \in 1..Len(rows') : RowExact(rows[i])'
  <2>1. rows \in Seq(Rows) /\ more \in Seq(Rows) /\ rows' = rows \o more
    BY <1>2, <1>3 DEF TypeInv
  <2> HIDE DEF more, n
  <2>2. \A i \in 1..Len(rows') : \/ i \in 1..Len(rows) /\ rows'[i] = rows[i]
                                 \/ \E j \in 1..Len(more) : rows'[i] = more[j]
    <3> TAKE i \in 1..Len(rows')
    <3>2. CASE i \in 1..Len(rows)
      BY <2>1, <3>2
    <3>3. CASE i \notin 1..Len(rows)
      <4> DEFINE m == Len(rows)
                 k == Len(more)
      <4>1. m \in Nat /\ k \in Nat /\ Len(rows') = m + k
        BY <2>1
      <4>2. \A j \in 1..k : rows'[m + j] = more[j]
        BY <2>1
      <4>3. i \in 1..(m + k) /\ i \notin 1..m
        BY <3>3, <4>1
      <4> HIDE DEF m, k
      <4>4. i - m \in 1..k /\ m + (i - m) = i
        BY <4>1, <4>3
      <4> QED BY <4>2, <4>4 DEF k
    <3> QED BY <3>2, <3>3
  <2>3. \A i \in 1..Len(rows) : RowExact(rows[i])
    BY DEF CostInv
  <2>4. ASSUME NEW i \in 1..Len(rows') PROVE RowExact(rows[i])'
    <3>1. CASE i \in 1..Len(rows) /\ rows'[i] = rows[i]
      BY <1>2, <2>3, <3>1, RowSame
    <3>2. CASE \E j \in 1..Len(more) : rows'[i] = more[j]
      <4>1. PICK j \in 1..Len(more) : rows'[i] = more[j]
        BY <3>2
      <4>2. RowExact(more[j])
        BY <1>3, <1>4, <4>1
      <4> QED BY <1>2, <4>1, <4>2, RowSame
    <3> QED BY <2>2, <3>1, <3>2
  <2> QED BY <2>4
<1> QED BY <1>5, <1>6 DEF CostInv

\* The costs the fills were charged are kept, whatever the step.
LEMMA CostKept ==
  ASSUME TypeInv, TodoInv, CostInv, [HaltNext]_haltVars
  PROVE  CostInv'
<1>1. CASE UNCHANGED haltVars
  BY <1>1, CostSame DEF haltVars, engineVars
<1>2. CASE NextGroup
  BY <1>2, CostSame DEF NextGroup, booksVars
<1>3. CASE ExitStep
  <2>1. phase = "exits" /\ UNCHANGED clockVars
    BY <1>3 DEF ExitStep
  <2>2. CASE Kept \/ ExitRaised
    BY <2>1, <2>2, CostSame DEF Kept, ExitRaised, booksVars, clockVars
  <2> QED BY <1>3, <2>1, <2>2, CostExited DEF ExitStep
<1>4. CASE SignalStep
  <2>1. phase = "signals" /\ UNCHANGED clockVars
    BY <1>4 DEF SignalStep
  <2>2. CASE DroppedOne \/ SignalRaised
    BY <2>1, <2>2, CostSame DEF DroppedOne, SignalRaised, clockVars
  <2> QED BY <1>4, <2>1, <2>2, CostEntered DEF SignalStep
<1>5. CASE BarDone
  BY <1>5, CostSame DEF BarDone, booksVars
<1>6. CASE FinishStep
  BY <1>6, CostFinish
<1> QED BY <1>1, <1>2, <1>3, <1>4, <1>5, <1>6, EngineCases DEF HaltNext

-----------------------------------------------------------------------------
(* The ledger.                                                              *)

\* The two sums the cash of a run is explained by.
Gains == [i \in DOMAIN rows |-> rows[i].pnl]
Stakes == [s \in Held |-> Outlay(positions[s].side, positions[s].costs)]

\* Both sums are integers.
LEMMA SumsTyped ==
  TypeInv => /\ Gains \in [1..Len(rows) -> Int] /\ Len(rows) \in Nat
             /\ Stakes \in [Held -> Int] /\ IsFiniteSet(Held)
             /\ SumFunction(Gains) \in Int /\ SumFunction(Stakes) \in Int
<1> SUFFICES ASSUME TypeInv
             PROVE  /\ Gains \in [1..Len(rows) -> Int] /\ Len(rows) \in Nat
                    /\ Stakes \in [Held -> Int] /\ IsFiniteSet(Held)
                    /\ SumFunction(Gains) \in Int /\ SumFunction(Stakes) \in Int
  OBVIOUS
<1>1. rows \in Seq(Rows) /\ positions \in [Held -> Trades]
  BY DEF TypeInv
<1>2. Len(rows) \in Nat /\ DOMAIN rows = 1..Len(rows) /\ \A i \in 1..Len(rows) : rows[i] \in Rows
  BY <1>1
<1>3. \A i \in 1..Len(rows) : rows[i].pnl \in Int
  BY <1>2 DEF Rows
<1>4. Gains \in [1..Len(rows) -> Int]
  BY <1>2, <1>3 DEF Gains
<1>5. ASSUME NEW s \in Held PROVE Outlay(positions[s].side, positions[s].costs) \in Int
  <2> DEFINE f == positions[s].costs
             side == positions[s].side
  <2>1. f \in Fills
    BY <1>1 DEF Trades
  <2> HIDE DEF f, side
  <2>2. f.price \in Int /\ f.qty \in Int /\ f.commission \in Int
    BY <2>1 DEF Fills
  <2>3. Outlay(side, f) \in Int
    BY <2>2, OutlayInt
  <2> QED BY <2>3 DEF f, side
<1>6. Stakes \in [Held -> Int]
  BY <1>5 DEF Stakes
<1>7. IsFiniteSet(Held) /\ IsFiniteSet(1..Len(rows))
  BY <1>2, EquityInt, FS_Interval
<1> QED BY <1>2, <1>4, <1>6, <1>7, SumInt

\* The gain, what the exit gives back and what the entry took cancel: for a long trade.
LEMMA LongMoney ==
  \A e, px, q, u \in Int : 1 * (px - e) * q * u + (-1) * px * q * u + 1 * e * q * u = 0
OBVIOUS

\* The same for a short trade.
LEMMA ShortMoney ==
  \A e, px, q, u \in Int : (-1) * (px - e) * q * u + 1 * px * q * u + (-1) * e * q * u = 0
OBVIOUS

\* What a closed trade earns is what its exit brings less what its entry took.
LEMMA ClosedPays ==
  ASSUME NEW p \in Trades, EntryOk(p), NEW t, NEW px \in Int, NEW reason,
         NEW c, c.commission \in Int,
         NEW f, f.price = px, f.qty = p.qty, f.commission = c.commission
  PROVE  /\ TradeRow(p, t, px, reason, c).pnl + Outlay(Opposite(p.side), f)
               + Outlay(p.side, p.costs) = 0
         /\ TradeRow(p, t, px, reason, c).pnl \in Int
         /\ Outlay(Opposite(p.side), f) \in Int /\ Outlay(p.side, p.costs) \in Int
<1> DEFINE e == p.entry_px
           q == p.qty
           u == Multiplier
           d == Direction(p.side)
           o == Direction(Opposite(p.side))
           in == p.costs.commission
           out == c.commission
           gain == d * (px - e) * q * u
           back == o * px * q * u
           paid == d * e * q * u
<1>1. p.side \in Sides /\ q \in Int /\ e \in Int /\ p.costs \in Fills /\ u \in Int
  BY FillAssumption DEF Trades
<1>2. in \in Int /\ out \in Int
  BY <1>1 DEF Fills
<1>3. TradeRow(p, t, px, reason, c).pnl = gain - (in + out)
  BY DEF TradeRow
<1>4. Outlay(Opposite(p.side), f) = back + out
  BY DEF Outlay
<1>5. Outlay(p.side, p.costs) = paid + in
  BY DEF Outlay, EntryOk
<1>6. d \in Int /\ o \in Int
  BY DEF Direction
<1>7. gain + back + paid = 0 /\ gain \in Int /\ back \in Int /\ paid \in Int
  <2> HIDE DEF e, q, u
  <2>1. gain \in Int /\ back \in Int /\ paid \in Int
    <3> HIDE DEF d, o
    <3> QED BY <1>1, <1>6
  <2>2. CASE p.side = BUY
    <3>1. d = 1 /\ o = -1
      BY <2>2 DEF Direction, Opposite, BUY, SELL
    <3> HIDE DEF d, o
    <3> QED BY <1>1, <2>1, <3>1, LongMoney
  <2>3. CASE p.side = SELL
    <3>1. d = -1 /\ o = 1
      BY <2>3 DEF Direction, Opposite, BUY, SELL
    <3> HIDE DEF d, o
    <3> QED BY <1>1, <2>1, <3>1, ShortMoney
  <2> QED BY <1>1, <2>2, <2>3 DEF Sides
<1> HIDE DEF gain, back, paid, in, out
<1> QED BY <1>2, <1>3, <1>4, <1>5, <1>7

\* The ledger does not move when cash, rows and positions do not.
LEMMA LedgerSame ==
  ASSUME LedgerReconciles, UNCHANGED <<cash, rows, positions>>
  PROVE  LedgerReconciles'
BY DEF LedgerReconciles, Held

\* A filled exit turns what the position cost and what it brings into one row of the ledger.
LEMMA LedgerExited ==
  ASSUME TypeInv, TodoInv, CostInv, LedgerReconciles, phase = "exits", Exited
  PROVE  LedgerReconciles'
<1> DEFINE s == Head(todo)
           p == positions[s]
<1>1. PICK fill \in Fills, reason \in ExitReasons :
        /\ s \in Held /\ fill.qty = p.qty
        /\ cash' = cash - Outlay(Opposite(p.side), fill)
        /\ positions' = Restrict(positions, Held \ {s})
        /\ rows' = Append(rows, TradeRow(p, now + LatencyTicks, fill.price, reason, fill))
  BY DEF Exited
<1> DEFINE t == now + LatencyTicks
           r == TradeRow(p, t, fill.price, reason, fill)
           n == Len(rows)
           back == Outlay(Opposite(p.side), fill)
           paid == Outlay(p.side, p.costs)
<1>2. p \in Trades /\ EntryOk(p)
  BY <1>1 DEF TypeInv, CostInv
<1>3. r.pnl + back + paid = 0 /\ r.pnl \in Int /\ back \in Int /\ paid \in Int
  <2>1. fill.price \in Int /\ fill.commission \in Int /\ fill.qty = p.qty
    BY <1>1 DEF Fills
  <2> HIDE DEF p, t
  <2> QED BY <1>2, <2>1, ClosedPays
<1>4. /\ Gains \in [1..n -> Int] /\ n \in Nat /\ Stakes \in [Held -> Int] /\ IsFiniteSet(Held)
      /\ SumFunction(Gains) \in Int /\ SumFunction(Stakes) \in Int
  BY SumsTyped
<1>5. SumFunction(Gains') = SumFunction(Gains) + r.pnl
  <2>1. rows \in Seq(Rows) /\ rows' = Append(rows, r)
    BY <1>1 DEF TypeInv
  <2> HIDE DEF r
  <2>2. DOMAIN rows' = 1..(n + 1) /\ rows'[n + 1] = r /\ \A i \in 1..n : rows'[i] = rows[i]
    BY <2>1
  <2>3. \A i \in 1..n : rows[i].pnl \in Int /\ Gains[i] = rows[i].pnl
    BY <1>4, <2>1 DEF Gains
  <2> DEFINE f == [i \in 1..(n + 1) |-> rows'[i].pnl]
  <2>4. Gains' = f
    BY <2>2 DEF Gains
  <2>5. f \in [1..(n + 1) -> Int] /\ f[n + 1] = r.pnl /\ \A i \in 1..n : f[i] = Gains[i]
    <3>1. \A i \in 1..(n + 1) : i \in 1..n \/ i = n + 1
      BY <1>4
    <3>2. \A i \in 1..n : i \in 1..(n + 1)
      BY <1>4
    <3>3. n + 1 \in 1..(n + 1)
      BY <1>4
    <3> HIDE DEF n
    <3> QED BY <1>3, <2>2, <2>3, <3>1, <3>2, <3>3
  <2> HIDE DEF f, n
  <2> QED BY <1>4, <2>4, <2>5, SumAppend
<1>6. SumFunction(Stakes) = paid + SumFunction(Stakes')
  <2> DEFINE S == Held \ {s}
  <2>1. Held' = S /\ \A x \in S : positions'[x] = positions[x]
    BY <1>1 DEF Held, Restrict
  <2>2. Restrict(Stakes, S) = Stakes'
    BY <2>1 DEF Stakes, Restrict
  <2>3. S \in SUBSET Held /\ s \in Held /\ s \notin S /\ S \cup {s} = Held
    BY <1>1
  <2>4. DOMAIN Stakes = Held /\ \A x \in Held : Stakes[x] \in Int
    BY <1>4
  <2>5. Stakes[s] = paid
    BY <1>1 DEF Stakes
  <2> HIDE DEF S, s, paid
  <2>6. SumFunction(Restrict(Stakes, S \cup {s})) = Stakes[s] + SumFunction(Restrict(Stakes, S))
    BY <1>4, <2>3, <2>4, SumGrow
  <2>7. Restrict(Stakes, Held) = Stakes
    BY <2>4, RestrictSelf DEF Stakes
  <2> QED BY <2>2, <2>3, <2>5, <2>6, <2>7
<1>7. SumFunction(Stakes') \in Int
  <2>1. Stakes' \in [Held \ {s} -> Int]
    <3>1. Held' = Held \ {s} /\ \A x \in Held \ {s} : positions'[x] = positions[x]
      BY <1>1 DEF Held, Restrict
    <3>2. \A x \in Held \ {s} : Stakes[x] = Outlay(positions[x].side, positions[x].costs)
                                /\ Stakes[x] \in Int
      BY <1>4 DEF Stakes
    <3> HIDE DEF s
    <3> QED BY <3>1, <3>2 DEF Stakes
  <2>2. IsFiniteSet(Held \ {s})
    BY <1>4, FS_Subset
  <2> QED BY <2>1, <2>2, SumInt
<1>8. cash = InitialEquity * Unit + SumFunction(Gains) - SumFunction(Stakes)
  BY DEF LedgerReconciles, Gains, Stakes
<1>9. InitialEquity * Unit \in Int /\ cash' = cash - back
  BY <1>1, EngineAssumption DEF Unit
<1> DEFINE g == SumFunction(Gains)
           g1 == SumFunction(Gains')
           k == SumFunction(Stakes)
           k1 == SumFunction(Stakes')
           pnl == r.pnl
           start == InitialEquity * Unit
<1> HIDE DEF g, g1, k, k1, pnl, start, back, paid, p, s, t
<1>10. cash' = start + g1 - k1
  <2>1. g \in Int /\ k \in Int /\ k1 \in Int /\ pnl \in Int /\ back \in Int /\ paid \in Int
        /\ start \in Int
    BY <1>3, <1>4, <1>7, <1>9 DEF g, k, k1, pnl, start
  <2>2. pnl + back + paid = 0 /\ g1 = g + pnl /\ k = paid + k1 /\ cash = start + g - k
        /\ cash' = cash - back
    BY <1>3, <1>5, <1>6, <1>8, <1>9 DEF g, g1, k, k1, pnl, start
  <2> QED BY ONLY <2>1, <2>2
<1> QED BY <1>10 DEF LedgerReconciles, Gains, Stakes, g1, k1, start

\* A filled entry takes from cash what the new position is said to have cost.
LEMMA LedgerEntered ==
  ASSUME TypeInv, TypeInv', LedgerReconciles, Entered
  PROVE  LedgerReconciles'
<1>1. PICK s \in Symbols, side \in Sides, fill \in Fills :
        /\ s \notin Held /\ cash' = cash - Outlay(side, fill) /\ rows' = rows
        /\ positions' = [r \in Held \cup {s} |-> IF r # s THEN positions[r]
             ELSE [symbol |-> s, side |-> side, qty |-> fill.qty,
                   risk_per_share |-> RiskPerShare(last_close[s]),
                   entry_ts |-> now + LatencyTicks, entry_px |-> fill.price, costs |-> fill]]
  BY DEF Entered
<1> DEFINE paid == Outlay(side, fill)
<1>2. /\ Held' = Held \cup {s} /\ \A x \in Held : positions'[x] = positions[x]
      /\ positions'[s].side = side /\ positions'[s].costs = fill
  BY <1>1 DEF Held
<1>3. /\ IsFiniteSet(Held) /\ SumFunction(Gains) \in Int /\ SumFunction(Stakes) \in Int
  BY SumsTyped
<1>4. Stakes' \in [Held' -> Int] /\ IsFiniteSet(Held')
  <2>1. (TypeInv => /\ Gains \in [1..Len(rows) -> Int] /\ Len(rows) \in Nat
                    /\ Stakes \in [Held -> Int] /\ IsFiniteSet(Held)
                    /\ SumFunction(Gains) \in Int /\ SumFunction(Stakes) \in Int)'
    BY SumsTyped, PTL
  <2> QED BY <2>1
<1>5. SumFunction(Stakes') = paid + SumFunction(Stakes) /\ paid \in Int
  <2> DEFINE f == Stakes'
  <2>1. DOMAIN f = Held \cup {s} /\ f = [x \in DOMAIN f |-> f[x]] /\ IsFiniteSet(DOMAIN f)
        /\ \A x \in DOMAIN f : f[x] \in Int
    BY <1>2, <1>4
  <2>2. f[s] = paid
    BY <1>2 DEF Stakes
  <2>3. Restrict(f, Held) = Stakes
    BY <1>2 DEF Stakes, Restrict
  <2> HIDE DEF f, paid
  <2>4. Held \in SUBSET (DOMAIN f) /\ s \in DOMAIN f /\ s \notin Held
    BY <1>1, <2>1
  <2>5. SumFunction(Restrict(f, Held \cup {s})) = f[s] + SumFunction(Restrict(f, Held))
    BY <2>1, <2>4, SumGrow
  <2>6. Restrict(f, DOMAIN f) = f
    BY <2>1, RestrictSelf
  <2>7. f[s] \in Int
    BY <2>1, <2>4
  <2> QED BY <2>1, <2>2, <2>3, <2>5, <2>6, <2>7 DEF f
<1>6. Gains' = Gains
  BY <1>1 DEF Gains
<1>7. cash = InitialEquity * Unit + SumFunction(Gains) - SumFunction(Stakes)
  BY DEF LedgerReconciles, Gains, Stakes
<1>8. InitialEquity * Unit \in Int /\ cash' = cash - paid
  BY <1>1, EngineAssumption DEF Unit
<1> DEFINE g == SumFunction(Gains)
           g1 == SumFunction(Gains')
           k == SumFunction(Stakes)
           k1 == SumFunction(Stakes')
           start == InitialEquity * Unit
<1> HIDE DEF g, g1, k, k1, start, paid
<1>9. cash' = start + g1 - k1
  <2>1. g \in Int /\ k \in Int /\ paid \in Int /\ start \in Int
    BY <1>3, <1>5, <1>8 DEF g, k, start
  <2>2. g1 = g /\ k1 = paid + k /\ cash = start + g - k /\ cash' = cash - paid
    BY <1>5, <1>6, <1>7, <1>8 DEF g, g1, k, k1, start
  <2> QED BY ONLY <2>1, <2>2
<1> QED BY <1>9 DEF LedgerReconciles, Gains, Stakes, g1, k1, start

\* What the flatten does to the books: each open position is worth what it brings,
\* and its row explains it.
Worths == Value(positions, last_close)
Brought == [s \in Held |-> FlattenOutlay(s)]
Earned == [s \in Held |-> FlattenRow(s).pnl]

\* A position is worth what closing it at the same price without costs brings.
LEMMA Closing == \A d, q, c, u \in Int : d * q * c * u + ((0 - d) * c * q * u + 0) = 0
OBVIOUS

\* One position of the flatten: its worth, its row and its closing explain each other.
LEMMA FlattenPays ==
  ASSUME TypeInv, CostInv, NEW s \in Held
  PROVE  /\ Worths[s] + Brought[s] = 0 /\ Earned[s] + Brought[s] + Stakes[s] = 0
         /\ Worths[s] \in Int /\ Earned[s] \in Int /\ Brought[s] \in Int /\ Stakes[s] \in Int
<1> DEFINE p == positions[s]
           px == last_close[s]
           f == [FreeFill EXCEPT !.price = px, !.qty = p.qty]
<1>1. p \in Trades /\ EntryOk(p) /\ px \in Int
  BY DEF TypeInv, CostInv
<1>2. f.price = px /\ f.qty = p.qty /\ f.commission = 0 /\ FreeFill.commission = 0
  BY DEF FreeFill, NoFill
<1>3. Brought[s] = Outlay(Opposite(p.side), f)
  BY DEF Brought, FlattenOutlay
<1>4. Earned[s] = TradeRow(p, Max(BarTimes(s)), px, "end_of_data", FreeFill).pnl
  BY DEF Earned, FlattenRow
<1>5. Stakes[s] = Outlay(p.side, p.costs)
  BY DEF Stakes
<1>6. Worths[s] = Direction(p.side) * p.qty * px * Multiplier
  BY DEF Worths, Value, Held
<1> DEFINE t == Max(BarTimes(s))
           c == FreeFill
<1> HIDE DEF f, p, px, t, c
<1>7. /\ TradeRow(p, t, px, "end_of_data", c).pnl + Outlay(Opposite(p.side), f)
            + Outlay(p.side, p.costs) = 0
      /\ TradeRow(p, t, px, "end_of_data", c).pnl \in Int
      /\ Outlay(Opposite(p.side), f) \in Int /\ Outlay(p.side, p.costs) \in Int
  <2>1. c.commission \in Int /\ f.commission = c.commission /\ f.price = px /\ f.qty = p.qty
    BY <1>2 DEF c
  <2> QED BY <1>1, <2>1, ClosedPays
<1>8. Worths[s] + Brought[s] = 0 /\ Worths[s] \in Int
  <2> DEFINE d == Direction(p.side)
             q == p.qty
             u == Multiplier
  <2>1. d \in Int /\ q \in Int /\ u \in Int /\ p.side \in Sides
    BY <1>1, FillAssumption DEF Trades, Direction
  <2>2. Direction(Opposite(p.side)) = 0 - d
    BY <2>1 DEF Sides, Direction, Opposite, BUY, SELL
  <2>3. Brought[s] = (0 - d) * px * q * u + 0
    BY <1>2, <1>3, <2>2 DEF Outlay
  <2>4. Worths[s] = d * q * px * u
    BY <1>6
  <2> HIDE DEF d, q, u
  <2>5. d * q * px * u \in Int
    BY <1>1, <2>1
  <2> QED BY <1>1, <2>1, <2>3, <2>4, <2>5, Closing
<1>9. Earned[s] + Brought[s] + Stakes[s] = 0 /\ Earned[s] \in Int /\ Brought[s] \in Int
      /\ Stakes[s] \in Int
  BY <1>3, <1>4, <1>5, <1>7 DEF t, c
<1> QED BY <1>8, <1>9

\* So the sums of the flatten cancel.
LEMMA FlattenSums ==
  ASSUME TypeInv, CostInv
  PROVE  /\ SumFunction(Worths) + SumFunction(Brought) = 0
         /\ SumFunction(Earned) + SumFunction(Brought) + SumFunction(Stakes) = 0
         /\ SumFunction(Worths) \in Int /\ SumFunction(Brought) \in Int
         /\ SumFunction(Earned) \in Int /\ SumFunction(Stakes) \in Int
<1>1. /\ DOMAIN Worths = Held /\ DOMAIN Brought = Held /\ DOMAIN Earned = Held
      /\ DOMAIN Stakes = Held /\ Worths = [s \in Held |-> Worths[s]]
      /\ Brought = [s \in Held |-> Brought[s]] /\ Earned = [s \in Held |-> Earned[s]]
      /\ Stakes = [s \in Held |-> Stakes[s]]
  BY DEF Worths, Brought, Earned, Stakes, Value, Held
<1>2. /\ Worths \in [Held -> Int] /\ Brought \in [Held -> Int] /\ Earned \in [Held -> Int]
      /\ Stakes \in [Held -> Int] /\ IsFiniteSet(Held)
  BY <1>1, FlattenPays, EquityInt
<1>3. /\ SumFunction(Worths) \in Int /\ SumFunction(Brought) \in Int
      /\ SumFunction(Earned) \in Int /\ SumFunction(Stakes) \in Int
  BY <1>2, SumInt
<1>4. SumFunction(Worths) + SumFunction(Brought) = 0
  <2>1. \A s \in Held : Worths[s] + Brought[s] = 0
    BY FlattenPays
  <2> QED BY <1>2, <2>1, SumCancel
<1> DEFINE both == [s \in Held |-> Brought[s] + Stakes[s]]
<1>5. SumFunction(both) = SumFunction(Brought) + SumFunction(Stakes)
  BY <1>2, SumAdd
<1>6. both \in [Held -> Int] /\ \A s \in Held : Earned[s] + both[s] = 0
  BY FlattenPays
<1> HIDE DEF both
<1>7. SumFunction(Earned) + SumFunction(both) = 0
  BY <1>2, <1>6, SumCancel
<1> QED BY <1>3, <1>4, <1>5, <1>7

\* The flatten leaves the cash that the last mark reported, and no position.
LEMMA LedgerFinish ==
  ASSUME TypeInv, CostInv, LedgerReconciles, FinishStep
  PROVE  /\ LedgerReconciles' /\ Held' = {}
         /\ mark = Equity => mark' = cash'
<1>1. PICK stranded \in Bijection(1..Cardinality(Held), Held) : Finish(stranded)
  BY DEF FinishStep
<1> DEFINE n == Cardinality(Held)
           m == Len(rows)
           more == FlattenRows(stranded)
           late == [i \in 1..n |-> more[i].pnl]
<1>2. /\ positions' = <<>> /\ rows' = rows \o more /\ mark' = mark
      /\ cash' = cash - SumFunction(Brought)
  BY <1>1 DEF Finish, clockVars, Brought
<1>3. /\ n \in Nat /\ more \in Seq(Rows) /\ Len(more) = n
      /\ \A i \in 1..n : stranded[i] \in Held /\ more[i] = FlattenRow(stranded[i])
  BY FlattenBooks
<1>4. /\ Gains \in [1..m -> Int] /\ m \in Nat /\ IsFiniteSet(Held)
      /\ SumFunction(Gains) \in Int /\ SumFunction(Stakes) \in Int
  BY SumsTyped
<1>5. /\ SumFunction(Worths) + SumFunction(Brought) = 0
      /\ SumFunction(Earned) + SumFunction(Brought) + SumFunction(Stakes) = 0
      /\ SumFunction(Worths) \in Int /\ SumFunction(Brought) \in Int
      /\ SumFunction(Earned) \in Int /\ SumFunction(Stakes) \in Int
  BY FlattenSums
<1>6. late \in [1..n -> Int] /\ Earned \in [Held -> Int]
      /\ \A i \in 1..n : late[i] = Earned[stranded[i]]
  <2>1. \A s \in Held : Earned[s] = FlattenRow(s).pnl /\ Earned[s] \in Int
    BY FlattenPays DEF Earned
  <2>2. Earned \in [Held -> Int]
    BY <2>1 DEF Earned
  <2> HIDE DEF n, more
  <2> QED BY <1>3, <2>1, <2>2
<1>7. SumFunction(late) = SumFunction(Earned)
  <2> HIDE DEF late, n
  <2>1. Renames(stranded, 1..n, Held, late, Earned)
    BY <1>6 DEF Renames, n
  <2>2. IsFiniteSet(1..n)
    BY <1>3, FS_Interval
  <2> QED BY <1>4, <2>1, <2>2, SumRename
<1>8. SumFunction(Gains') = SumFunction(Gains) + SumFunction(late)
  <2>1. rows \in Seq(Rows) /\ more \in Seq(Rows) /\ rows' = rows \o more
    BY <1>2, <1>3 DEF TypeInv
  <2> DEFINE f == [i \in 1..(m + n) |-> rows'[i].pnl]
  <2>2. Gains' = f
    <3>1. DOMAIN rows' = 1..(m + n)
      <4>1. Len(rows') = m + Len(more) /\ DOMAIN rows' = 1..Len(rows')
        <5> HIDE DEF more
        <5> QED BY <2>1
      <4> QED BY <1>3, <4>1
    <3> QED BY <3>1 DEF Gains
  <2>3. \A i \in 1..m : f[i] = Gains[i] /\ i \in 1..(m + n)
    <3>1. \A i \in 1..m : i \in 1..(m + n)
      <4> HIDE DEF m, n
      <4> QED BY <1>3, <1>4
    <3>2. \A i \in 1..m : rows'[i] = rows[i]
      BY <2>1
    <3>3. \A i \in 1..m : Gains[i] = rows[i].pnl
      BY <2>1 DEF Gains
    <3> HIDE DEF m, n, more
    <3> QED BY <3>1, <3>2, <3>3
  <2>4. \A i \in 1..n : f[m + i] = late[i] /\ m + i \in 1..(m + n)
    <3>1. \A i \in 1..n : m + i \in 1..(m + n)
      <4> HIDE DEF m, n
      <4> QED BY <1>3, <1>4
    <3>2. \A i \in 1..n : rows'[m + i] = more[i]
      <4>1. \A i \in 1..Len(more) : rows'[m + i] = more[i]
        <5> HIDE DEF more
        <5> QED BY <2>1
      <4>2. Len(more) = n
        BY <1>3
      <4> HIDE DEF more, n
      <4> QED BY <4>1, <4>2
    <3> HIDE DEF m, n, more
    <3> QED BY <3>1, <3>2
  <2>5. \A i \in 1..(m + n) : i \in 1..m \/ \E j \in 1..n : i = m + j
    <3> HIDE DEF m, n
    <3>1. SUFFICES ASSUME NEW i \in 1..(m + n), i \notin 1..m PROVE \E j \in 1..n : i = m + j
      OBVIOUS
    <3>2. i - m \in 1..n /\ i = m + (i - m)
      BY <1>3, <1>4, <3>1
    <3> QED BY <3>2
  <2>6. f \in [1..(m + n) -> Int]
    <3>1. ASSUME NEW i \in 1..(m + n) PROVE f[i] \in Int
      <4> HIDE DEF m, n, late
      <4>1. CASE i \in 1..m
        <5> HIDE DEF f
        <5> QED BY <1>4, <2>3, <4>1
      <4>2. CASE \E j \in 1..n : i = m + j
        <5> HIDE DEF f
        <5> QED BY <1>6, <2>4, <4>2
      <4> QED BY <2>5, <4>1, <4>2
    <3> HIDE DEF m, n
    <3> QED BY <3>1
  <2>7. /\ \A i \in 1..m : f[i] = Gains[i]
        /\ \A i \in 1..n : f[m + i] = late[i]
    <3> HIDE DEF m, n, late, f
    <3> QED BY <2>3, <2>4
  <2>8. SumFunction(f) = SumFunction(Gains) + SumFunction(late)
    <3>1. m \in Nat /\ n \in Nat /\ Gains \in [1..m -> Int] /\ late \in [1..n -> Int]
      BY <1>3, <1>4, <1>6
    <3> HIDE DEF m, n, late, f
    <3> QED BY <2>6, <2>7, <3>1, SumConcat
  <2> HIDE DEF f
  <2> QED BY <2>2, <2>8
<1>9. Held' = {}
  BY <1>2 DEF Held
<1>10. SumFunction(Stakes') = 0
  <2>1. DOMAIN Stakes' = {}
    BY <1>9 DEF Stakes
  <2> QED BY <2>1, SumEmpty
<1>11. cash = InitialEquity * Unit + SumFunction(Gains) - SumFunction(Stakes)
  BY DEF LedgerReconciles, Gains, Stakes
<1>12. InitialEquity * Unit \in Int
  BY EngineAssumption DEF Unit
<1> DEFINE g == SumFunction(Gains)
           g1 == SumFunction(Gains')
           k == SumFunction(Stakes)
           k1 == SumFunction(Stakes')
           w == SumFunction(Worths)
           br == SumFunction(Brought)
           ea == SumFunction(Earned)
           start == InitialEquity * Unit
<1> HIDE DEF g, g1, k, k1, w, br, ea, start, late, more, m, n
<1>13. /\ g \in Int /\ k \in Int /\ w \in Int /\ br \in Int /\ ea \in Int /\ start \in Int
       /\ w + br = 0 /\ ea + br + k = 0 /\ g1 = g + ea /\ k1 = 0
       /\ cash = start + g - k /\ cash' = cash - br
  BY <1>2, <1>4, <1>5, <1>7, <1>8, <1>10, <1>11, <1>12 DEF g, g1, k, k1, w, br, ea, start
<1>14. cash' = start + g1 - k1
  BY ONLY <1>13
<1>15. LedgerReconciles'
  BY <1>14 DEF LedgerReconciles, Gains, Stakes, g1, k1, start
<1>16. cash + w = cash'
  BY ONLY <1>13
<1>17. Equity = cash'
  BY <1>16 DEF Equity, EquityOf, Worths, w
<1> QED BY <1>2, <1>9, <1>15, <1>17

\* The run starts with its initial equity in cash.
LEMMA MoneyStart == HaltInit => MoneyInv /\ CostInv
<1>1. SUFFICES ASSUME HaltInit PROVE MoneyInv /\ CostInv
  OBVIOUS
<1>2. /\ Held = {} /\ rows = <<>> /\ phase = "idle" /\ cash = InitialEquity * Unit
      /\ mark = InitialEquity * Unit /\ positions = <<>>
  BY <1>1 DEF HaltInit, EngineInit, Held
<1>3. InitialEquity * Unit \in Int
  BY EngineAssumption DEF Unit
<1>4. SumFunction(Gains) = 0 /\ SumFunction(Stakes) = 0 /\ SumFunction(Worths) = 0
  <2>1. DOMAIN Gains = {} /\ DOMAIN Stakes = {} /\ DOMAIN Worths = {}
    BY <1>2 DEF Gains, Stakes, Worths, Value
  <2> QED BY <2>1, SumEmpty
<1>5. LedgerReconciles
  <2> DEFINE g == SumFunction(Gains)
             k == SumFunction(Stakes)
  <2>1. cash = InitialEquity * Unit + g - k
    <3> HIDE DEF g, k
    <3>1. g = 0 /\ k = 0
      BY <1>4 DEF g, k
    <3> QED BY <1>2, <1>3, <3>1
  <2> QED BY <2>1 DEF LedgerReconciles, Gains, Stakes
<1>6. mark = Equity
  <2>1. Equity = cash + SumFunction(Worths)
    BY DEF Equity, EquityOf, Worths
  <2> QED BY <1>2, <1>3, <1>4, <2>1
<1>7. CostInv
  BY <1>2 DEF CostInv
<1> QED BY <1>2, <1>5, <1>6, <1>7 DEF MoneyInv

\* The money is kept, whatever the step.
LEMMA MoneyKept ==
  ASSUME TypeInv, TypeInv', TodoInv, CostInv, MoneyInv, [HaltNext]_haltVars
  PROVE  MoneyInv'
<1>0. LedgerReconciles
  BY DEF MoneyInv
<1>1. CASE UNCHANGED haltVars
  <2>1. LedgerReconciles'
    BY <1>0, <1>1, LedgerSame DEF haltVars, engineVars
  <2>2. UNCHANGED <<phase, mark, cash, positions, last_close>>
    BY <1>1 DEF haltVars, engineVars
  <2>3. Equity' = Equity /\ Held' = Held
    BY <2>2 DEF Equity, EquityOf, Value, Held
  <2> QED BY <2>1, <2>2, <2>3 DEF MoneyInv
<1>2. CASE NextGroup
  <2>1. LedgerReconciles' /\ phase' = "exits"
    BY <1>0, <1>2, LedgerSame DEF NextGroup, booksVars
  <2> QED BY <2>1 DEF MoneyInv
<1>3. CASE ExitStep
  <2>1. phase = "exits"
    BY <1>3 DEF ExitStep
  <2>2. LedgerReconciles'
    <3>1. CASE Kept \/ ExitRaised
      BY <1>0, <3>1, LedgerSame DEF Kept, ExitRaised, booksVars
    <3> QED BY <1>0, <1>3, <2>1, <3>1, LedgerExited DEF ExitStep
  <2>3. phase' \in {"exits", "signals", "failed"}
    BY <1>3 DEF ExitStep, Kept, Exited, ExitRaised, ExitsAdvance
  <2> QED BY <2>2, <2>3 DEF MoneyInv
<1>4. CASE SignalStep
  <2>1. phase = "signals"
    BY <1>4 DEF SignalStep
  <2>2. LedgerReconciles'
    <3>1. CASE DroppedOne \/ SignalRaised
      BY <1>0, <3>1, LedgerSame DEF DroppedOne, SignalRaised
    <3> QED BY <1>0, <1>4, <3>1, LedgerEntered DEF SignalStep
  <2>3. phase' \in {"signals", "failed"}
    BY <1>4, <2>1 DEF SignalStep, DroppedOne, Entered, SignalRaised
  <2> QED BY <2>2, <2>3 DEF MoneyInv
<1>5. CASE BarDone
  <2>1. LedgerReconciles' /\ UNCHANGED <<cash, positions, last_close>>
    BY <1>0, <1>5, LedgerSame DEF BarDone, booksVars
  <2>2. Equity' = Equity
    BY <2>1 DEF Equity, EquityOf, Value
  <2>3. \/ phase' = "idle" /\ mark' = Equity
        \/ phase' = "signals"
    BY <1>5 DEF BarDone
  <2> QED BY <2>1, <2>2, <2>3 DEF MoneyInv
<1>6. CASE FinishStep
  <2>1. phase = "idle" /\ phase' \in {"done", "failed"}
    BY <1>6 DEF FinishStep, Finish
  <2>2. mark = Equity
    BY <2>1 DEF MoneyInv
  <2> QED BY <1>0, <1>6, <2>1, <2>2, LedgerFinish DEF MoneyInv
<1> QED BY <1>1, <1>2, <1>3, <1>4, <1>5, <1>6, EngineCases DEF HaltNext

\* The ledger of a run is honest (MCEdgeEngine's LedgerHonest): at every point cash is the
\* initial equity plus what the rows earned less what the open positions cost, every event
\* is accounted for, the reported equity is the cash the flatten leaves, and every row's
\* friction columns explain its pnl.
THEOREM LedgerTrue == HaltSpec => []LedgerHonest
<1> DEFINE Inv == TypeInv /\ TodoInv /\ CountInv /\ MoneyInv /\ CostInv
<1>1. HaltInit => Inv
  BY EngineStart, CountStart, MoneyStart
<1>2. Inv /\ [HaltNext]_haltVars => Inv'
  <2>1. SUFFICES ASSUME Inv, [HaltNext]_haltVars PROVE Inv'
    OBVIOUS
  <2>2. TypeInv' /\ TodoInv'
    BY <2>1, TypesKept
  <2> QED BY <2>1, <2>2, CountKept, CostKept, MoneyKept
<1>3. Inv => LedgerHonest
  <2>1. SUFFICES ASSUME Inv PROVE LedgerHonest
    OBVIOUS
  <2>2. EngineTypeOK
    <3>1. \A s \in Held : positions[s].qty > 0
      <4>1. \A p \in Trades : p.qty > 0
        BY DEF Trades
      <4> QED BY <2>1, <4>1 DEF TypeInv
    <3> QED BY <2>1, <3>1 DEF TypeInv, EngineTypeOK
  <2>3. EveryTradeBooked
    BY <2>1 DEF CountInv, EveryTradeBooked
  <2>4. LedgerReconciles /\ FinalEquityIsCash
    BY <2>1 DEF MoneyInv, FinalEquityIsCash
  <2>5. AttributionExact
    <3>1. DOMAIN rows = 1..Len(rows)
      BY <2>1 DEF TypeInv
    <3>2. \A i \in DOMAIN rows : RowExact(rows[i])
      BY <2>1, <3>1 DEF CostInv
    <3> QED BY <3>2 DEF RowExact, AttributionExact
  <2> QED BY <2>2, <2>3, <2>4, <2>5 DEF LedgerHonest
<1> QED BY <1>1, <1>2, <1>3, PTL DEF HaltSpec
=============================================================================
