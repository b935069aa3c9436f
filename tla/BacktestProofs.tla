--------------------------- MODULE BacktestProofs ----------------------------
(***************************************************************************)
(* The catalyst backtesters, for every portfolio of proposals, market,     *)
(* slip and number of sessions.                                            *)
(*                                                                         *)
(* The daily one: LedgerInv says what the records and the mirror know of   *)
(* the broker's book at every step, also in the middle of the market       *)
(* update, where legs have settled that no record has yet; BetInv what the *)
(* entry loop's sets know of the bets; DueInv what an overdue position is  *)
(* waiting for.                                                            *)
(*                                                                         *)
(* The minute loop: MinuteInv says what the book, the mirror and the       *)
(* records have in common, where the loop is and what its breaker has      *)
(* seen.  BenchInv says that one engine runs within its invariant and the  *)
(* other rests.  The engines implement the trade book by every step of     *)
(* theirs.                                                                 *)
(***************************************************************************)
EXTENDS MCBacktests, SumProofs

-----------------------------------------------------------------------------
(* Least and largest elements.                                              *)

\* The least position of a loop is one of them.
LEMMA LeastOf ==
  ASSUME NEW S, S # {}, S \subseteq Nat
  PROVE  Min(S) \in S
<1>1. \E x \in S : \A y \in S : x <= y
  BY LeastNat
<1> QED BY <1>1 DEF Min

\* The smaller, and the larger, of two integers.
LEMMA MinTwo == ASSUME NEW x \in Int, NEW y \in Int PROVE Min({x, y}) \in {x, y} /\ Min({x, y}) <= x /\ Min({x, y}) <= y
<1>1. \E z \in {x, y} : \A w \in {x, y} : z <= w
  BY x <= y \/ y <= x
<1> QED BY <1>1 DEF Min

\* The larger of two numbers is one of them and at least each.
LEMMA MaxTwo == ASSUME NEW x \in Int, NEW y \in Int PROVE Max({x, y}) \in {x, y} /\ Max({x, y}) >= x /\ Max({x, y}) >= y
<1>1. \E z \in {x, y} : \A w \in {x, y} : z >= w
  BY x <= y \/ y <= x
<1> QED BY <1>1 DEF Max

\* A price that is cut off at zero is a number.
LEMMA MaxZero == ASSUME NEW x \in Int PROVE Max({0, x}) \in Int
<1>1. Max({0, x}) \in {0, x}
  BY MaxTwo
<1> QED BY <1>1

\* One more integer in a set that has a least, or a largest, element.
LEMMA MinMore ==
  ASSUME NEW S, S \subseteq Int, \E z \in S : \A w \in S : z <= w, NEW x \in Int
  PROVE  /\ \E z \in S \cup {x} : \A w \in S \cup {x} : z <= w
         /\ S \cup {x} \subseteq Int
<1>1. PICK z \in S : \A w \in S : z <= w
  OBVIOUS
<1>2. CASE x <= z
  <2>1. \A w \in S \cup {x} : x <= w
    BY <1>1, <1>2
  <2> QED BY <2>1
<1>3. CASE z <= x
  <2>1. \A w \in S \cup {x} : z <= w
    BY <1>1, <1>3
  <2> QED BY <2>1
<1> QED BY <1>1, <1>2, <1>3

\* A quotient by a positive number is an integer, and undoes the product.
LEMMA DivInt == ASSUME NEW x \in Int, NEW y \in Int, y > 0 PROVE x \div y \in Int
OBVIOUS

\* A quotient times its divisor does not exceed what was divided.
LEMMA DivTimes ==
  ASSUME NEW x \in Int, NEW y \in Int, y > 0
  PROVE  (x * y) \div y = x
OBVIOUS

-----------------------------------------------------------------------------
(* The broker's book.                                                       *)

\* What may be proposed to either engine.
Offered == Range(Bets) \cup Range(Scheduled) \cup Puts \cup Range(Proposals)

TradeOk(t) == t.cost \in Int /\ t.maxLoss \in Int /\ t.riskPct \in Int /\ IsFiniteSet(DOMAIN t.legs)

\* A position is a record of a proposal that was filled for some units.
PosFields == {"trade", "legs", "qty", "entry", "value", "high", "tp1", "realized", "opened"}
IsPos(p) ==
  /\ DOMAIN p = PosFields
  /\ p.trade \in Offered /\ DOMAIN p.legs \subseteq DOMAIN p.trade.legs
  /\ p.qty \in Nat \ {0} /\ p.entry \in Int /\ p.value \in Int /\ p.high \in Int /\ p.realized \in Int

BookOk ==
  /\ cash \in Int /\ seq \in Nat /\ DOMAIN pos \subseteq 1..seq
  /\ \A i \in DOMAIN pos : IsPos(pos[i])

\* The assumptions on the two engines' proposals say this of each.
LEMMA OfferedOk == ASSUME NEW t \in Offered PROVE TradeOk(t)
<1>1. CASE t \in Range(Bets) \cup Range(Scheduled) \cup Puts
  BY <1>1, BacktestAssumption DEF TradeOk
<1>2. CASE t \in Range(Proposals)
  <2>1. PICK k \in DOMAIN Proposals : t = Proposals[k]
    BY <1>2 DEF Range
  <2> QED BY <2>1, IntradayAssumption DEF TradeOk
<1> QED BY <1>1, <1>2 DEF Offered

\* Ids are numbers, and a set of them is finite.
LEMMA IdsFinite ==
  ASSUME NEW n \in Nat, NEW S, S \subseteq 1..n
  PROVE  IsFiniteSet(S) /\ S \subseteq Nat
<1>1. IsFiniteSet(1..n)
  BY FS_Interval
<1>2. IsFiniteSet(S)
  BY <1>1, FS_Subset
<1>3. S \subseteq Nat
  OBVIOUS
<1> QED BY <1>2, <1>3

\* The position a loop looks at next is one of those it has still to look at.
LEMMA LeastId ==
  ASSUME BookOk, NEW S, S # {}, S \subseteq DOMAIN pos
  PROVE  Min(S) \in S
<1>1. S \subseteq Nat
  BY IdsFinite DEF BookOk
<1> QED BY <1>1, LeastOf

\* Products are typed; the sums below have them as terms.
LEMMA TimesInt == ASSUME NEW x \in Int, NEW y \in Int PROVE x * y \in Int
OBVIOUS

\* Commissions are whole cents.
LEMMA FeeInt ==
  ASSUME NEW L, IsFiniteSet(L), NEW n \in Int
  PROVE  Fee(L, n) \in Int
<1>1. Commission \in Int /\ Cardinality(L) \in Int
  BY BrokerAssumption, FS_CardinalityType
<1>2. Commission * Cardinality(L) \in Int
  BY <1>1, TimesInt
<1> QED BY <1>2, TimesInt DEF Fee

\* The legs of a position are some of the finitely many of its trade.
LEMMA PosFee ==
  ASSUME NEW p, IsPos(p), NEW n \in Int
  PROVE  Fee(DOMAIN p.legs, n) \in Int /\ Fee(DOMAIN p.trade.legs, n) \in Int
<1>1. IsFiniteSet(DOMAIN p.trade.legs) /\ DOMAIN p.legs \subseteq DOMAIN p.trade.legs
  BY OfferedOk DEF IsPos, TradeOk
<1>2. IsFiniteSet(DOMAIN p.legs)
  BY <1>1, FS_Subset
<1> QED BY <1>1, <1>2, FeeInt

\* What is held has a worth.
LEMMA WorthInt ==
  ASSUME NEW n \in Nat, NEW d, DOMAIN d \subseteq 1..n,
         \A i \in DOMAIN d : d[i].value \in Int /\ d[i].qty \in Int
  PROVE  Worth(d) \in Int
<1> DEFINE f == [i \in DOMAIN d |-> d[i].value * d[i].qty]
<1>1. IsFiniteSet(DOMAIN f)
  BY IdsFinite
<1>2. \A i \in DOMAIN f : f[i] \in Int
  BY TimesInt
<1> HIDE DEF f
<1>3. SumFunction(f) \in Int
  BY <1>1, <1>2, SumInt
<1> QED BY <1>3 DEF Worth, f

\* The broker's equity (get_account) is a whole number of cents.
LEMMA EquityInt == BookOk => Equity \in Int
<1> SUFFICES ASSUME BookOk PROVE Equity \in Int
  OBVIOUS
<1>1. \A i \in DOMAIN pos : pos[i].value \in Int /\ pos[i].qty \in Int
  BY DEF BookOk, IsPos
<1>2. Worth(pos) \in Int
  BY <1>1, WorthInt DEF BookOk
<1> QED BY <1>2 DEF Equity, BookOk

\* So has the risk that is deployed in some of the positions.
LEMMA DeployedInt ==
  ASSUME BookOk, NEW S, S \subseteq DOMAIN pos
  PROVE  Deployed(pos, S) \in Int
<1> DEFINE f == [i \in S |-> AtRisk(pos[i])]
<1>1. IsFiniteSet(DOMAIN f)
  BY IdsFinite DEF BookOk
<1>2. \A i \in DOMAIN f : f[i] \in Int
  <2>1. SUFFICES ASSUME NEW i \in S PROVE AtRisk(pos[i]) \in Int
    OBVIOUS
  <2>2. IsPos(pos[i])
    BY DEF BookOk
  <2>3. pos[i].trade.maxLoss \in Int /\ pos[i].qty \in Int
    BY <2>2, OfferedOk DEF IsPos, TradeOk
  <2> QED BY <2>3, TimesInt DEF AtRisk
<1> HIDE DEF f
<1>3. SumFunction(f) \in Int
  BY <1>1, <1>2, SumInt
<1> QED BY <1>3 DEF Deployed, f

\* What one unit of a proposal risks, with the buffer.
LEMMA UnitRiskPos ==
  ASSUME NEW t \in Offered, t.maxLoss > 0
  PROVE  UnitRisk(t) \in Int /\ UnitRisk(t) > 0
<1>1. t.maxLoss \in Int /\ BufferPct \in Nat
  BY OfferedOk, RiskAssumption DEF TradeOk
<1>2. t.maxLoss * BufferPct >= 0 /\ t.maxLoss * BufferPct \in Int
  BY <1>1
<1>3. t.maxLoss * (100 + BufferPct) = t.maxLoss * 100 + t.maxLoss * BufferPct
  BY <1>1
<1> QED BY <1>1, <1>2, <1>3 DEF UnitRisk

\* What the gate allows is a number of units, and none of a proposal without risk.
LEMMA SizeInt ==
  ASSUME BookOk, NEW t \in Offered, NEW base, t.maxLoss > 0 => base \in Int, NEW marks, NEW day, NEW units,
         units = SizeEntry(t, base, Account, pos, marks, day), units > 0
  PROVE  units \in Nat \ {0} /\ t.maxLoss > 0
<1> DEFINE cashFit == CashHeadroom(Account) \div UnitCash(t)
           heatFit == HeatHeadroom(Account, pos, t) \div UnitRisk(t)
           hedgeFit == HedgeHeadroom(Account, pos) \div UnitRisk(t)
           extra == IF t.engine = Hedge THEN {hedgeFit} ELSE {}
           fits == {base, cashFit, heatFit} \cup extra
           refused == \/ BreakerTripped(marks, day, Account.equity)
                      \/ t.maxLoss <= 0
                      \/ t.engine # Hedge /\ CorrelatedCount(t.sym, pos) >= MaxCorrelated
<1>1. units = IF refused THEN 0 ELSE Max({0, Min(fits)})
  BY DEF SizeEntry
<1>2. ~refused
  <2> HIDE DEF refused
  <2> QED BY <1>1
<1>3. t.maxLoss \in Int /\ t.cost \in Int /\ t.maxLoss > 0
  BY <1>2, OfferedOk DEF TradeOk
<1>4. /\ BufferPct \in Nat /\ HeatPct \in Int /\ FloorPct \in Int /\ HedgePct \in Int
      /\ Account.cash \in Int /\ Account.equity \in Int
  BY EquityInt, RiskAssumption DEF Account, BookOk
<1>5. UnitRisk(t) \in Int /\ UnitRisk(t) > 0 /\ base \in Int
  BY <1>3, UnitRiskPos
<1>6. UnitCash(t) \in Int /\ UnitCash(t) > 0
  <2> DEFINE top == Max({t.cost, t.maxLoss, 0})
  <2>1. \E z \in {t.cost, t.maxLoss, 0} : \A w \in {t.cost, t.maxLoss, 0} : z >= w
    BY <1>3, t.cost >= t.maxLoss \/ t.maxLoss >= t.cost
  <2>2. top \in Int /\ top > 0
    BY <1>3, <2>1 DEF Max
  <2> HIDE DEF top
  <2>3. top * BufferPct >= 0 /\ top * BufferPct \in Int
    BY <1>4, <2>2
  <2>4. top * (100 + BufferPct) = top * 100 + top * BufferPct
    BY <1>4, <2>2
  <2>5. UnitCash(t) = top * (100 + BufferPct)
    BY DEF UnitCash, top
  <2> QED BY <2>2, <2>3, <2>4, <2>5
<1>7. CashHeadroom(Account) \in Int
  BY <1>4, TimesInt DEF CashHeadroom
<1>8. HeatHeadroom(Account, pos, t) \in Int
  BY <1>4, DeployedInt, TimesInt DEF HeatHeadroom
<1>9. HedgeHeadroom(Account, pos) \in Int
  <2>1. Deployed(pos, Hedges(pos)) \in Int
    BY DeployedInt DEF Hedges
  <2> QED BY <1>4, <2>1, TimesInt DEF HedgeHeadroom
<1>10. cashFit \in Int /\ heatFit \in Int /\ hedgeFit \in Int
  BY <1>5, <1>6, <1>7, <1>8, <1>9, DivInt
<1> HIDE DEF cashFit, heatFit, hedgeFit, refused
<1>11. \E z \in {base, cashFit} : \A w \in {base, cashFit} : z <= w
  BY <1>5, <1>10, base <= cashFit \/ cashFit <= base
<1>12. /\ \E z \in {base, cashFit, heatFit} : \A w \in {base, cashFit, heatFit} : z <= w
       /\ {base, cashFit, heatFit} \subseteq Int
  <2>1. {base, cashFit} \cup {heatFit} = {base, cashFit, heatFit} /\ {base, cashFit} \subseteq Int
    BY <1>5, <1>10
  <2> QED BY <1>10, <1>11, <2>1, MinMore
<1>13. (\E z \in fits : \A w \in fits : z <= w) /\ fits \subseteq Int
  <2>1. CASE t.engine = Hedge
    <3> DEFINE three == {base, cashFit, heatFit}
    <3>1. fits = three \cup {hedgeFit}
      BY <2>1
    <3> HIDE DEF three, fits
    <3>2. /\ \E z \in three \cup {hedgeFit} : \A w \in three \cup {hedgeFit} : z <= w
          /\ three \cup {hedgeFit} \subseteq Int
      <4>1. three \subseteq Int /\ \E z \in three : \A w \in three : z <= w
        BY <1>12 DEF three
      <4> QED BY <1>10, <4>1, MinMore
    <3> QED BY <3>1, <3>2
  <2>2. CASE t.engine # Hedge
    <3>1. fits = {base, cashFit, heatFit}
      BY <2>2
    <3> QED BY <1>12, <3>1
  <2> QED BY <2>1, <2>2
<1> HIDE DEF fits
<1>14. Min(fits) \in Int
  BY <1>13 DEF Min
<1>15. Max({0, Min(fits)}) \in Int
  BY ONLY <1>14, MaxZero
<1> QED BY <1>1, <1>2, <1>3, <1>15

-----------------------------------------------------------------------------
(* What the broker's operations do to its book and to the collateral.       *)

\* A position is opened under the next id.
Opened(t, f, mark, units, day) ==
  /\ seq' = seq + 1 /\ seq + 1 \notin DOMAIN pos
  /\ DOMAIN pos' = DOMAIN pos \cup {seq + 1}
  /\ \A i \in DOMAIN pos : pos'[i] = pos[i]
  /\ pos'[seq + 1] = [trade |-> t, legs |-> t.legs, qty |-> units, entry |-> f, value |-> mark,
                      high |-> mark, tp1 |-> FALSE, realized |-> 0, opened |-> day]
  /\ cash' = cash - f * units - Fee(DOMAIN t.legs, units)

\* An opening order (place_order) adds one position under the next id, for its flow of cash.
LEMMA OpenBook ==
  ASSUME BookOk, NEW t \in Offered, NEW f \in Int, NEW mark \in Int, NEW units \in Nat \ {0},
         NEW day, Open(t, f, mark, units, day)
  PROVE  BookOk' /\ Opened(t, f, mark, units, day)
<1> DEFINE new == [trade |-> t, legs |-> t.legs, qty |-> units, entry |-> f, value |-> mark,
                   high |-> mark, tp1 |-> FALSE, realized |-> 0, opened |-> day]
<1>1. /\ seq' = seq + 1 /\ cash' = cash + OpenFlow(t, f, units) /\ pos' = With(pos, seq + 1, new)
  BY DEF Open
<1>2. IsPos(new)
  BY DEF IsPos, PosFields
<1> HIDE DEF new
<1>3. seq \in Nat /\ DOMAIN pos \subseteq 1..seq
  BY DEF BookOk
<1>4. seq + 1 \notin DOMAIN pos /\ DOMAIN pos \cup {seq + 1} \subseteq 1..(seq + 1)
  BY <1>3
<1>5. /\ DOMAIN pos' = DOMAIN pos \cup {seq + 1} /\ pos'[seq + 1] = new
      /\ \A i \in DOMAIN pos : pos'[i] = pos[i]
  BY <1>1, <1>4 DEF With
<1>6. Fee(DOMAIN t.legs, units) \in Int /\ f * units \in Int
  BY OfferedOk, FeeInt, TimesInt DEF TradeOk
<1>7. cash' = cash - f * units - Fee(DOMAIN t.legs, units) /\ cash' \in Int
  <2>1. -f * units = -(f * units)
    OBVIOUS
  <2>2. cash' = cash + (-(f * units) - Fee(DOMAIN t.legs, units))
    BY <1>1, <2>1 DEF OpenFlow
  <2> QED BY <1>6, <2>2 DEF BookOk
<1>8. \A i \in DOMAIN pos' : IsPos(pos'[i])
  BY <1>2, <1>5 DEF BookOk
<1>9. BookOk'
  BY <1>1, <1>3, <1>4, <1>5, <1>7, <1>8 DEF BookOk
<1> QED BY <1>1, <1>4, <1>5, <1>7, <1>9 DEF new, Opened

\* Units of a position are sold back.
Shrunk(q, p, n, c) ==
  /\ q.trade = p.trade /\ q.legs = p.legs /\ q.entry = p.entry /\ q.value = p.value
  /\ q.opened = p.opened
  /\ q.qty = p.qty - n /\ q.realized = p.realized + (c - p.entry) * n
Sold(i, n, c, tp1) ==
  /\ seq' = seq
  /\ cash' = cash + c * n - Fee(DOMAIN pos[i].legs, n)
  /\ DOMAIN pos' = IF n = pos[i].qty THEN DOMAIN pos \ {i} ELSE DOMAIN pos
  /\ \A j \in DOMAIN pos \ {i} : pos'[j] = pos[j]
  /\ n # pos[i].qty => Shrunk(pos'[i], pos[i], n, c)

\* A closing order takes units off one position, for their price less the commission.
LEMMA CloseBook ==
  ASSUME BookOk, NEW i \in DOMAIN pos, NEW n \in 1..pos[i].qty, NEW c \in Int, NEW tp1,
         Close(i, n, c, tp1)
  PROVE  BookOk' /\ Sold(i, n, c, tp1)
<1>0. IsPos(pos[i]) /\ seq \in Nat /\ DOMAIN pos \subseteq 1..seq /\ cash \in Int
  BY DEF BookOk
<1>1. /\ cash' = cash + c * n - Fee(DOMAIN pos[i].legs, n) /\ seq' = seq
      /\ pos' = IF pos[i].qty - n = 0 THEN Without(pos, i)
                ELSE [pos EXCEPT ![i].qty = pos[i].qty - n, ![i].tp1 = @ \/ tp1,
                                 ![i].realized = @ + (c - pos[i].entry) * n]
  BY DEF Close
<1>2. pos[i].qty \in Nat \ {0} /\ n \in Nat \ {0} /\ pos[i].qty - n \in Nat
  BY <1>0 DEF IsPos
<1>3. cash' \in Int
  <2>1. Fee(DOMAIN pos[i].legs, n) \in Int /\ c * n \in Int
    BY <1>0, <1>2, PosFee, TimesInt
  <2> QED BY <1>0, <1>1, <2>1
<1>4. CASE n = pos[i].qty
  <2>1. pos' = Without(pos, i)
    BY <1>1, <1>2, <1>4
  <2>2. DOMAIN pos' = DOMAIN pos \ {i} /\ \A j \in DOMAIN pos \ {i} : pos'[j] = pos[j]
    BY <2>1 DEF Without
  <2>3. BookOk'
    <3>1. \A j \in DOMAIN pos' : IsPos(pos'[j])
      BY <2>2 DEF BookOk
    <3> QED BY <1>0, <1>1, <1>3, <2>2, <3>1 DEF BookOk
  <2> QED BY <1>1, <1>4, <2>2, <2>3 DEF Sold
<1>5. CASE n # pos[i].qty
  <2> DEFINE p == pos[i]
             more == pos[i].realized + (c - pos[i].entry) * n
             left == pos[i].qty - n
             hit == pos[i].tp1 \/ tp1
             new == [p EXCEPT !.qty = left, !.tp1 = hit, !.realized = more]
  <2>1. left # 0
    BY <1>2, <1>5
  <2>2. pos' = [pos EXCEPT ![i] = new]
    BY <1>1, <2>1
  <2>3. IsPos(p) /\ more \in Int /\ left \in Nat \ {0}
    <3>1. (c - pos[i].entry) * n \in Int
      BY <1>0, <1>2, TimesInt DEF IsPos
    <3> QED BY <1>0, <1>2, <2>1, <3>1 DEF IsPos
  <2>4. Shrunk(new, p, n, c) /\ IsPos(new)
    <3> HIDE DEF p, more, left, hit
    <3>1. /\ DOMAIN new = PosFields /\ new.qty = left /\ new.realized = more
          /\ new.trade = p.trade /\ new.legs = p.legs /\ new.entry = p.entry /\ new.value = p.value
          /\ new.high = p.high /\ new.opened = p.opened
      BY <2>3 DEF IsPos, PosFields
    <3> HIDE DEF new
    <3>2. IsPos(new)
      BY <2>3, <3>1 DEF IsPos
    <3> QED BY <3>1, <3>2 DEF Shrunk, left, more, p
  <2> HIDE DEF new
  <2>5. DOMAIN pos' = DOMAIN pos /\ pos'[i] = new /\ \A j \in DOMAIN pos \ {i} : pos'[j] = pos[j]
    BY <2>2
  <2>6. BookOk'
    <3>1. \A j \in DOMAIN pos' : IsPos(pos'[j])
      BY <2>4, <2>5 DEF BookOk
    <3> QED BY <1>0, <1>1, <1>3, <2>5, <3>1 DEF BookOk
  <2> QED BY <1>1, <1>5, <2>4, <2>5, <2>6 DEF Sold
<1> QED BY <1>4, <1>5

\* A position goes as a whole, and its collateral with it.
LEMMA ReleaseAll ==
  ASSUME BookOk, ReserveFollows, NEW i \in DOMAIN pos, pos' = Without(pos, i),
         reserved' = Released(i, pos[i].qty, pos[i].qty)
  PROVE  ReserveFollows'
<1>1. pos[i].qty >= pos[i].qty
  BY DEF BookOk, IsPos
<1>2. reserved' = IF i \in DOMAIN reserved THEN Without(reserved, i) ELSE reserved
  BY <1>1 DEF Released
<1>3. DOMAIN reserved' = DOMAIN reserved \ {i} /\ \A j \in DOMAIN reserved' : reserved'[j] = reserved[j]
  BY <1>2 DEF Without
<1>4. DOMAIN pos' = DOMAIN pos \ {i} /\ \A j \in DOMAIN pos' : pos'[j] = pos[j]
  BY DEF Without
<1> QED BY <1>3, <1>4 DEF ReserveFollows

\* Collateral is posted for a new id.
LEMMA OpenReserve ==
  ASSUME BookOk, ReserveFollows, NEW t \in Offered, NEW f \in Int, NEW mark \in Int,
         NEW units \in Nat \ {0}, NEW day, Open(t, f, mark, units, day)
  PROVE  ReserveFollows'
<1>1. /\ seq + 1 \notin DOMAIN pos /\ DOMAIN pos' = DOMAIN pos \cup {seq + 1}
      /\ \A j \in DOMAIN pos : pos'[j] = pos[j]
      /\ pos'[seq + 1].trade = t /\ pos'[seq + 1].qty = units
  <2>1. Opened(t, f, mark, units, day)
    BY OpenBook
  <2> QED BY <2>1 DEF Opened
<1>2. \A j \in DOMAIN reserved : j \in DOMAIN pos' /\ reserved[j] = pos'[j].trade.maxLoss * pos'[j].qty
  BY <1>1 DEF ReserveFollows
<1>3. CASE NewReserve(t, f, units) > 0
  <2>1. reserved' = With(reserved, seq + 1, NewReserve(t, f, units))
    BY <1>3 DEF Open
  <2>2. NewReserve(t, f, units) = t.maxLoss * units
    BY <1>3 DEF NewReserve
  <2>3. ASSUME NEW j \in DOMAIN reserved'
        PROVE  j \in DOMAIN pos' /\ reserved'[j] = pos'[j].trade.maxLoss * pos'[j].qty
    <3>1. CASE j = seq + 1
      BY <1>1, <2>1, <2>2, <3>1 DEF With
    <3>2. CASE j # seq + 1
      <4>1. j \in DOMAIN reserved /\ reserved'[j] = reserved[j]
        BY <2>1, <3>2 DEF With
      <4> QED BY <1>2, <4>1
    <3> QED BY <3>1, <3>2
  <2> QED BY <2>3 DEF ReserveFollows
<1>4. CASE ~(NewReserve(t, f, units) > 0)
  <2>1. reserved' = reserved
    BY <1>4 DEF Open
  <2> QED BY <1>2, <2>1 DEF ReserveFollows
<1> QED BY <1>3, <1>4

\* What is left after a partial close is what the units left were posted for.
LEMMA ShareLeft ==
  ASSUME NEW m \in Int, NEW q \in Nat \ {0}, NEW n \in Int
  PROVE  ((m * q) * (q - n)) \div q = m * (q - n)
<1>1. (m * q) * (q - n) = (m * (q - n)) * q
  OBVIOUS
<1>2. m * (q - n) \in Int
  OBVIOUS
<1>3. ((m * (q - n)) * q) \div q = m * (q - n)
  <2> DEFINE x == m * (q - n)
  <2>1. x \in Int
    BY <1>2
  <2> HIDE DEF x
  <2>2. (x * q) \div q = x
    BY <2>1, DivTimes
  <2> QED BY <2>2 DEF x
<1> QED BY <1>1, <1>3

\* Collateral shrinks with the units.
LEMMA CloseReserve ==
  ASSUME BookOk, ReserveFollows, NEW i \in DOMAIN pos, NEW n \in 1..pos[i].qty, NEW c \in Int,
         NEW tp1, Close(i, n, c, tp1)
  PROVE  ReserveFollows'
<1>0. IsPos(pos[i])
  BY DEF BookOk
<1>1. pos[i].qty \in Nat \ {0} /\ n \in Nat \ {0} /\ pos[i].qty - n \in Nat
  BY <1>0 DEF IsPos
<1>2. CASE n = pos[i].qty
  <2>1. pos' = Without(pos, i) /\ reserved' = Released(i, pos[i].qty, pos[i].qty)
    BY <1>1, <1>2 DEF Close
  <2> QED BY <2>1, ReleaseAll
<1>3. CASE n # pos[i].qty
  <2> DEFINE q == pos[i].qty
             left == q - n
  <2>1. left # 0 /\ ~(n >= q) /\ q \in Nat \ {0} /\ left \in Int
    BY <1>1, <1>3
  <2>2. /\ DOMAIN pos' = DOMAIN pos /\ \A j \in DOMAIN pos \ {i} : pos'[j] = pos[j]
        /\ Shrunk(pos'[i], pos[i], n, c)
    <3>1. Sold(i, n, c, tp1)
      BY CloseBook
    <3> QED BY <1>3, <3>1 DEF Sold
  <2>3. pos'[i].trade = pos[i].trade /\ pos'[i].qty = left
    BY <2>2 DEF Shrunk
  <2>4. reserved' = IF i \in DOMAIN reserved
                    THEN [reserved EXCEPT ![i] = (reserved[i] * left) \div q] ELSE reserved
    <3>1. reserved' = Released(i, n, q)
      BY DEF Close
    <3> QED BY <2>1, <3>1 DEF Released
  <2> HIDE DEF left
  <2>5. ASSUME NEW j \in DOMAIN reserved'
        PROVE  j \in DOMAIN pos' /\ reserved'[j] = pos'[j].trade.maxLoss * pos'[j].qty
    <3>1. DOMAIN reserved' = DOMAIN reserved
      BY <2>4
    <3>2. j \in DOMAIN pos /\ reserved[j] = pos[j].trade.maxLoss * pos[j].qty
      BY <2>5, <3>1 DEF ReserveFollows
    <3>3. CASE j # i
      <4>1. reserved'[j] = reserved[j]
        BY <2>4, <3>3
      <4> QED BY <2>2, <3>2, <3>3, <4>1
    <3>4. CASE j = i
      <4>1. reserved'[i] = (reserved[i] * left) \div q
        BY <2>4, <2>5, <3>1, <3>4
      <4>2. pos[i].trade.maxLoss \in Int
        BY <1>0, OfferedOk DEF IsPos, TradeOk
      <4>3. ((pos[i].trade.maxLoss * q) * left) \div q = pos[i].trade.maxLoss * left
        BY <2>1, <4>2, ShareLeft DEF left
      <4> QED BY <2>2, <2>3, <3>2, <3>4, <4>1, <4>3
    <3> QED BY <3>3, <3>4
  <2> QED BY <2>5 DEF ReserveFollows
<1> QED BY <1>2, <1>3

-----------------------------------------------------------------------------
(* The records.                                                             *)

\* Records with an id of their own, whose profits can be added up.
RecordsOk(R) ==
  /\ IsFiniteSet(R) /\ \A r \in R : r.id \in Nat /\ r.pnl \in Int
  /\ \A r, q \in R : r.id = q.id => r = q

Profit(R) == SumFunction([r \in R |-> r.pnl])

\* Profits are whole cents.
LEMMA ProfitInt == ASSUME NEW R, RecordsOk(R) PROVE Profit(R) \in Int
<1> DEFINE f == [r \in R |-> r.pnl]
<1>1. IsFiniteSet(DOMAIN f) /\ \A r \in DOMAIN f : f[r] \in Int
  BY DEF RecordsOk
<1> HIDE DEF f
<1> QED BY <1>1, SumInt DEF Profit, f

\* Records of new ids add their profits.
Fresh1(R, G, new) ==
  /\ IsFiniteSet(G) /\ G \subseteq Nat
  /\ \A i \in G : new[i].id = i /\ new[i].pnl \in Int
  /\ \A r \in R : r.id \notin G

\* New records add their profits to what the records say was earned.
LEMMA ProfitMore ==
  ASSUME NEW R, RecordsOk(R), NEW G, NEW new, Fresh1(R, G, new)
  PROVE  /\ RecordsOk(R \cup {new[i] : i \in G})
         /\ Profit(R \cup {new[i] : i \in G}) = Profit(R) + SumFunction([i \in G |-> new[i].pnl])
<1> DEFINE N == {new[i] : i \in G}
           D == R \cup N
           f == [r \in D |-> r.pnl]
           h == [i \in G |-> new[i].pnl]
           m == [i \in G |-> new[i]]
<1>0. /\ IsFiniteSet(G) /\ G \subseteq Nat
      /\ \A i \in G : new[i].id = i /\ new[i].pnl \in Int
      /\ \A r \in R : r.id \notin G
  BY DEF Fresh1
<1> USE <1>0
<1>1. N \cap R = {} /\ D \ R = N
  OBVIOUS
<1>2. m \in Bijection(G, N)
  <2>1. m \in [G -> N] /\ \A i, j \in G : m[i] = m[j] => i = j
    OBVIOUS
  <2>2. \A z \in N : \E i \in G : m[i] = z
    OBVIOUS
  <2> QED BY <2>1, <2>2 DEF Bijection, Injection, Surjection, IsInjective
<1>3. IsFiniteSet(N)
  BY <1>2, FS_Surjection DEF Bijection
<1>4. RecordsOk(D)
  <2>1. IsFiniteSet(D)
    BY <1>3, FS_Union DEF RecordsOk
  <2>2. \A r \in D : r.id \in Nat /\ r.pnl \in Int
    <3>1. SUFFICES ASSUME NEW r \in D PROVE r.id \in Nat /\ r.pnl \in Int
      OBVIOUS
    <3>2. CASE r \in R
      BY <3>2 DEF RecordsOk
    <3>3. CASE r \in N
      <4>1. PICK i \in G : r = new[i]
        BY <3>3
      <4> QED BY <4>1
    <3> QED BY <3>2, <3>3
  <2>3. \A r \in N : r.id \in G /\ r = new[r.id]
    OBVIOUS
  <2>4. \A r, q \in D : r.id = q.id => r = q
    <3> HIDE DEF N
    <3> QED BY <2>3 DEF RecordsOk
  <2> QED BY <2>1, <2>2, <2>4 DEF RecordsOk
<1>5. f \in [D -> Int] /\ IsFiniteSet(D)
  BY <1>4 DEF RecordsOk
<1>6. SumFunction(f) = SumFunction(Restrict(f, R)) + SumFunction(Restrict(f, N))
  <2> HIDE DEF f, D, N
  <2>1. R \in SUBSET D
    BY DEF D
  <2>2. SumFunction(f) = SumFunction(Restrict(f, R)) + SumFunction(Restrict(f, D \ R))
    BY <1>5, <2>1, SumParts
  <2> QED BY <1>1, <2>2
<1>7. Restrict(f, R) = [r \in R |-> r.pnl] /\ Restrict(f, N) = [r \in N |-> r.pnl]
  BY DEF Restrict
<1>8. SumFunction(h) = SumFunction([r \in N |-> r.pnl])
  <2> DEFINE k == [r \in N |-> r.pnl]
  <2>1. Renames(m, G, N, h, k)
    <3>1. h \in [G -> Int] /\ k \in [N -> Int] /\ \A i \in G : h[i] = k[m[i]]
      OBVIOUS
    <3> QED BY <1>2, <3>1 DEF Renames
  <2> HIDE DEF k, h, m, N
  <2> QED BY <1>3, <2>1, SumRename DEF k
<1> QED BY <1>4, <1>6, <1>7, <1>8 DEF Profit

\* The sum of one integer.
LEMMA SumSingle ==
  ASSUME NEW f, NEW k, DOMAIN f = {k}, f[k] \in Int
  PROVE  SumFunction(f) = f[k]
<1>1. PICK D : D = {k} /\ IsFiniteSet(D)
  BY FS_Singleton
<1>2. k \in D /\ DOMAIN f = D /\ \A y \in D : f[y] \in Int
  BY <1>1
<1>3. PICK none : DOMAIN none = D \ {k} /\ \A y \in D \ {k} : none[y] = f[y]
  <2>1. DOMAIN [y \in D \ {k} |-> f[y]] = D \ {k} /\ \A z \in D \ {k} : [y \in D \ {k} |-> f[y]][z] = f[z]
    OBVIOUS
  <2> QED BY <2>1
<1>4. SumFunction(f) = f[k] + SumFunction(none)
  <2>1. IsFiniteSet(D)
    BY <1>1
  <2> QED BY ONLY <1>2, <1>3, <2>1, SumSplit
<1>5. DOMAIN none = {}
  BY <1>1, <1>3
<1>6. SumFunction(none) = 0
  BY <1>5, SumEmpty
<1> QED BY <1>4, <1>6

\* One more record.
LEMMA ProfitOne ==
  ASSUME NEW R, RecordsOk(R), NEW x, x.id \in Nat, x.pnl \in Int, \A r \in R : r.id # x.id
  PROVE  RecordsOk(R \cup {x}) /\ Profit(R \cup {x}) = Profit(R) + x.pnl
<1> DEFINE G == {x.id}
           new == [i \in G |-> x]
<1>1. /\ IsFiniteSet(G) /\ G \subseteq Nat /\ DOMAIN new = G
      /\ \A i \in G : new[i].id = i /\ new[i].pnl \in Int
      /\ \A r \in R : r.id \notin G /\ {new[i] : i \in G} = {x}
  BY FS_Singleton
<1>2. SumFunction([i \in G |-> new[i].pnl]) = x.pnl
  <2> DEFINE f == [i \in G |-> new[i].pnl]
  <2>1. DOMAIN f = {x.id} /\ f[x.id] = x.pnl
    OBVIOUS
  <2> HIDE DEF f
  <2> QED BY <2>1, SumSingle DEF f
<1>3. {new[i] : i \in G} = {x}
  OBVIOUS
<1> HIDE DEF G, new
<1>4. /\ RecordsOk(R \cup {new[i] : i \in G})
      /\ Profit(R \cup {new[i] : i \in G}) = Profit(R) + SumFunction([i \in G |-> new[i].pnl])
  <2>1. \A r \in R : r.id \notin G
    BY DEF G
  <2>2. DOMAIN new = G /\ \A i \in G : new[i].id = i /\ new[i].pnl \in Int
    BY <1>1
  <2>3. IsFiniteSet(G) /\ G \subseteq Nat
    BY <1>1
  <2>4. Fresh1(R, G, new)
    BY <2>1, <2>2, <2>3 DEF Fresh1
  <2> QED BY <2>4, ProfitMore
<1> QED BY <1>2, <1>3, <1>4

-----------------------------------------------------------------------------
(* What the daily engine keeps from step to step.                           *)

DayTrades == Range(Bets) \cup Range(Scheduled) \cup Puts

StateFields == {"bet", "sym", "entry", "maxQty", "fees", "exitCash", "closed"}
IsState(st) ==
  /\ DOMAIN st = StateFields
  /\ st.entry \in Int /\ st.fees \in Int /\ st.exitCash \in Int
  /\ st.maxQty \in Nat \ {0} /\ st.closed \in Nat /\ st.closed < st.maxQty

DayTypes ==
  /\ BookOk /\ \A i \in DOMAIN pos : pos[i].trade \in DayTrades /\ DOMAIN pos[i].legs # {}
  /\ DOMAIN state \subseteq 1..seq /\ \A i \in DOMAIN state : IsState(state[i])
  /\ DOMAIN settled \subseteq 1..seq /\ \A i \in DOMAIN settled : settled[i] \in Int /\ i \notin DOMAIN pos
  /\ RecordsOk(trades) /\ \A r \in trades : r.id \in 1..seq /\ r.id \notin DOMAIN state
  /\ phase \in {"market", "exits", "hedge", "plan", "entries", "scheduled", "idle", "done"}
  /\ today \in Nat
  /\ phase \in {"market", "exits"} => todo \subseteq DOMAIN pos
  /\ phase = "entries" => offers \in Seq(Range(Bets))
  /\ phase = "scheduled" => offers \in Seq(Range(Scheduled))

\* The mirror has the broker's positions, and during the market update those that have
\* settled; an open position still has what its record has not closed.
Mirrored(i) ==
  IF i \in DOMAIN pos
  THEN pos[i].qty = state[i].maxQty - state[i].closed /\ pos[i].entry = state[i].entry
  ELSE i \in DOMAIN settled
MirrorInv ==
  /\ phase = "done" => state = [i \in {} |-> 0]
  /\ phase # "done" => DOMAIN pos \subseteq DOMAIN state /\ \A i \in DOMAIN state : Mirrored(i)
  /\ phase \notin {"market", "done"} => DOMAIN state \subseteq DOMAIN pos

\* Legs that settle before the rest: once a session, of a position that has been looked at.
PartInv ==
  /\ \A x \in partials : /\ x = <<x[1], x[2]>> /\ x[2] \in Int
                         /\ phase = "market" /\ x[1] \in DOMAIN pos \ todo
  /\ \A x, y \in partials : x[1] = y[1] => x = y

\* What the sweep will add to a record: legs that have settled, and the whole structure.
PartsOf(P, i) == {x \in P : x[1] = i}
Rest(st) == st.maxQty - st.closed
SettlingOf(P, st, i) == SumFunction([x \in PartsOf(P, i) |-> x[2] * Rest(st)])
ClosingOf(D, st, i) == IF i \in DOMAIN D THEN D[i] * Rest(st) ELSE 0

RealInv ==
  phase # "done" =>
    \A i \in DOMAIN pos :
      pos[i].realized = state[i].exitCash + SettlingOf(partials, state[i], i) - state[i].entry * state[i].closed

\* What cash has seen of the open trades.
EarnedOf(P, D, st, i) == Booking(st) + SettlingOf(P, st, i) + ClosingOf(D, st, i)
Earnings(P, D, S) == SumFunction([i \in DOMAIN S |-> EarnedOf(P, D, S[i], i)])
OutFees(book) == SumFunction([i \in DOMAIN book |-> Fee(DOMAIN book[i].legs, book[i].qty)])
CashInv ==
  /\ phase # "done" => cash = StartCash + Profit(trades) + Earnings(partials, settled, state)
  /\ phase = "done" => Equity = StartCash + Profit(trades) + OutFees(pos)

LedgerInv == DayTypes /\ MirrorInv /\ PartInv /\ RealInv /\ CashInv /\ ReserveFollows

\* A bet is entered once, open or on record, and the entry loop knows them all.
BetInv ==
  /\ \A i, j \in DOMAIN state : state[i].bet = state[j].bet /\ state[i].bet \in CatalystBets => i = j
  /\ \A r, q \in trades : r.bet = q.bet /\ r.bet \in CatalystBets => r = q
  /\ \A i \in DOMAIN state, r \in trades : state[i].bet = r.bet => r.bet \notin CatalystBets
  /\ OnePerSymbol
  /\ phase = "entries" => /\ Already \subseteq already
                          /\ \A i \in DOMAIN state : <<state[i].bet[1], state[i].sym>> \in taken

\* What is overdue is yet to be looked at, was refused, or is new.
DueInv ==
  phase \in {"exits", "hedge", "plan", "entries", "scheduled", "idle"} =>
    \A i \in DOMAIN pos : Mandatory(pos[i], pos[i].trade.rules, today)
                            => \/ i \in stuck \/ pos[i].opened = today
                               \/ phase = "exits" /\ i \in todo

DailyInv == LedgerInv /\ BetInv /\ DueInv

-----------------------------------------------------------------------------
(* Sums over the mirror.                                                    *)

\* A position has no settled leg in this session, or one set of them.
LEMMA PartsFacts ==
  ASSUME PartInv, NEW i, NEW st, st.maxQty \in Int, st.closed \in Int
  PROVE  /\ SettlingOf(partials, st, i) \in Int
         /\ PartsOf(partials, i) = {} => SettlingOf(partials, st, i) = 0
         /\ \A x \in PartsOf(partials, i) : SettlingOf(partials, st, i) = x[2] * Rest(st)
<1> DEFINE S == PartsOf(partials, i)
           f == [x \in S |-> x[2] * Rest(st)]
<1>1. DOMAIN f = S /\ SettlingOf(partials, st, i) = SumFunction(f)
  BY DEF SettlingOf
<1>2. CASE S = {}
  <2>1. SumFunction(f) = 0
    <3> HIDE DEF f
    <3> QED BY <1>1, <1>2, SumEmpty
  <2> QED BY <1>1, <1>2, <2>1
<1>3. CASE S # {}
  <2>1. PICK x \in S : TRUE
    BY <1>3
  <2>2. S = {x} /\ x[2] \in Int
    BY <2>1 DEF PartInv, PartsOf
  <2>3. f[x] = x[2] * Rest(st) /\ f[x] \in Int
    BY <2>1, <2>2 DEF Rest
  <2>4. SumFunction(f) = f[x]
    <3> HIDE DEF f
    <3> QED BY <1>1, <2>2, <2>3, SumSingle
  <2> QED BY <1>1, <2>2, <2>3, <2>4
<1> QED BY <1>2, <1>3

\* What the mirror has earned can be added up.
EarnTyped(P, D, S) == IsFiniteSet(DOMAIN S) /\ \A i \in DOMAIN S : EarnedOf(P, D, S[i], i) \in Int

\* What every open trade has earned so far can be added up.
LEMMA EarnedInt == DayTypes /\ PartInv => EarnTyped(partials, settled, state)
<1> SUFFICES ASSUME DayTypes, PartInv PROVE EarnTyped(partials, settled, state)
  OBVIOUS
<1>1. IsFiniteSet(DOMAIN state)
  BY IdsFinite DEF DayTypes, BookOk
<1>2. ASSUME NEW i \in DOMAIN state PROVE EarnedOf(partials, settled, state[i], i) \in Int
  <2>1. IsState(state[i])
    BY DEF DayTypes
  <2>2. Booking(state[i]) \in Int
    <3>1. state[i].entry * state[i].maxQty \in Int
      BY <2>1, TimesInt DEF IsState
    <3> QED BY <2>1, <3>1 DEF IsState, Booking
  <2>3. SettlingOf(partials, state[i], i) \in Int
    BY <2>1, PartsFacts DEF IsState
  <2>4. ClosingOf(settled, state[i], i) \in Int
    <3>1. i \in DOMAIN settled => settled[i] \in Int
      BY DEF DayTypes
    <3>2. Rest(state[i]) \in Int
      BY <2>1 DEF IsState, Rest
    <3> QED BY <3>1, <3>2, TimesInt DEF ClosingOf
  <2> QED BY <2>2, <2>3, <2>4 DEF EarnedOf
<1> QED BY <1>1, <1>2 DEF EarnTyped

\* Two mirrors that differ in one trade, that have one trade less, or one more.
SameBut(P, D, S, P2, D2, S2, i) ==
  \A j \in DOMAIN S \ {i} : EarnedOf(P2, D2, S2[j], j) = EarnedOf(P, D, S[j], j)

\* If one trade has earned something else, the sum changes by the difference.
LEMMA EarnChange ==
  ASSUME NEW P, NEW D, NEW S, NEW P2, NEW D2, NEW S2, EarnTyped(P, D, S), EarnTyped(P2, D2, S2),
         DOMAIN S2 = DOMAIN S, NEW i \in DOMAIN S, SameBut(P, D, S, P2, D2, S2, i)
  PROVE  Earnings(P2, D2, S2) = Earnings(P, D, S) - EarnedOf(P, D, S[i], i) + EarnedOf(P2, D2, S2[i], i)
<1> DEFINE f == [j \in DOMAIN S |-> EarnedOf(P, D, S[j], j)]
           h == [j \in DOMAIN S2 |-> EarnedOf(P2, D2, S2[j], j)]
<1>1. PICK E : E = DOMAIN S /\ IsFiniteSet(E)
  BY DEF EarnTyped
<1>2. DOMAIN f = E /\ DOMAIN h = E /\ i \in E /\ \A y \in E : f[y] \in Int /\ h[y] \in Int
  BY <1>1 DEF EarnTyped
<1>3. \A y \in E \ {i} : h[y] = f[y]
  BY <1>1 DEF SameBut
<1>4. f[i] = EarnedOf(P, D, S[i], i) /\ h[i] = EarnedOf(P2, D2, S2[i], i)
  BY <1>1
<1> HIDE DEF f, h
<1>5. SumFunction(h) = SumFunction(f) - f[i] + h[i]
  <2>1. IsFiniteSet(E)
    BY <1>1
  <2> QED BY ONLY <1>2, <1>3, <2>1, SumChange
<1> QED BY <1>4, <1>5 DEF Earnings, f, h

\* A trade that leaves the mirror takes with it what it has earned.
LEMMA EarnLess ==
  ASSUME NEW P, NEW D, NEW S, NEW P2, NEW D2, NEW S2, EarnTyped(P, D, S),
         NEW i \in DOMAIN S, DOMAIN S2 = DOMAIN S \ {i}, SameBut(P, D, S, P2, D2, S2, i)
  PROVE  Earnings(P, D, S) = EarnedOf(P, D, S[i], i) + Earnings(P2, D2, S2)
<1> DEFINE f == [j \in DOMAIN S |-> EarnedOf(P, D, S[j], j)]
           h == [j \in DOMAIN S2 |-> EarnedOf(P2, D2, S2[j], j)]
<1>1. PICK E : E = DOMAIN S /\ IsFiniteSet(E)
  BY DEF EarnTyped
<1>2. DOMAIN f = E /\ DOMAIN h = E \ {i} /\ i \in E /\ \A y \in E : f[y] \in Int
  BY <1>1 DEF EarnTyped
<1>3. \A y \in E \ {i} : h[y] = f[y]
  BY <1>1 DEF SameBut
<1>4. f[i] = EarnedOf(P, D, S[i], i)
  BY <1>1
<1> HIDE DEF f, h
<1>5. SumFunction(f) = f[i] + SumFunction(h)
  <2>1. PICK g : g = f
    OBVIOUS
  <2>2. PICK k : k = h
    OBVIOUS
  <2>3. DOMAIN g = E /\ i \in E /\ \A y \in E : g[y] \in Int
    BY <1>2, <2>1
  <2>4. DOMAIN k = E \ {i} /\ \A y \in E \ {i} : k[y] = g[y]
    BY <1>2, <1>3, <2>1, <2>2
  <2>5. IsFiniteSet(E)
    BY <1>1
  <2>6. SumFunction(g) = g[i] + SumFunction(k)
    BY <2>3, <2>4, <2>5, SumLess
  <2> QED BY <2>1, <2>2, <2>6
<1> QED BY <1>4, <1>5 DEF Earnings, f, h

\* Only the named trade looks different.
LEMMA ElsewhereSame ==
  ASSUME NEW P, NEW D, NEW S, NEW P2, NEW D2, NEW S2, NEW i,
         \A j \in DOMAIN S \ {i} : /\ PartsOf(P2, j) = PartsOf(P, j) /\ S2[j] = S[j]
                                   /\ j \in DOMAIN D2 <=> j \in DOMAIN D
                                   /\ j \in DOMAIN D => D2[j] = D[j]
  PROVE  SameBut(P, D, S, P2, D2, S2, i)
BY DEF SameBut, EarnedOf, SettlingOf, ClosingOf

-----------------------------------------------------------------------------
(* The steps of the daily engine that leave the ledger alone.               *)

\* A position that is only marked differently.
Alike(q, p) ==
  /\ IsPos(q) /\ q.trade = p.trade /\ DOMAIN q.legs = DOMAIN p.legs
  /\ q.qty = p.qty /\ q.entry = p.entry /\ q.realized = p.realized

\* Nothing is traded and nothing settles.
Quiet ==
  /\ DOMAIN pos' = DOMAIN pos /\ \A i \in DOMAIN pos : Alike(pos'[i], pos[i])
  /\ UNCHANGED <<cash, reserved, settled, partials, seq, state, trades>>

\* The loop goes on, or to its next phase, with what it needs.
Onward ==
  /\ phase # "done" /\ phase' # "done"
  /\ phase' \in {"market", "exits", "hedge", "plan", "entries", "scheduled", "idle"}
  /\ phase = "market" <=> phase' = "market" /\ phase # "idle"
  /\ today' \in Nat
  /\ phase' \in {"market", "exits"} => todo' \subseteq DOMAIN pos
  /\ phase = "market" => todo' \subseteq todo
  /\ phase' = "entries" => offers' \in Seq(Range(Bets))
  /\ phase' = "scheduled" => offers' \in Seq(Range(Scheduled))

\* A step of the loop that neither trades nor settles keeps the ledger (marking, skipping, phases).
LEMMA QuietLedger == LedgerInv /\ Quiet /\ Onward => LedgerInv'
<1> SUFFICES ASSUME LedgerInv, Quiet, Onward PROVE LedgerInv'
  OBVIOUS
<1>1. /\ DOMAIN pos' = DOMAIN pos /\ \A i \in DOMAIN pos : Alike(pos'[i], pos[i])
      /\ cash' = cash /\ reserved' = reserved /\ settled' = settled /\ partials' = partials
      /\ seq' = seq /\ state' = state /\ trades' = trades
  BY DEF Quiet
<1>2. DayTypes /\ MirrorInv /\ PartInv /\ RealInv /\ CashInv /\ ReserveFollows
  BY DEF LedgerInv
<1>3. BookOk'
  <2>1. BookOk
    BY <1>2 DEF DayTypes
  <2> QED BY <1>1, <2>1 DEF BookOk, Alike
<1>4. DayTypes'
  <2>1. \A i \in DOMAIN pos' : pos'[i].trade \in DayTrades /\ DOMAIN pos'[i].legs # {}
    BY <1>1, <1>2 DEF DayTypes, Alike
  <2>2. /\ phase' \in {"market", "exits", "hedge", "plan", "entries", "scheduled", "idle", "done"}
        /\ today' \in Nat
        /\ phase' \in {"market", "exits"} => todo' \subseteq DOMAIN pos'
        /\ phase' = "entries" => offers' \in Seq(Range(Bets))
        /\ phase' = "scheduled" => offers' \in Seq(Range(Scheduled))
    BY <1>1 DEF Onward
  <2>3. /\ DOMAIN state' \subseteq 1..seq' /\ \A i \in DOMAIN state' : IsState(state'[i])
        /\ DOMAIN settled' \subseteq 1..seq'
        /\ \A i \in DOMAIN settled' : settled'[i] \in Int /\ i \notin DOMAIN pos'
        /\ RecordsOk(trades') /\ \A r \in trades' : r.id \in 1..seq' /\ r.id \notin DOMAIN state'
    BY <1>1, <1>2 DEF DayTypes
  <2> QED BY <1>3, <2>1, <2>2, <2>3 DEF DayTypes
<1>5. MirrorInv'
  <2>1. phase # "done" /\ phase' # "done" /\ (phase' \notin {"market"} => phase # "market")
    BY DEF Onward
  <2>2. DOMAIN pos \subseteq DOMAIN state /\ \A i \in DOMAIN state : Mirrored(i)
    BY <1>2, <2>1 DEF MirrorInv
  <2>3. \A i \in DOMAIN state' : Mirrored(i)'
    BY <1>1, <2>2 DEF Mirrored, Alike
  <2>4. phase' # "market" => DOMAIN state \subseteq DOMAIN pos
    BY <1>2, <2>1 DEF MirrorInv
  <2> QED BY <1>1, <2>1, <2>2, <2>3, <2>4 DEF MirrorInv
<1>6. PartInv'
  <2>1. ASSUME NEW x \in partials
        PROVE  x = <<x[1], x[2]>> /\ x[2] \in Int /\ phase' = "market" /\ x[1] \in DOMAIN pos' \ todo'
    <3>1. x = <<x[1], x[2]>> /\ x[2] \in Int /\ phase = "market" /\ x[1] \in DOMAIN pos \ todo
      BY <1>2 DEF PartInv
    <3> QED BY <1>1, <3>1 DEF Onward
  <2>2. \A x, y \in partials : x[1] = y[1] => x = y
    BY <1>2 DEF PartInv
  <2> QED BY <1>1, <2>1, <2>2 DEF PartInv
<1>7. RealInv'
  <2>1. \A i \in DOMAIN pos :
          pos[i].realized = state[i].exitCash + SettlingOf(partials, state[i], i) - state[i].entry * state[i].closed
    BY <1>2 DEF RealInv, Onward
  <2>2. \A i \in DOMAIN pos : pos'[i].realized = pos[i].realized
    BY <1>1 DEF Alike
  <2> QED BY <1>1, <2>1, <2>2 DEF RealInv
<1>8. CashInv'
  BY <1>1, <1>2 DEF CashInv, Onward
<1>9. ReserveFollows'
  BY <1>1, <1>2 DEF ReserveFollows, Alike
<1> QED BY <1>4, <1>5, <1>6, <1>7, <1>8, <1>9 DEF LedgerInv

\* A position that is not touched is like itself, and so is one that is marked.
LEMMA SameQuiet ==
  ASSUME DayTypes, UNCHANGED <<cash, pos, reserved, settled, partials, seq, state, trades>>
  PROVE  Quiet
BY DEF DayTypes, BookOk, Quiet, Alike

\* A mark changes the value and the high of a position, and nothing the records depend on.
LEMMA MarkAlike ==
  ASSUME NEW p, IsPos(p), NEW v \in Int
  PROVE  Alike(Marked(p, v), p)
<1> DEFINE top == Max({p.high, v})
           q == [p EXCEPT !.value = v, !.high = top]
<1>1. top \in Int
  <2>1. p.high \in Int
    BY DEF IsPos
  <2>2. top \in {p.high, v}
    BY <2>1, MaxTwo
  <2> QED BY <2>1, <2>2
<1>2. Marked(p, v) = q
  BY DEF Marked
<1> HIDE DEF top
<1>3. /\ DOMAIN q = PosFields /\ q.trade = p.trade /\ q.legs = p.legs /\ q.qty = p.qty
      /\ q.entry = p.entry /\ q.value = v /\ q.high = top /\ q.realized = p.realized
  BY DEF IsPos, PosFields
<1> HIDE DEF q
<1>4. IsPos(q)
  BY <1>1, <1>3 DEF IsPos
<1> QED BY <1>2, <1>3, <1>4 DEF Alike

\* _mark_position neither trades nor settles.
LEMMA MarkQuiet ==
  ASSUME DayTypes, NEW i \in DOMAIN pos, NEW v \in Int, Mark(i, v), UNCHANGED <<state, trades>>
  PROVE  Quiet
<1>1. pos' = [pos EXCEPT ![i] = Marked(pos[i], v)]
  BY DEF Mark
<1>2. ASSUME NEW j \in DOMAIN pos PROVE Alike(pos'[j], pos[j])
  <2>1. IsPos(pos[j]) /\ IsPos(pos[i])
    BY DEF DayTypes, BookOk
  <2>2. CASE j = i
    <3>1. pos'[i] = Marked(pos[i], v)
      BY <1>1
    <3> QED BY <2>1, <2>2, <3>1, MarkAlike
  <2>3. CASE j # i
    <3>1. pos'[j] = pos[j]
      BY <1>1, <2>3
    <3> QED BY <2>1, <3>1 DEF Alike
  <2> QED BY <2>2, <2>3
<1> QED BY <1>1, <1>2 DEF Quiet, Mark

-----------------------------------------------------------------------------
(* The market update.                                                       *)

\* The replay starts with the capital and nothing else.
LEMMA StartLedger == DailyInit => LedgerInv
<1> SUFFICES ASSUME DailyInit PROVE LedgerInv
  OBVIOUS
<1>1. /\ cash = StartCash /\ seq = 0 /\ partials = {} /\ phase = "idle" /\ today = 0 /\ trades = {}
      /\ todo = {} /\ pos = [i \in {} |-> 0] /\ reserved = [i \in {} |-> 0]
      /\ settled = [i \in {} |-> 0] /\ state = [i \in {} |-> 0]
  BY DEF DailyInit, BrokerInit, Fresh
<1>2. DOMAIN pos = {} /\ DOMAIN reserved = {} /\ DOMAIN settled = {} /\ DOMAIN state = {}
  BY <1>1
<1>3. StartCash \in Int
  BY BrokerAssumption
<1>4. RecordsOk(trades) /\ Profit(trades) = 0
  <2> DEFINE f == [r \in trades |-> r.pnl]
  <2>1. DOMAIN f = {}
    BY <1>1
  <2> HIDE DEF f
  <2>2. SumFunction(f) = 0
    BY <2>1, SumEmpty
  <2>3. IsFiniteSet(trades)
    BY <1>1, FS_EmptySet
  <2> QED BY <1>1, <2>2, <2>3 DEF Profit, RecordsOk, f
<1>5. Earnings(partials, settled, state) = 0
  <2> DEFINE f == [i \in DOMAIN state |-> EarnedOf(partials, settled, state[i], i)]
  <2>1. DOMAIN f = {}
    BY <1>2
  <2> HIDE DEF f
  <2>2. SumFunction(f) = 0
    BY <2>1, SumEmpty
  <2> QED BY <2>2 DEF Earnings, f
<1>6. DayTypes
  BY <1>1, <1>2, <1>3, <1>4 DEF DayTypes, BookOk
<1>7. MirrorInv /\ PartInv /\ RealInv /\ ReserveFollows
  BY <1>1, <1>2 DEF MirrorInv, PartInv, RealInv, ReserveFollows
<1>8. CashInv
  BY <1>1, <1>3, <1>4, <1>5 DEF CashInv
<1> QED BY <1>6, <1>7, <1>8 DEF LedgerInv

\* A structure that has expired pays for every unit that is left.
LEMMA SettleWholeLedger ==
  ASSUME LedgerInv, phase = "market", NEW i \in todo, NEW v \in Int, SettleWhole(i, v),
         phase' = phase, today' = today, todo' = todo \ {i}, state' = state, trades' = trades
  PROVE  LedgerInv'
<1>1. DayTypes /\ MirrorInv /\ PartInv /\ RealInv /\ CashInv /\ ReserveFollows
  BY DEF LedgerInv
<1>2. i \in DOMAIN pos /\ todo \subseteq DOMAIN pos /\ IsPos(pos[i]) /\ BookOk
  BY <1>1 DEF DayTypes, BookOk
<1>3. /\ cash' = cash + v * pos[i].qty /\ settled' = With(settled, i, v) /\ pos' = Without(pos, i)
      /\ reserved' = Released(i, pos[i].qty, pos[i].qty) /\ partials' = partials /\ seq' = seq
  BY DEF SettleWhole
<1>4. /\ DOMAIN pos' = DOMAIN pos \ {i} /\ \A j \in DOMAIN pos' : pos'[j] = pos[j]
      /\ DOMAIN settled' = DOMAIN settled \cup {i} /\ settled'[i] = v
      /\ \A j \in DOMAIN settled \ {i} : settled'[j] = settled[j]
  BY <1>3 DEF With, Without
<1>5. cash' \in Int /\ v * pos[i].qty \in Int
  <2>1. pos[i].qty \in Int /\ cash \in Int
    BY <1>2 DEF IsPos, BookOk
  <2>2. v * pos[i].qty \in Int
    BY <2>1, TimesInt
  <2> QED BY <1>3, <2>1, <2>2
<1>6. DayTypes'
  <2>1. BookOk'
    BY <1>2, <1>3, <1>4, <1>5 DEF BookOk
  <2>2. \A j \in DOMAIN pos' : pos'[j].trade \in DayTrades /\ DOMAIN pos'[j].legs # {}
    BY <1>1, <1>4 DEF DayTypes
  <2>3. DOMAIN settled' \subseteq 1..seq' /\ \A j \in DOMAIN settled' : settled'[j] \in Int /\ j \notin DOMAIN pos'
    <3>1. i \in 1..seq
      BY <1>2 DEF BookOk
    <3>2. \A j \in DOMAIN settled : settled[j] \in Int /\ j \notin DOMAIN pos /\ j \in 1..seq
      BY <1>1 DEF DayTypes
    <3> QED BY <1>3, <1>4, <3>1, <3>2
  <2>4. todo' \subseteq DOMAIN pos'
    BY <1>2, <1>4
  <2>5. /\ DOMAIN state' \subseteq 1..seq' /\ \A j \in DOMAIN state' : IsState(state'[j])
        /\ RecordsOk(trades') /\ \A r \in trades' : r.id \in 1..seq' /\ r.id \notin DOMAIN state'
        /\ today' \in Nat
    BY <1>1, <1>3 DEF DayTypes
  <2> QED BY <2>1, <2>2, <2>3, <2>4, <2>5 DEF DayTypes
<1>7. /\ DOMAIN pos \subseteq DOMAIN state /\ i \notin DOMAIN settled
      /\ pos[i].qty = Rest(state[i]) /\ PartsOf(partials, i) = {} /\ \A j \in DOMAIN state : Mirrored(j)
  <2>1. DOMAIN pos \subseteq DOMAIN state /\ \A j \in DOMAIN state : Mirrored(j)
    BY <1>1 DEF MirrorInv
  <2>2. pos[i].qty = Rest(state[i])
    BY <1>2, <2>1 DEF Mirrored, Rest
  <2>3. i \notin DOMAIN settled
    BY <1>1, <1>2 DEF DayTypes
  <2>4. PartsOf(partials, i) = {}
    BY <1>1 DEF PartInv, PartsOf
  <2> QED BY <2>1, <2>2, <2>3, <2>4
<1>8. MirrorInv'
  <2>1. \A j \in DOMAIN state' : Mirrored(j)'
    BY <1>4, <1>7 DEF Mirrored
  <2> QED BY <1>4, <1>7, <2>1 DEF MirrorInv
<1>9. PartInv'
  <2>1. ASSUME NEW x \in partials
        PROVE  x = <<x[1], x[2]>> /\ x[2] \in Int /\ phase' = "market" /\ x[1] \in DOMAIN pos' \ todo'
    <3>1. x = <<x[1], x[2]>> /\ x[2] \in Int /\ x[1] \in DOMAIN pos \ todo
      BY <1>1 DEF PartInv
    <3> QED BY <1>4, <3>1
  <2> QED BY <1>1, <1>3, <2>1 DEF PartInv
<1>10. RealInv'
  BY <1>1, <1>3, <1>4 DEF RealInv
<1>11. ReserveFollows'
  BY <1>1, <1>2, <1>3, ReleaseAll
<1>12. CashInv'
  <2>1. EarnTyped(partials, settled, state) /\ EarnTyped(partials', settled', state')
    <3>1. EarnTyped(partials, settled, state)
      BY <1>1, EarnedInt
    <3>2. (DayTypes /\ PartInv => EarnTyped(partials, settled, state))'
      BY EarnedInt, PTL
    <3> QED BY <1>6, <1>9, <3>1, <3>2
  <2>2. SameBut(partials, settled, state, partials', settled', state', i)
    <3>1. \A j \in DOMAIN state \ {i} : /\ PartsOf(partials', j) = PartsOf(partials, j) /\ state'[j] = state[j]
                                        /\ j \in DOMAIN settled' <=> j \in DOMAIN settled
                                        /\ j \in DOMAIN settled => settled'[j] = settled[j]
      BY <1>3, <1>4
    <3> QED BY <3>1, ElsewhereSame
  <2>3. i \in DOMAIN state /\ DOMAIN state' = DOMAIN state
    BY <1>2, <1>7
  <2>4. Earnings(partials', settled', state') =
          Earnings(partials, settled, state) - EarnedOf(partials, settled, state[i], i)
            + EarnedOf(partials', settled', state'[i], i)
    BY <2>1, <2>2, <2>3, EarnChange
  <2>5. EarnedOf(partials', settled', state'[i], i) = EarnedOf(partials, settled, state[i], i) + v * pos[i].qty
    <3>1. ClosingOf(settled, state[i], i) = 0
      BY <1>7 DEF ClosingOf
    <3>2. ClosingOf(settled', state[i], i) = v * pos[i].qty
      BY <1>4, <1>7 DEF ClosingOf
    <3>3. Booking(state[i]) + SettlingOf(partials, state[i], i) + 0 \in Int
      <4>1. EarnedOf(partials, settled, state[i], i) \in Int
        BY <2>1, <2>3 DEF EarnTyped
      <4> QED BY <3>1, <4>1 DEF EarnedOf
    <3>4. /\ EarnedOf(partials, settled, state[i], i) = Booking(state[i]) + SettlingOf(partials, state[i], i) + 0
          /\ EarnedOf(partials', settled', state'[i], i) =
               Booking(state[i]) + SettlingOf(partials, state[i], i) + v * pos[i].qty
      BY <1>3, <3>1, <3>2 DEF EarnedOf
    <3> DEFINE a == Booking(state[i])
               b == SettlingOf(partials, state[i], i)
    <3>5. a \in Int /\ b \in Int
      <4>1. IsState(state[i])
        BY <1>1, <2>3 DEF DayTypes
      <4>2. b \in Int
        BY <1>1, <4>1, PartsFacts DEF IsState
      <4>3. state[i].entry * state[i].maxQty \in Int
        BY <4>1, TimesInt DEF IsState
      <4> QED BY <4>1, <4>2, <4>3 DEF IsState, Booking
    <3> HIDE DEF a, b
    <3>6. a + b + v * pos[i].qty = (a + b + 0) + v * pos[i].qty
      BY <1>5, <3>5
    <3> QED BY <3>4, <3>6 DEF a, b
  <2>6. cash = StartCash + Profit(trades) + Earnings(partials, settled, state)
    BY <1>1 DEF CashInv
  <2>7. /\ EarnedOf(partials, settled, state[i], i) \in Int
        /\ Earnings(partials, settled, state) \in Int /\ Profit(trades) \in Int /\ StartCash \in Int
    <3>1. EarnedOf(partials, settled, state[i], i) \in Int
      BY <2>1, <2>3 DEF EarnTyped
    <3>2. Earnings(partials, settled, state) \in Int
      <4> DEFINE f == [j \in DOMAIN state |-> EarnedOf(partials, settled, state[j], j)]
      <4>1. IsFiniteSet(DOMAIN f) /\ \A j \in DOMAIN f : f[j] \in Int
        BY <2>1 DEF EarnTyped
      <4> HIDE DEF f
      <4>2. SumFunction(f) \in Int
        BY <4>1, SumInt
      <4> QED BY <4>2 DEF Earnings, f
    <3>3. Profit(trades) \in Int
      BY <1>1, ProfitInt DEF DayTypes
    <3> QED BY <3>1, <3>2, <3>3, BrokerAssumption
  <2>8. cash' = StartCash + Profit(trades') + Earnings(partials', settled', state')
    BY <1>3, <1>5, <2>4, <2>5, <2>6, <2>7
  <2> QED BY <2>8 DEF CashInv
<1> QED BY <1>6, <1>8, <1>9, <1>10, <1>11, <1>12 DEF LedgerInv

\* The earnings of the open trades can be added up.
LEMMA EarningsInt ==
  ASSUME NEW P, NEW D, NEW S, EarnTyped(P, D, S)
  PROVE  Earnings(P, D, S) \in Int
<1> DEFINE f == [j \in DOMAIN S |-> EarnedOf(P, D, S[j], j)]
<1>1. IsFiniteSet(DOMAIN f) /\ \A j \in DOMAIN f : f[j] \in Int
  BY DEF EarnTyped
<1> HIDE DEF f
<1>2. SumFunction(f) \in Int
  BY <1>1, SumInt
<1> QED BY <1>2 DEF Earnings, f

\* The same of the next state.
LEMMA EarnedNext == (DayTypes /\ PartInv)' => EarnTyped(partials', settled', state')
<1>1. (DayTypes /\ PartInv => EarnTyped(partials, settled, state))'
  BY EarnedInt, PTL
<1> QED BY <1>1

PartsSettle == \A j, st : st.maxQty \in Int /\ st.closed \in Int =>
                 \A x \in PartsOf(partials, j) : SettlingOf(partials, st, j) = x[2] * Rest(st)

\* A leg that settles adds its telemetry to one position's and to no other's.
LEMMA PartsNext ==
  PartInv' => \A j, st : st.maxQty \in Int /\ st.closed \in Int =>
                \A x \in PartsOf(partials', j) : SettlingOf(partials', st, j) = x[2] * Rest(st)
<1>1. PartInv => PartsSettle
  BY PartsFacts DEF PartsSettle
<1>2. (PartInv => PartsSettle)'
  BY <1>1, PTL
<1> QED BY <1>2 DEF PartsSettle

\* Cash that one open trade has earned.
LEMMA CashOfOne ==
  ASSUME LedgerInv, (DayTypes /\ PartInv)', phase # "done", phase' # "done",
         NEW i \in DOMAIN state, DOMAIN state' = DOMAIN state,
         SameBut(partials, settled, state, partials', settled', state', i),
         NEW d \in Int, cash' = cash + d, trades' = trades,
         EarnedOf(partials', settled', state'[i], i) = EarnedOf(partials, settled, state[i], i) + d
  PROVE  CashInv'
<1>1. EarnTyped(partials, settled, state) /\ EarnTyped(partials', settled', state')
  BY EarnedInt, EarnedNext DEF LedgerInv
<1>2. Earnings(partials', settled', state') =
        Earnings(partials, settled, state) - EarnedOf(partials, settled, state[i], i)
          + EarnedOf(partials', settled', state'[i], i)
  BY <1>1, EarnChange
<1>3. cash = StartCash + Profit(trades) + Earnings(partials, settled, state)
  BY DEF CashInv, LedgerInv
<1>4. /\ EarnedOf(partials, settled, state[i], i) \in Int
      /\ Earnings(partials, settled, state) \in Int /\ Profit(trades) \in Int /\ StartCash \in Int
  BY <1>1, EarningsInt, ProfitInt, BrokerAssumption DEF EarnTyped, LedgerInv, DayTypes
<1>5. cash' = StartCash + Profit(trades') + Earnings(partials', settled', state')
  BY <1>2, <1>3, <1>4
<1> QED BY <1>5 DEF CashInv

\* What a booking is made of.
LEMMA BookingInt == ASSUME NEW st, IsState(st) PROVE Booking(st) \in Int /\ st.entry * st.maxQty \in Int /\ Rest(st) \in Nat \ {0}
<1>1. st.entry * st.maxQty \in Int
  BY TimesInt DEF IsState
<1> QED BY <1>1 DEF IsState, Booking, Rest

\* A leg that expires before the others pays for every unit; the others live on.
LEMMA SettlePartLedger ==
  ASSUME LedgerInv, phase = "market", NEW i \in todo, NEW v \in Int, NEW gone,
         gone \subseteq DOMAIN pos[i].legs, gone # DOMAIN pos[i].legs, NEW w \in Int,
         SettlePart(i, v, gone, w),
         phase' = phase, today' = today, todo' = todo \ {i}, state' = state, trades' = trades
  PROVE  LedgerInv'
<1>1. DayTypes /\ MirrorInv /\ PartInv /\ RealInv /\ CashInv /\ ReserveFollows
  BY DEF LedgerInv
<1>2. i \in DOMAIN pos /\ todo \subseteq DOMAIN pos /\ IsPos(pos[i]) /\ BookOk
  BY <1>1 DEF DayTypes, BookOk
<1> DEFINE p == pos[i]
           rest == [l \in DOMAIN pos[i].legs \ gone |-> pos[i].legs[l]]
           more == pos[i].realized + v * pos[i].qty
           q == [p EXCEPT !.legs = rest, !.realized = more]
<1>3. /\ cash' = cash + v * pos[i].qty /\ partials' = partials \cup {<<i, v>>}
      /\ pos' = [pos EXCEPT ![i] = Marked(q, w)]
      /\ reserved' = reserved /\ settled' = settled /\ seq' = seq
  BY DEF SettlePart
<1>4. v * pos[i].qty \in Int /\ more \in Int /\ cash' \in Int
  <2>1. pos[i].qty \in Int /\ cash \in Int /\ pos[i].realized \in Int
    BY <1>2 DEF IsPos, BookOk
  <2>2. v * pos[i].qty \in Int
    BY <2>1, TimesInt
  <2> QED BY <1>3, <2>1, <2>2
<1>5. /\ IsPos(q) /\ q.trade = p.trade /\ DOMAIN q.legs = DOMAIN p.legs \ gone /\ q.qty = p.qty
      /\ q.entry = p.entry /\ q.realized = more
  <2>1. DOMAIN rest = DOMAIN p.legs \ gone
    OBVIOUS
  <2>2. more \in Int /\ IsPos(p)
    BY <1>2, <1>4
  <2> HIDE DEF p, rest, more
  <2>3. /\ DOMAIN q = PosFields /\ q.legs = rest /\ q.realized = more
        /\ q.trade = p.trade /\ q.qty = p.qty /\ q.entry = p.entry /\ q.value = p.value /\ q.high = p.high
    BY <2>2 DEF IsPos, PosFields
  <2> HIDE DEF q
  <2>4. IsPos(q)
    BY <2>1, <2>2, <2>3 DEF IsPos
  <2> QED BY <2>1, <2>3, <2>4
<1> HIDE DEF q
<1>6. Alike(Marked(q, w), q)
  BY <1>5, MarkAlike
<1>7. /\ DOMAIN pos' = DOMAIN pos /\ pos'[i] = Marked(q, w) /\ \A j \in DOMAIN pos \ {i} : pos'[j] = pos[j]
  BY <1>2, <1>3
<1>8. /\ IsPos(pos'[i]) /\ pos'[i].trade = pos[i].trade /\ DOMAIN pos'[i].legs = DOMAIN pos[i].legs \ gone
      /\ pos'[i].qty = pos[i].qty /\ pos'[i].entry = pos[i].entry /\ pos'[i].realized = more
  BY <1>5, <1>6, <1>7 DEF Alike
<1> HIDE DEF more
<1>9. DayTypes'
  <2>1. BookOk'
    <3>1. \A j \in DOMAIN pos' : IsPos(pos'[j])
      BY <1>2, <1>7, <1>8 DEF BookOk
    <3> QED BY <1>2, <1>3, <1>4, <1>7, <3>1 DEF BookOk
  <2>2. \A j \in DOMAIN pos' : pos'[j].trade \in DayTrades /\ DOMAIN pos'[j].legs # {}
    <3>1. DOMAIN pos[i].legs \ gone # {}
      OBVIOUS
    <3>2. \A j \in DOMAIN pos : pos[j].trade \in DayTrades /\ DOMAIN pos[j].legs # {}
      BY <1>1 DEF DayTypes
    <3> QED BY <1>2, <1>7, <1>8, <3>1, <3>2
  <2>3. todo' \subseteq DOMAIN pos'
    BY <1>2, <1>7
  <2>4. /\ DOMAIN state' \subseteq 1..seq' /\ \A j \in DOMAIN state' : IsState(state'[j])
        /\ RecordsOk(trades') /\ \A r \in trades' : r.id \in 1..seq' /\ r.id \notin DOMAIN state'
        /\ today' \in Nat
        /\ DOMAIN settled' \subseteq 1..seq'
        /\ \A j \in DOMAIN settled' : settled'[j] \in Int /\ j \notin DOMAIN pos'
    BY <1>1, <1>3, <1>7 DEF DayTypes
  <2> QED BY <2>1, <2>2, <2>3, <2>4 DEF DayTypes
<1>10. /\ DOMAIN pos \subseteq DOMAIN state /\ i \in DOMAIN state /\ i \notin DOMAIN settled
       /\ pos[i].qty = Rest(state[i]) /\ PartsOf(partials, i) = {}
       /\ (\A j \in DOMAIN state : Mirrored(j)) /\ IsState(state[i])
  <2>1. DOMAIN pos \subseteq DOMAIN state /\ \A j \in DOMAIN state : Mirrored(j)
    BY <1>1 DEF MirrorInv
  <2>2. pos[i].qty = Rest(state[i])
    BY <1>2, <2>1 DEF Mirrored, Rest
  <2>3. i \notin DOMAIN settled /\ IsState(state[i])
    BY <1>1, <1>2, <2>1 DEF DayTypes
  <2>4. PartsOf(partials, i) = {}
    BY <1>1 DEF PartInv, PartsOf
  <2> QED BY <1>2, <2>1, <2>2, <2>3, <2>4
<1>11. MirrorInv'
  <2>1. \A j \in DOMAIN state' : Mirrored(j)'
    BY <1>3, <1>7, <1>8, <1>10 DEF Mirrored
  <2> QED BY <1>7, <1>10, <2>1 DEF MirrorInv
<1>12. PartInv'
  <2>1. ASSUME NEW x \in partials'
        PROVE  x = <<x[1], x[2]>> /\ x[2] \in Int /\ phase' = "market" /\ x[1] \in DOMAIN pos' \ todo'
    <3>1. CASE x \in partials
      <4>1. x = <<x[1], x[2]>> /\ x[2] \in Int /\ x[1] \in DOMAIN pos \ todo
        BY <1>1, <3>1 DEF PartInv
      <4> QED BY <1>7, <4>1
    <3>2. CASE x = <<i, v>>
      BY <1>2, <1>7, <3>2
    <3> QED BY <1>3, <3>1, <3>2
  <2>2. \A x, y \in partials' : x[1] = y[1] => x = y
    <3>1. \A x \in partials : x[1] # i
      BY <1>10 DEF PartsOf
    <3>2. \A x, y \in partials : x[1] = y[1] => x = y
      BY <1>1 DEF PartInv
    <3> QED BY <1>3, <3>1, <3>2
  <2> QED BY <2>1, <2>2 DEF PartInv
<1>13. /\ SettlingOf(partials, state[i], i) = 0
       /\ SettlingOf(partials', state[i], i) = v * pos[i].qty
       /\ \A j \in DOMAIN state \ {i} : PartsOf(partials', j) = PartsOf(partials, j)
  <2>1. SettlingOf(partials, state[i], i) = 0
    BY <1>1, <1>10, PartsFacts DEF IsState
  <2>2. <<i, v>> \in PartsOf(partials', i)
    BY <1>3 DEF PartsOf
  <2>3. SettlingOf(partials', state[i], i) = v * Rest(state[i])
    <3>3. \A x \in PartsOf(partials', i) : SettlingOf(partials', state[i], i) = x[2] * Rest(state[i])
      BY <1>10, <1>12, PartsNext DEF IsState
    <3>5. SettlingOf(partials', state[i], i) = <<i, v>>[2] * Rest(state[i])
      BY <2>2, <3>3
    <3> QED BY <3>5
  <2>4. \A j \in DOMAIN state \ {i} : PartsOf(partials', j) = PartsOf(partials, j)
    BY <1>3 DEF PartsOf
  <2> QED BY <1>10, <2>1, <2>3, <2>4
<1>14. RealInv'
  <2>1. ASSUME NEW j \in DOMAIN pos'
        PROVE  pos'[j].realized = state'[j].exitCash + SettlingOf(partials', state'[j], j) - state'[j].entry * state'[j].closed
    <3>1. pos[j].realized = state[j].exitCash + SettlingOf(partials, state[j], j) - state[j].entry * state[j].closed
      BY <1>1, <1>7 DEF RealInv
    <3>2. CASE j = i
      <4>1. state[i].exitCash \in Int /\ state[i].entry * state[i].closed \in Int
        BY <1>10, TimesInt DEF IsState
      <4>2. pos'[i].realized = pos[i].realized + v * pos[i].qty
        BY <1>8 DEF more
      <4> QED BY <1>4, <1>13, <3>1, <3>2, <4>1, <4>2
    <3>3. CASE j # i
      <4>1. SettlingOf(partials', state[j], j) = SettlingOf(partials, state[j], j)
        BY <1>7, <1>10, <1>13, <3>3 DEF SettlingOf
      <4> QED BY <1>7, <3>1, <3>3, <4>1
    <3> QED BY <3>2, <3>3
  <2> QED BY <2>1 DEF RealInv
<1>15. ReserveFollows'
  <2>1. \A j \in DOMAIN pos : pos'[j].trade = pos[j].trade /\ pos'[j].qty = pos[j].qty
    BY <1>7, <1>8
  <2> QED BY <1>1, <1>3, <1>7, <2>1 DEF ReserveFollows
<1>16. CashInv'
  <2>1. SameBut(partials, settled, state, partials', settled', state', i)
    BY <1>3, <1>13, ElsewhereSame
  <2>2. EarnedOf(partials', settled', state'[i], i) = EarnedOf(partials, settled, state[i], i) + v * pos[i].qty
    <3>1. ClosingOf(settled, state[i], i) = 0
      BY <1>10 DEF ClosingOf
    <3>2. Booking(state[i]) \in Int
      BY <1>10, BookingInt
    <3> QED BY <1>3, <1>4, <1>13, <3>1, <3>2 DEF EarnedOf
  <2>3. (DayTypes /\ PartInv)'
    BY <1>9, <1>12
  <2> QED BY <1>3, <1>4, <1>10, <2>1, <2>2, <2>3, CashOfOne
<1> QED BY <1>9, <1>11, <1>12, <1>14, <1>15, <1>16 DEF LedgerInv

\* Without settled legs there is nothing to add.
LEMMA NothingSettles == \A st, i : SettlingOf({}, st, i) = 0
<1> SUFFICES ASSUME NEW st, NEW i PROVE SettlingOf({}, st, i) = 0
  OBVIOUS
<1> DEFINE f == [x \in PartsOf({}, i) |-> x[2] * Rest(st)]
<1>1. DOMAIN f = {}
  BY DEF PartsOf
<1> HIDE DEF f
<1>2. SumFunction(f) = 0
  BY <1>1, SumEmpty
<1> QED BY <1>2 DEF SettlingOf, f

\* Folding settled legs in changes the cash of a trade and nothing else.
FoldedRight(f, st, i) ==
  /\ IsState(f) /\ f.bet = st.bet /\ f.sym = st.sym /\ f.entry = st.entry /\ f.maxQty = st.maxQty
  /\ f.fees = st.fees /\ f.closed = st.closed
  /\ f.exitCash = st.exitCash + SettlingOf(partials, st, i)

\* The sweep adds the settled legs of a position to its trade's exit cash, and changes nothing else.
LEMMA FoldedFacts ==
  ASSUME PartInv, NEW i, NEW st, IsState(st)
  PROVE  FoldedRight(Folded(i, st), st, i)
<1> DEFINE more == SettlingOf(partials, st, i)
           g == [st EXCEPT !.exitCash = st.exitCash + more]
<1>1. more \in Int
  BY PartsFacts DEF IsState
<1>2. Folded(i, st) = g
  BY DEF Folded, SettlingOf, PartsOf, Rest
<1> HIDE DEF more
<1>3. /\ DOMAIN g = StateFields /\ g.bet = st.bet /\ g.sym = st.sym /\ g.entry = st.entry
      /\ g.maxQty = st.maxQty /\ g.fees = st.fees /\ g.closed = st.closed
      /\ g.exitCash = st.exitCash + more
  BY DEF IsState, StateFields
<1> HIDE DEF g
<1>4. IsState(g)
  BY <1>1, <1>3 DEF IsState
<1> QED BY <1>2, <1>3, <1>4 DEF FoldedRight, more

\* Folding moves the settled legs from the telemetry to the trade: what it has earned stays.
LEMMA FoldedSame ==
  ASSUME PartInv, NEW i, NEW st, IsState(st), NEW g, FoldedRight(g, st, i)
  PROVE  /\ Booking(g) = Booking(st) + SettlingOf(partials, st, i)
         /\ g.exitCash - g.entry * g.closed = st.exitCash + SettlingOf(partials, st, i) - st.entry * st.closed
         /\ g.exitCash - g.entry * g.closed \in Int
<1>1. /\ SettlingOf(partials, st, i) \in Int /\ st.exitCash \in Int /\ st.fees \in Int
      /\ st.entry * st.maxQty \in Int /\ st.entry * st.closed \in Int
  BY PartsFacts, TimesInt DEF IsState
<1> DEFINE a == SettlingOf(partials, st, i)
           b == st.entry * st.maxQty
           c == st.entry * st.closed
<1>2. g.exitCash = st.exitCash + a /\ g.fees = st.fees /\ g.entry * g.maxQty = b /\ g.entry * g.closed = c
  BY DEF FoldedRight
<1>3. Booking(g) = g.exitCash - g.entry * g.maxQty - g.fees /\ Booking(st) = st.exitCash - b - st.fees
  BY DEF Booking
<1>4. a \in Int /\ b \in Int /\ c \in Int /\ st.exitCash \in Int /\ st.fees \in Int
  BY <1>1
<1> HIDE DEF a, b, c
<1>5. Booking(g) = (st.exitCash + a) - b - st.fees
  BY <1>2, <1>3
<1>6. Booking(g) = Booking(st) + a
  BY <1>3, <1>4, <1>5
<1>7. g.exitCash - g.entry * g.closed = st.exitCash + a - c /\ g.exitCash - g.entry * g.closed \in Int
  BY <1>2, <1>4
<1> QED BY <1>6, <1>7 DEF a, c

\* What a settled structure has earned is what its record says.
LEMMA ExpiredPnl ==
  ASSUME DayTypes, PartInv, NEW i \in DOMAIN settled, NEW st, IsState(st)
  PROVE  LET r == Record(i, Expire(i, Folded(i, st)))
         IN  r.id = i /\ r.bet = st.bet /\ r.pnl = EarnedOf(partials, settled, st, i) /\ r.pnl \in Int
<1> DEFINE f == Folded(i, st)
           more == settled[i] * (f.maxQty - f.closed)
           e == [f EXCEPT !.exitCash = f.exitCash + more, !.closed = f.maxQty]
           r == Record(i, Expire(i, f))
<1>1. FoldedRight(f, st, i)
  BY FoldedFacts
<1>2. settled[i] \in Int
  BY DEF DayTypes
<1>3. Expire(i, f) = e
  <2> HIDE DEF f
  <2>1. DOMAIN f = StateFields
    BY <1>1 DEF FoldedRight, IsState
  <2> QED BY <2>1 DEF Expire, StateFields
<1> HIDE DEF f
<1>4. more \in Int /\ more = ClosingOf(settled, st, i)
  <2>1. f.maxQty - f.closed \in Int /\ f.maxQty - f.closed = Rest(st)
    BY <1>1 DEF FoldedRight, IsState, Rest
  <2> QED BY <1>2, <2>1, TimesInt DEF ClosingOf
<1> HIDE DEF more
<1>5. e.exitCash = f.exitCash + more /\ e.closed = f.maxQty /\ e.entry = f.entry /\ e.fees = f.fees /\ e.bet = f.bet
  BY <1>1 DEF FoldedRight, IsState, StateFields
<1> HIDE DEF e
<1>6. r.id = i /\ r.bet = e.bet /\ r.pnl = Pnl(e)
  BY <1>3 DEF Record
<1> HIDE DEF r
<1>7. Pnl(e) = e.exitCash - e.entry * e.closed - e.fees
  BY <1>1, <1>5 DEF Pnl, FoldedRight, IsState
<1>8. /\ st.exitCash \in Int /\ st.fees \in Int /\ st.entry * st.maxQty \in Int
      /\ SettlingOf(partials, st, i) \in Int
  BY PartsFacts, BookingInt DEF IsState
<1>9. Pnl(e) = EarnedOf(partials, settled, st, i) /\ Pnl(e) \in Int
  <2>1. Pnl(e) = (st.exitCash + SettlingOf(partials, st, i) + more) - st.entry * st.maxQty - st.fees
    BY <1>1, <1>5, <1>7 DEF FoldedRight
  <2>2. EarnedOf(partials, settled, st, i) =
          (st.exitCash - st.entry * st.maxQty - st.fees) + SettlingOf(partials, st, i) + more
    BY <1>4 DEF EarnedOf, Booking
  <2> QED BY <1>4, <1>8, <2>1, <2>2
<1> QED BY <1>1, <1>5, <1>6, <1>9 DEF r, f, FoldedRight

\* The sweep books what has settled and folds the settled legs of what lives on.
LEMMA SweepLedger == LedgerInv /\ Sweep => LedgerInv'
<1> SUFFICES ASSUME LedgerInv, Sweep PROVE LedgerInv'
  OBVIOUS
<1>1. DayTypes /\ MirrorInv /\ PartInv /\ RealInv /\ CashInv /\ ReserveFollows
  BY DEF LedgerInv
<1> DEFINE gone == DOMAIN state \ DOMAIN pos
           folded == [i \in DOMAIN state |-> Folded(i, state[i])]
           new == [i \in gone |-> Record(i, Expire(i, folded[i]))]
<1>2. /\ phase = "market" /\ phase' = "exits" /\ today' = today /\ todo' = DOMAIN pos
      /\ state' = [i \in DOMAIN state \ gone |-> folded[i]] /\ partials' = {}
      /\ trades' = trades \cup {new[i] : i \in gone}
      /\ pos' = pos /\ cash' = cash /\ seq' = seq /\ reserved' = reserved /\ settled' = settled
  <2>1. {new[i] : i \in gone} = {Record(i, Expire(i, folded[i])) : i \in gone}
    OBVIOUS
  <2> HIDE DEF new
  <2> QED BY <2>1 DEF Sweep
<1>3. /\ DOMAIN pos \subseteq DOMAIN state
      /\ \A i \in DOMAIN state : IsState(state[i])
      /\ \A i \in gone : i \in DOMAIN settled
      /\ \A i \in DOMAIN pos : /\ pos[i].qty = state[i].maxQty - state[i].closed
                               /\ pos[i].entry = state[i].entry /\ i \notin DOMAIN settled
  <2>1. DOMAIN pos \subseteq DOMAIN state /\ \A i \in DOMAIN state : Mirrored(i)
    BY <1>1, <1>2 DEF MirrorInv
  <2>2. \A i \in DOMAIN state : IsState(state[i])
    BY <1>1 DEF DayTypes
  <2>3. \A i \in DOMAIN settled : i \notin DOMAIN pos
    BY <1>1 DEF DayTypes
  <2> QED BY <2>1, <2>2, <2>3 DEF Mirrored
<1>4. DOMAIN state' = DOMAIN pos /\ \A i \in DOMAIN pos : state'[i] = Folded(i, state[i])
  BY <1>2, <1>3
<1>5. \A i \in DOMAIN pos : FoldedRight(state'[i], state[i], i)
  BY <1>1, <1>3, <1>4, FoldedFacts
<1>6. \A i \in gone : new[i].id = i /\ new[i].pnl = EarnedOf(partials, settled, state[i], i) /\ new[i].pnl \in Int
  <2> SUFFICES ASSUME NEW i \in gone
      PROVE  new[i].id = i /\ new[i].pnl = EarnedOf(partials, settled, state[i], i) /\ new[i].pnl \in Int
    OBVIOUS
  <2>1. i \in DOMAIN settled /\ IsState(state[i]) /\ new[i] = Record(i, Expire(i, Folded(i, state[i])))
    BY <1>3
  <2> HIDE DEF new, gone
  <2> QED BY <1>1, <2>1, ExpiredPnl
<1> HIDE DEF folded, new
<1>7. Fresh1(trades, gone, new)
  <2>1. IsFiniteSet(DOMAIN state) /\ DOMAIN state \subseteq Nat
    BY <1>1, IdsFinite DEF DayTypes, BookOk
  <2>2. IsFiniteSet(gone)
    BY <2>1, FS_Difference
  <2>3. \A r \in trades : r.id \notin gone
    BY <1>1 DEF DayTypes
  <2> QED BY <1>6, <2>1, <2>2, <2>3 DEF Fresh1
<1>8. /\ RecordsOk(trades')
      /\ Profit(trades') = Profit(trades) + SumFunction([i \in gone |-> new[i].pnl])
  <2>1. RecordsOk(trades)
    BY <1>1 DEF DayTypes
  <2> QED BY <1>2, <1>7, <2>1, ProfitMore
<1>9. DayTypes'
  <2>1. BookOk'
    BY <1>1, <1>2 DEF DayTypes, BookOk
  <2>2. \A i \in DOMAIN pos' : pos'[i].trade \in DayTrades /\ DOMAIN pos'[i].legs # {}
    BY <1>1, <1>2 DEF DayTypes
  <2>3. DOMAIN state' \subseteq 1..seq' /\ \A i \in DOMAIN state' : IsState(state'[i])
    BY <1>1, <1>2, <1>4, <1>5 DEF DayTypes, BookOk, FoldedRight
  <2>4. DOMAIN settled' \subseteq 1..seq' /\ \A i \in DOMAIN settled' : settled'[i] \in Int /\ i \notin DOMAIN pos'
    BY <1>1, <1>2 DEF DayTypes
  <2>5. \A r \in trades' : r.id \in 1..seq' /\ r.id \notin DOMAIN state'
    <3>1. \A r \in trades : r.id \in 1..seq /\ r.id \notin DOMAIN state
      BY <1>1 DEF DayTypes
    <3>2. \A i \in gone : new[i].id \in 1..seq /\ new[i].id \notin DOMAIN pos
      BY <1>1, <1>6 DEF DayTypes
    <3> QED BY <1>2, <1>3, <1>4, <3>1, <3>2
  <2>6. today' \in Nat
    BY <1>1, <1>2 DEF DayTypes
  <2> QED BY <1>2, <1>8, <2>1, <2>2, <2>3, <2>4, <2>5, <2>6 DEF DayTypes
<1>10. MirrorInv'
  <2>1. ASSUME NEW i \in DOMAIN state' PROVE Mirrored(i)'
    <3>1. i \in DOMAIN pos /\ FoldedRight(state'[i], state[i], i)
      BY <1>4, <1>5, <2>1
    <3>2. pos[i].qty = state[i].maxQty - state[i].closed /\ pos[i].entry = state[i].entry
      BY <1>3, <3>1
    <3>3. pos' = pos
      BY <1>2
    <3> QED BY <3>1, <3>2, <3>3 DEF Mirrored, FoldedRight
  <2>2. \A i \in DOMAIN state' : Mirrored(i)'
    BY <2>1
  <2>3. DOMAIN state' = DOMAIN pos'
    BY <1>2, <1>4
  <2> QED BY <1>2, <2>2, <2>3 DEF MirrorInv
<1>11. PartInv'
  BY <1>2 DEF PartInv
<1>12. RealInv'
  <2>1. ASSUME NEW i \in DOMAIN pos
        PROVE  pos'[i].realized = state'[i].exitCash + SettlingOf(partials', state'[i], i) - state'[i].entry * state'[i].closed
    <3>1. pos[i].realized = state[i].exitCash + SettlingOf(partials, state[i], i) - state[i].entry * state[i].closed
      BY <1>1, <1>2 DEF RealInv
    <3>2. SettlingOf(partials', state'[i], i) = 0
      BY <1>2, NothingSettles
    <3>3. /\ state'[i].exitCash - state'[i].entry * state'[i].closed =
               state[i].exitCash + SettlingOf(partials, state[i], i) - state[i].entry * state[i].closed
          /\ state'[i].exitCash - state'[i].entry * state'[i].closed \in Int
      BY <1>1, <1>3, <1>5, FoldedSame
    <3>4. state'[i].exitCash \in Int /\ state'[i].entry * state'[i].closed \in Int
      BY <1>5, TimesInt DEF FoldedRight, IsState
    <3> DEFINE a == state'[i].exitCash
               b == state'[i].entry * state'[i].closed
    <3> HIDE DEF a, b
    <3>5. a - b = a + 0 - b
      BY <3>4 DEF a, b
    <3>6. pos'[i].realized = pos[i].realized
      BY <1>2
    <3> QED BY <3>1, <3>2, <3>3, <3>5, <3>6 DEF a, b
  <2> QED BY <1>2, <2>1 DEF RealInv
<1>13. ReserveFollows'
  BY <1>1, <1>2 DEF ReserveFollows
<1>14. CashInv'
  <2> DEFINE f == [i \in DOMAIN state |-> EarnedOf(partials, settled, state[i], i)]
             h == [i \in DOMAIN state' |-> EarnedOf(partials', settled', state'[i], i)]
             k == [i \in gone |-> new[i].pnl]
  <2>1. f \in [DOMAIN state -> Int] /\ IsFiniteSet(DOMAIN state) /\ DOMAIN pos \in SUBSET DOMAIN state
    BY <1>1, <1>3, EarnedInt DEF EarnTyped
  <2>2. h = Restrict(f, DOMAIN pos)
    <3>1. ASSUME NEW i \in DOMAIN pos PROVE EarnedOf(partials', settled', state'[i], i) = f[i]
      <4>1. SettlingOf(partials', state'[i], i) = 0
        BY <1>2, NothingSettles
      <4>2. ClosingOf(settled', state'[i], i) = 0 /\ ClosingOf(settled, state[i], i) = 0
        BY <1>2, <1>3 DEF ClosingOf
      <4>3. Booking(state'[i]) = Booking(state[i]) + SettlingOf(partials, state[i], i)
        BY <1>1, <1>3, <1>5, FoldedSame
      <4>4. Booking(state[i]) \in Int /\ SettlingOf(partials, state[i], i) \in Int
        BY <1>1, <1>3, PartsFacts, BookingInt DEF IsState
      <4>5. f[i] = EarnedOf(partials, settled, state[i], i)
        BY <1>3
      <4> HIDE DEF f
      <4> QED BY <4>1, <4>2, <4>3, <4>4, <4>5 DEF EarnedOf
    <3> HIDE DEF f
    <3> QED BY <1>4, <3>1 DEF Restrict
  <2>3. k = Restrict(f, gone)
    <3>1. \A i \in gone : new[i].pnl = f[i]
      BY <1>6
    <3> HIDE DEF f
    <3> QED BY <3>1 DEF Restrict
  <2>4. DOMAIN state \ DOMAIN pos = gone
    OBVIOUS
  <2> HIDE DEF f, h, k, gone
  <2>5. SumFunction(f) = SumFunction(Restrict(f, DOMAIN pos)) + SumFunction(Restrict(f, DOMAIN state \ DOMAIN pos))
    BY <2>1, SumParts
  <2>6. SumFunction(f) = SumFunction(h) + SumFunction(k)
    BY <2>2, <2>3, <2>4, <2>5
  <2>7. SumFunction(h) \in Int /\ SumFunction(k) \in Int
    <3>1. SumFunction(h) \in Int
      <4>1. IsFiniteSet(DOMAIN pos)
        BY <2>1, FS_Subset
      <4>2. DOMAIN h = DOMAIN pos /\ \A i \in DOMAIN pos : h[i] = f[i]
        BY <2>2 DEF Restrict
      <4>3. \A i \in DOMAIN h : h[i] \in Int
        BY <2>1, <4>2
      <4> QED BY <4>1, <4>2, <4>3, SumInt
    <3>2. SumFunction(k) \in Int
      <4>1. DOMAIN k = gone /\ \A i \in gone : k[i] \in Int
        BY <1>6 DEF k
      <4> QED BY <1>7, <4>1, SumInt DEF Fresh1
    <3> QED BY <3>1, <3>2
  <2>8. cash = StartCash + Profit(trades) + SumFunction(f)
    BY <1>1, <1>2 DEF CashInv, Earnings, f
  <2>9. Profit(trades) \in Int /\ StartCash \in Int
    BY <1>1, ProfitInt, BrokerAssumption DEF DayTypes
  <2>10. Profit(trades') = Profit(trades) + SumFunction(k)
    BY <1>8 DEF k
  <2>11. cash' = StartCash + Profit(trades') + SumFunction(h)
    BY <1>2, <2>6, <2>7, <2>8, <2>9, <2>10
  <2> QED BY <1>2, <2>11 DEF CashInv, Earnings, h
<1> QED BY <1>9, <1>10, <1>11, <1>12, <1>13, <1>14 DEF LedgerInv

-----------------------------------------------------------------------------
(* Exits.                                                                   *)

\* An exit closes a part of a position, and never more than it has.
LEMMA PctTyped ==
  ASSUME NEW p, p.trade \in DayTrades
  PROVE  Action(p).pct \in Nat
<1> DEFINE r == p.trade.rules
<1>1. r.tp1Pct \in Nat \cup {Off}
  BY BacktestAssumption DEF DayTrades
<1> HIDE DEF r
<1>2. Hold.pct = 0 /\ \A w : All(w).pct = 100
  BY DEF Hold, All
<1>3. CreditExit(p, r).pct \in Nat
  BY <1>2 DEF CreditExit
<1>4. DebitExit(p, r).pct \in Nat
  BY <1>1, <1>2 DEF DebitExit, Tp1Hit
<1>5. EvaluateExits(p, r, today).pct \in Nat
  BY <1>2, <1>3, <1>4 DEF EvaluateExits
<1> QED BY <1>5 DEF Action, r

\* A scale-out closes no more units than there are.
LEMMA ScaleOutBound ==
  ASSUME NEW q \in Nat \ {0}, NEW pct \in Nat
  PROVE  ScaleOut(q, pct) \in Nat /\ ScaleOut(q, pct) <= q
<1>1. CASE pct >= 100
  BY <1>1 DEF ScaleOut
<1>2. CASE pct < 100
  <2> DEFINE m == q * pct
  <2>1. m \in Nat
    OBVIOUS
  <2>2. m <= q * 99
    <3>1. q * pct + q * (99 - pct) = q * 99
      OBVIOUS
    <3>2. q * (99 - pct) \in Nat
      BY <1>2
    <3>3. q * pct \in Nat /\ q * 99 \in Nat
      OBVIOUS
    <3> QED BY <3>1, <3>2, <3>3
  <2> HIDE DEF m
  <2>3. (m + 50) \div 100 \in Nat /\ (m + 50) \div 100 <= q
    BY <2>1, <2>2
  <2> QED BY <1>2, <2>3 DEF ScaleOut, m
<1> QED BY <1>1, <1>2

\* What the exit rules ask to close is a part of the position.
LEMMA UnitsInRange ==
  ASSUME NEW p, IsPos(p), p.trade \in DayTrades, UnitsToClose(p) > 0
  PROVE  UnitsToClose(p) \in 1..p.qty
<1>1. Action(p).pct \in Nat /\ p.qty \in Nat \ {0}
  BY PctTyped DEF IsPos
<1> DEFINE pct == Action(p).pct
           q == p.qty
<1> HIDE DEF pct, q
<1>2. pct \in Nat /\ q \in Nat \ {0}
  BY <1>1 DEF pct, q
<1>3. ScaleOut(q, pct) \in Nat /\ ScaleOut(q, pct) <= q
  BY <1>2, ScaleOutBound
<1>4. UnitsToClose(p) = ScaleOut(q, pct)
  BY DEF UnitsToClose, pct, q
<1> QED BY <1>2, <1>3, <1>4 DEF q

\* An exit fills at a whole number of cents.
LEMMA ExitPriceInt ==
  ASSUME NEW p, IsPos(p), NEW s \in Slips
  PROVE  ExitPrice(p, s) \in Int
<1> DEFINE v == p.value - s
<1>1. v \in Int
  BY BrokerAssumption DEF IsPos
<1> HIDE DEF v
<1>2. Max({0, v}) \in {0, v}
  BY <1>1, MaxTwo
<1>3. Max({0, v}) \in Int
  BY <1>1, <1>2
<1> QED BY <1>1, <1>3 DEF ExitPrice, v

\* The state of a trade after units of it were closed.
Later(st, fee, n, c) == [st EXCEPT !.fees = st.fees + fee, !.exitCash = st.exitCash + c * n, !.closed = st.closed + n]
LaterRight(g, st, fee, n, c) ==
  /\ DOMAIN g = StateFields /\ g.bet = st.bet /\ g.sym = st.sym /\ g.entry = st.entry /\ g.maxQty = st.maxQty
  /\ g.fees = st.fees + fee /\ g.exitCash = st.exitCash + c * n /\ g.closed = st.closed + n
  /\ g.fees \in Int /\ g.exitCash \in Int /\ g.closed \in Nat \ {0}
  /\ Booking(g) = Booking(st) + (c * n - fee)
  /\ g.closed < g.maxQty => IsState(g)
  /\ g.exitCash - g.entry * g.closed = (st.exitCash - st.entry * st.closed) + (c - st.entry) * n

\* What a trade has earned after an exit: the price of the units, less the commission.
LEMMA LaterFacts ==
  ASSUME NEW st, IsState(st), NEW fee \in Int, NEW n \in Nat \ {0}, NEW c \in Int
  PROVE  LaterRight(Later(st, fee, n, c), st, fee, n, c)
<1> DEFINE g == Later(st, fee, n, c)
<1>1. /\ DOMAIN g = StateFields /\ g.bet = st.bet /\ g.sym = st.sym /\ g.entry = st.entry
      /\ g.maxQty = st.maxQty
      /\ g.fees = st.fees + fee /\ g.exitCash = st.exitCash + c * n /\ g.closed = st.closed + n
  BY DEF IsState, StateFields, Later
<1> HIDE DEF g
<1>2. /\ st.fees \in Int /\ st.exitCash \in Int /\ st.closed \in Nat /\ st.entry \in Int /\ st.maxQty \in Int
      /\ c * n \in Int
  BY TimesInt DEF IsState
<1>3. g.fees \in Int /\ g.exitCash \in Int /\ g.closed \in Nat \ {0}
  BY <1>1, <1>2
<1>4. Booking(g) = Booking(st) + (c * n - fee)
  <2> DEFINE b == st.entry * st.maxQty
             u == g.entry * g.maxQty
             m == c * n
  <2>1. b \in Int /\ m \in Int /\ u = b /\ st.exitCash \in Int /\ st.fees \in Int
    BY <1>1, <1>2, TimesInt
  <2>2. /\ Booking(g) = g.exitCash - u - g.fees /\ Booking(st) = st.exitCash - b - st.fees
        /\ g.exitCash = st.exitCash + m /\ g.fees = st.fees + fee
    BY <1>1 DEF Booking
  <2> HIDE DEF b, m, u
  <2>3. Booking(g) = st.exitCash + m - b - (st.fees + fee)
    BY <2>1, <2>2
  <2>4. Booking(g) = Booking(st) + (m - fee)
    BY <1>2, <2>1, <2>2, <2>3
  <2> QED BY <2>4 DEF m
<1>5. g.closed < g.maxQty => IsState(g)
  BY <1>1, <1>3 DEF IsState
<1>6. g.exitCash - g.entry * g.closed = (st.exitCash - st.entry * st.closed) + (c - st.entry) * n
  <2>1. st.entry * (st.closed + n) = st.entry * st.closed + st.entry * n
    BY <1>2
  <2>2. (c - st.entry) * n = c * n - st.entry * n
    BY <1>2
  <2>3. st.entry * st.closed \in Int /\ st.entry * n \in Int /\ c * n \in Int
    BY <1>2, TimesInt
  <2>4. g.entry * g.closed = st.entry * (st.closed + n)
    BY <1>1
  <2> DEFINE x == st.entry * st.closed
             y == st.entry * n
             z == c * n
             u == g.entry * g.closed
             w == (c - st.entry) * n
  <2>5. u = x + y /\ w = z - y /\ g.exitCash = st.exitCash + z /\ x \in Int /\ y \in Int /\ z \in Int
    BY <1>1, <2>1, <2>2, <2>3, <2>4
  <2> HIDE DEF x, y, z, u, w
  <2>6. g.exitCash - u = (st.exitCash - x) + w
    BY <1>2, <2>5
  <2> QED BY <2>6 DEF x, u, w
<1> QED BY <1>1, <1>3, <1>4, <1>5, <1>6 DEF g, LaterRight

\* What cash has seen of a trade that is open and has no settled leg is its booking.
LEMMA EarnedOpen ==
  ASSUME NEW D, NEW i, i \notin DOMAIN D, NEW st, IsState(st)
  PROVE  EarnedOf({}, D, st, i) = Booking(st)
<1>1. Booking(st) \in Int
  BY BookingInt
<1>2. SettlingOf({}, st, i) = 0 /\ ClosingOf(D, st, i) = 0
  BY NothingSettles DEF ClosingOf
<1> QED BY <1>1, <1>2 DEF EarnedOf

\* An exit that is filled takes units off the position and off its trade alike.
LEMMA ExitLedger == LedgerInv /\ ExitFilled => LedgerInv'
<1> SUFFICES ASSUME LedgerInv, ExitFilled PROVE LedgerInv'
  OBVIOUS
<1>1. DayTypes /\ MirrorInv /\ PartInv /\ RealInv /\ CashInv /\ ReserveFollows /\ BookOk
  BY DEF LedgerInv, DayTypes
<1>2. /\ phase = "exits" /\ phase' = "exits" /\ todo # {} /\ todo' = todo \ {Next1}
      /\ today' = today /\ todo \subseteq DOMAIN pos
  BY <1>1 DEF ExitFilled, DayTypes
<1> DEFINE i == Next1
           n == UnitsToClose(pos[Next1])
           fee == Fee(DOMAIN pos[Next1].legs, UnitsToClose(pos[Next1]))
           tp1 == Action(pos[Next1]).reason = "take_profit_1"
<1>3. n > 0 /\ \E s \in Slips : /\ Close(i, n, ExitPrice(pos[i], s), tp1)
                                /\ Booked(i, Later(state[i], fee, n, ExitPrice(pos[i], s)))
  BY DEF ExitFilled, Later
<1>4. i \in todo /\ i \in DOMAIN pos
  BY <1>1, <1>2, LeastId DEF Next1
<1>5. IsPos(pos[i]) /\ pos[i].trade \in DayTrades
  BY <1>1, <1>4 DEF DayTypes, BookOk
<1>6. n \in 1..pos[i].qty /\ n \in Nat \ {0} /\ n \in Int
  <2>1. n \in 1..pos[i].qty
    BY <1>3, <1>5, UnitsInRange
  <2> HIDE DEF n
  <2> QED BY <1>5, <2>1 DEF IsPos
<1>7. fee \in Int
  BY <1>5, <1>6, PosFee
<1>8. PICK c \in Int : Close(i, n, c, tp1) /\ Booked(i, Later(state[i], fee, n, c))
  BY <1>3, <1>5, ExitPriceInt
<1> DEFINE g == Later(state[i], fee, n, c)
<1>9. UNCHANGED <<settled, partials>> /\ fee = Fee(DOMAIN pos[i].legs, n)
  BY <1>8 DEF Close
<1> HIDE DEF i, n, fee, tp1
<1>10. BookOk' /\ Sold(i, n, c, tp1)
  BY <1>1, <1>4, <1>6, <1>8, CloseBook
<1>11. /\ seq' = seq /\ cash' = cash + c * n - fee
       /\ DOMAIN pos' = IF n = pos[i].qty THEN DOMAIN pos \ {i} ELSE DOMAIN pos
       /\ \A j \in DOMAIN pos \ {i} : pos'[j] = pos[j]
       /\ n # pos[i].qty => Shrunk(pos'[i], pos[i], n, c)
  BY <1>9, <1>10 DEF Sold
<1>12. /\ partials = {} /\ partials' = {} /\ settled' = settled
  BY <1>1, <1>2, <1>9 DEF PartInv
<1>13. /\ DOMAIN state = DOMAIN pos /\ \A j \in DOMAIN state : IsState(state[j])
       /\ \A j \in DOMAIN pos : pos[j].qty = state[j].maxQty - state[j].closed /\ pos[j].entry = state[j].entry
       /\ \A j \in DOMAIN pos : j \notin DOMAIN settled
  <2>1. DOMAIN state = DOMAIN pos /\ \A j \in DOMAIN state : Mirrored(j)
    BY <1>1, <1>2 DEF MirrorInv
  <2>2. \A j \in DOMAIN state : IsState(state[j])
    BY <1>1 DEF DayTypes
  <2>3. \A j \in DOMAIN pos : j \notin DOMAIN settled
    BY <1>1 DEF DayTypes
  <2> QED BY <2>1, <2>2, <2>3 DEF Mirrored
<1>14. LaterRight(g, state[i], fee, n, c)
  BY <1>4, <1>6, <1>7, <1>13, LaterFacts
<1> HIDE DEF g
<1>15. ReserveFollows'
  BY <1>1, <1>4, <1>6, <1>8, CloseReserve
<1>16. todo' \subseteq DOMAIN pos'
  BY <1>2, <1>11 DEF i
<1>17. c * n - fee \in Int /\ c * n \in Int
  BY <1>6, <1>7, TimesInt
<1>18. g.closed >= g.maxQty <=> n = pos[i].qty
  <2>1. pos[i].qty = state[i].maxQty - state[i].closed /\ IsState(state[i])
    BY <1>4, <1>13
  <2>2. g.closed = state[i].closed + n /\ g.maxQty = state[i].maxQty
    BY <1>14 DEF LaterRight
  <2>3. state[i].maxQty \in Int /\ state[i].closed \in Int
    BY <2>1 DEF IsState
  <2> QED BY <1>6, <2>1, <2>2, <2>3
<1>19. EarnTyped(partials, settled, state) /\ EarnedOf(partials, settled, state[i], i) = Booking(state[i])
  BY <1>1, <1>4, <1>12, <1>13, EarnedInt, EarnedOpen
<1>20. cash = StartCash + Profit(trades) + Earnings(partials, settled, state)
  BY <1>1, <1>2 DEF CashInv
<1>21. /\ StartCash \in Int /\ Profit(trades) \in Int /\ Earnings(partials, settled, state) \in Int
       /\ Booking(state[i]) \in Int
  BY <1>1, <1>4, <1>13, <1>19, EarningsInt, ProfitInt, BookingInt, BrokerAssumption DEF DayTypes
<1>22. cash' = cash + (c * n - fee)
  BY <1>1, <1>7, <1>11, <1>17 DEF BookOk
<1>23. CASE n = pos[i].qty
  <2>1. trades' = trades \cup {Record(i, g)} /\ state' = Without(state, i)
    BY <1>8, <1>18, <1>23 DEF Booked, g
  <2>2. DOMAIN pos' = DOMAIN pos \ {i} /\ DOMAIN state' = DOMAIN state \ {i}
        /\ \A j \in DOMAIN state' : state'[j] = state[j]
    BY <1>11, <1>23, <2>1 DEF Without
  <2>3. /\ Record(i, g).id = i /\ Record(i, g).pnl = Pnl(g) /\ Pnl(g) = Booking(state[i]) + (c * n - fee)
        /\ Pnl(g) \in Int
    <3>1. Pnl(g) = g.exitCash - g.entry * g.closed - g.fees
      BY <1>14 DEF Pnl, LaterRight
    <3>2. g.closed = g.maxQty
      <4>1. pos[i].qty = state[i].maxQty - state[i].closed /\ IsState(state[i])
        BY <1>4, <1>13
      <4> QED BY <1>14, <1>23, <4>1 DEF LaterRight, IsState
    <3>3. Pnl(g) = Booking(g)
      <4>1. g.entry * g.closed = g.entry * g.maxQty
        BY <3>2
      <4> QED BY <3>1, <4>1 DEF Booking
    <3>4. Pnl(g) = Booking(state[i]) + (c * n - fee)
      BY <1>14, <3>3 DEF LaterRight
    <3> QED BY <1>17, <1>21, <3>4 DEF Record
  <2>4. RecordsOk(trades') /\ Profit(trades') = Profit(trades) + Pnl(g)
    <3> DEFINE x == Record(i, g)
    <3>1. x.id \in Nat /\ x.pnl \in Int /\ RecordsOk(trades) /\ \A r \in trades : r.id # x.id
      <4>1. i \in Nat
        BY <1>1, <1>4, IdsFinite DEF BookOk
      <4>2. \A r \in trades : r.id # i
        BY <1>1, <1>4, <1>13 DEF DayTypes
      <4> QED BY <1>1, <2>3, <4>1, <4>2 DEF DayTypes
    <3>2. x.pnl = Pnl(g) /\ trades' = trades \cup {x}
      BY <2>1, <2>3
    <3> HIDE DEF x
    <3>3. RecordsOk(trades \cup {x}) /\ Profit(trades \cup {x}) = Profit(trades) + x.pnl
      BY <3>1, ProfitOne
    <3> QED BY <3>2, <3>3
  <2>5. DayTypes'
    <3>1. \A j \in DOMAIN pos' : pos'[j].trade \in DayTrades /\ DOMAIN pos'[j].legs # {}
      BY <1>1, <1>11, <2>2 DEF DayTypes
    <3>2. DOMAIN state' \subseteq 1..seq' /\ \A j \in DOMAIN state' : IsState(state'[j])
      BY <1>1, <1>11, <2>2 DEF DayTypes
    <3>3. \A r \in trades' : r.id \in 1..seq' /\ r.id \notin DOMAIN state'
      <4>1. i \in 1..seq
        BY <1>1, <1>4 DEF BookOk
      <4>2. \A r \in trades : r.id \in 1..seq /\ r.id \notin DOMAIN state
        BY <1>1 DEF DayTypes
      <4> QED BY <1>11, <2>1, <2>2, <2>3, <4>1, <4>2
    <3>4. DOMAIN settled' \subseteq 1..seq' /\ \A j \in DOMAIN settled' : settled'[j] \in Int /\ j \notin DOMAIN pos'
      BY <1>1, <1>11, <1>12, <2>2 DEF DayTypes
    <3> QED BY <1>1, <1>2, <1>10, <1>16, <2>4, <3>1, <3>2, <3>3, <3>4 DEF DayTypes
  <2>6. MirrorInv'
    <3>1. \A j \in DOMAIN state' : Mirrored(j)'
      BY <1>11, <1>13, <2>2 DEF Mirrored
    <3> QED BY <1>2, <1>13, <2>2, <3>1 DEF MirrorInv
  <2>7. PartInv'
    BY <1>12 DEF PartInv
  <2>8. RealInv'
    BY <1>1, <1>2, <1>11, <1>12, <1>13, <2>2 DEF RealInv
  <2>9. CashInv'
    <3>1. SameBut(partials, settled, state, partials', settled', state', i)
      BY <1>12, <2>2, ElsewhereSame
    <3>2. Earnings(partials, settled, state) = EarnedOf(partials, settled, state[i], i) + Earnings(partials', settled', state')
      BY <1>4, <1>13, <1>19, <2>2, <3>1, EarnLess
    <3>3. EarnTyped(partials', settled', state')
      BY <2>5, <2>7, EarnedNext
    <3>4. Earnings(partials', settled', state') \in Int
      BY <3>3, EarningsInt
    <3>5. cash' = StartCash + Profit(trades') + Earnings(partials', settled', state')
      BY <1>17, <1>19, <1>20, <1>21, <1>22, <2>3, <2>4, <3>2, <3>4
    <3> QED BY <1>2, <3>5 DEF CashInv
  <2> QED BY <1>15, <2>5, <2>6, <2>7, <2>8, <2>9 DEF LedgerInv
<1>24. CASE n # pos[i].qty
  <2>1. trades' = trades /\ state' = [state EXCEPT ![i] = g]
    BY <1>8, <1>18, <1>24 DEF Booked, g
  <2>2. /\ DOMAIN pos' = DOMAIN pos /\ DOMAIN state' = DOMAIN state /\ state'[i] = g
        /\ \A j \in DOMAIN state \ {i} : state'[j] = state[j]
    BY <1>4, <1>11, <1>13, <1>24, <2>1
  <2>3. IsState(g)
    <3>1. g.maxQty \in Int /\ g.closed \in Int
      <4>1. IsState(state[i])
        BY <1>4, <1>13
      <4> QED BY <1>14, <4>1 DEF LaterRight, IsState
    <3> QED BY <1>14, <1>18, <1>24, <3>1 DEF LaterRight
  <2>4. Shrunk(pos'[i], pos[i], n, c)
    BY <1>11, <1>24
  <2>5. DayTypes'
    <3>1. \A j \in DOMAIN pos' : pos'[j].trade \in DayTrades /\ DOMAIN pos'[j].legs # {}
      BY <1>1, <1>11, <2>2, <2>4 DEF DayTypes, Shrunk
    <3>2. DOMAIN state' \subseteq 1..seq' /\ \A j \in DOMAIN state' : IsState(state'[j])
      BY <1>1, <1>11, <2>2, <2>3 DEF DayTypes
    <3>3. RecordsOk(trades') /\ \A r \in trades' : r.id \in 1..seq' /\ r.id \notin DOMAIN state'
      BY <1>1, <1>11, <2>1, <2>2 DEF DayTypes
    <3>4. DOMAIN settled' \subseteq 1..seq' /\ \A j \in DOMAIN settled' : settled'[j] \in Int /\ j \notin DOMAIN pos'
      BY <1>1, <1>11, <1>12, <2>2 DEF DayTypes
    <3> QED BY <1>1, <1>2, <1>10, <1>16, <3>1, <3>2, <3>3, <3>4 DEF DayTypes
  <2>6. MirrorInv'
    <3>1. pos'[i].qty = g.maxQty - g.closed /\ pos'[i].entry = g.entry
      <4>1. pos[i].qty = state[i].maxQty - state[i].closed /\ pos[i].entry = state[i].entry /\ IsState(state[i])
        BY <1>4, <1>13
      <4> QED BY <1>6, <1>14, <2>4, <4>1 DEF LaterRight, IsState, Shrunk
    <3>2. \A j \in DOMAIN state' : Mirrored(j)'
      BY <1>11, <1>13, <2>2, <3>1 DEF Mirrored
    <3> QED BY <1>2, <1>13, <2>2, <3>2 DEF MirrorInv
  <2>7. PartInv'
    BY <1>12 DEF PartInv
  <2>8. RealInv'
    <3>1. ASSUME NEW j \in DOMAIN pos
          PROVE  pos'[j].realized = state'[j].exitCash + SettlingOf(partials', state'[j], j) - state'[j].entry * state'[j].closed
      <4>1. pos[j].realized = state[j].exitCash + SettlingOf(partials, state[j], j) - state[j].entry * state[j].closed
        BY <1>1, <1>2 DEF RealInv
      <4>2. CASE j # i
        BY <1>11, <1>12, <1>13, <2>2, <4>1, <4>2
      <4>3. CASE j = i
        <5> DEFINE x == state[i].exitCash
                   y == state[i].entry * state[i].closed
                   a == g.exitCash
                   b == g.entry * g.closed
                   d == (c - state[i].entry) * n
        <5>1. IsState(state[i]) /\ pos[i].entry = state[i].entry
          BY <1>4, <1>13
        <5>2. x \in Int /\ y \in Int /\ a \in Int /\ b \in Int /\ d \in Int
          <6>1. IsState(g)
            BY <2>3
          <6> QED BY <1>6, <5>1, <6>1, TimesInt DEF IsState
        <5>3. pos[i].realized = x + 0 - y
          BY <1>12, <4>1, <4>3, NothingSettles
        <5>4. pos'[i].realized = pos[i].realized + d
          BY <2>4, <5>1 DEF Shrunk
        <5>5. a - b = (x - y) + d
          BY <1>14 DEF LaterRight
        <5>6. SettlingOf(partials', g, i) = 0
          BY <1>12, NothingSettles
        <5>7. state'[j] = g /\ j = i
          BY <2>2, <4>3
        <5> HIDE DEF x, y, a, b, d
        <5>8. pos'[i].realized = a + 0 - b
          BY <5>2, <5>3, <5>4, <5>5
        <5> QED BY <5>6, <5>7, <5>8 DEF a, b
      <4> QED BY <4>2, <4>3
    <3> QED BY <2>2, <3>1 DEF RealInv
  <2>9. CashInv'
    <3>1. SameBut(partials, settled, state, partials', settled', state', i)
      BY <1>12, <2>2, ElsewhereSame
    <3>2. EarnedOf(partials', settled', state'[i], i) = EarnedOf(partials, settled, state[i], i) + (c * n - fee)
      <4>1. EarnedOf(partials', settled', g, i) = Booking(g)
        BY <1>4, <1>12, <1>13, <2>3, EarnedOpen
      <4> QED BY <1>14, <1>19, <2>2, <4>1 DEF LaterRight
    <3>3. (DayTypes /\ PartInv)'
      BY <2>5, <2>7
    <3>4. phase # "done" /\ phase' # "done" /\ i \in DOMAIN state
      BY <1>2, <1>4, <1>13
    <3> QED BY <1>17, <1>22, <2>1, <2>2, <3>1, <3>2, <3>3, <3>4, CashOfOne
  <2> QED BY <1>15, <2>5, <2>6, <2>7, <2>8, <2>9 DEF LedgerInv
<1> QED BY <1>23, <1>24

-----------------------------------------------------------------------------
(* Entries.                                                                 *)

\* The base sizes the gate is given.
LEMMA DriverInt ==
  ASSUME BookOk, NEW t \in Offered
  PROVE  DriverBase(t) \in Int
<1>1. Equity \in Int /\ t.maxLoss \in Int /\ t.riskPct \in Int
  BY EquityInt, OfferedOk DEF TradeOk
<1>2. CASE Equity <= 0 \/ t.maxLoss <= 0
  BY <1>2 DEF DriverBase, FixedFractional
<1>3. CASE ~(Equity <= 0 \/ t.maxLoss <= 0)
  <2>1. UnitRisk(t) \in Int /\ UnitRisk(t) > 0
    BY <1>1, <1>3, UnitRiskPos
  <2>2. Equity * t.riskPct \in Int
    BY <1>1, TimesInt
  <2>3. (Equity * t.riskPct) \div UnitRisk(t) \in Int
    BY <2>1, <2>2, DivInt
  <2> QED BY <1>3, <2>3 DEF DriverBase, FixedFractional
<1> QED BY <1>2, <1>3

\* The hedge sleeve's base size is a number.
LEMMA HedgeInt ==
  ASSUME BookOk, NEW t \in Offered, t.maxLoss > 0
  PROVE  HedgeBase(Equity, pos, t) \in Int
<1>1. Equity \in Int /\ HedgePct \in Int /\ HeatPct \in Nat \ {0}
  BY EquityInt, RiskAssumption
<1>2. NetLong(pos) \in Int
  <2> DEFINE drivers == DOMAIN pos \ Hedges(pos)
             long == {i \in drivers : pos[i].trade.dir = "long"}
             short == {i \in drivers : pos[i].trade.dir = "short"}
  <2>1. Deployed(pos, long) \in Int /\ Deployed(pos, short) \in Int
    <3>1. long \subseteq DOMAIN pos /\ short \subseteq DOMAIN pos
      OBVIOUS
    <3> HIDE DEF long, short
    <3> QED BY <3>1, DeployedInt
  <2> QED BY <2>1 DEF NetLong
<1>3. HedgeTarget(Equity, pos) \in Int
  <2> DEFINE a == 100 * NetLong(pos)
             b == HeatPct * Equity
  <2>1. a \in Int /\ b \in Int
    BY <1>1, <1>2, TimesInt
  <2> HIDE DEF a, b
  <2>2. Min({a, b}) \in {a, b}
    BY <2>1, MinTwo
  <2>3. Min({a, b}) \in Int
    BY <2>1, <2>2
  <2>4. HedgePct * Min({a, b}) \in Int
    BY <1>1, <2>3, TimesInt
  <2> QED BY <2>4 DEF HedgeTarget, a, b
<1>4. HedgeGap(Equity, pos) \in Int
  <2>1. Deployed(pos, Hedges(pos)) \in Int
    BY DeployedInt DEF Hedges
  <2>2. 100 * HeatPct * Deployed(pos, Hedges(pos)) \in Int
    BY <1>1, <2>1, TimesInt
  <2> QED BY <1>3, <2>2 DEF HedgeGap
<1>5. HeatPct * UnitRisk(t) \in Int /\ HeatPct * UnitRisk(t) > 0
  BY <1>1, UnitRiskPos
<1> QED BY <1>4, <1>5, DivInt DEF HedgeBase

\* The state of a trade that has just been entered.
NewState(t, f, units) ==
  [bet |-> Bet(t), sym |-> t.sym, entry |-> f, maxQty |-> units,
   fees |-> Fee(DOMAIN t.legs, units), exitCash |-> 0, closed |-> 0]

\* Proposal t was entered for some units at some price.
EnteredAt(t, f, units) ==
  /\ Open(t, f, t.cost, units, today) /\ state' = With(state, seq + 1, NewState(t, f, units))
  /\ t.sym \in chains

\* _enter opens one position for some units at some price, mirrored under its id, or does nothing.
LEMMA EnterCases ==
  ASSUME BookOk, NEW t \in Offered, NEW base, t.maxLoss > 0 => base \in Int, Enter(t, base)
  PROVE  \/ NotEntered
         \/ \E f \in Int, units \in Nat \ {0} : EnteredAt(t, f, units)
<1>1. SUFFICES ASSUME ~NotEntered
               PROVE  \E f \in Int, units \in Nat \ {0} : EnteredAt(t, f, units)
  OBVIOUS
<1> DEFINE units == Allowed(t, base)
<1>2. PICK s \in Slips : /\ units > 0 /\ t.sym \in chains
                         /\ Open(t, t.cost + s, t.cost, units, today)
                         /\ state' = With(state, seq + 1, NewState(t, t.cost + s, units))
  BY <1>1 DEF Enter, NewState
<1>3. units \in Nat \ {0}
  BY <1>2, SizeInt DEF Allowed
<1>4. t.cost + s \in Int
  BY OfferedOk, BrokerAssumption DEF TradeOk
<1> HIDE DEF units
<1>5. EnteredAt(t, t.cost + s, units)
  BY <1>2 DEF EnteredAt
<1> QED BY <1>3, <1>4, <1>5

\* An entry pays for what it opens.
LEMMA EnterLedger ==
  ASSUME LedgerInv, NEW t \in DayTrades, NEW f \in Int, NEW units \in Nat \ {0},
         EnteredAt(t, f, units), trades' = trades, Onward,
         phase \in {"hedge", "entries", "scheduled"}, phase' \in {"plan", "entries", "scheduled"}
  PROVE  LedgerInv'
<1>1. DayTypes /\ MirrorInv /\ PartInv /\ RealInv /\ CashInv /\ ReserveFollows /\ BookOk
  BY DEF LedgerInv, DayTypes
<1> DEFINE i == seq + 1
           new == NewState(t, f, units)
           fee == Fee(DOMAIN t.legs, units)
<1>2. t \in Offered /\ t.cost \in Int /\ fee \in Int /\ t.legs = t.legs /\ DOMAIN t.legs # {}
  <2>1. t \in Offered
    BY DEF Offered, DayTrades
  <2>2. TradeOk(t)
    BY <2>1, OfferedOk
  <2>3. fee \in Int
    BY <2>2, FeeInt DEF TradeOk
  <2>4. DOMAIN t.legs # {}
    BY BacktestAssumption DEF DayTrades
  <2> QED BY <2>1, <2>2, <2>3, <2>4 DEF TradeOk
<1>3. Open(t, f, t.cost, units, today) /\ state' = With(state, i, new)
  BY DEF EnteredAt
<1>4. settled' = settled /\ partials' = partials
  BY <1>3 DEF Open
<1>5. BookOk' /\ Opened(t, f, t.cost, units, today)
  BY <1>1, <1>2, <1>3, OpenBook
<1>6. ReserveFollows'
  BY <1>1, <1>2, <1>3, OpenReserve
<1>7. /\ seq' = i /\ i \notin DOMAIN pos /\ DOMAIN pos' = DOMAIN pos \cup {i}
      /\ \A j \in DOMAIN pos : pos'[j] = pos[j]
      /\ pos'[i].trade = t /\ pos'[i].legs = t.legs /\ pos'[i].qty = units /\ pos'[i].entry = f
      /\ pos'[i].realized = 0
      /\ cash' = cash - f * units - fee
  BY <1>5 DEF Opened
<1>8. partials = {} /\ partials' = {}
  BY <1>1, <1>4 DEF PartInv
<1>9. /\ DOMAIN state = DOMAIN pos /\ \A j \in DOMAIN state : IsState(state[j])
      /\ \A j \in DOMAIN pos : pos[j].qty = state[j].maxQty - state[j].closed /\ pos[j].entry = state[j].entry
  <2>1. DOMAIN state = DOMAIN pos /\ \A j \in DOMAIN state : Mirrored(j)
    BY <1>1 DEF MirrorInv
  <2>2. \A j \in DOMAIN state : IsState(state[j])
    BY <1>1 DEF DayTypes
  <2> QED BY <2>1, <2>2 DEF Mirrored
<1>10. IsState(new) /\ new.entry = f /\ new.maxQty = units /\ new.closed = 0 /\ new.exitCash = 0 /\ new.fees = fee
  BY <1>2 DEF IsState, StateFields, NewState
<1> HIDE DEF new, fee
<1>11. /\ DOMAIN state' = DOMAIN state \cup {i} /\ state'[i] = new
       /\ \A j \in DOMAIN state : state'[j] = state[j]
  BY <1>3, <1>7, <1>9 DEF With
<1>12. seq \in Nat /\ i \notin DOMAIN settled /\ i \notin 1..seq /\ 1..seq \subseteq 1..i /\ i \in 1..i
  <2>1. seq \in Nat /\ DOMAIN settled \subseteq 1..seq
    BY <1>1 DEF DayTypes, BookOk
  <2> QED BY <2>1
<1>13. DayTypes'
  <2>1. \A j \in DOMAIN pos' : pos'[j].trade \in DayTrades /\ DOMAIN pos'[j].legs # {}
    BY <1>1, <1>2, <1>7 DEF DayTypes
  <2>2. DOMAIN state' \subseteq 1..seq' /\ \A j \in DOMAIN state' : IsState(state'[j])
    <3>1. DOMAIN state \subseteq 1..seq
      BY <1>1 DEF DayTypes
    <3> HIDE DEF i
    <3> QED BY <1>7, <1>9, <1>10, <1>11, <1>12, <3>1
  <2>3. DOMAIN settled' \subseteq 1..seq' /\ \A j \in DOMAIN settled' : settled'[j] \in Int /\ j \notin DOMAIN pos'
    <3>1. DOMAIN settled \subseteq 1..seq /\ \A j \in DOMAIN settled : settled[j] \in Int /\ j \notin DOMAIN pos
      BY <1>1 DEF DayTypes
    <3> HIDE DEF i
    <3> QED BY <1>4, <1>7, <1>12, <3>1
  <2>4. RecordsOk(trades') /\ \A r \in trades' : r.id \in 1..seq' /\ r.id \notin DOMAIN state'
    <3>1. RecordsOk(trades) /\ \A r \in trades : r.id \in 1..seq /\ r.id \notin DOMAIN state
      BY <1>1 DEF DayTypes
    <3> HIDE DEF i
    <3> QED BY <1>7, <1>11, <1>12, <3>1
  <2>5. /\ phase' \notin {"market", "exits"}
        /\ today' \in Nat
        /\ phase' = "entries" => offers' \in Seq(Range(Bets))
        /\ phase' = "scheduled" => offers' \in Seq(Range(Scheduled))
    BY DEF Onward
  <2> QED BY <1>5, <2>1, <2>2, <2>3, <2>4, <2>5 DEF DayTypes
<1>14. MirrorInv'
  <2>1. \A j \in DOMAIN state' : Mirrored(j)'
    <3>1. pos'[i].qty = state'[i].maxQty - state'[i].closed /\ pos'[i].entry = state'[i].entry
      BY <1>7, <1>10, <1>11
    <3> HIDE DEF i
    <3> QED BY <1>7, <1>9, <1>11, <3>1 DEF Mirrored
  <2> QED BY <1>7, <1>9, <1>11, <2>1 DEF MirrorInv
<1>15. PartInv'
  BY <1>8 DEF PartInv
<1>16. RealInv'
  <2>1. ASSUME NEW j \in DOMAIN pos'
        PROVE  pos'[j].realized = state'[j].exitCash + SettlingOf(partials', state'[j], j) - state'[j].entry * state'[j].closed
    <3>1. CASE j = i
      <4>1. SettlingOf(partials', state'[j], j) = 0
        BY <1>8, NothingSettles
      <4>2. f * 0 = 0
        OBVIOUS
      <4> QED BY <1>7, <1>10, <1>11, <3>1, <4>1, <4>2
    <3>2. CASE j # i
      <4>1. j \in DOMAIN pos /\ pos'[j] = pos[j] /\ state'[j] = state[j]
        BY <1>7, <1>9, <1>11, <3>2
      <4>2. pos[j].realized = state[j].exitCash + SettlingOf(partials, state[j], j) - state[j].entry * state[j].closed
        BY <1>1, <4>1 DEF RealInv
      <4> QED BY <1>4, <4>1, <4>2
    <3> QED BY <3>1, <3>2
  <2> QED BY <2>1 DEF RealInv
<1>17. CashInv'
  <2>1. EarnTyped(partials', settled', state') /\ EarnTyped(partials, settled, state)
    BY <1>1, <1>13, <1>15, EarnedInt, EarnedNext
  <2>2. SameBut(partials', settled', state', partials, settled, state, i)
    <3>1. \A j \in DOMAIN state' \ {i} : /\ PartsOf(partials, j) = PartsOf(partials', j) /\ state[j] = state'[j]
                                         /\ j \in DOMAIN settled <=> j \in DOMAIN settled'
                                         /\ j \in DOMAIN settled' => settled[j] = settled'[j]
      BY <1>4, <1>11
    <3> QED BY <3>1, ElsewhereSame
  <2>3. i \in DOMAIN state' /\ DOMAIN state = DOMAIN state' \ {i}
    BY <1>7, <1>9, <1>11
  <2>4. Earnings(partials', settled', state') = EarnedOf(partials', settled', state'[i], i) + Earnings(partials, settled, state)
    BY <2>1, <2>2, <2>3, EarnLess
  <2>5. EarnedOf(partials', settled', state'[i], i) = Booking(new)
    BY <1>4, <1>8, <1>10, <1>11, <1>12, EarnedOpen
  <2>6. cash = StartCash + Profit(trades) + Earnings(partials, settled, state)
    BY <1>1 DEF CashInv
  <2> DEFINE m == f * units
  <2>7. /\ Booking(new) = 0 - m - fee /\ cash' = cash - m - fee /\ m \in Int /\ fee \in Int
        /\ StartCash \in Int /\ Profit(trades) \in Int /\ Earnings(partials, settled, state) \in Int
    <3>1. Booking(new) = 0 - m - fee
      BY <1>10 DEF Booking
    <3>2. StartCash \in Int /\ Profit(trades) \in Int /\ Earnings(partials, settled, state) \in Int
      BY <1>1, <2>1, EarningsInt, ProfitInt, BrokerAssumption DEF DayTypes
    <3> QED BY <1>2, <1>7, <3>1, <3>2, TimesInt DEF fee
  <2> HIDE DEF m
  <2>8. cash' = StartCash + Profit(trades') + Earnings(partials', settled', state')
    BY <2>4, <2>5, <2>6, <2>7
  <2> QED BY <2>8 DEF CashInv
<1> QED BY <1>6, <1>13, <1>14, <1>15, <1>16, <1>17 DEF LedgerInv

-----------------------------------------------------------------------------
(* The end of the replay.                                                   *)

\* The record of a trade that is closed as a whole says what its booking says.
LEMMA PnlBooking ==
  ASSUME NEW g, g.closed = g.maxQty, g.closed > 0
  PROVE  Pnl(g) = Booking(g)
<1>1. g.entry * g.closed = g.entry * g.maxQty
  OBVIOUS
<1> QED BY <1>1 DEF Pnl, Booking

\* A trade that is marked out.
OutOf(i) == Later(state[i], Fee(DOMAIN pos[i].legs, pos[i].qty), pos[i].qty, pos[i].value)
MarkedOut(r, i) ==
  /\ r.id = i /\ r.bet = state[i].bet /\ r.pnl \in Int
  /\ r.pnl + Fee(DOMAIN pos[i].legs, pos[i].qty) = Booking(state[i]) + pos[i].value * pos[i].qty
  /\ Fee(DOMAIN pos[i].legs, pos[i].qty) \in Int /\ pos[i].value * pos[i].qty \in Int

\* A record made by _finalize_open says what the trade has earned at its mark, less one commission.
LEMMA MarkOut ==
  ASSUME NEW i, IsPos(pos[i]), IsState(state[i]), pos[i].qty = state[i].maxQty - state[i].closed
  PROVE  MarkedOut(Record(i, OutOf(i)), i)
<1> DEFINE fee == Fee(DOMAIN pos[i].legs, pos[i].qty)
           n == pos[i].qty
           c == pos[i].value
           g == OutOf(i)
<1>1. n \in Nat \ {0} /\ c \in Int /\ n \in Int
  BY DEF IsPos
<1>2. fee \in Int /\ c * n \in Int
  BY <1>1, PosFee, TimesInt
<1>3. g = Later(state[i], fee, n, c)
  BY DEF OutOf
<1> HIDE DEF g, fee, n, c
<1>4. LaterRight(g, state[i], fee, n, c)
  BY <1>1, <1>2, <1>3, LaterFacts
<1>5. g.bet = state[i].bet /\ Booking(g) = Booking(state[i]) + (c * n - fee) /\ g.closed = state[i].closed + n
      /\ g.maxQty = state[i].maxQty
  BY <1>4 DEF LaterRight
<1>6. g.closed = g.maxQty /\ g.closed > 0
  BY <1>1, <1>5 DEF n, IsState
<1>7. Pnl(g) = Booking(g)
  BY <1>6, PnlBooking
<1> DEFINE m == c * n
<1>8. Booking(state[i]) \in Int /\ m \in Int /\ fee \in Int /\ Pnl(g) = Booking(state[i]) + (m - fee)
  BY <1>2, <1>5, <1>7, BookingInt
<1> HIDE DEF m
<1>9. Pnl(g) \in Int /\ Pnl(g) + fee = Booking(state[i]) + m
  BY <1>8
<1>10. Record(i, g).id = i /\ Record(i, g).bet = state[i].bet /\ Record(i, g).pnl = Pnl(g)
  BY <1>5 DEF Record
<1> QED BY <1>2, <1>9, <1>10 DEF MarkedOut, g, fee, n, c, m

\* At the end every open trade is marked out in the records, and cash stays as it is.
LEMMA FinalizeLedger == LedgerInv /\ Finalize => LedgerInv'
<1> SUFFICES ASSUME LedgerInv, Finalize PROVE LedgerInv'
  OBVIOUS
<1>1. DayTypes /\ MirrorInv /\ PartInv /\ RealInv /\ CashInv /\ ReserveFollows /\ BookOk
  BY DEF LedgerInv, DayTypes
<1> DEFINE O == DOMAIN pos
           new == [i \in O |-> Record(i, OutOf(i))]
<1>2. /\ phase = "idle" /\ phase' = "done"
      /\ trades' = trades \cup {Record(i, OutOf(i)) : i \in DOMAIN pos \cap DOMAIN state}
      /\ state' = [i \in DOMAIN state \ (DOMAIN pos \cap DOMAIN state) |-> state[i]]
      /\ pos' = pos /\ cash' = cash /\ seq' = seq /\ reserved' = reserved /\ settled' = settled
      /\ partials' = partials /\ today' = today
  BY DEF Finalize, OutOf, Later, brokerVars
<1>3. /\ DOMAIN state = O
      /\ \A i \in O : IsPos(pos[i]) /\ IsState(state[i]) /\ pos[i].qty = state[i].maxQty - state[i].closed
  <2>1. DOMAIN state = O /\ \A i \in DOMAIN state : Mirrored(i)
    BY <1>1, <1>2 DEF MirrorInv
  <2>2. \A i \in O : IsPos(pos[i])
    BY <1>1 DEF BookOk
  <2>3. \A i \in DOMAIN state : IsState(state[i])
    BY <1>1 DEF DayTypes
  <2> QED BY <2>1, <2>2, <2>3 DEF Mirrored
<1>4. partials = {}
  BY <1>1, <1>2 DEF PartInv
<1>5. \A i \in O : MarkedOut(new[i], i)
  <2> SUFFICES ASSUME NEW i \in O PROVE MarkedOut(new[i], i)
    OBVIOUS
  <2>1. new[i] = Record(i, OutOf(i))
    OBVIOUS
  <2> HIDE DEF new, O
  <2>2. MarkedOut(Record(i, OutOf(i)), i)
    BY <1>3, MarkOut
  <2> QED BY <2>1, <2>2
<1>6. trades' = trades \cup {new[i] : i \in O}
  <2>1. DOMAIN pos \cap DOMAIN state = O
    BY <1>3
  <2>2. {Record(i, OutOf(i)) : i \in O} = {new[i] : i \in O}
    OBVIOUS
  <2> HIDE DEF new, O
  <2> QED BY <1>2, <2>1, <2>2
<1>7. state' = [i \in {} |-> 0]
  <2>1. DOMAIN state \ (DOMAIN pos \cap DOMAIN state) = {}
    BY <1>3
  <2> QED BY <1>2, <2>1
<1> HIDE DEF new
<1>8. Fresh1(trades, O, new)
  <2>1. IsFiniteSet(O) /\ O \subseteq Nat
    BY <1>1, IdsFinite DEF BookOk
  <2>2. \A r \in trades : r.id \notin O
    BY <1>1, <1>3 DEF DayTypes
  <2> QED BY <1>5, <2>1, <2>2 DEF Fresh1, MarkedOut
<1>9. RecordsOk(trades') /\ Profit(trades') = Profit(trades) + SumFunction([i \in O |-> new[i].pnl])
  <2>1. RecordsOk(trades)
    BY <1>1 DEF DayTypes
  <2> QED BY <1>6, <1>8, <2>1, ProfitMore
<1>10. DayTypes'
  <2>1. BookOk'
    BY <1>1, <1>2 DEF BookOk
  <2>2. \A i \in DOMAIN pos' : pos'[i].trade \in DayTrades /\ DOMAIN pos'[i].legs # {}
    BY <1>1, <1>2 DEF DayTypes
  <2>3. DOMAIN settled' \subseteq 1..seq' /\ \A i \in DOMAIN settled' : settled'[i] \in Int /\ i \notin DOMAIN pos'
    BY <1>1, <1>2 DEF DayTypes
  <2>4. \A r \in trades' : r.id \in 1..seq'
    <3>1. \A r \in trades : r.id \in 1..seq
      BY <1>1 DEF DayTypes
    <3>2. \A i \in O : new[i].id \in 1..seq
      BY <1>1, <1>5 DEF BookOk, MarkedOut
    <3> QED BY <1>2, <1>6, <3>1, <3>2
  <2>5. DOMAIN state' = {}
    BY <1>7
  <2>6. today' \in Nat
    BY <1>1, <1>2 DEF DayTypes
  <2> QED BY <1>2, <1>9, <2>1, <2>2, <2>3, <2>4, <2>5, <2>6 DEF DayTypes
<1>11. MirrorInv' /\ PartInv' /\ RealInv' /\ ReserveFollows'
  <2>1. partials' = {} /\ phase' = "done" /\ state' = [i \in {} |-> 0]
    BY <1>2, <1>4, <1>7
  <2>2. MirrorInv'
    BY <2>1 DEF MirrorInv
  <2>3. PartInv' /\ RealInv'
    BY <2>1 DEF PartInv, RealInv
  <2>4. ReserveFollows'
    BY <1>1, <1>2 DEF ReserveFollows
  <2> QED BY <2>2, <2>3, <2>4
<1>12. CashInv'
  <2> DEFINE f == [i \in O |-> Booking(state[i])]
             w == [i \in O |-> pos[i].value * pos[i].qty]
             k == [i \in O |-> new[i].pnl]
             o == [i \in O |-> Fee(DOMAIN pos[i].legs, pos[i].qty)]
             s1 == [i \in O |-> f[i] + w[i]]
             s2 == [i \in O |-> k[i] + o[i]]
  <2>1. f \in [O -> Int] /\ w \in [O -> Int] /\ k \in [O -> Int] /\ o \in [O -> Int]
    <3>1. \A i \in O : /\ new[i].pnl \in Int /\ Fee(DOMAIN pos[i].legs, pos[i].qty) \in Int
                       /\ pos[i].value * pos[i].qty \in Int
      BY <1>5 DEF MarkedOut
    <3>2. \A i \in O : Booking(state[i]) \in Int
      BY <1>3, BookingInt
    <3> QED BY <3>1, <3>2
  <2>2. \A i \in O : f[i] + w[i] = k[i] + o[i]
    BY <1>5 DEF MarkedOut
  <2>3. s1 = s2
    BY <2>2
  <2>4. IsFiniteSet(O)
    BY <1>8 DEF Fresh1
  <2>5. Earnings(partials, settled, state) = SumFunction(f)
    <3>1. \A i \in O : EarnedOf(partials, settled, state[i], i) = Booking(state[i])
      <4>1. \A i \in O : i \notin DOMAIN settled
        BY <1>1 DEF DayTypes
      <4> QED BY <1>3, <1>4, <4>1, EarnedOpen
    <3>2. [i \in DOMAIN state |-> EarnedOf(partials, settled, state[i], i)] = f
      BY <1>3, <3>1
    <3> HIDE DEF f
    <3> QED BY <3>2 DEF Earnings
  <2>6. Worth(pos) = SumFunction(w) /\ OutFees(pos) = SumFunction(o) /\ Profit(trades') = Profit(trades) + SumFunction(k)
    BY <1>9 DEF Worth, OutFees
  <2> HIDE DEF f, w, k, o
  <2>7. SumFunction(s1) = SumFunction(f) + SumFunction(w) /\ SumFunction(s2) = SumFunction(k) + SumFunction(o)
    <3> HIDE DEF O
    <3>1. SumFunction(s1) = SumFunction(f) + SumFunction(w)
      BY <2>1, <2>4, SumAdd
    <3>2. SumFunction(s2) = SumFunction(k) + SumFunction(o)
      BY <2>1, <2>4, SumAdd
    <3> QED BY <3>1, <3>2
  <2> HIDE DEF s1, s2
  <2>8. /\ SumFunction(f) \in Int /\ SumFunction(w) \in Int /\ SumFunction(k) \in Int /\ SumFunction(o) \in Int
        /\ Profit(trades) \in Int /\ StartCash \in Int
    <3>1. \A g \in [O -> Int] : SumFunction(g) \in Int
      BY <2>4, SumInt
    <3> QED BY <1>1, <2>1, <3>1, ProfitInt, BrokerAssumption DEF DayTypes
  <2>9. cash = StartCash + Profit(trades) + SumFunction(f)
    BY <1>1, <1>2, <2>5 DEF CashInv
  <2>10. cash + Worth(pos) = StartCash + Profit(trades') + OutFees(pos)
    BY <2>3, <2>6, <2>7, <2>8, <2>9
  <2>11. Equity' = StartCash + Profit(trades') + OutFees(pos')
    BY <1>2, <2>10 DEF Equity
  <2> QED BY <1>2, <2>11 DEF CashInv
<1> QED BY <1>10, <1>11, <1>12 DEF LedgerInv

-----------------------------------------------------------------------------
(* Every step of the daily engine keeps the ledger.                         *)

\* The entry loops go through their proposals in order.
LEMMA OnwardOffers == Bets \in Seq(Range(Bets)) /\ Scheduled \in Seq(Range(Scheduled))
BY BacktestAssumption

\* The start of a session keeps the ledger.
LEMMA BeginLedger == LedgerInv /\ BeginSession => LedgerInv'
<1> SUFFICES ASSUME LedgerInv, BeginSession PROVE LedgerInv'
  OBVIOUS
<1>1. Quiet
  BY SameQuiet DEF LedgerInv, BeginSession
<1>2. Onward
  BY DEF LedgerInv, DayTypes, BeginSession, Onward
<1> QED BY <1>1, <1>2, QuietLedger

\* Marks and payments are whole cents.
LEMMA MarksInt ==
  ASSUME NEW p, IsPos(p), p.trade \in DayTrades, NEW S, S \subseteq DOMAIN p.legs, S # {}
  PROVE  p.trade.marks[S] \subseteq Int /\ p.trade.pays[S] \subseteq Int
<1>1. S \in (SUBSET DOMAIN p.trade.legs) \ {{}}
  BY DEF IsPos
<1>2. \A X \in (SUBSET DOMAIN p.trade.legs) \ {{}} : (p.trade.marks[X] \cup p.trade.pays[X]) \subseteq Int
  BY BacktestAssumption DEF DayTrades
<1>3. (p.trade.marks[S] \cup p.trade.pays[S]) \subseteq Int
  BY <1>1, <1>2
<1> QED BY <1>3

\* The market update keeps the ledger, whether the position is marked, settles or settles in part.
LEMMA RefreshLedger == LedgerInv /\ Refresh => LedgerInv'
<1> SUFFICES ASSUME LedgerInv, Refresh PROVE LedgerInv'
  OBVIOUS
<1>1. DayTypes /\ BookOk /\ todo \subseteq DOMAIN pos /\ todo # {} /\ phase = "market"
  BY DEF LedgerInv, DayTypes, Refresh
<1> DEFINE i == Next1
           p == pos[i]
           gone == Expired(p, today)
<1>2. /\ phase' = phase /\ today' = today /\ todo' = todo \ {i} /\ state' = state /\ trades' = trades
      /\ offers' = offers
  BY DEF Refresh
<1>3. i \in todo /\ i \in DOMAIN pos
  BY <1>1, LeastId DEF Next1
<1>4. IsPos(p) /\ p.trade \in DayTrades /\ DOMAIN p.legs # {} /\ p.value \in Int /\ gone \subseteq DOMAIN p.legs
  BY <1>1, <1>3 DEF DayTypes, BookOk, IsPos, Expired
<1>5. Onward
  BY <1>1, <1>2 DEF LedgerInv, DayTypes, Onward
<1>6. \/ gone = {} /\ \E v \in p.trade.marks[DOMAIN p.legs] : Mark(i, v)
      \/ UNCHANGED brokerVars
      \/ gone # {} /\ gone = DOMAIN p.legs /\ \E v \in p.trade.pays[gone] \cup {p.value} : SettleWhole(i, v)
      \/ gone # {} /\ gone # DOMAIN p.legs /\ \E v \in p.trade.pays[gone] :
           \/ \E w \in p.trade.marks[DOMAIN p.legs \ gone] : SettlePart(i, v, gone, w)
           \/ SettlePart(i, v, gone, p.value)
  BY DEF Refresh
<1> HIDE DEF i, gone
<1>7. CASE gone = {} /\ \E v \in p.trade.marks[DOMAIN p.legs] : Mark(i, v)
  <2>1. PICK v \in Int : Mark(i, v)
    BY <1>4, <1>7, MarksInt
  <2>2. Quiet
    BY <1>1, <1>2, <1>3, <2>1, MarkQuiet
  <2> QED BY <1>5, <2>2, QuietLedger
<1>8. CASE UNCHANGED brokerVars
  <2>1. Quiet
    BY <1>1, <1>2, <1>8, SameQuiet DEF brokerVars
  <2> QED BY <1>5, <2>1, QuietLedger
<1>9. CASE gone # {} /\ gone = DOMAIN p.legs /\ \E v \in p.trade.pays[gone] \cup {p.value} : SettleWhole(i, v)
  <2>1. p.trade.pays[gone] \subseteq Int
    BY <1>4, <1>9, MarksInt
  <2>2. PICK v \in Int : SettleWhole(i, v)
    BY <1>4, <1>9, <2>1
  <2> QED BY <1>1, <1>2, <1>3, <2>2, SettleWholeLedger
<1>10. CASE gone # {} /\ gone # DOMAIN p.legs /\ \E v \in p.trade.pays[gone] :
              \/ \E w \in p.trade.marks[DOMAIN p.legs \ gone] : SettlePart(i, v, gone, w)
              \/ SettlePart(i, v, gone, p.value)
  <2>1. p.trade.pays[gone] \subseteq Int
    BY <1>4, <1>10, MarksInt
  <2>2. p.trade.marks[DOMAIN p.legs \ gone] \subseteq Int
    <3>1. DOMAIN p.legs \ gone # {} /\ DOMAIN p.legs \ gone \subseteq DOMAIN p.legs
      BY <1>4, <1>10
    <3> QED BY <1>4, <3>1, MarksInt
  <2>3. PICK v \in Int, w \in Int : SettlePart(i, v, gone, w)
    BY <1>4, <1>10, <2>1, <2>2
  <2>4. gone \subseteq DOMAIN pos[i].legs /\ gone # DOMAIN pos[i].legs
    BY <1>4, <1>10
  <2> QED BY <1>1, <1>2, <1>3, <2>3, <2>4, SettlePartLedger
<1> QED BY <1>6, <1>7, <1>8, <1>9, <1>10

\* Steps that only move the loop on.
LEMMA LoopLedger ==
  LedgerInv /\ (KeepPosition \/ ExitRejected \/ ExitsDone \/ BeginEntries \/ BeginScheduled \/ EndSession) => LedgerInv'
<1> SUFFICES ASSUME LedgerInv,
                    KeepPosition \/ ExitRejected \/ ExitsDone \/ BeginEntries \/ BeginScheduled \/ EndSession
             PROVE  LedgerInv'
  OBVIOUS
<1>1. UNCHANGED <<cash, pos, reserved, settled, partials, seq, state, trades>> /\ today' = today
  BY DEF KeepPosition, ExitRejected, ExitsDone, BeginEntries, BeginScheduled, EndSession, brokerVars
<1>2. DayTypes
  BY DEF LedgerInv
<1>3. Quiet
  BY <1>1, <1>2, SameQuiet
<1>4. Onward
  <2>1. CASE KeepPosition \/ ExitRejected
    BY <1>1, <1>2, <2>1 DEF KeepPosition, ExitRejected, Onward, DayTypes
  <2>2. CASE ExitsDone \/ EndSession
    BY <1>1, <1>2, <2>2 DEF ExitsDone, EndSession, Onward, DayTypes
  <2>3. CASE BeginEntries \/ BeginScheduled
    BY <1>1, <1>2, <2>3, OnwardOffers DEF BeginEntries, BeginScheduled, Onward, DayTypes
  <2> QED BY <2>1, <2>2, <2>3
<1> QED BY <1>3, <1>4, QuietLedger

\* What an entry step may be: nothing, or one proposal filled under the next id.
Filled == \E t \in DayTrades, f \in Int, units \in Nat \ {0} : EnteredAt(t, f, units)

\* What the daily engine trades is a proposal the broker knows.
LEMMA DayOffered == DayTrades \subseteq Offered
BY DEF DayTrades, Offered

\* _process_hedge enters a put or does nothing.
LEMMA HedgeCases == LedgerInv /\ HedgeStep => NotEntered \/ \E t \in Puts, f \in Int, units \in Nat \ {0} : EnteredAt(t, f, units)
<1> SUFFICES ASSUME LedgerInv, HedgeStep, ~NotEntered
             PROVE  \E t \in Puts, f \in Int, units \in Nat \ {0} : EnteredAt(t, f, units)
  OBVIOUS
<1>1. PICK t \in Puts : Enter(t, HedgeBase(Equity, pos, t))
  BY DEF HedgeStep
<1>2. BookOk /\ t \in Offered
  BY DEF LedgerInv, DayTypes, Offered
<1>3. t.maxLoss > 0 => HedgeBase(Equity, pos, t) \in Int
  BY <1>2, HedgeInt
<1> DEFINE base == HedgeBase(Equity, pos, t)
<1> HIDE DEF base
<1>4. \E f \in Int, units \in Nat \ {0} : EnteredAt(t, f, units)
  BY <1>1, <1>2, <1>3, EnterCases DEF base
<1> QED BY <1>4

\* The bet a loop looks at is the next of its offers.
LEMMA HeadOffer ==
  ASSUME NEW T, NEW o \in Seq(T), o # <<>>
  PROVE  Head(o) \in T /\ Tail(o) \in Seq(T)
OBVIOUS

\* _process_entries enters a bet its sets do not know, and adds it to them, or goes on.
LEMMA BetCases ==
  LedgerInv /\ EnterBet =>
    \/ NotEntered /\ UNCHANGED <<already, taken>>
    \/ LET t == Head(offers) IN
       /\ t \in Range(Bets) /\ Bet(t) \notin already /\ <<t.engine, t.sym>> \notin taken
       /\ NotEntered \/ \E f \in Int, units \in Nat \ {0} : EnteredAt(t, f, units)
       /\ already' = already \cup {Bet(t)} /\ taken' = taken \cup {<<t.engine, t.sym>>}
<1> SUFFICES ASSUME LedgerInv, EnterBet, ~(NotEntered /\ UNCHANGED <<already, taken>>)
             PROVE  LET t == Head(offers) IN
                    /\ t \in Range(Bets) /\ Bet(t) \notin already /\ <<t.engine, t.sym>> \notin taken
                    /\ NotEntered \/ \E f \in Int, units \in Nat \ {0} : EnteredAt(t, f, units)
                    /\ already' = already \cup {Bet(t)} /\ taken' = taken \cup {<<t.engine, t.sym>>}
  OBVIOUS
<1> DEFINE t == Head(offers)
<1>1. /\ Bet(t) \notin already /\ <<t.engine, t.sym>> \notin taken /\ Enter(t, DriverBase(t))
      /\ already' = already \cup {Bet(t)} /\ taken' = taken \cup {<<t.engine, t.sym>>}
  BY DEF EnterBet
<1>2. t \in Range(Bets) /\ BookOk
  <2>1. offers \in Seq(Range(Bets)) /\ offers # <<>>
    BY DEF LedgerInv, DayTypes, EnterBet
  <2> QED BY <2>1, HeadOffer DEF LedgerInv, DayTypes
<1>3. t \in Offered
  BY <1>2 DEF Offered
<1> HIDE DEF t
<1>4. DriverBase(t) \in Int
  BY <1>2, <1>3, DriverInt
<1>5. NotEntered \/ \E f \in Int, units \in Nat \ {0} : EnteredAt(t, f, units)
  BY <1>1, <1>2, <1>3, <1>4, EnterCases
<1> QED BY <1>1, <1>2, <1>5 DEF t

\* _process_scheduled_entries enters a scheduled proposal or goes on.
LEMMA ScheduledCases ==
  LedgerInv /\ EnterScheduled =>
    NotEntered \/ \E t \in Range(Scheduled), f \in Int, units \in Nat \ {0} : EnteredAt(t, f, units)
<1> SUFFICES ASSUME LedgerInv, EnterScheduled, ~NotEntered
             PROVE  \E t \in Range(Scheduled), f \in Int, units \in Nat \ {0} : EnteredAt(t, f, units)
  OBVIOUS
<1> DEFINE t == Head(offers)
<1>1. Enter(t, DriverBase(t))
  BY DEF EnterScheduled
<1>2. t \in Range(Scheduled) /\ BookOk
  <2>1. offers \in Seq(Range(Scheduled)) /\ offers # <<>>
    BY DEF LedgerInv, DayTypes, EnterScheduled
  <2> QED BY <2>1, HeadOffer DEF LedgerInv, DayTypes
<1>3. t \in Offered
  BY <1>2 DEF Offered
<1> HIDE DEF t
<1>4. DriverBase(t) \in Int
  BY <1>2, <1>3, DriverInt
<1>5. \E f \in Int, units \in Nat \ {0} : EnteredAt(t, f, units)
  BY <1>1, <1>2, <1>3, <1>4, EnterCases
<1> QED BY <1>2, <1>5

\* What the three entry steps do to the ledger.
LEMMA EntryLedger == LedgerInv /\ (HedgeStep \/ EnterBet \/ EnterScheduled) => LedgerInv' /\ (NotEntered \/ Filled)
<1> SUFFICES ASSUME LedgerInv, HedgeStep \/ EnterBet \/ EnterScheduled PROVE LedgerInv' /\ (NotEntered \/ Filled)
  OBVIOUS
<1>1. /\ trades' = trades /\ today' = today /\ phase \in {"hedge", "entries", "scheduled"}
      /\ phase' \in {"plan", "entries", "scheduled"}
  BY DEF HedgeStep, EnterBet, EnterScheduled
<1>2. Onward
  <2>1. DayTypes
    BY DEF LedgerInv
  <2>2. CASE HedgeStep
    BY <2>1, <2>2 DEF HedgeStep, Onward, DayTypes
  <2>3. CASE EnterBet
    <3>1. offers' \in Seq(Range(Bets))
      <4>1. offers \in Seq(Range(Bets)) /\ offers # <<>>
        BY <2>1, <2>3 DEF DayTypes, EnterBet
      <4> QED BY <2>3, <4>1, HeadOffer DEF EnterBet
    <3> QED BY <2>1, <2>3, <3>1 DEF EnterBet, Onward, DayTypes
  <2>4. CASE EnterScheduled
    <3>1. offers' \in Seq(Range(Scheduled))
      <4>1. offers \in Seq(Range(Scheduled)) /\ offers # <<>>
        BY <2>1, <2>4 DEF DayTypes, EnterScheduled
      <4> QED BY <2>4, <4>1, HeadOffer DEF EnterScheduled
    <3> QED BY <2>1, <2>4, <3>1 DEF EnterScheduled, Onward, DayTypes
  <2> QED BY <2>2, <2>3, <2>4
<1>3. NotEntered \/ Filled
  BY HedgeCases, BetCases, ScheduledCases DEF Filled, DayTrades
<1>4. CASE NotEntered
  <2>1. Quiet
    BY <1>1, <1>4, SameQuiet DEF LedgerInv, NotEntered, brokerVars
  <2> QED BY <1>2, <1>4, <2>1, QuietLedger
<1>5. CASE Filled
  <2>1. PICK t \in DayTrades, f \in Int, units \in Nat \ {0} : EnteredAt(t, f, units)
    BY <1>5 DEF Filled
  <2> QED BY <1>1, <1>2, <1>5, <2>1, EnterLedger
<1> QED BY <1>3, <1>4, <1>5

\* The ledger is kept by every step of the daily engine.
LEMMA LedgerNext == LedgerInv /\ DailyNext => LedgerInv'
<1> SUFFICES ASSUME LedgerInv, DailyNext PROVE LedgerInv'
  OBVIOUS
<1>1. CASE Finished
  BY <1>1 DEF Finished, dailyVars, brokerVars, loopVars, LedgerInv, DayTypes, BookOk, MirrorInv, Mirrored,
              PartInv, RealInv, CashInv, Equity, ReserveFollows
<1> QED BY <1>1, BeginLedger, RefreshLedger, SweepLedger, LoopLedger, ExitLedger, EntryLedger, FinalizeLedger DEF DailyNext

-----------------------------------------------------------------------------
(* Bets.                                                                    *)

\* The trades in M go from the mirror to the records; the others stay.
Moved(M) ==
  /\ M \subseteq DOMAIN state /\ DOMAIN state' \subseteq DOMAIN state \ M
  /\ \A i \in DOMAIN state' : state'[i].bet = state[i].bet /\ state'[i].sym = state[i].sym
  /\ \A r \in trades' : r \in trades \/ \E i \in M : r.id = i /\ r.bet = state[i].bet

\* Trades that move from the mirror to the records keep their bets: nothing is entered twice.
LEMMA BetMoved ==
  ASSUME BetInv, NEW M, Moved(M), RecordsOk(trades'), phase' # "entries"
  PROVE  BetInv'
<1>0. /\ M \subseteq DOMAIN state /\ DOMAIN state' \subseteq DOMAIN state /\ \A i \in DOMAIN state' : i \notin M
      /\ \A i \in DOMAIN state' : state'[i].bet = state[i].bet /\ state'[i].sym = state[i].sym
      /\ \A r \in trades' : r \in trades \/ \E i \in M : r.id = i /\ r.bet = state[i].bet
  BY DEF Moved
<1>1. /\ \A i, j \in DOMAIN state : state[i].bet = state[j].bet /\ state[i].bet \in CatalystBets => i = j
      /\ \A r, q \in trades : r.bet = q.bet /\ r.bet \in CatalystBets => r = q
      /\ \A i \in DOMAIN state, r \in trades : state[i].bet = r.bet => r.bet \notin CatalystBets
      /\ OnePerSymbol
  BY DEF BetInv
<1>2. \A i, j \in DOMAIN state' : state'[i].bet = state'[j].bet /\ state'[i].bet \in CatalystBets => i = j
  BY <1>0, <1>1
<1>3. \A r, q \in trades' : r.bet = q.bet /\ r.bet \in CatalystBets => r = q
  <2> SUFFICES ASSUME NEW r \in trades', NEW q \in trades', r.bet = q.bet, r.bet \in CatalystBets PROVE r = q
    OBVIOUS
  <2>1. CASE r \in trades /\ q \in trades
    BY <1>1, <2>1
  <2>2. CASE r \in trades /\ q \notin trades
    BY <1>0, <1>1, <2>2
  <2>3. CASE r \notin trades /\ q \in trades
    BY <1>0, <1>1, <2>3
  <2>4. CASE r \notin trades /\ q \notin trades
    <3>1. PICK i \in M : r.id = i /\ r.bet = state[i].bet
      BY <1>0, <2>4
    <3>2. PICK j \in M : q.id = j /\ q.bet = state[j].bet
      BY <1>0, <2>4
    <3>3. i \in DOMAIN state /\ j \in DOMAIN state
      BY <1>0
    <3>4. state[i].bet = state[j].bet /\ state[i].bet \in CatalystBets
      BY <3>1, <3>2
    <3>5. i = j
      BY <1>1, <3>3, <3>4
    <3>6. \A x, y \in trades' : x.id = y.id => x = y
      BY DEF RecordsOk
    <3> QED BY <3>1, <3>2, <3>5, <3>6
  <2> QED BY <2>1, <2>2, <2>3, <2>4
<1>4. \A i \in DOMAIN state', r \in trades' : state'[i].bet = r.bet => r.bet \notin CatalystBets
  <2> SUFFICES ASSUME NEW i \in DOMAIN state', NEW r \in trades', state'[i].bet = r.bet PROVE r.bet \notin CatalystBets
    OBVIOUS
  <2>1. CASE r \in trades
    BY <1>0, <1>1, <2>1
  <2>2. CASE r \notin trades
    <3>1. PICK j \in M : r.bet = state[j].bet
      BY <1>0, <2>2
    <3> QED BY <1>0, <1>1, <3>1
  <2> QED BY <2>1, <2>2
<1>5. OnePerSymbol'
  BY <1>0, <1>1 DEF OnePerSymbol
<1> QED BY <1>2, <1>3, <1>4, <1>5 DEF BetInv

\* Nothing is moved or entered.
LEMMA BetSame ==
  ASSUME BetInv, state' = state, trades' = trades,
         phase' # "entries" \/ (phase = "entries" /\ already \subseteq already' /\ taken \subseteq taken')
  PROVE  BetInv'
<1>1. OnePerSymbol'
  BY DEF BetInv, OnePerSymbol
<1>2. Already' = Already
  BY DEF Already, Open1
<1> QED BY <1>1, <1>2 DEF BetInv

\* A bet that is new, or no catalyst's, is entered.
LEMMA BetEntered ==
  ASSUME BetInv, trades' = trades, NEW i, i \notin DOMAIN state, NEW new, state' = With(state, i, new),
         \/ new.bet \notin CatalystBets
         \/ new.bet \notin Already /\ \A j \in DOMAIN state : state[j].bet[1] # new.bet[1] \/ state[j].sym # new.sym,
         \/ phase' # "entries"
         \/ /\ phase = "entries" /\ already' = already \cup {new.bet} /\ taken' = taken \cup {<<new.bet[1], new.sym>>}
  PROVE  BetInv'
<1>1. DOMAIN state' = DOMAIN state \cup {i} /\ state'[i] = new /\ \A j \in DOMAIN state : state'[j] = state[j]
  BY DEF With
<1>2. /\ \A j, k \in DOMAIN state : state[j].bet = state[k].bet /\ state[j].bet \in CatalystBets => j = k
      /\ \A r, q \in trades : r.bet = q.bet /\ r.bet \in CatalystBets => r = q
      /\ \A j \in DOMAIN state, r \in trades : state[j].bet = r.bet => r.bet \notin CatalystBets
      /\ OnePerSymbol
  BY DEF BetInv
<1>3. new.bet \in CatalystBets => /\ \A j \in DOMAIN state : state[j].bet # new.bet
                                  /\ \A r \in trades : r.bet # new.bet
                                  /\ \A j \in DOMAIN state : state[j].bet[1] # new.bet[1] \/ state[j].sym # new.sym
  BY DEF Already, Open1
<1>4. \A j, k \in DOMAIN state' : state'[j].bet = state'[k].bet /\ state'[j].bet \in CatalystBets => j = k
  BY <1>1, <1>2, <1>3
<1>5. \A j \in DOMAIN state', r \in trades' : state'[j].bet = r.bet => r.bet \notin CatalystBets
  BY <1>1, <1>2, <1>3
<1>6. OnePerSymbol'
  BY <1>1, <1>2, <1>3 DEF OnePerSymbol
<1>7. phase' = "entries" => /\ Already' \subseteq already'
                            /\ \A j \in DOMAIN state' : <<state'[j].bet[1], state'[j].sym>> \in taken'
  <2> SUFFICES ASSUME phase' = "entries"
               PROVE  /\ Already' \subseteq already'
                      /\ \A j \in DOMAIN state' : <<state'[j].bet[1], state'[j].sym>> \in taken'
    OBVIOUS
  <2>1. /\ phase = "entries" /\ already' = already \cup {new.bet}
        /\ taken' = taken \cup {<<new.bet[1], new.sym>>}
    OBVIOUS
  <2>2. Already \subseteq already /\ \A j \in DOMAIN state : <<state[j].bet[1], state[j].sym>> \in taken
    BY <2>1 DEF BetInv
  <2>3. Already' \subseteq Already \cup {new.bet}
    BY <1>1 DEF Already, Open1
  <2> QED BY <1>1, <2>1, <2>2, <2>3
<1> QED BY <1>2, <1>4, <1>5, <1>6, <1>7 DEF BetInv

\* Puts and scheduled trades are no catalyst's bets.
LEMMA NotCatalyst ==
  ASSUME NEW t \in Range(Scheduled) \cup Puts
  PROVE  Bet(t) \notin CatalystBets
BY BacktestAssumption DEF CatalystBets

\* The mirror of an entered trade carries its bet and symbol.
LEMMA NewStateBet ==
  \A t, f, units : NewState(t, f, units).bet = Bet(t) /\ NewState(t, f, units).sym = t.sym /\ Bet(t)[1] = t.engine
BY DEF NewState, Bet

\* At the start no bet has been entered.
LEMMA BetStart == DailyInit => BetInv
<1> SUFFICES ASSUME DailyInit PROVE BetInv
  OBVIOUS
<1>1. DOMAIN state = {} /\ trades = {} /\ phase = "idle"
  BY DEF DailyInit, Fresh
<1> QED BY <1>1 DEF BetInv, OnePerSymbol

\* No step enters a bet a second time, or a symbol that the strategy holds.
LEMMA BetNext == LedgerInv /\ LedgerInv' /\ BetInv /\ DailyNext => BetInv'
<1> SUFFICES ASSUME LedgerInv, LedgerInv', BetInv, DailyNext PROVE BetInv'
  OBVIOUS
<1>0. DayTypes /\ BookOk /\ RecordsOk(trades') /\ seq + 1 \notin DOMAIN state /\ PartInv /\ MirrorInv
  <2>1. RecordsOk(trades')
    BY DEF LedgerInv, DayTypes
  <2>2. seq \in Nat /\ DOMAIN state \subseteq 1..seq
    BY DEF LedgerInv, DayTypes, BookOk
  <2> QED BY <2>1, <2>2 DEF LedgerInv, DayTypes
<1>1. CASE BeginSession
  BY <1>1, BetSame DEF BeginSession
<1>2. CASE Refresh
  BY <1>2, BetSame DEF Refresh
<1>3. CASE Sweep
  <2> DEFINE gone == DOMAIN state \ DOMAIN pos
             folded == [i \in DOMAIN state |-> Folded(i, state[i])]
  <2>1. /\ state' = [i \in DOMAIN state \ gone |-> folded[i]] /\ phase' = "exits" /\ phase = "market"
        /\ trades' = trades \cup {Record(i, Expire(i, folded[i])) : i \in gone}
    BY <1>3 DEF Sweep
  <2>2. ASSUME NEW i \in DOMAIN state
        PROVE  folded[i].bet = state[i].bet /\ folded[i].sym = state[i].sym
    <3>1. IsState(state[i])
      BY <1>0 DEF DayTypes
    <3>2. FoldedRight(Folded(i, state[i]), state[i], i)
      BY <1>0, <3>1, FoldedFacts
    <3> QED BY <3>2 DEF FoldedRight
  <2>3. ASSUME NEW i \in gone
        PROVE  Record(i, Expire(i, folded[i])).id = i /\ Record(i, Expire(i, folded[i])).bet = state[i].bet
    <3>1. IsState(state[i]) /\ i \in DOMAIN settled
      <4>1. Mirrored(i)
        BY <1>0, <2>1 DEF MirrorInv
      <4> QED BY <1>0, <4>1 DEF DayTypes, Mirrored
    <3>2. folded[i] = Folded(i, state[i])
      OBVIOUS
    <3> HIDE DEF folded, gone
    <3> QED BY <1>0, <3>1, <3>2, ExpiredPnl
  <2> HIDE DEF folded
  <2>4. Moved(gone)
    BY <2>1, <2>2, <2>3 DEF Moved
  <2> HIDE DEF gone
  <2> QED BY <1>0, <2>1, <2>4, BetMoved
<1>4. CASE KeepPosition \/ ExitRejected \/ ExitsDone \/ BeginScheduled \/ EndSession
  <2>1. state' = state /\ trades' = trades /\ phase' # "entries"
    BY <1>4 DEF KeepPosition, ExitRejected, ExitsDone, BeginScheduled, EndSession
  <2> QED BY <2>1, BetSame
<1>5. CASE BeginEntries
  <2>1. /\ state' = state /\ trades' = trades /\ already' = Already
        /\ taken' = {<<st.bet[1], st.sym>> : st \in Open1}
    BY <1>5 DEF BeginEntries
  <2>2. Already' = Already
    BY <2>1 DEF Already, Open1
  <2>3. OnePerSymbol'
    BY <2>1 DEF BetInv, OnePerSymbol
  <2>4. \A i \in DOMAIN state : <<state[i].bet[1], state[i].sym>> \in taken'
    BY <2>1 DEF Open1
  <2> QED BY <2>1, <2>2, <2>3, <2>4 DEF BetInv
<1>6. CASE ExitFilled
  <2> DEFINE i == Next1
  <2>1. PICK s \in Slips : Booked(i, [state[i] EXCEPT !.fees = @ + Fee(DOMAIN pos[i].legs, UnitsToClose(pos[i])),
                                          !.exitCash = @ + ExitPrice(pos[i], s) * UnitsToClose(pos[i]),
                                          !.closed = @ + UnitsToClose(pos[i])])
    BY <1>6 DEF ExitFilled
  <2>2. i \in DOMAIN state /\ IsState(state[i]) /\ phase' = "exits"
    <3>1. i \in DOMAIN pos /\ phase = "exits" /\ phase' = "exits"
      BY <1>0, <1>6, LeastId DEF DayTypes, ExitFilled, Next1
    <3> QED BY <1>0, <3>1 DEF MirrorInv, DayTypes
  <2> DEFINE g == Later(state[i], Fee(DOMAIN pos[i].legs, UnitsToClose(pos[i])), UnitsToClose(pos[i]), ExitPrice(pos[i], s))
  <2>3. Booked(i, g) /\ g.bet = state[i].bet /\ g.sym = state[i].sym
    <3>1. Booked(i, g)
      BY <2>1 DEF Later
    <3>2. g.bet = state[i].bet /\ g.sym = state[i].sym
      BY <2>2 DEF IsState, StateFields, Later
    <3> QED BY <3>1, <3>2
  <2> HIDE DEF g
  <2> HIDE DEF i
  <2>4. CASE g.closed >= g.maxQty
    <3>1. trades' = trades \cup {Record(i, g)} /\ state' = Without(state, i)
      BY <2>3, <2>4 DEF Booked
    <3>2. Record(i, g).id = i /\ Record(i, g).bet = state[i].bet
      BY <2>3 DEF Record
    <3>3. Moved({i})
      BY <2>2, <3>1, <3>2 DEF Moved, Without
    <3> QED BY <1>0, <2>2, <3>3, BetMoved
  <2>5. CASE ~(g.closed >= g.maxQty)
    <3>1. trades' = trades /\ state' = [state EXCEPT ![i] = g]
      BY <2>3, <2>5 DEF Booked
    <3>2. Moved({})
      BY <2>2, <2>3, <3>1 DEF Moved
    <3> QED BY <1>0, <2>2, <3>2, BetMoved
  <2> QED BY <2>4, <2>5
<1>7. CASE HedgeStep
  <2>1. trades' = trades /\ phase' = "plan"
    BY <1>7 DEF HedgeStep
  <2>2. CASE NotEntered
    BY <2>1, <2>2, BetSame DEF NotEntered
  <2>3. CASE ~NotEntered
    <3>1. PICK t \in Puts, f \in Int, units \in Nat \ {0} : EnteredAt(t, f, units)
      BY <1>7, <2>3, HedgeCases
    <3>2. state' = With(state, seq + 1, NewState(t, f, units)) /\ NewState(t, f, units).bet \notin CatalystBets
      BY <3>1, NotCatalyst, NewStateBet DEF EnteredAt
    <3> QED BY <1>0, <2>1, <3>2, BetEntered
  <2> QED BY <2>2, <2>3
<1>8. CASE EnterScheduled
  <2>1. trades' = trades /\ phase' = "scheduled"
    BY <1>8 DEF EnterScheduled
  <2>2. CASE NotEntered
    BY <2>1, <2>2, BetSame DEF NotEntered
  <2>3. CASE ~NotEntered
    <3>1. PICK t \in Range(Scheduled), f \in Int, units \in Nat \ {0} : EnteredAt(t, f, units)
      BY <1>8, <2>3, ScheduledCases
    <3>2. state' = With(state, seq + 1, NewState(t, f, units)) /\ NewState(t, f, units).bet \notin CatalystBets
      BY <3>1, NotCatalyst, NewStateBet DEF EnteredAt
    <3> QED BY <1>0, <2>1, <3>2, BetEntered
  <2> QED BY <2>2, <2>3
<1>9. CASE EnterBet
  <2> DEFINE t == Head(offers)
  <2>1. trades' = trades /\ phase' = "entries" /\ phase = "entries"
    BY <1>9 DEF EnterBet
  <2>2. \/ NotEntered /\ UNCHANGED <<already, taken>>
        \/ /\ t \in Range(Bets) /\ Bet(t) \notin already /\ <<t.engine, t.sym>> \notin taken
           /\ NotEntered \/ \E f \in Int, units \in Nat \ {0} : EnteredAt(t, f, units)
           /\ already' = already \cup {Bet(t)} /\ taken' = taken \cup {<<t.engine, t.sym>>}
    BY <1>9, BetCases
  <2> HIDE DEF t
  <2>3. CASE NotEntered
    BY <2>1, <2>2, <2>3, BetSame DEF NotEntered
  <2>4. CASE ~NotEntered
    <3>1. PICK f \in Int, units \in Nat \ {0} : EnteredAt(t, f, units)
      BY <2>2, <2>4
    <3> DEFINE new == NewState(t, f, units)
    <3>2. state' = With(state, seq + 1, new) /\ new.bet = Bet(t) /\ new.sym = t.sym /\ new.bet[1] = t.engine
      BY <3>1, NewStateBet DEF EnteredAt
    <3> HIDE DEF new
    <3>3. Already \subseteq already /\ \A j \in DOMAIN state : <<state[j].bet[1], state[j].sym>> \in taken
      BY <2>1 DEF BetInv
    <3>4. /\ new.bet \notin Already /\ \A j \in DOMAIN state : state[j].bet[1] # new.bet[1] \/ state[j].sym # new.sym
          /\ already' = already \cup {new.bet} /\ taken' = taken \cup {<<new.bet[1], new.sym>>}
      BY <2>2, <2>4, <3>2, <3>3
    <3> QED BY <1>0, <2>1, <3>2, <3>4, BetEntered
  <2> QED BY <2>3, <2>4
<1>10. CASE Finalize
  <2> DEFINE M == DOMAIN pos \cap DOMAIN state
  <2>1. /\ phase' = "done" /\ trades' = trades \cup {Record(i, OutOf(i)) : i \in M}
        /\ state' = [i \in DOMAIN state \ M |-> state[i]]
    BY <1>10 DEF Finalize, OutOf, Later
  <2>2. ASSUME NEW i \in M PROVE Record(i, OutOf(i)).id = i /\ Record(i, OutOf(i)).bet = state[i].bet
    <3>1. IsState(state[i])
      BY <1>0 DEF DayTypes
    <3>2. OutOf(i).bet = state[i].bet
      BY <3>1 DEF OutOf, Later, IsState, StateFields
    <3> QED BY <3>2 DEF Record
  <2>3. Moved(M)
    BY <2>1, <2>2 DEF Moved
  <2> HIDE DEF M
  <2> QED BY <1>0, <2>1, <2>3, BetMoved
<1>11. CASE Finished
  BY <1>11, BetSame DEF Finished, dailyVars, loopVars
<1> QED BY <1>1, <1>2, <1>3, <1>4, <1>5, <1>6, <1>7, <1>8, <1>9, <1>10, <1>11 DEF DailyNext

-----------------------------------------------------------------------------
(* What is due.                                                             *)

\* A rule that fires whatever the mark is closes every unit.
LEMMA MandatoryAll ==
  ASSUME NEW p, Mandatory(p, p.trade.rules, today)
  PROVE  UnitsToClose(p) = p.qty
<1>1. Action(p).pct = 100
  BY DEF Mandatory, Action, EvaluateExits, All
<1> QED BY <1>1 DEF UnitsToClose, ScaleOut

\* What was open stays what it was for the rules, and what was not was opened today.
Lasting ==
  /\ today' = today /\ stuck \subseteq stuck'
  /\ \A i \in DOMAIN pos' :
       IF i \in DOMAIN pos
       THEN /\ pos'[i].legs = pos[i].legs /\ pos'[i].opened = pos[i].opened
            /\ pos'[i].trade = pos[i].trade
       ELSE pos'[i].opened = today

\* Positions with the same trade, legs and age are overdue together.
LEMMA DueAlike ==
  ASSUME NEW p, NEW q, p.legs = q.legs, p.opened = q.opened, p.trade = q.trade, NEW day,
         Mandatory(q, q.trade.rules, day)
  PROVE  Mandatory(p, p.trade.rules, day)
BY DEF Mandatory, ExpiryBuffer, TimeStop, NearestExpiry, Expiries

\* After the exits nothing can become due.
LEMMA DueLater ==
  ASSUME DueInv, Lasting, phase \in {"hedge", "plan", "entries", "scheduled", "idle"},
         phase' \in {"hedge", "plan", "entries", "scheduled", "idle"}
  PROVE  DueInv'
<1> SUFFICES ASSUME NEW i \in DOMAIN pos', Mandatory(pos'[i], pos'[i].trade.rules, today')
             PROVE  i \in stuck' \/ pos'[i].opened = today'
  BY DEF DueInv
<1>1. CASE i \notin DOMAIN pos
  BY <1>1 DEF Lasting
<1>2. CASE i \in DOMAIN pos
  <2>1. pos'[i].legs = pos[i].legs /\ pos'[i].opened = pos[i].opened /\ pos'[i].trade = pos[i].trade
        /\ today' = today /\ stuck \subseteq stuck'
    BY <1>2 DEF Lasting
  <2>2. Mandatory(pos'[i], pos'[i].trade.rules, today)
    BY <2>1
  <2>3. Mandatory(pos[i], pos[i].trade.rules, today)
    BY <2>1, <2>2, DueAlike
  <2>4. i \in stuck \/ pos[i].opened = today
    BY <1>2, <2>3 DEF DueInv
  <2> QED BY <2>1, <2>4
<1> QED BY <1>1, <1>2

\* A position that the exits have looked at is not due, or not closed for a reason.
LEMMA DueLooked ==
  ASSUME DueInv, Lasting, phase = "exits", phase' = "exits", todo' = todo \ {Next1},
         \A i \in DOMAIN pos' : i = Next1 => i \in stuck' \/ ~Mandatory(pos'[i], pos'[i].trade.rules, today)
  PROVE  DueInv'
<1> SUFFICES ASSUME NEW i \in DOMAIN pos', Mandatory(pos'[i], pos'[i].trade.rules, today')
             PROVE  i \in stuck' \/ pos'[i].opened = today' \/ i \in todo'
  BY DEF DueInv
<1>0. today' = today /\ Mandatory(pos'[i], pos'[i].trade.rules, today)
  BY DEF Lasting
<1>1. CASE i \notin DOMAIN pos
  BY <1>1 DEF Lasting
<1>2. CASE i \in DOMAIN pos
  <2>1. pos'[i].legs = pos[i].legs /\ pos'[i].opened = pos[i].opened /\ pos'[i].trade = pos[i].trade
        /\ stuck \subseteq stuck'
    BY <1>2 DEF Lasting
  <2>2. Mandatory(pos[i], pos[i].trade.rules, today)
    BY <1>0, <2>1, DueAlike
  <2>3. i \in stuck \/ pos[i].opened = today \/ i \in todo
    BY <1>2, <2>2 DEF DueInv
  <2>4. i = Next1 => i \in stuck'
    BY <1>0
  <2> QED BY <1>0, <2>1, <2>3, <2>4
<1> QED BY <1>1, <1>2

\* What lasts over a step: an entry is new today, and the rest are as they were.
LEMMA NewLasts ==
  ASSUME BookOk, NEW t \in Offered, t.cost \in Int, NEW f \in Int, NEW units \in Nat \ {0}, EnteredAt(t, f, units),
         today' = today, stuck' = stuck
  PROVE  Lasting
<1>1. Open(t, f, t.cost, units, today)
  BY DEF EnteredAt
<1>2. Opened(t, f, t.cost, units, today)
  BY <1>1, OpenBook
<1>3. DOMAIN pos' = DOMAIN pos \cup {seq + 1} /\ pos'[seq + 1].opened = today /\ \A i \in DOMAIN pos : pos'[i] = pos[i]
  BY <1>2 DEF Opened
<1> QED BY <1>3 DEF Lasting

\* A step that leaves the book and the day alone lets everything last.
LEMMA SameLasts == ASSUME pos' = pos, today' = today, stuck \subseteq stuck' PROVE Lasting
BY DEF Lasting

\* An exit that is filled closes all of what was due.
LEMMA DueFilled == LedgerInv /\ DueInv /\ ExitFilled => DueInv'
<1> SUFFICES ASSUME LedgerInv, DueInv, ExitFilled PROVE DueInv'
  OBVIOUS
<1>1. DayTypes /\ BookOk /\ phase = "exits" /\ phase' = "exits" /\ todo # {} /\ todo' = todo \ {Next1}
      /\ today' = today /\ stuck' = stuck /\ todo \subseteq DOMAIN pos
  BY DEF ExitFilled, LedgerInv, DayTypes
<1> DEFINE i == Next1
           n == UnitsToClose(pos[Next1])
           tp1 == Action(pos[Next1]).reason = "take_profit_1"
<1>2. n > 0 /\ \E s \in Slips : Close(i, n, ExitPrice(pos[i], s), tp1)
  BY DEF ExitFilled
<1>3. i \in DOMAIN pos
  BY <1>1, LeastId DEF Next1
<1>4. IsPos(pos[i]) /\ pos[i].trade \in DayTrades
  BY <1>1, <1>3 DEF DayTypes, BookOk
<1>5. n \in 1..pos[i].qty
  BY <1>2, <1>4, UnitsInRange
<1>6. PICK c \in Int : Close(i, n, c, tp1)
  BY <1>2, <1>4, ExitPriceInt
<1>7. Mandatory(pos[i], pos[i].trade.rules, today) => n = pos[i].qty
  BY MandatoryAll
<1> HIDE DEF n, tp1, i
<1>8. Sold(i, n, c, tp1)
  BY <1>1, <1>3, <1>5, <1>6, CloseBook
<1>9. /\ DOMAIN pos' = IF n = pos[i].qty THEN DOMAIN pos \ {i} ELSE DOMAIN pos
      /\ \A j \in DOMAIN pos \ {i} : pos'[j] = pos[j]
      /\ n # pos[i].qty => Shrunk(pos'[i], pos[i], n, c)
  BY <1>8 DEF Sold
<1>10. i \in DOMAIN pos' => pos'[i].legs = pos[i].legs /\ pos'[i].opened = pos[i].opened /\ pos'[i].trade = pos[i].trade
  BY <1>9 DEF Shrunk
<1>11. Lasting
  BY <1>1, <1>9, <1>10 DEF Lasting
<1>12. i \in DOMAIN pos' => ~Mandatory(pos'[i], pos'[i].trade.rules, today)
  <2> SUFFICES ASSUME i \in DOMAIN pos', Mandatory(pos'[i], pos'[i].trade.rules, today) PROVE FALSE
    OBVIOUS
  <2>1. Mandatory(pos[i], pos[i].trade.rules, today)
    BY <1>10, DueAlike
  <2> QED BY <1>7, <1>9, <2>1
<1> QED BY <1>1, <1>11, <1>12, DueLooked DEF i

\* At the start nothing is overdue.
LEMMA DueStart == DailyInit => DueInv
BY DEF DailyInit, BrokerInit, DueInv

\* No step lets an overdue position go by that was not refused.
LEMMA DueNext == LedgerInv /\ DueInv /\ DailyNext => DueInv'
<1> SUFFICES ASSUME LedgerInv, DueInv, DailyNext PROVE DueInv'
  OBVIOUS
<1>0. DayTypes /\ BookOk
  BY DEF LedgerInv, DayTypes
<1>1. CASE BeginSession \/ Refresh \/ Finalize
  <2>1. phase' \in {"market", "done"}
    BY <1>1 DEF BeginSession, Refresh, Finalize
  <2> QED BY <2>1 DEF DueInv
<1>2. CASE Sweep
  BY <1>2 DEF Sweep, DueInv
<1>3. CASE KeepPosition
  <2>1. /\ phase = "exits" /\ phase' = "exits" /\ todo' = todo \ {Next1} /\ UnitsToClose(pos[Next1]) = 0
        /\ pos' = pos /\ today' = today /\ stuck' = stuck /\ todo # {} /\ todo \subseteq DOMAIN pos
    BY <1>0, <1>3 DEF KeepPosition, brokerVars, DayTypes
  <2>2. Lasting
    BY <2>1, SameLasts
  <2>3. ~Mandatory(pos[Next1], pos[Next1].trade.rules, today)
    <3>1. Next1 \in DOMAIN pos
      BY <1>0, <2>1, LeastId DEF Next1
    <3>2. pos[Next1].qty > 0
      BY <1>0, <3>1 DEF BookOk, IsPos
    <3> QED BY <2>1, <3>2, MandatoryAll
  <2> QED BY <2>1, <2>2, <2>3, DueLooked
<1>4. CASE ExitRejected
  <2>1. /\ phase = "exits" /\ phase' = "exits" /\ todo' = todo \ {Next1}
        /\ pos' = pos /\ today' = today /\ stuck' = stuck \cup {Next1}
    BY <1>4 DEF ExitRejected, brokerVars
  <2>2. Lasting
    BY <2>1, SameLasts
  <2> QED BY <2>1, <2>2, DueLooked
<1>5. CASE ExitFilled
  BY <1>5, DueFilled
<1>6. CASE ExitsDone
  BY <1>6 DEF ExitsDone, DueInv, brokerVars
<1>7. CASE BeginEntries \/ BeginScheduled \/ EndSession
  <2>1. /\ phase \in {"hedge", "plan", "entries", "scheduled", "idle"}
        /\ phase' \in {"hedge", "plan", "entries", "scheduled", "idle"}
        /\ pos' = pos /\ today' = today /\ stuck' = stuck
    BY <1>7 DEF BeginEntries, BeginScheduled, EndSession, brokerVars
  <2> QED BY <2>1, SameLasts, DueLater
<1>8. CASE HedgeStep \/ EnterBet \/ EnterScheduled
  <2>1. /\ phase \in {"hedge", "plan", "entries", "scheduled", "idle"}
        /\ phase' \in {"hedge", "plan", "entries", "scheduled", "idle"}
        /\ today' = today /\ stuck' = stuck
    BY <1>8 DEF HedgeStep, EnterBet, EnterScheduled
  <2>2. NotEntered \/ \E t \in DayTrades, f \in Int, units \in Nat \ {0} : EnteredAt(t, f, units)
    <3>1. CASE HedgeStep
      <4>1. NotEntered \/ \E t \in Puts, f \in Int, units \in Nat \ {0} : EnteredAt(t, f, units)
        BY <3>1, HedgeCases
      <4> QED BY <4>1 DEF DayTrades
    <3>2. CASE EnterBet
      <4> DEFINE t == Head(offers)
      <4>1. NotEntered \/ (t \in Range(Bets) /\ \E f \in Int, units \in Nat \ {0} : EnteredAt(t, f, units))
        BY <3>2, BetCases
      <4> HIDE DEF t
      <4> QED BY <4>1 DEF DayTrades
    <3>3. CASE EnterScheduled
      <4>1. NotEntered \/ \E t \in Range(Scheduled), f \in Int, units \in Nat \ {0} : EnteredAt(t, f, units)
        BY <3>3, ScheduledCases
      <4> QED BY <4>1 DEF DayTrades
    <3> QED BY <1>8, <3>1, <3>2, <3>3
  <2>3. CASE NotEntered
    <3>1. pos' = pos
      BY <2>3 DEF NotEntered, brokerVars
    <3> QED BY <2>1, <3>1, SameLasts, DueLater
  <2>4. CASE ~NotEntered
    <3>1. PICK t \in DayTrades, f \in Int, units \in Nat \ {0} : EnteredAt(t, f, units)
      BY <2>2, <2>4
    <3>2. t \in Offered
      BY DEF DayTrades, Offered
    <3>3. t.cost \in Int
      BY <3>2, OfferedOk DEF TradeOk
    <3>4. Lasting
      BY <1>0, <2>1, <3>1, <3>2, <3>3, NewLasts
    <3> QED BY <2>1, <3>4, DueLater
  <2> QED BY <2>3, <2>4
<1>9. CASE Finished
  BY <1>9 DEF Finished, dailyVars, loopVars, brokerVars, DueInv
<1> QED BY <1>1, <1>2, <1>3, <1>4, <1>5, <1>6, <1>7, <1>8, <1>9 DEF DailyNext

-----------------------------------------------------------------------------
(* The invariant of the daily engine.                                       *)

\* The invariant of the daily engine holds when the replay starts.
LEMMA DailyStart == DailyInit => DailyInv
BY StartLedger, BetStart, DueStart DEF DailyInv

\* The invariant of the daily engine is kept by every step of it.
LEMMA DailyKept == DailyInv /\ DailyNext => DailyInv'
<1> SUFFICES ASSUME DailyInv, DailyNext PROVE DailyInv'
  OBVIOUS
<1>1. LedgerInv'
  BY LedgerNext DEF DailyInv
<1>2. BetInv'
  BY <1>1, BetNext DEF DailyInv
<1>3. DueInv'
  BY DueNext DEF DailyInv
<1> QED BY <1>1, <1>2, <1>3 DEF DailyInv

\* A set in which any two elements are one has at most one.
LEMMA AtMostOne ==
  ASSUME NEW S, \A x, y \in S : x = y
  PROVE  Cardinality(S) \in Nat /\ Cardinality(S) <= 1 /\ (S = {} => Cardinality(S) = 0)
<1>1. CASE S = {}
  BY <1>1, FS_EmptySet
<1>2. CASE S # {}
  <2>1. PICK x \in S : TRUE
    BY <1>2
  <2>2. S = {x}
    BY <2>1
  <2>3. Cardinality(S) = 1
    BY <2>2, FS_Singleton
  <2> QED BY <1>2, <2>3
<1> QED BY <1>1, <1>2

\* What the runs check of the daily engine follows.
LEMMA DailyBooks == LedgerInv => MirrorExact /\ RecordsAgree /\ Reconciled /\ ReserveFollows
<1> SUFFICES ASSUME LedgerInv PROVE MirrorExact /\ RecordsAgree /\ Reconciled /\ ReserveFollows
  OBVIOUS
<1>0. DayTypes /\ MirrorInv /\ PartInv /\ RealInv /\ CashInv /\ ReserveFollows
  BY DEF LedgerInv
<1>1. Swept => /\ DOMAIN state = DOMAIN pos /\ partials = {}
               /\ \A i \in DOMAIN pos : Mirrored(i) /\ IsState(state[i])
  BY <1>0 DEF Swept, MirrorInv, PartInv, DayTypes
<1>2. MirrorExact
  BY <1>1 DEF MirrorExact, Mirrored
<1>3. RecordsAgree
  <2> SUFFICES ASSUME Swept, NEW i \in DOMAIN pos
               PROVE  pos[i].realized = state[i].exitCash - state[i].entry * state[i].closed
    BY DEF RecordsAgree
  <2>1. pos[i].realized = state[i].exitCash + SettlingOf(partials, state[i], i) - state[i].entry * state[i].closed
    BY <1>0 DEF RealInv, Swept
  <2>2. SettlingOf(partials, state[i], i) = 0
    BY <1>1, NothingSettles
  <2>3. state[i].exitCash \in Int /\ state[i].entry * state[i].closed \in Int
    BY <1>1, TimesInt DEF IsState
  <2> DEFINE x == state[i].entry * state[i].closed
  <2> HIDE DEF x
  <2>4. pos[i].realized = state[i].exitCash + 0 - x /\ x \in Int
    BY <2>1, <2>2, <2>3 DEF x
  <2> QED BY <2>3, <2>4 DEF x
<1>4. Reconciled
  <2>1. Swept => cash = StartCash + Profit(trades) + SumFunction([i \in DOMAIN state |-> Booking(state[i])])
    <3> SUFFICES ASSUME Swept
                 PROVE  cash = StartCash + Profit(trades) + SumFunction([i \in DOMAIN state |-> Booking(state[i])])
      OBVIOUS
    <3>1. \A i \in DOMAIN state : EarnedOf(partials, settled, state[i], i) = Booking(state[i])
      <4>1. \A i \in DOMAIN state : i \notin DOMAIN settled /\ IsState(state[i])
        BY <1>0, <1>1 DEF DayTypes
      <4> QED BY <1>1, <4>1, EarnedOpen
    <3>2. [i \in DOMAIN state |-> EarnedOf(partials, settled, state[i], i)] = [i \in DOMAIN state |-> Booking(state[i])]
      BY <3>1
    <3>3. Earnings(partials, settled, state) = SumFunction([i \in DOMAIN state |-> Booking(state[i])])
      BY <3>2 DEF Earnings
    <3>4. cash = StartCash + Profit(trades) + Earnings(partials, settled, state)
      BY <1>0 DEF CashInv, Swept
    <3> QED BY <3>3, <3>4
  <2>2. phase = "done" => Equity = StartCash + Profit(trades) + OutFees(pos)
    BY <1>0 DEF CashInv
  <2> QED BY <2>1, <2>2 DEF Reconciled, Profit, OutFees
<1> QED BY <1>0, <1>2, <1>3, <1>4

\* What the bets' invariant says of every reachable state: no bet doubled, nothing overdue carried.
LEMMA DailyBets == BetInv /\ DueInv => OneEntryPerBet /\ OnePerSymbol /\ NoneOverdue
<1> SUFFICES ASSUME BetInv, DueInv PROVE OneEntryPerBet /\ OnePerSymbol /\ NoneOverdue
  OBVIOUS
<1>1. OneEntryPerBet
  <2> SUFFICES ASSUME NEW b \in CatalystBets
               PROVE  Cardinality({i \in DOMAIN state : state[i].bet = b})
                        + Cardinality({r \in trades : r.bet = b}) <= 1
    BY DEF OneEntryPerBet
  <2> DEFINE S == {i \in DOMAIN state : state[i].bet = b}
             R == {r \in trades : r.bet = b}
  <2>1. (\A i, j \in S : i = j) /\ (\A r, q \in R : r = q) /\ (S = {} \/ R = {})
    BY DEF BetInv
  <2> HIDE DEF S, R
  <2>2. Cardinality(S) \in Nat /\ Cardinality(S) <= 1 /\ (S = {} => Cardinality(S) = 0)
    BY <2>1, AtMostOne
  <2>3. Cardinality(R) \in Nat /\ Cardinality(R) <= 1 /\ (R = {} => Cardinality(R) = 0)
    BY <2>1, AtMostOne
  <2>4. Cardinality(S) + Cardinality(R) <= 1
    BY <2>1, <2>2, <2>3
  <2> QED BY <2>4 DEF S, R
<1>2. NoneOverdue
  BY DEF DueInv, NoneOverdue
<1> QED BY <1>1, <1>2 DEF BetInv
-----------------------------------------------------------------------------
(* What the minute loop keeps from step to step.                            *)

InSession == step \in {"market", "flatten", "exits", "entries", "last"}

\* What a row holds when it is read: a price, or none.
RowOk(k, r, a) == r.mid \in Int \cup {NoMid} /\ (IsShares(k) /\ a = 0 => r.open \in Int)

\* What open positions have cost, commissions included.
CostOf(p) == p.entry * p.qty + Fee(DOMAIN p.trade.legs, p.qty)
OpenCost(book) == SumFunction([i \in DOMAIN book |-> CostOf(book[i])])

\* The broker's book, the mirror and the records.
HeldOk == \A i \in DOMAIN pos : pos[i].trade \in Range(Proposals) /\ pos[i].legs = pos[i].trade.legs
NotedOk == RecordsOk(records) /\ \A r \in records : r.id \in 1..seq /\ r.id \notin DOMAIN pos
LiveInv ==
  /\ DOMAIN live = DOMAIN pos
  /\ \A i, j \in DOMAIN live : live[i].strategy = live[j].strategy /\ live[i].symbol = live[j].symbol => i = j
Balanced == cash = StartCash + Profit(records) - OpenCost(pos)
MinuteLedger == BookOk /\ HeldOk /\ NotedOk /\ LiveInv /\ Balanced /\ ReserveFollows

LoopTypes ==
  /\ step \in {"idle", "market", "flatten", "exits", "entries", "last", "closed", "done"}
  /\ every \in Nat \ {0} /\ minute \in Nat
  /\ InSession => /\ closeAt \in Closes /\ openEquity \in Int /\ worst \in Int
                  /\ \A k \in Instruments : RowOk(k, row[k], age[k])
  /\ step = "entries" => asked \in Nat

\* Where the loop is, in the minute and in the queue.
StepInv ==
  /\ step \in {"flatten", "last"} => queue = DOMAIN pos
  /\ step = "exits" => queue \subseteq DOMAIN pos /\ (minute >= FlattenAt => DOMAIN pos = {})
  /\ step = "flatten" => minute >= FlattenAt
  /\ step = "last" => minute > closeAt
  /\ step = "entries" => minute < FlattenAt
  /\ step \in {"idle", "closed", "done"} => DOMAIN pos = {}
  /\ step = "market" /\ minute > 1 /\ minute - every >= FlattenAt => DOMAIN pos = {}

\* A session that has seen its equity at the halt has its breaker tripped.
BreakerInv == InSession => breaker \/ ~Lost(worst, openEquity, DailyHaltPct)

MinuteInv == MinuteLedger /\ LoopTypes /\ StepInv /\ BreakerInv

-----------------------------------------------------------------------------
(* Proposals and their rows.                                                *)

ProposalFacts(t) ==
  /\ t \in Offered /\ t.k \in Instruments /\ Proposals[t.k] = t
  /\ \A r \in t.rows : r.mid \in Int \cup {NoMid} /\ (t.legs = <<>> => r.open \in Int)

\* A proposal knows its place in the loop and what its rows may show.
LEMMA ProposalOk == ASSUME NEW t \in Range(Proposals) PROVE ProposalFacts(t)
<1>1. PICK k \in DOMAIN Proposals : t = Proposals[k]
  BY DEF Range
<1>2. t.k = k /\ \A r \in t.rows : r.mid \in Int \cup {NoMid} /\ (t.legs = <<>> => r.open \in Int)
  BY <1>1, IntradayAssumption
<1> QED BY <1>1, <1>2 DEF ProposalFacts, Offered, Instruments

\* The same by the place of the proposal.
LEMMA InstrumentOk ==
  ASSUME NEW k \in Instruments
  PROVE  ProposalFacts(Proposals[k]) /\ Proposals[k].k = k /\ Proposals[k] \in Range(Proposals)
<1>1. Proposals[k] \in Range(Proposals)
  BY DEF Range, Instruments
<1>2. Proposals[k].k = k
  BY IntradayAssumption DEF Instruments
<1> QED BY <1>1, <1>2, ProposalOk

\* A row that is read next is one the minute data may show, or the last one.
LEMMA RowNext ==
  ASSUME NEW k \in Instruments, RowOk(k, row[k], age[k]), NEW gap, NEW x \in NextRows(k, gap)
  PROVE  RowOk(k, x[1], x[2])
<1>1. \A r \in Proposals[k].rows : r.mid \in Int \cup {NoMid} /\ (IsShares(k) => r.open \in Int)
  BY InstrumentOk DEF ProposalFacts, IsShares
<1>2. CASE IsShares(k)
  <2>1. x[1] \in Proposals[k].rows
    BY <1>2 DEF NextRows
  <2> QED BY <1>1, <2>1 DEF RowOk
<1>3. CASE ~IsShares(k)
  <2>1. x[1] \in Proposals[k].rows \/ x[1] = row[k]
    BY <1>3 DEF NextRows
  <2> QED BY <1>1, <1>3, <2>1 DEF RowOk
<1> QED BY <1>2, <1>3

\* A price that fills or marks is one.
LEMMA MidInt ==
  ASSUME NEW k \in Instruments, RowOk(k, row[k], age[k])
  PROVE  /\ HasMark(k, row[k], age[k]) => row[k].mid \in Int
         /\ Fillable(k) => FillMid(k) \in Int
BY DEF RowOk, HasMark, Fillable, FillMid

-----------------------------------------------------------------------------
(* The book of the minute loop.                                             *)

\* A position that is only marked differently has cost the same.
SameCost(q, p) == IsPos(q) /\ q.trade = p.trade /\ q.legs = p.legs /\ q.qty = p.qty /\ q.entry = p.entry

\* Positions with the same cost basis have cost the same.
LEMMA CostSame == \A q, p : SameCost(q, p) => CostOf(q) = CostOf(p)
BY DEF SameCost, CostOf

\* A mark does not change what a position has cost.
LEMMA MarkCost == ASSUME NEW p, IsPos(p), NEW v \in Int PROVE SameCost(Marked(p, v), p)
<1>1. Alike(Marked(p, v), p)
  BY MarkAlike
<1>2. Marked(p, v).legs = p.legs
  BY DEF IsPos, PosFields, Marked
<1> QED BY <1>1, <1>2 DEF Alike, SameCost

\* The book after an update of the market, or none.
Remarked ==
  /\ DOMAIN pos' = DOMAIN pos /\ \A i \in DOMAIN pos : SameCost(pos'[i], pos[i])
  /\ UNCHANGED <<cash, reserved, seq, live, records>>

\* A step that marks positions and trades none keeps the ledger.
LEMMA RemarkedLedger == MinuteLedger /\ Remarked => MinuteLedger'
<1> SUFFICES ASSUME MinuteLedger, Remarked PROVE MinuteLedger'
  OBVIOUS
<1>1. /\ DOMAIN pos' = DOMAIN pos /\ \A i \in DOMAIN pos : SameCost(pos'[i], pos[i])
      /\ cash' = cash /\ reserved' = reserved /\ seq' = seq /\ live' = live /\ records' = records
  BY DEF Remarked
<1>2. BookOk' /\ HeldOk'
  BY <1>1 DEF MinuteLedger, BookOk, HeldOk, SameCost
<1>3. NotedOk' /\ LiveInv'
  BY <1>1 DEF MinuteLedger, NotedOk, LiveInv
<1>4. OpenCost(pos') = OpenCost(pos)
  <2>1. \A i \in DOMAIN pos : CostOf(pos'[i]) = CostOf(pos[i])
    BY <1>1, CostSame
  <2>2. [i \in DOMAIN pos' |-> CostOf(pos'[i])] = [i \in DOMAIN pos |-> CostOf(pos[i])]
    BY <1>1, <2>1
  <2> QED BY <2>2 DEF OpenCost
<1>5. Balanced'
  BY <1>1, <1>4 DEF MinuteLedger, Balanced
<1>6. ReserveFollows'
  BY <1>1 DEF MinuteLedger, ReserveFollows, SameCost
<1> QED BY <1>2, <1>3, <1>5, <1>6 DEF MinuteLedger

\* A step that leaves the book alone marks nothing and trades nothing.
LEMMA SameRemarked == BookOk /\ UNCHANGED <<cash, pos, reserved, seq, live, records>> => Remarked
BY DEF BookOk, Remarked, SameCost

\* What costs there are can be added up.
LEMMA CostInt == ASSUME NEW p, IsPos(p) PROVE CostOf(p) \in Int
<1>1. Fee(DOMAIN p.trade.legs, p.qty) \in Int /\ p.entry * p.qty \in Int
  <2>1. p.qty \in Int /\ p.entry \in Int
    BY DEF IsPos
  <2> QED BY <2>1, PosFee, TimesInt
<1> QED BY <1>1 DEF CostOf

CostTyped(book) == IsFiniteSet(DOMAIN book) /\ \A i \in DOMAIN book : CostOf(book[i]) \in Int

\* What every open position has cost can be added up.
LEMMA CostsInt == BookOk => CostTyped(pos)
<1> SUFFICES ASSUME BookOk PROVE CostTyped(pos)
  OBVIOUS
<1>1. IsFiniteSet(DOMAIN pos) /\ \A i \in DOMAIN pos : IsPos(pos[i])
  BY IdsFinite DEF BookOk
<1> QED BY <1>1, CostInt DEF CostTyped

\* The same of the next state.
LEMMA CostsNext == (BookOk => CostTyped(pos))'
BY CostsInt, PTL

\* What open positions have cost is a whole number of cents.
LEMMA OpenCostInt == ASSUME NEW book, CostTyped(book) PROVE OpenCost(book) \in Int
<1> DEFINE f == [i \in DOMAIN book |-> CostOf(book[i])]
<1>1. IsFiniteSet(DOMAIN f) /\ \A i \in DOMAIN f : f[i] \in Int
  BY DEF CostTyped
<1> HIDE DEF f
<1> QED BY <1>1, SumInt DEF OpenCost, f

\* A position that goes takes its cost with it.
LEMMA CostLess ==
  ASSUME NEW book, CostTyped(book), NEW i \in DOMAIN book, NEW left, DOMAIN left = DOMAIN book \ {i},
         \A j \in DOMAIN left : left[j] = book[j]
  PROVE  OpenCost(book) = CostOf(book[i]) + OpenCost(left)
<1> DEFINE f == [j \in DOMAIN book |-> CostOf(book[j])]
           h == [j \in DOMAIN left |-> CostOf(left[j])]
<1>1. PICK E : E = DOMAIN book /\ IsFiniteSet(E)
  BY DEF CostTyped
<1>2. DOMAIN f = E /\ DOMAIN h = E \ {i} /\ i \in E /\ \A y \in E : f[y] \in Int
  BY <1>1 DEF CostTyped
<1>3. \A y \in E \ {i} : h[y] = f[y]
  BY <1>1
<1>4. f[i] = CostOf(book[i])
  OBVIOUS
<1> HIDE DEF f, h
<1>5. SumFunction(f) = f[i] + SumFunction(h)
  <2>1. PICK g : g = f
    OBVIOUS
  <2>2. PICK k : k = h
    OBVIOUS
  <2>3. DOMAIN g = E /\ i \in E /\ \A y \in E : g[y] \in Int
    BY <1>2, <2>1
  <2>4. DOMAIN k = E \ {i} /\ \A y \in E \ {i} : k[y] = g[y]
    BY <1>2, <1>3, <2>1, <2>2
  <2>5. IsFiniteSet(E)
    BY <1>1
  <2>6. SumFunction(g) = g[i] + SumFunction(k)
    BY <2>3, <2>4, <2>5, SumLess
  <2> QED BY <2>1, <2>2, <2>6
<1> QED BY <1>4, <1>5 DEF OpenCost, f, h

\* A position goes as a whole, for v per unit and one commission, into the records, which
\* also have the commission it was opened with.
Gone(i, v) ==
  /\ pos' = Without(pos, i) /\ live' = Without(live, i) /\ seq' = seq
  /\ cash' = cash + v * pos[i].qty - Fee(DOMAIN pos[i].trade.legs, pos[i].qty)
  /\ records' = records \cup {Record1(i, v)}

\* A position that is closed whole and recorded at the price cash has seen keeps the ledger.
LEMMA GoneLedger ==
  ASSUME MinuteLedger, NEW i \in DOMAIN pos, NEW v \in Int, Gone(i, v), ReserveFollows'
  PROVE  MinuteLedger'
<1>0. BookOk /\ HeldOk /\ NotedOk /\ LiveInv /\ Balanced
  BY DEF MinuteLedger
<1> DEFINE q == pos[i].qty
           e == pos[i].entry
           fee == Fee(DOMAIN pos[i].trade.legs, pos[i].qty)
           x == Record1(i, v)
<1>1. /\ DOMAIN pos' = DOMAIN pos \ {i} /\ \A j \in DOMAIN pos' : pos'[j] = pos[j]
      /\ DOMAIN live' = DOMAIN live \ {i} /\ \A j \in DOMAIN live' : live'[j] = live[j]
      /\ seq' = seq /\ cash' = cash + v * q - fee /\ records' = records \cup {x}
  BY DEF Gone, Without
<1>2. IsPos(pos[i]) /\ q \in Int /\ e \in Int /\ fee \in Int
  BY <1>0, PosFee DEF BookOk, IsPos
<1>3. v * q \in Int /\ e * q \in Int /\ (v - e) * q = v * q - e * q
  BY <1>2
<1>4. x.id = i /\ x.pnl = (v - e) * q - 2 * fee
  BY DEF Record1
<1> DEFINE a == v * q
           b == e * q
           d == (v - e) * q
<1>5. a \in Int /\ b \in Int /\ d = a - b /\ x.pnl = d - 2 * fee /\ cash' = cash + a - fee
  BY <1>1, <1>3, <1>4
<1>6. CostOf(pos[i]) = b + fee
  BY DEF CostOf
<1>7. /\ cash \in Int /\ seq \in Nat /\ DOMAIN pos \subseteq 1..seq
  BY <1>0 DEF BookOk
<1> HIDE DEF a, b, d, fee, q, e
<1>8. x.pnl \in Int
  BY <1>2, <1>5
<1> HIDE DEF x
<1>9. BookOk'
  <2>1. \A j \in DOMAIN pos' : IsPos(pos'[j])
    BY <1>0, <1>1 DEF BookOk
  <2>2. cash' \in Int
    BY <1>2, <1>5, <1>7
  <2> QED BY <1>1, <1>7, <2>1, <2>2 DEF BookOk
<1>10. HeldOk' /\ LiveInv'
  BY <1>0, <1>1 DEF HeldOk, LiveInv
<1>11. RecordsOk(records') /\ Profit(records') = Profit(records) + x.pnl
  <2>1. x.id \in Nat /\ \A r \in records : r.id # x.id
    <3>1. i \in Nat
      BY <1>7, IdsFinite
    <3> QED BY <1>0, <1>4, <3>1 DEF NotedOk
  <2> QED BY <1>0, <1>1, <1>8, <2>1, ProfitOne DEF NotedOk
<1>12. NotedOk'
  BY <1>0, <1>1, <1>4, <1>7, <1>11 DEF NotedOk
<1>13. OpenCost(pos) = CostOf(pos[i]) + OpenCost(pos')
  BY <1>0, <1>1, CostsInt, CostLess
<1>14. Balanced'
  <2>1. Profit(records) \in Int /\ StartCash \in Int /\ OpenCost(pos') \in Int
    <3>1. CostTyped(pos')
      BY <1>0, <1>1, CostsInt, FS_Subset DEF CostTyped
    <3> QED BY <1>0, <3>1, ProfitInt, OpenCostInt, BrokerAssumption DEF NotedOk
  <2>2. cash = StartCash + Profit(records) - OpenCost(pos)
    BY <1>0 DEF Balanced
  <2>3. cash' = StartCash + Profit(records') - OpenCost(pos')
    BY <1>2, <1>5, <1>6, <1>11, <1>13, <2>1, <2>2
  <2> QED BY <2>3 DEF Balanced
<1> QED BY <1>9, <1>10, <1>12, <1>14 DEF MinuteLedger

\* A position is opened under a name no strategy holds.
LEMMA OpenedLedger ==
  ASSUME MinuteLedger, NEW t \in Range(Proposals), NEW f \in Int, NEW mark \in Int,
         NEW units \in Nat \ {0}, Open(t, f, mark, units, session), records' = records, ~HeldBy(t),
         live' = With(live, seq + 1, [strategy |-> t.engine, symbol |-> t.sym, entered |-> minute])
  PROVE  MinuteLedger' /\ Opened(t, f, mark, units, session)
<1>0. BookOk /\ HeldOk /\ NotedOk /\ LiveInv /\ Balanced /\ ReserveFollows
  BY DEF MinuteLedger
<1>1. t \in Offered
  BY DEF Offered
<1>2. BookOk' /\ Opened(t, f, mark, units, session) /\ ReserveFollows'
  BY <1>0, <1>1, OpenBook, OpenReserve
<1> DEFINE i == seq + 1
           new == [strategy |-> t.engine, symbol |-> t.sym, entered |-> minute]
<1>3. /\ seq' = i /\ i \notin DOMAIN pos /\ DOMAIN pos' = DOMAIN pos \cup {i}
      /\ \A j \in DOMAIN pos : pos'[j] = pos[j]
      /\ pos'[i].trade = t /\ pos'[i].legs = t.legs /\ pos'[i].qty = units /\ pos'[i].entry = f
      /\ cash' = cash - f * units - Fee(DOMAIN t.legs, units)
  BY <1>2 DEF Opened
<1>4. HeldOk'
  BY <1>0, <1>3 DEF HeldOk
<1>5. NotedOk'
  <2>1. seq \in Nat
    BY <1>0 DEF BookOk
  <2>2. \A r \in records : r.id \in 1..seq /\ r.id \notin DOMAIN pos
    BY <1>0 DEF NotedOk
  <2>3. \A r \in records : r.id \in 1..seq' /\ r.id \notin DOMAIN pos'
    BY <1>3, <2>1, <2>2
  <2> QED BY <1>0, <2>3 DEF NotedOk
<1>6. LiveInv'
  <2>1. DOMAIN live' = DOMAIN live \cup {i} /\ live'[i] = new /\ \A j \in DOMAIN live : j # i => live'[j] = live[j]
    BY DEF With
  <2>2. DOMAIN live = DOMAIN pos
    BY <1>0 DEF LiveInv
  <2>3. \A j \in DOMAIN live : live[j].strategy # new.strategy \/ live[j].symbol # new.symbol
    BY DEF HeldBy
  <2> HIDE DEF new, i
  <2> QED BY <1>0, <1>3, <2>1, <2>2, <2>3 DEF LiveInv
<1>7. Balanced'
  <2>1. CostTyped(pos') /\ CostTyped(pos)
    BY <1>0, <1>2, CostsInt, CostsNext
  <2>2. OpenCost(pos') = CostOf(pos'[i]) + OpenCost(pos)
    <3>1. DOMAIN pos = DOMAIN pos' \ {i} /\ i \in DOMAIN pos' /\ \A j \in DOMAIN pos : pos[j] = pos'[j]
      BY <1>3
    <3> HIDE DEF i
    <3> QED BY <2>1, <3>1, CostLess
  <2> DEFINE b == f * units
             fee == Fee(DOMAIN t.legs, units)
  <2>3. CostOf(pos'[i]) = b + fee /\ cash' = cash - b - fee
    BY <1>3 DEF CostOf
  <2>4. b \in Int /\ fee \in Int
    BY <1>1, OfferedOk, FeeInt, TimesInt DEF TradeOk
  <2> HIDE DEF b, fee, i
  <2>5. /\ Profit(records) \in Int /\ StartCash \in Int /\ OpenCost(pos) \in Int
        /\ cash = StartCash + Profit(records) - OpenCost(pos)
    BY <1>0, <2>1, ProfitInt, OpenCostInt, BrokerAssumption DEF NotedOk, Balanced
  <2>6. cash' = StartCash + Profit(records) - OpenCost(pos')
    BY <2>2, <2>3, <2>4, <2>5
  <2> QED BY <2>6 DEF Balanced
<1> QED BY <1>2, <1>4, <1>5, <1>6, <1>7 DEF MinuteLedger

-----------------------------------------------------------------------------
(* Closing.                                                                 *)

\* A quotient by 100 is at least what the dividend allows.
LEMMA DivMore ==
  ASSUME NEW x \in Int, NEW n \in Int, x >= n * 100
  PROVE  x \div 100 >= n
OBVIOUS

\* A quotient by 100 is at most what the dividend allows.
LEMMA DivLess ==
  ASSUME NEW x \in Int, NEW n \in Int, x <= n * 100
  PROVE  x \div 100 <= n
OBVIOUS

\* The haircut is adverse, whatever the sign of the mark.
LEMMA HaircutAdverse ==
  ASSUME NEW v \in Int
  PROVE  Haircut(v) \in Int /\ Haircut(v) <= v
<1>0. HaircutPct \in 1..100
  BY IntradayAssumption
<1>1. CASE v >= 0
  <2> DEFINE x == v * HaircutPct
  <2>1. x \in Int /\ x <= v * 100
    BY <1>0, <1>1
  <2>2. Haircut(v) = x \div 100
    BY <1>1 DEF Haircut
  <2> HIDE DEF x
  <2>3. x \div 100 \in Int
    BY <2>1, DivInt
  <2>4. x \div 100 <= v
    BY <2>1, DivLess
  <2> QED BY <2>2, <2>3, <2>4
<1>2. CASE ~(v >= 0)
  <2> DEFINE n == -v
             x == -v * (200 - HaircutPct)
  <2>1. n \in Nat /\ x = n * (200 - HaircutPct) /\ 200 - HaircutPct \in Int /\ 200 - HaircutPct >= 100
    BY <1>0, <1>2
  <2>2. x \in Int /\ x >= n * 100
    <3> DEFINE h == 200 - HaircutPct
    <3>1. h \in Int /\ h >= 100 /\ x = n * h /\ n \in Nat
      BY <2>1
    <3> HIDE DEF h, n, x
    <3>2. n * h >= n * 100 /\ n * h \in Int
      BY <3>1
    <3> QED BY <3>1, <3>2
  <2>3. Haircut(v) = -(x \div 100)
    BY <1>2 DEF Haircut
  <2> HIDE DEF x
  <2>4. x \div 100 \in Int
    BY <2>2, DivInt
  <2>5. x \div 100 >= n
    BY <2>1, <2>2, DivMore
  <2> QED BY <2>3, <2>4, <2>5
<1> QED BY <1>1, <1>2

\* A closing order fills at a whole number of cents.
LEMMA ClosePriceInt ==
  ASSUME NEW p, NEW s \in Slips, FillMid(p.trade.k) \in Int
  PROVE  ClosePrice(p, s) \in Int
<1> DEFINE v == FillMid(p.trade.k) - s
<1>1. v \in Int
  BY BrokerAssumption
<1> HIDE DEF v
<1>2. Max({0, v}) \in Int
  BY <1>1, MaxZero
<1> QED BY <1>1, <1>2 DEF ClosePrice, v

\* A position is closed at a price of this minute, or at the haircut of its mark.
Closed1(i, v) == Gone(i, v) /\ v \in Int /\ (CanClose(i) \/ v <= pos[i].value)

\* _close and force_close take one position off the book and record it; the ledger is kept.
LEMMA Closing ==
  ASSUME MinuteLedger, InSession, LoopTypes, NEW i \in DOMAIN pos,
         (CanClose(i) /\ CloseFilled(i)) \/ ForceClose(i), live' = Without(live, i)
  PROVE  MinuteLedger' /\ DOMAIN pos' = DOMAIN pos \ {i} /\ \E v \in Int : Closed1(i, v)
<1>0. BookOk /\ HeldOk /\ ReserveFollows
  BY DEF MinuteLedger
<1>1. /\ IsPos(pos[i]) /\ pos[i].legs = pos[i].trade.legs /\ pos[i].trade \in Range(Proposals)
      /\ pos[i].qty \in Nat \ {0} /\ pos[i].value \in Int
  BY <1>0 DEF BookOk, HeldOk, IsPos
<1>2. \E v \in Int : Closed1(i, v) /\ reserved' = Released(i, pos[i].qty, pos[i].qty)
  <2>1. CASE CanClose(i) /\ CloseFilled(i)
    <3> DEFINE k == pos[i].trade.k
               n == pos[i].qty
    <3>1. PICK s \in Slips : Close(i, n, ClosePrice(pos[i], s), FALSE)
                             /\ records' = records \cup {Record1(i, ClosePrice(pos[i], s))}
      BY <2>1 DEF CloseFilled
    <3> DEFINE c == ClosePrice(pos[i], s)
    <3>2. c \in Int
      <4>1. k \in Instruments /\ RowOk(k, row[k], age[k])
        BY <1>1, ProposalOk DEF ProposalFacts, LoopTypes
      <4>2. FillMid(k) \in Int
        BY <2>1, <4>1, MidInt DEF CanClose
      <4> QED BY <4>2, ClosePriceInt
    <3> HIDE DEF c
    <3>3. Close(i, n, c, FALSE) /\ records' = records \cup {Record1(i, c)}
      BY <3>1 DEF c
    <3>4. n - n = 0
      BY <1>1
    <3>5. pos' = Without(pos, i) /\ reserved' = Released(i, n, n) /\ seq' = seq
          /\ cash' = cash + c * n - Fee(DOMAIN pos[i].legs, n)
      BY <3>3, <3>4 DEF Close
    <3>6. Gone(i, c)
      BY <1>1, <3>3, <3>5 DEF Gone
    <3> QED BY <2>1, <3>2, <3>5, <3>6 DEF Closed1
  <2>2. CASE ForceClose(i)
    <3> DEFINE v == Haircut(pos[i].value)
    <3>1. v \in Int /\ v <= pos[i].value
      BY <1>1, HaircutAdverse
    <3>2. Gone(i, v) /\ reserved' = Released(i, pos[i].qty, pos[i].qty)
      BY <2>2 DEF ForceClose, Gone
    <3> HIDE DEF v
    <3> QED BY <3>1, <3>2 DEF Closed1
  <2> QED BY <2>1, <2>2
<1>3. PICK v \in Int : Closed1(i, v) /\ reserved' = Released(i, pos[i].qty, pos[i].qty)
  BY <1>2
<1>4. Gone(i, v)
  BY <1>3 DEF Closed1
<1>5. pos' = Without(pos, i)
  BY <1>4 DEF Gone
<1>6. ReserveFollows'
  BY <1>0, <1>3, <1>5, ReleaseAll
<1>7. MinuteLedger'
  BY <1>4, <1>6, GoneLedger
<1>8. DOMAIN pos' = DOMAIN pos \ {i}
  BY <1>5 DEF Without
<1> QED BY <1>3, <1>7, <1>8

\* The position that is looked at next is open.
LEMMA OneOpen == BookOk /\ queue # {} /\ queue \subseteq DOMAIN pos => One \in queue /\ One \in DOMAIN pos
BY LeastId DEF One

-----------------------------------------------------------------------------
(* Entering.                                                                *)

\* An order of proposal k, filled.
EnteredNow(k, f, mark, units) ==
  /\ k \in Instruments /\ ~HeldBy(Proposals[k]) /\ ~breaker /\ Fillable(k)
  /\ Open(Proposals[k], f, mark, units, session)
  /\ live' = With(live, seq + 1, [strategy |-> Proposals[k].engine, symbol |-> Proposals[k].sym, entered |-> minute])

\* _enter opens one position the mirror does not hold, before the breaker, in a market, or does nothing.
LEMMA ConsiderCases ==
  ASSUME MinuteInv, Consider
  PROVE  \/ UNCHANGED <<brokerVars, live>>
         \/ \E k \in Instruments, f \in Int, mark \in Int, units \in Nat \ {0} : EnteredNow(k, f, mark, units)
<1> DEFINE k == asked + 1
           t == Proposals[k]
           base == FixedFractional(Equity, t.riskPct, t)
           units == SizeEntry(t, base, Account, pos, sessionMarks, session)
<1>1. SUFFICES ASSUME ~UNCHANGED <<brokerVars, live>>
               PROVE  \E j \in Instruments, f \in Int, mark \in Int, n \in Nat \ {0} : EnteredNow(j, f, mark, n)
  OBVIOUS
<1>2. step = "entries" /\ asked < Len(Proposals) /\ ~HeldBy(t) /\ ~breaker /\ \E s \in Slips : Entered(k, units, s)
  BY <1>1 DEF Consider
<1>3. PICK s \in Slips : Entered(k, units, s)
  BY <1>2
<1>4. k \in Instruments
  <2>1. Len(Proposals) \in Nat /\ DOMAIN Proposals = 1..Len(Proposals) /\ asked \in Nat
    BY <1>2, IntradayAssumption DEF MinuteInv, LoopTypes
  <2> QED BY <1>2, <2>1 DEF Instruments
<1>5. BookOk /\ t \in Offered /\ RowOk(k, row[k], age[k])
  BY <1>2, <1>4, InstrumentOk DEF MinuteInv, MinuteLedger, LoopTypes, InSession, ProposalFacts
<1>6. units > 0 /\ Fillable(k)
  BY <1>3 DEF Entered
<1>7. base \in Int
  BY <1>5, DriverInt DEF DriverBase
<1> DEFINE f == FillMid(k) + s
           mark == IF HasMark(k, row[k], age[k]) THEN row[k].mid ELSE f
<1>8. f \in Int
  <2>1. FillMid(k) \in Int
    BY <1>4, <1>5, <1>6, MidInt
  <2> QED BY <2>1, BrokerAssumption
<1>9. mark \in Int
  <2> HIDE DEF f
  <2> QED BY <1>4, <1>5, <1>8, MidInt
<1>10. Open(t, f, mark, units, session)
       /\ live' = With(live, seq + 1, [strategy |-> t.engine, symbol |-> t.sym, entered |-> minute])
  BY <1>3 DEF Entered
<1> HIDE DEF base, f, mark
<1>11. units \in Nat \ {0}
  <2> HIDE DEF t
  <2> QED BY <1>5, <1>6, <1>7, SizeInt
<1> HIDE DEF units
<1>12. EnteredNow(k, f, mark, units)
  BY <1>2, <1>4, <1>6, <1>10 DEF EnteredNow
<1> QED BY <1>4, <1>8, <1>9, <1>11, <1>12

-----------------------------------------------------------------------------
(* The steps of the minute loop.                                            *)

\* The flatten has a minute.
LEMMA FlattenInt == closeAt \in Closes => FlattenAt \in Int
<1> SUFFICES ASSUME closeAt \in Closes PROVE FlattenAt \in Int
  OBVIOUS
<1>1. EodFlatten \in Int /\ closeAt - 2 \in Int
  BY IntradayAssumption
<1> DEFINE x == closeAt - 2
<1> HIDE DEF x
<1>2. Min({EodFlatten, x}) \in {EodFlatten, x}
  BY <1>1, MinTwo DEF x
<1> QED BY <1>1, <1>2 DEF FlattenAt, x

\* Nothing has been lost when the session opens.
LEMMA NothingLost == ASSUME NEW e \in Int PROVE ~Lost(e, e, DailyHaltPct)
<1>1. DailyHaltPct \in Nat \ {0} /\ 100 * (e - e) = 0
  BY RiskAssumption
<1>2. e > 0 => DailyHaltPct * e > 0
  BY <1>1
<1> QED BY <1>1, <1>2 DEF Lost

\* What an update of the market does to book and rows.
LEMMA MarketRead ==
  ASSUME MinuteLedger, LoopTypes, InSession, NEW gap, NEW now \in Readings(gap), UpdateMarket(now),
         UNCHANGED <<live, records>>
  PROVE  /\ Remarked /\ \A k \in Instruments : RowOk(k, row'[k], age'[k])
         /\ Worth(MarkedTo(now)) = Worth(pos') /\ Worth(pos') \in Int
<1>0. BookOk /\ HeldOk /\ \A k \in Instruments : RowOk(k, row[k], age[k])
  BY DEF MinuteLedger, LoopTypes
<1>1. \A k \in Instruments : RowOk(k, now[k][1], now[k][2])
  <2>1. \A k \in Instruments : now[k] \in NextRows(k, gap)
    BY DEF Readings
  <2> QED BY <1>0, <2>1, RowNext
<1>2. /\ \A k \in Instruments : row'[k] = now[k][1] /\ age'[k] = now[k][2]
      /\ pos' = MarkedTo(now) /\ UNCHANGED <<cash, reserved, seq>>
  BY DEF UpdateMarket
<1>3. \A k \in Instruments : RowOk(k, row'[k], age'[k])
  BY <1>1, <1>2
<1>4. DOMAIN pos' = DOMAIN pos
  BY <1>2 DEF MarkedTo
<1>5. ASSUME NEW i \in DOMAIN pos PROVE SameCost(pos'[i], pos[i])
  <2> DEFINE k == pos[i].trade.k
  <2>1. pos'[i] = IF HasMark(k, now[k][1], now[k][2]) THEN Marked(pos[i], now[k][1].mid) ELSE pos[i]
    BY <1>2 DEF MarkedTo
  <2>2. IsPos(pos[i]) /\ k \in Instruments
    BY <1>0, ProposalOk DEF BookOk, HeldOk, ProposalFacts
  <2>3. RowOk(k, now[k][1], now[k][2])
    BY <1>1, <2>2
  <2> HIDE DEF k
  <2>4. CASE HasMark(k, now[k][1], now[k][2])
    <3>1. now[k][1].mid \in Int
      BY <2>3, <2>4 DEF RowOk, HasMark
    <3> QED BY <2>1, <2>2, <2>4, <3>1, MarkCost
  <2>5. CASE ~HasMark(k, now[k][1], now[k][2])
    BY <2>1, <2>2, <2>5 DEF SameCost
  <2> QED BY <2>4, <2>5
<1>6. Remarked
  BY <1>2, <1>4, <1>5 DEF Remarked
<1>7. Worth(pos') \in Int
  <2>1. \A i \in DOMAIN pos' : pos'[i].value \in Int /\ pos'[i].qty \in Int
    BY <1>4, <1>5 DEF SameCost, IsPos
  <2>2. seq \in Nat /\ DOMAIN pos' \subseteq 1..seq
    BY <1>0, <1>4 DEF BookOk
  <2> QED BY <2>1, <2>2, WorthInt
<1> QED BY <1>2, <1>3, <1>6, <1>7

\* A step of the loop that leaves clock, rows and breaker alone.
Clockwork == UNCHANGED <<every, session, minute, closeAt, row, age, openEquity, breaker, worst>>

\* A step that leaves clock and rows alone keeps their types.
LEMMA ClockTypes ==
  ASSUME LoopTypes, InSession, Clockwork, step' \in {"market", "flatten", "exits", "entries", "last", "closed"},
         step' = "entries" => asked' \in Nat
  PROVE  LoopTypes'
BY DEF LoopTypes, InSession, Clockwork, RowOk, IsShares, Instruments

\* A step that leaves the equity seen and the breaker alone keeps the breaker's invariant.
LEMMA ClockBreaker ==
  ASSUME BreakerInv, InSession, UNCHANGED <<openEquity, breaker, worst>>
  PROVE  BreakerInv'
BY DEF BreakerInv

\* The flatten's minute moves only with the close.
LEMMA FlattenSame == closeAt' = closeAt => FlattenAt' = FlattenAt
BY DEF FlattenAt

\* The start of a session keeps the invariant: flat, no rows yet, nothing lost.
LEMMA SessionOpens == MinuteInv /\ OpenSession => MinuteInv'
<1> SUFFICES ASSUME MinuteInv, OpenSession PROVE MinuteInv'
  OBVIOUS
<1>0. MinuteLedger /\ BookOk /\ LoopTypes /\ StepInv /\ BreakerInv
  BY DEF MinuteInv, MinuteLedger
<1>1. /\ step = "idle" /\ cash' = cash /\ pos' = pos /\ reserved' = reserved /\ seq' = seq /\ live' = live
      /\ records' = records /\ every' = every /\ queue' = queue
  BY DEF OpenSession, brokerVars
<1>2. MinuteLedger'
  BY <1>0, <1>1, SameRemarked, RemarkedLedger
<1>3. DOMAIN pos' = {} /\ every' \in Nat \ {0} /\ minute \in Nat
  BY <1>0, <1>1 DEF StepInv, LoopTypes
<1>4. CASE step' = "closed"
  <2>1. minute' = minute
    BY <1>4 DEF OpenSession
  <2>2. LoopTypes' /\ StepInv' /\ BreakerInv'
    BY <1>3, <1>4, <2>1 DEF LoopTypes, StepInv, BreakerInv, InSession
  <2> QED BY <1>2, <2>2 DEF MinuteInv
<1>5. CASE step' # "closed"
  <2>1. /\ step' = "market" /\ closeAt' \in Closes /\ minute' = 1
        /\ row' = [k \in Instruments |-> [mid |-> NoMid]] /\ age' = [k \in Instruments |-> Staleness + 1]
        /\ openEquity' = Equity /\ worst' = Equity /\ breaker' = FALSE
    BY <1>5 DEF OpenSession
  <2>2. Equity \in Int
    BY <1>0, EquityInt
  <2>3. ASSUME NEW k \in Instruments PROVE RowOk(k, row'[k], age'[k])
    <3>1. row'[k].mid = NoMid /\ age'[k] # 0
      BY <2>1, IntradayAssumption
    <3> QED BY <3>1 DEF RowOk
  <2>4. LoopTypes'
    <3>1. \A k \in Instruments : RowOk(k, row'[k], age'[k])
      BY <2>3
    <3> QED BY <1>3, <2>1, <2>2, <3>1 DEF LoopTypes, InSession, RowOk, IsShares, Instruments
  <2>5. StepInv'
    BY <2>1 DEF StepInv
  <2>6. BreakerInv'
    BY <2>1, <2>2, NothingLost DEF BreakerInv
  <2> QED BY <1>2, <2>4, <2>5, <2>6 DEF MinuteInv
<1> QED BY <1>4, <1>5

\* update_market keeps the invariant: marks only, and the breaker sees the new equity.
LEMMA MinuteRead == MinuteInv /\ ReadMinute => MinuteInv'
<1> SUFFICES ASSUME MinuteInv, ReadMinute PROVE MinuteInv'
  OBVIOUS
<1>0. MinuteLedger /\ BookOk /\ LoopTypes /\ StepInv /\ BreakerInv
  BY DEF MinuteInv, MinuteLedger
<1>1. /\ step = "market" /\ InSession /\ minute' = minute /\ closeAt' = closeAt /\ every' = every
      /\ openEquity' = openEquity /\ queue' = DOMAIN pos /\ live' = live /\ records' = records
      /\ step' = (IF minute >= FlattenAt THEN "flatten" ELSE "exits")
  BY DEF ReadMinute, InSession
<1>2. PICK now \in Readings(every) :
        /\ UpdateMarket(now) /\ breaker' = Tripped(cash + Worth(MarkedTo(now)))
        /\ worst' = Min({worst, cash + Worth(MarkedTo(now))})
  BY DEF ReadMinute
<1> DEFINE equity == cash + Worth(MarkedTo(now))
<1>3. /\ Remarked /\ equity \in Int
      /\ \A k \in Instruments : RowOk(k, row'[k], age'[k])
  BY <1>0, <1>1, <1>2, MarketRead DEF BookOk
<1> HIDE DEF equity
<1>4. breaker' = Tripped(equity) /\ worst' = Min({worst, equity})
  BY <1>2 DEF equity
<1>5. DOMAIN pos' = DOMAIN pos
  BY <1>3 DEF Remarked
<1>6. MinuteLedger'
  BY <1>0, <1>3, RemarkedLedger
<1>7. worst \in Int /\ worst' \in {worst, equity} /\ worst' \in Int /\ closeAt \in Closes /\ openEquity \in Int
  <2>1. worst \in Int /\ closeAt \in Closes /\ openEquity \in Int
    BY <1>0, <1>1 DEF LoopTypes
  <2>2. Min({worst, equity}) \in {worst, equity}
    BY <1>3, <2>1, MinTwo
  <2> QED BY <1>3, <1>4, <2>1, <2>2
<1>8. LoopTypes'
  <2>1. \A k \in Instruments : RowOk(k, row'[k], age'[k])
    BY <1>3
  <2>2. step' \in {"flatten", "exits"}
    BY <1>1
  <2> QED BY <1>0, <1>1, <1>7, <2>1, <2>2 DEF LoopTypes, RowOk, IsShares, Instruments
<1>9. StepInv'
  BY <1>1, <1>5, FlattenSame DEF StepInv
<1>10. BreakerInv'
  <2>1. ~breaker' => ~breaker /\ ~Lost(equity, openEquity, DailyHaltPct)
    BY <1>4 DEF Tripped, Lost
  <2>2. ~breaker => ~Lost(worst, openEquity, DailyHaltPct)
    BY <1>0, <1>1 DEF BreakerInv
  <2> QED BY <1>1, <1>7, <2>1, <2>2 DEF BreakerInv
<1> QED BY <1>6, <1>8, <1>9, <1>10 DEF MinuteInv

\* _flatten_all, one position, keeps the invariant.
LEMMA FlattenOne == MinuteInv /\ Flatten => MinuteInv'
<1> SUFFICES ASSUME MinuteInv, Flatten PROVE MinuteInv'
  OBVIOUS
<1>0. MinuteLedger /\ BookOk /\ LoopTypes /\ StepInv /\ BreakerInv
  BY DEF MinuteInv, MinuteLedger
<1>1. /\ step \in {"flatten", "last"} /\ step' = step /\ InSession /\ InSession' /\ queue # {} /\ queue = DOMAIN pos
      /\ queue' = queue \ {One} /\ live' = Without(live, One) /\ Clockwork
      /\ (CanClose(One) /\ CloseFilled(One)) \/ ForceClose(One)
  BY <1>0 DEF Flatten, InSession, Looked, StepInv, Clockwork
<1>2. One \in DOMAIN pos
  BY <1>0, <1>1, OneOpen
<1>3. MinuteLedger' /\ DOMAIN pos' = DOMAIN pos \ {One}
  BY <1>0, <1>1, <1>2, Closing
<1>4. LoopTypes'
  BY <1>0, <1>1, ClockTypes
<1>5. StepInv'
  BY <1>0, <1>1, <1>3, FlattenSame DEF StepInv, Clockwork
<1>6. BreakerInv'
  BY <1>0, <1>1, ClockBreaker DEF Clockwork
<1> QED BY <1>3, <1>4, <1>5, <1>6 DEF MinuteInv

\* When the flatten has seen every position, none is open.
LEMMA FlattenOver == MinuteInv /\ Flattened => MinuteInv'
<1> SUFFICES ASSUME MinuteInv, Flattened PROVE MinuteInv'
  OBVIOUS
<1>0. MinuteLedger /\ BookOk /\ LoopTypes /\ StepInv /\ BreakerInv
  BY DEF MinuteInv, MinuteLedger
<1>1. /\ step \in {"flatten", "last"} /\ InSession /\ queue = {} /\ DOMAIN pos = {} /\ Clockwork
      /\ cash' = cash /\ pos' = pos /\ reserved' = reserved /\ seq' = seq /\ live' = live /\ records' = records
      /\ IF step = "last" THEN step' = "closed" ELSE step' = "exits" /\ queue' = DOMAIN pos
  BY <1>0 DEF Flattened, InSession, StepInv, Clockwork, brokerVars
<1>2. MinuteLedger'
  BY <1>0, <1>1, SameRemarked, RemarkedLedger
<1>3. LoopTypes'
  BY <1>0, <1>1, ClockTypes
<1>4. StepInv'
  BY <1>1 DEF StepInv
<1>5. BreakerInv'
  BY <1>0, <1>1, ClockBreaker DEF Clockwork
<1> QED BY <1>2, <1>3, <1>4, <1>5 DEF MinuteInv

\* _process_exits, one position, keeps the invariant, filled or refused.
LEMMA ExitOne == MinuteInv /\ ExitMinute => MinuteInv'
<1> SUFFICES ASSUME MinuteInv, ExitMinute PROVE MinuteInv'
  OBVIOUS
<1>0. MinuteLedger /\ BookOk /\ LoopTypes /\ StepInv /\ BreakerInv
  BY DEF MinuteInv, MinuteLedger
<1>1. /\ step = "exits" /\ step' = "exits" /\ InSession /\ queue # {} /\ queue \subseteq DOMAIN pos
      /\ queue' = queue \ {One} /\ Clockwork
  BY <1>0 DEF ExitMinute, InSession, Looked, StepInv, Clockwork
<1>2. One \in DOMAIN pos
  BY <1>0, <1>1, OneOpen
<1>3. MinuteLedger' /\ DOMAIN pos' \in {DOMAIN pos, DOMAIN pos \ {One}}
  <2>1. CASE CanClose(One) /\ CloseFilled(One) /\ live' = Without(live, One)
    BY <1>0, <1>1, <1>2, <2>1, Closing
  <2>2. CASE UNCHANGED <<brokerVars, records, live>>
    <3>1. UNCHANGED <<cash, pos, reserved, seq, live, records>>
      BY <2>2 DEF brokerVars
    <3> QED BY <1>0, <3>1, SameRemarked, RemarkedLedger
  <2> QED BY <2>1, <2>2 DEF ExitMinute, Kept
<1>4. LoopTypes'
  BY <1>0, <1>1, ClockTypes
<1>5. StepInv'
  BY <1>0, <1>1, <1>3, FlattenSame DEF StepInv, Clockwork
<1>6. BreakerInv'
  BY <1>0, <1>1, ClockBreaker DEF Clockwork
<1> QED BY <1>3, <1>4, <1>5, <1>6 DEF MinuteInv

\* The clock goes on by the pace.
LEMMA NextStep ==
  ASSUME MinuteInv, NextMinute, InSession, minute >= FlattenAt => DOMAIN pos = {},
         UNCHANGED <<cash, pos, reserved, seq, live, records, every, closeAt, row, age, openEquity, breaker, worst>>
  PROVE  MinuteInv'
<1>0. MinuteLedger /\ BookOk /\ LoopTypes /\ StepInv /\ BreakerInv
  BY DEF MinuteInv, MinuteLedger
<1>1. step' = "market" /\ minute' = minute + every /\ minute \in Nat /\ every \in Nat \ {0} /\ closeAt \in Closes
  BY <1>0 DEF NextMinute, LoopTypes
<1>2. MinuteLedger'
  BY <1>0, SameRemarked, RemarkedLedger
<1>3. LoopTypes'
  <2>1. \A k \in Instruments : RowOk(k, row'[k], age'[k])
    BY <1>0 DEF LoopTypes
  <2>2. minute' \in Nat /\ openEquity \in Int /\ worst \in Int
    BY <1>0, <1>1 DEF LoopTypes
  <2> QED BY <1>0, <1>1, <2>1, <2>2 DEF LoopTypes, RowOk, IsShares, Instruments
<1>4. minute' - every' = minute
  BY <1>1
<1>5. StepInv'
  BY <1>1, <1>4, FlattenSame DEF StepInv
<1>6. BreakerInv'
  BY <1>0, ClockBreaker
<1> QED BY <1>2, <1>3, <1>5, <1>6 DEF MinuteInv

\* The end of the exits keeps the invariant: entries only before the flatten.
LEMMA ExitsEnd == MinuteInv /\ ExitsOver => MinuteInv'
<1> SUFFICES ASSUME MinuteInv, ExitsOver PROVE MinuteInv'
  OBVIOUS
<1>0. MinuteLedger /\ BookOk /\ LoopTypes /\ StepInv /\ BreakerInv
  BY DEF MinuteInv, MinuteLedger
<1>1. /\ step = "exits" /\ InSession /\ (minute >= FlattenAt => DOMAIN pos = {})
      /\ UNCHANGED <<cash, pos, reserved, seq, live, records, every, session, closeAt, row, age, openEquity, breaker, worst>>
  BY <1>0 DEF ExitsOver, InSession, StepInv, brokerVars
<1>2. CASE minute < FlattenAt
  <2>1. step' = "entries" /\ asked' = 0 /\ minute' = minute
    BY <1>2 DEF ExitsOver
  <2>2. MinuteLedger'
    BY <1>0, <1>1, SameRemarked, RemarkedLedger
  <2>3. Clockwork
    BY <1>1, <2>1 DEF Clockwork
  <2>4. LoopTypes'
    BY <1>0, <1>1, <2>1, <2>3, ClockTypes
  <2>5. StepInv'
    BY <1>1, <1>2, <2>1, FlattenSame DEF StepInv
  <2>6. BreakerInv'
    BY <1>0, <1>1, ClockBreaker
  <2> QED BY <2>2, <2>4, <2>5, <2>6 DEF MinuteInv
<1>3. CASE ~(minute < FlattenAt)
  <2>1. NextMinute
    BY <1>3 DEF ExitsOver
  <2>2. DOMAIN pos = {}
    <3>1. minute \in Int /\ FlattenAt \in Int
      BY <1>0, <1>1, FlattenInt DEF LoopTypes
    <3> QED BY <1>1, <1>3, <3>1
  <2> QED BY <1>1, <2>1, <2>2, NextStep
<1> QED BY <1>2, <1>3

\* _enter keeps the invariant.
LEMMA ConsiderOne == MinuteInv /\ Consider => MinuteInv'
<1> SUFFICES ASSUME MinuteInv, Consider PROVE MinuteInv'
  OBVIOUS
<1>0. MinuteLedger /\ BookOk /\ LoopTypes /\ StepInv /\ BreakerInv
  BY DEF MinuteInv, MinuteLedger
<1>1. /\ step = "entries" /\ step' = "entries" /\ InSession /\ asked' = asked + 1 /\ records' = records /\ Clockwork
      /\ asked \in Nat /\ minute < FlattenAt
  BY <1>0 DEF Consider, InSession, Clockwork, LoopTypes, StepInv
<1>2. MinuteLedger'
  <2>1. CASE UNCHANGED <<brokerVars, live>>
    <3>1. UNCHANGED <<cash, pos, reserved, seq, live, records>>
      BY <1>1, <2>1 DEF brokerVars
    <3> QED BY <1>0, <3>1, SameRemarked, RemarkedLedger
  <2>2. CASE ~UNCHANGED <<brokerVars, live>>
    <3>1. PICK k \in Instruments, f \in Int, mark \in Int, units \in Nat \ {0} : EnteredNow(k, f, mark, units)
      BY <2>2, ConsiderCases
    <3>2. Proposals[k] \in Range(Proposals)
      BY InstrumentOk
    <3> QED BY <1>0, <1>1, <3>1, <3>2, OpenedLedger DEF EnteredNow
  <2> QED BY <2>1, <2>2
<1>3. LoopTypes'
  <2>1. asked' \in Nat
    BY <1>1
  <2> QED BY <1>0, <1>1, <2>1, ClockTypes
<1>4. StepInv'
  BY <1>1, FlattenSame DEF StepInv, Clockwork
<1>5. BreakerInv'
  BY <1>0, <1>1, ClockBreaker DEF Clockwork
<1> QED BY <1>2, <1>3, <1>4, <1>5 DEF MinuteInv

\* The next minute keeps the invariant.
LEMMA EntriesEnd == MinuteInv /\ EntriesOver => MinuteInv'
<1> SUFFICES ASSUME MinuteInv, EntriesOver PROVE MinuteInv'
  OBVIOUS
<1>1. /\ step = "entries" /\ InSession /\ NextMinute /\ minute < FlattenAt /\ minute \in Int /\ closeAt \in Closes
      /\ UNCHANGED <<cash, pos, reserved, seq, live, records, every, closeAt, row, age, openEquity, breaker, worst>>
  BY DEF EntriesOver, InSession, MinuteInv, StepInv, LoopTypes, brokerVars
<1>2. ~(minute >= FlattenAt)
  BY <1>1, FlattenInt
<1> QED BY <1>1, <1>2, NextStep

\* The update after the loop keeps the invariant.
LEMMA LoopEnd == MinuteInv /\ LoopOver => MinuteInv'
<1> SUFFICES ASSUME MinuteInv, LoopOver PROVE MinuteInv'
  OBVIOUS
<1>0. MinuteLedger /\ BookOk /\ LoopTypes /\ StepInv /\ BreakerInv
  BY DEF MinuteInv, MinuteLedger
<1>1. /\ step = "market" /\ minute > closeAt /\ InSession /\ step' = "last" /\ queue' = DOMAIN pos
      /\ UNCHANGED <<every, session, minute, closeAt, live, records, openEquity, breaker, worst>>
  BY DEF LoopOver, InSession
<1>2. Remarked /\ \A k \in Instruments : RowOk(k, row'[k], age'[k])
  <2>1. CASE DOMAIN pos = {}
    <3>1. UNCHANGED <<cash, pos, reserved, seq, live, records, row, age>>
      BY <1>1, <2>1 DEF LoopOver, brokerVars
    <3>2. \A k \in Instruments : RowOk(k, row[k], age[k])
      BY <1>0, <1>1 DEF LoopTypes
    <3> QED BY <1>0, <3>1, <3>2, SameRemarked
  <2>2. CASE DOMAIN pos # {}
    <3>1. PICK now \in Readings(Max({1, FlattenAt - (minute - every)})) : UpdateMarket(now)
      BY <2>2 DEF LoopOver
    <3> DEFINE gap == Max({1, FlattenAt - (minute - every)})
    <3>2. now \in Readings(gap)
      BY <3>1
    <3> HIDE DEF gap
    <3>3. UpdateMarket(now) /\ UNCHANGED <<live, records>>
      BY <1>1, <3>1
    <3> QED BY <1>0, <1>1, <3>2, <3>3, MarketRead
  <2> QED BY <2>1, <2>2
<1>3. DOMAIN pos' = DOMAIN pos
  BY <1>2 DEF Remarked
<1>4. MinuteLedger'
  BY <1>0, <1>2, RemarkedLedger
<1>5. LoopTypes'
  <2>1. closeAt \in Closes /\ openEquity \in Int /\ worst \in Int
    BY <1>0, <1>1 DEF LoopTypes
  <2> QED BY <1>0, <1>1, <1>2, <2>1 DEF LoopTypes, RowOk, IsShares, Instruments
<1>6. StepInv'
  BY <1>1, <1>3 DEF StepInv
<1>7. BreakerInv'
  BY <1>0, <1>1, ClockBreaker
<1> QED BY <1>4, <1>5, <1>6, <1>7 DEF MinuteInv

\* The end of a session keeps the invariant: it is flat.
LEMMA SessionCloses == MinuteInv /\ CloseSession => MinuteInv'
<1> SUFFICES ASSUME MinuteInv, CloseSession PROVE MinuteInv'
  OBVIOUS
<1>0. MinuteLedger /\ BookOk /\ LoopTypes /\ StepInv /\ BreakerInv
  BY DEF MinuteInv, MinuteLedger
<1>1. /\ step' \in {"done", "idle"} /\ DOMAIN pos = {} /\ minute' = 0 /\ every' = every
      /\ UNCHANGED <<cash, pos, reserved, seq, live, records>>
  BY DEF CloseSession, brokerVars
<1>2. MinuteLedger'
  BY <1>0, <1>1, SameRemarked, RemarkedLedger
<1>3. LoopTypes' /\ StepInv' /\ BreakerInv'
  <2>1. every' \in Nat \ {0}
    BY <1>0, <1>1 DEF LoopTypes
  <2> QED BY <1>1, <2>1 DEF LoopTypes, StepInv, BreakerInv, InSession
<1> QED BY <1>2, <1>3 DEF MinuteInv

\* Nothing moves.
LEMMA MinuteStill == MinuteInv /\ UNCHANGED <<brokerVars, minuteVars>> => MinuteInv'
<1> SUFFICES ASSUME MinuteInv, UNCHANGED <<brokerVars, minuteVars>> PROVE MinuteInv'
  OBVIOUS
<1>0. MinuteLedger /\ BookOk /\ LoopTypes /\ StepInv /\ BreakerInv
  BY DEF MinuteInv, MinuteLedger
<1>1. /\ UNCHANGED <<cash, pos, reserved, seq, live, records>>
      /\ UNCHANGED <<every, session, minute, closeAt, step, row, age, queue, asked, openEquity, breaker, worst>>
  BY DEF brokerVars, minuteVars
<1>2. MinuteLedger'
  BY <1>0, <1>1, SameRemarked, RemarkedLedger
<1>3. LoopTypes'
  BY <1>0, <1>1 DEF LoopTypes, InSession, RowOk, IsShares, Instruments
<1>4. StepInv' /\ BreakerInv'
  BY <1>0, <1>1, FlattenSame DEF StepInv, BreakerInv, InSession
<1> QED BY <1>2, <1>3, <1>4 DEF MinuteInv

\* The invariant of the minute loop is kept by every step of it.
LEMMA MinuteNext == MinuteInv /\ IntradayNext => MinuteInv'
BY SessionOpens, MinuteRead, FlattenOne, FlattenOver, ExitOne, ExitsEnd, ConsiderOne, EntriesEnd, LoopEnd,
   SessionCloses, MinuteStill DEF IntradayNext, IntradayDone

\* The invariant of the minute loop holds when the replay starts.
LEMMA MinuteStart == IntradayInit => MinuteInv
<1> SUFFICES ASSUME IntradayInit PROVE MinuteInv
  OBVIOUS
<1>1. /\ cash = StartCash /\ seq = 0 /\ DOMAIN pos = {} /\ DOMAIN reserved = {} /\ DOMAIN live = {} /\ records = {}
      /\ step = "idle" /\ every \in Paces /\ minute = 0
  BY DEF IntradayInit, BrokerInit, AtRest
<1>2. BookOk /\ HeldOk /\ LiveInv /\ ReserveFollows
  BY <1>1, BrokerAssumption DEF BookOk, HeldOk, LiveInv, ReserveFollows
<1>3. NotedOk
  BY <1>1, FS_EmptySet DEF NotedOk, RecordsOk
<1>4. Balanced
  <2>1. Profit(records) = 0
    <3> DEFINE f == [r \in records |-> r.pnl]
    <3>1. DOMAIN f = {}
      BY <1>1
    <3> HIDE DEF f
    <3> QED BY <3>1, SumEmpty DEF Profit, f
  <2>2. OpenCost(pos) = 0
    <3> DEFINE f == [i \in DOMAIN pos |-> CostOf(pos[i])]
    <3>1. DOMAIN f = {}
      BY <1>1
    <3> HIDE DEF f
    <3> QED BY <3>1, SumEmpty DEF OpenCost, f
  <2> QED BY <1>1, <2>1, <2>2, BrokerAssumption DEF Balanced
<1>5. every \in Nat \ {0}
  BY <1>1, IntradayAssumption
<1>6. LoopTypes /\ StepInv /\ BreakerInv
  BY <1>1, <1>5 DEF LoopTypes, StepInv, BreakerInv, InSession
<1> QED BY <1>2, <1>3, <1>4, <1>6 DEF MinuteInv, MinuteLedger

-----------------------------------------------------------------------------
(* Both engines.                                                            *)

DayRuns == step = "off" /\ AtRest /\ DailyInv
MinuteRuns == phase = "off" /\ Fresh /\ MinuteInv
BenchInv == DayRuns \/ MinuteRuns

\* The daily invariant speaks of a loop that runs.
LEMMA DayOn == DailyInv => phase # "off"
BY DEF DailyInv, LedgerInv, DayTypes

\* The invariant of the minute loop speaks of a loop that runs.
LEMMA MinuteOn == MinuteInv => step # "off"
BY DEF MinuteInv, LoopTypes

\* Whichever engine is replayed starts within its invariant.
LEMMA BenchStart == BenchInit => BenchInv
BY DailyStart, MinuteStart DEF BenchInit, BenchInv, DayRuns, MinuteRuns, IntradayRest, DailyRest

\* A stutter keeps the daily invariant.
LEMMA DailyStill == DailyInv /\ UNCHANGED dailyVars => DailyInv'
<1> SUFFICES ASSUME DailyInv, UNCHANGED dailyVars PROVE DailyInv'
  OBVIOUS
<1> USE DEF dailyVars, brokerVars, loopVars
<1>1. LedgerInv'
  BY DEF DailyInv, LedgerInv, DayTypes, BookOk, MirrorInv, Mirrored, PartInv, RealInv, CashInv, Equity, ReserveFollows
<1>2. BetInv'
  BY DEF DailyInv, BetInv, OnePerSymbol, Already, Open1
<1>3. DueInv'
  BY DEF DailyInv, DueInv
<1> QED BY <1>1, <1>2, <1>3 DEF DailyInv

\* A step of the bench is one of the engine that runs.
DayStep == DayRuns /\ DayRuns' /\ (DailyNext \/ UNCHANGED dailyVars) /\ UNCHANGED minuteVars
MinuteStep == MinuteRuns /\ MinuteRuns' /\ (IntradayNext \/ UNCHANGED <<brokerVars, minuteVars>>) /\ UNCHANGED loopVars

\* A step of the bench is a step of the engine that runs, and the other stays at rest.
LEMMA BenchStep == BenchInv /\ [BenchNext]_benchVars => DayStep \/ MinuteStep
<1> SUFFICES ASSUME BenchInv, [BenchNext]_benchVars PROVE DayStep \/ MinuteStep
  OBVIOUS
<1>1. CASE DayRuns
  <2>1. (DailyNext \/ UNCHANGED dailyVars) /\ UNCHANGED minuteVars
    BY <1>1 DEF BenchNext, benchVars, dailyVars, DayRuns
  <2>2. DailyInv'
    BY <1>1, <2>1, DailyKept, DailyStill DEF DayRuns
  <2>3. step' = "off" /\ AtRest'
    BY <1>1, <2>1 DEF DayRuns, AtRest, minuteVars
  <2> QED BY <1>1, <2>1, <2>2, <2>3 DEF DayStep, DayRuns
<1>2. CASE MinuteRuns
  <2>1. (IntradayNext \/ UNCHANGED <<brokerVars, minuteVars>>) /\ UNCHANGED loopVars
    BY <1>2 DEF BenchNext, benchVars, MinuteRuns
  <2>2. MinuteInv'
    BY <1>2, <2>1, MinuteNext, MinuteStill DEF MinuteRuns
  <2>3. phase' = "off" /\ Fresh'
    BY <1>2, <2>1 DEF MinuteRuns, Fresh, loopVars
  <2> QED BY <1>2, <2>1, <2>2, <2>3 DEF MinuteStep, MinuteRuns
<1> QED BY <1>1, <1>2 DEF BenchInv

\* The invariant of the bench is kept by every step.
LEMMA BenchKept == BenchInv /\ [BenchNext]_benchVars => BenchInv'
BY BenchStep DEF DayStep, MinuteStep, BenchInv

\* The ledger is strong enough for the agreement of mirror and broker.
LEMMA BenchBooks == BenchInv => BooksAgree
<1>1. CASE DayRuns
  BY <1>1, DailyBooks DEF DayRuns, DailyInv, BooksAgree
<1>2. CASE MinuteRuns
  BY <1>2 DEF MinuteRuns, BooksAgree, MirrorExact, RecordsAgree, Swept
<1> QED BY <1>1, <1>2 DEF BenchInv

\* The ledger is strong enough for the reconciliation of cash and records.
LEMMA BenchMoney == BenchInv => MoneyKept
<1>1. CASE DayRuns
  BY <1>1, DailyBooks DEF DayRuns, DailyInv, MoneyKept
<1>2. CASE MinuteRuns
  BY <1>2 DEF MinuteRuns, MinuteInv, MinuteLedger, MoneyKept, Reconciled, Swept
<1> QED BY <1>1, <1>2 DEF BenchInv

\* The bets' invariant is strong enough for what must not be doubled or carried.
LEMMA BenchBets == BenchInv => BetsKept
<1>1. CASE DayRuns
  BY <1>1, DailyBets DEF DayRuns, DailyInv, BetsKept
<1>2. CASE MinuteRuns
  <2>1. DOMAIN state = {} /\ trades = {} /\ phase = "off"
    BY <1>2 DEF MinuteRuns, Fresh
  <2>2. OneEntryPerBet
    <3>1. ASSUME NEW b
          PROVE  Cardinality({i \in DOMAIN state : state[i].bet = b}) + Cardinality({r \in trades : r.bet = b}) <= 1
      <4>1. {i \in DOMAIN state : state[i].bet = b} = {} /\ {r \in trades : r.bet = b} = {}
        BY <2>1
      <4> QED BY <4>1, FS_EmptySet
    <3> QED BY <3>1 DEF OneEntryPerBet
  <2>3. OnePerSymbol /\ NoneOverdue
    BY <2>1 DEF OnePerSymbol, NoneOverdue
  <2> QED BY <2>2, <2>3 DEF BetsKept
<1> QED BY <1>1, <1>2 DEF BenchInv

\* The invariant of the minute loop is strong enough for flatness and its books.
LEMMA BenchMinutes == BenchInv => IntradayKept
<1>1. CASE DayRuns
  BY <1>1 DEF DayRuns, IntradayKept, FlatByClose, MinuteBooks
<1>2. CASE MinuteRuns
  <2>1. FlatByClose
    BY <1>2 DEF MinuteRuns, MinuteInv, StepInv, FlatByClose
  <2>2. MinuteBooks
    BY <1>2 DEF MinuteRuns, MinuteInv, MinuteLedger, LiveInv, Balanced, OpenCost, CostOf, Profit, MinuteBooks
  <2> QED BY <2>1, <2>2 DEF IntradayKept
<1> QED BY <1>1, <1>2 DEF BenchInv

\* Books (BooksAgree): after every sweep the backtester's open_state is the broker's book, with the
\* same units left and the same realized profit, over entries, scale-outs, settled legs and expiries.
THEOREM BooksTrue == BenchSpec => []BooksAgree
BY BenchStart, BenchKept, BenchBooks, PTL DEF BenchSpec

\* Money (MoneyKept): whenever the market update is over, in every replay, cash is the starting capital, the
\* recorded profits and what open trades have cost and returned, the records of a finished run
\* explain its equity, and collateral is what the open units were posted for.
THEOREM MoneyTrue == BenchSpec => []MoneyKept
BY BenchStart, BenchKept, BenchMoney, PTL DEF BenchSpec

\* Bets (BetsKept): _process_entries never enters a catalyst's bet twice, nor a symbol the strategy
\* holds, and no position is carried past its expiry buffer or time stop unless its order was refused.
THEOREM BetsTrue == BenchSpec => []BetsKept
BY BenchStart, BenchKept, BenchBets, PTL DEF BenchSpec

\* The intraday engine (IntradayKept) is flat at every close and past every flatten, its mirror is
\* the broker's book, and its records explain the cash, over refused closes and synthetic fills.
THEOREM IntradayTrue == BenchSpec => []IntradayKept
BY BenchStart, BenchKept, BenchMinutes, PTL DEF BenchSpec

-----------------------------------------------------------------------------
(* What a minute may do.                                                    *)

\* A fill that was not forced had a market.
QuotedAt(k) == IF IsShares(k) THEN age[k] = 0 ELSE age[k] <= Staleness /\ row[k].mid # NoMid

\* What can be filled has a market in this minute.
LEMMA FillableQuoted == \A k : Fillable(k) => QuotedAt(k)
BY DEF Fillable, HasMark, QuotedAt

\* The record of a position that has gone is the one that was made.
LEMMA BookedOne ==
  ASSUME RecordsOk(records'), NEW i, NEW x, x.id = i, x \in records'
  PROVE  (CHOOSE r \in records' : r.id = i) = x
<1>1. \A r \in records' : r.id = i => r = x
  BY DEF RecordsOk
<1>2. \E r \in records' : r.id = i
  OBVIOUS
<1> QED BY <1>1, <1>2

\* A closing is at a price of the minute, or forced and not better than the mark.
LEMMA ClosedReal ==
  ASSUME MinuteLedger, MinuteLedger', NEW i \in DOMAIN pos, NEW v \in Int, Closed1(i, v),
         minute >= FlattenAt \/ minute > closeAt \/ CanClose(i)
  PROVE  RealFill
<1>1. /\ DOMAIN pos' = DOMAIN pos \ {i} /\ Record1(i, v) \in records'
  BY DEF Closed1, Gone, Without
<1>2. IsPos(pos[i])
  BY DEF MinuteLedger, BookOk
<1> DEFINE k == pos[i].trade.k
           x == Record1(i, v)
           q == pos[i].qty
           fee == Fee(DOMAIN pos[i].trade.legs, pos[i].qty)
           booked == CHOOSE r \in records' : r.id = i
<1>3. booked = x
  <2>1. RecordsOk(records')
    BY DEF MinuteLedger, NotedOk
  <2>2. x.id = i
    BY DEF Record1
  <2> HIDE DEF x
  <2> QED BY <1>1, <2>1, <2>2, BookedOne DEF x
<1>4. CASE CanClose(i)
  <2>1. row[k].buyer /\ QuotedAt(k)
    BY <1>4, FillableQuoted DEF CanClose
  <2> QED BY <1>1, <2>1 DEF RealFill, QuotedAt
<1>5. CASE ~CanClose(i)
  <2>1. v <= pos[i].value /\ (minute >= FlattenAt \/ minute > closeAt)
    BY <1>5 DEF Closed1
  <2>2. x.pnl = (v - pos[i].entry) * q - 2 * fee
    BY DEF Record1
  <2>3. /\ v - pos[i].entry \in Int /\ pos[i].value - pos[i].entry \in Int /\ q \in Nat /\ fee \in Int
        /\ v - pos[i].entry <= pos[i].value - pos[i].entry
    BY <1>2, <2>1, PosFee DEF IsPos
  <2>4. (v - pos[i].entry) * q <= (pos[i].value - pos[i].entry) * q
    <3> DEFINE a == v - pos[i].entry
               b == pos[i].value - pos[i].entry
    <3>1. a \in Int /\ b \in Int /\ a <= b /\ q \in Nat
      BY <2>3
    <3> HIDE DEF a, b, q
    <3>2. a * q <= b * q
      BY <3>1
    <3> QED BY <3>2 DEF a, b
  <2>5. x.pnl + 2 * fee <= (pos[i].value - pos[i].entry) * q
    <3> DEFINE c == (v - pos[i].entry) * q
               d == (pos[i].value - pos[i].entry) * q
    <3>1. c \in Int /\ d \in Int /\ c <= d /\ fee \in Int /\ x.pnl = c - 2 * fee
      BY <2>2, <2>3, <2>4, TimesInt
    <3> HIDE DEF c, d, x, fee
    <3>2. x.pnl + 2 * fee <= d
      BY <3>1
    <3> QED BY <3>2 DEF d
  <2>6. booked.pnl + 2 * fee <= (pos[i].value - pos[i].entry) * q
    <3> HIDE DEF booked, x, fee, q
    <3> QED BY <1>3, <2>5
  <2> QED BY <1>1, <2>1, <2>6 DEF RealFill
<1> QED BY <1>4, <1>5

\* A step that opens and closes nothing fills nothing.
LEMMA NothingFilled == DOMAIN pos' = DOMAIN pos => RealFill
BY DEF RealFill

\* Every step of the minute loop fills only in a market and enters only before breaker and flatten.
LEMMA MinuteReal == MinuteInv /\ MinuteInv' /\ IntradayNext => RealFill /\ EnteredInTime
<1> SUFFICES ASSUME MinuteInv, MinuteInv', IntradayNext PROVE RealFill /\ EnteredInTime
  OBVIOUS
<1>0. MinuteLedger /\ MinuteLedger' /\ BookOk /\ LoopTypes /\ StepInv /\ BreakerInv /\ seq \in Nat
  BY DEF MinuteInv, MinuteLedger, BookOk
<1>1. CASE OpenSession \/ Flattened \/ ExitsOver \/ EntriesOver \/ CloseSession \/ IntradayDone
  <2>1. pos' = pos /\ seq' = seq
    BY <1>1 DEF OpenSession, Flattened, ExitsOver, EntriesOver, CloseSession, IntradayDone, brokerVars
  <2> QED BY <1>0, <2>1, NothingFilled DEF EnteredInTime
<1>2. CASE ReadMinute \/ LoopOver
  <2>1. DOMAIN pos' = DOMAIN pos /\ seq' = seq
    BY <1>2 DEF ReadMinute, LoopOver, UpdateMarket, MarkedTo, brokerVars
  <2> QED BY <1>0, <2>1, NothingFilled DEF EnteredInTime
<1>3. CASE Flatten
  <2>1. /\ step \in {"flatten", "last"} /\ InSession /\ queue # {} /\ queue = DOMAIN pos
        /\ live' = Without(live, One)
        /\ ((CanClose(One) /\ CloseFilled(One)) \/ ForceClose(One))
    BY <1>0, <1>3 DEF Flatten, InSession, StepInv
  <2>2. One \in DOMAIN pos
    BY <1>0, <2>1, OneOpen
  <2>3. PICK v \in Int : Closed1(One, v)
    BY <1>0, <2>1, <2>2, Closing
  <2>4. minute >= FlattenAt \/ minute > closeAt
    BY <1>0, <2>1 DEF StepInv
  <2>5. RealFill
    BY <1>0, <2>2, <2>3, <2>4, ClosedReal
  <2>6. seq' = seq
    BY <2>3 DEF Closed1, Gone
  <2> QED BY <1>0, <2>5, <2>6 DEF EnteredInTime
<1>4. CASE ExitMinute
  <2>1. /\ step = "exits" /\ InSession /\ queue # {} /\ queue \subseteq DOMAIN pos
    BY <1>0, <1>4 DEF ExitMinute, InSession, StepInv
  <2>2. One \in DOMAIN pos
    BY <1>0, <2>1, OneOpen
  <2>3. CASE CanClose(One) /\ CloseFilled(One) /\ live' = Without(live, One)
    <3>1. PICK v \in Int : Closed1(One, v)
      BY <1>0, <2>1, <2>2, <2>3, Closing
    <3>2. RealFill
      BY <1>0, <2>2, <2>3, <3>1, ClosedReal
    <3>3. seq' = seq
      BY <3>1 DEF Closed1, Gone
    <3> QED BY <1>0, <3>2, <3>3 DEF EnteredInTime
  <2>4. CASE UNCHANGED <<brokerVars, records, live>>
    <3>1. pos' = pos /\ seq' = seq
      BY <2>4 DEF brokerVars
    <3> QED BY <1>0, <3>1, NothingFilled DEF EnteredInTime
  <2> QED BY <1>4, <2>3, <2>4 DEF ExitMinute, Kept
<1>5. CASE Consider
  <2>1. step = "entries" /\ InSession /\ minute < FlattenAt
    BY <1>0, <1>5 DEF Consider, InSession, StepInv
  <2>2. CASE UNCHANGED <<brokerVars, live>>
    <3>1. pos' = pos /\ seq' = seq
      BY <2>2 DEF brokerVars
    <3> QED BY <1>0, <3>1, NothingFilled DEF EnteredInTime
  <2>3. CASE ~UNCHANGED <<brokerVars, live>>
    <3>1. PICK k \in Instruments, f \in Int, mark \in Int, units \in Nat \ {0} : EnteredNow(k, f, mark, units)
      BY <1>5, <2>3, ConsiderCases
    <3>2. ProposalFacts(Proposals[k]) /\ Proposals[k].k = k
      BY InstrumentOk
    <3>3. Opened(Proposals[k], f, mark, units, session)
      BY <1>0, <3>1, <3>2, OpenBook DEF EnteredNow, ProposalFacts
    <3>4. DOMAIN pos' = DOMAIN pos \cup {seq + 1} /\ pos'[seq + 1].trade = Proposals[k]
      BY <3>3 DEF Opened
    <3>5. QuotedAt(k)
      BY <3>1, FillableQuoted DEF EnteredNow
    <3>6. RealFill
      BY <3>2, <3>4, <3>5 DEF RealFill, QuotedAt
    <3>7. EnteredInTime
      BY <1>0, <2>1, <3>1 DEF EnteredInTime, EnteredNow, BreakerInv
    <3> QED BY <3>6, <3>7
  <2> QED BY <2>2, <2>3
<1> QED BY <1>1, <1>2, <1>3, <1>4, <1>5 DEF IntradayNext

\* The same of every step of the bench, whichever engine runs.
LEMMA BenchReal ==
  BenchInv /\ [BenchNext]_benchVars => [RealFill]_<<brokerVars, minuteVars>> /\ [EnteredInTime]_<<brokerVars, minuteVars>>
<1> SUFFICES ASSUME BenchInv, [BenchNext]_benchVars
             PROVE  [RealFill]_<<brokerVars, minuteVars>> /\ [EnteredInTime]_<<brokerVars, minuteVars>>
  OBVIOUS
<1>1. CASE DayStep
  BY <1>1 DEF DayStep, DayRuns, RealFill, EnteredInTime
<1>2. CASE MinuteStep
  BY <1>2, MinuteReal DEF MinuteStep, MinuteRuns
<1> QED BY <1>1, <1>2, BenchStep

\* Fills are real and the breaker holds (MinutesKept): whatever the rows and the pace, what is opened
\* or sold had a market in that minute, a synthetic close (force_close) books no better than the mark,
\* and nothing is entered once the session's equity has been at the halt.
THEOREM MinutesTrue == BenchSpec => MinutesKept
<1>1. BenchInit => BenchInv
  BY BenchStart
<1>2. BenchInv /\ [BenchNext]_benchVars => BenchInv'
  BY BenchKept
<1>3. BenchInv /\ [BenchNext]_benchVars => [RealFill]_<<brokerVars, minuteVars>>
  BY BenchReal
<1>4. BenchInv /\ [BenchNext]_benchVars => [EnteredInTime]_<<brokerVars, minuteVars>>
  BY BenchReal
<1> QED BY <1>1, <1>2, <1>3, <1>4, PTL DEF BenchSpec, MinutesKept, FillsAreReal, BreakerHolds

-----------------------------------------------------------------------------
(* The trade book, as KeepsTradeBook reads it off the variables of either engine. *)

OpenTrades == DOMAIN state \cup DOMAIN live
BookedTrades == {r.id : r \in trades} \cup {r.id : r \in records}
Outcome == IF phase = "done" \/ step = "done" THEN "returned" ELSE "running"
bookView == <<OpenTrades, BookedTrades, Outcome>>
BookMoves == [Book!BookNext]_(Book!bookVars)

\* A step that leaves the view alone is a stutter of the trade book.
LEMMA ViewSame == UNCHANGED bookView => BookMoves
BY DEF BookMoves, Book!bookVars, bookView, OpenTrades, BookedTrades, Outcome

\* One trade is opened under a new name.
LEMMA OpensOne ==
  ASSUME NEW i, i \notin OpenTrades, i \notin BookedTrades, Outcome = "running", UNCHANGED <<BookedTrades, Outcome>>,
         OpenTrades' = OpenTrades \cup {i}
  PROVE  BookMoves
<1>1. OpenTrades' \ OpenTrades = {i}
  OBVIOUS
<1>2. Cardinality({i}) = 1
  BY FS_Singleton
<1>3. Book!Cardinality({i}) = Cardinality({i})
  BY Zenon DEF Book!Cardinality, Cardinality
<1>4. /\ OpenTrades \subseteq OpenTrades' /\ Book!Cardinality(OpenTrades' \ OpenTrades) = 1
      /\ (OpenTrades' \ OpenTrades) \cap BookedTrades = {}
  BY <1>1, <1>2, <1>3
<1>5. Book!OpenOne
  BY <1>4, Zenon DEF Book!OpenOne, Outcome, OpenTrades, BookedTrades
<1> QED BY <1>5 DEF BookMoves, Book!BookNext, Outcome

\* Trades are closed by being booked.
LEMMA ClosesSome ==
  ASSUME NEW M, M \subseteq OpenTrades, Outcome = "running", UNCHANGED Outcome,
         OpenTrades' = OpenTrades \ M, BookedTrades' = BookedTrades \cup M
  PROVE  BookMoves
<1>1. CASE M = {}
  BY <1>1, ViewSame DEF bookView
<1>2. CASE M # {}
  <2>1. OpenTrades' \subseteq OpenTrades /\ OpenTrades' # OpenTrades /\ OpenTrades \ OpenTrades' = M
    BY <1>2
  <2>2. BookedTrades' = BookedTrades \cup (OpenTrades \ OpenTrades')
    BY <2>1
  <2>3. Book!CloseSome
    BY <2>1, <2>2 DEF Book!CloseSome, Outcome, OpenTrades, BookedTrades
  <2> QED BY <2>3 DEF BookMoves, Book!BookNext, Outcome
<1> QED BY <1>1, <1>2

\* The run returns and books what was open.
LEMMA Returns ==
  ASSUME Outcome = "running", Outcome' = "returned", OpenTrades' = {}, BookedTrades' = BookedTrades \cup OpenTrades
  PROVE  BookMoves
<1>1. Book!Return
  BY DEF Book!Return, Outcome, OpenTrades, BookedTrades
<1> QED BY <1>1 DEF BookMoves, Book!BookNext, Outcome

-----------------------------------------------------------------------------
(* Every step of the daily engine.                                          *)

\* What the view shows while the daily engine runs.
DayShown ==
  /\ OpenTrades = DOMAIN state /\ BookedTrades = {r.id : r \in trades}
  /\ Outcome = IF phase = "done" THEN "returned" ELSE "running"

\* What the view shows while the daily engine runs.
LEMMA DayView == DayRuns => DayShown
<1> SUFFICES ASSUME DayRuns PROVE DayShown
  OBVIOUS
<1>1. DOMAIN live = {} /\ records = {} /\ step # "done"
  BY DEF DayRuns, AtRest
<1> QED BY <1>1 DEF DayShown, OpenTrades, BookedTrades, Outcome

\* The same of the next state.
LEMMA DayViewNext == (DayRuns => DayShown)'
BY DayView, PTL

\* Every step of the daily engine is a step of the trade book, or leaves it alone.
LEMMA DayBook == DayStep => BookMoves
<1> SUFFICES ASSUME DayStep PROVE BookMoves
  OBVIOUS
<1>0. DayRuns /\ DayRuns' /\ LedgerInv /\ DayTypes
  BY DEF DayStep, DayRuns, DailyInv, LedgerInv
<1>1. /\ OpenTrades = DOMAIN state /\ BookedTrades = {r.id : r \in trades}
      /\ Outcome = IF phase = "done" THEN "returned" ELSE "running"
  BY <1>0, DayView DEF DayShown
<1>2. /\ OpenTrades' = DOMAIN state' /\ BookedTrades' = {r.id : r \in trades'}
      /\ Outcome' = IF phase' = "done" THEN "returned" ELSE "running"
  BY <1>0, DayViewNext DEF DayShown
<1>3. ASSUME state' = state, trades' = trades, phase = "done" <=> phase' = "done" PROVE BookMoves
  BY <1>1, <1>2, <1>3, ViewSame DEF bookView
<1>4. CASE UNCHANGED dailyVars
  BY <1>3, <1>4 DEF dailyVars, loopVars
<1>5. CASE BeginSession \/ Refresh \/ KeepPosition \/ ExitRejected \/ ExitsDone \/ BeginEntries \/ BeginScheduled
           \/ EndSession \/ Finished
  BY <1>3, <1>5 DEF BeginSession, Refresh, KeepPosition, ExitRejected, ExitsDone, BeginEntries, BeginScheduled,
                    EndSession, Finished, dailyVars, loopVars
<1>6. CASE Sweep
  <2> DEFINE gone == DOMAIN state \ DOMAIN pos
             rec == [i \in gone |-> Record(i, Expire(i, Folded(i, state[i])))]
  <2>1. DOMAIN state' = DOMAIN state \ gone /\ trades' = trades \cup {rec[i] : i \in gone} /\ phase = "market" /\ phase' = "exits"
    BY <1>6 DEF Sweep
  <2>2. \A i \in gone : rec[i].id = i
    BY DEF Record
  <2> HIDE DEF rec, gone
  <2>3. {r.id : r \in trades'} = {r.id : r \in trades} \cup gone
    BY <2>1, <2>2
  <2>4. gone \subseteq DOMAIN state
    BY DEF gone
  <2> QED BY <1>1, <1>2, <2>1, <2>3, <2>4, ClosesSome
<1>7. CASE ExitFilled
  <2>1. PICK st : Booked(Next1, st)
    BY <1>7 DEF ExitFilled
  <2>2. phase = "exits" /\ phase' = phase /\ Next1 \in DOMAIN state
    <3>1. phase = "exits" /\ phase' = phase /\ todo # {} /\ todo \subseteq DOMAIN pos /\ BookOk
      BY <1>0, <1>7 DEF ExitFilled, DayTypes
    <3>2. Next1 \in DOMAIN pos
      BY <3>1, LeastId DEF Next1
    <3>3. DOMAIN pos \subseteq DOMAIN state
      BY <1>0, <3>1 DEF LedgerInv, MirrorInv
    <3> QED BY <3>1, <3>2, <3>3
  <2>3. CASE st.closed >= st.maxQty
    <3>1. trades' = trades \cup {Record(Next1, st)} /\ DOMAIN state' = DOMAIN state \ {Next1}
      BY <2>1, <2>3 DEF Booked, Without
    <3>2. Record(Next1, st).id = Next1
      BY DEF Record
    <3>3. {r.id : r \in trades'} = {r.id : r \in trades} \cup {Next1}
      BY <3>1, <3>2
    <3> QED BY <1>1, <1>2, <2>2, <3>1, <3>3, ClosesSome
  <2>4. CASE ~(st.closed >= st.maxQty)
    <3>1. trades' = trades /\ DOMAIN state' = DOMAIN state
      BY <2>1, <2>4 DEF Booked
    <3> QED BY <1>1, <1>2, <2>2, <3>1, ViewSame DEF bookView
  <2> QED BY <2>3, <2>4
<1>8. CASE HedgeStep \/ EnterBet \/ EnterScheduled
  <2>1. trades' = trades /\ phase # "done" /\ phase' # "done"
    BY <1>8 DEF HedgeStep, EnterBet, EnterScheduled
  <2>2. CASE NotEntered
    BY <1>3, <2>1, <2>2 DEF NotEntered
  <2>3. CASE Filled
    <3>1. DOMAIN state' = DOMAIN state \cup {seq + 1}
      BY <2>3 DEF Filled, EnteredAt, With
    <3>2. seq + 1 \notin DOMAIN state /\ seq + 1 \notin {r.id : r \in trades}
      <4>1. seq \in Nat /\ DOMAIN state \subseteq 1..seq /\ \A r \in trades : r.id \in 1..seq
        BY <1>0 DEF DayTypes, BookOk
      <4>2. seq + 1 \notin 1..seq
        BY <4>1
      <4> QED BY <4>1, <4>2
    <3> QED BY <1>1, <1>2, <2>1, <3>1, <3>2, OpensOne
  <2> QED BY <1>0, <1>8, <2>2, <2>3, EntryLedger
<1>9. CASE Finalize
  <2> DEFINE open == DOMAIN pos \cap DOMAIN state
             rec == [i \in open |-> Record(i, OutOf(i))]
  <2>1. /\ phase = "idle" /\ phase' = "done" /\ trades' = trades \cup {rec[i] : i \in open}
        /\ DOMAIN state' = DOMAIN state \ open
    BY <1>9 DEF Finalize, OutOf, Later
  <2>2. \A i \in open : rec[i].id = i
    BY DEF Record
  <2>3. open = DOMAIN state
    BY <1>0, <2>1 DEF LedgerInv, MirrorInv
  <2> HIDE DEF rec, open
  <2>4. {r.id : r \in trades'} = {r.id : r \in trades} \cup DOMAIN state
    BY <2>1, <2>2, <2>3
  <2>5. DOMAIN state' = {}
    BY <2>1, <2>3
  <2> QED BY <1>1, <1>2, <2>1, <2>4, <2>5, Returns
<1> QED BY <1>4, <1>5, <1>6, <1>7, <1>8, <1>9 DEF DayStep, DailyNext

-----------------------------------------------------------------------------
(* Every step of the minute loop.                                           *)

MinuteShown ==
  /\ OpenTrades = DOMAIN live /\ BookedTrades = {r.id : r \in records}
  /\ Outcome = IF step = "done" THEN "returned" ELSE "running"

\* What the view shows while the minute loop runs.
LEMMA MinuteView == MinuteRuns => MinuteShown
<1> SUFFICES ASSUME MinuteRuns PROVE MinuteShown
  OBVIOUS
<1>1. DOMAIN state = {} /\ trades = {} /\ phase # "done"
  BY DEF MinuteRuns, Fresh
<1> QED BY <1>1 DEF MinuteShown, OpenTrades, BookedTrades, Outcome

\* The same of the next state.
LEMMA MinuteViewNext == (MinuteRuns => MinuteShown)'
BY MinuteView, PTL

\* Every step of the minute loop is a step of the trade book, or leaves it alone.
LEMMA MinuteBook == MinuteStep => BookMoves
<1> SUFFICES ASSUME MinuteStep PROVE BookMoves
  OBVIOUS
<1>0. /\ MinuteRuns /\ MinuteRuns' /\ MinuteInv /\ MinuteLedger /\ BookOk /\ LoopTypes /\ StepInv
      /\ DOMAIN live = DOMAIN pos
  BY DEF MinuteStep, MinuteRuns, MinuteInv, MinuteLedger, LiveInv
<1>1. /\ OpenTrades = DOMAIN live /\ BookedTrades = {r.id : r \in records}
      /\ Outcome = IF step = "done" THEN "returned" ELSE "running"
  BY <1>0, MinuteView DEF MinuteShown
<1>2. /\ OpenTrades' = DOMAIN live' /\ BookedTrades' = {r.id : r \in records'}
      /\ Outcome' = IF step' = "done" THEN "returned" ELSE "running"
  BY <1>0, MinuteViewNext DEF MinuteShown
<1>3. ASSUME live' = live, records' = records, step = "done" <=> step' = "done" PROVE BookMoves
  BY <1>1, <1>2, <1>3, ViewSame DEF bookView
<1>4. CASE UNCHANGED <<brokerVars, minuteVars>>
  BY <1>3, <1>4 DEF minuteVars
<1>5. CASE OpenSession \/ ReadMinute \/ Flattened \/ ExitsOver \/ EntriesOver \/ LoopOver \/ IntradayDone
  <2>1. live' = live /\ records' = records /\ (step = "done" <=> step' = "done")
    BY <1>5 DEF OpenSession, ReadMinute, Flattened, ExitsOver, EntriesOver, LoopOver, IntradayDone, NextMinute, minuteVars
  <2> QED BY <1>3, <2>1
<1>6. ASSUME One \in DOMAIN pos, NEW v \in Int, Closed1(One, v), step # "done", step' = step PROVE BookMoves
  <2>1. records' = records \cup {Record1(One, v)} /\ DOMAIN live' = DOMAIN live \ {One}
    BY <1>6 DEF Closed1, Gone, Without
  <2>2. Record1(One, v).id = One
    BY DEF Record1
  <2>3. {r.id : r \in records'} = {r.id : r \in records} \cup {One}
    BY <2>1, <2>2
  <2> QED BY <1>0, <1>1, <1>2, <1>6, <2>1, <2>3, ClosesSome
<1>7. CASE Flatten
  <2>1. /\ step \in {"flatten", "last"} /\ InSession /\ queue # {} /\ queue = DOMAIN pos /\ step' = step
        /\ live' = Without(live, One)
        /\ ((CanClose(One) /\ CloseFilled(One)) \/ ForceClose(One))
    BY <1>0, <1>7 DEF Flatten, InSession, StepInv
  <2>2. One \in DOMAIN pos
    BY <1>0, <2>1, OneOpen
  <2>3. PICK v \in Int : Closed1(One, v)
    BY <1>0, <2>1, <2>2, Closing
  <2> QED BY <1>6, <2>1, <2>2, <2>3
<1>8. CASE ExitMinute
  <2>1. step = "exits" /\ step' = step /\ InSession /\ queue # {} /\ queue \subseteq DOMAIN pos
    BY <1>0, <1>8 DEF ExitMinute, InSession, StepInv
  <2>2. One \in DOMAIN pos
    BY <1>0, <2>1, OneOpen
  <2>3. CASE CanClose(One) /\ CloseFilled(One) /\ live' = Without(live, One)
    <3>1. PICK v \in Int : Closed1(One, v)
      BY <1>0, <2>1, <2>2, <2>3, Closing
    <3> QED BY <1>6, <2>1, <2>2, <3>1
  <2>4. CASE UNCHANGED <<brokerVars, records, live>>
    BY <1>3, <2>1, <2>4
  <2> QED BY <1>8, <2>3, <2>4 DEF ExitMinute, Kept
<1>9. CASE Consider
  <2>1. step = "entries" /\ step' = step /\ records' = records
    BY <1>9 DEF Consider
  <2>2. CASE UNCHANGED <<brokerVars, live>>
    BY <1>3, <2>1, <2>2
  <2>3. CASE ~UNCHANGED <<brokerVars, live>>
    <3>1. PICK k \in Instruments, f \in Int, mark \in Int, units \in Nat \ {0} : EnteredNow(k, f, mark, units)
      BY <1>0, <1>9, <2>3, ConsiderCases
    <3>2. DOMAIN live' = DOMAIN live \cup {seq + 1}
      BY <3>1 DEF EnteredNow, With
    <3>3. seq + 1 \notin DOMAIN live /\ seq + 1 \notin {r.id : r \in records}
      <4>1. seq \in Nat /\ DOMAIN live \subseteq 1..seq /\ \A r \in records : r.id \in 1..seq
        BY <1>0 DEF MinuteLedger, BookOk, NotedOk
      <4>2. seq + 1 \notin 1..seq
        BY <4>1
      <4> QED BY <4>1, <4>2
    <3> QED BY <1>1, <1>2, <2>1, <3>2, <3>3, OpensOne
  <2> QED BY <2>2, <2>3
<1>10. CASE CloseSession
  <2>1. /\ step = "closed" /\ DOMAIN pos = {} /\ live' = live /\ records' = records
        /\ step' \in {"done", "idle"}
    BY <1>10 DEF CloseSession
  <2>2. CASE step' = "idle"
    BY <1>3, <2>1, <2>2
  <2>3. CASE step' = "done"
    <3>1. OpenTrades = {} /\ OpenTrades' = {} /\ BookedTrades' = BookedTrades
      BY <1>0, <1>1, <1>2, <2>1
    <3> QED BY <1>1, <1>2, <2>1, <2>3, <3>1, Returns
  <2> QED BY <2>1, <2>2, <2>3
<1> QED BY <1>4, <1>5, <1>7, <1>8, <1>9, <1>10 DEF MinuteStep, IntradayNext

\* Both engines start with an empty trade book.
LEMMA BookStarts == BenchInit => Book!BookInit
<1> SUFFICES ASSUME BenchInit PROVE Book!BookInit
  OBVIOUS
<1>1. DOMAIN state = {} /\ DOMAIN live = {} /\ trades = {} /\ records = {} /\ phase # "done" /\ step # "done"
  BY DEF BenchInit, DailyInit, DailyRest, IntradayInit, IntradayRest, Fresh, AtRest
<1>2. OpenTrades = {} /\ BookedTrades = {} /\ Outcome = "running"
  BY <1>1 DEF OpenTrades, BookedTrades, Outcome
<1> QED BY <1>2 DEF Book!BookInit, OpenTrades, BookedTrades, Outcome

\* Both engines implement the trade book (MCBacktests's KeepsTradeBook): a position is open until it
\* has its one record, no identity is used twice, and a replay returns with none open.
THEOREM TradesKept == BenchSpec => KeepsTradeBook
<1>1. BenchInit => BenchInv
  BY BenchStart
<1>2. BenchInv /\ [BenchNext]_benchVars => BenchInv'
  BY BenchKept
<1>3. BenchInit => Book!BookInit
  BY BookStarts
<1>4. BenchInv /\ [BenchNext]_benchVars => [Book!BookNext]_(Book!bookVars)
  BY BenchStep, DayBook, MinuteBook DEF BookMoves
<1> QED BY <1>1, <1>2, <1>3, <1>4, PTL DEF BenchSpec, KeepsTradeBook, Book!BookSpec
=============================================================================
