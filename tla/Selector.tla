-------------------------------- MODULE Selector --------------------------------
(***************************************************************************)
(* edge/contracts/selector.py: a signal and a chain snapshot become one    *)
(* contract or a named rejection.  Deltas are in tenths, spreads and       *)
(* excursions in percent, prices in ticks as in EdgeFill.                  *)
(***************************************************************************)
EXTENDS EdgeFill, FiniteSetsExt, Functions

CONSTANTS Chains,      \* chain snapshots: sequences of rows
          Calls,       \* the other arguments: [side, rung, excursion, fat_tailed]
          SpotTicks,
          TargetDelta, FatTailedTargetDelta, MaxRelSpread, MaxRelSpread0dte, MinSize, MinOi

\* SelectorConfig and select check their arguments; a call's delta is not negative, a put's
\* not positive.
ASSUME SelectorAssumption ==
    /\ {TargetDelta, FatTailedTargetDelta, MaxRelSpread, MaxRelSpread0dte, MinSize, MinOi} \subseteq Int
    /\ FatTailedTargetDelta <= TargetDelta /\ MaxRelSpread0dte <= MaxRelSpread /\ SpotTicks \in Nat \ {0}
    /\ \A c \in Calls : c.side \in {BUY, SELL} /\ c.excursion \in Nat /\ c.fat_tailed \in BOOLEAN
    /\ \A rows \in Chains : rows \in Seq([strike : Int, right : {"C", "P"}, delta : Int, dte : Int, bid : Int,
                                           ask : Int, oi : Int, size : Int, finite : BOOLEAN])
    /\ \A rows \in Chains : \A i \in DOMAIN rows :
         (rows[i].right = "C" => rows[i].delta >= 0) /\ (rows[i].right = "P" => rows[i].delta <= 0)

VARIABLES chain, call, choice
selectVars == <<chain, call, choice>>

Unbounded == 1000
RungBounds == 0 :> <<0, 1>> @@ 1 :> <<1, 2>> @@ 2 :> <<2, 5>> @@ 5 :> <<5, 7>> @@ 7 :> <<7, Unbounded>>
InRung(row, rung) == row.dte >= RungBounds[rung][1] /\ row.dte < RungBounds[rung][2]
Right(side) == IF side = BUY THEN "C" ELSE "P"
AbsDelta(row) == IF row.delta < 0 THEN -row.delta ELSE row.delta

\* The rows of the right and the rung that have all their fields.
Universe(rows, c) == {i \in DOMAIN rows : rows[i].right = Right(c.side) /\ InRung(rows[i], c.rung) /\ rows[i].finite}
AimedDelta(c) == IF c.fat_tailed THEN FatTailedTargetDelta ELSE TargetDelta
Distance(row, target) == IF AbsDelta(row) > target THEN AbsDelta(row) - target ELSE target - AbsDelta(row)
\* Distance and liquidity, without the last word.
KeyOfLiquidity(row, target) == <<Distance(row, target), -row.oi>>
\* The sort key of a candidate.
Key(row, target) == <<Distance(row, target), -row.oi, row.bid + row.ask, row.strike>>
Below(a, b) == \E k \in DOMAIN a : a[k] < b[k] /\ \A j \in 1..(k - 1) : a[j] = b[j]

\* min keeps the first of the rows it cannot tell apart.
Best(rows, I, c) == Min({i \in I : \A j \in I : ~Below(Key(rows[j], AimedDelta(c)), Key(rows[i], AimedDelta(c)))})

Gate(row, rung) ==
    LET cap == IF rung = 0 THEN MaxRelSpread0dte ELSE MaxRelSpread
    IN  CASE row.bid + row.ask <= 0 -> "no_quote"
          [] 200 * (row.ask - row.bid) > cap * (row.bid + row.ask) -> "wide_spread"
          [] row.size < MinSize -> "size_below_min"
          [] row.oi < MinOi -> "oi_below_min"
          [] OTHER -> "passed"
\* The excursion, in the money of the option at its delta, does not exceed a premium.
BreakevenUnreachable(row, c, premium) == c.excursion * SpotTicks * AbsDelta(row) * Unit <= 1000 * premium

\* The premium of the breakeven is the mid.
PremiumAtMid(row) == Mid(row)
\* The cost model's marketable fill of one contract.
Premium(row) == MarketableFill(row, BUY, 1).price

Reject(reason) == [status |-> "rejected", reason |-> reason, row |-> 0, premium |-> 0, max_loss |-> 0]
\* Gates first, then the nearest of the contracts that pass.
ChooseWithFallback(rows, c) ==
    LET I == {i \in Universe(rows, c) : Gate(rows[i], c.rung) = "passed"}
        i == Best(rows, I, c)
    IN  IF I = {} THEN Reject("empty_rung")
        ELSE IF Crossed(rows[i]) THEN Reject("raised")
        ELSE IF BreakevenUnreachable(rows[i], c, Premium(rows[i])) THEN Reject("breakeven_unreachable")
        ELSE [status |-> "accepted", reason |-> "none", row |-> i, premium |-> Premium(rows[i]),
              max_loss |-> Premium(rows[i]) * Multiplier + Commission]
\* The pipeline of select; a crossed book raises in the cost model.
Choose(rows, c) ==
    LET I == Universe(rows, c)
        i == Best(rows, I, c)
    IN  IF I = {} THEN Reject("empty_rung")
        ELSE IF Gate(rows[i], c.rung) # "passed" THEN Reject(Gate(rows[i], c.rung))
        ELSE IF Crossed(rows[i]) THEN Reject("raised")
        ELSE IF BreakevenUnreachable(rows[i], c, Premium(rows[i])) THEN Reject("breakeven_unreachable")
        ELSE [status |-> "accepted", reason |-> "none", row |-> i, premium |-> Premium(rows[i]),
              max_loss |-> Premium(rows[i]) * Multiplier + Commission]

\* Signed shares of one contract.
SharesEquivalent(row) == row.delta * Multiplier

NoChoice == [status |-> "none"]
Select == chain # <<>> /\ choice = NoChoice /\ choice' = Choose(chain, call) /\ UNCHANGED <<chain, call>>

SelectRest == chain = <<>> /\ call = (CHOOSE c \in Calls : TRUE) /\ choice = NoChoice
SelectInit == chain \in Chains /\ call \in Calls /\ choice = NoChoice
SelectNext == Select
----------------------------------------------------------------------------
Chosen == choice # NoChoice /\ choice.status = "accepted"

\* "Ties break toward liquidity ... (fully deterministic)": the vendor's row order decides
\* nothing, unless two contracts of the rung agree in delta distance, open interest, mid
\* and strike (two expiries of one strike: the sort key does not tell them apart).
ChoiceOrderFree ==
    choice # NoChoice =>
        LET other == Choose(Reverse(chain), call)
            Alike(a, b) == /\ a.strike = b.strike /\ a.bid + a.ask = b.bid + b.ask /\ a.oi = b.oi
                           /\ Distance(a, AimedDelta(call)) = Distance(b, AimedDelta(call))
        IN  \/ other = [choice EXCEPT !.row = IF @ = 0 THEN 0 ELSE Len(chain) + 1 - @]
            \/ \E i, j \in Universe(chain, call) : i # j /\ Alike(chain[i], chain[j])

\* "they never fall back to a worse-delta contract": whatever the gates say of the others,
\* the contract bought is as near the target as any of its rung and right.
NeverWorseDelta ==
    Chosen => \A i \in Universe(chain, call) : Distance(chain[i], AimedDelta(call)) >= Distance(chain[choice.row], AimedDelta(call))

\* A choice that is traded pays for itself: at its own delta the median excursion brings
\* back more than what the cost model takes at the ask side, the loss is bounded by that
\* debit, and the shares it stands for point the way of the signal.
ExcursionPaysDebit ==
    Chosen =>
        LET row == chain[choice.row]
            fill == MarketableFill(row, BUY, 1)
        IN  /\ fill.status = "filled" /\ call.excursion * SpotTicks * AbsDelta(row) * Unit > 1000 * fill.price
            /\ choice.max_loss = fill.price * Multiplier + fill.commission
            /\ (SharesEquivalent(row) > 0) <=> (call.side = BUY)
=============================================================================
