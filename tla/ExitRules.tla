----------------------------- MODULE ExitRules -----------------------------
(***************************************************************************)
(* evaluate_exits (exits/manager.py): which rule closes how much of one    *)
(* position.  Money is an integer per 1x unit, fractions are percentages,  *)
(* days are numbers of trading sessions.                                   *)
(*                                                                         *)
(* A position p has entry, value, high, tp1, opened (session), legs (their *)
(* expiry sessions) and the trade it came from, whose width is Off unless  *)
(* it is a vertical; r is its ExitRules (core/types/models.py).            *)
(***************************************************************************)
EXTENDS Integers, FiniteSets, FiniteSetsExt

Off == -1000     \* an optional field that is None

Hold == [pct |-> 0, reason |-> "hold"]
All(why) == [pct |-> 100, reason |-> why]

Expiries(p) == {p.legs[l] : l \in DOMAIN p.legs}
NearestExpiry(p) == Min(Expiries(p))

ExpiryBuffer(p, r, today) == today >= NearestExpiry(p) - r.closeBefore

TimeStop(p, r, today) ==
  \/ r.hardExit # Off /\ today >= r.hardExit
  \/ r.maxHold # Off /\ today - p.opened >= r.maxHold

\* The rules that fire whatever the mark is.
Mandatory(p, r, today) == ExpiryBuffer(p, r, today) \/ TimeStop(p, r, today)

\* Credit structures: profit is decay of the liability.
CreditExit(p, r) ==
  LET credit == -p.entry
      liability == -p.value
  IN IF r.tpCredit # Off /\ 100 * (credit - liability) >= r.tpCredit * credit
     THEN All("take_profit_credit")
     ELSE IF r.stops /\ r.stopCredit # Off /\ 100 * liability >= r.stopCredit * credit
     THEN All("stop_loss_credit")
     ELSE Hold

\* _spread_width: only a structure with both legs of one expiry has one.
SpreadWidth(p) ==
  IF Cardinality(DOMAIN p.legs) = 2 /\ Cardinality(Expiries(p)) = 1 THEN p.trade.width ELSE Off

Gained(p, pct) == 100 * (p.value - p.entry) >= pct * p.entry

StopHit(p, r) == r.stops /\ r.stopLoss # Off /\ 100 * (p.value - p.entry) <= r.stopLoss * p.entry
MaxValueHit(p, r) == r.tpMax # Off /\ SpreadWidth(p) # Off /\ 100 * p.value >= r.tpMax * SpreadWidth(p)
Tp1Hit(p, r) == r.tp1Gain # Off /\ r.tp1Pct # Off /\ ~p.tp1 /\ Gained(p, r.tp1Gain)
TrailHit(p, r) == /\ r.trail # Off /\ (p.tp1 \/ r.tp1Gain = Off)
                  /\ p.high > 0 /\ 100 * p.value <= p.high * (100 - r.trail)

DebitExit(p, r) ==
  IF StopHit(p, r) THEN All("stop_loss")
  ELSE IF MaxValueHit(p, r) THEN All("take_profit")
  ELSE IF Tp1Hit(p, r) THEN [pct |-> r.tp1Pct, reason |-> "take_profit_1"]
  ELSE IF TrailHit(p, r) THEN All("trail_stop")
  ELSE Hold

\* Mutant: credit structures are decided before the time stops.
EvaluateExitsCreditFirst(p, r, today) ==
  IF p.entry < 0 THEN CreditExit(p, r)
  ELSE IF ExpiryBuffer(p, r, today) THEN All("expiry_buffer")
  ELSE IF TimeStop(p, r, today) THEN All("time_stop")
  ELSE IF p.entry = 0 THEN Hold
  ELSE DebitExit(p, r)

\* Most defensive first.
EvaluateExits(p, r, today) ==
  IF ExpiryBuffer(p, r, today) THEN All("expiry_buffer")
  ELSE IF TimeStop(p, r, today) THEN All("time_stop")
  ELSE IF p.entry < 0 THEN CreditExit(p, r)
  ELSE IF p.entry = 0 THEN Hold
  ELSE DebitExit(p, r)

\* Mutant: the stop needs a mark above zero, and a credit's liability is not looked at.
IntradayStopPositive(p, r) ==
  r.stops /\ r.stopLoss # Off /\ p.entry > 0 /\ p.value > 0 /\ 100 * (p.value - p.entry) <= r.stopLoss * p.entry

\* A debit position at or below total loss trips its stop; a credit one when its
\* liability has reached the multiple of the credit.
IntradayStop(p, r) ==
  /\ r.stops /\ r.stopLoss # Off
  /\ \/ p.entry > 0 /\ (p.value <= 0 \/ 100 * (p.value - p.entry) <= r.stopLoss * p.entry)
     \/ p.entry < 0 /\ r.stopLoss < -100 /\ 100 * p.value <= -r.stopLoss * p.entry

IntradayTrail(p, r) ==
  /\ r.stops /\ r.trail # Off /\ p.entry > 0 /\ p.high > 0
  /\ p.value <= 0 \/ 100 * (p.value - p.high) <= -r.trail * p.high

\* evaluate_intraday_exits: a position entered at one minute, looked at in another.
IntradayExit(p, r, entered, now) ==
  \/ r.closeBy # Off /\ now >= r.closeBy
  \/ r.maxMinutes # Off /\ now - entered >= r.maxMinutes
  \/ IntradayStop(p, r)
  \/ IntradayTrail(p, r)

\* Units a fraction closes: half up, and possibly none.
ScaleOut(qty, pct) == IF pct >= 100 THEN qty ELSE (qty * pct + 50) \div 100
=============================================================================
