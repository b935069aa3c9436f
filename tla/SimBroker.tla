----------------------------- MODULE SimBroker -----------------------------
(***************************************************************************)
(* SimulatedBroker (brokers/simulated.py): cash, positions, collateral and *)
(* the telemetry of settlements.  The multiplier is 1 and every leg has    *)
(* ratio 1; a fill is the mark moved against the trader by a member of     *)
(* Slips per unit (costs/model.py), and pays a commission per contract and *)
(* leg.                                                                    *)
(*                                                                         *)
(* A trade t is the proposal an order is made from: engine, ref, sym, dir, *)
(* cost and maxLoss per unit, and legs, a function from its legs to the    *)
(* sessions they expire in.                                                *)
(***************************************************************************)
EXTENDS Integers, FiniteSets, FiniteSetsExt, Functions

CONSTANTS
  StartCash,
  Commission,     \* per contract and leg
  Slips           \* how much worse than the mark a fill may be, per unit

ASSUME BrokerAssumption ==
  StartCash \in Nat /\ Commission \in Nat /\ Slips \subseteq Nat /\ Slips # {}

VARIABLES
  cash,
  pos,         \* _positions: position id -> position
  reserved,    \* _reserved: position id -> collateral
  settled,     \* settlements: position id -> per-unit value
  partials,    \* partial_settlements: <<position id, per-unit value>> not swept yet
  seq,         \* positions opened so far; the next id is seq + 1
  chains       \* underlyings quoted in this session

brokerVars == <<cash, pos, reserved, settled, partials, seq, chains>>

BrokerInit ==
  /\ cash = StartCash /\ seq = 0 /\ chains = {} /\ partials = {}
  /\ pos = [i \in {} |-> 0] /\ reserved = [i \in {} |-> 0] /\ settled = [i \in {} |-> 0]

\* Dictionaries: d[i] = v, and d.pop(i).
With(d, i, v) == [j \in DOMAIN d \cup {i} |-> IF j = i THEN v ELSE d[j]]
Without(d, i) == [j \in DOMAIN d \ {i} |-> d[j]]
Total(d) == SumFunction(d)

\* get_account.
Worth(book) == SumFunction([i \in DOMAIN book |-> book[i].value * book[i].qty])
Equity == cash + Worth(pos)
Account == [cash |-> cash, equity |-> Equity]

Fee(legs, units) == Commission * Cardinality(legs) * units

-----------------------------------------------------------------------------
(* place_order, intent OPEN. *)

\* Signed cash flow of opening units of t at net price f per unit.
OpenFlow(t, f, units) == -f * units - Fee(DOMAIN t.legs, units)

\* Collateral is asked for only when the open raises cash.
NewReserve(t, f, units) == IF OpenFlow(t, f, units) > 0 THEN t.maxLoss * units ELSE 0

\* The broker-level guard.
Funded(t, f, units) ==
  cash + OpenFlow(t, f, units) - Total(reserved) - NewReserve(t, f, units) >= 0

\* The filled order: cash, the position, its reserve; the value and the trail
\* start at the mark.
Open(t, f, mark, units, today) ==
  LET id == seq + 1
      new == [trade |-> t, legs |-> t.legs, qty |-> units, entry |-> f, value |-> mark,
              high |-> mark, tp1 |-> FALSE, realized |-> 0, opened |-> today]
  IN /\ seq' = id
     /\ cash' = cash + OpenFlow(t, f, units)
     /\ pos' = With(pos, id, new)
     /\ reserved' = IF NewReserve(t, f, units) > 0
                    THEN With(reserved, id, NewReserve(t, f, units)) ELSE reserved
     /\ UNCHANGED <<settled, partials, chains>>

-----------------------------------------------------------------------------
(* place_order, intent CLOSE, and the release of collateral. *)

\* _release_reserve: proportional to the units that were open before.
Released(i, units, total) ==
  IF i \notin DOMAIN reserved THEN reserved
  ELSE IF units >= total THEN Without(reserved, i)
  ELSE [reserved EXCEPT ![i] = (@ * (total - units)) \div total]

\* units of position i are sold back for c per unit; tp1 says whether the
\* caller marks the first target as taken.
Close(i, units, c, tp1) ==
  LET left == pos[i].qty - units
  IN /\ cash' = cash + c * units - Fee(DOMAIN pos[i].legs, units)
     /\ reserved' = Released(i, units, pos[i].qty)
     /\ pos' = IF left = 0 THEN Without(pos, i)
               ELSE [pos EXCEPT ![i].qty = left, ![i].tp1 = @ \/ tp1,
                                ![i].realized = @ + (c - pos[i].entry) * units]
     /\ UNCHANGED <<settled, partials, seq, chains>>

-----------------------------------------------------------------------------
(* update_market, one position at a time: the mark, then the settlement. *)

Expired(p, today) == {l \in DOMAIN p.legs : p.legs[l] < today}

\* Mutant: the high water mark stays where the position was opened.
MarkedOnly(p, v) == [p EXCEPT !.value = v]

Marked(p, v) == [p EXCEPT !.value = v, !.high = Max({@, v})]

\* _mark_position: a position without quotes keeps its last mark.
Mark(i, v) ==
  /\ pos' = [pos EXCEPT ![i] = Marked(@, v)]
  /\ UNCHANGED <<cash, reserved, settled, partials, seq, chains>>

\* Mutant: collateral of a position that expires is not released.
SettleWholeKeeping(i, v) ==
  /\ cash' = cash + v * pos[i].qty
  /\ settled' = With(settled, i, v)
  /\ pos' = Without(pos, i)
  /\ UNCHANGED <<reserved, partials, seq, chains>>

\* Every leg has expired: cash-settled at v, intrinsic or the last mark.
SettleWhole(i, v) ==
  /\ cash' = cash + v * pos[i].qty
  /\ settled' = With(settled, i, v)
  /\ reserved' = Released(i, pos[i].qty, pos[i].qty)
  /\ pos' = Without(pos, i)
  /\ UNCHANGED <<partials, seq, chains>>

\* Some legs have: they settle at v per unit, the rest lives on and is marked.
SettlePart(i, v, gone, w) ==
  LET p == pos[i]
      rest == [l \in DOMAIN p.legs \ gone |-> p.legs[l]]
      left == [p EXCEPT !.legs = rest, !.realized = p.realized + v * p.qty]
  IN /\ cash' = cash + v * p.qty
     /\ partials' = partials \cup {<<i, v>>}
     /\ pos' = [pos EXCEPT ![i] = Marked(left, w)]
     /\ UNCHANGED <<reserved, settled, seq, chains>>
=============================================================================
