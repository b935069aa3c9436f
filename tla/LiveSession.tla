---------------------------- MODULE LiveSession ----------------------------
(***************************************************************************)
(* A paper or live session: TradingSession.run (execution/session.py) over *)
(* ExecutionEngine.submit and close (execution/engine.py), the kill-switch *)
(* file and one of the three brokers.                                      *)
(*                                                                         *)
(* The session is one thread, but the broker, the operator and the world   *)
(* move between any two of its calls: resting orders fill or lapse,        *)
(* positions are closed by hand, the kill file appears.  One engine trades *)
(* every catalyst, hence (engine, catalyst_ref) is the catalyst; an entry  *)
(* is one unit of cost Cost; a position is named by its entry order.       *)
(***************************************************************************)
EXTENDS Integers, Sequences, FiniteSets

CONSTANTS
  Refs,         \* catalysts in the session's window
  Brokers,      \* among "simulated", "alpaca" and "schwab"
  StartCash, Cost, FloorPct,   \* the account, one unit, the cash floor
  MaxCycles,    \* max_cycles
  MaxOrders,    \* bound on entry orders
  MaxOdd,       \* bound on failed calls, odd replies and refused closes
  MaxFlips,     \* per broker: bound on kill-switch flips
  MaxManual,    \* per broker: bound on closes made outside the session
  MaxRestarts   \* bound on restarts of the process

ASSUME SessionAssumption ==
  /\ Brokers \subseteq {"simulated", "alpaca", "schwab"}
  /\ Refs # {} /\ StartCash \in Nat /\ Cost \in Nat \ {0} /\ FloorPct \in 0..100
  /\ MaxCycles \in Nat /\ MaxOrders \in Nat /\ MaxOdd \in Nat
  /\ MaxFlips \in [Brokers -> Nat] /\ MaxManual \in [Brokers -> Nat] /\ MaxRestarts \in Nat

VARIABLES
  \* the broker
  Broker,   \* which one the session was started with
  orders,   \* entry orders it has taken: [ref, state]
  rows,     \* positions open at the broker
  cash,
  \* the operator's file and the world
  kill, due, manual, flips, odd, restarts,
  \* the session
  phase, cycle,
  open,     \* open_positions
  liveIds,  \* live_ids, read when the cycle began
  todo,     \* positions the exit loop has still to look at
  refs,     \* catalysts the entry loop has still to look at
  cur,      \* the catalyst whose order is about to be placed
  pending,  \* ExecutionEngine._pending
  trips,    \* stats.round_trips
  sinceKill \* entries sent since the kill file appeared

broker == <<orders, rows, cash>>
world == <<kill, due, manual, flips, odd, restarts>>
session == <<phase, cycle, open, liveIds, todo, refs, cur, pending, trips, sinceKill>>
vars == <<Broker, orders, rows, cash, kill, due, manual, flips, odd, restarts,
          phase, cycle, open, liveIds, todo, refs, cur, pending, trips, sinceKill>>

NoRef == "none"
Phases == {"idle", "exits", "entries", "place", "over", "ended"}
Position == 1..MaxOrders

\* get_positions: the simulated broker has one row per structure, named
\* pos-<order id>; the real ones have one row per contract, named by its
\* symbol, which is never the name of a position of the session.
Structured == Broker = "simulated"

\* Mutant: the simulated broker names its rows by symbol as well.
LiveIdsBySymbol == {}

LiveIds == IF Structured THEN rows ELSE {}

Equity == cash + Cost * Cardinality(rows)

\* What place_order may return for an entry, and what became of the order:
\* "raised" is a timeout or an authentication error, with or without the
\* order having reached the broker; Schwab answers an order it took without a
\* Location header with REJECTED.
Reply == [status : {"filled", "accepted", "partial", "rejected", "raised"},
          order : {"none", "working", "filled"}]
Says(s, o) == [status |-> s, order |-> o]
Replies ==
  CASE Broker = "simulated" -> {Says("filled", "filled")}
    [] Broker = "alpaca" -> {Says("filled", "filled"), Says("accepted", "working"),
                             Says("partial", "working"), Says("raised", "none"),
                             Says("raised", "working")}
    [] Broker = "schwab" -> {Says("accepted", "working"), Says("rejected", "working"),
                             Says("raised", "none"), Says("raised", "working")}
OddReply(r) == r.status \in {"partial", "raised"} \/ (r.status = "rejected" /\ r.order # "none")
Refused == Says("rejected", "none")

CanFail == ~Structured /\ odd < MaxOdd

Init ==
  /\ Broker \in Brokers
  /\ orders = <<>> /\ rows = {} /\ cash = StartCash
  /\ kill = FALSE /\ due = {} /\ manual = 0 /\ flips = 0 /\ odd = 0
  /\ restarts = 0
  /\ phase = "idle" /\ cycle = 0 /\ open = {} /\ liveIds = {} /\ todo = {}
  /\ refs = {} /\ cur = NoRef /\ pending = {} /\ trips = 0 /\ sinceKill = 0

-----------------------------------------------------------------------------
(* The session. *)

\* An exception inside _one_cycle: logged, and the cycle is over.
CycleError ==
  /\ CanFail
  /\ phase' = "over" /\ odd' = odd + 1
  /\ UNCHANGED <<kill, due, manual, flips, restarts>>

\* reconcile: positions and account are read, the equity mark is recorded.
BeginCycle ==
  /\ phase = "idle" /\ cycle < MaxCycles
  /\ cycle' = cycle + 1
  /\ \/ /\ phase' = "exits" /\ liveIds' = LiveIds /\ todo' = open
        /\ UNCHANGED <<kill, due, manual, flips, odd, restarts>>
     \/ CycleError /\ UNCHANGED <<liveIds, todo>>
  /\ UNCHANGED <<broker, open, refs, cur, pending, trips, sinceKill>>

\* Exits come first, in the order the positions were entered.
NextExit == CHOOSE p \in todo : \A q \in todo : p <= q

ExitsDone ==
  /\ phase = "exits" /\ todo = {}
  /\ phase' = "entries" /\ refs' = Refs
  /\ UNCHANGED <<broker, world, cycle, open, liveIds, todo, cur, pending, trips, sinceKill>>

\* pid not in live_ids: closed or expired at the broker outside our loop.
DropPosition ==
  /\ phase = "exits" /\ todo # {}
  /\ NextExit \notin liveIds
  /\ open' = open \ {NextExit} /\ todo' = todo \ {NextExit}
  /\ UNCHANGED <<broker, world, phase, cycle, liveIds, refs, cur, pending, trips, sinceKill>>

\* evaluate_exits returns nothing for this position: only a rule that has come
\* true for good is sure to fire, the others depend on the mark.
HoldPosition ==
  /\ phase = "exits" /\ todo # {}
  /\ NextExit \in liveIds /\ NextExit \notin due
  /\ todo' = todo \ {NextExit}
  /\ UNCHANGED <<broker, world, phase, cycle, open, liveIds, refs, cur, pending, trips, sinceKill>>

Proceeds == {0, Cost}

\* Mutant: close() asks the kill switch, as submit() does.
ClosePositionGated ==
  /\ phase = "exits" /\ todo # {}
  /\ NextExit \in liveIds
  /\ todo' = todo \ {NextExit}
  /\ IF kill \/ NextExit \notin LiveIds THEN UNCHANGED <<rows, cash, open, trips, odd>>
     ELSE /\ rows' = rows \ {NextExit} /\ cash' = cash + Cost
          /\ open' = open \ {NextExit} /\ trips' = trips + 1 /\ UNCHANGED odd
  /\ UNCHANGED <<orders, kill, due, manual, flips, restarts>>
  /\ UNCHANGED <<phase, cycle, liveIds, refs, cur, pending, sinceKill>>

\* Mutant: a round trip is counted whatever the broker said.
ClosePositionCounts ==
  /\ phase = "exits" /\ todo # {}
  /\ NextExit \in liveIds
  /\ todo' = todo \ {NextExit} /\ trips' = trips + 1
  /\ UNCHANGED <<broker, world, phase, cycle, open, liveIds, refs, cur, pending, sinceKill>>

\* close(): reconcile again, then a closing limit order for the whole position.
ClosePosition ==
  /\ phase = "exits" /\ todo # {}
  /\ NextExit \in liveIds
  /\ todo' = todo \ {NextExit}
  /\ \/ /\ NextExit \notin LiveIds                     \* not at the broker: None
        /\ UNCHANGED <<rows, cash, open, trips, odd>>
     \/ /\ NextExit \in LiveIds                        \* FILLED
        /\ rows' = rows \ {NextExit}
        /\ \E v \in Proceeds : cash' = cash + v
        /\ open' = open \ {NextExit} /\ trips' = trips + 1
        /\ UNCHANGED odd
     \/ /\ NextExit \in LiveIds /\ odd < MaxOdd        \* REJECTED: a leg has no quote
        /\ odd' = odd + 1
        /\ UNCHANGED <<rows, cash, open, trips>>
  /\ UNCHANGED <<orders, kill, due, manual, flips, restarts>>
  /\ UNCHANGED <<phase, cycle, liveIds, refs, cur, pending, sinceKill>>

EntriesDone ==
  /\ phase = "entries" /\ refs = {}
  /\ phase' = "over"
  /\ UNCHANGED <<broker, world, cycle, open, liveIds, todo, refs, cur, pending, trips, sinceKill>>

\* submit() returns None: no proposal, kill switch, an order in flight, or the
\* risk gate.  Any proposal may be refused by the gate's breakers and caps.
SkipEntry(c) ==
  /\ phase = "entries" /\ c \in refs
  /\ refs' = refs \ {c}
  /\ UNCHANGED <<broker, world, phase, cycle, open, liveIds, todo, cur, pending, trips, sinceKill>>

ReconcileFails(c) ==
  /\ phase = "entries" /\ c \in refs
  /\ ~kill /\ c \notin pending
  /\ CycleError
  /\ UNCHANGED <<broker, cycle, open, liveIds, todo, refs, cur, pending, trips, sinceKill>>

\* Mutant: the gate asks for the cost only, not for the floor.
GateApprovesNoFloor == cash >= Cost

\* RiskManager: the cash left after the entry stays above the floor.
GateApproves == 100 * (cash - Cost) >= FloorPct * Equity /\ cash >= Cost

\* Mutant: the kill switch is asked only at the end of a cycle.
MaySubmitUngated(c) == c \notin pending

\* Mutant: orders in flight are not remembered.
MaySubmitTwice(c) == ~kill

MaySubmit(c) == ~kill /\ c \notin pending

\* submit() has asked the kill switch, the quote _pending and, on a fresh
\* reconcile, the risk gate: it is about to call place_order.  The session
\* passes the cycle's start as both at and quote_time, so the age it looks at
\* is zero and never refuses an entry.
SizeEntry(c) ==
  /\ phase = "entries" /\ c \in refs
  /\ Len(orders) < MaxOrders
  /\ MaySubmit(c)
  /\ GateApproves
  /\ phase' = "place" /\ cur' = c /\ refs' = refs \ {c}
  /\ UNCHANGED <<broker, world, cycle, open, liveIds, todo, pending, trips, sinceKill>>

\* The broker's side of place_order.
Take(r) ==
  /\ orders' = IF r.order = "none" THEN orders
               ELSE Append(orders, [ref |-> cur, state |-> r.order])
  /\ IF r.order = "filled"
     THEN rows' = rows \cup {Len(orders) + 1} /\ cash' = cash - Cost
     ELSE UNCHANGED <<rows, cash>>

\* Mutant: a filled entry is counted, but not put into open_positions.
TrackForgets(r) ==
  /\ pending' = IF r.status = "accepted" THEN pending \cup {cur} ELSE pending
  /\ open' = open

\* Mutant: positions are kept by catalyst instead of by position_id.
TrackByRef(r) ==
  /\ pending' = IF r.status = "accepted" THEN pending \cup {cur} ELSE pending
  /\ open' = IF r.status = "filled" THEN open \cup {cur} ELSE open

\* What submit() and the entry loop keep of the answer: ACCEPTED goes into
\* _pending, FILLED becomes a position, anything else leaves no trace.
Track(r) ==
  /\ pending' = CASE r.status = "accepted" -> pending \cup {cur}
                  [] r.status = "filled" -> pending \ {cur}
                  [] OTHER -> pending
  /\ open' = IF r.status = "filled" THEN open \cup {Len(orders) + 1} ELSE open

PlaceEntry ==
  /\ phase = "place"
  /\ \E r \in Replies \cup {Refused} :
       /\ OddReply(r) => odd < MaxOdd
       /\ odd' = IF OddReply(r) THEN odd + 1 ELSE odd
       /\ Take(r) /\ Track(r)
       /\ phase' = IF r.status = "raised" THEN "over" ELSE "entries"
  /\ cur' = NoRef
  /\ sinceKill' = IF kill THEN sinceKill + 1 ELSE 0
  /\ UNCHANGED <<kill, due, manual, flips, restarts>>
  /\ UNCHANGED <<cycle, liveIds, todo, refs, trips>>

\* End of the loop body: stop when killed and flat, or out of cycles.
EndCycle ==
  /\ phase = "over"
  /\ phase' = IF (kill /\ open = {}) \/ cycle = MaxCycles THEN "ended" ELSE "idle"
  /\ liveIds' = {} /\ todo' = {} /\ refs' = {}
  /\ UNCHANGED <<broker, world, cycle, open, cur, pending, trips, sinceKill>>

Session ==
  \/ BeginCycle \/ ExitsDone \/ DropPosition \/ HoldPosition \/ ClosePosition
  \/ EntriesDone \/ PlaceEntry \/ EndCycle
  \/ \E c \in Refs : SkipEntry(c) \/ ReconcileFails(c) \/ SizeEntry(c)

-----------------------------------------------------------------------------
(* The broker, the operator and the world. *)

FillOrder(o) ==
  /\ orders[o].state = "working"
  /\ orders' = [orders EXCEPT ![o].state = "filled"]
  /\ rows' = rows \cup {o} /\ cash' = cash - Cost
  /\ UNCHANGED <<world, session>>

\* A day order lapses or is cancelled.
LapseOrder(o) ==
  /\ orders[o].state = "working"
  /\ orders' = [orders EXCEPT ![o].state = "dead"]
  /\ UNCHANGED <<rows, cash, world, session>>

\* A manual close, an assignment, an expiry.
CloseOutside(p) ==
  /\ p \in rows /\ manual < MaxManual[Broker]
  /\ manual' = manual + 1
  /\ rows' = rows \ {p}
  /\ \E v \in Proceeds : cash' = cash + v
  /\ UNCHANGED <<orders, kill, due, flips, odd, restarts, session>>

\* An exit rule of an open position comes true for good (its time stop).
ExitDue(p) ==
  /\ p \in rows \ due
  /\ due' = due \cup {p}
  /\ UNCHANGED <<broker, kill, manual, flips, odd, restarts, session>>

\* KillSwitch.engage or touch; release is an operator action only.
FlipKill ==
  /\ flips < MaxFlips[Broker]
  /\ kill' = ~kill /\ flips' = flips + 1
  /\ sinceKill' = 0
  /\ UNCHANGED <<broker, due, manual, odd, restarts>>
  /\ UNCHANGED <<phase, cycle, open, liveIds, todo, refs, cur, pending, trips>>

\* The process dies, or its session ends, and deploy_runner starts another one;
\* it refuses to while the kill file exists.
Restart ==
  /\ ~Structured /\ restarts < MaxRestarts /\ ~kill
  /\ cycle > 0
  /\ restarts' = restarts + 1
  /\ phase' = "idle" /\ cycle' = 0 /\ open' = {} /\ liveIds' = {} /\ todo' = {}
  /\ refs' = {} /\ cur' = NoRef /\ pending' = {} /\ trips' = 0 /\ sinceKill' = 0
  /\ UNCHANGED <<broker, kill, due, manual, flips, odd>>

World ==
  \/ \E o \in 1..Len(orders) : FillOrder(o) \/ LapseOrder(o)
  \/ \E p \in Position : CloseOutside(p) \/ ExitDue(p)
  \/ FlipKill \/ Restart

Next == (Session \/ World) /\ UNCHANGED Broker

Spec == Init /\ [][Next]_vars
-----------------------------------------------------------------------------

\* Types of the broker's, the operator's and the session's state.
TypeOK ==
  /\ orders \in Seq([ref : Refs, state : {"working", "filled", "dead"}])
  /\ rows \subseteq Position /\ cash \in Int
  /\ kill \in BOOLEAN /\ due \subseteq Position
  /\ manual \in Nat /\ flips \in Nat /\ odd \in Nat /\ restarts \in Nat
  /\ phase \in Phases /\ cycle \in 0..MaxCycles
  /\ open \subseteq Position /\ liveIds \subseteq Position /\ todo \subseteq Position
  /\ refs \subseteq Refs /\ cur \in Refs \cup {NoRef} /\ pending \subseteq Refs
  /\ trips \in Nat /\ sinceKill \in Nat

\* Once the kill file exists, at most the one entry that had already passed the
\* check reaches the broker, over any number of cycles and restarts.
KillBoundsEntries == sinceKill <= 1

\* "reconciles them against the broker every cycle": between cycles every
\* position that an entry of the session opened is under the session's exits.
EveryFillManaged == phase \in {"idle", "ended"} => rows \subseteq open

\* "closed/expired at the broker outside our loop": a position leaves
\* open_positions only when the broker no longer has it.
NeverDropsOpen == [][\A p \in open \ open' : p \notin rows']_<<open>>

\* paper_tested counts what was observed: every round trip is an entry that
\* filled and a position that is gone.
RoundTripsObserved ==
  trips + Cardinality(rows) <= Cardinality({o \in 1..Len(orders) : orders[o].state = "filled"})

\* "orders placed but not FILLED at last sight": a catalyst has one entry
\* working at the broker; only a call that failed or was answered oddly, or a
\* restart, lets one more through each.
Working(c) == {o \in 1..Len(orders) : orders[o].ref = c /\ orders[o].state = "working"}

NeverTwiceInFlight == \A c \in Refs : Cardinality(Working(c)) <= 1 + odd + restarts
=============================================================================
