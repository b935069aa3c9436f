---------------------------- MODULE SessionProofs ----------------------------
(***************************************************************************)
(* Proofs about the trading session and the Schwab adapter, for any        *)
(* catalysts, brokers, cash, bounds on cycles, orders, failures, flips and *)
(* restarts, and for any token lifetimes and margins the assumption of     *)
(* SchwabClient admits.                                                    *)
(***************************************************************************)
EXTENDS MCSession, FiniteSetTheorems, TLAPS

FilledOrders == {o \in 1..Len(orders) : orders[o].state = "filled"}

\* The types, the orders a position is named by, and the order being placed.
TypeInv ==
  /\ TypeOK
  /\ Broker \in Brokers
  /\ Len(orders) <= MaxOrders
  /\ rows \subseteq 1..Len(orders)
  /\ phase = "place" => cur \in Refs /\ cur \notin pending /\ Len(orders) < MaxOrders

\* An entry that has passed the check is the first one since the kill file.
KillInv ==
  /\ sinceKill <= 1
  /\ ~kill => sinceKill = 0
  /\ phase = "place" => sinceKill = 0

\* The orders working for a catalyst are the one the engine remembers, and one
\* for every odd answer and every memory lost.
FlightInv ==
  \A c \in Refs :
    Cardinality(Working(c)) <= (IF c \in pending THEN 1 ELSE 0) + odd + restarts

\* With the broker that answers at once: no order works, every row is managed
\* and was in live_ids while the exits were looked at, and the gate's answer
\* still stands when the order is placed.
StructuredInv ==
  Structured =>
    /\ rows \subseteq open
    /\ phase = "exits" => rows \subseteq liveIds
    /\ \A o \in 1..Len(orders) : orders[o].state # "working"
    /\ trips + Cardinality(rows) <= Cardinality(FilledOrders)
    /\ phase = "place" => 100 * (cash - Cost) >= FloorPct * Equity

SessionInv == TypeInv /\ KillInv /\ FlightInv /\ StructuredInv

-----------------------------------------------------------------------------

\* Sets of order numbers are finite.
LEMMA OrderSubset ==
  ASSUME NEW n \in Nat, NEW S, S \subseteq 1..n
  PROVE  IsFiniteSet(S) /\ Cardinality(S) \in Nat
<1>1. IsFiniteSet(1..n)
  BY FS_Interval
<1> QED BY <1>1, FS_Subset, FS_CardinalityType

\* One more number on top.
LEMMA UpToNext ==
  ASSUME NEW n \in Nat, NEW S, S \subseteq 1..n
  PROVE  S \cup {n + 1} \subseteq 1..(n + 1)
OBVIOUS

Order == [ref : Refs, state : {"working", "filled", "dead"}]

\* Every answer says whether the order reached the broker, and an order that works
\* was accepted or answered oddly.
LEMMA ReplyIs ==
  ASSUME Broker \in Brokers, NEW r \in Replies \cup {Refused}
  PROVE  /\ r.order \in {"none", "working", "filled"}
         /\ r.order = "filled" <=> r.status = "filled"
         /\ r.order = "working" => r.status = "accepted" \/ OddReply(r)
         /\ Structured => r.order # "working" /\ ~OddReply(r)
<1> USE SessionAssumption DEF Says, OddReply
<1>1. CASE r = Refused
  BY <1>1 DEF Refused
<1>2. CASE Broker = "simulated" /\ r \in Replies
  BY <1>2 DEF Replies
<1>3. CASE Broker = "alpaca" /\ r \in Replies
  <2>1. r \in {Says("filled", "filled"), Says("accepted", "working"), Says("partial", "working"),
               Says("raised", "none"), Says("raised", "working")}
    BY <1>3 DEF Replies
  <2> QED BY <1>3, <2>1 DEF Structured
<1>4. CASE Broker = "schwab" /\ r \in Replies
  <2>1. r \in {Says("accepted", "working"), Says("rejected", "working"),
               Says("raised", "none"), Says("raised", "working")}
    BY <1>4 DEF Replies
  <2> QED BY <1>4, <2>1 DEF Structured
<1> QED BY <1>1, <1>2, <1>3, <1>4

\* The broker's list of orders grows by one, or one of them changes its state.
LEMMA AddOrder ==
  ASSUME NEW seq \in Seq(Order), NEW c \in Refs, NEW s \in {"working", "filled"}
  PROVE  LET grown == Append(seq, [ref |-> c, state |-> s])
         IN  /\ grown \in Seq(Order) /\ Len(grown) = Len(seq) + 1
             /\ \A k \in 1..Len(seq) : grown[k] = seq[k]
             /\ grown[Len(seq) + 1] = [ref |-> c, state |-> s]
BY DEF Order

\* An order whose state changes keeps its reference, and no other order changes.
LEMMA SetState ==
  ASSUME NEW seq \in Seq(Order), NEW o \in 1..Len(seq), NEW s \in {"filled", "dead"}
  PROVE  LET new == [seq EXCEPT ![o].state = s]
         IN  /\ new \in Seq(Order) /\ Len(new) = Len(seq)
             /\ \A k \in 1..Len(seq) : new[k].ref = seq[k].ref
             /\ \A k \in 1..Len(seq) : new[k].state = IF k = o THEN s ELSE seq[k].state
<1>1. \A k \in 1..Len(seq) : seq[k] \in Order
  OBVIOUS
<1> DEFINE new == [seq EXCEPT ![o].state = s]
<1>2. new = [k \in 1..Len(seq) |-> IF k = o THEN [seq[o] EXCEPT !.state = s] ELSE seq[k]]
  OBVIOUS
<1>3. \A k \in 1..Len(seq) : new[k] \in Order
  BY <1>1, <1>2 DEF Order
<1>4. new \in Seq(Order) /\ Len(new) = Len(seq)
  BY <1>2, <1>3
<1> QED BY <1>1, <1>2, <1>4 DEF Order

\* What place_order does to the broker's list, whatever it answers.
LEMMA TakeEffect ==
  ASSUME orders \in Seq(Order), cur \in Refs, NEW s \in {"none", "working", "filled"},
         orders' = IF s = "none" THEN orders ELSE Append(orders, [ref |-> cur, state |-> s])
  PROVE  /\ orders' \in Seq(Order)
         /\ Len(orders') = IF s = "none" THEN Len(orders) ELSE Len(orders) + 1
         /\ \A k \in 1..Len(orders) : orders'[k] = orders[k]
         /\ s # "none" => orders'[Len(orders) + 1] = [ref |-> cur, state |-> s]
<1>1. CASE s = "none"
  BY <1>1
<1>2. CASE s \in {"working", "filled"}
  BY <1>2, AddOrder
<1> QED BY <1>1, <1>2

\* The types.
LEMMA TypeStep ==
  ASSUME TypeInv, Next
  PROVE  TypeInv'
<1> USE SessionAssumption DEF TypeInv, TypeOK, Phases, Position
<1>1. Broker' = Broker
  BY DEF Next
<1>2. ASSUME BeginCycle PROVE TypeInv'
  <2>1. cycle' \in 0..MaxCycles /\ odd' \in Nat
    BY <1>2 DEF BeginCycle, CycleError
  <2>2. liveIds' \subseteq Position /\ todo' \subseteq Position /\ phase' \in {"exits", "over"}
    BY <1>2 DEF BeginCycle, CycleError, LiveIds
  <2> QED BY <1>1, <1>2, <2>1, <2>2 DEF BeginCycle, CycleError, broker
<1>3. ASSUME ExitsDone PROVE TypeInv'
  BY <1>1, <1>3 DEF ExitsDone, broker, world
<1>4. ASSUME DropPosition PROVE TypeInv'
  BY <1>1, <1>4 DEF DropPosition, broker, world
<1>5. ASSUME HoldPosition PROVE TypeInv'
  BY <1>1, <1>5 DEF HoldPosition, broker, world
<1>6. ASSUME ClosePosition PROVE TypeInv'
  <2>1. cash' \in Int /\ trips' \in Nat /\ odd' \in Nat
    BY <1>6 DEF ClosePosition, Proceeds
  <2>2. rows' \subseteq rows /\ open' \subseteq open
    BY <1>6 DEF ClosePosition
  <2> QED BY <1>1, <1>6, <2>1, <2>2 DEF ClosePosition
<1>7. ASSUME EntriesDone PROVE TypeInv'
  BY <1>1, <1>7 DEF EntriesDone, broker, world
<1>8. ASSUME NEW c \in Refs, SkipEntry(c) PROVE TypeInv'
  BY <1>1, <1>8 DEF SkipEntry, broker, world
<1>9. ASSUME NEW c \in Refs, ReconcileFails(c) PROVE TypeInv'
  BY <1>1, <1>9 DEF ReconcileFails, CycleError, broker
<1>10. ASSUME NEW c \in Refs, SizeEntry(c) PROVE TypeInv'
  BY <1>1, <1>10 DEF SizeEntry, MaySubmit, broker, world
<1>11. ASSUME PlaceEntry PROVE TypeInv'
  <2>1. PICK r \in Replies \cup {Refused} :
          /\ odd' = IF OddReply(r) THEN odd + 1 ELSE odd
          /\ Take(r) /\ Track(r)
          /\ phase' = IF r.status = "raised" THEN "over" ELSE "entries"
    BY <1>11 DEF PlaceEntry
  <2>2. r.order \in {"none", "working", "filled"}
    BY <2>1, ReplyIs
  <2>3. orders' \in Seq(Order) /\ Len(orders') = IF r.order = "none" THEN Len(orders) ELSE Len(orders) + 1
    <3>1. orders \in Seq(Order) /\ cur \in Refs
      BY <1>11 DEF PlaceEntry, Order
    <3>2. orders' = IF r.order = "none" THEN orders
                    ELSE Append(orders, [ref |-> cur, state |-> r.order])
      BY <2>1 DEF Take
    <3> HIDE DEF TypeInv, TypeOK
    <3> QED BY <2>2, <3>1, <3>2, TakeEffect
  <2>4. rows' \subseteq 1..Len(orders') /\ cash' \in Int
    <3>1. rows' = (IF r.order = "filled" THEN rows \cup {Len(orders) + 1} ELSE rows)
          /\ cash' = (IF r.order = "filled" THEN cash - Cost ELSE cash)
      BY <2>1 DEF Take
    <3>2. rows \subseteq 1..Len(orders) /\ Len(orders) \in Nat /\ cash \in Int /\ Cost \in Int
      OBVIOUS
    <3> HIDE DEF TypeInv, TypeOK
    <3>3. CASE r.order = "filled"
      <4>1. Len(orders') = Len(orders) + 1 /\ cash' \in Int
        BY <2>3, <3>1, <3>2, <3>3
      <4>2. rows' = rows \cup {Len(orders) + 1}
        BY <3>1, <3>3
      <4> QED BY <3>2, <4>1, <4>2, UpToNext
    <3>4. CASE r.order # "filled"
      <4>1. rows' = rows /\ cash' = cash /\ Len(orders') \in {Len(orders), Len(orders) + 1}
        BY <2>3, <3>1, <3>4
      <4> QED BY <3>2, <4>1
    <3> QED BY <3>3, <3>4
  <2>5. Len(orders) + 1 \in Position
    BY <1>11 DEF PlaceEntry
  <2>6. open' \subseteq Position /\ pending' \subseteq Refs
    BY <1>11, <2>1, <2>5 DEF PlaceEntry, Track
  <2>7. odd' \in Nat /\ sinceKill' \in Nat /\ phase' \in {"over", "entries"}
    BY <1>11, <2>1 DEF PlaceEntry
  <2>8. Len(orders') <= MaxOrders /\ rows' \subseteq Position
    BY <1>11, <2>3, <2>4 DEF PlaceEntry
  <2> QED BY <1>1, <1>11, <2>3, <2>4, <2>6, <2>7, <2>8 DEF PlaceEntry, Order
<1>12. ASSUME EndCycle PROVE TypeInv'
  BY <1>1, <1>12 DEF EndCycle, broker, world
<1>13. ASSUME NEW o \in 1..Len(orders), FillOrder(o) PROVE TypeInv'
  <2>1. orders' \in Seq(Order) /\ Len(orders') = Len(orders)
    <3>1. orders \in Seq(Order)
      BY DEF Order
    <3> QED BY <1>13, <3>1, SetState DEF FillOrder
  <2>2. rows' \subseteq 1..Len(orders') /\ rows' \subseteq Position /\ cash' \in Int
    <3>1. rows' = rows \cup {o} /\ cash' = cash - Cost
      BY <1>13 DEF FillOrder
    <3>2. rows' \subseteq 1..Len(orders')
      BY <2>1, <3>1
    <3>3. o \in Position
      BY <2>1
    <3>4. cash' \in Int
      BY <3>1
    <3> QED BY <3>1, <3>2, <3>3, <3>4
  <2> QED BY <1>1, <1>13, <2>1, <2>2 DEF FillOrder, world, session, Order
<1>14. ASSUME NEW o \in 1..Len(orders), LapseOrder(o) PROVE TypeInv'
  <2>1. orders' \in Seq(Order) /\ Len(orders') = Len(orders)
    <3>1. orders \in Seq(Order)
      BY DEF Order
    <3> QED BY <1>14, <3>1, SetState DEF LapseOrder
  <2> QED BY <1>1, <1>14, <2>1 DEF LapseOrder, world, session, Order
<1>15. ASSUME NEW p \in Position, CloseOutside(p) PROVE TypeInv'
  BY <1>1, <1>15 DEF CloseOutside, Proceeds, session
<1>16. ASSUME NEW p \in Position, ExitDue(p) PROVE TypeInv'
  BY <1>1, <1>16 DEF ExitDue, broker, session
<1>17. ASSUME FlipKill PROVE TypeInv'
  BY <1>1, <1>17 DEF FlipKill, broker
<1>18. ASSUME Restart PROVE TypeInv'
  BY <1>1, <1>18 DEF Restart, broker
<1> HIDE DEF TypeInv
<1> QED
  BY <1>2, <1>3, <1>4, <1>5, <1>6, <1>7, <1>8, <1>9, <1>10, <1>11, <1>12, <1>13, <1>14,
     <1>15, <1>16, <1>17, <1>18 DEF Next, Session, World

-----------------------------------------------------------------------------
(* One entry after the kill file, and one entry working per catalyst.       *)

\* Only SizeEntry leads to an order, and only without the kill file.
LEMMA KillStep ==
  ASSUME TypeInv, KillInv, Next
  PROVE  KillInv'
<1> USE DEF TypeInv, TypeOK, KillInv
<1>1. ASSUME PlaceEntry PROVE KillInv'
  <2>1. phase' \in {"over", "entries"}
    BY <1>1 DEF PlaceEntry
  <2> QED BY <1>1, <2>1 DEF PlaceEntry
<1>2. ASSUME NEW c \in Refs, SizeEntry(c) PROVE KillInv'
  BY <1>2 DEF SizeEntry, MaySubmit, world
<1>3. ASSUME FlipKill \/ Restart PROVE KillInv'
  BY <1>3 DEF FlipKill, Restart
<1>4. ASSUME UNCHANGED <<kill, sinceKill>>, phase' # "place" \/ phase' = phase PROVE KillInv'
  BY <1>4
<1>5. ASSUME BeginCycle \/ ExitsDone \/ DropPosition \/ HoldPosition \/ ClosePosition
             \/ EntriesDone \/ EndCycle
      PROVE  UNCHANGED <<kill, sinceKill>> /\ (phase' # "place" \/ phase' = phase)
  BY <1>5 DEF BeginCycle, CycleError, ExitsDone, DropPosition, HoldPosition, ClosePosition,
              EntriesDone, EndCycle, world
<1>6. ASSUME NEW c \in Refs, SkipEntry(c) \/ ReconcileFails(c)
      PROVE  UNCHANGED <<kill, sinceKill>> /\ (phase' # "place" \/ phase' = phase)
  BY <1>6 DEF SkipEntry, ReconcileFails, CycleError, world
<1>7. ASSUME NEW o \in 1..Len(orders), FillOrder(o) \/ LapseOrder(o)
      PROVE  UNCHANGED <<kill, sinceKill>> /\ phase' = phase
  BY <1>7 DEF FillOrder, LapseOrder, world, session
<1>8. ASSUME NEW p \in Position, CloseOutside(p) \/ ExitDue(p)
      PROVE  UNCHANGED <<kill, sinceKill>> /\ phase' = phase
  BY <1>8 DEF CloseOutside, ExitDue, session
<1> HIDE DEF KillInv
<1> QED
  BY <1>1, <1>2, <1>3, <1>4, <1>5, <1>6, <1>7, <1>8 DEF Next, Session, World

\* Fewer orders of a catalyst work when the list keeps its length and no order
\* starts to work.
LEMMA FewerWork ==
  ASSUME orders \in Seq(Order), orders' \in Seq(Order), Len(orders') = Len(orders),
         \A k \in 1..Len(orders) : /\ orders'[k].ref = orders[k].ref
                                   /\ orders'[k].state = "working" => orders[k].state = "working",
         NEW c \in Refs
  PROVE  Cardinality(Working(c)') <= Cardinality(Working(c))
<1>1. Working(c)' \subseteq Working(c)
  BY DEF Working
<1>2. Working(c) \subseteq 1..Len(orders) /\ Len(orders) \in Nat
  BY DEF Working
<1> QED BY <1>1, <1>2, OrderSubset, FS_Subset

\* A new order adds at most itself.
LEMMA OneMoreWorks ==
  ASSUME orders \in Seq(Order), orders' \in Seq(Order), cur \in Refs,
         NEW s \in {"none", "working", "filled"},
         Len(orders') = IF s = "none" THEN Len(orders) ELSE Len(orders) + 1,
         \A k \in 1..Len(orders) : orders'[k] = orders[k],
         s # "none" => orders'[Len(orders) + 1] = [ref |-> cur, state |-> s],
         NEW c \in Refs
  PROVE  Cardinality(Working(c)') <=
           Cardinality(Working(c)) + (IF s = "working" /\ c = cur THEN 1 ELSE 0)
<1> DEFINE n == Len(orders)
           W == Working(c)
<1>1. n \in Nat /\ W \subseteq 1..n /\ IsFiniteSet(W) /\ Cardinality(W) \in Nat
  BY OrderSubset DEF Working
<1>2. CASE s = "working" /\ c = cur
  <2>1. Working(c)' \subseteq W \cup {n + 1}
    BY <1>2 DEF Working
  <2>2. IsFiniteSet(W \cup {n + 1}) /\ Cardinality(W \cup {n + 1}) <= Cardinality(W) + 1
    <3> HIDE DEF W, n
    <3>1. IsFiniteSet(W \cup {n + 1})
          /\ Cardinality(W \cup {n + 1}) = IF n + 1 \in W THEN Cardinality(W) ELSE Cardinality(W) + 1
      BY <1>1, FS_AddElement, Zenon
    <3> QED BY <1>1, <3>1
  <2>3. Cardinality(Working(c)') <= Cardinality(W \cup {n + 1})
    BY <2>1, <2>2, FS_Subset
  <2>4. Cardinality(Working(c)') \in Nat /\ Cardinality(W \cup {n + 1}) \in Nat
    BY <2>1, <2>2, FS_Subset, FS_CardinalityType
  <2> QED BY <1>1, <1>2, <2>2, <2>3, <2>4
<1>3. CASE ~(s = "working" /\ c = cur)
  <2>1. Working(c)' \subseteq W
    BY <1>3 DEF Working
  <2> QED BY <1>1, <1>3, <2>1, FS_Subset
<1> QED BY <1>2, <1>3

\* Only an accepted order is remembered; one that works otherwise, or is forgotten by a
\* restart, has raised a counter.
LEMMA FlightStep ==
  ASSUME TypeInv, FlightInv, Next
  PROVE  FlightInv'
<1>0. TypeInv'
  BY TypeStep
<1>1. /\ orders \in Seq(Order) /\ orders' \in Seq(Order)
      /\ odd \in Nat /\ odd' \in Nat /\ restarts \in Nat /\ restarts' \in Nat
      /\ pending \subseteq Refs /\ pending' \subseteq Refs
  BY <1>0 DEF TypeInv, TypeOK, Order
<1>2. \A c \in Refs : Cardinality(Working(c)) \in Nat /\ Cardinality(Working(c)') \in Nat
  <2>1. ASSUME NEW c \in Refs PROVE Cardinality(Working(c)) \in Nat
    BY <1>1, OrderSubset DEF Working
  <2>2. ASSUME NEW c \in Refs PROVE Cardinality(Working(c)') \in Nat
    BY <1>1, OrderSubset DEF Working
  <2> QED BY <2>1, <2>2
<1>3. ASSUME PlaceEntry PROVE FlightInv'
  <2>1. PICK r \in Replies \cup {Refused} :
          /\ odd' = IF OddReply(r) THEN odd + 1 ELSE odd
          /\ Take(r) /\ Track(r)
    BY <1>3 DEF PlaceEntry
  <2>2. /\ r.order \in {"none", "working", "filled"}
        /\ r.order = "filled" <=> r.status = "filled"
        /\ r.order = "working" => r.status = "accepted" \/ OddReply(r)
    BY ReplyIs DEF TypeInv
  <2>3. cur \in Refs /\ cur \notin pending /\ restarts' = restarts
    BY <1>3 DEF PlaceEntry, TypeInv
  <2>4. orders' = IF r.order = "none" THEN orders ELSE Append(orders, [ref |-> cur, state |-> r.order])
    BY <2>1 DEF Take
  <2>5. /\ Len(orders') = IF r.order = "none" THEN Len(orders) ELSE Len(orders) + 1
        /\ \A k \in 1..Len(orders) : orders'[k] = orders[k]
        /\ r.order # "none" => orders'[Len(orders) + 1] = [ref |-> cur, state |-> r.order]
    BY <1>1, <2>2, <2>3, <2>4, TakeEffect
  <2>6. SUFFICES ASSUME NEW c \in Refs
                 PROVE  Cardinality(Working(c)') <= (IF c \in pending' THEN 1 ELSE 0) + odd' + restarts'
    BY DEF FlightInv
  <2>7. Cardinality(Working(c)') <=
          Cardinality(Working(c)) + (IF r.order = "working" /\ c = cur THEN 1 ELSE 0)
    BY <1>1, <2>2, <2>3, <2>5, OneMoreWorks
  <2>8. Cardinality(Working(c)) <= (IF c \in pending THEN 1 ELSE 0) + odd + restarts
    BY DEF FlightInv
  <2>9. pending' = CASE r.status = "accepted" -> pending \cup {cur}
                     [] r.status = "filled" -> pending \ {cur}
                     [] OTHER -> pending
    BY <2>1 DEF Track
  <2>10. (c \in pending => c \in pending') /\ (r.status = "accepted" => cur \in pending')
    BY <2>3, <2>9
  <2>11. odd' >= odd /\ (OddReply(r) => odd' = odd + 1)
    BY <1>1, <2>1
  <2>12. CASE r.order = "working" /\ c = cur
    <3>1. r.status = "accepted" \/ odd' = odd + 1
      BY <2>2, <2>11, <2>12
    <3> QED BY <1>1, <1>2, <2>3, <2>7, <2>8, <2>10, <2>11, <2>12, <3>1
  <2>13. CASE ~(r.order = "working" /\ c = cur)
    BY <1>1, <1>2, <2>3, <2>7, <2>8, <2>10, <2>11, <2>13
  <2> QED BY <2>12, <2>13
<1>4. ASSUME NEW o \in 1..Len(orders), FillOrder(o) \/ LapseOrder(o) PROVE FlightInv'
  <2>1. /\ UNCHANGED <<pending, odd, restarts>>
        /\ \E s \in {"filled", "dead"} : orders' = [orders EXCEPT ![o].state = s]
    BY <1>4 DEF FillOrder, LapseOrder, world, session
  <2>2. Len(orders') = Len(orders) /\
        \A k \in 1..Len(orders) : /\ orders'[k].ref = orders[k].ref
                                  /\ orders'[k].state = "working" => orders[k].state = "working"
    BY <1>1, <2>1, SetState
  <2>3. \A c \in Refs : Cardinality(Working(c)') <= Cardinality(Working(c))
    BY <1>1, <2>2, FewerWork
  <2> QED BY <1>1, <1>2, <2>1, <2>3 DEF FlightInv
<1>5. ASSUME Restart PROVE FlightInv'
  <2>1. orders' = orders /\ restarts' = restarts + 1 /\ odd' = odd /\ pending' = {}
    BY <1>5 DEF Restart, broker
  <2>2. \A c \in Refs : Working(c)' = Working(c)
    BY <2>1 DEF Working
  <2> QED BY <1>1, <1>2, <2>1, <2>2 DEF FlightInv
<1>6. ASSUME UNCHANGED <<orders, pending, restarts>>, odd' >= odd PROVE FlightInv'
  <2>1. \A c \in Refs : Working(c)' = Working(c)
    BY <1>6 DEF Working
  <2> QED BY <1>1, <1>2, <1>6, <2>1 DEF FlightInv
<1>7. ASSUME BeginCycle \/ ExitsDone \/ DropPosition \/ HoldPosition \/ ClosePosition
             \/ EntriesDone \/ EndCycle \/ FlipKill
      PROVE  UNCHANGED <<orders, pending, restarts>> /\ odd' >= odd
  BY <1>1, <1>7 DEF BeginCycle, CycleError, ExitsDone, DropPosition, HoldPosition, ClosePosition,
              EntriesDone, EndCycle, FlipKill, world, broker
<1>8. ASSUME NEW c \in Refs, SkipEntry(c) \/ ReconcileFails(c) \/ SizeEntry(c)
      PROVE  UNCHANGED <<orders, pending, restarts>> /\ odd' >= odd
  BY <1>1, <1>8 DEF SkipEntry, ReconcileFails, SizeEntry, CycleError, world, broker
<1>9. ASSUME NEW p \in Position, CloseOutside(p) \/ ExitDue(p)
      PROVE  UNCHANGED <<orders, pending, restarts>> /\ odd' >= odd
  BY <1>1, <1>9 DEF CloseOutside, ExitDue, session, broker
<1> QED
  BY <1>3, <1>4, <1>5, <1>6, <1>7, <1>8, <1>9 DEF Next, Session, World

-----------------------------------------------------------------------------
(* The broker that answers at once.                                         *)

\* Arithmetic of the floor.
LEMMA TimesMono ==
  ASSUME NEW f \in Nat, NEW x \in Int, NEW y \in Int, x <= y
  PROVE  f * x <= f * y /\ f * x \in Int /\ f * y \in Int
OBVIOUS

\* A row that goes, whatever it brings, leaves the equity no higher.
LEMMA EquityDrops ==
  ASSUME NEW k \in Nat, NEW v \in {0, k}, NEW c \in Int, NEW n \in Int
  PROVE  (c + v) + k * (n - 1) <= c + k * n
<1>1. k * (n - 1) = k * n - k /\ k * n \in Int
  OBVIOUS
<1> QED BY <1>1

\* A risk floor that held still holds when there is more cash or a lower high-water mark.
LEMMA FloorKept ==
  ASSUME NEW c \in Int, NEW d \in Int, NEW k \in Int, NEW old \in Int, NEW new \in Int,
         c <= d, new <= old, 100 * (c - k) >= old
  PROVE  100 * (d - k) >= new
OBVIOUS

\* Rows only go between the gate's answer and the order, and exits see every row.
LEMMA StructuredStep ==
  ASSUME TypeInv, StructuredInv, Next
  PROVE  StructuredInv'
<1> SUFFICES ASSUME Structured PROVE StructuredInv'
  BY DEF StructuredInv, Structured, Next
<1>0. TypeInv'
  BY TypeStep
<1>1. /\ orders \in Seq(Order) /\ Len(orders) \in Nat /\ trips \in Nat /\ cash \in Int
      /\ rows \subseteq 1..Len(orders) /\ Cost \in Nat /\ FloorPct \in Nat
  BY SessionAssumption DEF TypeInv, TypeOK, Order
<1>2. /\ rows \subseteq open
      /\ phase = "exits" => rows \subseteq liveIds
      /\ \A o \in 1..Len(orders) : orders[o].state # "working"
      /\ trips + Cardinality(rows) <= Cardinality(FilledOrders)
      /\ phase = "place" => 100 * (cash - Cost) >= FloorPct * Equity
  BY DEF StructuredInv
<1>3. /\ IsFiniteSet(rows) /\ Cardinality(rows) \in Nat
      /\ IsFiniteSet(FilledOrders) /\ Cardinality(FilledOrders) \in Nat
  BY <1>1, OrderSubset DEF FilledOrders
<1>4. ASSUME UNCHANGED <<orders, rows, cash, open, trips>>,
             phase' = "exits" => phase = "exits" /\ liveIds' = liveIds,
             phase' = "place" => phase = "place"
      PROVE  StructuredInv'
  <2>1. FilledOrders' = FilledOrders
    BY <1>4 DEF FilledOrders
  <2>2. Equity' = Equity
    BY <1>4 DEF Equity
  <2> QED BY <1>2, <1>4, <2>1, <2>2 DEF StructuredInv
<1>5. ASSUME BeginCycle PROVE StructuredInv'
  <2>1. UNCHANGED <<orders, rows, cash, open, trips>> /\ phase' = "exits" /\ liveIds' = rows
    BY <1>5 DEF BeginCycle, CycleError, CanFail, LiveIds, broker
  <2>2. FilledOrders' = FilledOrders
    BY <2>1 DEF FilledOrders
  <2> QED BY <1>2, <2>1, <2>2 DEF StructuredInv
<1>6. ASSUME DropPosition PROVE StructuredInv'
  <2>1. /\ UNCHANGED <<orders, rows, cash, trips, liveIds, phase>>
        /\ phase = "exits" /\ NextExit \notin liveIds /\ open' = open \ {NextExit}
    BY <1>6 DEF DropPosition, broker
  <2>2. rows' \subseteq open'
    BY <1>2, <2>1
  <2>3. FilledOrders' = FilledOrders
    BY <2>1 DEF FilledOrders
  <2> QED BY <1>2, <2>1, <2>2, <2>3 DEF StructuredInv
<1>7. ASSUME ClosePosition PROVE StructuredInv'
  <2>1. /\ UNCHANGED <<orders, liveIds, phase>> /\ phase = "exits"
        /\ \/ UNCHANGED <<rows, open, trips>>
           \/ /\ NextExit \in rows /\ rows' = rows \ {NextExit}
              /\ open' = open \ {NextExit} /\ trips' = trips + 1
    BY <1>7 DEF ClosePosition, LiveIds
  <2>2. rows' \subseteq open' /\ rows' \subseteq rows
    BY <1>2, <2>1
  <2>3. FilledOrders' = FilledOrders
    BY <2>1 DEF FilledOrders
  <2>4. trips' + Cardinality(rows') <= Cardinality(FilledOrders)
    <3>1. CASE UNCHANGED <<rows, open, trips>>
      BY <1>2, <3>1
    <3>2. CASE NextExit \in rows /\ rows' = rows \ {NextExit} /\ trips' = trips + 1
      <4>1. Cardinality(rows \ {NextExit}) = Cardinality(rows) - 1
        BY <1>3, <3>2, FS_RemoveElement
      <4> QED BY <1>1, <1>2, <1>3, <3>2, <4>1
    <3> QED BY <2>1, <3>1, <3>2
  <2> QED BY <1>2, <2>1, <2>2, <2>3, <2>4 DEF StructuredInv
<1>8. ASSUME NEW c \in Refs, SizeEntry(c) PROVE StructuredInv'
  <2>1. UNCHANGED <<orders, rows, cash, open, trips>> /\ phase' = "place" /\ GateApproves
    BY <1>8 DEF SizeEntry, broker
  <2>2. FilledOrders' = FilledOrders /\ Equity' = Equity
    BY <2>1 DEF FilledOrders, Equity
  <2> QED BY <1>2, <2>1, <2>2 DEF StructuredInv, GateApproves
<1>9. ASSUME PlaceEntry PROVE StructuredInv'
  <2>1. PICK r \in Replies \cup {Refused} :
          Take(r) /\ Track(r) /\ phase' = IF r.status = "raised" THEN "over" ELSE "entries"
    BY <1>9 DEF PlaceEntry
  <2>2. /\ r.order \in {"none", "filled"} /\ phase' = "entries" /\ trips' = trips
        /\ r.order = "filled" <=> r.status = "filled"
    BY <1>9, <2>1, ReplyIs DEF PlaceEntry, TypeInv, OddReply
  <2>3. CASE r.order = "none"
    <3>1. UNCHANGED <<orders, rows, cash, open>>
      BY <2>1, <2>2, <2>3 DEF Take, Track
    <3>2. FilledOrders' = FilledOrders
      BY <3>1 DEF FilledOrders
    <3> QED BY <1>2, <2>2, <3>1, <3>2 DEF StructuredInv
  <2>4. CASE r.order = "filled"
    <3> DEFINE n == Len(orders) + 1
    <3>1. /\ orders' = Append(orders, [ref |-> cur, state |-> "filled"])
          /\ rows' = rows \cup {n} /\ open' = open \cup {n}
      BY <2>1, <2>2, <2>4 DEF Take, Track
    <3>2. cur \in Refs
      BY <1>9 DEF PlaceEntry, TypeInv
    <3>3. /\ Len(orders') = n
          /\ \A k \in 1..Len(orders) : orders'[k] = orders[k]
          /\ orders'[n].state = "filled"
      BY <1>1, <3>1, <3>2, AddOrder
    <3>4. n \notin rows /\ n \notin FilledOrders
      BY <1>1 DEF FilledOrders
    <3>5. FilledOrders' = FilledOrders \cup {n}
      BY <1>1, <3>3 DEF FilledOrders
    <3>6. \A o \in 1..Len(orders') : orders'[o].state # "working"
      BY <1>1, <1>2, <3>3
    <3> HIDE DEF n
    <3>7. Cardinality(rows') = Cardinality(rows) + 1
          /\ Cardinality(FilledOrders') = Cardinality(FilledOrders) + 1
      BY <1>3, <3>1, <3>4, <3>5, FS_AddElement
    <3>8. trips' + Cardinality(rows') <= Cardinality(FilledOrders')
      BY <1>1, <1>2, <1>3, <2>2, <3>7
    <3> QED BY <1>2, <2>2, <3>1, <3>6, <3>8 DEF StructuredInv
  <2> QED BY <2>2, <2>3, <2>4
<1>10. ASSUME NEW p \in Position, CloseOutside(p) PROVE StructuredInv'
  <2>1. /\ UNCHANGED <<orders, open, liveIds, phase, trips>>
        /\ p \in rows /\ rows' = rows \ {p}
    BY <1>10 DEF CloseOutside, session
  <2>2. PICK v \in {0, Cost} : cash' = cash + v
    BY <1>10 DEF CloseOutside, Proceeds
  <2>3. FilledOrders' = FilledOrders
    BY <2>1 DEF FilledOrders
  <2>4. Cardinality(rows') = Cardinality(rows) - 1 /\ Cardinality(rows') \in Nat
    BY <1>3, <2>1, FS_RemoveElement, FS_CardinalityType
  <2>5. Equity' <= Equity /\ Equity \in Int /\ Equity' \in Int /\ cash' \in Int /\ cash' >= cash
    <3>1. Equity = cash + Cost * Cardinality(rows)
          /\ Equity' = (cash + v) + Cost * (Cardinality(rows) - 1)
      BY <2>2, <2>4 DEF Equity
    <3>2. (cash + v) + Cost * (Cardinality(rows) - 1) <= cash + Cost * Cardinality(rows)
      BY <1>1, <1>3, EquityDrops
    <3>3. Cost * Cardinality(rows) \in Int /\ Cost * (Cardinality(rows) - 1) \in Int
      BY <1>1, <1>3
    <3> QED BY <1>1, <2>2, <3>1, <3>2, <3>3
  <2>6. FloorPct * Equity' <= FloorPct * Equity /\ FloorPct * Equity \in Int /\ FloorPct * Equity' \in Int
    BY <1>1, <2>5, TimesMono
  <2>7. phase' = "place" => 100 * (cash' - Cost) >= FloorPct * Equity'
    <3> SUFFICES ASSUME phase' = "place" PROVE 100 * (cash' - Cost) >= FloorPct * Equity'
      OBVIOUS
    <3>1. phase = "place"
      BY <2>1
    <3>2. 100 * (cash - Cost) >= FloorPct * Equity
      BY <1>2, <3>1
    <3> DEFINE before == FloorPct * Equity
               after == FloorPct * Equity'
    <3>3. 100 * (cash - Cost) >= before /\ before \in Int /\ after \in Int /\ after <= before
      BY <2>6, <3>2
    <3>4. cash \in Int /\ cash' \in Int /\ Cost \in Int /\ cash <= cash'
      BY <1>1, <2>5
    <3> HIDE DEF before, after
    <3>5. 100 * (cash' - Cost) >= after
      BY <3>3, <3>4, FloorKept
    <3> QED BY <3>5 DEF after
  <2> QED BY <1>1, <1>2, <1>3, <2>1, <2>3, <2>4, <2>7 DEF StructuredInv
<1>11. ASSUME NEW o \in 1..Len(orders), FillOrder(o) \/ LapseOrder(o) PROVE FALSE
  BY <1>2, <1>11 DEF FillOrder, LapseOrder
<1>12. ASSUME NEW c \in Refs, ReconcileFails(c) PROVE FALSE
  BY <1>12 DEF ReconcileFails, CycleError, CanFail
<1>13. ASSUME Restart PROVE FALSE
  BY <1>13 DEF Restart
<1>14. ASSUME \/ ExitsDone \/ HoldPosition \/ EntriesDone \/ EndCycle \/ FlipKill
              \/ \E c \in Refs : SkipEntry(c)
              \/ \E p \in Position : ExitDue(p)
       PROVE  StructuredInv'
  <2>1. UNCHANGED <<orders, rows, cash, open, trips>>
    BY <1>14 DEF ExitsDone, HoldPosition, EntriesDone, EndCycle, FlipKill, SkipEntry, ExitDue, broker, session
  <2>2. UNCHANGED <<phase, liveIds>> \/ phase' \in {"entries", "over", "ended", "idle"}
    <3>1. ASSUME EndCycle \/ ExitsDone \/ EntriesDone
          PROVE  phase' \in {"entries", "over", "ended", "idle"}
      BY <3>1 DEF EndCycle, ExitsDone, EntriesDone
    <3>2. ASSUME \/ HoldPosition \/ FlipKill
                 \/ \E c \in Refs : SkipEntry(c)
                 \/ \E p \in Position : ExitDue(p)
          PROVE  UNCHANGED <<phase, liveIds>>
      BY <3>2 DEF HoldPosition, FlipKill, SkipEntry, ExitDue, session
    <3> QED BY <1>14, <3>1, <3>2
  <2>3. phase' = "exits" => phase = "exits" /\ liveIds' = liveIds
    BY <2>2
  <2>4. phase' = "place" => phase = "place"
    BY <2>2
  <2> QED BY <1>4, <2>1, <2>3, <2>4
<1> QED
  BY <1>5, <1>6, <1>7, <1>8, <1>9, <1>10, <1>11, <1>12, <1>13, <1>14 DEF Next, Session, World

-----------------------------------------------------------------------------
(* Initial states, stuttering, and the steps of the action properties.      *)

\* A session starts with no order, no row and no kill.
LEMMA SessionStart ==
  ASSUME Init
  PROVE  SessionInv
<1> USE SessionAssumption DEF Init
<1>1. orders \in Seq(Order) /\ Len(orders) = 0
  OBVIOUS
<1>2. TypeInv
  <2>1. orders \in Seq([ref : Refs, state : {"working", "filled", "dead"}])
    OBVIOUS
  <2>2. TypeOK
    <3>1. rows \subseteq Position /\ due \subseteq Position /\ manual \in Nat /\ flips \in Nat
          /\ odd \in Nat /\ restarts \in Nat
      OBVIOUS
    <3>4. cash \in Int
      OBVIOUS
    <3>5. kill \in BOOLEAN
      OBVIOUS
    <3>2. /\ phase \in Phases /\ cycle \in 0..MaxCycles
          /\ open \subseteq Position /\ liveIds \subseteq Position /\ todo \subseteq Position
      BY DEF Phases
    <3>3. /\ refs \subseteq Refs /\ cur \in Refs \cup {NoRef} /\ pending \subseteq Refs
          /\ trips \in Nat /\ sinceKill \in Nat
      OBVIOUS
    <3> QED BY <2>1, <3>1, <3>2, <3>3, <3>4, <3>5 DEF TypeOK
  <2>3. rows \subseteq 1..Len(orders) /\ Len(orders) <= MaxOrders /\ Broker \in Brokers
    BY <1>1
  <2> QED BY <2>2, <2>3 DEF TypeInv
<1>3. KillInv
  BY DEF KillInv
<1>4. FlightInv
  <2>1. \A c \in Refs : Working(c) = {}
    BY <1>1 DEF Working
  <2>2. \A c \in Refs : Cardinality(Working(c)) = 0
    BY <2>1, FS_EmptySet, Zenon
  <2> QED BY <2>2 DEF FlightInv
<1>5. StructuredInv
  <2>1. FilledOrders = {} /\ rows = {}
    BY <1>1 DEF FilledOrders
  <2>2. Cardinality(FilledOrders) = 0 /\ Cardinality(rows) = 0
    BY <2>1, FS_EmptySet
  <2> QED BY <1>1, <2>1, <2>2 DEF StructuredInv
<1> QED BY <1>2, <1>3, <1>4, <1>5 DEF SessionInv

\* What leaves the variables of the session alone leaves its invariant alone.
LEMMA SessionStutters ==
  ASSUME SessionInv, UNCHANGED vars
  PROVE  SessionInv'
<1>1. TypeInv'
  BY DEF SessionInv, TypeInv, TypeOK, Phases, Position, vars
<1>2. KillInv'
  BY DEF SessionInv, KillInv, vars
<1>3. FlightInv'
  <2>1. \A c \in Refs : Working(c)' = Working(c)
    BY DEF Working, vars
  <2> QED BY <2>1 DEF SessionInv, FlightInv, vars
<1>4. StructuredInv'
  <2>1. FilledOrders' = FilledOrders /\ Equity' = Equity /\ (Structured' <=> Structured)
    BY DEF FilledOrders, Equity, Structured, vars
  <2> QED BY <2>1 DEF SessionInv, StructuredInv, vars
<1> QED BY <1>1, <1>2, <1>3, <1>4 DEF SessionInv

\* Every step of a session keeps its invariant.
LEMMA SessionKeeps ==
  ASSUME SessionInv, [Next]_vars
  PROVE  SessionInv'
<1>1. CASE Next
  <2>1. TypeInv /\ KillInv /\ FlightInv /\ StructuredInv
    BY DEF SessionInv
  <2>2. TypeInv' /\ KillInv' /\ FlightInv' /\ StructuredInv'
    BY <1>1, <2>1, TypeStep, KillStep, FlightStep, StructuredStep
  <2> QED BY <2>2 DEF SessionInv
<1>2. CASE UNCHANGED vars
  BY <1>2, SessionStutters
<1> QED BY <1>1, <1>2

\* What open_positions loses, the broker has lost.
LEMMA LosesOnlyGone ==
  ASSUME SessionInv, Next, Structured
  PROVE  \A p \in open \ open' : p \notin rows'
<1>1. ASSUME DropPosition PROVE \A p \in open \ open' : p \notin rows'
  <2>1. rows' = rows /\ open' = open \ {NextExit} /\ NextExit \notin liveIds /\ phase = "exits"
    BY <1>1 DEF DropPosition, broker
  <2>2. rows \subseteq liveIds
    BY <2>1 DEF SessionInv, StructuredInv
  <2> QED BY <2>1, <2>2
<1>2. ASSUME ClosePosition PROVE \A p \in open \ open' : p \notin rows'
  BY <1>2 DEF ClosePosition
<1>3. ASSUME PlaceEntry PROVE open \subseteq open'
  <2>1. PICK r \in Replies \cup {Refused} : Track(r)
    BY <1>3 DEF PlaceEntry
  <2> QED BY <2>1 DEF Track
<1>4. ASSUME Restart PROVE FALSE
  BY <1>4 DEF Restart
<1>5. ASSUME \/ BeginCycle \/ ExitsDone \/ HoldPosition \/ EntriesDone \/ EndCycle \/ FlipKill
             \/ \E c \in Refs : SkipEntry(c) \/ ReconcileFails(c) \/ SizeEntry(c)
             \/ \E o \in 1..Len(orders) : FillOrder(o) \/ LapseOrder(o)
             \/ \E p \in Position : CloseOutside(p) \/ ExitDue(p)
      PROVE  open' = open
  BY <1>5 DEF BeginCycle, ExitsDone, HoldPosition, EntriesDone, EndCycle, FlipKill, SkipEntry,
              ReconcileFails, SizeEntry, FillOrder, LapseOrder, CloseOutside, ExitDue, session
<1> QED BY <1>1, <1>2, <1>3, <1>4, <1>5 DEF Next, Session, World

\* A fill leaves the floor in cash.
LEMMA FillKeepsFloor ==
  ASSUME SessionInv, Next, Structured, rows \subseteq rows', rows # rows'
  PROVE  100 * cash' >= FloorPct * Equity'
<1>1. /\ Len(orders) \in Nat /\ cash \in Int /\ Cost \in Nat /\ FloorPct \in Nat
      /\ rows \subseteq 1..Len(orders) /\ IsFiniteSet(rows) /\ Cardinality(rows) \in Nat
  <2>1. /\ Len(orders) \in Nat /\ cash \in Int /\ Cost \in Nat /\ FloorPct \in Nat
        /\ rows \subseteq 1..Len(orders)
    BY SessionAssumption DEF SessionInv, TypeInv, TypeOK
  <2> QED BY <2>1, OrderSubset
<1>2. ASSUME PlaceEntry PROVE 100 * cash' >= FloorPct * Equity'
  <2>1. PICK r \in Replies \cup {Refused} : Take(r)
    BY <1>2 DEF PlaceEntry
  <2>2. rows' = rows \cup {Len(orders) + 1} /\ cash' = cash - Cost
    BY <2>1 DEF Take
  <2>3. Len(orders) + 1 \notin rows
    BY <1>1
  <2>4. Cardinality(rows') = Cardinality(rows) + 1
    BY <1>1, <2>2, <2>3, FS_AddElement
  <2>5. Equity' = Equity
    <3>1. Equity' = (cash - Cost) + Cost * (Cardinality(rows) + 1)
      BY <2>2, <2>4 DEF Equity
    <3>2. Cost * (Cardinality(rows) + 1) = Cost * Cardinality(rows) + Cost
          /\ Cost * Cardinality(rows) \in Int
      BY <1>1
    <3> QED BY <1>1, <3>1, <3>2 DEF Equity
  <2>6. 100 * (cash - Cost) >= FloorPct * Equity
    BY <1>2 DEF PlaceEntry, SessionInv, StructuredInv
  <2> QED BY <2>2, <2>5, <2>6
<1>3. ASSUME NEW o \in 1..Len(orders), FillOrder(o) \/ LapseOrder(o) PROVE FALSE
  BY <1>3 DEF SessionInv, StructuredInv, FillOrder, LapseOrder
<1>4. ASSUME \/ BeginCycle \/ ExitsDone \/ DropPosition \/ HoldPosition \/ ClosePosition
             \/ EntriesDone \/ EndCycle \/ FlipKill \/ Restart
             \/ \E c \in Refs : SkipEntry(c) \/ ReconcileFails(c) \/ SizeEntry(c)
             \/ \E p \in Position : CloseOutside(p) \/ ExitDue(p)
      PROVE  rows' \subseteq rows
  BY <1>4 DEF BeginCycle, ExitsDone, DropPosition, HoldPosition, ClosePosition, EntriesDone,
              EndCycle, FlipKill, Restart, SkipEntry, ReconcileFails, SizeEntry, CloseOutside,
              ExitDue, broker
<1> QED BY <1>2, <1>3, <1>4 DEF Next, Session, World

-----------------------------------------------------------------------------
(* The Schwab adapter.                                                      *)

\* A request that travels arrives before its token dies.
TokenInv ==
  /\ tick \in Nat
  /\ token # NoToken => /\ token.expires \in Int /\ token.dies \in Int
                        /\ token.dies >= token.expires - MaxTransit
  /\ \/ call = NoCall
     \/ /\ call \in [pc : {"refreshing", "travelling"}, op : Ops, id : Nat \cup {NoOrder}, since : Nat]
        /\ call.since <= tick /\ tick <= call.since + MaxTransit
  /\ call.pc = "travelling" => token.dies \in Int /\ call.since + MaxTransit < token.dies
  /\ lastReply.tokenDead = FALSE

\* Orders are numbered as the broker took them, and what the caller holds is one
\* of them that was not replaced.
BookInv ==
  /\ \E n \in Nat : DOMAIN book = 1..n
  /\ held \subseteq DOMAIN book
  /\ RepliesTrue

SchwabInv == TokenInv /\ BookInv

\* The adapter starts without a token it trusts wrongly and with an empty book.
LEMMA SchwabStart ==
  ASSUME SchwabInit
  PROVE  SchwabInv
<1>1. TokenInv
  BY DEF SchwabInit, TokenInv, Answer, NoCall
<1>2. BookInv
  <2>1. DOMAIN book = 1..0
    BY DEF SchwabInit
  <2> QED BY <2>1 DEF SchwabInit, BookInv, RepliesTrue, Answer
<1> QED BY <1>1, <1>2 DEF SchwabInv

\* A request sets out with a token that outlives its transit, from the margin or from a
\* refresh, and meets the broker before that.
LEMMA TokenStep ==
  ASSUME TokenInv, BookInv, SchwabNext
  PROVE  TokenInv'
<1> USE MarginAssumption DEF TokenInv
<1>0. call = NoCall => call.pc = "idle"
  BY DEF NoCall
<1>1. ASSUME SchwabTick PROVE TokenInv'
  BY <1>0, <1>1 DEF SchwabTick, MayTick
<1>2. ASSUME NEW o \in Ops, NEW id \in held \cup {NoOrder}, StartCall(o, id) PROVE TokenInv'
  <2>1. id \in Nat \cup {NoOrder}
    BY DEF BookInv
  <2>2. call' = [pc |-> IF Stale THEN "refreshing" ELSE "travelling", op |-> o, id |-> id, since |-> tick]
        /\ UNCHANGED <<tick, token, lastReply>>
    BY <1>2 DEF StartCall
  <2>3. call' \in [pc : {"refreshing", "travelling"}, op : Ops, id : Nat \cup {NoOrder}, since : Nat]
        /\ call'.since = tick
    BY <2>1, <2>2
  <2>4. call'.pc = "travelling" => token.dies \in Int /\ tick + MaxTransit < token.dies
    BY <2>2 DEF Stale
  <2> QED BY <2>2, <2>3, <2>4
<1>3. ASSUME TokenArrives PROVE TokenInv'
  <2>1. PICK issued \in call.since..tick, life \in Lifetimes :
          token' = [expires |-> tick + life, dies |-> issued + life]
    BY <1>3 DEF TokenArrives
  <2>2. call.pc = "refreshing" /\ call' = [call EXCEPT !.pc = "travelling", !.since = tick]
        /\ UNCHANGED <<tick, lastReply>>
    BY <1>3 DEF TokenArrives
  <2>3. call' \in [pc : {"refreshing", "travelling"}, op : Ops, id : Nat \cup {NoOrder}, since : Nat]
        /\ call'.since = tick /\ call'.pc = "travelling"
    BY <1>0, <2>2
  <2>4. call.since \in Nat /\ issued \in Int /\ issued >= tick - MaxTransit /\ life \in Nat /\ life > 2 * MaxTransit
    BY <1>0, <2>1, <2>2
  <2>5. token'.expires = tick + life /\ token'.dies = issued + life
    BY <2>1
  <2> QED BY <2>2, <2>3, <2>4, <2>5
<1>4. ASSUME RefreshFails \/ RequestLost \/ BrokerPlaces \/ BrokerReplaces \/ BrokerAnswers
      PROVE  TokenInv'
  <2>1. call' = NoCall /\ UNCHANGED <<tick, token>> /\ lastReply'.tokenDead = FALSE
    BY <1>4 DEF RefreshFails, RequestLost, BrokerPlaces, BrokerReplaces, BrokerAnswers, EndCall, Answer
  <2>2. call'.pc = "idle"
    BY <2>1 DEF NoCall
  <2> QED BY <2>1, <2>2
<1>5. ASSUME BrokerRefuses PROVE TokenInv'
  <2>1. ~Dead
    BY <1>0, <1>5 DEF BrokerRefuses, Dead
  <2>2. call' = NoCall /\ UNCHANGED <<tick, token>> /\ lastReply'.tokenDead = FALSE
    BY <1>5, <2>1 DEF BrokerRefuses, EndCall, Answer
  <2>3. call'.pc = "idle"
    BY <2>2 DEF NoCall
  <2> QED BY <2>2, <2>3
<1>6. ASSUME OrderOver PROVE TokenInv'
  BY <1>6 DEF OrderOver
<1> HIDE DEF TokenInv
<1> QED BY <1>1, <1>2, <1>3, <1>4, <1>5, <1>6 DEF SchwabNext

\* The broker numbers its orders, and a replaced id leaves the caller's hands.
LEMMA BookStep ==
  ASSUME TokenInv, BookInv, SchwabNext
  PROVE  BookInv'
<1>1. PICK n \in Nat : DOMAIN book = 1..n
  BY DEF BookInv
<1>2. NewOrder = n + 1
  <2>1. Cardinality(1..n) = n
    BY FS_Interval
  <2> QED BY <1>1, <2>1 DEF NewOrder
<1>3. /\ DOMAIN Placed = 1..(n + 1) /\ Placed[n + 1] = "working"
      /\ \A o \in 1..n : Placed[o] = book[o]
  BY <1>1, <1>2 DEF Placed
<1>4. /\ held \subseteq 1..n
      /\ \A id \in held : book[id] # "replaced"
  BY <1>1 DEF BookInv, RepliesTrue
<1>5. ASSUME UNCHANGED <<book, held, lastReply>> PROVE BookInv'
  BY <1>5 DEF BookInv, RepliesTrue
<1>6. ASSUME SchwabTick \/ TokenArrives \/ (\E o \in Ops, id \in held \cup {NoOrder} : StartCall(o, id))
      PROVE  UNCHANGED <<book, held, lastReply>>
  BY <1>6 DEF SchwabTick, TokenArrives, StartCall
<1>7. ASSUME RefreshFails \/ RequestLost \/ BrokerRefuses \/ BrokerAnswers PROVE BookInv'
  <2>1. UNCHANGED <<book, held>>
        /\ (lastReply'.op = "place" /\ lastReply'.status = "REJECTED" => lastReply'.why \in {"broker", "no location"})
    BY <1>7 DEF RefreshFails, RequestLost, BrokerRefuses, BrokerAnswers, EndCall, Answer, AuthFailure
  <2> QED BY <2>1 DEF BookInv, RepliesTrue
<1>8. ASSUME BrokerPlaces PROVE BookInv'
  <2>1. book' = Placed /\ held' \subseteq held \cup {n + 1}
        /\ lastReply'.why \in {"broker", "no location"}
    BY <1>2, <1>8 DEF BrokerPlaces, EndCall, Answer
  <2>2. DOMAIN book' = 1..(n + 1)
    BY <1>3, <2>1, Zenon
  <2>3. n + 1 \in Nat
    OBVIOUS
  <2>4. \A id \in held' : id = n + 1 \/ id \in held
    BY <2>1
  <2>5. held' \subseteq 1..(n + 1)
    BY <1>4, <2>1, UpToNext
  <2>6. \A id \in held' : book'[id] # "replaced"
    BY <1>3, <1>4, <2>1, <2>4
  <2> QED BY <2>1, <2>2, <2>3, <2>5, <2>6 DEF BookInv, RepliesTrue
<1>9. ASSUME BrokerReplaces PROVE BookInv'
  <2>1. /\ call.id \in 1..n /\ book' = [Placed EXCEPT ![call.id] = "replaced"]
        /\ held' \subseteq (held \ {call.id}) \cup {n + 1}
        /\ lastReply'.why \in {"broker", "no location"}
    BY <1>1, <1>2, <1>9 DEF BrokerReplaces, EndCall, Answer, Alive, ReplacedId
  <2>2. DOMAIN book' = 1..(n + 1) /\ book'[n + 1] = "working"
        /\ \A o \in 1..n : o # call.id => book'[o] = book[o]
    <3>1. n + 1 \in 1..(n + 1) /\ 1..n \subseteq 1..(n + 1) /\ n + 1 \notin 1..n
      OBVIOUS
    <3>2. book' = [Placed EXCEPT ![call.id] = "replaced"]
      BY <2>1
    <3>3. DOMAIN book' = DOMAIN Placed
      BY <3>2
    <3>4. \A o \in DOMAIN Placed : o # call.id => book'[o] = Placed[o]
      BY <3>2
    <3> QED BY <1>3, <2>1, <3>1, <3>3, <3>4
  <2>3. held' \subseteq 1..(n + 1) /\ \A id \in held' : book'[id] # "replaced"
    <3>1. \A id \in held' : id = n + 1 \/ (id \in held /\ id # call.id)
      BY <2>1
    <3>2. held' \subseteq held \cup {n + 1}
      BY <2>1
    <3> QED BY <1>4, <2>2, <3>1, <3>2, UpToNext
  <2>4. n + 1 \in Nat
    OBVIOUS
  <2> QED BY <2>1, <2>2, <2>3, <2>4 DEF BookInv, RepliesTrue
<1>10. ASSUME OrderOver PROVE BookInv'
  <2>1. PICK o \in DOMAIN book : book' = [book EXCEPT ![o] = "over"] /\ UNCHANGED <<held, lastReply>>
    BY <1>10 DEF OrderOver, Alive
  <2>2. DOMAIN book' = DOMAIN book /\ \A id \in DOMAIN book : book'[id] \in {book[id], "over"}
    BY <2>1
  <2> QED BY <1>1, <1>4, <2>1, <2>2 DEF BookInv, RepliesTrue
<1> QED BY <1>5, <1>6, <1>7, <1>8, <1>9, <1>10 DEF SchwabNext

\* Every step of the adapter keeps its invariant.
LEMMA SchwabKeeps ==
  ASSUME SchwabInv, [SchwabNext]_schwabVars
  PROVE  SchwabInv'
<1>1. CASE SchwabNext
  <2>1. TokenInv' /\ BookInv'
    BY <1>1, TokenStep, BookStep DEF SchwabInv
  <2> QED BY <2>1 DEF SchwabInv
<1>2. CASE UNCHANGED schwabVars
  BY <1>2 DEF SchwabInv, TokenInv, BookInv, RepliesTrue, schwabVars
<1> QED BY <1>1, <1>2

-----------------------------------------------------------------------------
(* The theorems.                                                            *)

deskVars == <<part, vars, schwabVars>>
DeskInv == SessionInv /\ SchwabInv

\* A step of the desk is a step of one of the two and leaves the other alone.
LEMMA DeskKeeps ==
  ASSUME DeskInv, [DeskNext]_deskVars
  PROVE  DeskInv'
<1>1. [Next]_vars /\ [SchwabNext]_schwabVars
  BY DEF DeskNext, deskVars
<1> QED BY <1>1, SessionKeeps, SchwabKeeps DEF DeskInv

\* The invariants of session and adapter hold throughout.
LEMMA DeskSafe == DeskSpec => []DeskInv
<1>1. DeskInit => DeskInv
  BY SessionStart, SchwabStart DEF DeskInit, DeskInv
<1>2. DeskInv /\ [DeskNext]_deskVars => DeskInv'
  BY DeskKeeps
<1> QED BY <1>1, <1>2, PTL DEF DeskSpec, deskVars

\* execution/engine.py and killswitch.py: whatever the brokers answer, and
\* however often the process is started anew, at most one entry follows the kill
\* file, and a catalyst has one order working plus one for each odd answer and
\* each restart.
THEOREM EntryBounds == DeskSpec => []EntriesBounded
<1>1. DeskInv => EntriesBounded
  <2> SUFFICES ASSUME DeskInv PROVE EntriesBounded
    OBVIOUS
  <2>1. TypeOK /\ KillBoundsEntries
    BY DEF DeskInv, SessionInv, TypeInv, KillInv, KillBoundsEntries
  <2>2. NeverTwiceInFlight
    <3> SUFFICES ASSUME NEW c \in Refs PROVE Cardinality(Working(c)) <= 1 + odd + restarts
      BY DEF NeverTwiceInFlight
    <3>1. Working(c) \subseteq 1..Len(orders) /\ Len(orders) \in Nat /\ odd \in Nat /\ restarts \in Nat
      BY <2>1 DEF Working, TypeOK
    <3>2. Cardinality(Working(c)) <= (IF c \in pending THEN 1 ELSE 0) + odd + restarts
      BY DEF DeskInv, SessionInv, FlightInv
    <3> QED BY <3>1, <3>2, OrderSubset
  <2> QED BY <2>1, <2>2 DEF EntriesBounded
<1> QED BY <1>1, DeskSafe, PTL

\* execution/session.py: with the broker that names its rows, no fill escapes
\* the exits between two cycles, and no round trip is counted that is not a fill
\* whose position is gone.
THEOREM ManagedFills == DeskSpec => []FillsManaged
<1>1. DeskInv => FillsManaged
  BY DEF DeskInv, SessionInv, StructuredInv, FillsManaged, EveryFillManaged, RoundTripsObserved, FilledOrders
<1> QED BY <1>1, DeskSafe, PTL

\* brokers/schwab.py: within its margin no request meets a dead token, a failed
\* login is never reported as a refused order, and no id the caller holds is one
\* that was replaced.
THEOREM HonestAdapter == DeskSpec => []SchwabHonest
<1>1. DeskInv => SchwabHonest
  BY DEF DeskInv, SchwabInv, TokenInv, BookInv, SchwabHonest, TokenOutlivesOrder
<1> QED BY <1>1, DeskSafe, PTL

\* No step of the session drops a position the broker still has, and no fill
\* takes the cash below the floor.
THEOREM SafeSteps == DeskSpec => StepsSafe
<1>1. DeskInv /\ [DeskNext]_deskVars => [Structured => \A p \in open \ open' : p \notin rows']_<<open>>
  <2> SUFFICES ASSUME DeskInv, [DeskNext]_deskVars, open' # open, Structured
               PROVE  \A p \in open \ open' : p \notin rows'
    OBVIOUS
  <2>1. Next
    BY DEF DeskNext, deskVars, vars
  <2> QED BY <2>1, LosesOnlyGone DEF DeskInv
<1>2. DeskInv /\ [DeskNext]_deskVars =>
        [Structured /\ rows \subseteq rows' /\ rows # rows' => 100 * cash' >= FloorPct * Equity']_vars
  <2> SUFFICES ASSUME DeskInv, [DeskNext]_deskVars, Structured, rows \subseteq rows', rows # rows'
               PROVE  100 * cash' >= FloorPct * Equity'
    OBVIOUS
  <2>1. Next
    BY DEF DeskNext, deskVars, vars
  <2> QED BY <2>1, FillKeepsFloor DEF DeskInv
<1> QED BY <1>1, <1>2, DeskSafe, PTL DEF DeskSpec, deskVars, StepsSafe
=============================================================================
