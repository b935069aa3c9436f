----------------------------- MODULE TradeBook -----------------------------
(***************************************************************************)
(* What both backtest engines promise about trades, whatever their market  *)
(* model: a trade is opened once, under a name that was never used before; *)
(* it is closed once, by being booked; and a run that returns leaves no    *)
(* trade open.  A run that raises leaves its books as they were.           *)
(***************************************************************************)
EXTENDS FiniteSets, Naturals

VARIABLES open,      \* the trades that are open
          booked,    \* the trades that have their record
          outcome    \* "running", "returned" or "raised"

bookVars == <<open, booked, outcome>>

BookInit == open = {} /\ booked = {} /\ outcome = "running"

OpenOne ==
    /\ open \subseteq open' /\ Cardinality(open' \ open) = 1
    /\ (open' \ open) \cap booked = {}
    /\ UNCHANGED <<booked, outcome>>

CloseSome ==
    /\ open' \subseteq open /\ open' # open
    /\ booked' = booked \cup (open \ open')
    /\ UNCHANGED outcome

Return == open' = {} /\ booked' = booked \cup open /\ outcome' = "returned"

Raise == outcome' = "raised" /\ UNCHANGED <<open, booked>>

BookNext == outcome = "running" /\ (OpenOne \/ CloseSome \/ Return \/ Raise)

BookSpec == BookInit /\ [][BookNext]_bookVars
=============================================================================
