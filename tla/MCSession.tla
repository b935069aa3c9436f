----------------------------- MODULE MCSession -----------------------------
(***************************************************************************)
(* A session with any of the brokers, and the Schwab adapter's own calls   *)
(* and tokens, which the session only sees as replies: a behaviour is one  *)
(* of the two.                                                             *)
(***************************************************************************)
EXTENDS LiveSession, SchwabClient

VARIABLE part

DeskInit ==
  \/ part = "session" /\ Init /\ SchwabInit
  \/ part = "schwab" /\ Broker = (CHOOSE b \in Brokers : TRUE) /\ Init /\ SchwabInit
DeskNext ==
  \/ part = "session" /\ Next /\ UNCHANGED <<part, schwabVars>>
  \/ part = "schwab" /\ SchwabNext /\ UNCHANGED <<part, vars>>
DeskSpec ==
  /\ DeskInit /\ [][DeskNext]_<<part, vars, schwabVars>>
  /\ WF_vars(part = "session" /\ Session /\ UNCHANGED Broker)

MCManual == [b \in Brokers |-> IF b = "simulated" THEN 1 ELSE 0]
MCFlips == [b \in Brokers |-> IF b = "simulated" THEN 2 ELSE 1]
-----------------------------------------------------------------------------
\* Entries: once the kill file exists at most the one that had passed the check reaches the
\* broker, over cycles and restarts; a catalyst has one entry working, but for one more for
\* each call that failed or was answered oddly and each restart.  With every broker.
EntriesBounded == TypeOK /\ KillBoundsEntries /\ NeverTwiceInFlight

\* With the broker that names its rows by position, every position an entry opened is under
\* the session's exits between cycles, and the round trips the paper gate counts are fills
\* whose positions are gone.
FillsManaged == Structured => EveryFillManaged /\ RoundTripsObserved

\* With that broker open_positions loses a position only when the broker has (session.py
\* "closed/expired at the broker outside our loop"), and no fill takes the cash below the
\* floor ("cash after entry may never dip below the configured fraction of equity").
StepsSafe ==
  /\ [][Structured => \A p \in open \ open' : p \notin rows']_<<open>>
  /\ [][Structured /\ rows \subseteq rows' /\ rows # rows' => 100 * cash' >= FloorPct * Equity']_vars

\* "halting entries must never trap an open position": with that broker a position whose
\* exit rule has come true is closed, killed or not, while the session has more cycles left
\* than calls can still fail.
DueIsClosed ==
  \A p \in Position :
    (Structured /\ p \in due \cap rows /\ phase # "ended" /\ MaxCycles - cycle > MaxOdd) ~> (p \notin rows)

\* SchwabBroker: no request fails because its token died on the way, no failed login passes
\* for the rejection of a new order, and no id the caller holds was replaced.
SchwabHonest == TokenOutlivesOrder /\ RepliesTrue
=============================================================================
