---------------------------- MODULE MCEdgeEngine ----------------------------
(***************************************************************************)
(* The engine run beside the latch the risk module offers for the same     *)
(* limit: risk/sizing.py's DailyLossHalt, fed with the equity the engine   *)
(* sees at each mark and at each event.  The engine does not consult it:   *)
(* _process_signal reads config.risk.daily_loss_halt_pct itself.           *)
(***************************************************************************)
EXTENDS EdgeEngine, EdgeRisk

CONSTANTS a, b

VARIABLE halted   \* DailyLossHalt._halted_session, -1 for None

haltVars == <<engineVars, halted>>

HaltInit == EngineInit /\ halted = -1

\* The day's running loss is observed whenever the engine has computed equity.
Observed == ObserveHalt(halted, day', DailyLossHalt(day_start',
                EquityOf(cash', positions', last_close'), DailyHaltPct))

HaltNext == EngineNext /\ halted' = Observed

HaltSpec == HaltInit /\ [][HaltNext]_haltVars /\ WF_haltVars(HaltNext)

\* What the engine's own test forbids the latch forbids too: whenever an event
\* would be dropped as daily-halt, DailyLossHalt allows no entry either.
LatchCoversEngine ==
    phase = "signals" /\ HaltTripped(Equity) => ~EntriesAllowed(halted, day)

\* The ledger of a run: cash, rows, positions, counters and the reported equity explain each
\* other to the last unit, costs included; see the conjuncts in EdgeEngine.
LedgerHonest ==
    EngineTypeOK /\ LedgerReconciles /\ EveryTradeBooked /\ FinalEquityIsCash /\ AttributionExact

\* What bounds a position's risk is not lost on the way: an exit that failed is retried until
\* the tape can fill it, and what the engine's own test of the daily loss forbids the risk
\* module's latch forbids too.
LimitsHold == OverdueOnlyIfUnfillable /\ LatchCoversEngine
-----------------------------------------------------------------------------

MCOrder == <<a, b>>
Bar(close, low, high, quote) == [close |-> close, low |-> low, high |-> high, quote |-> quote]
Nbbo(bid, ask) == [bid |-> bid, ask |-> ask]

\* A quiet bar, a fall through the stop, a rise, a bar without a quote row and a
\* bar whose book is crossed.
Quiet == Bar(6, 6, 7, Nbbo(5, 7))
Bars == {Quiet, Bar(4, 3, 6, Nbbo(4, 4)), Bar(8, 6, 8, Nbbo(8, 9)),
         Bar(6, 5, 6, NoQuote), Bar(6, 6, 6, Nbbo(7, 6))}
Falling == (1 :> Bar(6, 6, 6, Nbbo(6, 6))) @@ (3 :> Bar(3, 3, 5, Nbbo(3, 3)))
           @@ (4 :> Bar(3, 3, 3, Nbbo(2, 4)))

\* Two days of two instants each; one symbol is free after its
\* first bar, the other falls, has no bar at the first day's end and trades one instant longer.
MCTapes == {(a :> f) @@ (b :> Falling) :
               f \in {g \in [{1, 2, 3} -> Bars] : g[1] = Quiet}}
=============================================================================
