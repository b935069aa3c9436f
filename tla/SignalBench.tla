---------------------------- MODULE SignalBench ----------------------------
(***************************************************************************)
(* The bar-driven signals under the engine's replay: at every instant the  *)
(* bars of the group are recorded as seen, then each bar is offered to     *)
(* every signal.  The instances outlive a run: when the tape is exhausted  *)
(* the same engine may run again, with empty run state and the memos the   *)
(* first run left.                                                         *)
(***************************************************************************)
EXTENDS BarSignals

CONSTANTS SymbolOrder,   \* the symbols in the order sorted() gives them
          Tapes,         \* the tapes: symbol -> instant -> bar
          MaxRuns        \* bound: runs over one set of instances

Symbols == {SymbolOrder[i] : i \in DOMAIN SymbolOrder}

VARIABLES market, now, todo,
          seen,     \* state.seen
          run_no,    \* the run completed or under way
          orb,      \* OpeningRangeBreakout._tape
          vwap,     \* VwapReversion._sessions
          lead,     \* IndexLeadLag's measurement state
          out,      \* what the signals emitted at the last bar offered, if any yet
          log       \* what the first run emitted at each bar

benchVars == <<market, now, todo, seen, run_no, orb, vwap, lead, out, log>>

BarTimes(s) == DOMAIN market[s]
Later(t) == {u \in UNION {BarTimes(s) : s \in Symbols} : u > t}
BarAt(s, t) == [ts |-> t, close |-> market[s][t].close, high |-> market[s][t].high,
                low |-> market[s][t].low, volume |-> market[s][t].volume]
Nothing == [symbol |-> NoMemo, orb |-> NoSignal, vwap |-> NoSignal, lead |-> NoSignal]

Cold ==
    /\ now = -1 /\ todo = <<>> /\ seen = [s \in Symbols |-> <<>>] /\ run_no = 1
    /\ orb = [s \in Symbols |-> NoMemo] /\ vwap = [s \in Symbols |-> NoMemo]
    /\ lead = ColdState /\ out = Nothing /\ log = <<>>
BenchInit == market \in Tapes /\ Cold
BenchRest == market = [s \in Symbols |-> <<>>] /\ Cold

\* The engine's phase 1: the clock, and every bar of the group recorded as seen.
Advance ==
    /\ todo = <<>> /\ Later(now) # {}
    /\ LET t == Min(Later(now))
       IN  /\ now' = t
           /\ todo' = SelectSeq(SymbolOrder, LAMBDA s : t \in BarTimes(s))
           /\ seen' = [s \in Symbols |-> IF t \in BarTimes(s) THEN Append(seen[s], BarAt(s, t))
                                                              ELSE seen[s]]
    /\ out' = Nothing
    /\ UNCHANGED <<market, run_no, orb, vwap, lead, log>>

\* Phase 3 for one bar: on_bar of the three signals, in registration order.
OnBar ==
    /\ todo # <<>>
    /\ LET s == Head(todo)
           bar == Last(seen[s])
           ll == IF s = IndexSymbol THEN [state |-> lead, out |-> NoSignal]
                 ELSE LeadLagStep(lead, s, seen, bar)
           emitted == [symbol |-> s, orb |-> OrbFires(orb'[s], bar, now),
                       vwap |-> VwapFires(vwap'[s].spreads), lead |-> ll.out]
       IN  /\ orb' = [orb EXCEPT ![s] = OrbIngest(@, seen[s], bar, now)]
           /\ vwap' = [vwap EXCEPT ![s] = VwapIngest(@, seen[s], bar, now)]
           /\ lead' = ll.state
           /\ out' = emitted
           /\ log' = IF run_no = 1 THEN Put(log, <<now, s>>, emitted) ELSE log
    /\ todo' = Tail(todo)
    /\ UNCHANGED <<market, now, seen, run_no>>

\* BacktestEngine.run called again: a new run state, the same signal instances.
Rerun ==
    /\ todo = <<>> /\ Later(now) = {} /\ run_no < MaxRuns
    /\ now' = -1 /\ seen' = [s \in Symbols |-> <<>>] /\ run_no' = run_no + 1
    /\ out' = Nothing
    /\ UNCHANGED <<market, todo, orb, vwap, lead, log>>

BenchNext == Advance \/ OnBar \/ Rerun
BenchSpec == BenchInit /\ [][BenchNext]_benchVars
----------------------------------------------------------------------------
(* Properties.  "Outputs are identical to recomputing from scratch on      *)
(* every bar" is what the three memos claim of themselves.                 *)

\* The bar just offered.
Bar == Last(seen[out.symbol])

\* The memos and the last emission are well formed.
SignalsTypeOK ==
    /\ now \in UNION {BarTimes(s) : s \in Symbols} \cup {-1}
    /\ todo \in Seq(Symbols)
    /\ \A s \in Symbols : orb[s] # NoMemo =>
         orb[s].total \in Nat /\ orb[s].days # <<>> /\ DOMAIN orb[s].states = ToSet(orb[s].days)
    /\ \A s \in Symbols : vwap[s] # NoMemo => Len(vwap[s].spreads) <= vwap[s].n_rows
    /\ {out.orb, out.vwap, out.lead} \subseteq
         {NoSignal} \cup [side : {LONG, SHORT}] \cup [side : {LONG, SHORT}, full : BOOLEAN]

\* OpeningRangeBreakout._tape: days folded, pruned and cut at the history window
\* give the decision the capped history request gives, over gaps, sessions that
\* fall partly out of the window, quiet sessions and a second run.
OrbMemoExact ==
    out.symbol # NoMemo => out.orb = OrbReference(seen[out.symbol], Bar, now)

\* VwapReversion._sessions: the running sums hold the session's spreads exactly,
\* whatever gaps, session changes and truncations came before.
VwapMemoExact ==
    out.symbol # NoMemo =>
        /\ vwap[out.symbol].spreads = SpreadSeries(SessionRows(seen[out.symbol], Bar, now))
        /\ out.vwap = VwapReference(seen[out.symbol], Bar, now)

\* IndexLeadLag: the expanding index moves, the daily closes and the betas kept
\* across bars give the decision that the whole history gives, although the
\* index state is only brought up to date at instants where a name trades too.
LeadLagMemoExact ==
    out.symbol \notin {NoMemo, IndexSymbol} =>
        out.lead = LeadLagReference(out.symbol, seen, Bar)

\* "Rebuilding all state per call makes reruns independent" (engine.py run): a
\* second run over the same instances emits at every bar what the first did.
RerunsIdentical ==
    run_no > 1 /\ out.symbol # NoMemo => out = log[<<now, out.symbol>>]
=============================================================================
