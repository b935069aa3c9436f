------------------------------ MODULE Campaign ------------------------------
(***************************************************************************)
(* The edge campaign drivers: scripts/edge_first_backtests.py, whose       *)
(* orchestrator records every trial and then runs the backtests in worker  *)
(* processes, its report command, and runners/campaign.py, which executes  *)
(* one run in its own process.  They share the run directories, the trial  *)
(* registry and the parquet of regimes, and any of them may be killed.     *)
(***************************************************************************)
EXTENDS Integers, Sequences, FiniteSets, FiniteSetsExt, Functions

CONSTANTS PLAN,         \* the (signal, span) pairs of the campaign, in order
          Solo,         \* pairs that runners/campaign.py may execute
          HEAVY,        \* pairs of much memory
          Gated,        \* signals that declare allowed_regimes
          SPECS,        \* the signals of the report, in order
          MaxProcs, HeavyProcs,
          Onlys,        \* the choices of --only: sets of signals
          MaxEvents     \* --only -> bound on solo runs, reports, kills and restarts together

ASSUME BudgetAssumption == MaxProcs \in Nat \ {0} /\ HeavyProcs \in Nat \ {0}

Pairs == Range(PLAN) \cup Solo
Ids == 1..((1 + Max(Range(MaxEvents))) * Len(PLAN))
OOS(name) == <<name, "OOS">>

\* The plan has a pair, and a run directory for every signal of the report.
ASSUME PlanAssumption ==
    /\ PLAN \in Seq(Pairs) /\ PLAN # <<>>
    /\ SPECS \in Seq(Range(SPECS)) /\ \A name \in Range(SPECS) : OOS(name) \in Pairs
    /\ IsFiniteSet(Onlys) /\ MaxEvents \in [Onlys -> Nat]

\* BUCKETS of the classifier, REGIME_BUCKETS of the tearsheet, _BUCKET_LABEL.
BUCKETS == {"high_vol_trending", "high_vol_chopping", "low_vol_trending", "low_vol_chopping"}
REGIME_BUCKETS == BUCKETS
BucketLabel(b) ==
    CASE b = "low_vol_trending" -> "low_vol_trend" [] b = "low_vol_chopping" -> "low_vol_chop"
      [] b = "high_vol_trending" -> "high_vol_trend" [] OTHER -> "high_vol_chop"

VARIABLES only,      \* --only of this campaign
          regimes,   \* REGIME_PARQUET: "none", "partial" (being written or cut short), "whole"
          trials,    \* lines of the trial registry per pair
          orch,      \* the orchestrator: its step, jobs, running and done
          runs,      \* the processes that ran a backtest, by launch
          rundirs,       \* the run directories: which run wrote each file, 0 for none
          report,    \* the report command: its step, the signals left, its rows
          spent,     \* whether an orchestrator started, and the other events so far
          raced      \* two processes built the parquet of regimes at once

campaignVars == <<only, regimes, trials, orch, runs, rundirs, report, spent, raced>>

Absent == [ledger |-> 0, equity |-> 0, summary |-> 0, failure |-> 0]
NoOrchestrator == [pc |-> "off", jobs |-> <<>>, running |-> {}, done |-> {}, recorded |-> 0]
Quiet == [pc |-> "off", left |-> <<>>, rows |-> <<>>, summary |-> 0, mixed |-> FALSE, why |-> "none"]

NothingRun ==
    /\ trials = [p \in Pairs |-> 0] /\ rundirs = [p \in Pairs |-> Absent]
    /\ orch = NoOrchestrator /\ report = Quiet /\ runs = <<>> /\ raced = FALSE
    /\ spent = [starts |-> 0, events |-> 0]
CampaignInit == only \in Onlys /\ regimes \in {"none", "whole"} /\ NothingRun
CampaignRest == only = {} /\ regimes = "none" /\ NothingRun

\* ensure_regimes, its three accesses: the existence check, the write, its end.
NextEnsure(pc, ready) ==
    CASE pc = "ensure" -> IF regimes = "none" THEN "classify" ELSE IF regimes = "whole" THEN ready ELSE "raise"
      [] pc = "classify" -> "write"
      [] OTHER -> ready
EnsuredFile(pc) == CASE pc = "classify" -> "partial" [] pc = "write" -> "whole" [] OTHER -> regimes
Ensuring == {"ensure", "classify", "write"}
\* Some builder other than this one is past its check.
Builders == Cardinality({i \in DOMAIN runs : runs[i].pc \in {"classify", "write"}})
            + (IF orch.pc \in {"classify", "write"} THEN 1 ELSE 0)
            + (IF report.pc \in {"classify", "write"} THEN 1 ELSE 0)
EnsureRegimes(pc) ==
    /\ regimes' = EnsuredFile(pc)
    /\ raced' = (raced \/ (pc = "ensure" /\ regimes # "whole" /\ Builders > 0))
----------------------------------------------------------------------------
\* run_signal with a launcher for backtest: the trial line, then a launch handle.
RunSignal(p) == trials' = [trials EXCEPT ![p] = @ + 1]

OrchStart ==
    /\ orch.pc \in {"off", "raise", "ended"}
    /\ spent.starts = 0 \/ spent.events < MaxEvents[only]
    /\ orch' = [NoOrchestrator EXCEPT !.pc = "ensure"]
    /\ spent' = [starts |-> 1, events |-> spent.events + spent.starts]
    /\ UNCHANGED <<only, regimes, trials, runs, rundirs, report, raced>>

\* Builds without asking first for the file.
OrchEnsureSkips ==
    /\ orch.pc \in Ensuring
    /\ orch' = [orch EXCEPT !.pc = "record"]
    /\ UNCHANGED <<only, regimes, trials, runs, rundirs, report, spent, raced>>

OrchEnsure ==
    /\ orch.pc \in Ensuring /\ EnsureRegimes(orch.pc)
    /\ orch' = [orch EXCEPT !.pc = NextEnsure(@, "record")]
    /\ UNCHANGED <<only, trials, runs, rundirs, report, spent>>

\* The pairs of the signals asked for, in order.
Plan ==
    LET upto[i \in 0..Len(PLAN)] ==
          IF i = 0 THEN <<>>
          ELSE IF PLAN[i][1] \in only THEN Append(upto[i - 1], PLAN[i]) ELSE upto[i - 1]
    IN  upto[Len(PLAN)]

\* The trials of the plan, one line each, before the first launch.
OrchRecord ==
    /\ orch.pc = "record"
    /\ IF orch.recorded < Len(Plan)
       THEN LET p == Plan[orch.recorded + 1]
            IN  /\ RunSignal(p)
                /\ orch' = [orch EXCEPT !.recorded = @ + 1, !.jobs = Append(@, p)]
       ELSE orch' = [orch EXCEPT !.pc = "loop"] /\ UNCHANGED trials
    /\ UNCHANGED <<only, regimes, runs, rundirs, report, spent, raced>>

HeavyOf(ids) == {i \in ids : runs[i].pair \in HEAVY}
\* One heavy process too many.
MayLaunchOffByOne(jobs, running, k) ==
    \A i \in 1..k :
        /\ Cardinality(running) + i - 1 < MaxProcs
        /\ jobs[i] \in HEAVY =>
             Cardinality(HeavyOf(running)) + Cardinality({j \in 1..(i - 1) : jobs[j] \in HEAVY}) <= HeavyProcs
\* The head of the queue is launched while both budgets have room for it.
MayLaunch(jobs, running, k) ==
    \A i \in 1..k :
        /\ Cardinality(running) + i - 1 < MaxProcs
        /\ jobs[i] \in HEAVY =>
             Cardinality(HeavyOf(running)) + Cardinality({j \in 1..(i - 1) : jobs[j] \in HEAVY}) < HeavyProcs
Worker(p, via) == [pair |-> p, pc |-> "load", via |-> via, code |-> 0, trades |-> 0, played |-> FALSE]

\* The loop ends with the queue, whoever still runs.
OrchPassLeaves ==
    /\ orch.pc = "loop"
    /\ LET finished == {i \in orch.running : runs[i].pc = "gone"}
           alive == orch.running \ finished
           k == Max({n \in 0..Len(orch.jobs) : MayLaunch(orch.jobs, alive, n)})
           fresh == (Len(runs) + 1)..(Len(runs) + k)
       IN  /\ runs' = runs \o [j \in 1..k |-> Worker(orch.jobs[j], "worker")]
           /\ orch' = [orch EXCEPT !.jobs = SubSeq(@, k + 1, Len(@)), !.running = alive \cup fresh,
                          !.done = @ \cup finished,
                          !.pc = IF Len(orch.jobs) = k THEN "ended" ELSE @]
    /\ UNCHANGED <<only, regimes, trials, rundirs, report, spent, raced>>

\* The ones that exited stay in running.
OrchPassNeverReaps ==
    /\ orch.pc = "loop"
    /\ LET k == Max({n \in 0..Len(orch.jobs) : MayLaunch(orch.jobs, orch.running, n)})
           fresh == (Len(runs) + 1)..(Len(runs) + k)
       IN  /\ runs' = runs \o [j \in 1..k |-> Worker(orch.jobs[j], "worker")]
           /\ orch' = [orch EXCEPT !.jobs = SubSeq(@, k + 1, Len(@)), !.running = @ \cup fresh]
    /\ UNCHANGED <<only, regimes, trials, rundirs, report, spent, raced>>

\* One turn of the scheduling loop: reap, then launch.
OrchPass ==
    /\ orch.pc = "loop"
    /\ LET finished == {i \in orch.running : runs[i].pc = "gone"}
           alive == orch.running \ finished
           k == Max({n \in 0..Len(orch.jobs) : MayLaunch(orch.jobs, alive, n)})
           fresh == (Len(runs) + 1)..(Len(runs) + k)
       IN  /\ runs' = runs \o [j \in 1..k |-> Worker(orch.jobs[j], "worker")]
           /\ orch' = [orch EXCEPT !.jobs = SubSeq(@, k + 1, Len(@)), !.running = alive \cup fresh,
                          !.done = @ \cup finished,
                          !.pc = IF orch.jobs = <<>> /\ alive = {} THEN "ended" ELSE @]
    /\ UNCHANGED <<only, regimes, trials, rundirs, report, spent, raced>>
----------------------------------------------------------------------------
\* runners/campaign.py: execute for one spec, in the caller's process.
Execute(p) ==
    /\ spent.events < MaxEvents[only] /\ runs' = Append(runs, Worker(p, "execute"))
    /\ spent' = [spent EXCEPT !.events = @ + 1]
    /\ UNCHANGED <<only, regimes, trials, orch, rundirs, report, raced>>

RunGoto(i, pc) == runs' = [runs EXCEPT ![i].pc = pc]
KeepFiles == UNCHANGED <<only, trials, orch, report, spent>>

\* Loader, quote source and signal.  The worker's log goes to a pipe nobody reads
\* before it exits: a log that fills it stops the worker.  execute loads outside
\* its try: what raises there leaves no failure.json.
Load(i) ==
    /\ runs[i].pc = "load"
    /\ \/ RunGoto(i, IF runs[i].via = "execute" THEN "record"
                  ELSE IF runs[i].pair[1] \in Gated THEN "ensure" ELSE "replay")
       \/ runs[i].via = "worker" /\ RunGoto(i, "fail")
       \/ runs[i].via = "worker" /\ RunGoto(i, "stuck")
       \/ runs[i].via = "execute" /\ runs' = [runs EXCEPT ![i].pc = "gone", ![i].code = 1]
    /\ KeepFiles /\ UNCHANGED <<regimes, rundirs, raced>>

\* The pipe closes with the orchestrator, its writers go on.
Unblock(i) ==
    /\ runs[i].pc = "stuck" /\ i \notin orch.running
    /\ RunGoto(i, IF runs[i].pair[1] \in Gated THEN "ensure" ELSE "replay")
    /\ KeepFiles /\ UNCHANGED <<regimes, rundirs, raced>>

\* gate_for in a worker.
WorkerEnsure(i) ==
    /\ runs[i].pc \in Ensuring /\ EnsureRegimes(runs[i].pc)
    /\ RunGoto(i, LET pc == NextEnsure(runs[i].pc, "replay") IN IF pc = "raise" THEN "cut" ELSE pc)
    /\ KeepFiles /\ UNCHANGED rundirs

\* run_signal records after the backtest.
RecordLate(i) ==
    /\ runs[i].pc = "record" /\ RunGoto(i, "replay")
    /\ UNCHANGED <<only, regimes, trials, orch, rundirs, report, spent, raced>>

\* run_signal in execute: the trial line first.
Record(i) ==
    /\ runs[i].pc = "record" /\ RunSignal(runs[i].pair) /\ RunGoto(i, "replay")
    /\ UNCHANGED <<only, regimes, orch, rundirs, report, spent, raced>>

\* engine.run: a result with some trades, or an exception.
Replay(i) ==
    /\ runs[i].pc = "replay"
    /\ \/ \E n \in {0, 1} : runs' = [runs EXCEPT ![i].pc = "ledger", ![i].trades = n, ![i].played = TRUE]
       \/ runs' = [runs EXCEPT ![i].pc = "fail", ![i].played = TRUE]
    /\ KeepFiles /\ UNCHANGED <<regimes, rundirs, raced>>

\* The summary is written first.
FileAfterSummaryFirst(pc) ==
    CASE pc = "ledger" -> [file |-> "summary", next |-> "equity"]
      [] pc = "equity" -> [file |-> "ledger", next |-> "summary"]
      [] OTHER -> [file |-> "equity", next |-> "exit"]
\* The three artifacts of a run, in order.
FileAfter(pc) ==
    CASE pc = "ledger" -> [file |-> "ledger", next |-> "equity"]
      [] pc = "equity" -> [file |-> "equity", next |-> "summary"]
      [] OTHER -> [file |-> "summary", next |-> "exit"]
Persist(i) ==
    /\ runs[i].pc \in {"ledger", "equity", "summary"}
    /\ rundirs' = [rundirs EXCEPT ![runs[i].pair][FileAfter(runs[i].pc).file] = i]
    /\ RunGoto(i, FileAfter(runs[i].pc).next)
    /\ KeepFiles /\ UNCHANGED <<regimes, raced>>

\* cmd_worker's and execute's handler: failure.json, older artifacts stay.
Fail(i) ==
    /\ runs[i].pc \in {"fail", "cut"}
    /\ rundirs' = [rundirs EXCEPT ![runs[i].pair].failure = i]
    /\ runs' = [runs EXCEPT ![i].pc = "gone", ![i].code = IF runs[i].pc = "cut" THEN 4 ELSE 3]
    /\ KeepFiles /\ UNCHANGED <<regimes, raced>>

Exit(i) == runs[i].pc = "exit" /\ RunGoto(i, "gone") /\ KeepFiles /\ UNCHANGED <<regimes, rundirs, raced>>

RunStep(i) ==
    Load(i) \/ Unblock(i) \/ WorkerEnsure(i) \/ Record(i) \/ Replay(i) \/ Persist(i) \/ Fail(i) \/ Exit(i)
----------------------------------------------------------------------------
ReportStart ==
    /\ report.pc \in {"off", "done", "raise"} /\ spent.events < MaxEvents[only]
    /\ report' = [Quiet EXCEPT !.pc = "ensure", !.left = SPECS]
    /\ spent' = [spent EXCEPT !.events = @ + 1]
    /\ UNCHANGED <<only, regimes, trials, orch, runs, rundirs, raced>>

ReportEnsure ==
    /\ report.pc \in Ensuring /\ EnsureRegimes(report.pc)
    /\ report' = [report EXCEPT !.pc = NextEnsure(@, "rows")]
    /\ UNCHANGED <<only, trials, orch, runs, rundirs, spent>>

\* compute_regime_breakdown refuses a series with a label it does not know.
BreakdownRaises == \E b \in BUCKETS : BucketLabel(b) \notin REGIME_BUCKETS
Mixed(dir) == \E f \in {dir.ledger, dir.equity} : f # report.summary
Raise(why) == [report EXCEPT !.pc = "raise", !.why = why]
\* The failure counts only without a summary; with neither, read_text raises.
ReportRow ==
    /\ report.pc = "rows"
    /\ report' =
         IF report.left = <<>> THEN [report EXCEPT !.pc = "done"]
         ELSE LET dir == rundirs[OOS(Head(report.left))]
              IN  IF dir.summary # 0 THEN [report EXCEPT !.pc = "files", !.summary = dir.summary]
                  ELSE IF dir.failure = 0 THEN Raise("missing")
                  ELSE [report EXCEPT !.left = Tail(@), !.rows = Append(@, [signal |-> Head(report.left), status |-> "BLOCKED", run |-> 0])]
    /\ UNCHANGED <<only, regimes, trials, orch, runs, rundirs, spent, raced>>
\* The ledger and the equity of that directory, read after its summary.
ReportFiles ==
    /\ report.pc = "files"
    /\ LET dir == rundirs[OOS(Head(report.left))]
           trades == runs[dir.ledger].trades
       IN  report' =
             IF 0 \in {dir.ledger, dir.equity} THEN Raise("half")
             ELSE IF trades > 0 /\ BreakdownRaises THEN [Raise("labels") EXCEPT !.mixed = @ \/ Mixed(dir)]
             ELSE [report EXCEPT !.pc = "rows", !.left = Tail(@), !.mixed = @ \/ Mixed(dir),
                      !.rows = Append(@, [signal |-> Head(report.left), status |-> IF trades = 0 THEN "NO_TRADES" ELSE "RAN",
                                          run |-> report.summary])]
    /\ UNCHANGED <<only, regimes, trials, orch, runs, rundirs, spent, raced>>

\* A process is killed; the orchestrator's children live on.
KillOrch ==
    /\ orch.pc # "off" /\ spent.events < MaxEvents[only] /\ orch' = NoOrchestrator
    /\ spent' = [spent EXCEPT !.events = @ + 1]
    /\ UNCHANGED <<only, regimes, trials, runs, rundirs, report, raced>>
Kill(i) ==
    /\ runs[i].pc # "gone" /\ spent.events < MaxEvents[only]
    /\ runs' = [runs EXCEPT ![i].pc = "gone", ![i].code = 9, ![i].played = @ \/ runs[i].pc = "replay"]
    /\ spent' = [spent EXCEPT !.events = @ + 1]
    /\ UNCHANGED <<only, regimes, trials, orch, rundirs, report, raced>>

CampaignStep == OrchStart \/ OrchEnsure \/ OrchRecord \/ OrchPass \/ ReportStart \/ ReportEnsure \/ ReportRow \/ ReportFiles
CampaignNext ==
    \/ CampaignStep
    \/ \E p \in Solo : Execute(p)
    \/ \E i \in DOMAIN runs : RunStep(i) \/ Kill(i)
    \/ KillOrch
CampaignSpec == CampaignInit /\ [][CampaignNext]_campaignVars
----------------------------------------------------------------------------
\* The campaign's state is well formed: a row of the queue, a run or a file is one of the plan's.
CampaignTypeOK ==
    /\ regimes \in {"none", "partial", "whole"} /\ DOMAIN runs \subseteq Ids
    /\ Range(orch.jobs) \subseteq Range(Plan) /\ orch.running \cup orch.done \subseteq DOMAIN runs
    /\ \A p \in Pairs : Range(rundirs[p]) \subseteq {0} \cup {i \in DOMAIN runs : runs[i].pair = p}

\* run_signal ("Record the trial, THEN run the backtest - in that order, always") and
\* cmd_orchestrate ("crashed workers stay recorded"): however runs crash, rerun or
\* overlap, every backtest that ever replayed a bar has its own line in the registry.
RecordedFirst == \A p \in Pairs : Cardinality({i \in DOMAIN runs : runs[i].pair = p /\ runs[i].played}) <= trials[p]

\* "at most one 8-symbol IS run at a time, plus one light run alongside": the processes
\* of one orchestrator that are alive stay within both budgets.
WithinBudget ==
    LET alive == {i \in orch.running : runs[i].pc # "gone"}
    IN  Cardinality(alive) <= MaxProcs /\ Cardinality(HeavyOf(alive)) <= HeavyProcs

\* The end of cmd_orchestrate: every pair of the plan had its run, and all have exited.
EndedMeansDone ==
    orch.pc = "ended" =>
        /\ {runs[i].pair : i \in orch.done} = Range(Plan) /\ Cardinality(orch.done) = Len(Plan)
        /\ \A i \in orch.done : runs[i].pc = "gone"

\* ensure_regimes before the loop: a worker never meets a half-written parquet, unless
\* two commands built it at once (the check and the write are not one step).
WorkersSeeWhole == (\E i \in DOMAIN runs : runs[i].pc = "cut" \/ runs[i].code = 4) => raced

\* The summary commits a run: a report, even one beside the workers, never finds it
\* without the other files, whoever was killed, and what it shows is of a single run
\* until a second run of the pair begins to write.
ReportSeesWholeRuns ==
    /\ report.why # "half"
    /\ report.mixed => \E k \in DOMAIN SPECS : Cardinality({i \in DOMAIN runs : runs[i].pair = OOS(SPECS[k]) /\ runs[i].played}) > 1

\* The campaign's processes: a line in the registry before a run, the budgets, an end
\* that means every pair ran, no half-written regimes or run directories seen.
CampaignSound ==
    /\ CampaignTypeOK /\ RecordedFirst /\ WithinBudget /\ EndedMeansDone
    /\ WorkersSeeWhole /\ ReportSeesWholeRuns

\* The campaign comes to its end when nothing kills it, whatever the workers raise,
\* except when a worker's unread log fills its pipe.
CampaignEnds ==
    orch.pc = "loop" ~> orch.pc \in {"ended", "off"} \/ \E i \in orch.running : runs[i].pc = "stuck"

\* "classifier bucket -> tearsheet bucket label" (_BUCKET_LABEL): the labels the report
\* hands to the breakdown are labels it knows, so no report is aborted by its own mapping.
LabelsAccepted == report.why # "labels"
=============================================================================
