-------------------------- MODULE BacktestPipeline --------------------------
(***************************************************************************)
(* How a verdict is made: backtest/pipeline.py runs every engine of the    *)
(* strategy's cadence over six cells (full, train and test, each at real   *)
(* and at zero cost), reporting/comparison.py sets the engines beside each *)
(* other, reporting/report.py judges, and strategies/promotion.py records. *)
(* Beside it the windows of backtest/walkforward.py.  Days are ordinals,   *)
(* monthly returns basis points; what an engine answers is given.          *)
(***************************************************************************)
EXTENDS Integers, Sequences, FiniteSets, FiniteSetsExt, SequencesExt

CONSTANTS Requests,            \* [span, intraday, research, engines, answers]: see Answer
          TrainPct,            \* cfg.backtest.train_test_split
          MIN_TRUSTWORTHY_N,
          BaselineMonthly,     \* the last monthly return that does not beat Engine C
          DIVERGENCE_TOLERANCE, EquityTolerancePct,
          MonthLengths,        \* the lengths of the months, repeated
          Walks                \* [start, end, train, test, step]; dates are <<month, day>>

\* ALL_ENGINES: what a pipeline may be given.
EngineNames == {"native", "lean", "nautilus"}
\* Cadence picks the engine family.
EnginesFor(r) == IF r.intraday THEN <<"intraday_native">> ELSE r.engines

LengthOf(month) == MonthLengths[1 + (month % Len(MonthLengths))]

ASSUME WalksAssumption ==
    /\ MonthLengths \in Seq(Nat \ {0}) /\ MonthLengths # <<>>
    /\ \A w \in Walks : /\ {w.step, w.train, w.test} \subseteq Nat \ {0}
                        /\ w.start \in Nat \X Nat /\ w.start[2] \in 1..LengthOf(w.start[1])

Cells == <<<<"full", "real">>, <<"full", "zero">>, <<"train", "real">>, <<"train", "zero">>,
           <<"test", "real">>, <<"test", "zero">>>>
CellSet == Range(Cells)

ASSUME RequestsAssumption ==
    /\ TrainPct \in 0..100
    /\ {MIN_TRUSTWORTHY_N, BaselineMonthly, DIVERGENCE_TOLERANCE, EquityTolerancePct} \subseteq Int
    /\ \A r \in Requests :
         /\ r.span \in Int \X Int /\ r.span[1] <= r.span[2]
         /\ r.engines \in Seq(EngineNames) /\ r.intraday \in BOOLEAN /\ r.research \in BOOLEAN
         /\ \A c \in CellSet, e \in Range(EnginesFor(r)) :
              LET a == r.answers[c][e]
              IN  a.n \in Nat /\ {a.monthly, a.drag, a.equity, a.top, a.total, a.gates} \subseteq Int

VARIABLES request,    \* the run asked for, NoRequest for a walk
          stage,      \* "run", "judge", "save", "record", "walk", "end", or "off"
          views,      \* the engines that have answered for the current cell
          frictions,  \* self._cfg's costs are the configured ones
          gates,      \* strategy.gates, which outlives a run
          study,     \* [segments, comparisons, gates : cell -> .., verdict]
          saved,      \* the verdict of report.json, "none"
          promotion,  \* the strategy's PromotionRecord
          walk, walked

pipeVars == <<request, stage, views, frictions, gates, study, saved, promotion, walk, walked>>

NoRequest == [span |-> <<>>]
NoWalk == [start |-> <<>>]
EmptyMatrix == [segments |-> <<>>, comparisons |-> <<>>, gates |-> <<>>, verdict |-> "none"]
Promoted == [validated |-> TRUE, paper |-> TRUE, verdict |-> "CANDIDATE"]
-----------------------------------------------------------------------------
(* The cells.                                                              *)

\* Mutant: the legacy split, whose boundary belongs to both sides.
SplitShared(span) == LET boundary == span[1] + ((span[2] - span[1]) * TrainPct) \div 100 IN <<boundary, boundary>>
ChronologicalSplitExclusive(span) ==
    LET boundary == span[1] + ((span[2] - span[1]) * TrainPct) \div 100 IN <<boundary, boundary + 1>>

Window(span, segment) ==
    LET split == ChronologicalSplitExclusive(span)
    IN  CASE segment = "full" -> span
          [] segment = "train" -> <<span[1], split[1]>>
          [] segment = "test" -> <<split[2], span[2]>>
SessionCount(window) == Max({0, window[2] - window[1] + 1})

\* Mutant: the twin shares the nested sections with the configuration it copies.
AfterTwinShallow(costs, profile) == costs /\ profile = "real"
\* What is left of the configured costs once a run has taken its twin of them.
AfterTwin(costs, profile) == costs

\* The cell at work, and the engine that is asked next.
Cell == Cells[Len(study.comparisons) + 1]
Asked == EnginesFor(request)[Len(views) + 1]

\* An answer: outcome "ok", "failed" or "unavailable", thin when its curve has one point,
\* the monthly return after costs and what the costs take, final equity, trades, the
\* profit of the top three and of all, what the run adds to gates.
Answer(cell, engine) == request.answers[cell][engine]
ChargedMonthly(cell, engine) == Answer(cell, engine).monthly + (IF cell[2] = "zero" THEN Answer(cell, engine).drag ELSE 0)

ViewOf(cell, engine) ==
    LET a == Answer(cell, engine)
        free == cell[2] = "zero" \/ ~frictions
    IN  [engine |-> engine,
         available |-> a.outcome = "ok" /\ ~a.thin /\ SessionCount(Window(request.span, cell[1])) > 1,
         monthly |-> IF free THEN a.monthly + a.drag ELSE a.monthly, equity |-> a.equity,
         n |-> a.n, top |-> a.top, total |-> a.total]

RunEngine ==
    /\ stage = "run" /\ Len(study.comparisons) < Len(Cells) /\ Len(views) < Len(EnginesFor(request))
    /\ views' = Append(views, ViewOf(Cell, Asked))
    /\ gates' = gates + (IF Answer(Cell, Asked).outcome = "unavailable" THEN 0 ELSE Answer(Cell, Asked).gates)
    /\ frictions' = AfterTwin(frictions, Cell[2])
    /\ UNCHANGED <<request, stage, study, saved, promotion, walk, walked>>

Available(vs) == {i \in DOMAIN vs : vs[i].available}
\* The reference engine's answers of a cell.
NativeViews(vs) == {i \in Available(vs) : vs[i].engine \in {"native", "intraday_native"}}

\* Mutant: the counters are filed as they stand.
CountedNothing == 0
CountedSoFar == SumFunction(study.gates)
FileCell ==
    /\ stage = "run" /\ Len(study.comparisons) < Len(Cells) /\ Len(views) = Len(EnginesFor(request))
    /\ study' = [study EXCEPT
                    !.segments = IF NativeViews(views) = {} THEN @ ELSE Append(@, [cell |-> Cell, of |-> views[Min(NativeViews(views))]]),
                    !.comparisons = Append(@, views),
                    !.gates = Append(@, gates - CountedSoFar)]
    /\ views' = <<>>
    /\ stage' = IF Len(study.comparisons) + 1 = Len(Cells) THEN "judge" ELSE "run"
    /\ UNCHANGED <<request, frictions, gates, saved, promotion, walk, walked>>
-----------------------------------------------------------------------------
(* The comparison and the verdict.                                         *)

ReferenceOf(vs) ==
    LET natives == {i \in Available(vs) : vs[i].engine = "native"}
    IN  vs[Min(IF natives # {} THEN natives ELSE Available(vs))]
Comparable(vs) == {vs[i] : i \in {j \in Available(vs) : vs[j].engine # ReferenceOf(vs).engine}}

GapOf(x, y) == Max({x - y, y - x})
\* No engine of the repository reports per-trade mismatches, the third test.
Apart(v, ref) ==
    \/ 100 * GapOf(v.equity, ref.equity) > EquityTolerancePct * GapOf(ref.equity, 0)
    \/ GapOf(v.monthly, ref.monthly) > DIVERGENCE_TOLERANCE
EnginesDiverge(rep) == \E c \in DOMAIN rep.comparisons :
    \E v \in Comparable(rep.comparisons[c]) : Apart(v, ReferenceOf(rep.comparisons[c]))

Produced(rep) == {rep.segments[i].cell : i \in DOMAIN rep.segments}
SegmentsMissing(rep) == CellSet \ Produced(rep)
CellOf(rep, cell) == rep.segments[CHOOSE i \in DOMAIN rep.segments : rep.segments[i].cell = cell].of

SampleTooSmall(s) == s.n < MIN_TRUSTWORTHY_N
LotteryFlagged(s) == s.total > 0 /\ 2 * s.top > s.total

\* Mutant: without a test segment the full one is judged.
VerdictFallback(rep) ==
    LET cell == IF <<"test", "real">> \in Produced(rep) THEN <<"test", "real">> ELSE <<"full", "real">>
    IN  IF EnginesDiverge(rep) THEN "HOLD" ELSE IF cell \notin Produced(rep) THEN "NO RESULT"
        ELSE IF CellOf(rep, cell).monthly > BaselineMonthly THEN "CANDIDATE" ELSE "REJECT"
\* Mutant: a small sample is judged like a large one.
VerdictOfAnySample(rep) ==
    IF EnginesDiverge(rep) THEN "HOLD"
    ELSE IF SegmentsMissing(rep) # {} THEN "NO RESULT"
    ELSE IF LotteryFlagged(CellOf(rep, <<"test", "real">>)) \/ CellOf(rep, <<"test", "real">>).monthly <= BaselineMonthly THEN "REJECT"
    ELSE "CANDIDATE"
Verdict(rep) ==
    IF EnginesDiverge(rep) THEN "HOLD"
    ELSE IF SegmentsMissing(rep) # {} THEN "NO RESULT"
    ELSE LET test == CellOf(rep, <<"test", "real">>)
         IN  CASE test.n = 0 -> "NO TRADES"
               [] test.n > 0 /\ SampleTooSmall(test) -> "INCONCLUSIVE"
               [] ~SampleTooSmall(test) /\ (LotteryFlagged(test) \/ test.monthly <= BaselineMonthly) -> "REJECT"
               [] OTHER -> "CANDIDATE"

Judge ==
    /\ stage = "judge"
    /\ study' = [study EXCEPT !.verdict = Verdict(study)]
    /\ stage' = "save"
    /\ UNCHANGED <<request, views, frictions, gates, saved, promotion, walk, walked>>

SaveReport ==
    /\ stage = "save"
    /\ saved' = study.verdict
    /\ stage' = "record"
    /\ UNCHANGED <<request, views, frictions, gates, study, promotion, walk, walked>>

\* Mutant: a research run's verdict is recorded too.
RecordedOf(rec, verdict, research) ==
    [validated |-> verdict = "CANDIDATE", paper |-> rec.paper /\ verdict = "CANDIDATE", verdict |-> verdict]
\* A --set run records nothing; a failing one withdraws what was granted.
Recorded(rec, verdict, research) ==
    IF research THEN rec
    ELSE [validated |-> verdict = "CANDIDATE", paper |-> rec.paper /\ verdict = "CANDIDATE", verdict |-> verdict]

RecordVerdict ==
    /\ stage = "record"
    /\ promotion' = Recorded(promotion, study.verdict, request.research)
    /\ stage' = "end"
    /\ UNCHANGED <<request, views, frictions, gates, study, saved, walk, walked>>
-----------------------------------------------------------------------------
(* Walk-forward windows.                                                   *)

Ordinal(date) == SumFunction([m \in 0..(date[1] - 1) |-> LengthOf(m)]) + date[2]
\* relativedelta: the same day, or the last one of a shorter month.
AddMonths(date, k) == <<date[1] + k, Min({date[2], LengthOf(date[1] + k)})>>

Cursor == IF walked = <<>> THEN walk.start ELSE AddMonths(Last(walked).cursor, walk.step)
TrainEnd == AddMonths(Cursor, walk.train)
TestEnd == AddMonths(TrainEnd, walk.test)

\* Mutant: the test begins on the day the training ends.
FirstTestDayShared(trainEnd) == Ordinal(trainEnd)
FirstTestDay(trainEnd) == Ordinal(trainEnd) + 1

NextWindow ==
    /\ stage = "walk" /\ Ordinal(TestEnd) <= Ordinal(walk.end)
    /\ walked' = Append(walked, [cursor |-> Cursor, train |-> <<Ordinal(Cursor), Ordinal(TrainEnd)>>,
                                   test |-> <<FirstTestDay(TrainEnd), Ordinal(TestEnd)>>])
    /\ UNCHANGED <<request, stage, views, frictions, gates, study, saved, promotion, walk>>
EndWalk ==
    /\ stage = "walk" /\ Ordinal(TestEnd) > Ordinal(walk.end)
    /\ stage' = "end"
    /\ UNCHANGED <<request, views, frictions, gates, study, saved, promotion, walk, walked>>

PipeBegin ==
    /\ views = <<>> /\ frictions = TRUE /\ gates = 0 /\ study = EmptyMatrix /\ saved = "none"
    /\ promotion = Promoted /\ walked = <<>>
PipeInit ==
    /\ PipeBegin
    /\ \/ stage = "run" /\ request \in Requests /\ walk = NoWalk
       \/ stage = "walk" /\ request = NoRequest /\ walk \in Walks
PipeRest == PipeBegin /\ stage = "off" /\ request = NoRequest /\ walk = NoWalk
PipeNext == RunEngine \/ FileCell \/ Judge \/ SaveReport \/ RecordVerdict \/ NextWindow \/ EndWalk
-----------------------------------------------------------------------------
Judged == request # NoRequest /\ study.verdict # "none"

\* "Judged on OUT-OF-SAMPLE real-cost performance, never in-sample": a CANDIDATE was run
\* by the reference engine in all six cells, on test days that no training day follows
\* or equals, and the costs its test paid are the configured ones; enough trades, not
\* three of them, beat the baseline, and no engine that answered contradicts a cell.
PassEarned ==
    Judged /\ study.verdict = "CANDIDATE" =>
      LET native == IF request.intraday THEN "intraday_native" ELSE "native"
          test == Answer(<<"test", "real">>, native)
      IN  /\ native \in Range(EnginesFor(request))
          /\ test.monthly > BaselineMonthly /\ test.n >= MIN_TRUSTWORTHY_N /\ ~LotteryFlagged(test)
          /\ \A c \in CellSet :
               /\ Answer(c, native).outcome = "ok" /\ ~Answer(c, native).thin
               /\ \A e \in Range(EnginesFor(request)) :
                    LET a == Answer(c, e)
                    IN  a.outcome = "ok" /\ ~a.thin /\ e # native =>
                          /\ GapOf(ChargedMonthly(c, e), ChargedMonthly(c, native)) <= DIVERGENCE_TOLERANCE
                          /\ 100 * GapOf(a.equity, Answer(c, native).equity) <= EquityTolerancePct * GapOf(Answer(c, native).equity, 0)
          /\ LET train == Window(request.span, "train")
                 tested == Window(request.span, "test")
             IN  /\ SessionCount(tested) > 1 /\ train[2] < tested[1]
                 /\ SessionCount(train) + SessionCount(tested) = SessionCount(request.span)

\* The zero-cost twin is a copy: whatever ran before it, a real cell is charged what the
\* configuration says, and a zero cell nothing.
TwinApart == \A i \in DOMAIN study.segments :
    LET s == study.segments[i] IN s.of.monthly = ChargedMonthly(s.cell, s.of.engine)

\* "An unavailable engine is reported, never omitted", and a cell counts what the
\* strategy's gates refused in that cell although the counters outlive it.
NothingOmitted == \A i \in DOMAIN study.comparisons :
    LET asked == EnginesFor(request)
        ran == {k \in DOMAIN asked : Answer(Cells[i], asked[k]).outcome # "unavailable"}
    IN  /\ [k \in DOMAIN study.comparisons[i] |-> study.comparisons[i][k].engine] = asked
        /\ study.gates[i] = SumFunction([k \in ran |-> Answer(Cells[i], asked[k]).gates])

\* `validated` is granted from a saved report or not at all; anything but a CANDIDATE
\* withdraws both flags, and a --set run leaves the record alone.
GrantedByReport ==
    stage = "end" /\ request # NoRequest =>
      /\ saved = study.verdict
      /\ IF request.research THEN promotion = Promoted
         ELSE promotion.validated = (saved = "CANDIDATE") /\ (promotion.paper => promotion.validated)

\* No window trains on a day it tests or looks past the end; when every month has the
\* start's day and the step is the test, the tests tile.
WindowsSound ==
    /\ \A i \in DOMAIN walked : LET w == walked[i]
                                 IN  /\ w.train[1] < w.train[2] /\ w.train[2] < w.test[1]
                                     /\ w.test[1] <= w.test[2] /\ w.test[2] <= Ordinal(walk.end)
    /\ (\A l \in Range(MonthLengths) : walk # NoWalk => walk.start[2] <= l) =>
         \A i \in 2..Len(walked) : walk.step = walk.test => walked[i].test[1] = walked[i - 1].test[2] + 1
=============================================================================
