--------------------------- MODULE EdgarBackfill ---------------------------
(***************************************************************************)
(* EdgarForm4Client: the throttled, retried, cache-first client, and the   *)
(* backfill that treats its cache as the checkpoint.  SEC's quarter index  *)
(* grows while the quarter lasts; it lists a filing once per filer.        *)
(***************************************************************************)
EXTENDS Integers, Sequences, FiniteSets, FiniteSetsExt, SequencesExt

CONSTANTS Rows,            \* rows SEC may list: [acc, cik, filed, parses]
          Issuers,         \* the ciks of cik_by_symbol
          QuarterDays, Today0, LastDay,   \* length of a quarter, the clock's range
          Ranges,          \* the <<start, end>> pairs a caller passes
          MaxAttempts,     \* EdgarConfig.max_attempts
          Interval,        \* 1 / max_requests_per_second, in ticks
          Backoff,         \* retry_backoff_seconds, in ticks
          MaxDamages, MaxCrashes, MaxRuns

ASSUME EdgarAssumption ==
    /\ MaxAttempts \in Nat \ {0} /\ Interval \in Nat \ {0} /\ QuarterDays \in Nat \ {0}
    /\ \A k \in 0..MaxAttempts : Backoff * 2^k \in Nat
    /\ Today0 \in Int /\ IsFiniteSet(Rows) /\ \A r \in Rows : r.filed \in Int
    /\ \A r \in Ranges : r[1] \in Int /\ r[2] \in Int

VARIABLES today, listed,
          index,      \* form_index cache: quarter -> its rows
          filings,    \* filings cache: the accessions on disk and readable
          run,        \* the backfill under way
          throttle,   \* ticks from the last send to _next_allowed, -1 before any
          gap,        \* ticks between the last two sends of one client
          writes, damages, crashes

edgarVars == <<today, listed, index, filings, run, throttle, gap, writes, damages, crashes>>

QuarterOf(d) == d \div QuarterDays
Accessions == {r.acc : r \in Rows}
ListedIn(q) == {r \in listed : QuarterOf(r.filed) = q}

Idle == [pc |-> "idle", started |-> 0]
Cold == -1

EdgarInit ==
    /\ today = Today0 /\ listed = {r \in Rows : r.filed < Today0}
    /\ index = <<>> /\ filings = {} /\ run = Idle
    /\ throttle = Cold /\ gap = Interval
    /\ writes = [a \in Accessions |-> 0] /\ damages = [a \in Accessions |-> 0] /\ crashes = 0

\* SEC lists a filing on the day it is filed.
SecLists ==
    /\ \E r \in Rows \ listed : r.filed = today /\ listed' = listed \cup {r}
    /\ UNCHANGED <<today, index, filings, run, throttle, gap, writes, damages, crashes>>
DayPasses ==
    /\ today < LastDay /\ today' = today + 1 /\ listed' = listed \cup {r \in Rows : r.filed = today}
    /\ UNCHANGED <<index, filings, run, throttle, gap, writes, damages, crashes>>

\* Every quarter that overlaps the range, in order.
BackfillQuarters(start, end) == [k \in 1..(QuarterOf(end) - QuarterOf(start) + 1) |-> QuarterOf(start) + k - 1]

\* backfill_filings: the guards before any request.
StartBackfillAnyEnd(start, end) ==
    /\ run.pc = "idle" /\ run.started < MaxRuns
    /\ run' = [pc |-> "index", started |-> run.started + 1, start |-> start, end |-> end,
               quarters |-> BackfillQuarters(start, end), planned |-> <<>>, done |-> {}, failed |-> {}, attempt |-> 0]
    /\ UNCHANGED <<today, listed, index, filings, throttle, gap, writes, damages, crashes>>

StartBackfill(start, end) ==
    /\ run.pc = "idle" /\ run.started < MaxRuns
    /\ IF start > end \/ QuarterOf(end) >= QuarterOf(today)
       THEN run' = [Idle EXCEPT !.started = run.started + 1]
       ELSE run' = [pc |-> "index", started |-> run.started + 1, start |-> start, end |-> end,
                    quarters |-> BackfillQuarters(start, end), planned |-> <<>>,
                    done |-> {}, failed |-> {}, attempt |-> 0]
    /\ UNCHANGED <<today, listed, index, filings, throttle, gap, writes, damages, crashes>>

\* The ticks between the last send and this one, when busy of them were spent elsewhere.
SendGap(busy) == IF throttle = Cold THEN Interval ELSE Max({busy, throttle})

\* The interval counted from the clock's reading instead of from the scheduled send.
ThrottleFromNow(busy) ==
    /\ gap' = SendGap(busy)
    /\ throttle' = Max({0, busy + Interval - SendGap(busy)})

\* _throttle: the send is scheduled at _next_allowed, or now when that has passed.
Throttle(busy) ==
    /\ gap' = SendGap(busy)
    /\ throttle' = Interval

\* A first attempt comes at any time, a retry after its backoff.
Busy == IF run.pc # "idle" /\ run.attempt > 0 THEN {Backoff * 2^(run.attempt - 1)} ELSE 0..(Interval + 1)

Raise == run' = [Idle EXCEPT !.started = run.started]

\* The attempts are not counted.
GetForever(status, OnOk) ==
    /\ \E busy \in Busy : Throttle(busy)
    /\ \/ status = "ok" /\ OnOk
       \/ status = "transient" /\ UNCHANGED <<run, index, filings, writes>>
       \/ status = "refused" /\ Raise /\ UNCHANGED <<index, filings, writes>>

\* One attempt of _get: 200 returns, 429 and 5xx are retried, the rest raises.
Get(status, OnOk) ==
    /\ \E busy \in Busy : Throttle(busy)
    /\ \/ status = "ok" /\ OnOk
       \/ /\ status = "transient" /\ run.attempt + 1 < MaxAttempts
          /\ run' = [run EXCEPT !.attempt = @ + 1]
          /\ UNCHANGED <<index, filings, writes>>
       \/ /\ status = "refused" \/ (status = "transient" /\ run.attempt + 1 = MaxAttempts)
          /\ Raise /\ UNCHANGED <<index, filings, writes>>

Statuses == {"ok", "transient", "refused"}

\* The plan from one quarter's rows: tracked issuers, in range, an accession once.
PlannedWithOwners(rows) ==
    LET wanted == {r \in rows : run.start <= r.filed /\ r.filed <= run.end}
        fresh == {r.acc : r \in wanted} \ ToSet(run.planned)
    IN  run.planned \o SetToSeq(fresh)

Planned(rows) ==
    LET wanted == {r \in rows : r.cik \in Issuers /\ run.start <= r.filed /\ r.filed <= run.end}
        fresh == {r.acc : r \in wanted} \ ToSet(run.planned)
    IN  run.planned \o SetToSeq(fresh)

PlanQuarter(rows) ==
    run' = [run EXCEPT !.quarters = Tail(@), !.planned = Planned(rows), !.attempt = 0,
                       !.pc = IF Len(run.quarters) = 1 THEN "filings" ELSE "index"]

\* fetch_quarter_index: cache first, else fetched, parsed and cached.
QuarterIndex ==
    /\ run.pc = "index"
    /\ LET q == Head(run.quarters)
       IN  IF q \in DOMAIN index
           THEN PlanQuarter(index[q]) /\ UNCHANGED <<index, filings, writes, throttle, gap>>
           ELSE \E status \in Statuses :
                  Get(status, /\ index' = [k \in DOMAIN index \cup {q} |-> IF k = q THEN ListedIn(q) ELSE index[k]]
                                    /\ PlanQuarter(ListedIn(q))
                                    /\ UNCHANGED <<filings, writes>>)
    /\ UNCHANGED <<today, listed, damages, crashes>>

Parses(a) == \A r \in Rows : r.acc = a => r.parses
NextFiling(failed, done) ==
    run' = [run EXCEPT !.failed = failed, !.done = done, !.planned = Tail(@), !.attempt = 0]

\* The filing is fetched whether or not it is on disk.
FetchFilingAlways ==
    /\ run.pc = "filings" /\ run.planned # <<>>
    /\ LET a == Head(run.planned)
       IN  \E status \in Statuses :
             Get(status, IF Parses(a)
                               THEN /\ filings' = filings \cup {a} /\ writes' = [writes EXCEPT ![a] = @ + 1]
                                    /\ NextFiling(run.failed, run.done \cup {a}) /\ UNCHANGED index
                               ELSE NextFiling(run.failed \cup {a}, run.done) /\ UNCHANGED <<index, filings, writes>>)
    /\ UNCHANGED <<today, listed, damages, crashes>>

\* fetch_filing: a parse failure is recorded and skipped, an HTTP failure raises.
FetchFiling ==
    /\ run.pc = "filings" /\ run.planned # <<>>
    /\ LET a == Head(run.planned)
       IN  IF a \in filings
           THEN NextFiling(run.failed, run.done \cup {a}) /\ UNCHANGED <<index, filings, writes, throttle, gap>>
           ELSE \E status \in Statuses :
                  Get(status, IF Parses(a)
                                    THEN /\ filings' = filings \cup {a} /\ writes' = [writes EXCEPT ![a] = @ + 1]
                                         /\ NextFiling(run.failed, run.done \cup {a}) /\ UNCHANGED index
                                    ELSE NextFiling(run.failed \cup {a}, run.done) /\ UNCHANGED <<index, filings, writes>>)
    /\ UNCHANGED <<today, listed, damages, crashes>>

\* The BackfillSummary is returned.
Summarise ==
    /\ run.pc = "filings" /\ run.planned = <<>>
    /\ run' = [run EXCEPT !.pc = "summary"]
    /\ UNCHANGED <<today, listed, index, filings, throttle, gap, writes, damages, crashes>>
Return ==
    /\ run.pc = "summary" /\ Raise
    /\ UNCHANGED <<today, listed, index, filings, throttle, gap, writes, damages, crashes>>

\* The process dies; the next one builds a client of its own.
EdgarCrash ==
    /\ run.pc \in {"index", "filings"} /\ crashes < MaxCrashes
    /\ crashes' = crashes + 1 /\ Raise /\ throttle' = Cold /\ gap' = Interval
    /\ UNCHANGED <<today, listed, index, filings, writes, damages>>

\* fetch_submissions and fetch_company_ciks: never cached, one attempt at a time.
FetchUncached ==
    /\ run.pc = "idle" /\ \E busy \in Busy : Throttle(busy)
    /\ UNCHANGED <<today, listed, index, filings, run, writes, damages, crashes>>

\* A cached filing becomes unreadable: _read_cache takes it for a miss.
Damage ==
    /\ \E a \in filings : /\ run.pc = "idle" /\ MapThenSumSet(LAMBDA x : damages[x], Accessions) < MaxDamages
                          /\ filings' = filings \ {a} /\ damages' = [damages EXCEPT ![a] = @ + 1]
    /\ UNCHANGED <<today, listed, index, run, throttle, gap, writes, crashes>>

Backfill == QuarterIndex \/ FetchFiling \/ Summarise \/ Return
EdgarNext ==
    \/ SecLists \/ DayPasses \/ EdgarCrash \/ Damage \/ FetchUncached \/ Backfill
    \/ \E r \in Ranges : StartBackfill(r[1], r[2])
EdgarSpec == EdgarInit /\ [][EdgarNext]_edgarVars /\ WF_edgarVars(Backfill)
----------------------------------------------------------------------------
\* "completed quarters are immutable": whatever runs, crashes and days intervene, a
\* cached index is all that SEC ever lists for its quarter.
IndexFinal == \A q \in DOMAIN index : index[q] = ListedIn(q) /\ QuarterOf(today) > q

\* "an interrupted run resumes exactly where it stopped ... refetching nothing
\* already on disk": a filing is written once, and once more per damage.
ResumeRefetchesNothing == \A a \in Accessions : writes[a] <= 1 + damages[a]

\* "never silently dropped": a summary accounts for every filing of a tracked issuer
\* in the range, on disk or in failed, and for nothing else.
SummaryComplete ==
    run.pc = "summary" =>
        LET due == {r.acc : r \in {x \in listed : x.cik \in Issuers /\ run.start <= x.filed /\ x.filed <= run.end}}
        IN  /\ run.done \cup run.failed = due /\ run.done \cap run.failed = {}
            /\ run.done = {a \in due : Parses(a)} /\ run.done \subseteq filings

\* "spaced to at most max_requests_per_second", retries and late callers included.
Spaced == gap >= Interval

\* The Form 4 backfill, killed and resumed at any point: nothing final is fetched
\* again, every filing is accounted for, and the SEC's pace is kept.
BackfillHonest == IndexFinal /\ ResumeRefetchesNothing /\ SummaryComplete /\ Spaced

\* The retries are bounded: a backfill that started returns or raises.
BackfillEnds == run.pc # "idle" ~> run.pc = "idle"
=============================================================================
