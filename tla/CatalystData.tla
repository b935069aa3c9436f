---------------------------- MODULE CatalystData ----------------------------
(***************************************************************************)
(* The data files of the catalyst backtests, in two parts without common   *)
(* state.                                                                  *)
(*                                                                         *)
(* catalyst/data/intraday.py: the minute bars, daily bars and option       *)
(* quotes of the intraday backtests, kept on disk per request.  A session  *)
(* publishes a row at each of its slots; a bars answer comes in pages, and *)
(* time passes between them.                                               *)
(*                                                                         *)
(* The option data of the catalyst backtests, as catalyst/data keeps it:   *)
(* ThetaDataHistorical (thetadata_historical.py) assembles chains and      *)
(* IVRankProvider (iv_history.py) the daily implied-volatility series,     *)
(* from answers of the terminal (thetadata_client.py) kept once on disk    *)
(* (cache.py).  One underlying; a step is one request to the terminal.     *)
(***************************************************************************)
EXTENDS Integers, Sequences, FiniteSets, FiniteSetsExt, SequencesExt

CONSTANTS SlotsPerDay, LastSlot,   \* slots of a day; the last that publishes a row
          DateAhead,               \* slots by which date.today() runs ahead of New York
          DailyRanges,             \* <<start, end>> asked of the daily bars
          PageRows, PageAttempts,  \* rows of a page; max_attempts
          LastInstant, MaxRequests,
          NotCached

Instant(day, slot) == SlotsPerDay * day + slot
Days == 0..(LastInstant \div SlotsPerDay)
MinuteKeys == [kind : {"minute", "quotes"}, start : Days, end : Days]
DailyKeys == {[kind |-> "daily", start |-> r[1], end |-> r[2]] : r \in DailyRanges}
Keys == {k \in MinuteKeys : k.start = k.end} \cup DailyKeys

VARIABLES wallclock,
          store,      \* the ParquetCache: key -> [rows, at, format]
          request,    \* the call under way
          requests,
          answer      \* what the last call returned

minuteVars == <<wallclock, store, request, requests, answer>>
NoRequest == [pc |-> "idle"]
Today == (wallclock + DateAhead) \div SlotsPerDay

\* What the vendor has for a key: the rows of the sessions published so far, a
\* daily bar being the last row of its session.
Slots(day, t) == {i \in Instant(day, 0)..Instant(day, LastSlot) : i <= t}
Holds(key, t) ==
    IF key.kind = "daily" THEN {Max(Slots(d, t)) : d \in {e \in key.start..key.end : Slots(e, t) # {}}}
    ELSE Slots(key.start, t)
Over(key, t) == Instant(key.end, LastSlot) <= t

\* An old daily frame has no opens.
MinuteInit ==
    /\ wallclock = 0 /\ request = NoRequest /\ requests = 0 /\ answer = NotCached
    /\ store \in [Keys -> {NotCached}] \cup
                 {[k \in Keys |-> IF k = old THEN [rows |-> Holds(k, 0), at |-> 0, format |-> "closes"] ELSE NotCached] :
                    old \in DailyKeys}

TimePasses == /\ wallclock < LastInstant /\ wallclock' = wallclock + 1
              /\ UNCHANGED <<store, request, requests, answer>>

\* The cache serves, or a request begins.
Cached(key) == store[key] # NotCached /\ ~(key.kind = "daily" /\ store[key].rows # {} /\ store[key].format = "closes")
Ask(key) ==
    /\ request = NoRequest /\ requests < MaxRequests /\ requests' = requests + 1
    /\ IF Cached(key)
       THEN answer' = store[key].rows /\ UNCHANGED request
       ELSE /\ request' = [pc |-> "page", key |-> key, got |-> {}, attempts |-> 0, first |-> TRUE]
            /\ UNCHANGED answer
    /\ UNCHANGED <<wallclock, store>>

\* The next rows past those on the pages already read.
Remaining == {i \in Holds(request.key, wallclock) : \A g \in request.got : i > g}
Page == IF request.key.kind = "quotes" THEN Remaining
        ELSE {i \in Remaining : Cardinality({j \in Remaining : j <= i}) <= PageRows}
LastPage == Page = Remaining

\* A session of today is taken for a finished one.
CacheableEarly(key) == key.kind # "minute" \/ key.start <= Today

\* get_day keeps finished sessions only; the two others keep what they got.
Cacheable(key) == key.kind # "minute" \/ key.start < Today

Finish(rows, keep) ==
    /\ request' = NoRequest /\ answer' = rows
    /\ store' = IF keep THEN [store EXCEPT ![request.key] = [rows |-> rows, at |-> wallclock, format |-> "full"]] ELSE store

PageAnswers ==
    /\ request.pc = "page"
    /\ LET rows == request.got \cup Page
       IN  IF LastPage THEN Finish(rows, Cacheable(request.key))
           ELSE /\ request' = [request EXCEPT !.got = rows, !.attempts = 0, !.first = FALSE]
                /\ UNCHANGED <<store, answer>>
    /\ UNCHANGED <<wallclock, requests>>

\* The pages read so far are kept as if they were all.
GiveUpKeeping == Finish(request.got, ~request.first)

\* A page that never came: get_day and contract_day answer with nothing, the daily
\* frame with what it has; nothing is kept.
GiveUp == Finish(IF request.key.kind = "daily" THEN request.got ELSE {}, FALSE)

\* _request_with_retry: 429, 5xx and network errors are tried again, others not.
PageFails ==
    /\ request.pc = "page"
    /\ \/ /\ request.key.kind # "quotes" /\ request.attempts + 1 < PageAttempts
          /\ request' = [request EXCEPT !.attempts = @ + 1] /\ UNCHANGED <<store, answer>>
       \/ (request.key.kind = "quotes" \/ request.attempts + 1 = PageAttempts) /\ GiveUp
    /\ UNCHANGED <<wallclock, requests>>
PageRefused == request.pc = "page" /\ GiveUp /\ UNCHANGED <<wallclock, requests>>
CallerDies == request.pc = "page" /\ request' = NoRequest /\ UNCHANGED <<wallclock, store, requests, answer>>

MinuteNext == TimePasses \/ (\E key \in Keys : Ask(key)) \/ PageAnswers \/ PageFails \/ PageRefused \/ CallerDies
----------------------------------------------------------------------------
\* "a truncated (e.g. morning-only) day cached as complete distorts every signal,
\* fill and flatten", "only finished sessions are cacheable": whatever failed and
\* whenever it was asked, a minute frame on disk is the whole session, and a daily
\* or quotes frame lacks rows only if its range was not over when it was read.
MinuteFilesWhole ==
    \A key \in Keys : store[key] # NotCached =>
        /\ key.kind = "minute" => store[key].rows = Holds(key, Instant(key.end, LastSlot))
        /\ Over(key, store[key].at) => store[key].rows = Holds(key, store[key].at) \/ store[key].format = "closes"
-----------------------------------------------------------------------------
(* The option data. *)

CONSTANTS ListedOn,                      \* expiry -> the day its contracts are listed
          Smiles,                        \* expiry -> day -> the close: [spot, quotes : set of [strike, iv]]
          Snapshots,                     \* expiry -> its quotes at any snapshot: set of [strike, bid, ask, spot, greeks]
          MonthDays, ThirdFriday,        \* a month's length and its target day
          NearDays, DteMin, DteTarget, DteMax, Lookback,
          Moneyness,                     \* 1/Moneyness of the spot is how far "at the money" reaches
          YearDays, MaxDte, MemoSize, TerminalRetries,
          FirstOptDay, LastOptDay,       \* the clock's range
          SeriesAsked,                   \* <<start, end>> that prepare is called with
          ChainsAsked,                   \* [day, expiries, liquidity]: the chains asked for
          MaxOptJobs, MaxOptFaults,
          Unread                         \* no frame, no value

VARIABLES optDay,      \* date.today()
          optDisk,     \* the ParquetCache: key -> frame
          aside,       \* keys of the files quarantined as .corrupt-*
          optJob,      \* the call under way
          chains,      \* _chain_memo, the least recently used first
          handed,      \* the chain the last get_chain returned, and what was asked
          prepared,    \* _series: the series prepare kept, with its range
          optFaults, optJobs

optVars == <<optDay, optDisk, aside, optJob, chains, handed, prepared, optFaults, optJobs>>
Expiries == DOMAIN ListedOn
NoJob == [op |-> "none"]

\* A frame is what a request returned: rows, and the day it was asked on.  A torn
\* file exists but cannot be read.
ListingKey(day) == [kind |-> "expirations", at |-> day \div YearDays]
MonthKey(e) == [kind |-> "iv_eod", at |-> e]
SeriesKey(range) == [kind |-> "iv_series", at |-> range]
DayKey(kind, e, day) == [kind |-> kind, at |-> <<e, day>>]
Torn == [rows |-> Unread, on |-> -1]
OnDisk(key) == key \in DOMAIN optDisk
Readable(key) == OnDisk(key) /\ optDisk[key] # Torn
Written(disk, key, frame) == [k \in DOMAIN disk \cup {key} |-> IF k = key THEN frame ELSE disk[k]]
Dropped(disk, key) == [k \in DOMAIN disk \ {key} |-> disk[k]]

MonthWindowShort(e) == {d \in 0..LastOptDay : e - DteMax <= d /\ d < e - DteMin}

\* What the terminal has for a key on a day.  A month's pull asks for the days the
\* series reads, DteMax to DteMin before the expiry; a close is served the day after.
MonthWindow(e) == {d \in 0..LastOptDay : e - DteMax <= d /\ d <= e - DteMin}
ServedOn(key, day) ==
    CASE key.kind = "expirations" -> {e \in Expiries : ListedOn[e] <= day}
      [] key.kind = "iv_eod" -> {d \in MonthWindow(key.at) \cap DOMAIN Smiles[key.at] : d < day}
      [] OTHER -> IF key.at[2] < day /\ ListedOn[key.at[1]] <= key.at[2] THEN Snapshots[key.at[1]] ELSE {}

\* get_dataframe on what each attempt meets: a blank 200 is asked again, a first 472
\* too, a later one is believed; a dead session ends all, other 4xx this request.
Replied(met) ==
    LET from[i \in 0..(TerminalRetries + 1)] ==
          IF i > TerminalRetries THEN "failed"
          ELSE CASE met[i] = "rows" -> "rows"
                 [] met[i] = "blank" -> IF i < TerminalRetries THEN from[i + 1] ELSE "empty"
                 [] met[i] = "472" -> IF i = 0 THEN from[i + 1] ELSE "empty"
                 [] met[i] = "478" -> "dead"
                 [] met[i] = "4xx" -> "failed"
                 [] OTHER -> from[i + 1]
    IN  from[0]
Replies == {Replied(met) : met \in [0..TerminalRetries -> {"rows", "blank", "472", "478", "4xx", "lost"}]}

\* One request for key: what came of it, and the frame when one did.
Answered(key, reply, frame) ==
    \/ reply = "rows" /\ frame = [rows |-> ServedOn(key, optDay), on |-> optDay] /\ UNCHANGED optFaults
    \/ /\ optFaults < MaxOptFaults /\ optFaults' = optFaults + 1
       /\ reply \in Replies \ {"rows"} /\ frame = [rows |-> {}, on |-> optDay]

OptInit == /\ optDay = FirstOptDay /\ optDisk = <<>> /\ aside = {} /\ optJob = NoJob
           /\ chains = <<>> /\ handed = Unread /\ prepared = Unread /\ optFaults = 0 /\ optJobs = 0

OptDayPasses == /\ optDay < LastOptDay /\ optDay' = optDay + 1
                /\ UNCHANGED <<optDisk, aside, optJob, chains, handed, prepared, optFaults, optJobs>>
----------------------------------------------------------------------------
\* _monthly_expirations: of each month the listed expiry nearest the third Friday.
MonthlyOf(listing, m) ==
    LET Off(e) == Max({e - (m * MonthDays + ThirdFriday), (m * MonthDays + ThirdFriday) - e})
        near == {e \in listing : Off(e) <= NearDays}
    IN  {e \in near : \A x \in near : Off(e) < Off(x) \/ (Off(e) = Off(x) /\ e <= x)}
Monthlies(listing, start, end) ==
    UNION {MonthlyOf(listing, m) : m \in (start \div MonthDays)..(end \div MonthDays)}

\* The at-the-money volatility of a close, Unread when its strikes or spot are not
\* usable; of two strikes as near, the one first in the file, taken as the lower.
Gap(a, b) == IF a < b THEN b - a ELSE a - b
AtmIv(e, day) ==
    LET close == Smiles[e][day]
        usable == {q \in close.quotes : q.iv > 0}
        nearest == Min({Gap(q.strike, close.spot) : q \in usable})
        strike == Min({q.strike : q \in {u \in usable : Gap(u.strike, close.spot) = nearest}})
        atm == {q \in usable : q.strike = strike}
    IN  IF close.spot <= 0 \/ usable = {} \/ nearest * Moneyness > close.spot THEN Unread
        ELSE SumSet({q.iv : q \in atm}) \div Cardinality({q.iv : q \in atm})

\* atm_iv_series: a day takes the month whose days to expiry are nearest the target,
\* the earlier month of two as near.
Assembled(months, frames, range) ==
    LET Fits(e, d) == e \in months /\ d \in frames[e] /\ e - d \in DteMin..DteMax /\ AtmIv(e, d) # Unread
        Fit(e, d) == Gap(e - d, DteTarget)
        best(d) == CHOOSE e \in months : /\ Fits(e, d)
                                         /\ \A x \in months : Fits(x, d) => Fit(e, d) < Fit(x, d)
                                                                           \/ (Fit(e, d) = Fit(x, d) /\ e <= x)
    IN  [d \in {x \in range[1]..range[2] : \E e \in months : Fits(e, x)} |-> AtmIv(best(d), d)]
----------------------------------------------------------------------------
\* prepare reads the series from Lookback * 1.6 days before start.
WarmFrom(range) == <<range[1] - (Lookback * 8) \div 5, range[2]>>

Finished == optJob' = NoJob
BeginSeries(asked) ==
    LET range == WarmFrom(asked) IN
    /\ optJob = NoJob /\ optJobs < MaxOptJobs /\ optJobs' = optJobs + 1
    /\ IF Readable(SeriesKey(range))
       THEN prepared' = [range |-> range, of |-> optDisk[SeriesKey(range)].rows, whole |-> TRUE]
            /\ UNCHANGED <<optJob, optDisk, aside>>
       ELSE /\ optDisk' = Dropped(optDisk, SeriesKey(range))
            /\ aside' = IF OnDisk(SeriesKey(range)) THEN aside \cup {SeriesKey(range)} ELSE aside
            /\ optJob' = [op |-> "series", stage |-> "listing", range |-> range,
                          keys |-> {ListingKey(optDay)}, warm |-> {}, read |-> <<>>, whole |-> TRUE]
            /\ UNCHANGED prepared
    /\ UNCHANGED <<optDay, chains, handed, optFaults>>

\* The jobs of a chain: the quotes of each expiry, its volumes and open interest when
\* the caller gates on them.
ChainKinds(liquidity) == {"greeks_fo"} \cup (IF liquidity THEN {"option_eod", "open_interest"} ELSE {})
ChainJob(asked, expiries) ==
    LET keys == {DayKey(kind, e, asked.day) : kind \in ChainKinds(asked.liquidity), e \in expiries}
        missing == {k \in keys : ~OnDisk(k)}
    IN  [op |-> "chain", stage |-> "read", asked |-> asked, expiries |-> expiries, keys |-> keys,
         warm |-> IF Cardinality(missing) > 1 THEN missing ELSE {}, read |-> <<>>, whole |-> TRUE]

MemoKeyShared(asked, expiries) == [day |-> asked.day, expiries |-> expiries]

\* The memo's key holds all that the assembly depends on.
MemoKey(asked, expiries) == [day |-> asked.day, expiries |-> expiries, liquidity |-> asked.liquidity]
Memoised(key) == {i \in 1..Len(chains) : chains[i].key = key}

\* get_chain once its expiries are known: the memo, an error, or the pulls.
Horizon(asked, listing) ==
    IF asked.expiries # {} THEN {e \in asked.expiries : e >= asked.day}
    ELSE {e \in listing : asked.day <= e /\ e <= asked.day + MaxDte}
ChainOf(asked, expiries) ==
    \/ expiries = {} /\ Finished /\ UNCHANGED <<chains, handed>>
    \/ /\ expiries # {} /\ Memoised(MemoKey(asked, expiries)) # {} /\ Finished
       /\ LET i == Max(Memoised(MemoKey(asked, expiries)))
          IN  /\ chains' = Append(RemoveAt(chains, i), chains[i])
              /\ handed' = [asked |-> asked, expiries |-> expiries, chain |-> chains[i].chain]
    \/ /\ expiries # {} /\ Memoised(MemoKey(asked, expiries)) = {}
       /\ optJob' = ChainJob(asked, expiries) /\ UNCHANGED <<chains, handed>>
BeginChain(asked) ==
    /\ optJob = NoJob /\ optJobs < MaxOptJobs /\ optJobs' = optJobs + 1
    /\ IF asked.expiries # {} THEN ChainOf(asked, Horizon(asked, {}))
       ELSE /\ optJob' = [op |-> "chain", stage |-> "listing", asked |-> asked, keys |-> {ListingKey(optDay)},
                          warm |-> {}, read |-> <<>>, whole |-> TRUE]
            /\ UNCHANGED <<chains, handed>>
    /\ UNCHANGED <<optDay, optDisk, aside, prepared, optFaults>>

\* The months of a series, and those of them the prefetch pulls.
SeriesJob(listing) ==
    LET months == Monthlies(listing, optJob.range[1], optJob.range[2] + DteMax)
        missing == {MonthKey(e) : e \in {x \in months : ~OnDisk(MonthKey(x))}}
    IN  [optJob EXCEPT !.stage = "read", !.keys = {MonthKey(e) : e \in months},
                       !.warm = IF Cardinality(missing) > 1 THEN missing ELSE {}]
----------------------------------------------------------------------------
\* A key of the prefetch, in the order the pool's threads get to: failures wait for
\* the serial read, but for a dead session, which ends a chain's warm-up.
Warm ==
    /\ optJob # NoJob /\ optJob.warm # {}
    /\ \E key \in optJob.warm, reply \in Replies :
       \E frame \in {[rows |-> r, on |-> optDay] : r \in {{}, ServedOn(key, optDay)}} :
          /\ Answered(key, reply, frame)
          /\ optDisk' = IF reply \in {"rows", "empty"} THEN Written(optDisk, key, frame) ELSE optDisk
          /\ IF reply = "dead" /\ optJob.op = "chain" THEN Finished
             ELSE optJob' = [optJob EXCEPT !.warm = @ \ {key}]
    /\ UNCHANGED <<optDay, aside, chains, handed, prepared, optJobs>>

\* The frame of a key has been read: the listing decides what else to read.
ReadFrame(key, frame) ==
    CASE optJob.stage = "listing" /\ optJob.op = "series" -> optJob' = SeriesJob(frame.rows) /\ UNCHANGED <<chains, handed>>
      [] optJob.stage = "listing" /\ optJob.op = "chain" -> ChainOf(optJob.asked, Horizon(optJob.asked, frame.rows))
      [] OTHER -> /\ optJob' = [optJob EXCEPT !.keys = @ \ {key}, !.read = Written(@, key, frame)]
                  /\ UNCHANGED <<chains, handed>>

\* What a key that could not be fetched does to the job: only an unfetchable month is
\* passed over, and the series is then known to be partial.
FetchFails(key, reply) ==
    /\ optJob' = IF key.kind = "iv_eod" /\ reply = "failed"
                 THEN [optJob EXCEPT !.keys = @ \ {key}, !.whole = FALSE] ELSE NoJob
    /\ UNCHANGED <<chains, handed>>

\* The serial read: _cached, _expiry_frame and _monthly_expirations.
ReadNext ==
    /\ optJob # NoJob /\ optJob.warm = {} /\ optJob.keys # {}
    /\ LET key == CHOOSE k \in optJob.keys : TRUE IN
       IF Readable(key)
       THEN ReadFrame(key, optDisk[key]) /\ UNCHANGED <<optDisk, aside, optFaults>>
       ELSE /\ aside' = IF OnDisk(key) THEN aside \cup {key} ELSE aside
            /\ \E reply \in Replies :
               \E frame \in {[rows |-> r, on |-> optDay] : r \in {{}, ServedOn(key, optDay)}} :
                  /\ Answered(key, reply, frame)
                  /\ IF reply \in {"rows", "empty"}
                     THEN optDisk' = Written(optDisk, key, frame) /\ ReadFrame(key, frame)
                     ELSE optDisk' = Dropped(optDisk, key) /\ FetchFails(key, reply)
    /\ UNCHANGED <<optDay, prepared, optJobs>>
----------------------------------------------------------------------------
\* The contracts of one expiry: a missing side counts as zero, a crossed quote is
\* dropped, greeks are the served ones when complete, else solved from the middle.
Side(x) == IF x = Unread THEN 0 ELSE x
GreeksOf(q, e, day) ==
    IF q.greeks = "served" THEN "served"
    ELSE IF Side(q.bid) + Side(q.ask) > 0 /\ e > day /\ q.spot > 0 THEN "solved" ELSE "none"
Contracts(e, day, quotes, volumes, interest) ==
    {[expiry |-> e, strike |-> q.strike, bid |-> Side(q.bid), ask |-> Side(q.ask), spot |-> q.spot, greeks |-> GreeksOf(q, e, day),
      volume |-> \E v \in volumes : v.strike = q.strike, interest |-> \E v \in interest : v.strike = q.strike] :
       q \in {x \in quotes : ~(Side(x.bid) > Side(x.ask) /\ Side(x.ask) > 0)}}
ChainFrom(asked, expiries, frames) ==
    UNION {LET at(kind) == IF kind \in ChainKinds(asked.liquidity) THEN frames[DayKey(kind, e, asked.day)].rows ELSE {}
           IN  Contracts(e, asked.day, at("greeks_fo"), at("option_eod"), at("open_interest")) : e \in expiries}

\* A chain without a contract or a spot raises; others go to the memo, which drops its
\* least recently used.
ChainDone ==
    /\ optJob # NoJob /\ optJob.op = "chain" /\ optJob.stage = "read" /\ optJob.keys = {}
    /\ LET chain == ChainFrom(optJob.asked, optJob.expiries, optJob.read)
           kept == Append(chains, [key |-> MemoKey(optJob.asked, optJob.expiries), chain |-> chain])
       IN  IF ~\E c \in chain : c.spot > 0 THEN UNCHANGED <<chains, handed>>
           ELSE /\ chains' = IF Len(kept) > MemoSize THEN Tail(kept) ELSE kept
                /\ handed' = [asked |-> optJob.asked, expiries |-> optJob.expiries, chain |-> chain]
    /\ Finished
    /\ UNCHANGED <<optDay, optDisk, aside, prepared, optFaults, optJobs>>

CacheableAnyway(whole) == TRUE

\* A partial series is served and never kept.
CacheableSeries(whole) == whole
SeriesDone ==
    /\ optJob # NoJob /\ optJob.op = "series" /\ optJob.stage = "read" /\ optJob.keys = {}
    /\ LET months == {k.at : k \in DOMAIN optJob.read}
           series == Assembled(months, [e \in months |-> optJob.read[MonthKey(e)].rows], optJob.range)
       IN  /\ prepared' = [range |-> optJob.range, of |-> series, whole |-> optJob.whole]
           /\ optDisk' = IF CacheableSeries(optJob.whole)
                         THEN Written(optDisk, SeriesKey(optJob.range), [rows |-> series, on |-> optDay]) ELSE optDisk
    /\ Finished
    /\ UNCHANGED <<optDay, aside, chains, handed, optFaults, optJobs>>

\* A file on disk becomes unreadable.
OptDamage ==
    /\ optFaults < MaxOptFaults /\ optFaults' = optFaults + 1
    /\ \E key \in DOMAIN optDisk : optDisk' = [optDisk EXCEPT ![key] = Torn]
    /\ UNCHANGED <<optDay, aside, optJob, chains, handed, prepared, optJobs>>

OptNext ==
    \/ OptDayPasses \/ Warm \/ ReadNext \/ ChainDone \/ SeriesDone \/ OptDamage
    \/ \E asked \in SeriesAsked : BeginSeries(asked)
    \/ \E asked \in ChainsAsked : BeginChain(asked)
OptSpec == OptInit /\ [][OptNext]_optVars
----------------------------------------------------------------------------
VisibleAtClose(series, day) == {d \in DOMAIN series : d <= day}

\* _visible: what a decision at 15:45 of a day may read of a series of closes.
VisibleBefore(series, day) == {d \in DOMAIN series : d < day}

\* iv_rank: where the last visible value stands among the last Lookback of them.
IvRank(series, day) ==
    LET upto == VisibleBefore(series, day)
        window == {d \in upto : Cardinality({x \in upto : x >= d}) <= Lookback}
    IN  IF upto = {} \/ Cardinality(upto) < Lookback \div 2 THEN Unread
        ELSE <<Cardinality({d \in window : series[d] < series[Max(window)]}), Cardinality(window)>>
AtmIv30(series, day) ==
    IF VisibleBefore(series, day) = {} THEN Unread ELSE series[Max(VisibleBefore(series, day))]
----------------------------------------------------------------------------
\* What a process started on a day would assemble from fresh pulls.
Fresh(start, day) ==
    LET months == Monthlies({e \in Expiries : ListedOn[e] <= day}, start, day + DteMax)
    IN  Assembled(months, [e \in months |-> ServedOn(MonthKey(e), day)], <<start, day>>)
Settled(range) ==
    /\ aside = {} /\ prepared.whole
    /\ \A key \in DOMAIN optDisk : key.kind = "expirations" => optDisk[key].rows = Expiries
    /\ \A e \in Monthlies(Expiries, range[1], range[2] + DteMax) :
          OnDisk(MonthKey(e)) => optDisk[MonthKey(e)].rows = ServedOn(MonthKey(e), LastOptDay)

\* "Every decision in this system is taken at the 15:45 snapshot, so the entry day's
\* own value is ~15 minutes in the FUTURE": once the months behind a series were
\* pulled in full, the rank and level a backtest reads at a day are those that day's
\* own process would have read.
RankAsLive ==
    prepared # Unread /\ Settled(prepared.range) =>
       \A day \in prepared.range[1]..Min({prepared.range[2], optDay}) :
          LET live == Fresh(prepared.range[1], day)
          IN  IvRank(prepared.of, day) = IvRank(live, day) /\ AtmIv30(prepared.of, day) = AtmIv30(live, day)

\* "One unfetchable month ... the RESULT is partial and must never be cached as the
\* truth" (D-010): a series on disk is what some listing and the month files on disk
\* assemble to, none of them missing.
SeriesFilesWhole ==
    aside = {} => \A key \in DOMAIN optDisk : key.kind = "iv_series" /\ optDisk[key] # Torn =>
       \E listing \in {k \in DOMAIN optDisk : k.kind = "expirations"} :
          \/ optDisk[listing] = Torn
          \/ LET months == Monthlies(optDisk[listing].rows, key.at[1], key.at[2] + DteMax)
             IN  \/ \E e \in months : OnDisk(MonthKey(e)) /\ optDisk[MonthKey(e)] = Torn
                 \/ /\ \A e \in months : OnDisk(MonthKey(e))
                    /\ optDisk[key].rows = Assembled(months, [e \in months |-> optDisk[MonthKey(e)].rows], key.at)

\* A day missing from the series in memory was not closed when its month was pulled,
\* or its month was answered with nothing, failed, or was not listed yet.
HolesExplained ==
    prepared # Unread /\ aside = {} /\ prepared.whole =>
       \A e \in Monthlies(Expiries, prepared.range[1], prepared.range[2] + DteMax) :
       \A d \in {x \in DOMAIN Smiles[e] \cap (prepared.range[1]..prepared.range[2]) : e - x \in DteMin..DteMax} :
          \/ d \in DOMAIN prepared.of
          \/ AtmIv(e, d) = Unread
          \/ OnDisk(MonthKey(e)) /\ (optDisk[MonthKey(e)].on <= d \/ optDisk[MonthKey(e)].rows = {})
          \/ \E key \in DOMAIN optDisk : /\ key.kind = "expirations"
                                         /\ optDisk[key].on < ListedOn[e] \/ optDisk[key].rows = {}

\* A chain is what its files say, with volumes and open interest if and only if they
\* were asked for, whether it was assembled or taken from the memo.
ChainsExact ==
    handed # Unread =>
       LET keys == {DayKey(kind, e, handed.asked.day) : kind \in ChainKinds(handed.asked.liquidity), e \in handed.expiries}
       IN  \/ keys \cap aside # {}
           \/ \E k \in keys : OnDisk(k) /\ optDisk[k] = Torn
           \/ (\A k \in keys : OnDisk(k)) /\ handed.chain = ChainFrom(handed.asked, handed.expiries, optDisk)
=============================================================================
