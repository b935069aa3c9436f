----------------------------- MODULE FeedCaches -----------------------------
(***************************************************************************)
(* The disk caches of the feed adapters and the calls that fill them, with *)
(* the faults they meet: a vendor that fails, answers late or revises; two *)
(* processes over one cache; a crash between two writes.  A behaviour is   *)
(* about one adapter; disk is what it keeps there, procs its callers.      *)
(* Every write goes through _write_atomic: a file is replaced whole.       *)
(***************************************************************************)
EXTENDS FeedFrames, SequencesExt

CONSTANTS NoFrame,           \* no file, no frame
          Procs,             \* callers that share the cache
          Symbols,           \* of the earnings archive
          Days0, LastClock,  \* the clock, in days, and its last value
          SeedDays,          \* days already in the FINRA archive
          Pages, TickAttempts,   \* pages of a tick pull, max_attempts
          MaxCalls, MaxFaults

\* Days are numbers; an archive is topped up only after it was seeded.
ASSUME CachesAssumption ==
    /\ Days0 \in Nat /\ LastClock \in Nat /\ Pages \in Nat \ {0}
    /\ SeedDays # {} /\ SeedDays \subseteq Int /\ IsFiniteSet(SeedDays) /\ IsFiniteSet(Symbols)

VARIABLES adapter, clock, disk, procs, calls, faults, served

cacheVars == <<adapter, clock, disk, procs, calls, faults, served>>
Adapters == {"finra", "events", "fred", "ticks", "vol", "bridge"}
Resting == [pc |-> "idle"]
Busyp(p) == procs[p].pc # "idle"
Become(p, s) == procs' = [procs EXCEPT ![p] = s]
Put(f, k, v) == [x \in DOMAIN f \cup {k} |-> IF x = k THEN v ELSE f[x]]
Calling(a, p) == adapter = a /\ ~Busyp(p) /\ calls < MaxCalls /\ calls' = calls + 1
Fault == faults < MaxFaults /\ faults' = faults + 1

EmptyDisk(a) ==
    CASE a = "finra" -> [raw |-> [d \in SeedDays |-> "good"], parsed |-> <<>>, tried |-> {}]
      [] a = "events" -> [archive |-> [s \in Symbols |-> 0], mtime |-> [s \in Symbols |-> 0], cache |-> NoFrame]
      [] a = "fred" -> [cache |-> <<>>]
      [] a = "ticks" -> [cache |-> <<>>]
      [] a = "vol" -> [raw |-> 0, index |-> NoFrame, features |-> NoFrame, refreshed |-> 0]
      [] OTHER -> [cache |-> {}]

CachesInit ==
    /\ adapter \in Adapters /\ clock = Days0 /\ disk = EmptyDisk(adapter)
    /\ procs = [p \in Procs |-> Resting] /\ calls = 0 /\ faults = 0 /\ served = NoFrame

Tick ==
    /\ clock < LastClock /\ clock' = clock + 1
    /\ UNCHANGED <<adapter, disk, procs, calls, faults, served>>
\* A caller dies; nothing it held survives.
CacheCrash ==
    /\ \E p \in Procs : Busyp(p) /\ Become(p, Resting)
    /\ Fault /\ UNCHANGED <<adapter, clock, disk, calls, served>>
----------------------------------------------------------------------------
(* FinraShortDaily.  tried remembers the days update asked the CDN for;    *)
(* parsed, for each parsed day, what the file was that it was parsed from. *)

Known == DOMAIN disk.raw \cup DOMAIN disk.parsed
FirstMissingTwoOn == Max(Known) + 2
FirstMissing == Max(Known) + 1

\* update: tops up after the last archived day.
FinraUpdate(p, through) ==
    /\ Calling("finra", p) /\ Known # {} /\ FirstMissing <= through
    /\ Become(p, [pc |-> "topup", day |-> FirstMissing, through |-> through])
    /\ UNCHANGED <<adapter, clock, disk, faults, served>>

\* One trading day of it: a failure of any kind skips the day, a 200 is written.
FinraDay(p) ==
    /\ procs[p].pc = "topup" /\ adapter = "finra"
    /\ LET days == {d \in procs[p].day..procs[p].through : TradingDay(d)}
           day == Min(days)
       IN  IF days = {}
           THEN Become(p, Resting) /\ UNCHANGED <<disk, faults>>
           ELSE /\ Become(p, [procs[p] EXCEPT !.day = day + 1])
                /\ \/ /\ day < clock /\ UNCHANGED faults
                      /\ disk' = [disk EXCEPT !.raw = Put(@, day, "good"), !.tried = @ \cup {day}]
                   \/ /\ Fault
                      /\ \/ disk' = [disk EXCEPT !.raw = Put(@, day, "bad"), !.tried = @ \cup {day}]
                         \/ disk' = [disk EXCEPT !.tried = @ \cup {day}]
                   \/ day >= clock /\ disk' = [disk EXCEPT !.tried = @ \cup {day}] /\ UNCHANGED faults
    /\ UNCHANGED <<adapter, clock, calls, served>>

\* The parsed frames once the days are loaded: a cached one is served as it is.
Loaded(days) == [d \in DOMAIN disk.parsed \cup days |->
                   IF d \in DOMAIN disk.parsed THEN disk.parsed[d] ELSE disk.raw[d]]
Frame(days) == [days |-> days, clean |-> \A d \in days : Loaded(days)[d] = "good"]

\* A bad file is taken as an empty day.
ParsedLenient(start, end) ==
    LET days == {d \in Known : start <= d /\ d <= end}
    IN  disk' = [disk EXCEPT !.parsed = Loaded(days)] /\ served' = Frame(days)

\* _load_day over a range: days parse in order, the first malformed one raises.
Parsed(start, end) ==
    LET days == {d \in Known : start <= d /\ d <= end}
        bad == {d \in days \ DOMAIN disk.parsed : disk.raw[d] = "bad"}
        before == IF bad = {} THEN days ELSE {d \in days : d < Min(bad)}
    IN  /\ disk' = [disk EXCEPT !.parsed = Loaded(before)]
        /\ served' = IF bad = {} THEN Frame(days) ELSE NoFrame
FinraDaily(p, start, end) ==
    /\ Calling("finra", p) /\ Parsed(start, end)
    /\ UNCHANGED <<adapter, clock, procs, faults>>
----------------------------------------------------------------------------
(* EarningsFeed; RatesFeed.load_yields serves its cache by the same rule.  *)
(* The content of a file is the day it was fetched.                        *)

\* refresh: a snapshot that came back is written, then the cache is unlinked.
EventsRefresh(p, symbols) ==
    /\ Calling("events", p)
    /\ Become(p, [pc |-> "refresh", todo |-> symbols, wrote |-> FALSE])
    /\ UNCHANGED <<adapter, clock, disk, faults, served>>
RefreshSymbol(p) ==
    /\ procs[p].pc = "refresh" /\ procs[p].todo # {}
    /\ LET s == CHOOSE x \in procs[p].todo : TRUE
       IN  \/ /\ disk' = [disk EXCEPT !.archive[s] = clock, !.mtime[s] = clock] /\ UNCHANGED faults
              /\ procs' = [q \in Procs |->
                             IF q = p THEN [procs[p] EXCEPT !.todo = @ \ {s}, !.wrote = TRUE]
                             ELSE IF procs[q].pc = "load" THEN [procs[q] EXCEPT !.overlapped = TRUE]
                             ELSE procs[q]]
           \/ Become(p, [procs[p] EXCEPT !.todo = @ \ {s}]) /\ Fault /\ UNCHANGED disk
    /\ UNCHANGED <<adapter, clock, calls, served>>
RefreshEnd(p) ==
    /\ procs[p].pc = "refresh" /\ procs[p].todo = {} /\ Become(p, Resting)
    /\ disk' = IF procs[p].wrote THEN [disk EXCEPT !.cache = NoFrame] ELSE disk
    /\ UNCHANGED <<adapter, clock, calls, faults, served>>

\* Only the first file is compared with the cache.
CacheServesFirst == disk.cache # NoFrame /\ disk.cache.mtime >= Min({disk.mtime[s] : s \in Symbols})

\* _events_cache_read: at least as new as every archive file.
CacheServes == disk.cache # NoFrame /\ disk.cache.mtime >= Max({disk.mtime[s] : s \in Symbols})

EventsLoad(p) ==
    /\ Calling("events", p)
    /\ IF CacheServes
       THEN served' = disk.cache.rows /\ UNCHANGED procs
       ELSE /\ Become(p, [pc |-> "load", todo |-> Symbols, got |-> NoFrame, rows |-> <<>>, overlapped |-> FALSE])
            /\ UNCHANGED served
    /\ UNCHANGED <<adapter, clock, disk, faults>>

Snapshot(content, stamp) == [content |-> content, stamp |-> stamp]

\* The stamp is taken when the file is opened, the rows afterwards.
StampFirst(p, s) ==
    IF procs[p].got = NoFrame
    THEN Become(p, [procs[p] EXCEPT !.got = disk.mtime[s]])
    ELSE Become(p, [procs[p] EXCEPT !.got = NoFrame, !.todo = @ \ {s},
                                    !.rows = Put(@, s, Snapshot(disk.archive[s], procs[p].got))])

\* _parse_symbol_file reads the rows, then takes the stamp from the file's mtime.
ReadThenStamp(p, s) ==
    IF procs[p].got = NoFrame
    THEN Become(p, [procs[p] EXCEPT !.got = disk.archive[s]])
    ELSE Become(p, [procs[p] EXCEPT !.got = NoFrame, !.todo = @ \ {s},
                                    !.rows = Put(@, s, Snapshot(procs[p].got, disk.mtime[s]))])
LoadSymbol(p) ==
    /\ procs[p].pc = "load" /\ procs[p].todo # {}
    /\ ReadThenStamp(p, CHOOSE s \in procs[p].todo : TRUE)
    /\ UNCHANGED <<adapter, clock, disk, calls, faults, served>>
LoadEnd(p) ==
    /\ procs[p].pc = "load" /\ procs[p].todo = {} /\ Become(p, Resting)
    /\ disk' = [disk EXCEPT !.cache = [rows |-> procs[p].rows, mtime |-> clock, overlapped |-> procs[p].overlapped]]
    /\ served' = procs[p].rows
    /\ UNCHANGED <<adapter, clock, calls, faults>>
----------------------------------------------------------------------------
(* RatesFeed.fetch_fred.  FRED publishes day d by d + 1, in order, and may *)
(* revise: the value of a day is the day on which it was last revised.     *)

\* The request starts after the last cached day.
FromCachedNext(cache) == IF DOMAIN cache = {} THEN Days0 ELSE Max(DOMAIN cache) + 2
\* cosd: the last cached day is asked for again.
FromCached(cache) == IF DOMAIN cache = {} THEN Days0 ELSE Max(DOMAIN cache)

FredFetch(p) ==
    /\ Calling("fred", p)
    /\ Become(p, [pc |-> "get", cache |-> disk.cache, from |-> FromCached(disk.cache)])
    /\ UNCHANGED <<adapter, clock, disk, faults, served>>
FredAnswer(p) ==
    /\ adapter = "fred" /\ procs[p].pc = "get"
    /\ \/ /\ Become(p, [pc |-> "merge", cache |-> procs[p].cache,
                        fresh |-> [d \in procs[p].from..(clock - 1) |-> clock]]) /\ UNCHANGED faults
       \/ Become(p, Resting) /\ Fault
    /\ UNCHANGED <<adapter, clock, disk, calls, served>>
\* The re-fetched value wins.
Merged(fresh, cache) == [d \in DOMAIN fresh \cup DOMAIN cache |-> IF d \in DOMAIN fresh THEN fresh[d] ELSE cache[d]]
FredMerge(p) ==
    /\ procs[p].pc = "merge" /\ Become(p, Resting)
    /\ disk' = [disk EXCEPT !.cache = Merged(procs[p].fresh, procs[p].cache)]
    /\ UNCHANGED <<adapter, clock, calls, faults, served>>
----------------------------------------------------------------------------
(* AlpacaTicks._frame: pages 1..Pages, page n + 1 by the token of page n.  *)

TickPull(p) ==
    /\ Calling("ticks", p)
    /\ IF disk.cache # <<>>
       THEN served' = disk.cache /\ UNCHANGED procs
       ELSE Become(p, [pc |-> "page", rows |-> <<>>, attempt |-> 0]) /\ UNCHANGED served
    /\ UNCHANGED <<adapter, clock, disk, faults>>

\* What a pull that lost a page leaves: the pages it has.
AbandonKeeps(p) ==
    /\ disk' = [disk EXCEPT !.cache = IF procs[p].rows = <<>> THEN @ ELSE procs[p].rows]
    /\ served' = procs[p].rows /\ Become(p, Resting)
\* None: an empty frame, not cached.
Abandon(p) == UNCHANGED disk /\ served' = <<>> /\ Become(p, Resting)

TickPage(p) ==
    /\ adapter = "ticks" /\ procs[p].pc = "page"
    /\ \/ /\ Len(procs[p].rows) + 1 < Pages
          /\ Become(p, [procs[p] EXCEPT !.rows = Append(@, Len(@) + 1), !.attempt = 0])
          /\ UNCHANGED <<disk, faults, served>>
       \/ /\ Len(procs[p].rows) + 1 = Pages
          /\ disk' = [disk EXCEPT !.cache = Append(procs[p].rows, Pages)]
          /\ served' = disk'.cache /\ Become(p, Resting) /\ UNCHANGED faults
       \/ /\ procs[p].attempt + 1 < TickAttempts /\ Fault
          /\ Become(p, [procs[p] EXCEPT !.attempt = @ + 1]) /\ UNCHANGED <<disk, served>>
       \/ Fault /\ Abandon(p)
    /\ UNCHANGED <<adapter, clock, calls>>
----------------------------------------------------------------------------
(* CboeIndices.features over index_history (CotTff.features is the outer   *)
(* half): caches served for good unless refresh is asked for.              *)

RawArrives ==
    /\ adapter = "vol" /\ disk.raw < clock /\ disk' = [disk EXCEPT !.raw = clock]
    /\ UNCHANGED <<adapter, clock, procs, calls, faults, served>>

\* The index leg is read from its cache also on a refresh.
IndexLegCached(refresh) == IF disk.index # NoFrame THEN disk.index ELSE disk.raw
IndexLeg(refresh) == IF ~refresh /\ disk.index # NoFrame THEN disk.index ELSE disk.raw

VolFeaturesCall(p, refresh) ==
    /\ Calling("vol", p)
    /\ IF ~refresh /\ disk.features # NoFrame
       THEN served' = disk.features /\ UNCHANGED disk
       ELSE /\ disk' = [disk EXCEPT !.index = IndexLeg(refresh), !.features = IndexLeg(refresh),
                                    !.refreshed = IF refresh THEN disk.raw ELSE @]
            /\ served' = IndexLeg(refresh)
    /\ UNCHANGED <<adapter, clock, procs, faults>>
\* A cache file becomes unreadable: a miss.
VolDamage ==
    /\ adapter = "vol" /\ Fault
    /\ \/ disk.features # NoFrame /\ disk' = [disk EXCEPT !.features = NoFrame]
       \/ disk.index # NoFrame /\ disk' = [disk EXCEPT !.index = NoFrame]
    /\ UNCHANGED <<adapter, clock, procs, calls, served>>
----------------------------------------------------------------------------
(* CatalystBridge._fetch_* over the shared archive: one frame per business *)
(* day; allow is allow_fetch, skip is missing_ok.                          *)

\* A cache-only miss is always skipped.
OnMissSkips(allow, skip) == IF allow THEN "fetch" ELSE "skip"
\* _read on a miss.
OnMiss(allow, skip) == IF allow THEN "fetch" ELSE IF skip THEN "skip" ELSE "raise"

BridgeFetch(p, start, end, allow, skip) ==
    /\ Calling("bridge", p)
    /\ LET days == {d \in start..end : BusinessDay(d)}
           missing == days \ disk.cache
           miss == OnMiss(allow, skip)
       IN  IF missing = {}
           THEN served' = [days |-> days, asked |-> days, skip |-> skip] /\ UNCHANGED <<disk, faults>>
           ELSE \/ /\ miss = "fetch" /\ UNCHANGED faults
                   /\ disk' = [disk EXCEPT !.cache = @ \cup days]
                   /\ served' = [days |-> days, asked |-> days, skip |-> skip]
                \/ \* the terminal fails on one of the days: those before it are cached
                   /\ miss = "fetch" /\ Fault /\ served' = NoFrame
                   /\ \E d \in missing : disk' = [disk EXCEPT !.cache = @ \cup {e \in days : e < d}]
                \/ /\ miss = "skip" /\ UNCHANGED <<disk, faults>>
                   /\ served' = [days |-> days \cap disk.cache, asked |-> days, skip |-> skip]
                \/ miss = "raise" /\ served' = NoFrame /\ UNCHANGED <<disk, faults>>
    /\ UNCHANGED <<adapter, clock, procs>>
----------------------------------------------------------------------------
Call(p) ==
    \/ \E t \in Days0..LastClock : FinraUpdate(p, t) \/ FinraDaily(p, Days0, t)
    \/ \E s \in SUBSET Symbols : EventsRefresh(p, s)
    \/ EventsLoad(p) \/ FredFetch(p) \/ TickPull(p)
    \/ \E refresh \in BOOLEAN : VolFeaturesCall(p, refresh)
    \/ \E t \in Days0..LastClock, allow, skip \in BOOLEAN : BridgeFetch(p, Days0, t, allow, skip)
Resume(p) ==
    FinraDay(p) \/ RefreshSymbol(p) \/ RefreshEnd(p) \/ LoadSymbol(p) \/ LoadEnd(p)
    \/ FredAnswer(p) \/ FredMerge(p) \/ TickPage(p)
CachesNext == Tick \/ CacheCrash \/ RawArrives \/ VolDamage \/ \E p \in Procs : Call(p) \/ Resume(p)
CachesSpec == CachesInit /\ [][CachesNext]_cacheVars
----------------------------------------------------------------------------
\* FinraShortDaily.update ("Top up the raw archive"): a trading day missing below the
\* newest archived one was asked for and refused; none is passed over unasked,
\* whatever updates overlap, crash or resume.
HolesWereTried ==
    adapter = "finra" =>
        \A d \in (Max(SeedDays) + 1)..Max(Known) : TradingDay(d) => d \in Known \cup disk.tried

\* _parse_file ("ValueError: unexpected header, or a malformed data line"): no frame
\* is ever served with a malformed day in it, from the cache either.
BadFileIsLoud == adapter = "finra" /\ served # NoFrame => served.clean

\* _parse_symbol_file: whatever refreshes run beside a load, no row is stamped
\* before the day its content was fetched.
NeverStampedEarly ==
    adapter = "events" /\ served # NoFrame => \A s \in DOMAIN served : served[s].stamp >= served[s].content

\* "the next load_events rebuilds with fresh snapshot stamps", also after a refresh
\* that died before it unlinked the cache; a load that a refresh overlapped may
\* leave an older table with a newer mtime.
CacheFollowsArchive ==
    adapter = "events" /\ CacheServes =>
        disk.cache.overlapped \/ \A s \in Symbols : disk.cache.rows[s].content = disk.archive[s]
                                                    \/ disk.mtime[s] = disk.cache.mtime

\* fetch_fred: with updaters racing, failing and dying the cached history has no gap,
\* so asking from its last day loses no observation.
FredGapFree == adapter = "fred" => \A d \in DOMAIN disk.cache : \A e \in Days0..d : e \in DOMAIN disk.cache

\* "A failed fetch yields an empty frame that is NOT cached": a cached pull has every page.
PullComplete == adapter = "ticks" => disk.cache \in {<<>>, [n \in 1..Pages |-> n]}

\* features: what is served is never older than the last refresh somebody asked for.
RefreshReachesFeatures == adapter = "vol" /\ served # NoFrame => served >= disk.refreshed

\* CatalystCacheMiss: a frame is whole unless the caller asked for missing_ok.
MissIsLoud == adapter = "bridge" /\ served # NoFrame => served.days = served.asked \/ served.skip

\* What the caches hold was published when they say, is what the archive says now, has
\* no hole that was not asked for, and a file that is missing, cut short or malformed
\* never passes for data.
CachesHonest ==
    /\ HolesWereTried /\ BadFileIsLoud /\ NeverStampedEarly /\ CacheFollowsArchive
    /\ FredGapFree /\ PullComplete /\ RefreshReachesFeatures /\ MissIsLoud
=============================================================================
