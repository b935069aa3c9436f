--------------------------- MODULE TrialRegistry ---------------------------
(***************************************************************************)
(* The append-only trial registry of edge/research/registry.py: the file   *)
(* TRIALS.jsonl (a hash chain of lines), its sidecar TRIALS.index, and any *)
(* number of TrialRegistry instances that append to it and read it.        *)
(*                                                                         *)
(* A line is a record; the sha256 of its exact bytes is a fresh number, so *)
(* two different byte strings never share one (collision freedom).  Every  *)
(* file access of an operation is a step of its own, hence readers and     *)
(* writers interleave and a process may die between any two accesses.      *)
(***************************************************************************)
EXTENDS Integers, Sequences, FiniteSets

CONSTANTS
  Inst,              \* TrialRegistry instances (one per process)
  Configs,           \* canonical config hashes
  MaxLines,          \* bound on the lines of the file
  MaxLegacy,         \* longest pre-chain file the registry may start from
  MaxCrashes,        \* bound on process deaths
  MaxEdits,          \* bound on changes of the file made outside the class
  ExclusiveWriters   \* TRUE: callers keep "single writer at a time"

ASSUME BoundsAssumption ==
  /\ MaxLines \in Nat /\ MaxLegacy \in Nat
  /\ MaxCrashes \in Nat /\ MaxEdits \in Nat
  /\ ExclusiveWriters \in BOOLEAN

ASSUME ConfigsAssumption == Configs # {}

Genesis == 0         \* GENESIS_PREV_SHA: no line has this sha
NoSha == -1          \* None / an absent prev_sha
NoDup == 0           \* duplicate_of = None

LineBytes == 2       \* bytes of a complete line, newline included
TornBytes == 1       \* bytes of a line cut short, newline missing

Kinds == {"chained", "legacy", "torn", "garbled"}

Line == [sha : Nat, prev : Nat \cup {NoSha}, id : Nat, cfg : Configs,
         dup : Nat, kind : Kinds]

\* _IndexCache and _WriterState (tail_offset follows from the byte size).
NoCache == [count |-> -1, size |-> 0, tail |-> NoSha]
Cache == [count : Nat, size : Nat, tail : Nat \cup {NoSha}]
NoWriter == [count |-> -1, size |-> 0, tail |-> NoSha, prev |-> NoSha]
Writer == [count : Nat, size : Nat, tail : Nat \cup {NoSha},
           prev : Nat \cup {NoSha}]

WriteOps == {"record", "rebuild", "migrate"}
Ops == WriteOps \cup {"query"}
Results == {"none", "ok", "tampered", "refused"}
PCs == {"idle", "read_cache", "check_size", "walk", "warm_cache", "warm_file",
        "append", "write_cache", "rb_walk", "rb_write", "mg_read",
        "mg_replace"}

VARIABLES
  lines,     \* TRIALS.jsonl
  size,      \* its byte size
  index,     \* TRIALS.index, NoCache when absent
  nextSha,   \* the next unused sha
  pc, op, arg,  \* per instance: program counter, operation, its config
  seen,      \* per instance: the cache it read or is about to write
  writer,    \* per instance: self._writer
  dupMap,    \* per instance: self._dup_map
  result,    \* per instance: how its last operation ended
  acked,     \* <<trial_id, sha>> of every record_trial that returned
  crashes, edits,  \* how often each has happened
  foreign,   \* shas of lines written outside the class
  doctored,  \* an outside edit no rebuild_index has re-adopted since
  stale      \* per instance: somebody else wrote since it last looked

file == <<lines, size, index, nextSha>>
local == <<pc, op, arg, seen, writer, dupMap, result>>
history == <<acked, crashes, edits, foreign, doctored, stale>>
vars == <<lines, size, index, nextSha, pc, op, arg, seen, writer, dupMap,
          result, acked, crashes, edits, foreign, doctored, stale>>

-----------------------------------------------------------------------------
(* Operators on the file. *)

Prev(t, k) == IF k = 1 THEN Genesis ELSE t[k - 1].sha

\* One iteration of _walk_chain accepts line k: newline, schema, link, id.
LinkOK(t, k) == /\ t[k].kind = "chained"
                /\ t[k].prev = Prev(t, k)
                /\ t[k].id = k

WalkChain(t) == \A k \in 1..Len(t) : LinkOK(t, k)

TailSha(t) == IF t = <<>> THEN NoSha ELSE t[Len(t)].sha

Newlines(t) == Cardinality({k \in 1..Len(t) : t[k].kind # "torn"})

Uses(t, c) == {k \in 1..Len(t) : t[k].cfg = c}

\* dup_map.setdefault over the walk: the first trial with that hash.
FirstUse(t, c) == IF Uses(t, c) = {} THEN NoDup
                  ELSE CHOOSE k \in Uses(t, c) : \A j \in Uses(t, c) : k <= j

\* Mutant: the sidecar is written without the tail sha.
CacheOfNoTail(w) == [count |-> w.count, size |-> w.size]

CacheOf(w) == [count |-> w.count, size |-> w.size, tail |-> w.tail]

EmptyWriter == [count |-> 0, size |-> 0, tail |-> NoSha, prev |-> NoSha]

\* Bytes written with mode "ab" land behind whatever is there: behind a line
\* that lost its newline they merge with it into one unparseable line.
AppendBytes(t, l) ==
  IF t # <<>> /\ t[Len(t)].kind = "torn"
  THEN [t EXCEPT ![Len(t)] = [l EXCEPT !.kind = "garbled"]]
  ELSE Append(t, l)

LegacyLine(f, k) ==
  [sha |-> k, prev |-> NoSha, id |-> k, cfg |-> f[k], kind |-> "legacy",
   dup |-> IF \E j \in 1..(k - 1) : f[j] = f[k]
           THEN CHOOSE j \in 1..(k - 1) :
                  f[j] = f[k] /\ \A m \in 1..(j - 1) : f[m] # f[k]
           ELSE NoDup]

Init ==
  /\ \E n \in 0..MaxLegacy : \E f \in [1..n -> Configs] :
       /\ lines = [k \in 1..n |-> LegacyLine(f, k)]
       /\ size = n * LineBytes
       /\ nextSha = n + 1
  /\ index = NoCache
  /\ pc = [i \in Inst |-> "idle"]
  /\ op = [i \in Inst |-> "query"]
  /\ arg = [i \in Inst |-> CHOOSE c \in Configs : TRUE]
  /\ seen = [i \in Inst |-> NoCache]
  /\ writer = [i \in Inst |-> NoWriter]
  /\ dupMap = [i \in Inst |-> [c \in Configs |-> NoDup]]
  /\ result = [i \in Inst |-> "none"]
  /\ acked = {}
  /\ crashes = 0 /\ edits = 0 /\ foreign = {} /\ doctored = FALSE
  /\ stale = [i \in Inst |-> FALSE]

-----------------------------------------------------------------------------
(* Steps of one instance.  End(i, r): the operation is over with result r. *)

Busy(i) == pc[i] # "idle"
Writing(i) == Busy(i) /\ op[i] \in WriteOps

Goto(i, l) == pc' = [pc EXCEPT ![i] = l] /\ UNCHANGED result
End(i, r) == /\ pc' = [pc EXCEPT ![i] = "idle"]
             /\ seen' = [seen EXCEPT ![i] = NoCache]
             /\ result' = [result EXCEPT ![i] = r]
Tampered(i) == End(i, "tampered")

\* The registry is what a cold reader accepts: a chained file and its cache.
InSync(t, z, x) == \/ t = <<>> /\ z = 0 /\ x = NoCache
                   \/ /\ WalkChain(t)
                      /\ x = [count |-> Len(t), size |-> z, tail |-> TailSha(t)]

\* Everybody but i has to look again.
OthersStale(i) == stale' = [j \in Inst |-> IF j = i THEN stale[i] ELSE TRUE]

\* i has just written the cache in seen[i]: it is stale only if that cache does
\* not describe the file.
SelfSynced(i) ==
  stale' = [j \in Inst |-> IF j = i THEN ~InSync(lines, size, seen[i]) ELSE TRUE]

\* What an operation begun now may rely on: a warm writer relies on its last
\* commit as well as on the registry it finds.
Looked(i) ==
  stale' = [stale EXCEPT ![i] = ~InSync(lines, size, index)
                                \/ (writer[i] # NoWriter /\ stale[i])]

Free(i) == pc[i] = "idle"
MayWrite == ExclusiveWriters => \A j \in Inst : ~Writing(j)

Enter(i, o, l) ==
  /\ op' = [op EXCEPT ![i] = o]
  /\ pc' = [pc EXCEPT ![i] = l]
  /\ result' = [result EXCEPT ![i] = "none"]
  /\ Looked(i)
  /\ UNCHANGED <<file, seen, writer, dupMap, acked, crashes, edits, foreign, doctored>>

RecordTrial(i, c) ==
  /\ Free(i) /\ MayWrite
  /\ Len(lines) < MaxLines
  /\ arg' = [arg EXCEPT ![i] = c]
  /\ Enter(i, "record", IF writer[i] = NoWriter THEN "read_cache" ELSE "warm_cache")

\* query, cumulative_trial_count and var_of_trial_sharpes: one full read.
Query(i) == Free(i) /\ Enter(i, "query", "read_cache") /\ UNCHANGED arg

RebuildIndex(i) ==
  Free(i) /\ MayWrite /\ Enter(i, "rebuild", "rb_walk") /\ UNCHANGED arg

MigrateLegacy(i) ==
  Free(i) /\ MayWrite /\ Enter(i, "migrate", "mg_read") /\ UNCHANGED arg

\* _verified_links, first read: the sidecar (and the size when it is absent).
ReadCache(i) ==
  /\ pc[i] = "read_cache"
  /\ \/ /\ index # NoCache
        /\ seen' = [seen EXCEPT ![i] = index]
        /\ Goto(i, "check_size")
        /\ UNCHANGED <<writer, dupMap>>
     \/ /\ index = NoCache /\ size > 0
        /\ Tampered(i)
        /\ UNCHANGED <<writer, dupMap>>
     \/ /\ index = NoCache /\ size = 0 /\ op[i] = "query"
        /\ End(i, "ok")
        /\ UNCHANGED <<writer, dupMap>>
     \/ /\ index = NoCache /\ size = 0 /\ op[i] = "record"
        /\ Goto(i, "append") /\ UNCHANGED seen
        /\ writer' = [writer EXCEPT ![i] = EmptyWriter]
        /\ dupMap' = [dupMap EXCEPT ![i] = [c \in Configs |-> NoDup]]
  /\ UNCHANGED <<file, op, arg, history>>

CheckSize(i) ==
  /\ pc[i] = "check_size"
  /\ IF size = seen[i].size THEN Goto(i, "walk") /\ UNCHANGED seen
                            ELSE Tampered(i)
  /\ UNCHANGED <<file, op, arg, writer, dupMap, history>>

\* Mutant: the walk is not followed by the comparison with the cached tail.
VerifiedNoTail(t, x) == WalkChain(t) /\ Len(t) = x.count

\* The chain walk and, at its end, the count and tail cross-checks.
Verified(t, x) == WalkChain(t) /\ Len(t) = x.count /\ TailSha(t) = x.tail

WriterOf(t, z) ==
  IF t = <<>> THEN EmptyWriter
  ELSE [count |-> Len(t), size |-> z, tail |-> TailSha(t),
        prev |-> t[Len(t)].prev]

Walk(i) ==
  /\ pc[i] = "walk"
  /\ \/ /\ ~Verified(lines, seen[i])
        /\ Tampered(i)
        /\ UNCHANGED <<writer, dupMap>>
     \/ /\ Verified(lines, seen[i]) /\ op[i] = "query"
        /\ End(i, "ok")
        /\ UNCHANGED <<writer, dupMap>>
     \/ /\ Verified(lines, seen[i]) /\ op[i] = "record"
        /\ Goto(i, "append") /\ UNCHANGED seen
        /\ writer' = [writer EXCEPT ![i] = WriterOf(lines, size)]
        /\ dupMap' = [dupMap EXCEPT ![i] = [c \in Configs |-> FirstUse(lines, c)]]
  /\ UNCHANGED <<file, op, arg, history>>

\* _verify_warm: the sidecar must be what this writer committed ...
WarmCache(i) ==
  /\ pc[i] = "warm_cache"
  /\ IF index = CacheOf(writer[i]) THEN Goto(i, "warm_file") /\ UNCHANGED seen
                                 ELSE Tampered(i)
  /\ UNCHANGED <<file, op, arg, writer, dupMap, history>>

\* ... and so must the size, the newline count and the last line.
WarmTailOK(t, z, w) ==
  /\ z = w.size
  /\ Newlines(t) = w.count
  /\ w.count > 0 =>
       /\ t # <<>>
       /\ t[Len(t)].kind = "chained" /\ t[Len(t)].sha = w.tail
       /\ t[Len(t)].prev = w.prev /\ t[Len(t)].id = w.count

WarmFile(i) ==
  /\ pc[i] = "warm_file"
  /\ IF WarmTailOK(lines, size, writer[i]) THEN Goto(i, "append") /\ UNCHANGED seen
     ELSE Tampered(i)
  /\ UNCHANGED <<file, op, arg, writer, dupMap, history>>

\* Mutant: trial_id is the committed line count, not one more.
NewLineOffByOne(i) ==
  [sha |-> nextSha, id |-> writer[i].count, cfg |-> arg[i],
   dup |-> dupMap[i][arg[i]], kind |-> "chained",
   prev |-> IF writer[i].tail = NoSha THEN Genesis ELSE writer[i].tail]

NewLine(i) ==
  [sha |-> nextSha, id |-> writer[i].count + 1, cfg |-> arg[i],
   dup |-> dupMap[i][arg[i]], kind |-> "chained",
   prev |-> IF writer[i].tail = NoSha THEN Genesis ELSE writer[i].tail]

\* open(..., "ab"); write.  seen keeps the new committed state for the cache.
AppendLine(i) ==
  /\ pc[i] = "append"
  /\ lines' = AppendBytes(lines, NewLine(i))
  /\ size' = size + LineBytes
  /\ nextSha' = nextSha + 1
  /\ seen' = [seen EXCEPT ![i] = [count |-> writer[i].count + 1,
                                  size |-> writer[i].size + LineBytes,
                                  tail |-> nextSha]]
  /\ OthersStale(i)
  /\ Goto(i, "write_cache")
  /\ UNCHANGED <<index, op, arg, writer, dupMap, acked, crashes, edits, foreign, doctored>>

\* Mutant: the map keeps the latest trial of a config, not the first.
RememberLast(d, c, id) == [d EXCEPT ![c] = id]

\* self._dup_map.setdefault(config_hash, trial_id)
Remember(d, c, id) == [d EXCEPT ![c] = IF d[c] = NoDup THEN id ELSE d[c]]

\* _write_cache replaces the sidecar atomically; only then is the writer's
\* committed state advanced and the record returned.
WriteCache(i) ==
  /\ pc[i] = "write_cache"
  /\ index' = seen[i]
  /\ writer' = [writer EXCEPT ![i] =
       [count |-> seen[i].count, size |-> seen[i].size, tail |-> seen[i].tail,
        prev |-> IF @.tail = NoSha THEN Genesis ELSE @.tail]]
  /\ dupMap' = [dupMap EXCEPT ![i] = Remember(dupMap[i], arg[i], seen[i].count)]
  /\ acked' = acked \cup {<<seen[i].count, seen[i].tail>>}
  /\ End(i, "ok")
  /\ SelfSynced(i)
  /\ UNCHANGED <<lines, size, nextSha, op, arg, crashes, edits, foreign, doctored>>

\* rebuild_index: adopt the file as it is, provided its chain verifies.
RebuildWalk(i) ==
  /\ pc[i] = "rb_walk"
  /\ IF WalkChain(lines)
     THEN /\ seen' = [seen EXCEPT ![i] = CacheOf(WriterOf(lines, size))]
          /\ Goto(i, "rb_write")
     ELSE Tampered(i)
  /\ UNCHANGED <<file, op, arg, writer, dupMap, history>>

\* Mutant: the committed state of this instance survives rebuild_index.
RebuildWriteKeepsWriter(i) ==
  /\ pc[i] = "rb_write"
  /\ index' = seen[i]
  /\ doctored' = FALSE
  /\ SelfSynced(i)
  /\ End(i, "ok")
  /\ UNCHANGED <<lines, size, nextSha, op, arg, writer, dupMap, acked, crashes, edits,
                 foreign>>

RebuildWrite(i) ==
  /\ pc[i] = "rb_write"
  /\ index' = seen[i]
  /\ writer' = [writer EXCEPT ![i] = NoWriter]
  /\ dupMap' = [dupMap EXCEPT ![i] = [c \in Configs |-> NoDup]]
  /\ doctored' = FALSE
  /\ SelfSynced(i)
  /\ End(i, "ok")
  /\ UNCHANGED <<lines, size, nextSha, op, arg, acked, crashes, edits, foreign>>

\* Mutant: lines that already carry prev_sha are migrated as well.
LegacyFileAny(t) == \A k \in 1..Len(t) : t[k].id = k

\* migrate_legacy: only a chainless file, well formed and numbered from 1.
LegacyFile(t) == \A k \in 1..Len(t) : t[k].kind = "legacy" /\ t[k].id = k

MigrateRead(i) ==
  /\ pc[i] = "mg_read"
  /\ \/ size = 0 /\ End(i, "refused")
     \/ size > 0 /\ LegacyFile(lines) /\ Goto(i, "mg_replace") /\ UNCHANGED seen
     \/ /\ size > 0 /\ ~LegacyFile(lines)
        /\ IF \E k \in 1..Len(lines) : /\ lines[k].kind = "chained"
                                       /\ \A j \in 1..(k - 1) :
                                            lines[j].kind = "legacy" /\ lines[j].id = j
           THEN End(i, "refused") ELSE Tampered(i)
  /\ UNCHANGED <<file, op, arg, writer, dupMap, history>>

\* The rewritten lines have new bytes, hence new shas.
Migrated(t, n) ==
  [k \in 1..Len(t) |->
     [sha |-> n + k, prev |-> IF k = 1 THEN Genesis ELSE n + k - 1, id |-> t[k].id,
      cfg |-> t[k].cfg, dup |-> t[k].dup, kind |-> "chained"]]

\* os.replace swaps the file; then the method calls rebuild_index.
MigrateReplace(i) ==
  /\ pc[i] = "mg_replace"
  /\ lines' = Migrated(lines, nextSha)
  /\ size' = Len(lines) * LineBytes
  /\ nextSha' = nextSha + Len(lines) + 1
  /\ OthersStale(i)
  /\ Goto(i, "rb_walk")
  /\ UNCHANGED <<index, op, arg, seen, writer, dupMap, acked, crashes, edits, foreign, doctored>>

-----------------------------------------------------------------------------
(* The environment. *)

\* A process dies and starts again: what it held in memory is gone.  A death
\* inside the append may leave the line half written.
Crash(i) ==
  /\ Busy(i) \/ writer[i] # NoWriter
  /\ crashes < MaxCrashes
  /\ crashes' = crashes + 1
  /\ End(i, "none")
  /\ writer' = [writer EXCEPT ![i] = NoWriter]
  /\ dupMap' = [dupMap EXCEPT ![i] = [c \in Configs |-> NoDup]]
  /\ \/ UNCHANGED <<lines, size, nextSha, stale>>
     \/ /\ pc[i] = "append"
        /\ lines' = AppendBytes(lines, [NewLine(i) EXCEPT !.kind = "torn"])
        /\ size' = size + TornBytes
        /\ nextSha' = nextSha + 1
        /\ OthersStale(i)
  /\ UNCHANGED <<index, op, arg, acked, edits, foreign, doctored>>

\* A line is changed, or the last line dropped, by something other than this
\* class (an editor, a merge); the edit may or may not keep the byte size.
EditFile ==
  /\ edits < MaxEdits
  /\ lines # <<>>
  /\ edits' = edits + 1
  /\ doctored' = TRUE
  /\ stale' = [j \in Inst |-> TRUE]
  /\ nextSha' = nextSha + 1
  /\ \/ \E k \in 1..Len(lines), c \in Configs :
          /\ lines[k].kind = "chained"
          /\ lines' = [lines EXCEPT ![k].sha = nextSha, ![k].cfg = c]
          /\ foreign' = foreign \cup {nextSha}
          /\ size' \in {size, size + 1}
     \/ /\ lines' = SubSeq(lines, 1, Len(lines) - 1)
        /\ size' = size - (IF lines[Len(lines)].kind = "torn" THEN TornBytes
                                                              ELSE LineBytes)
        /\ UNCHANGED foreign
  /\ UNCHANGED <<index, local, acked, crashes>>

Step(i) ==
  \/ \E c \in Configs : RecordTrial(i, c)
  \/ Query(i) \/ RebuildIndex(i) \/ MigrateLegacy(i)
  \/ ReadCache(i) \/ CheckSize(i) \/ Walk(i)
  \/ WarmCache(i) \/ WarmFile(i) \/ AppendLine(i) \/ WriteCache(i)
  \/ RebuildWalk(i) \/ RebuildWrite(i)
  \/ MigrateRead(i) \/ MigrateReplace(i)
  \/ Crash(i)

Next == (\E i \in Inst : Step(i)) \/ EditFile

Spec == Init /\ [][Next]_vars

-----------------------------------------------------------------------------
(* Properties. *)

\* Type correctness of the files, the instances' memory and the history.
TypeOK ==
  /\ lines \in Seq(Line) /\ size \in Nat /\ nextSha \in Nat
  /\ index \in Cache \cup {NoCache}
  /\ pc \in [Inst -> PCs] /\ op \in [Inst -> Ops] /\ arg \in [Inst -> Configs]
  /\ seen \in [Inst -> Cache \cup {NoCache}]
  /\ writer \in [Inst -> Writer \cup {NoWriter}]
  /\ dupMap \in [Inst -> [Configs -> Nat]]
  /\ result \in [Inst -> Results]
  /\ acked \subseteq Nat \X (Nat \cup {NoSha})
  /\ crashes \in Nat /\ edits \in Nat /\ foreign \subseteq Nat
  /\ doctored \in BOOLEAN /\ stale \in [Inst -> BOOLEAN]

\* record_trial and migrate_legacy keep the file a legacy file or a verified
\* chain that at most ends in one line cut short by a death during the append:
\* every other crash leaves a file rebuild_index accepts.  Like the next two,
\* this is about files nobody has edited from outside.
ChainShape(t) ==
  \/ LegacyFile(t)
  \/ \A k \in 1..Len(t) : LinkOK(t, k) \/ (k = Len(t) /\ t[k].kind = "torn")

ChainKept == edits = 0 => ChainShape(lines)

\* A trial that record_trial has returned stays in the file, at the line of
\* its trial_id and with the bytes that were returned.
Kept(a) == a[1] \in 1..Len(lines) /\ lines[a[1]].sha = a[2]

AckedKept == edits = 0 => \A a \in acked : Kept(a)

\* duplicate_of names the first trial with the same config hash, whichever
\* instance wrote it and whether its preflight was cold or warm.
IsFirst(d, c, t, n) ==
  IF \E j \in 1..n : t[j].cfg = c
  THEN d \in 1..n /\ t[d].cfg = c /\ \A j \in 1..(d - 1) : t[j].cfg # c
  ELSE d = NoDup

DupShape(t) ==
  \A k \in 1..Len(t) : t[k].kind # "torn" => IsFirst(t[k].dup, t[k].cfg, t, k - 1)

DuplicateOfFirst == edits = 0 => DupShape(lines)

\* "Single writer at a time; readers may run concurrently": while the only
\* activity is one record_trial at a time, no reader sees RegistryTampered.
ReadersUndisturbed ==
  \A i \in Inst : op[i] = "query" => result[i] # "tampered"

\* RegistryTampered is never raised by an instance that found a consistent
\* registry and has been the only one to touch it since.
AlarmsExplained ==
  [][\A i \in Inst : result[i] # "tampered" /\ result'[i] = "tampered"
                       => stale[i]]_vars

\* A burned link (a line whose prev_sha is not its predecessor's sha) is never
\* repaired by an operation of the class: no append, rebuild_index or
\* migrate_legacy launders a broken chain.
Burned(t) == \E k \in 2..Len(t) : t[k].kind = "chained" /\ t[k].prev # t[k - 1].sha

NeverLaundered == [][Burned(lines) /\ edits' = edits => Burned(lines')]_vars

\* Until rebuild_index re-adopts the file explicitly, a query that runs to its
\* end serves no line written outside the class and misses no trial that the
\* sidecar it read had committed.
ServedClean ==
  [][\A i \in Inst : op[i] = "query" /\ pc[i] = "walk" /\ result'[i] = "ok"
       => \/ edits > 0 /\ ~doctored
          \/ /\ \A a \in acked : a[1] <= seen[i].count => Kept(a)
             /\ \A k \in 1..Len(lines) : lines[k].sha \notin foreign]_vars
=============================================================================
