--------------------------- MODULE RegistryProofs ----------------------------
(***************************************************************************)
(* The trial registry and the campaign that writes to it.  TrialRegistry,  *)
(* for any number of instances, configs, lines and crashes, under the      *)
(* discipline the class documents: one writer at a time, and files nobody  *)
(* has edited by hand.  The campaign drivers, for any plan, budgets,       *)
(* report and choice of --only, and any number of solo runs, reports,      *)
(* kills and restarts: CampaignInv says of every process which steps it    *)
(* may be at and what its directory holds by then, of the orchestrator     *)
(* that its queue is the part of the plan that has no run yet, and of the  *)
(* registry that it is ahead of all that was or may still be replayed.     *)
(***************************************************************************)
EXTENDS TrialRegistry, Campaign, SequenceTheorems, SumProofs

-----------------------------------------------------------------------------
(* The registry.                                                            *)


\* What a writer remembers describes a prefix of the file.
Knows(w, d, t) ==
  w # NoWriter =>
    /\ w.count \in 0..Len(t)
    /\ w.count = 0 => w.size = 0 /\ w.tail = NoSha
    /\ \A k \in 1..w.count : t[k].kind = "chained"
    /\ \A c \in Configs : IsFirst(d[c], c, t, w.count)

\* What one instance relies on at each program counter.
LocalOK(p, o, a, s, w, d, t) ==
  /\ p \in {"read_cache", "check_size", "walk"} => o \in {"query", "record"}
  /\ p \in {"warm_cache", "warm_file", "append", "write_cache"}
       => o = "record" /\ w # NoWriter
  /\ p \in {"rb_walk", "rb_write"} => o \in {"rebuild", "migrate"}
  /\ p \in {"mg_read", "mg_replace"} => o = "migrate"
  /\ p = "append" => WalkChain(t) /\ w.count = Len(t) /\ w.tail = TailSha(t)
  /\ p = "write_cache" => /\ WalkChain(t)
                          /\ s.count = Len(t) /\ s.tail = TailSha(t)
                          /\ w.count + 1 = Len(t) /\ t[Len(t)].cfg = a
  /\ p = "mg_replace" => LegacyFile(t)
  /\ Knows(w, d, t)

FileOK(t, z) == ChainShape(t) /\ DupShape(t) /\ (z = 0 => t = <<>>)

AckedIn(A, t) == \A a \in A : /\ a[1] \in 1..Len(t)
                              /\ t[a[1]].sha = a[2] /\ t[a[1]].kind = "chained"

OneWriter == \A i, j \in Inst : Writing(i) /\ Writing(j) => i = j

Local(i) == LocalOK(pc[i], op[i], arg[i], seen[i], writer[i], dupMap[i], lines)

IInv == /\ TypeOK /\ edits = 0
        /\ OneWriter
        /\ FileOK(lines, size)
        /\ AckedIn(acked, lines)
        /\ \A i \in Inst : Local(i)

-----------------------------------------------------------------------------

\* The dup map a cold walk builds is the first-use map of the whole file.
LEMMA FirstUseIsFirst ==
  ASSUME NEW t \in Seq(Line), NEW c \in Configs
  PROVE  IsFirst(FirstUse(t, c), c, t, Len(t)) /\ FirstUse(t, c) \in Nat
<1>1. CASE Uses(t, c) = {}
  BY <1>1 DEF FirstUse, IsFirst, Uses, NoDup
<1>2. CASE Uses(t, c) # {}
  <2>1. Uses(t, c) \subseteq Nat
    BY DEF Uses
  <2>2. \E k \in Uses(t, c) : \A j \in Uses(t, c) : k <= j
    BY <1>2, <2>1, LeastNat
  <2>3. FirstUse(t, c) \in Uses(t, c) /\ \A j \in Uses(t, c) : FirstUse(t, c) <= j
    BY <1>2, <2>2 DEF FirstUse
  <2> HIDE DEF FirstUse
  <2> QED BY <2>3 DEF IsFirst, Uses, NoDup
<1> QED BY <1>1, <1>2

\* A file without lines is empty.
LEMMA LenZero == ASSUME NEW t \in Seq(Line), Len(t) = 0 PROVE t = <<>>
OBVIOUS

\* Appending a line linked to the tail keeps a verified chain verified.
LEMMA GrowChain ==
  ASSUME NEW t \in Seq(Line), NEW l \in Line, WalkChain(t),
         l.kind = "chained", l.id = Len(t) + 1,
         l.prev = IF TailSha(t) = NoSha THEN Genesis ELSE TailSha(t)
  PROVE  WalkChain(Append(t, l)) /\ TailSha(Append(t, l)) = l.sha
<1>1. t # <<>> => t[Len(t)] \in Line /\ TailSha(t) = t[Len(t)].sha /\ TailSha(t) # NoSha
  <2>1. t # <<>> => Len(t) \in 1..Len(t) /\ t[Len(t)] \in Line
    OBVIOUS
  <2>2. \A x \in Line : x.sha \in Nat
    BY DEF Line
  <2>3. \A n \in Nat : n # NoSha
    BY DEF NoSha
  <2> QED BY <2>1, <2>2, <2>3 DEF TailSha
<1>2. l.prev = Prev(Append(t, l), Len(t) + 1)
  BY <1>1 DEF Prev, TailSha
<1>3. \A k \in 1..Len(t) : LinkOK(Append(t, l), k)
  BY DEF WalkChain, LinkOK, Prev
<1>4. LinkOK(Append(t, l), Len(t) + 1)
  BY <1>2 DEF LinkOK
<1>5. /\ Append(t, l) # <<>> /\ Len(Append(t, l)) = Len(t) + 1
      /\ Append(t, l)[Len(t) + 1] = l
  <2>1. Append(t, l) \in Seq(Line) /\ Len(Append(t, l)) = Len(t) + 1
    OBVIOUS
  <2>2. Append(t, l)[Len(t) + 1] = l
    OBVIOUS
  <2>3. Append(t, l) # <<>>
    BY <2>1
  <2> QED BY <2>1, <2>2, <2>3
<1>6. WalkChain(Append(t, l))
  <2>1. \A k \in 1..(Len(t) + 1) : k \in 1..Len(t) \/ k = Len(t) + 1
    OBVIOUS
  <2> QED BY <1>3, <1>4, <1>5, <2>1 DEF WalkChain
<1>7. TailSha(Append(t, l)) = l.sha
  BY <1>5 DEF TailSha
<1> QED BY <1>6, <1>7

\* First uses in a prefix are not affected by what is appended behind it.
LEMMA GrowFirst ==
  ASSUME NEW t \in Seq(Line), NEW l \in Line, NEW d, NEW c, NEW n \in 0..Len(t),
         IsFirst(d, c, t, n)
  PROVE  IsFirst(d, c, Append(t, l), n)
BY DEF IsFirst

\* A line that was not in the file is not in it twice once it is appended.
LEMMA GrowDup ==
  ASSUME NEW t \in Seq(Line), NEW l \in Line, DupShape(t),
         l.kind # "torn" => IsFirst(l.dup, l.cfg, t, Len(t))
  PROVE  DupShape(Append(t, l))
<1>1. SUFFICES ASSUME NEW k \in 1..(Len(t) + 1), Append(t, l)[k].kind # "torn"
               PROVE  IsFirst(Append(t, l)[k].dup, Append(t, l)[k].cfg, Append(t, l), k - 1)
  BY DEF DupShape
<1>2. CASE k \in 1..Len(t)
  <2>1. IsFirst(t[k].dup, t[k].cfg, t, k - 1)
    BY <1>1, <1>2 DEF DupShape
  <2> QED BY <1>2, <2>1, GrowFirst
<1>3. CASE k = Len(t) + 1
  BY <1>1, <1>3, GrowFirst
<1> QED BY <1>2, <1>3

\* What a writer knows of a file stays true when a line is appended.
LEMMA GrowKnows ==
  ASSUME NEW t \in Seq(Line), NEW l \in Line, NEW w \in Writer \cup {NoWriter}, NEW d,
         Knows(w, d, t)
  PROVE  Knows(w, d, Append(t, l))
BY GrowFirst DEF Knows, Writer

\* An acknowledged trial stays in the file when a line is appended.
LEMMA GrowAcked ==
  ASSUME NEW t \in Seq(Line), NEW l \in Line, NEW A, AckedIn(A, t)
  PROVE  AckedIn(A, Append(t, l))
BY DEF AckedIn

\* A verified chain has neither legacy nor torn lines, and an ended one stays
\* well shaped when a death cuts the next line short.
LEMMA ChainIsShape ==
  ASSUME NEW t \in Seq(Line), WalkChain(t)
  PROVE  ChainShape(t)
BY DEF WalkChain, ChainShape

\* A line that a death cuts short ends a chain that is otherwise well linked.
LEMMA TornShape ==
  ASSUME NEW t \in Seq(Line), NEW l \in Line, WalkChain(t), l.kind = "torn"
  PROVE  ChainShape(Append(t, l))
<1>1. \A k \in 1..Len(t) : LinkOK(Append(t, l), k)
  BY DEF WalkChain, LinkOK, Prev
<1> QED BY <1>1 DEF ChainShape

\* Behind a verified chain "ab" starts a new line.
LEMMA AppendIsAppend ==
  ASSUME NEW t \in Seq(Line), NEW l \in Line, WalkChain(t)
  PROVE  AppendBytes(t, l) = Append(t, l)
BY DEF AppendBytes, WalkChain, LinkOK

\* First uses depend on the configs of the lines only.
LEMMA SameFirst ==
  ASSUME NEW t, NEW u, NEW d, NEW c, NEW n \in Nat,
         \A j \in 1..n : u[j].cfg = t[j].cfg, IsFirst(d, c, t, n)
  PROVE  IsFirst(d, c, u, n)
<1>1. CASE \E j \in 1..n : t[j].cfg = c
  <2>1. d \in 1..n /\ t[d].cfg = c /\ \A j \in 1..(d - 1) : t[j].cfg # c
    BY <1>1 DEF IsFirst
  <2>2. \A j \in 1..(d - 1) : j \in 1..n
    BY <2>1
  <2> QED BY <1>1, <2>1, <2>2 DEF IsFirst
<1>2. CASE ~\E j \in 1..n : t[j].cfg = c
  BY <1>2 DEF IsFirst
<1> QED BY <1>1, <1>2

\* migrate_legacy turns a legacy file into a verified chain with the same
\* trials in the same order.
LEMMA MigratedOK ==
  ASSUME NEW t \in Seq(Line), NEW n \in Nat, LegacyFile(t), DupShape(t)
  PROVE  /\ Migrated(t, n) \in Seq(Line) /\ Len(Migrated(t, n)) = Len(t)
         /\ WalkChain(Migrated(t, n)) /\ DupShape(Migrated(t, n))
<1> DEFINE m == Migrated(t, n)
<1>1. \A k \in 1..Len(t) : t[k] \in Line
  OBVIOUS
<1>2. \A k \in 1..Len(t) :
        /\ m[k] \in Line
        /\ m[k].sha = n + k /\ m[k].id = t[k].id /\ m[k].kind = "chained"
        /\ m[k].prev = (IF k = 1 THEN Genesis ELSE n + k - 1)
        /\ m[k].dup = t[k].dup /\ m[k].cfg = t[k].cfg
  BY <1>1 DEF Migrated, Line, Kinds, Genesis
<1>3. m \in Seq(Line) /\ Len(m) = Len(t)
  <2>1. m \in [1..Len(t) -> Line]
    BY <1>2 DEF Migrated
  <2> QED BY <2>1
<1> HIDE DEF m
<1>4. WalkChain(m)
  <2>1. SUFFICES ASSUME NEW k \in 1..Len(t) PROVE LinkOK(m, k)
    BY <1>3 DEF WalkChain
  <2>2. m[k].kind = "chained" /\ m[k].id = k
    BY <1>2 DEF LegacyFile
  <2>3. CASE k = 1
    BY <1>2, <2>2, <2>3 DEF LinkOK, Prev
  <2>4. CASE k # 1
    <3>1. k - 1 \in 1..Len(t)
      BY <2>4
    <3>2. m[k - 1].sha = n + (k - 1) /\ m[k].prev = n + k - 1
      BY <1>2, <2>4, <3>1
    <3> QED BY <2>2, <2>4, <3>2 DEF LinkOK, Prev
  <2> QED BY <2>3, <2>4
<1>5. DupShape(m)
  <2>1. SUFFICES ASSUME NEW k \in 1..Len(t)
                 PROVE  IsFirst(m[k].dup, m[k].cfg, m, k - 1)
    BY <1>3 DEF DupShape
  <2>2. IsFirst(t[k].dup, t[k].cfg, t, k - 1)
    BY DEF DupShape, LegacyFile
  <2>3. k - 1 \in Nat /\ \A j \in 1..(k - 1) : m[j].cfg = t[j].cfg
    BY <1>2
  <2>4. m[k].dup = t[k].dup /\ m[k].cfg = t[k].cfg
    BY <1>2
  <2> QED BY <2>2, <2>3, <2>4, SameFirst
<1> QED BY <1>3, <1>4, <1>5 DEF m

\* A writer that remembers a legacy file remembers nothing of it.
LEMMA LegacyKnows ==
  ASSUME NEW t \in Seq(Line), NEW u \in Seq(Line), LegacyFile(t), Len(u) = Len(t),
         NEW w \in Writer \cup {NoWriter}, NEW d, Knows(w, d, t)
  PROVE  Knows(w, d, u)
<1>1. SUFFICES ASSUME w # NoWriter PROVE Knows(w, d, u)
  BY DEF Knows
<1>2. w.count = 0
  BY <1>1 DEF Knows, LegacyFile, Writer
<1> QED BY <1>1, <1>2 DEF Knows, IsFirst

\* A legacy file has acknowledged nothing.
LEMMA LegacyAcked ==
  ASSUME NEW t \in Seq(Line), LegacyFile(t), NEW A, AckedIn(A, t)
  PROVE  A = {}
BY DEF AckedIn, LegacyFile

\* After the commit the writer knows the whole file.
LEMMA CommitKnows ==
  ASSUME NEW t \in Seq(Line), NEW w \in Writer, NEW d \in [Configs -> Nat], NEW a \in Configs,
         WalkChain(t), w.count + 1 = Len(t), t[Len(t)].cfg = a, Knows(w, d, t),
         NEW v \in Writer, v.count = Len(t)
  PROVE  Knows(v, [d EXCEPT ![a] = IF d[a] = NoDup THEN Len(t) ELSE d[a]], t)
<1> DEFINE e == [d EXCEPT ![a] = IF d[a] = NoDup THEN Len(t) ELSE d[a]]
<1>1. w # NoWriter /\ v # NoWriter
  BY DEF Writer, NoWriter
<1>2. \A c \in Configs : IsFirst(d[c], c, t, w.count)
  BY <1>1 DEF Knows
<1>3. w.count \in Nat /\ Len(t) \in Nat /\ Len(t) = w.count + 1
  BY DEF Writer
<1>4. \A c \in Configs : IsFirst(e[c], c, t, Len(t))
  <2> TAKE c \in Configs
  <2>1. CASE c # a
    BY <1>2, <1>3, <2>1 DEF IsFirst
  <2>2. CASE c = a /\ d[a] = NoDup
    <3>1. ~\E j \in 1..w.count : t[j].cfg = a
      BY <1>2, <1>3, <2>2 DEF IsFirst, NoDup
    <3> QED BY <1>3, <2>2, <3>1 DEF IsFirst
  <2>3. CASE c = a /\ d[a] # NoDup
    BY <1>2, <1>3, <2>3 DEF IsFirst
  <2> QED BY <2>1, <2>2, <2>3
<1>5. \A k \in 1..Len(t) : t[k].kind = "chained"
  BY DEF WalkChain, LinkOK
<1> QED BY <1>1, <1>3, <1>4, <1>5 DEF Knows

-----------------------------------------------------------------------------

\* A step of i touches the memory of no other instance.
Alone(i) ==
  /\ pc' \in [Inst -> PCs] /\ op' \in [Inst -> Ops] /\ arg' \in [Inst -> Configs]
  /\ \A j \in Inst : j # i =>
       /\ pc'[j] = pc[j] /\ op'[j] = op[j] /\ arg'[j] = arg[j] /\ seen'[j] = seen[j]
       /\ writer'[j] = writer[j] /\ dupMap'[j] = dupMap[j]

\* Continuing an operation, or ending it, makes nobody else a writer.
LEMMA StillOneWriter ==
  ASSUME OneWriter, NEW i \in Inst, Alone(i), Busy(i), op' = op
  PROVE  OneWriter'
BY DEF OneWriter, Alone, Writing, Busy

\* A step that leaves the trials file alone has only i's own facts to show.
LEMMA Frame ==
  ASSUME IInv, NEW i \in Inst, TypeOK', OneWriter', Alone(i), Local(i)',
         UNCHANGED <<lines, size, edits, acked>>
  PROVE  IInv'
<1>1. ASSUME NEW j \in Inst, j # i PROVE Local(j)'
  BY <1>1 DEF IInv, Alone, Local
<1> QED BY <1>1 DEF IInv

\* An operation that begins keeps the invariant.
LEMMA EnterInv ==
  ASSUME IInv, NEW i \in Inst, NEW o \in Ops, NEW l \in PCs, Free(i), Enter(i, o, l),
         o \in WriteOps => \A j \in Inst : ~Writing(j),
         arg' \in [Inst -> Configs], \A j \in Inst : j # i => arg'[j] = arg[j],
         \/ l = "read_cache" /\ o \in {"query", "record"}
         \/ l = "warm_cache" /\ o = "record" /\ writer[i] # NoWriter
         \/ l = "rb_walk" /\ o = "rebuild"
         \/ l = "mg_read" /\ o = "migrate"
  PROVE  IInv'
<1>1. TypeOK'
  BY DEF IInv, TypeOK, Enter, Looked, file, Results
<1>2. Alone(i)
  BY <1>1 DEF IInv, TypeOK, Enter, Alone, file
<1>3. OneWriter'
  BY <1>2 DEF IInv, TypeOK, OneWriter, Alone, Writing, Busy, Enter
<1>4. Local(i)'
  BY DEF IInv, TypeOK, Enter, Local, LocalOK, file
<1> QED BY <1>1, <1>2, <1>3, <1>4, Frame DEF Enter, file

\* So does each of the four operations.
LEMMA BeginInv ==
  ASSUME IInv, ExclusiveWriters, NEW i \in Inst,
         \/ \E c \in Configs : RecordTrial(i, c)
         \/ Query(i) \/ RebuildIndex(i) \/ MigrateLegacy(i)
  PROVE  IInv'
<1>1. CASE \E c \in Configs : RecordTrial(i, c)
  <2>1. PICK c \in Configs : RecordTrial(i, c)
    BY <1>1
  <2>2. arg' \in [Inst -> Configs] /\ \A j \in Inst : j # i => arg'[j] = arg[j]
    BY <2>1 DEF RecordTrial, IInv, TypeOK
  <2>3. CASE writer[i] = NoWriter
    BY <2>1, <2>2, <2>3, EnterInv DEF RecordTrial, MayWrite, Ops, WriteOps, PCs
  <2>4. CASE writer[i] # NoWriter
    BY <2>1, <2>2, <2>4, EnterInv DEF RecordTrial, MayWrite, Ops, WriteOps, PCs
  <2> QED BY <2>3, <2>4
<1>2. CASE Query(i)
  BY <1>2, EnterInv DEF Query, IInv, TypeOK, Ops, WriteOps, PCs
<1>3. CASE RebuildIndex(i)
  BY <1>3, EnterInv DEF RebuildIndex, MayWrite, IInv, TypeOK, Ops, WriteOps, PCs
<1>4. CASE MigrateLegacy(i)
  BY <1>4, EnterInv DEF MigrateLegacy, MayWrite, IInv, TypeOK, Ops, WriteOps, PCs
<1> QED BY <1>1, <1>2, <1>3, <1>4

\* Ending an operation with no change to the file or the writer's memory.
LEMMA EndInv ==
  ASSUME IInv, NEW i \in Inst, NEW r \in Results, Busy(i), End(i, r),
         UNCHANGED <<file, op, arg, writer, dupMap, history>>
  PROVE  IInv'
<1>1. TypeOK'
  BY DEF IInv, TypeOK, End, file, history, PCs
<1>2. Alone(i)
  BY <1>1 DEF IInv, TypeOK, End, Alone
<1>3. OneWriter'
  BY <1>2, StillOneWriter DEF IInv
<1>4. Local(i)'
  BY DEF IInv, TypeOK, End, Local, LocalOK, file
<1> QED BY <1>1, <1>2, <1>3, <1>4, Frame DEF file, history

\* Reading the cache keeps the invariant.
LEMMA ReadCacheInv ==
  ASSUME IInv, NEW i \in Inst, ReadCache(i)
  PROVE  IInv'
<1> USE DEF file, history
<1>1. Busy(i)
  BY DEF ReadCache, Busy
<1>2. CASE End(i, "tampered") \/ End(i, "ok")
  <2>1. UNCHANGED <<writer, dupMap>>
    BY <1>2 DEF ReadCache, End, Goto, Tampered, IInv, TypeOK
  <2> QED BY <1>1, <1>2, <2>1, EndInv DEF ReadCache, Results
<1>3. CASE index # NoCache /\ seen' = [seen EXCEPT ![i] = index]
           /\ Goto(i, "check_size") /\ UNCHANGED <<writer, dupMap>>
  <2>1. TypeOK'
    BY <1>3 DEF IInv, TypeOK, ReadCache, Goto, PCs
  <2>2. Alone(i)
    BY <1>3, <2>1 DEF IInv, TypeOK, ReadCache, Goto, Alone
  <2>3. OneWriter'
    BY <1>1, <2>2, StillOneWriter DEF IInv, ReadCache
  <2>4. Local(i)'
    BY <1>3 DEF IInv, TypeOK, ReadCache, Goto, Local, LocalOK
  <2> QED BY <2>1, <2>2, <2>3, <2>4, Frame DEF ReadCache
<1>4. CASE /\ index = NoCache /\ size = 0 /\ op[i] = "record"
           /\ Goto(i, "append") /\ UNCHANGED seen
           /\ writer' = [writer EXCEPT ![i] = EmptyWriter]
           /\ dupMap' = [dupMap EXCEPT ![i] = [c \in Configs |-> NoDup]]
  <2>1. TypeOK'
    BY <1>4 DEF IInv, TypeOK, ReadCache, Goto, PCs, EmptyWriter, Writer, NoSha, NoDup
  <2>2. Alone(i)
    BY <1>4, <2>1 DEF IInv, TypeOK, ReadCache, Goto, Alone
  <2>3. OneWriter'
    BY <1>1, <2>2, StillOneWriter DEF IInv, ReadCache
  <2>4. lines' = <<>> /\ lines = <<>>
    BY <1>4 DEF IInv, FileOK, ReadCache
  <2>5. pc'[i] = "append" /\ op'[i] = "record" /\ writer'[i] = EmptyWriter
        /\ dupMap'[i] = [c \in Configs |-> NoDup]
    BY <1>4 DEF IInv, TypeOK, ReadCache, Goto
  <2>6. Local(i)'
    BY <2>4, <2>5 DEF Local, LocalOK, EmptyWriter, NoWriter, WalkChain, TailSha, Knows,
                      IsFirst
  <2> QED BY <2>1, <2>2, <2>3, <2>6, Frame DEF ReadCache
<1> QED BY <1>2, <1>3, <1>4 DEF ReadCache, Tampered

\* Comparing the size of the file with the cache keeps the invariant.
LEMMA CheckSizeInv ==
  ASSUME IInv, NEW i \in Inst, CheckSize(i)
  PROVE  IInv'
<1> USE DEF file, history
<1>1. Busy(i)
  BY DEF CheckSize, Busy
<1>2. CASE End(i, "tampered")
  BY <1>1, <1>2, EndInv DEF CheckSize, Results
<1>3. CASE Goto(i, "walk") /\ UNCHANGED seen
  <2>1. TypeOK'
    BY <1>3 DEF IInv, TypeOK, CheckSize, Goto, PCs
  <2>2. Alone(i)
    BY <1>3, <2>1 DEF IInv, TypeOK, CheckSize, Goto, Alone
  <2>3. OneWriter'
    BY <1>1, <2>2, StillOneWriter DEF IInv, CheckSize
  <2>4. Local(i)'
    BY <1>3 DEF IInv, TypeOK, CheckSize, Goto, Local, LocalOK
  <2> QED BY <2>1, <2>2, <2>3, <2>4, Frame DEF CheckSize
<1> QED BY <1>2, <1>3 DEF CheckSize, Tampered

\* The walk over the file keeps the invariant.
LEMMA WalkInv ==
  ASSUME IInv, NEW i \in Inst, Walk(i)
  PROVE  IInv'
<1> USE DEF file, history
<1>1. Busy(i)
  BY DEF Walk, Busy
<1>2. CASE (End(i, "tampered") \/ End(i, "ok")) /\ UNCHANGED <<writer, dupMap>>
  BY <1>1, <1>2, EndInv DEF Walk, Results
<1>3. CASE /\ Verified(lines, seen[i]) /\ op[i] = "record"
           /\ Goto(i, "append") /\ UNCHANGED seen
           /\ writer' = [writer EXCEPT ![i] = WriterOf(lines, size)]
           /\ dupMap' = [dupMap EXCEPT ![i] = [c \in Configs |-> FirstUse(lines, c)]]
  <2>1. lines \in Seq(Line) /\ size \in Nat /\ FileOK(lines, size) /\ WalkChain(lines)
    BY <1>3 DEF IInv, TypeOK, Verified
  <2>2. lines # <<>> => lines[Len(lines)] \in Line
    BY <2>1
  <2>3. WriterOf(lines, size) \in Writer
    BY <2>1, <2>2 DEF WriterOf, EmptyWriter, Writer, TailSha, Line, NoSha
  <2>4. \A c \in Configs : FirstUse(lines, c) \in Nat
                           /\ IsFirst(FirstUse(lines, c), c, lines, Len(lines))
    BY <2>1, FirstUseIsFirst
  <2>5. TypeOK'
    BY <1>3, <2>3, <2>4 DEF IInv, TypeOK, Walk, Goto, PCs
  <2>6. Alone(i)
    BY <1>3, <2>5 DEF IInv, TypeOK, Walk, Goto, Alone
  <2>7. OneWriter'
    BY <1>1, <2>6, StillOneWriter DEF IInv, Walk
  <2>8. /\ pc'[i] = "append" /\ op'[i] = "record" /\ writer'[i] = WriterOf(lines, size)
        /\ dupMap'[i] = [c \in Configs |-> FirstUse(lines, c)] /\ lines' = lines
    BY <1>3 DEF IInv, TypeOK, Walk, Goto
  <2>9. WriterOf(lines, size).count = Len(lines) /\ WriterOf(lines, size).tail = TailSha(lines)
        /\ (Len(lines) = 0 => /\ WriterOf(lines, size).size = 0
                              /\ WriterOf(lines, size).tail = NoSha)
    BY <2>1 DEF WriterOf, EmptyWriter, TailSha
  <2>10. Knows(writer'[i], dupMap'[i], lines)
    <3>1. \A k \in 1..Len(lines) : lines[k].kind = "chained"
      BY <2>1 DEF WalkChain, LinkOK
    <3> QED BY <2>1, <2>4, <2>8, <2>9, <3>1 DEF Knows
  <2>11. Local(i)'
    BY <2>1, <2>3, <2>8, <2>9, <2>10 DEF Local, LocalOK, Writer, NoWriter
  <2> QED BY <2>5, <2>6, <2>7, <2>11, Frame DEF Walk
<1> QED BY <1>2, <1>3 DEF Walk, Tampered

\* The check of the cache by a warm writer keeps the invariant.
LEMMA WarmCacheInv ==
  ASSUME IInv, NEW i \in Inst, WarmCache(i)
  PROVE  IInv'
<1> USE DEF file, history
<1>1. Busy(i)
  BY DEF WarmCache, Busy
<1>2. CASE End(i, "tampered")
  BY <1>1, <1>2, EndInv DEF WarmCache, Results
<1>3. CASE Goto(i, "warm_file") /\ UNCHANGED seen
  <2>1. TypeOK'
    BY <1>3 DEF IInv, TypeOK, WarmCache, Goto, PCs
  <2>2. Alone(i)
    BY <1>3, <2>1 DEF IInv, TypeOK, WarmCache, Goto, Alone
  <2>3. OneWriter'
    BY <1>1, <2>2, StillOneWriter DEF IInv, WarmCache
  <2>4. Local(i)'
    BY <1>3 DEF IInv, TypeOK, WarmCache, Goto, Local, LocalOK
  <2> QED BY <2>1, <2>2, <2>3, <2>4, Frame DEF WarmCache
<1> QED BY <1>2, <1>3 DEF WarmCache, Tampered

\* The warm preflight looks at the tail only, yet on a file of the registry's
\* shape it establishes the whole chain and that nothing was added.
LEMMA WarmIsEnough ==
  ASSUME NEW t \in Seq(Line), NEW z \in Nat, NEW w \in Writer, FileOK(t, z),
         w.count = 0 => w.size = 0, WarmTailOK(t, z, w), NEW d, Knows(w, d, t)
  PROVE  WalkChain(t) /\ w.count = Len(t) /\ (w.count > 0 => w.tail = TailSha(t))
<1>1. CASE w.count = 0
  <2>1. t = <<>>
    BY <1>1 DEF FileOK, WarmTailOK
  <2> QED BY <1>1, <2>1 DEF WalkChain
<1>2. CASE w.count > 0
  <2>1. /\ t # <<>> /\ t[Len(t)].kind = "chained" /\ t[Len(t)].sha = w.tail
        /\ t[Len(t)].id = w.count
    BY <1>2 DEF WarmTailOK
  <2>2. Len(t) \in 1..Len(t)
    BY <2>1
  <2>3. ~LegacyFile(t)
    BY <2>1, <2>2 DEF LegacyFile
  <2>4. \A k \in 1..Len(t) : LinkOK(t, k)
    BY <2>1, <2>3 DEF FileOK, ChainShape
  <2>5. w.count = Len(t)
    BY <2>1, <2>2, <2>4 DEF LinkOK
  <2> QED BY <2>1, <2>4, <2>5 DEF WalkChain, TailSha
<1> QED BY <1>1, <1>2 DEF Writer

\* The check of the file by a warm writer keeps the invariant.
LEMMA WarmFileInv ==
  ASSUME IInv, NEW i \in Inst, WarmFile(i)
  PROVE  IInv'
<1> USE DEF file, history
<1>1. Busy(i)
  BY DEF WarmFile, Busy
<1>2. CASE End(i, "tampered")
  BY <1>1, <1>2, EndInv DEF WarmFile, Results
<1>3. CASE WarmTailOK(lines, size, writer[i]) /\ Goto(i, "append") /\ UNCHANGED seen
  <2>1. TypeOK'
    BY <1>3 DEF IInv, TypeOK, WarmFile, Goto, PCs
  <2>2. Alone(i)
    BY <1>3, <2>1 DEF IInv, TypeOK, WarmFile, Goto, Alone
  <2>3. OneWriter'
    BY <1>1, <2>2, StillOneWriter DEF IInv, WarmFile
  <2>4. /\ lines \in Seq(Line) /\ size \in Nat /\ FileOK(lines, size)
        /\ writer[i] \in Writer /\ op[i] = "record"
        /\ Knows(writer[i], dupMap[i], lines) /\ (writer[i].count = 0 => writer[i].size = 0)
    BY DEF IInv, TypeOK, WarmFile, Local, LocalOK, Knows
  <2>5. /\ WalkChain(lines) /\ writer[i].count = Len(lines)
        /\ writer[i].count > 0 => writer[i].tail = TailSha(lines)
    BY <1>3, <2>4, WarmIsEnough
  <2>6. writer[i].count = 0 => writer[i].tail = TailSha(lines)
    <3>1. writer[i] # NoWriter
      BY <2>4 DEF Writer, NoWriter
    <3>2. writer[i].count = 0 => writer[i].tail = NoSha
      BY <2>4, <3>1 DEF Knows
    <3>3. writer[i].count = 0 => lines = <<>>
      BY <2>4, <2>5, LenZero
    <3> QED BY <3>2, <3>3 DEF TailSha
  <2>7. /\ pc'[i] = "append" /\ op'[i] = "record" /\ writer'[i] = writer[i]
        /\ dupMap'[i] = dupMap[i] /\ lines' = lines
    BY <1>3, <2>4 DEF IInv, TypeOK, WarmFile, Goto
  <2>8. Local(i)'
    BY <2>4, <2>5, <2>6, <2>7 DEF Local, LocalOK, Writer, NoWriter
  <2> QED BY <2>1, <2>2, <2>3, <2>8, Frame DEF WarmFile
<1> QED BY <1>2, <1>3 DEF WarmFile, Tampered

\* With one writer at a time, nobody else is inside a write while i writes.
LEMMA OthersRead ==
  ASSUME IInv, NEW i \in Inst, Writing(i), NEW j \in Inst, j # i
  PROVE  pc[j] \in {"idle", "read_cache", "check_size", "walk"}
<1>1. pc[j] \in PCs /\ Local(j) /\ ~Writing(j)
  BY DEF IInv, TypeOK, OneWriter
<1> QED BY <1>1 DEF Local, LocalOK, Writing, Busy, WriteOps, PCs

\* What j relies on survives an append made by i.
LEMMA OthersGrow ==
  ASSUME IInv, NEW i \in Inst, Writing(i), NEW j \in Inst, j # i, Alone(i),
         NEW l \in Line, lines' = Append(lines, l)
  PROVE  Local(j)'
<1>1. pc[j] \in {"idle", "read_cache", "check_size", "walk"}
  BY OthersRead
<1>2. Knows(writer[j], dupMap[j], lines) /\ writer[j] \in Writer \cup {NoWriter}
  BY DEF IInv, Local, LocalOK, TypeOK
<1>3. Knows(writer[j], dupMap[j], Append(lines, l))
  BY <1>2, GrowKnows DEF IInv, TypeOK
<1> QED BY <1>1, <1>3 DEF IInv, Alone, Local, LocalOK

\* The line an instance at "append" is about to write.
LEMMA NewLineOK ==
  ASSUME IInv, NEW i \in Inst, pc[i] = "append"
  PROVE  /\ WalkChain(lines) /\ Writing(i)
         /\ writer[i] \in Writer /\ writer[i].count = Len(lines)
         /\ NewLine(i) \in Line
         /\ NewLine(i).kind = "chained" /\ NewLine(i).id = Len(lines) + 1
         /\ NewLine(i).sha = nextSha /\ NewLine(i).cfg = arg[i]
         /\ NewLine(i).prev = (IF TailSha(lines) = NoSha THEN Genesis ELSE TailSha(lines))
         /\ IsFirst(NewLine(i).dup, NewLine(i).cfg, lines, Len(lines))
<1>1. /\ Local(i) /\ writer[i] \in Writer \cup {NoWriter} /\ dupMap[i] \in [Configs -> Nat]
      /\ arg[i] \in Configs /\ nextSha \in Nat /\ lines \in Seq(Line)
  BY DEF IInv, TypeOK
<1>2. /\ op[i] = "record" /\ writer[i] # NoWriter /\ WalkChain(lines)
      /\ writer[i].count = Len(lines) /\ writer[i].tail = TailSha(lines)
      /\ Knows(writer[i], dupMap[i], lines)
  BY <1>1 DEF Local, LocalOK
<1>3. writer[i] \in Writer
  BY <1>1, <1>2
<1>4. IsFirst(dupMap[i][arg[i]], arg[i], lines, Len(lines))
  BY <1>1, <1>2 DEF Knows
<1>5. NewLine(i) \in Line
  BY <1>1, <1>3 DEF NewLine, Line, Writer, Kinds, Genesis, NoSha
<1> QED BY <1>1, <1>2, <1>3, <1>4, <1>5 DEF NewLine, Writing, Busy, WriteOps

\* Appending the new line keeps the invariant.
LEMMA AppendLineInv ==
  ASSUME IInv, NEW i \in Inst, AppendLine(i)
  PROVE  IInv'
<1> DEFINE l == NewLine(i)
<1>1. /\ WalkChain(lines) /\ Writing(i) /\ Busy(i)
      /\ writer[i] \in Writer /\ writer[i].count = Len(lines) /\ lines \in Seq(Line)
      /\ l \in Line /\ l.kind = "chained" /\ l.id = Len(lines) + 1
      /\ l.sha = nextSha /\ l.cfg = arg[i]
      /\ l.prev = (IF TailSha(lines) = NoSha THEN Genesis ELSE TailSha(lines))
      /\ IsFirst(l.dup, l.cfg, lines, Len(lines))
  BY NewLineOK DEF AppendLine, Writing, IInv, TypeOK
<1> HIDE DEF l
<1>2. lines' = Append(lines, l) /\ lines' \in Seq(Line) /\ Len(lines') = Len(lines) + 1
  <2>1. lines' = AppendBytes(lines, l)
    BY DEF AppendLine, l
  <2>2. lines' = Append(lines, l)
    BY <1>1, <2>1, AppendIsAppend
  <2> QED BY <1>1, <2>2
<1>3. TypeOK'
  <2>1. /\ size' \in Nat /\ nextSha' \in Nat
        /\ [count |-> writer[i].count + 1, size |-> writer[i].size + LineBytes,
            tail |-> nextSha] \in Cache
    BY <1>1 DEF AppendLine, IInv, TypeOK, LineBytes, Cache, Writer
  <2>2. seen' \in [Inst -> Cache \cup {NoCache}]
    BY <2>1 DEF AppendLine, IInv, TypeOK
  <2> QED BY <1>2, <2>1, <2>2 DEF AppendLine, OthersStale, Goto, IInv, TypeOK, PCs
<1>4. Alone(i)
  BY <1>3 DEF AppendLine, Goto, Alone, IInv, TypeOK
<1>5. OneWriter'
  BY <1>1, <1>4, StillOneWriter DEF AppendLine, IInv
<1>6. WalkChain(lines') /\ TailSha(lines') = nextSha
  BY <1>1, <1>2, GrowChain
<1>7. FileOK(lines', size')
  <2>1. DupShape(lines')
    BY <1>1, <1>2, GrowDup DEF IInv, FileOK
  <2>2. size' > 0
    BY DEF AppendLine, IInv, TypeOK, LineBytes
  <2>3. ChainShape(lines')
    BY <1>2, <1>6, ChainIsShape
  <2> QED BY <2>1, <2>2, <2>3 DEF FileOK
<1>8. AckedIn(acked', lines')
  BY <1>1, <1>2, GrowAcked DEF AppendLine, IInv
<1>9. Local(i)'
  <2>1. Knows(writer[i], dupMap[i], lines')
    BY <1>1, <1>2, GrowKnows DEF IInv, Local, LocalOK
  <2>2. /\ pc'[i] = "write_cache" /\ op'[i] = op[i] /\ op[i] = "record" /\ arg'[i] = arg[i]
        /\ writer'[i] = writer[i] /\ dupMap'[i] = dupMap[i] /\ writer[i] # NoWriter
        /\ seen'[i].count = writer[i].count + 1 /\ seen'[i].tail = nextSha
    BY DEF AppendLine, Goto, IInv, TypeOK, Local, LocalOK
  <2>3. lines'[Len(lines')].cfg = arg[i]
    BY <1>1, <1>2
  <2> QED BY <1>1, <1>2, <1>6, <2>1, <2>2, <2>3 DEF Local, LocalOK
<1>10. ASSUME NEW j \in Inst, j # i PROVE Local(j)'
  BY <1>1, <1>2, <1>4, <1>10, OthersGrow
<1> QED BY <1>3, <1>5, <1>7, <1>8, <1>9, <1>10 DEF IInv, AppendLine

\* Writing the cache and acknowledging the trial keeps the invariant.
LEMMA WriteCacheInv ==
  ASSUME IInv, NEW i \in Inst, WriteCache(i)
  PROVE  IInv'
<1>1. /\ Busy(i) /\ lines \in Seq(Line) /\ WalkChain(lines) /\ arg[i] \in Configs
      /\ dupMap[i] \in [Configs -> Nat] /\ writer[i] \in Writer
      /\ seen[i] \in Cache \cup {NoCache}
      /\ seen[i].count = Len(lines) /\ seen[i].tail = TailSha(lines)
      /\ writer[i].count + 1 = Len(lines) /\ lines[Len(lines)].cfg = arg[i]
      /\ Knows(writer[i], dupMap[i], lines)
  BY DEF WriteCache, Busy, IInv, TypeOK, Local, LocalOK
<1>2. Len(lines) \in 1..Len(lines) /\ lines # <<>> /\ TailSha(lines) = lines[Len(lines)].sha
      /\ lines[Len(lines)].kind = "chained"
  BY <1>1 DEF TailSha, WalkChain, LinkOK, Writer
<1>3. seen[i] \in Cache
  BY <1>1 DEF NoCache
<1> DEFINE v == [count |-> seen[i].count, size |-> seen[i].size, tail |-> seen[i].tail,
                 prev |-> IF writer[i].tail = NoSha THEN Genesis ELSE writer[i].tail]
           e == [dupMap[i] EXCEPT ![arg[i]] = IF dupMap[i][arg[i]] = NoDup THEN Len(lines)
                                              ELSE dupMap[i][arg[i]]]
<1>4. v \in Writer /\ v.count = Len(lines) /\ e \in [Configs -> Nat]
  BY <1>1, <1>3 DEF Cache, Writer, Genesis
<1>5. writer' = [writer EXCEPT ![i] = v] /\ dupMap' = [dupMap EXCEPT ![i] = e]
  BY <1>1 DEF WriteCache, Remember, IInv, TypeOK
<1>6. Knows(v, e, lines)
  BY <1>1, <1>4, CommitKnows
<1> HIDE DEF v, e
<1>7. acked' = acked \cup {<<Len(lines), lines[Len(lines)].sha>>}
  BY <1>1, <1>2 DEF WriteCache
<1>8. TypeOK'
  <2>1. lines[Len(lines)].sha \in Nat
    <3>1. lines[Len(lines)] \in Line
      BY <1>1, <1>2
    <3> QED BY <3>1 DEF Line
  <2>2. acked' \subseteq Nat \X (Nat \cup {NoSha})
    BY <1>1, <1>7, <2>1 DEF IInv, TypeOK
  <2>3. writer' \in [Inst -> Writer \cup {NoWriter}] /\ dupMap' \in [Inst -> [Configs -> Nat]]
    BY <1>4, <1>5 DEF IInv, TypeOK
  <2>4. stale' \in [Inst -> BOOLEAN]
    BY DEF WriteCache, SelfSynced
  <2>5. pc' \in [Inst -> PCs] /\ result' \in [Inst -> Results]
        /\ seen' \in [Inst -> Cache \cup {NoCache}] /\ index' \in Cache \cup {NoCache}
    BY <1>3 DEF WriteCache, End, IInv, TypeOK, PCs, Results
  <2> QED BY <2>2, <2>3, <2>4, <2>5 DEF WriteCache, IInv, TypeOK
<1>9. Alone(i)
  BY <1>5, <1>8 DEF WriteCache, End, Alone, IInv, TypeOK
<1>10. OneWriter'
  BY <1>1, <1>9, StillOneWriter DEF WriteCache, IInv
<1>11. AckedIn(acked', lines)
  BY <1>2, <1>7 DEF AckedIn, IInv
<1>12. Local(i)'
  <2>1. pc'[i] = "idle" /\ writer'[i] = v /\ dupMap'[i] = e /\ lines' = lines
    BY <1>5 DEF WriteCache, End, IInv, TypeOK
  <2> QED BY <1>6, <2>1 DEF Local, LocalOK
<1>13. ASSUME NEW j \in Inst, j # i PROVE Local(j)'
  BY <1>9, <1>13 DEF WriteCache, Alone, Local, IInv
<1> QED BY <1>8, <1>10, <1>11, <1>12, <1>13 DEF IInv, WriteCache

\* The walk of a rebuild keeps the invariant.
LEMMA RebuildWalkInv ==
  ASSUME IInv, NEW i \in Inst, RebuildWalk(i)
  PROVE  IInv'
<1> USE DEF file, history
<1>1. Busy(i)
  BY DEF RebuildWalk, Busy
<1>2. CASE End(i, "tampered")
  BY <1>1, <1>2, EndInv DEF RebuildWalk, Results
<1>3. CASE /\ seen' = [seen EXCEPT ![i] = CacheOf(WriterOf(lines, size))]
           /\ Goto(i, "rb_write")
  <2>1. CacheOf(WriterOf(lines, size)) \in Cache
    <3>1. lines # <<>> => lines[Len(lines)] \in Line
      BY DEF IInv, TypeOK
    <3>2. lines \in Seq(Line) /\ size \in Nat
      BY DEF IInv, TypeOK
    <3> QED BY <3>1, <3>2 DEF CacheOf, WriterOf, EmptyWriter, Cache, TailSha, Line, NoSha
  <2>2. TypeOK'
    BY <1>3, <2>1 DEF IInv, TypeOK, RebuildWalk, Goto, PCs
  <2>3. Alone(i)
    BY <1>3, <2>2 DEF IInv, TypeOK, RebuildWalk, Goto, Alone
  <2>4. OneWriter'
    BY <1>1, <2>3, StillOneWriter DEF IInv, RebuildWalk
  <2>5. Local(i)'
    BY <1>3 DEF IInv, TypeOK, RebuildWalk, Goto, Local, LocalOK
  <2> QED BY <2>2, <2>3, <2>4, <2>5, Frame DEF RebuildWalk
<1> QED BY <1>2, <1>3 DEF RebuildWalk, Tampered

\* Writing the rebuilt cache keeps the invariant.
LEMMA RebuildWriteInv ==
  ASSUME IInv, NEW i \in Inst, RebuildWrite(i)
  PROVE  IInv'
<1>1. TypeOK'
  BY DEF IInv, TypeOK, RebuildWrite, SelfSynced, End, PCs, Results, NoDup
<1>2. Alone(i)
  BY <1>1 DEF IInv, TypeOK, RebuildWrite, End, Alone
<1>3. OneWriter'
  BY <1>2, StillOneWriter DEF IInv, RebuildWrite, Busy
<1>4. Local(i)'
  BY DEF IInv, TypeOK, RebuildWrite, End, Local, LocalOK, Knows
<1> QED BY <1>1, <1>2, <1>3, <1>4, Frame DEF RebuildWrite

\* Reading the legacy file keeps the invariant.
LEMMA MigrateReadInv ==
  ASSUME IInv, NEW i \in Inst, MigrateRead(i)
  PROVE  IInv'
<1> USE DEF file, history
<1>1. Busy(i)
  BY DEF MigrateRead, Busy
<1>2. CASE End(i, "refused") \/ End(i, "tampered")
  BY <1>1, <1>2, EndInv DEF MigrateRead, Results
<1>3. CASE LegacyFile(lines) /\ Goto(i, "mg_replace") /\ UNCHANGED seen
  <2>1. TypeOK'
    BY <1>3 DEF IInv, TypeOK, MigrateRead, Goto, PCs
  <2>2. Alone(i)
    BY <1>3, <2>1 DEF IInv, TypeOK, MigrateRead, Goto, Alone
  <2>3. OneWriter'
    BY <1>1, <2>2, StillOneWriter DEF IInv, MigrateRead
  <2>4. Local(i)'
    BY <1>3 DEF IInv, TypeOK, MigrateRead, Goto, Local, LocalOK
  <2> QED BY <2>1, <2>2, <2>3, <2>4, Frame DEF MigrateRead
<1> QED BY <1>2, <1>3 DEF MigrateRead, Tampered

\* Replacing the legacy file by the migrated chain keeps the invariant.
LEMMA MigrateReplaceInv ==
  ASSUME IInv, NEW i \in Inst, MigrateReplace(i)
  PROVE  IInv'
<1>1. /\ lines \in Seq(Line) /\ nextSha \in Nat /\ LegacyFile(lines) /\ DupShape(lines)
      /\ Writing(i) /\ Busy(i) /\ op[i] = "migrate" /\ Len(lines) \in Nat
  BY DEF MigrateReplace, IInv, TypeOK, Local, LocalOK, FileOK, Writing, Busy, WriteOps
<1>2. /\ lines' \in Seq(Line) /\ Len(lines') = Len(lines)
      /\ WalkChain(lines') /\ DupShape(lines')
  BY <1>1, MigratedOK DEF MigrateReplace
<1>3. TypeOK'
  <2>1. size' \in Nat /\ nextSha' \in Nat
    BY <1>1 DEF MigrateReplace, LineBytes
  <2>2. stale' \in [Inst -> BOOLEAN]
    BY DEF IInv, TypeOK, MigrateReplace, OthersStale
  <2>3. pc' \in [Inst -> PCs] /\ result' \in [Inst -> Results]
    BY DEF IInv, TypeOK, MigrateReplace, Goto, PCs
  <2> QED BY <1>2, <2>1, <2>2, <2>3 DEF IInv, TypeOK, MigrateReplace
<1>4. Alone(i)
  BY <1>3 DEF IInv, TypeOK, MigrateReplace, Goto, Alone
<1>5. OneWriter'
  BY <1>1, <1>4, StillOneWriter DEF IInv, MigrateReplace
<1>6. FileOK(lines', size')
  <2>1. ChainShape(lines')
    BY <1>2, ChainIsShape
  <2>2. size' = 0 => Len(lines') = 0
    BY <1>1, <1>2 DEF MigrateReplace, LineBytes
  <2>3. size' = 0 => lines' = <<>>
    BY <1>2, <2>2, LenZero
  <2> QED BY <1>2, <2>1, <2>3 DEF FileOK
<1>7. AckedIn(acked', lines')
  <2>1. acked = {}
    BY <1>1, LegacyAcked DEF IInv
  <2> QED BY <2>1 DEF AckedIn, MigrateReplace
<1>8. ASSUME NEW j \in Inst PROVE Knows(writer[j], dupMap[j], lines')
  <2>1. Knows(writer[j], dupMap[j], lines) /\ writer[j] \in Writer \cup {NoWriter}
    BY DEF IInv, TypeOK, Local, LocalOK
  <2> QED BY <1>1, <1>2, <2>1, LegacyKnows
<1>9. Local(i)'
  BY <1>1, <1>8 DEF IInv, TypeOK, MigrateReplace, Goto, Local, LocalOK
<1>10. ASSUME NEW j \in Inst, j # i PROVE Local(j)'
  <2>1. pc[j] \in {"idle", "read_cache", "check_size", "walk"}
    BY <1>1, <1>10, OthersRead
  <2> QED BY <1>4, <1>8, <1>10, <2>1 DEF IInv, Alone, Local, LocalOK
<1> QED BY <1>3, <1>5, <1>6, <1>7, <1>9, <1>10 DEF IInv, MigrateReplace

\* A crash keeps the invariant, wherever it happens.
LEMMA CrashInv ==
  ASSUME IInv, NEW i \in Inst, Crash(i)
  PROVE  IInv'
<1>1. /\ pc' = [pc EXCEPT ![i] = "idle"] /\ result' = [result EXCEPT ![i] = "none"]
      /\ seen' = [seen EXCEPT ![i] = NoCache] /\ writer' = [writer EXCEPT ![i] = NoWriter]
      /\ dupMap' = [dupMap EXCEPT ![i] = [c \in Configs |-> NoDup]]
      /\ UNCHANGED <<index, op, arg, acked, edits, foreign, doctored>> /\ crashes' \in Nat
  BY DEF Crash, End, IInv, TypeOK
<1>2. Alone(i)
  BY <1>1 DEF IInv, TypeOK, Alone, PCs
<1>3. OneWriter'
  BY <1>1, <1>2 DEF IInv, OneWriter, Alone, Writing, Busy
<1>4. CASE UNCHANGED <<lines, size, nextSha, stale>>
  <2>1. TypeOK'
    BY <1>1, <1>4 DEF IInv, TypeOK, PCs, Results, NoDup
  <2>2. Local(i)'
    BY <1>1, <1>4 DEF IInv, TypeOK, Local, LocalOK, Knows
  <2> QED BY <1>1, <1>2, <1>3, <1>4, <2>1, <2>2, Frame
<1>5. CASE /\ pc[i] = "append"
           /\ lines' = AppendBytes(lines, [NewLine(i) EXCEPT !.kind = "torn"])
           /\ size' = size + TornBytes /\ nextSha' = nextSha + 1 /\ OthersStale(i)
  <2> DEFINE l == [NewLine(i) EXCEPT !.kind = "torn"]
  <2>1. lines \in Seq(Line) /\ WalkChain(lines) /\ Writing(i) /\ NewLine(i) \in Line
    BY <1>5, NewLineOK DEF IInv, TypeOK
  <2>2. l \in Line /\ l.kind = "torn"
    BY <2>1 DEF Line, Kinds
  <2> HIDE DEF l
  <2>3. lines' = Append(lines, l)
    BY <1>5, <2>1, <2>2, AppendIsAppend DEF l
  <2>4. lines' \in Seq(Line)
    BY <2>1, <2>2, <2>3
  <2>5. TypeOK'
    <3>1. size' \in Nat /\ nextSha' \in Nat
      BY <1>5 DEF IInv, TypeOK, TornBytes
    <3>2. stale' \in [Inst -> BOOLEAN]
      BY <1>5 DEF IInv, TypeOK, OthersStale
    <3>3. /\ pc' \in [Inst -> PCs] /\ result' \in [Inst -> Results]
          /\ seen' \in [Inst -> Cache \cup {NoCache}]
          /\ writer' \in [Inst -> Writer \cup {NoWriter}]
          /\ dupMap' \in [Inst -> [Configs -> Nat]]
      BY <1>1 DEF IInv, TypeOK, PCs, Results, NoDup
    <3> QED BY <1>1, <2>4, <3>1, <3>2, <3>3 DEF IInv, TypeOK
  <2>6. FileOK(lines', size')
    <3>1. ChainShape(lines')
      BY <2>1, <2>2, <2>3, TornShape
    <3>2. DupShape(lines')
      BY <2>1, <2>2, <2>3, GrowDup DEF IInv, FileOK
    <3>3. size' > 0
      BY <1>5 DEF IInv, TypeOK, TornBytes
    <3> QED BY <3>1, <3>2, <3>3 DEF FileOK
  <2>7. AckedIn(acked', lines')
    BY <1>1, <2>1, <2>2, <2>3, GrowAcked DEF IInv
  <2>8. Local(i)'
    BY <1>1 DEF IInv, TypeOK, Local, LocalOK, Knows
  <2>9. ASSUME NEW j \in Inst, j # i PROVE Local(j)'
    BY <1>2, <2>1, <2>2, <2>3, <2>9, OthersGrow
  <2> QED BY <1>1, <1>3, <2>5, <2>6, <2>7, <2>8, <2>9 DEF IInv
<1> QED BY <1>4, <1>5 DEF Crash

\* The invariant holds before the first operation.
LEMMA InitInv == Init => IInv
<1> SUFFICES ASSUME Init PROVE IInv
  OBVIOUS
<1>0. PICK n \in 0..MaxLegacy : \E f \in [1..n -> Configs] :
        /\ lines = [k \in 1..n |-> LegacyLine(f, k)]
        /\ size = n * LineBytes /\ nextSha = n + 1
  BY DEF Init
<1>1. PICK f \in [1..n -> Configs] :
        /\ lines = [k \in 1..n |-> LegacyLine(f, k)]
        /\ size = n * LineBytes /\ nextSha = n + 1
  BY <1>0
<1>2. n \in Nat
  BY BoundsAssumption
<1>3. \A k \in 1..n :
        /\ LegacyLine(f, k) \in Line
        /\ LegacyLine(f, k).cfg = f[k] /\ LegacyLine(f, k).kind = "legacy"
        /\ LegacyLine(f, k).id = k
        /\ IF \E j \in 1..(k - 1) : f[j] = f[k]
           THEN /\ LegacyLine(f, k).dup \in 1..(k - 1) /\ f[LegacyLine(f, k).dup] = f[k]
                /\ \A m \in 1..(LegacyLine(f, k).dup - 1) : f[m] # f[k]
           ELSE LegacyLine(f, k).dup = NoDup
  <2> TAKE k \in 1..n
  <2> DEFINE U == {j \in 1..(k - 1) : f[j] = f[k]}
             D == IF \E j \in 1..(k - 1) : f[j] = f[k]
                  THEN CHOOSE j \in 1..(k - 1) :
                         f[j] = f[k] /\ \A m \in 1..(j - 1) : f[m] # f[k]
                  ELSE NoDup
  <2>1. ASSUME \E j \in 1..(k - 1) : f[j] = f[k]
        PROVE  \E j \in 1..(k - 1) : f[j] = f[k] /\ \A m \in 1..(j - 1) : f[m] # f[k]
    <3>1. U # {} /\ U \subseteq Nat
      BY <2>1
    <3>2. PICK j \in U : \A m \in U : j <= m
      BY <3>1, LeastNat
    <3> QED BY <1>2, <3>2
  <2>2. IF \E j \in 1..(k - 1) : f[j] = f[k]
        THEN D \in 1..(k - 1) /\ f[D] = f[k] /\ \A m \in 1..(D - 1) : f[m] # f[k]
        ELSE D = NoDup
    BY <2>1
  <2>3. LegacyLine(f, k) = [sha |-> k, prev |-> NoSha, id |-> k, cfg |-> f[k],
                            kind |-> "legacy", dup |-> D]
    BY DEF LegacyLine
  <2>4. D \in Nat
    BY <1>2, <2>2 DEF NoDup
  <2> HIDE DEF D
  <2>5. f[k] \in Configs /\ k \in Nat
    BY <1>2
  <2>6. LegacyLine(f, k) \in Line
    BY <2>3, <2>4, <2>5 DEF Line, Kinds, NoSha
  <2> QED BY <2>2, <2>3, <2>6
<1>4. lines \in Seq(Line) /\ Len(lines) = n
  <2>1. lines \in [1..n -> Line]
    BY <1>1, <1>3
  <2> QED BY <1>1, <1>2, <2>1
<1>5. LegacyFile(lines)
  BY <1>1, <1>3, <1>4 DEF LegacyFile
<1>6. DupShape(lines)
  <2>1. SUFFICES ASSUME NEW k \in 1..n
                 PROVE  IsFirst(lines[k].dup, lines[k].cfg, lines, k - 1)
    BY <1>4 DEF DupShape
  <2>2. \A j \in 1..n : lines[j].cfg = f[j]
    BY <1>1, <1>3
  <2>3. lines[k].dup = LegacyLine(f, k).dup
    BY <1>1
  <2>4. \A j \in 1..(k - 1) : j \in 1..n
    BY <1>2
  <2>5. CASE \E j \in 1..(k - 1) : f[j] = f[k]
    <3>1. /\ lines[k].dup \in 1..(k - 1) /\ f[lines[k].dup] = f[k]
          /\ \A m \in 1..(lines[k].dup - 1) : f[m] # f[k]
      BY <1>3, <2>3, <2>5
    <3>2. \A m \in 1..(lines[k].dup - 1) : m \in 1..n
      BY <1>2, <3>1
    <3> QED BY <2>2, <2>4, <2>5, <3>1, <3>2 DEF IsFirst
  <2>6. CASE ~\E j \in 1..(k - 1) : f[j] = f[k]
    BY <1>3, <2>2, <2>3, <2>4, <2>6 DEF IsFirst
  <2> QED BY <2>5, <2>6
<1>7. size \in Nat /\ nextSha \in Nat /\ (size = 0 => lines = <<>>)
  <2>1. size \in Nat /\ nextSha \in Nat /\ (size = 0 => n = 0)
    BY <1>1, <1>2 DEF LineBytes
  <2> QED BY <1>4, <2>1, LenZero
<1>8. (CHOOSE c \in Configs : TRUE) \in Configs
  BY ConfigsAssumption
<1>9. TypeOK /\ edits = 0
  BY <1>4, <1>7, <1>8 DEF Init, TypeOK, PCs, Ops, WriteOps, Results, NoDup
<1>10. OneWriter /\ AckedIn(acked, lines) /\ \A i \in Inst : Local(i)
  BY DEF Init, OneWriter, Writing, Busy, AckedIn, Local, LocalOK, Knows
<1> QED BY <1>5, <1>6, <1>7, <1>9, <1>10 DEF IInv, FileOK, ChainShape

\* A step of an instance keeps the invariant.
LEMMA StepInv ==
  ASSUME ExclusiveWriters, IInv, NEW i \in Inst, Step(i)
  PROVE  IInv'
BY BeginInv, ReadCacheInv, CheckSizeInv, WalkInv, WarmCacheInv, WarmFileInv,
   AppendLineInv, WriteCacheInv, RebuildWalkInv, RebuildWriteInv, MigrateReadInv,
   MigrateReplaceInv, CrashInv DEF Step

\* What leaves the variables alone leaves the invariant alone.
LEMMA StutterInv ==
  ASSUME IInv, UNCHANGED vars
  PROVE  IInv'
<1>1. TypeOK' /\ edits' = 0
  BY DEF IInv, TypeOK, vars
<1>2. OneWriter'
  BY DEF IInv, OneWriter, Writing, Busy, vars
<1>3. FileOK(lines', size') /\ AckedIn(acked', lines')
  BY DEF IInv, vars
<1>4. \A i \in Inst : Local(i)'
  BY DEF IInv, Local, vars
<1> QED BY <1>1, <1>2, <1>3, <1>4 DEF IInv

\* No operation of the class touches the count of edits from outside.
LEMMA StepKeepsEdits ==
  ASSUME NEW i \in Inst, Step(i)
  PROVE  edits' = edits
BY DEF Step, RecordTrial, Query, RebuildIndex, MigrateLegacy, Enter, ReadCache, CheckSize,
       Walk, WarmCache, WarmFile, AppendLine, WriteCache, RebuildWalk, RebuildWrite,
       MigrateRead, MigrateReplace, Crash, history

\* Until somebody edits the file the invariant holds; after that nothing is
\* claimed, and nothing un-edits it.
UInv == edits \in Nat /\ (edits = 0 => IInv)

\* Every step keeps the invariant and makes no edit from outside.
LEMMA NextInv ==
  ASSUME ExclusiveWriters
  PROVE  UInv /\ [Next]_vars => UInv'
<1> SUFFICES ASSUME UInv, [Next]_vars PROVE UInv'
  OBVIOUS
<1>1. ASSUME NEW i \in Inst, Step(i) PROVE UInv'
  BY <1>1, StepInv, StepKeepsEdits DEF UInv
<1>2. CASE EditFile
  BY <1>2 DEF EditFile, UInv
<1>3. CASE UNCHANGED vars
  <2>1. edits' = edits BY <1>3 DEF vars
  <2> QED BY <1>3, <2>1, StutterInv DEF UInv
<1> QED BY <1>1, <1>2, <1>3 DEF Next

\* Nothing has been edited from outside before the first operation.
LEMMA InitUInv == Init => UInv
BY InitInv DEF UInv, Init

-----------------------------------------------------------------------------

\* With one writer at a time and no edits from outside, every reachable state
\* is well typed, whatever instances crash and wherever they do.
THEOREM TypeCorrect ==
  ASSUME ExclusiveWriters, MaxEdits = 0
  PROVE  Spec => []TypeOK
<1>1. IInv /\ [Next]_vars => IInv'
  <2>1. IInv => ~EditFile BY DEF EditFile, IInv
  <2> QED BY <2>1, StepInv, StutterInv DEF Next
<1>2. IInv => TypeOK
  BY DEF IInv
<1> QED BY InitInv, <1>1, <1>2, PTL DEF Spec

\* With one writer at a time the trials file is, until somebody edits it from
\* outside, a legacy file or a verified hash chain, ended by at most one line a
\* crash cut short.
THEOREM ChainSafety ==
  ASSUME ExclusiveWriters
  PROVE  Spec => []ChainKept
<1>1. UInv => ChainKept
  BY DEF UInv, IInv, FileOK, ChainKept
<1> QED BY InitUInv, NextInv, <1>1, PTL DEF Spec

\* No trial that record_trial returned is ever lost, renumbered or rewritten by
\* an operation of the class.
THEOREM Durability ==
  ASSUME ExclusiveWriters
  PROVE  Spec => []AckedKept
<1>1. UInv => AckedKept
  BY DEF UInv, IInv, AckedIn, AckedKept, Kept
<1> QED BY InitUInv, NextInv, <1>1, PTL DEF Spec

\* duplicate_of always names the first trial with the same config hash.
THEOREM DuplicateSafety ==
  ASSUME ExclusiveWriters
  PROVE  Spec => []DuplicateOfFirst
<1>1. UInv => DuplicateOfFirst
  BY DEF UInv, IInv, FileOK, DuplicateOfFirst
<1> QED BY InitUInv, NextInv, <1>1, PTL DEF Spec
-----------------------------------------------------------------------------
(* The campaign.                                                            *)


WritingFiles == {"ledger", "equity", "summary"}
RunPcs == {"load", "stuck", "record", "replay", "exit", "fail", "cut", "gone"} \cup WritingFiles \cup Ensuring
OrchPcs == {"off", "raise", "record", "loop", "ended"} \cup Ensuring
ReportPcs == {"off", "done", "raise", "rows", "files"} \cup Ensuring
Signals == Range(SPECS)
Processes == [pair : Pairs, pc : RunPcs, via : {"worker", "execute"}, code : Nat, trades : Nat, played : BOOLEAN]
Orchestrators ==
  [pc : OrchPcs, jobs : Seq(Pairs), running : SUBSET Nat, done : SUBSET Nat, recorded : Nat]
Dirs == [ledger : Nat, equity : Nat, summary : Nat, failure : Nat]
Rows == [signal : Signals, status : {"BLOCKED", "NO_TRADES", "RAN"}, run : Nat]
Reports ==
  [pc : ReportPcs, left : Seq(Signals), rows : Seq(Rows), summary : Nat, mixed : BOOLEAN,
   why : {"none", "missing", "half", "labels"}]

Typed ==
  /\ only \in Onlys /\ regimes \in {"none", "partial", "whole"} /\ raced \in BOOLEAN
  /\ trials \in [Pairs -> Nat] /\ rundirs \in [Pairs -> Dirs] /\ runs \in Seq(Processes)
  /\ orch \in Orchestrators
  /\ report \in Reports
  /\ spent \in [starts : {0, 1}, events : Nat] /\ spent.events <= MaxEvents[only]

\* A run of pair p that has replayed a bar.
PlayedOf(i, p) == i \in 1..Len(runs) /\ runs[i].pair = p /\ runs[i].played

\* What one process has done by the step it is at.
RunOK(i) ==
  /\ runs[i].via = "execute" => runs[i].pc \notin Ensuring \cup {"cut", "stuck"}
  /\ runs[i].pc \in WritingFiles \cup {"exit"} => runs[i].played
  /\ runs[i].pc \in {"equity", "summary"} => rundirs[runs[i].pair].ledger # 0
  /\ runs[i].pc = "summary" => rundirs[runs[i].pair].equity # 0
RunsOK == \A i \in 1..Len(runs) : RunOK(i)

\* A file is of a run of the directory's pair, and the summary came last.
DirOK(p) ==
  /\ \A n \in {rundirs[p].ledger, rundirs[p].equity, rundirs[p].summary} : n # 0 => PlayedOf(n, p)
  /\ rundirs[p].failure # 0 => rundirs[p].failure \in 1..Len(runs) /\ runs[rundirs[p].failure].pair = p
  /\ rundirs[p].summary # 0 => rundirs[p].ledger # 0 /\ rundirs[p].equity # 0
DirsOK == \A p \in Pairs : DirOK(p)

TwoPlayed(p) == \E i, j \in Nat : i # j /\ PlayedOf(i, p) /\ PlayedOf(j, p)
ReportOK ==
  /\ report.pc = "files" =>
       /\ report.left # <<>> /\ PlayedOf(report.summary, OOS(Head(report.left)))
       /\ rundirs[OOS(Head(report.left))].summary # 0
  /\ report.why # "half"
  /\ report.mixed => \E name \in Signals : TwoPlayed(OOS(name))

Launched == orch.running \cup orch.done
Begun == Len(Plan) - Len(orch.jobs)

\* The queue is the rest of the plan, and what was begun of it is running or done.
QueueOK ==
  /\ Launched \subseteq 1..Len(runs)
  /\ \A i \in orch.done : runs[i].pc = "gone"
  /\ orch.pc \in {"off", "raise"} \cup Ensuring => orch = [NoOrchestrator EXCEPT !.pc = orch.pc]
  /\ orch.pc = "record" =>
       /\ Launched = {} /\ orch.recorded <= Len(Plan) /\ Len(orch.jobs) = orch.recorded
       /\ \A j \in 1..orch.recorded : orch.jobs[j] = Plan[j]
  /\ orch.pc \in {"loop", "ended"} =>
       /\ Len(orch.jobs) <= Len(Plan) /\ Cardinality(Launched) = Begun
       /\ \A j \in 1..Len(orch.jobs) : orch.jobs[j] = Plan[Begun + j]
       /\ \A j \in 1..Begun : \E i \in Launched : runs[i].pair = Plan[j]
       /\ \A i \in Launched : \E j \in 1..Begun : runs[i].pair = Plan[j]
  /\ orch.pc = "ended" => orch.jobs = <<>> /\ orch.running = {}

\* What is alive or not reaped yet fits both budgets.
FitsBudget == Cardinality(orch.running) <= MaxProcs /\ Cardinality(HeavyOf(orch.running)) <= HeavyProcs

\* Runs still to come of the present orchestrator, and the bound on all of them.
Pending ==
  CASE orch.pc \in Ensuring \cup {"record"} -> Len(Plan)
    [] orch.pc = "loop" -> Len(orch.jobs)
    [] OTHER -> 0
CountOK == Len(runs) + Pending <= (spent.starts + spent.events) * Len(PLAN)

\* A run that has its line: a worker from its launch, execute from its own record.
Charged(i) == runs[i].via = "worker" \/ runs[i].pc = "replay" \/ runs[i].played
ChargedOf(p) == {i \in 1..Len(runs) : runs[i].pair = p /\ Charged(i)}
QueuedOf(p) == {j \in 1..Len(orch.jobs) : orch.jobs[j] = p}
AheadOf(p) == Cardinality(ChargedOf(p)) + Cardinality(QueuedOf(p)) <= trials[p]
TrialsAhead == \A p \in Pairs : AheadOf(p)

\* Until two builders have met: one of them at most, none once the parquet is whole, and
\* it is whole before the first worker.
Building(at) == at \in {"classify", "write"}
OneBuilder ==
  /\ regimes = "whole" => ~Building(orch.pc) /\ ~Building(report.pc)
  /\ ~(Building(orch.pc) /\ Building(report.pc))
  /\ orch.pc \in {"record", "loop", "ended"} => regimes = "whole"
  /\ \A i \in 1..Len(runs) :
       /\ ~Building(runs[i].pc) /\ runs[i].pc # "cut" /\ runs[i].code # 4
       /\ runs[i].via = "worker" => regimes = "whole"
RegimesOK == ~raced => OneBuilder

CampaignInv ==
  /\ Typed /\ RunsOK /\ DirsOK /\ ReportOK /\ QueueOK /\ FitsBudget /\ CountOK /\ TrialsAhead /\ RegimesOK

-----------------------------------------------------------------------------
(* Counting and greatest elements.                                          *)

\* Sets that are shifted along the numbers keep their size.
LEMMA ShiftCard ==
  ASSUME NEW S, IsFiniteSet(S), S \subseteq Int, NEW a \in Int
  PROVE  IsFiniteSet({a + x : x \in S}) /\ Cardinality({a + x : x \in S}) = Cardinality(S)
<1> DEFINE T == {a + x : x \in S}
           f == [x \in S |-> a + x]
<1>1. f \in Bijection(S, T)
  <2>1. f \in [S -> T]
    OBVIOUS
  <2>2. \A x, y \in S : f[x] = f[y] => x = y
    OBVIOUS
  <2>3. \A t \in T : \E x \in S : f[x] = t
    OBVIOUS
  <2> HIDE DEF f, T
  <2> QED BY <2>1, <2>2, <2>3 DEF Bijection, Injection, Surjection, IsInjective
<1>2. ExistsBijection(S, T)
  BY <1>1 DEF ExistsBijection
<1> QED BY <1>2, FS_Bijection

\* The greatest element of a bounded set of numbers is one of them.
LEMMA GreatestOf ==
  ASSUME NEW n \in Nat, NEW S, S # {}, S \subseteq 0..n
  PROVE  Max(S) \in S /\ \A y \in S : Max(S) >= y
<1> DEFINE T == {n - x : x \in S}
<1>1. T # {} /\ T \subseteq Nat
  <2>1. PICK y \in S : TRUE
    OBVIOUS
  <2>2. n - y \in T
    OBVIOUS
  <2>3. \A x \in S : n - x \in Nat
    OBVIOUS
  <2> QED BY <2>2, <2>3
<1>2. PICK k \in T : \A j \in T : k <= j
  <2> HIDE DEF T
  <2> QED BY <1>1, LeastNat
<1>3. n - k \in S /\ \A y \in S : n - k >= y
  BY <1>2
<1>4. \E x \in S : \A y \in S : x >= y
  BY <1>3
<1> QED BY <1>4 DEF Max

\* Numbers up to n are finitely many.
LEMMA UptoFinite ==
  ASSUME NEW n \in Nat, NEW S, S \subseteq 1..n
  PROVE  IsFiniteSet(S) /\ Cardinality(S) \in Nat
<1>1. IsFiniteSet(1..n)
  BY FS_Interval
<1>2. IsFiniteSet(S)
  BY <1>1, FS_Subset
<1> QED BY <1>2, FS_CardinalityType

\* Two sets with nothing in common count together.
LEMMA DisjointCard ==
  ASSUME NEW S, IsFiniteSet(S), NEW T, IsFiniteSet(T), S \cap T = {}
  PROVE  IsFiniteSet(S \cup T) /\ Cardinality(S \cup T) = Cardinality(S) + Cardinality(T)
BY FS_Union, FS_EmptySet, FS_CardinalityType

\* Products grow with their first factor.
LEMMA TimesGrows ==
  ASSUME NEW a \in Nat, NEW b \in Nat, a <= b, NEW n \in Nat
  PROVE  a * n \in Nat /\ b * n \in Nat /\ a * n <= b * n /\ (a + 1) * n = a * n + n
OBVIOUS

-----------------------------------------------------------------------------
(* Types.                                                                   *)

\* The table the plan is read from.
LEMMA UptoPlan ==
  \E g : g = [i \in 0..Len(PLAN) |->
            IF i = 0 THEN <<>> ELSE IF PLAN[i][1] \in only THEN Append(g[i - 1], PLAN[i]) ELSE g[i - 1]]
<1> DEFINE Body(g, i) == IF i = 0 THEN <<>>
                         ELSE IF PLAN[i][1] \in only THEN Append(g[i - 1], PLAN[i]) ELSE g[i - 1]
           Fits(n) == \E g : g = [i \in 0..n |-> Body(g, i)]
           Good == {n \in Nat : Fits(n)}
<1>1. 0 \in Good
  <2>1. [i \in 0..0 |-> <<>>] = [i \in 0..0 |-> Body([j \in 0..0 |-> <<>>], i)]
    OBVIOUS
  <2> QED BY <2>1
<1>2. ASSUME NEW n \in Nat, n \in Good PROVE n + 1 \in Good
  <2>1. PICK g : g = [i \in 0..n |-> Body(g, i)]
    BY <1>2
  <2> DEFINE h == [i \in 0..(n + 1) |-> Body(g, i)]
             k == [i \in 0..(n + 1) |-> Body(h, i)]
  <2>2. ASSUME NEW i \in 0..(n + 1) PROVE Body(g, i) = Body(h, i)
    <3>1. CASE i = 0
      BY <3>1
    <3>2. CASE i # 0
      <4>1. i - 1 \in 0..n /\ i - 1 \in 0..(n + 1)
        BY <3>2
      <4>2. g[i - 1] = Body(g, i - 1) /\ h[i - 1] = Body(g, i - 1)
        <5> HIDE DEF Body
        <5> QED BY <2>1, <4>1
      <4> QED BY <3>2, <4>2
    <3> QED BY <3>1, <3>2
  <2>3. h = k
    <3> HIDE DEF Body
    <3>1. DOMAIN h = 0..(n + 1) /\ DOMAIN k = 0..(n + 1)
      OBVIOUS
    <3>2. \A i \in 0..(n + 1) : h[i] = k[i]
      BY <2>2
    <3> QED BY <3>1, <3>2, <2>2
  <2>4. Fits(n + 1)
    <3> HIDE DEF Body, h
    <3> QED BY <2>3
  <2> HIDE DEF Fits
  <2> QED BY <2>4
<1>3. Len(PLAN) \in Nat
  BY PlanAssumption
<1>4. Nat \subseteq Good
  <2> HIDE DEF Good
  <2> QED BY <1>1, <1>2, NatSetInduction
<1> QED BY <1>3, <1>4

\* The plan is a part of PLAN.
LEMMA PlanFacts == Plan \in Seq(Pairs) /\ Len(Plan) \in Nat /\ Len(Plan) <= Len(PLAN) /\ Len(PLAN) \in Nat \ {0}
<1> DEFINE N == Len(PLAN)
           IsUpto(g) == g = [i \in 0..N |->
                     IF i = 0 THEN <<>> ELSE IF PLAN[i][1] \in only THEN Append(g[i - 1], PLAN[i]) ELSE g[i - 1]]
           upto == CHOOSE g : IsUpto(g)
           Part(i) == upto[i] \in Seq(Pairs) /\ Len(upto[i]) <= i
           Good == {n \in Nat : n <= N => Part(n)}
<1>1. N \in Nat \ {0} /\ \A i \in 1..N : PLAN[i] \in Pairs
  BY PlanAssumption
<1>2. \A i \in 0..N : upto[i] =
         IF i = 0 THEN <<>> ELSE IF PLAN[i][1] \in only THEN Append(upto[i - 1], PLAN[i]) ELSE upto[i - 1]
  <2>1. \E g : IsUpto(g)
    BY UptoPlan
  <2>2. IsUpto(upto)
    <3> HIDE DEF IsUpto
    <3> QED BY <2>1
  <2> HIDE DEF upto
  <2> QED BY <2>2
<1>3. Plan = upto[N]
  BY DEF Plan
<1> HIDE DEF upto, N
<1>4. 0 \in Good
  <2>1. upto[0] = <<>>
    BY <1>1, <1>2
  <2>2. Part(0)
    BY <2>1
  <2> HIDE DEF Part
  <2> QED BY <2>2
<1>5. ASSUME NEW n \in Nat, n \in Good PROVE n + 1 \in Good
  <2>1. SUFFICES ASSUME n + 1 <= N PROVE Part(n + 1)
    OBVIOUS
  <2>2. Part(n)
    BY <1>1, <1>5, <2>1
  <2>3. upto[n + 1] = IF PLAN[n + 1][1] \in only THEN Append(upto[n], PLAN[n + 1]) ELSE upto[n]
    <3>1. n + 1 \in 0..N /\ n + 1 # 0 /\ (n + 1) - 1 = n
      BY <1>1, <2>1
    <3> QED BY <3>1, <1>2
  <2>4. PLAN[n + 1] \in Pairs
    BY <1>1, <2>1
  <2> QED BY <2>2, <2>3, <2>4
<1>6. N \in Good
  <2> HIDE DEF Good
  <2>1. Nat \subseteq Good
    BY <1>4, <1>5, NatSetInduction
  <2> QED BY <1>1, <2>1
<1>7. Part(N)
  BY <1>1, <1>6
<1> QED BY <1>1, <1>3, <1>7 DEF N

\* It depends on --only alone.
LEMMA PlanSame == only' = only => Plan' = Plan
BY DEF Plan

\* The start state satisfies the invariant.
LEMMA CampaignStarts == CampaignInit => CampaignInv
<1> SUFFICES ASSUME CampaignInit PROVE CampaignInv
  OBVIOUS
<1> USE DEF CampaignInit, NothingRun, NoOrchestrator, Quiet, Absent
<1>1. Typed
  <2>1. only \in Onlys /\ regimes \in {"none", "partial", "whole"}
    OBVIOUS
  <2>a. raced \in BOOLEAN
    OBVIOUS
  <2>b. trials \in [Pairs -> Nat]
    OBVIOUS
  <2>c. runs \in Seq(Processes)
    OBVIOUS
  <2>2. rundirs \in [Pairs -> Dirs]
    BY DEF Dirs
  <2>3. orch \in Orchestrators
    BY DEF OrchPcs, Orchestrators
  <2>4. report \in Reports
    BY DEF ReportPcs, Reports
  <2>5. spent \in [starts : {0, 1}, events : Nat] /\ spent.events <= MaxEvents[only]
    BY <2>1, PlanAssumption
  <2> QED BY <2>1, <2>a, <2>b, <2>c, <2>2, <2>3, <2>4, <2>5 DEF Typed
<1>2. RunsOK /\ DirsOK /\ ReportOK
  BY DEF RunsOK, DirsOK, DirOK, ReportOK
<1>3. QueueOK
  BY DEF QueueOK, Launched, Ensuring
<1>4. FitsBudget
  BY FS_EmptySet, BudgetAssumption DEF FitsBudget, HeavyOf
<1>5. CountOK
  BY PlanFacts DEF CountOK, Pending, Ensuring
<1>6. TrialsAhead
  BY FS_EmptySet DEF TrialsAhead, AheadOf, ChargedOf, QueuedOf
<1>7. RegimesOK
  BY DEF RegimesOK, OneBuilder, Building
<1> QED BY <1>1, <1>2, <1>3, <1>4, <1>5, <1>6, <1>7 DEF CampaignInv
-----------------------------------------------------------------------------
(* The steps of a run.                                                      *)

\* What every step of a run, and its death, has in common: it stays the run it was.
Moved(i) ==
  /\ i \in 1..Len(runs) /\ runs[i].pc # "gone" /\ runs' \in Seq(Processes) /\ Len(runs') = Len(runs)
  /\ \A j \in 1..Len(runs) : j # i => runs'[j] = runs[j]
  /\ runs'[i].pair = runs[i].pair /\ runs'[i].via = runs[i].via
  /\ runs[i].played => runs'[i].played
  /\ UNCHANGED <<only, orch, report>>

LEMMA RunTyped ==
  ASSUME Typed, NEW i \in DOMAIN runs
  PROVE  /\ i \in 1..Len(runs) /\ Len(runs) \in Nat /\ runs[i] \in Processes
         /\ runs[i].pair \in Pairs /\ runs[i].pc \in RunPcs /\ runs[i].via \in {"worker", "execute"}
         /\ runs[i].code \in Nat /\ runs[i].trades \in Nat /\ runs[i].played \in BOOLEAN
<1>1. i \in 1..Len(runs) /\ Len(runs) \in Nat /\ runs[i] \in Processes
  BY ElementOfSeq, LenProperties DEF Typed
<1> QED BY <1>1 DEF Processes

\* A run that is replaced by a record of the same pair.
LEMMA Replaced ==
  ASSUME Typed, NEW i \in DOMAIN runs, NEW r \in Processes, runs' = [runs EXCEPT ![i] = r],
         runs[i].pc # "gone", r.pair = runs[i].pair, r.via = runs[i].via, runs[i].played => r.played,
         UNCHANGED <<only, orch, report>>
  PROVE  Moved(i) /\ runs'[i] = r
<1>1. i \in 1..Len(runs)
  BY RunTyped
<1>2. /\ runs' \in Seq(Processes) /\ Len(runs') = Len(runs)
      /\ \A j \in 1..Len(runs) : runs'[j] = IF j = i THEN r ELSE runs[j]
  BY <1>1, ExceptSeq DEF Typed
<1> QED BY <1>1, <1>2 DEF Moved

\* A run that goes on to another step.
LEMMA Going ==
  ASSUME Typed, NEW i \in DOMAIN runs, NEW at \in RunPcs, RunGoto(i, at), runs[i].pc # "gone",
         UNCHANGED <<only, orch, report>>
  PROVE  Moved(i) /\ runs'[i] = [runs[i] EXCEPT !.pc = at]
<1> DEFINE r == [runs[i] EXCEPT !.pc = at]
<1>1. runs[i] \in Processes
  BY RunTyped
<1>2. r \in Processes /\ r.pair = runs[i].pair /\ r.via = runs[i].via /\ r.played = runs[i].played
  BY <1>1 DEF Processes
<1>3. runs' = [runs EXCEPT ![i] = r]
  BY DEF RunGoto
<1> HIDE DEF r
<1>4. Moved(i) /\ runs'[i] = r
  BY <1>2, <1>3, Replaced
<1> QED BY <1>4 DEF r

\* A run that ends with a code.
LEMMA Ending ==
  ASSUME Typed, NEW i \in DOMAIN runs, NEW c \in Nat, NEW b \in BOOLEAN,
         runs' = [runs EXCEPT ![i] = [[[runs[i] EXCEPT !.pc = "gone"] EXCEPT !.code = c] EXCEPT !.played = b]],
         runs[i].pc # "gone", runs[i].played => b, UNCHANGED <<only, orch, report>>
  PROVE  Moved(i) /\ runs'[i].pc = "gone" /\ runs'[i].code = c /\ runs'[i].played = b
<1> DEFINE r == [[[runs[i] EXCEPT !.pc = "gone"] EXCEPT !.code = c] EXCEPT !.played = b]
<1>1. runs[i] \in Processes
  BY RunTyped
<1>2. r \in Processes /\ r.pair = runs[i].pair /\ r.via = runs[i].via /\ r.played = b /\ r.pc = "gone" /\ r.code = c
  BY <1>1 DEF Processes, RunPcs
<1>3. runs' = [runs EXCEPT ![i] = r]
  OBVIOUS
<1> HIDE DEF r
<1>4. Moved(i) /\ runs'[i] = r
  BY <1>2, <1>3, Replaced
<1> QED BY <1>2, <1>4

LEMMA LoadMoves ==
  ASSUME Typed, NEW i \in DOMAIN runs, Load(i)
  PROVE  /\ Moved(i) /\ runs[i].pc = "load" /\ runs'[i].played = runs[i].played
         /\ runs[i].via = "worker" => runs'[i].pc \in {"ensure", "replay", "fail", "stuck"}
         /\ runs[i].via = "execute" => runs'[i].pc \in {"record", "gone"}
         /\ runs'[i].code \in {runs[i].code, 1}
         /\ UNCHANGED <<trials, spent, regimes, rundirs, raced>>
<1> USE DEF Load, KeepFiles
<1>1. ASSUME NEW at \in RunPcs, RunGoto(i, at) PROVE Moved(i) /\ runs'[i] = [runs[i] EXCEPT !.pc = at]
  BY <1>1, Going
<1>2. /\ runs[i].pc = "load" /\ runs[i] \in Processes /\ runs[i].via \in {"worker", "execute"}
      /\ UNCHANGED <<trials, spent, regimes, rundirs, raced, only, orch, report>>
  BY RunTyped
<1>3. CASE RunGoto(i, IF runs[i].via = "execute" THEN "record"
                   ELSE IF runs[i].pair[1] \in Gated THEN "ensure" ELSE "replay")
  <2>1. PICK at \in {"record", "ensure", "replay"} :
          /\ RunGoto(i, at) /\ (runs[i].via = "execute" => at = "record")
          /\ (runs[i].via = "worker" => at \in {"ensure", "replay"})
    BY <1>3, <1>2
  <2>2. at \in RunPcs
    BY DEF RunPcs, Ensuring
  <2>3. Moved(i) /\ runs'[i] = [runs[i] EXCEPT !.pc = at]
    BY <1>1, <2>1, <2>2
  <2> QED BY <1>2, <2>1, <2>3 DEF Processes
<1>4. CASE \E at \in {"fail", "stuck"} : runs[i].via = "worker" /\ RunGoto(i, at)
  <2>1. PICK at \in {"fail", "stuck"} : runs[i].via = "worker" /\ RunGoto(i, at)
    BY <1>4
  <2>2. at \in RunPcs
    BY DEF RunPcs
  <2>3. Moved(i) /\ runs'[i] = [runs[i] EXCEPT !.pc = at]
    BY <1>1, <2>1, <2>2
  <2> QED BY <1>2, <2>1, <2>3 DEF Processes
<1>5. CASE runs[i].via = "execute" /\ runs' = [runs EXCEPT ![i].pc = "gone", ![i].code = 1]
  <2>1. runs' = [runs EXCEPT ![i] = [[[runs[i] EXCEPT !.pc = "gone"] EXCEPT !.code = 1] EXCEPT !.played = runs[i].played]]
    BY <1>2, <1>5 DEF Processes
  <2>2. Moved(i) /\ runs'[i].pc = "gone" /\ runs'[i].code = 1 /\ runs'[i].played = runs[i].played
    BY <1>2, <2>1, Ending, RunTyped
  <2> QED BY <1>2, <1>5, <2>2
<1> QED BY <1>3, <1>4, <1>5

LEMMA UnblockMoves ==
  ASSUME Typed, NEW i \in DOMAIN runs, Unblock(i)
  PROVE  /\ Moved(i) /\ runs[i].pc = "stuck" /\ runs'[i].pc \in {"ensure", "replay"}
         /\ runs'[i].played = runs[i].played /\ runs'[i].code = runs[i].code
         /\ UNCHANGED <<trials, spent, regimes, rundirs, raced>>
<1>1. /\ runs[i].pc = "stuck" /\ runs[i] \in Processes
      /\ UNCHANGED <<trials, spent, regimes, rundirs, raced, only, orch, report>>
  BY RunTyped DEF Unblock, KeepFiles
<1>2. PICK at \in {"ensure", "replay"} : RunGoto(i, at)
  BY DEF Unblock
<1>3. at \in RunPcs
  BY DEF RunPcs, Ensuring
<1>4. Moved(i) /\ runs'[i] = [runs[i] EXCEPT !.pc = at]
  BY <1>1, <1>2, <1>3, Going
<1> QED BY <1>1, <1>4 DEF Processes

\* What a process does next inside ensure_regimes.
LEMMA NextEnsured ==
  ASSUME regimes \in {"none", "partial", "whole"}, NEW at \in Ensuring, NEW ready
  PROVE  /\ NextEnsure(at, ready) \in {"classify", "write", "raise", ready}
         /\ at = "ensure" => NextEnsure(at, ready) # "write" \/ ready = "write"
         /\ at = "ensure" /\ NextEnsure(at, ready) = "classify" => regimes = "none" \/ ready = "classify"
         /\ at = "ensure" /\ regimes = "whole" => NextEnsure(at, ready) = ready
         /\ at = "ensure" /\ NextEnsure(at, ready) = ready => regimes = "whole" \/ ready \in {"classify", "raise"}
         /\ at = "classify" => NextEnsure(at, ready) = "write"
         /\ at = "write" => NextEnsure(at, ready) = ready
         /\ EnsuredFile(at) \in {"none", "partial", "whole"}
         /\ EnsuredFile(at) = CASE at = "classify" -> "partial" [] at = "write" -> "whole" [] OTHER -> regimes
BY DEF NextEnsure, EnsuredFile, Ensuring

LEMMA EnsureMoves ==
  ASSUME Typed, NEW i \in DOMAIN runs, WorkerEnsure(i)
  PROVE  /\ Moved(i) /\ runs[i].pc \in Ensuring /\ runs'[i].pc \in {"classify", "write", "replay", "cut"}
         /\ EnsureRegimes(runs[i].pc)
         /\ runs[i].pc = "ensure" /\ regimes = "whole" => runs'[i].pc = "replay"
         /\ runs'[i].played = runs[i].played /\ runs'[i].code = runs[i].code
         /\ UNCHANGED <<trials, spent, rundirs>>
<1>1. /\ runs[i].pc \in Ensuring /\ runs[i].pc # "gone" /\ runs[i] \in Processes
      /\ UNCHANGED <<trials, spent, rundirs, only, orch, report>> /\ EnsureRegimes(runs[i].pc)
  BY RunTyped DEF WorkerEnsure, KeepFiles, Ensuring
<1> DEFINE n == NextEnsure(runs[i].pc, "replay")
           at == IF n = "raise" THEN "cut" ELSE n
<1>2. n \in {"classify", "write", "raise", "replay"} /\ (runs[i].pc = "ensure" /\ regimes = "whole" => n = "replay")
  BY <1>1, NextEnsured DEF Typed
<1>3. RunGoto(i, at)
  BY DEF WorkerEnsure
<1> HIDE DEF n
<1>4. at \in {"classify", "write", "replay", "cut"} /\ (runs[i].pc = "ensure" /\ regimes = "whole" => at = "replay")
  BY <1>2
<1> HIDE DEF at
<1>5. at \in RunPcs
  BY <1>4 DEF RunPcs, Ensuring
<1>6. Moved(i) /\ runs'[i] = [runs[i] EXCEPT !.pc = at]
  BY <1>1, <1>3, <1>5, Going
<1> QED BY <1>1, <1>4, <1>6 DEF Processes

LEMMA RecordMoves ==
  ASSUME Typed, NEW i \in DOMAIN runs, Record(i)
  PROVE  /\ Moved(i) /\ runs[i].pc = "record" /\ runs'[i].pc = "replay"
         /\ runs'[i].played = runs[i].played /\ runs'[i].code = runs[i].code /\ RunSignal(runs[i].pair)
         /\ UNCHANGED <<spent, regimes, rundirs, raced>>
<1>1. /\ runs[i].pc = "record" /\ runs[i] \in Processes /\ RunGoto(i, "replay") /\ RunSignal(runs[i].pair)
      /\ UNCHANGED <<spent, regimes, rundirs, raced, only, orch, report>>
  BY RunTyped DEF Record
<1>2. "replay" \in RunPcs
  BY DEF RunPcs
<1>3. Moved(i) /\ runs'[i] = [runs[i] EXCEPT !.pc = "replay"]
  BY <1>1, <1>2, Going
<1> QED BY <1>1, <1>3 DEF Processes

LEMMA ReplayMoves ==
  ASSUME Typed, NEW i \in DOMAIN runs, Replay(i)
  PROVE  /\ Moved(i) /\ runs[i].pc = "replay" /\ runs'[i].pc \in {"ledger", "fail"} /\ runs'[i].played
         /\ runs'[i].code = runs[i].code
         /\ UNCHANGED <<trials, spent, regimes, rundirs, raced>>
<1>1. /\ runs[i].pc = "replay" /\ runs[i] \in Processes
      /\ UNCHANGED <<trials, spent, regimes, rundirs, raced, only, orch, report>>
  BY RunTyped DEF Replay, KeepFiles
<1>2. CASE \E n \in {0, 1} : runs' = [runs EXCEPT ![i].pc = "ledger", ![i].trades = n, ![i].played = TRUE]
  <2>1. PICK n \in {0, 1} : runs' = [runs EXCEPT ![i].pc = "ledger", ![i].trades = n, ![i].played = TRUE]
    BY <1>2
  <2> DEFINE r == [[[runs[i] EXCEPT !.pc = "ledger"] EXCEPT !.trades = n] EXCEPT !.played = TRUE]
  <2>2. r \in Processes /\ r.pair = runs[i].pair /\ r.via = runs[i].via /\ r.played /\ r.pc = "ledger" /\ r.code = runs[i].code
    <3>1. "ledger" \in RunPcs /\ n \in Nat
      BY DEF RunPcs, WritingFiles
    <3>2. [runs[i] EXCEPT !.pc = "ledger"] \in Processes
      BY <1>1, <3>1 DEF Processes
    <3> QED BY <1>1, <3>1, <3>2 DEF Processes
  <2>3. runs' = [runs EXCEPT ![i] = r]
    BY <1>1, <2>1 DEF Processes
  <2> HIDE DEF r
  <2>4. Moved(i) /\ runs'[i] = r
    BY <1>1, <2>2, <2>3, Replaced
  <2> QED BY <1>1, <2>2, <2>4
<1>3. CASE runs' = [runs EXCEPT ![i].pc = "fail", ![i].played = TRUE]
  <2> DEFINE r == [[runs[i] EXCEPT !.pc = "fail"] EXCEPT !.played = TRUE]
  <2>2. r \in Processes /\ r.pair = runs[i].pair /\ r.via = runs[i].via /\ r.played /\ r.pc = "fail" /\ r.code = runs[i].code
    BY <1>1 DEF Processes, RunPcs
  <2>3. runs' = [runs EXCEPT ![i] = r]
    BY <1>3
  <2> HIDE DEF r
  <2>4. Moved(i) /\ runs'[i] = r
    BY <1>1, <2>2, <2>3, Replaced
  <2> QED BY <1>1, <2>2, <2>4
<1> QED BY <1>2, <1>3 DEF Replay

LEMMA PersistMoves ==
  ASSUME Typed, NEW i \in DOMAIN runs, Persist(i)
  PROVE  /\ Moved(i) /\ runs[i].pc \in WritingFiles /\ runs'[i].pc = FileAfter(runs[i].pc).next
         /\ runs'[i].played = runs[i].played /\ runs'[i].code = runs[i].code
         /\ rundirs' = [rundirs EXCEPT ![runs[i].pair][FileAfter(runs[i].pc).file] = i]
         /\ UNCHANGED <<trials, spent, regimes, raced>>
<1>1. /\ runs[i].pc \in WritingFiles /\ runs[i] \in Processes /\ runs[i].pc # "gone"
      /\ RunGoto(i, FileAfter(runs[i].pc).next)
      /\ rundirs' = [rundirs EXCEPT ![runs[i].pair][FileAfter(runs[i].pc).file] = i]
      /\ UNCHANGED <<trials, spent, regimes, raced, only, orch, report>>
  BY RunTyped DEF Persist, KeepFiles, WritingFiles
<1>2. FileAfter(runs[i].pc).next \in RunPcs
  BY <1>1 DEF FileAfter, RunPcs, WritingFiles
<1>3. Moved(i) /\ runs'[i] = [runs[i] EXCEPT !.pc = FileAfter(runs[i].pc).next]
  BY <1>1, <1>2, Going
<1> QED BY <1>1, <1>3 DEF Processes

LEMMA FailMoves ==
  ASSUME Typed, NEW i \in DOMAIN runs, Fail(i)
  PROVE  /\ Moved(i) /\ runs[i].pc \in {"fail", "cut"} /\ runs'[i].pc = "gone"
         /\ runs'[i].played = runs[i].played
         /\ runs'[i].code = IF runs[i].pc = "cut" THEN 4 ELSE 3
         /\ rundirs' = [rundirs EXCEPT ![runs[i].pair].failure = i]
         /\ UNCHANGED <<trials, spent, regimes, raced>>
<1> DEFINE c == IF runs[i].pc = "cut" THEN 4 ELSE 3
<1>1. /\ runs[i].pc \in {"fail", "cut"} /\ runs[i] \in Processes /\ runs[i].pc # "gone" /\ runs[i].played \in BOOLEAN
      /\ rundirs' = [rundirs EXCEPT ![runs[i].pair].failure = i]
      /\ UNCHANGED <<trials, spent, regimes, raced, only, orch, report>>
  BY RunTyped DEF Fail, KeepFiles
<1>2. runs' = [runs EXCEPT ![i] = [[[runs[i] EXCEPT !.pc = "gone"] EXCEPT !.code = c] EXCEPT !.played = runs[i].played]]
  BY <1>1 DEF Fail, Processes
<1>3. c \in Nat
  OBVIOUS
<1> HIDE DEF c
<1>4. Moved(i) /\ runs'[i].pc = "gone" /\ runs'[i].code = c /\ runs'[i].played = runs[i].played
  BY <1>1, <1>2, <1>3, Ending
<1> QED BY <1>1, <1>4 DEF c

LEMMA ExitMoves ==
  ASSUME Typed, NEW i \in DOMAIN runs, Exit(i)
  PROVE  /\ Moved(i) /\ runs[i].pc = "exit" /\ runs'[i].pc = "gone"
         /\ runs'[i].played = runs[i].played /\ runs'[i].code = runs[i].code
         /\ UNCHANGED <<trials, spent, regimes, rundirs, raced>>
<1>1. /\ runs[i].pc = "exit" /\ runs[i] \in Processes /\ RunGoto(i, "gone")
      /\ UNCHANGED <<trials, spent, regimes, rundirs, raced, only, orch, report>>
  BY RunTyped DEF Exit, KeepFiles
<1>2. "gone" \in RunPcs
  BY DEF RunPcs
<1>3. Moved(i) /\ runs'[i] = [runs[i] EXCEPT !.pc = "gone"]
  BY <1>1, <1>2, Going
<1> QED BY <1>1, <1>3 DEF Processes

LEMMA KillMoves ==
  ASSUME Typed, NEW i \in DOMAIN runs, Kill(i)
  PROVE  /\ Moved(i) /\ runs'[i].pc = "gone" /\ runs'[i].code = 9
         /\ runs'[i].played = (runs[i].played \/ runs[i].pc = "replay")
         /\ spent.events < MaxEvents[only] /\ spent' = [spent EXCEPT !.events = @ + 1]
         /\ UNCHANGED <<trials, regimes, rundirs, raced>>
<1> DEFINE b == runs[i].played \/ runs[i].pc = "replay"
<1>1. /\ runs[i].pc # "gone" /\ runs[i] \in Processes /\ spent.events < MaxEvents[only]
      /\ spent' = [spent EXCEPT !.events = @ + 1] /\ UNCHANGED <<trials, regimes, rundirs, raced, only, orch, report>>
      /\ runs' = [runs EXCEPT ![i].pc = "gone", ![i].code = 9, ![i].played = @ \/ runs[i].pc = "replay"]
  BY RunTyped DEF Kill
<1>2. runs' = [runs EXCEPT ![i] = [[[runs[i] EXCEPT !.pc = "gone"] EXCEPT !.code = 9] EXCEPT !.played = b]]
  BY <1>1 DEF Processes
<1>3. b \in BOOLEAN /\ (runs[i].played => b)
  OBVIOUS
<1>4. 9 \in Nat
  OBVIOUS
<1>5. runs[i].pc # "gone" /\ UNCHANGED <<only, orch, report>>
  BY <1>1
<1> HIDE DEF b
<1>6. Moved(i) /\ runs'[i].pc = "gone" /\ runs'[i].code = 9 /\ runs'[i].played = b
  BY <1>2, <1>3, <1>4, <1>5, Ending, Zenon
<1> QED BY <1>1, <1>6 DEF b

-----------------------------------------------------------------------------
(* The steps of the orchestrator and of execute.                            *)

\* k processes are started behind those there were.
Started(k) ==
  /\ runs' \in Seq(Processes) /\ Len(runs') = Len(runs) + k
  /\ \A i \in 1..Len(runs) : runs'[i] = runs[i]
Fresh(k) == (Len(runs) + 1)..(Len(runs) + k)

LEMMA Starting ==
  ASSUME Typed, NEW w \in Seq(Processes), runs' = runs \o w
  PROVE  Started(Len(w)) /\ \A j \in 1..Len(w) : runs'[Len(runs) + j] = w[j]
<1>1. runs \in Seq(Processes) /\ Len(runs) \in Nat /\ Len(w) \in Nat
  BY DEF Typed
<1>2. /\ runs' \in Seq(Processes) /\ Len(runs') = Len(runs) + Len(w)
      /\ \A i \in 1..Len(runs) + Len(w) : runs'[i] = IF i <= Len(runs) THEN runs[i] ELSE w[i - Len(runs)]
  BY <1>1, ConcatProperties
<1>3. \A i \in 1..Len(runs) : runs'[i] = runs[i]
  BY <1>1, <1>2
<1>4. ASSUME NEW j \in 1..Len(w) PROVE runs'[Len(runs) + j] = w[j]
  <2>1. Len(runs) + j \in 1..Len(runs) + Len(w) /\ ~(Len(runs) + j <= Len(runs)) /\ Len(runs) + j - Len(runs) = j
    BY <1>1
  <2> QED BY <1>2, <2>1
<1> QED BY <1>2, <1>3, <1>4 DEF Started

LEMMA WorkerTyped ==
  ASSUME NEW p \in Pairs, NEW via \in {"worker", "execute"}
  PROVE  Worker(p, via) \in Processes
BY DEF Worker, Processes, RunPcs

LEMMA ExecuteMoves ==
  ASSUME Typed, NEW p \in Solo, Execute(p)
  PROVE  /\ Started(1) /\ runs'[Len(runs) + 1] = Worker(p, "execute") /\ p \in Pairs
         /\ spent.events < MaxEvents[only] /\ spent' = [spent EXCEPT !.events = @ + 1]
         /\ UNCHANGED <<only, regimes, trials, orch, rundirs, report, raced>>
<1>1. p \in Pairs
  BY DEF Pairs
<1>2. Worker(p, "execute") \in Processes
  BY <1>1, WorkerTyped
<1> DEFINE w == <<Worker(p, "execute")>>
<1>3. w \in Seq(Processes) /\ Len(w) = 1 /\ w[1] = Worker(p, "execute")
  BY <1>2
<1>4. runs' = runs \o w
  <2>1. runs' = Append(runs, Worker(p, "execute")) /\ runs \in Seq(Processes)
    BY DEF Execute, Typed
  <2> QED BY <1>2, <2>1, AppendIsConcat
<1> HIDE DEF w
<1>5. Started(1) /\ runs'[Len(runs) + 1] = Worker(p, "execute")
  <2>1. Started(Len(w)) /\ \A j \in 1..Len(w) : runs'[Len(runs) + j] = w[j]
    BY <1>3, <1>4, Starting
  <2>2. 1 \in 1..Len(w)
    BY <1>3
  <2> QED BY <1>3, <2>1, <2>2
<1> QED BY <1>1, <1>5 DEF Execute

\* A turn of the loop reaps "finished" and launches the first k jobs.
Turned(k, finished) ==
  /\ finished = {i \in orch.running : runs[i].pc = "gone"}
  /\ MayLaunch(orch.jobs, orch.running \ finished, k)
  /\ Started(k) /\ \A j \in 1..k : runs'[Len(runs) + j] = Worker(orch.jobs[j], "worker")
  /\ orch'.jobs \in Seq(Pairs) /\ Len(orch'.jobs) = Len(orch.jobs) - k
  /\ \A j \in 1..(Len(orch.jobs) - k) : orch'.jobs[j] = orch.jobs[k + j]
  /\ orch'.running = (orch.running \ finished) \cup Fresh(k) /\ orch'.done = orch.done \cup finished
  /\ orch'.pc = IF orch.jobs = <<>> /\ orch.running \ finished = {} THEN "ended" ELSE "loop"
  /\ orch' \in Orchestrators

LEMMA OrchTyped ==
  ASSUME Typed
  PROVE  /\ orch.jobs \in Seq(Pairs) /\ Len(orch.jobs) \in Nat /\ orch.running \subseteq Nat /\ orch.done \subseteq Nat
         /\ orch.recorded \in Nat /\ orch.pc \in OrchPcs /\ Len(runs) \in Nat
         /\ \A j \in 1..Len(orch.jobs) : orch.jobs[j] \in Pairs
BY DEF Typed, Orchestrators

LEMMA PassMoves ==
  ASSUME Typed, OrchPass
  PROVE  /\ orch.pc = "loop" /\ \E k \in 0..Len(orch.jobs) : \E finished : Turned(k, finished)
         /\ UNCHANGED <<only, regimes, trials, rundirs, report, spent, raced>>
<1> DEFINE finished == {i \in orch.running : runs[i].pc = "gone"}
           alive == orch.running \ finished
           May == {n \in 0..Len(orch.jobs) : MayLaunch(orch.jobs, alive, n)}
           k == Max(May)
           w == [j \in 1..k |-> Worker(orch.jobs[j], "worker")]
<1>1. /\ orch.pc = "loop" /\ UNCHANGED <<only, regimes, trials, rundirs, report, spent, raced>>
      /\ runs' = runs \o w
      /\ orch' = [orch EXCEPT !.jobs = SubSeq(@, k + 1, Len(@)), !.running = alive \cup Fresh(k),
                          !.done = @ \cup finished,
                          !.pc = IF orch.jobs = <<>> /\ alive = {} THEN "ended" ELSE @]
  BY DEF OrchPass, Fresh
<1>2. May \subseteq 0..Len(orch.jobs) /\ 0 \in May
  <2>1. MayLaunch(orch.jobs, alive, 0)
    BY DEF MayLaunch
  <2> QED BY <2>1, OrchTyped
<1>3. k \in May
  <2> HIDE DEF May
  <2> QED BY <1>2, GreatestOf, OrchTyped
<1>4. k \in 0..Len(orch.jobs) /\ MayLaunch(orch.jobs, alive, k)
  BY <1>3
<1> HIDE DEF k
<1>5. w \in Seq(Processes) /\ Len(w) = k /\ \A j \in 1..k : w[j] = Worker(orch.jobs[j], "worker")
  <2>1. \A j \in 1..k : Worker(orch.jobs[j], "worker") \in Processes
    BY <1>4, OrchTyped, WorkerTyped
  <2> QED BY <1>4, <2>1
<1> HIDE DEF w
<1>6. Started(k) /\ \A j \in 1..k : runs'[Len(runs) + j] = Worker(orch.jobs[j], "worker")
  BY <1>1, <1>5, Starting
<1> DEFINE rest == SubSeq(orch.jobs, k + 1, Len(orch.jobs))
<1>7. /\ rest \in Seq(Pairs) /\ Len(rest) = Len(orch.jobs) - k
      /\ \A j \in 1..(Len(orch.jobs) - k) : rest[j] = orch.jobs[k + j]
  <2>1. \A i \in (k + 1)..Len(orch.jobs) : orch.jobs[i] \in Pairs
    BY <1>4, OrchTyped
  <2>2. k + 1 \in Int /\ Len(orch.jobs) \in Int
    BY <1>4, OrchTyped
  <2>3. /\ rest \in Seq(Pairs)
        /\ Len(rest) = IF k + 1 <= Len(orch.jobs) THEN Len(orch.jobs) - (k + 1) + 1 ELSE 0
        /\ \A j \in 1..(Len(orch.jobs) - (k + 1) + 1) : rest[j] = orch.jobs[(k + 1) + j - 1]
    BY <2>1, <2>2, SubSeqProperties
  <2> HIDE DEF rest
  <2>4. \A j \in 1..(Len(orch.jobs) - k) : (k + 1) + j - 1 = k + j /\ j \in 1..(Len(orch.jobs) - (k + 1) + 1)
    BY <1>4, OrchTyped
  <2> QED BY <1>4, <2>3, <2>4, OrchTyped
<1>8. Fresh(k) \subseteq Nat
  BY <1>4, OrchTyped DEF Fresh
<1> HIDE DEF rest, finished
<1>9. /\ orch'.jobs = rest /\ orch'.running = alive \cup Fresh(k) /\ orch'.done = orch.done \cup finished
      /\ orch'.pc = IF orch.jobs = <<>> /\ alive = {} THEN "ended" ELSE "loop"
  BY <1>1 DEF rest, Typed, Orchestrators
<1>10. orch' \in Orchestrators
  <2>1. finished \subseteq Nat /\ alive \subseteq Nat
    BY OrchTyped DEF finished
  <2>2. (IF orch.jobs = <<>> /\ alive = {} THEN "ended" ELSE orch.pc) \in OrchPcs
    BY <1>1 DEF OrchPcs
  <2> QED BY <1>1, <1>7, <1>8, <2>1, <2>2 DEF rest, Typed, Orchestrators
<1>11. Turned(k, finished)
  BY <1>4, <1>6, <1>7, <1>9, <1>10 DEF Turned, finished
<1> QED BY <1>1, <1>4, <1>11

LEMMA OrchRecordMoves ==
  ASSUME Typed, OrchRecord
  PROVE  /\ orch.pc = "record" /\ orch'.running = orch.running /\ orch'.done = orch.done
         /\ orch' \in Orchestrators
         /\ \/ /\ orch.recorded < Len(Plan) /\ RunSignal(Plan[orch.recorded + 1]) /\ orch'.pc = "record"
               /\ orch'.recorded = orch.recorded + 1 /\ orch'.jobs = Append(orch.jobs, Plan[orch.recorded + 1])
               /\ Plan[orch.recorded + 1] \in Pairs
            \/ orch.recorded >= Len(Plan) /\ orch' = [orch EXCEPT !.pc = "loop"] /\ UNCHANGED trials
         /\ UNCHANGED <<only, regimes, runs, rundirs, report, spent, raced>>
<1>1. orch.pc = "record" /\ UNCHANGED <<only, regimes, runs, rundirs, report, spent, raced>>
  BY DEF OrchRecord
<1>2. CASE orch.recorded < Len(Plan)
  <2>1. orch' = [orch EXCEPT !.recorded = @ + 1, !.jobs = Append(@, Plan[orch.recorded + 1])]
        /\ RunSignal(Plan[orch.recorded + 1])
    BY <1>2 DEF OrchRecord
  <2>2. Plan[orch.recorded + 1] \in Pairs
    <3>1. orch.recorded + 1 \in 1..Len(Plan)
      BY <1>2, PlanFacts, OrchTyped
    <3> QED BY <3>1, PlanFacts
  <2>3. Append(orch.jobs, Plan[orch.recorded + 1]) \in Seq(Pairs)
    BY <2>2, OrchTyped
  <2>4. /\ orch'.pc = orch.pc /\ orch'.recorded = orch.recorded + 1 /\ orch'.running = orch.running
        /\ orch'.done = orch.done /\ orch'.jobs = Append(orch.jobs, Plan[orch.recorded + 1])
    BY <2>1 DEF Typed
  <2>5. orch.recorded + 1 \in Nat
    BY OrchTyped
  <2>6. orch' \in Orchestrators
    BY <2>1, <2>3, <2>5 DEF Typed, Orchestrators
  <2> QED BY <1>1, <1>2, <2>1, <2>2, <2>4, <2>6
<1>3. CASE ~(orch.recorded < Len(Plan))
  <2>1. orch' = [orch EXCEPT !.pc = "loop"] /\ UNCHANGED trials
    BY <1>3 DEF OrchRecord
  <2>2. orch.recorded >= Len(Plan)
    BY <1>3, PlanFacts, OrchTyped
  <2> QED BY <1>1, <2>1, <2>2 DEF Typed, OrchPcs, Orchestrators
<1> QED BY <1>2, <1>3

LEMMA OrchEnsureMoves ==
  ASSUME Typed, OrchEnsure
  PROVE  /\ orch.pc \in Ensuring /\ EnsureRegimes(orch.pc) /\ orch' = [orch EXCEPT !.pc = NextEnsure(orch.pc, "record")]
         /\ orch' \in Orchestrators
         /\ orch'.pc = NextEnsure(orch.pc, "record") /\ orch'.pc \in {"classify", "write", "raise", "record"}
         /\ UNCHANGED <<only, trials, runs, rundirs, report, spent>>
<1>1. /\ orch.pc \in Ensuring /\ EnsureRegimes(orch.pc) /\ orch' = [orch EXCEPT !.pc = NextEnsure(orch.pc, "record")]
      /\ UNCHANGED <<only, trials, runs, rundirs, report, spent>>
  BY DEF OrchEnsure
<1>2. NextEnsure(orch.pc, "record") \in {"classify", "write", "raise", "record"}
  BY <1>1, NextEnsured DEF Typed
<1>3. NextEnsure(orch.pc, "record") \in OrchPcs
  BY <1>2 DEF OrchPcs, Ensuring
<1> QED BY <1>1, <1>2, <1>3 DEF Typed, Orchestrators

\* The orchestrator starts, or is killed: nothing is in its hands.
Reset(at) ==
  /\ orch' = [NoOrchestrator EXCEPT !.pc = at] /\ orch'.pc = at
  /\ orch' \in Orchestrators
  /\ spent' \in [starts : {0, 1}, events : Nat] /\ spent'.events <= MaxEvents[only]
  /\ spent.starts + spent.events < spent'.starts + spent'.events
  /\ UNCHANGED <<only, regimes, trials, runs, rundirs, report, raced>>

LEMMA ResetTyped ==
  ASSUME NEW x \in OrchPcs
  PROVE  [NoOrchestrator EXCEPT !.pc = x].pc = x /\ [NoOrchestrator EXCEPT !.pc = x] \in Orchestrators
<1>1. NoOrchestrator \in Orchestrators
  BY DEF Orchestrators, NoOrchestrator, OrchPcs
<1> QED BY <1>1 DEF Orchestrators

LEMMA SpentTyped ==
  ASSUME Typed
  PROVE  /\ MaxEvents[only] \in Nat /\ spent.events \in Nat /\ spent.starts \in {0, 1}
         /\ spent.events <= MaxEvents[only]
BY PlanAssumption DEF Typed

\* One more event.
LEMMA SpentLater ==
  ASSUME Typed, spent' = [spent EXCEPT !.events = @ + 1]
  PROVE  spent' \in [starts : {0, 1}, events : Nat] /\ spent'.starts = spent.starts /\ spent'.events = spent.events + 1
<1>1. spent \in [starts : {0, 1}, events : Nat] /\ spent.events + 1 \in Nat
  BY DEF Typed
<1> QED BY <1>1

LEMMA OrchStartMoves ==
  ASSUME Typed, OrchStart
  PROVE  Reset("ensure") /\ orch.pc \in {"off", "raise", "ended"}
<1>1. /\ orch.pc \in {"off", "raise", "ended"} /\ (spent.starts = 0 \/ spent.events < MaxEvents[only])
      /\ orch' = [NoOrchestrator EXCEPT !.pc = "ensure"]
      /\ spent' = [starts |-> 1, events |-> spent.events + spent.starts]
      /\ UNCHANGED <<only, regimes, trials, runs, rundirs, report, raced>>
  BY DEF OrchStart
<1>2. "ensure" \in OrchPcs
  BY DEF OrchPcs, Ensuring
<1>3. spent'.starts = 1 /\ spent'.events = spent.events + spent.starts
  BY <1>1
<1>4. /\ spent'.events <= MaxEvents[only] /\ spent' \in [starts : {0, 1}, events : Nat]
      /\ spent.starts + spent.events < spent'.starts + spent'.events
  BY <1>1, <1>3, SpentTyped
<1> QED BY <1>1, <1>2, <1>4, ResetTyped DEF Reset

LEMMA KillOrchMoves ==
  ASSUME Typed, KillOrch
  PROVE  Reset("off") /\ orch.pc # "off"
<1>1. /\ orch' = NoOrchestrator /\ spent.events < MaxEvents[only] /\ spent' = [spent EXCEPT !.events = @ + 1]
      /\ orch.pc # "off" /\ UNCHANGED <<only, regimes, trials, runs, rundirs, report, raced>>
  BY DEF KillOrch
<1>2. "off" \in OrchPcs
  BY DEF OrchPcs
<1>3. orch' = [NoOrchestrator EXCEPT !.pc = "off"]
  BY <1>1 DEF NoOrchestrator
<1>4. spent' \in [starts : {0, 1}, events : Nat] /\ spent'.starts = spent.starts /\ spent'.events = spent.events + 1
  BY <1>1, SpentLater
<1>5. /\ spent'.events <= MaxEvents[only]
      /\ spent.starts + spent.events < spent'.starts + spent'.events
  BY <1>1, <1>4, SpentTyped
<1> QED BY <1>1, <1>2, <1>3, <1>4, <1>5, ResetTyped DEF Reset

-----------------------------------------------------------------------------
(* The steps of the report.                                                 *)

LEMMA ReportTyped ==
  ASSUME Typed
  PROVE  /\ report \in Reports /\ report.pc \in ReportPcs /\ report.left \in Seq(Signals) /\ report.rows \in Seq(Rows)
         /\ report.summary \in Nat /\ report.mixed \in BOOLEAN
         /\ report.left # <<>> => /\ Head(report.left) \in Signals /\ Tail(report.left) \in Seq(Signals)
                                  /\ OOS(Head(report.left)) \in Pairs
<1>1. report \in Reports
  BY DEF Typed
<1>2. report.pc \in ReportPcs /\ report.left \in Seq(Signals) /\ report.rows \in Seq(Rows)
      /\ report.summary \in Nat /\ report.mixed \in BOOLEAN
  BY <1>1 DEF Reports
<1>3. report.left # <<>> => Head(report.left) \in Signals /\ Tail(report.left) \in Seq(Signals)
  BY <1>2, HeadTailProperties
<1>4. \A name \in Signals : OOS(name) \in Pairs
  BY PlanAssumption DEF Signals
<1> QED BY <1>1, <1>2, <1>3, <1>4

LEMMA ReportStartMoves ==
  ASSUME Typed, ReportStart
  PROVE  /\ report' \in Reports /\ report'.pc = "ensure" /\ ~report'.mixed /\ report'.why = "none"
         /\ spent.events < MaxEvents[only] /\ spent' = [spent EXCEPT !.events = @ + 1]
         /\ report.pc \in {"off", "done", "raise"}
         /\ UNCHANGED <<only, regimes, trials, orch, runs, rundirs, raced>>
<1>1. /\ report' = [Quiet EXCEPT !.pc = "ensure", !.left = SPECS] /\ report.pc \in {"off", "done", "raise"}
      /\ spent.events < MaxEvents[only] /\ spent' = [spent EXCEPT !.events = @ + 1]
      /\ UNCHANGED <<only, regimes, trials, orch, runs, rundirs, raced>>
  BY DEF ReportStart
<1>2. Quiet \in Reports /\ "ensure" \in ReportPcs
  BY DEF Quiet, Reports, ReportPcs, Ensuring
<1>3. SPECS \in Seq(Signals)
  BY PlanAssumption DEF Signals
<1>4. report' \in Reports
  BY <1>1, <1>2, <1>3 DEF Reports
<1>5. report'.pc = "ensure" /\ report'.mixed = FALSE /\ report'.why = "none"
  BY <1>1 DEF Quiet
<1> QED BY <1>1, <1>4, <1>5

LEMMA ReportEnsureMoves ==
  ASSUME Typed, ReportEnsure
  PROVE  /\ report.pc \in Ensuring /\ EnsureRegimes(report.pc) /\ report' \in Reports
         /\ report'.pc = NextEnsure(report.pc, "rows") /\ report'.pc \in {"classify", "write", "raise", "rows"}
         /\ report'.mixed = report.mixed /\ report'.why = report.why
         /\ UNCHANGED <<only, trials, orch, runs, rundirs, spent>>
<1>1. /\ report.pc \in Ensuring /\ EnsureRegimes(report.pc)
      /\ report' = [report EXCEPT !.pc = NextEnsure(report.pc, "rows")]
      /\ UNCHANGED <<only, trials, orch, runs, rundirs, spent>>
  BY DEF ReportEnsure
<1>2. NextEnsure(report.pc, "rows") \in {"classify", "write", "raise", "rows"}
  BY <1>1, NextEnsured DEF Typed
<1>3. NextEnsure(report.pc, "rows") \in ReportPcs
  BY <1>2 DEF ReportPcs, Ensuring
<1> QED BY <1>1, <1>2, <1>3, ReportTyped DEF Reports

LEMMA ReportRowMoves ==
  ASSUME Typed, ReportRow
  PROVE  /\ report' \in Reports /\ report'.mixed = report.mixed /\ report'.why \in {report.why, "missing"}
         /\ report.pc = "rows" /\ report'.pc \in {"done", "raise", "rows", "files"}
         /\ report'.pc = "files" =>
              /\ report'.left = report.left /\ report.left # <<>>
              /\ report'.summary = rundirs[OOS(Head(report.left))].summary
              /\ rundirs[OOS(Head(report.left))].summary # 0
         /\ UNCHANGED <<only, regimes, trials, orch, runs, rundirs, spent, raced>>
<1> DEFINE dir == rundirs[OOS(Head(report.left))]
           blocked == [signal |-> Head(report.left), status |-> "BLOCKED", run |-> 0]
<1>1. report.pc = "rows" /\ UNCHANGED <<only, regimes, trials, orch, runs, rundirs, spent, raced>>
  BY DEF ReportRow
<1>2. CASE report.left = <<>>
  <2>1. report' = [report EXCEPT !.pc = "done"]
    BY <1>2 DEF ReportRow
  <2>2. "done" \in ReportPcs
    BY DEF ReportPcs
  <2> QED BY <1>1, <2>1, <2>2, ReportTyped DEF Reports
<1>3. CASE report.left # <<>> /\ dir.summary # 0
  <2>1. report' = [report EXCEPT !.pc = "files", !.summary = dir.summary]
    BY <1>3 DEF ReportRow
  <2>2. "files" \in ReportPcs
    BY DEF ReportPcs
  <2>3. dir.summary \in Nat
    BY <1>3, ReportTyped DEF Typed, Dirs
  <2>4. report' \in Reports
    BY <2>1, <2>2, <2>3, ReportTyped DEF Reports
  <2>5. /\ report'.pc = "files" /\ report'.summary = dir.summary /\ report'.left = report.left
        /\ report'.mixed = report.mixed /\ report'.why = report.why
    BY <2>1, ReportTyped DEF Reports
  <2> QED BY <1>1, <1>3, <2>4, <2>5
<1>4. CASE report.left # <<>> /\ dir.summary = 0 /\ dir.failure = 0
  <2>1. report' = [report EXCEPT !.pc = "raise", !.why = "missing"]
    BY <1>4 DEF ReportRow, Raise
  <2>2. "raise" \in ReportPcs
    BY DEF ReportPcs
  <2> QED BY <1>1, <2>1, <2>2, ReportTyped DEF Reports
<1>5. CASE report.left # <<>> /\ dir.summary = 0 /\ dir.failure # 0
  <2>1. report' = [report EXCEPT !.left = Tail(@), !.rows = Append(@, blocked)]
    BY <1>5 DEF ReportRow
  <2>2. blocked \in Rows
    BY <1>5, ReportTyped DEF Rows
  <2> HIDE DEF blocked
  <2>3. Append(report.rows, blocked) \in Seq(Rows) /\ Tail(report.left) \in Seq(Signals)
    BY <1>5, <2>2, ReportTyped
  <2>4. report' \in Reports
    BY <2>1, <2>3, ReportTyped DEF Reports
  <2>5. report'.pc = "rows" /\ report'.mixed = report.mixed /\ report'.why = report.why
    BY <1>1, <2>1, ReportTyped DEF Reports
  <2> QED BY <1>1, <2>4, <2>5
<1> QED BY <1>2, <1>3, <1>4, <1>5

LEMMA ReportFilesMoves ==
  ASSUME Typed, ReportFiles, report.left # <<>>
  PROVE  /\ report' \in Reports /\ report.pc = "files" /\ report'.pc \in {"raise", "rows"}
         /\ report'.why = "half" =>
              report.why = "half" \/ 0 \in {rundirs[OOS(Head(report.left))].ledger, rundirs[OOS(Head(report.left))].equity}
         /\ report'.mixed => report.mixed \/ Mixed(rundirs[OOS(Head(report.left))])
         /\ UNCHANGED <<only, regimes, trials, orch, runs, rundirs, spent, raced>>
<1> DEFINE dir == rundirs[OOS(Head(report.left))]
           trades == runs[dir.ledger].trades
           row == [signal |-> Head(report.left), status |-> IF trades = 0 THEN "NO_TRADES" ELSE "RAN",
                   run |-> report.summary]
           mixed == report.mixed \/ Mixed(dir)
<1>1. report.pc = "files" /\ UNCHANGED <<only, regimes, trials, orch, runs, rundirs, spent, raced>>
  BY DEF ReportFiles
<1>2. row \in Rows
  BY ReportTyped DEF Rows
<1>3. mixed \in BOOLEAN
  OBVIOUS
<1>4. \/ report' = [report EXCEPT !.pc = "raise", !.why = "half"] /\ 0 \in {dir.ledger, dir.equity}
      \/ report' = [[report EXCEPT !.pc = "raise", !.why = "labels"] EXCEPT !.mixed = mixed]
      \/ report' = [report EXCEPT !.pc = "rows", !.left = Tail(@), !.mixed = mixed, !.rows = Append(@, row)]
  <2>1. [report EXCEPT !.pc = "raise", !.why = "labels"].mixed = report.mixed
    BY ReportTyped DEF Reports
  <2> QED BY <2>1 DEF ReportFiles, Raise
<1> HIDE DEF row, mixed
<1>5. "raise" \in ReportPcs /\ "rows" \in ReportPcs
  BY DEF ReportPcs
<1>6. Append(report.rows, row) \in Seq(Rows) /\ Tail(report.left) \in Seq(Signals)
  BY <1>2, ReportTyped
<1>7. CASE report' = [report EXCEPT !.pc = "raise", !.why = "half"] /\ 0 \in {dir.ledger, dir.equity}
  <2>1. report' \in Reports /\ report'.pc = "raise" /\ report'.mixed = report.mixed
    BY <1>5, <1>7, ReportTyped DEF Reports
  <2> QED BY <1>1, <1>7, <2>1
<1>8. CASE report' = [[report EXCEPT !.pc = "raise", !.why = "labels"] EXCEPT !.mixed = mixed]
  <2>1. report' \in Reports /\ report'.pc = "raise" /\ report'.mixed = mixed /\ report'.why = "labels"
    BY <1>3, <1>5, <1>8, ReportTyped DEF Reports
  <2> QED BY <1>1, <2>1 DEF mixed
<1>9. CASE report' = [report EXCEPT !.pc = "rows", !.left = Tail(@), !.mixed = mixed, !.rows = Append(@, row)]
  <2>1. report' \in Reports
    BY <1>3, <1>5, <1>6, <1>9, ReportTyped DEF Reports
  <2>2. report'.pc = "rows" /\ report'.mixed = mixed /\ report'.why = report.why
    BY <1>9, ReportTyped DEF Reports
  <2> QED BY <1>1, <2>1, <2>2 DEF mixed
<1> QED BY <1>4, <1>7, <1>8, <1>9

-----------------------------------------------------------------------------
(* Every step keeps the types.                                              *)

LEMMA EnsureTyped ==
  ASSUME Typed, NEW at \in Ensuring, EnsureRegimes(at)
  PROVE  regimes' \in {"none", "partial", "whole"} /\ raced' \in BOOLEAN
<1>1. regimes' \in {"none", "partial", "whole"}
  BY NextEnsured DEF EnsureRegimes, Typed
<1>2. raced' \in BOOLEAN
  BY DEF EnsureRegimes
<1> QED BY <1>1, <1>2

Wrote(p, f, n) == rundirs' = [rundirs EXCEPT ![p][f] = n]

LEMMA FileWritten ==
  ASSUME rundirs \in [Pairs -> Dirs], NEW p \in Pairs, NEW f \in {"ledger", "equity", "summary", "failure"}, NEW n \in Nat,
         Wrote(p, f, n)
  PROVE  /\ rundirs' \in [Pairs -> Dirs] /\ \A q \in Pairs : q # p => rundirs'[q] = rundirs[q]
         /\ rundirs'[p].ledger = IF f = "ledger" THEN n ELSE rundirs[p].ledger
         /\ rundirs'[p].equity = IF f = "equity" THEN n ELSE rundirs[p].equity
         /\ rundirs'[p].summary = IF f = "summary" THEN n ELSE rundirs[p].summary
         /\ rundirs'[p].failure = IF f = "failure" THEN n ELSE rundirs[p].failure
<1>1. rundirs[p] \in Dirs
  OBVIOUS
<1> DEFINE d == [rundirs[p] EXCEPT ![f] = n]
<1>2. /\ d \in Dirs
      /\ d.ledger = IF f = "ledger" THEN n ELSE rundirs[p].ledger
      /\ d.equity = IF f = "equity" THEN n ELSE rundirs[p].equity
      /\ d.summary = IF f = "summary" THEN n ELSE rundirs[p].summary
      /\ d.failure = IF f = "failure" THEN n ELSE rundirs[p].failure
  <2>1. CASE f = "ledger"
    BY <1>1, <2>1 DEF Dirs
  <2>2. CASE f = "equity"
    BY <1>1, <2>2 DEF Dirs
  <2>3. CASE f = "summary"
    BY <1>1, <2>3 DEF Dirs
  <2>4. CASE f = "failure"
    BY <1>1, <2>4 DEF Dirs
  <2> QED BY <2>1, <2>2, <2>3, <2>4
<1>3. rundirs' = [rundirs EXCEPT ![p] = d]
  BY DEF Wrote
<1> HIDE DEF d
<1> QED BY <1>2, <1>3

LEMMA TrialAdded ==
  ASSUME Typed, NEW p \in Pairs, RunSignal(p)
  PROVE  trials' \in [Pairs -> Nat] /\ \A q \in Pairs : trials'[q] = IF q = p THEN trials[q] + 1 ELSE trials[q]
BY DEF Typed, RunSignal

LEMMA PersistWrites ==
  ASSUME Typed, NEW i \in DOMAIN runs, Persist(i), NEW p, p = runs[i].pair
  PROVE  /\ rundirs' \in [Pairs -> Dirs] /\ \A q \in Pairs : q # p => rundirs'[q] = rundirs[q]
         /\ rundirs'[p].ledger = IF runs[i].pc = "ledger" THEN i ELSE rundirs[p].ledger
         /\ rundirs'[p].equity = IF runs[i].pc = "equity" THEN i ELSE rundirs[p].equity
         /\ rundirs'[p].summary = IF runs[i].pc = "summary" THEN i ELSE rundirs[p].summary
         /\ rundirs'[p].failure = rundirs[p].failure
<1> DEFINE f == FileAfter(runs[i].pc).file
<1>1. runs[i].pc \in WritingFiles /\ Wrote(p, f, i)
  BY PersistMoves DEF Wrote
<1>2. f = runs[i].pc
  BY <1>1 DEF FileAfter, WritingFiles
<1>3. p \in Pairs /\ i \in Nat /\ rundirs \in [Pairs -> Dirs]
  BY RunTyped DEF Typed
<1> HIDE DEF f
<1>4. f \in {"ledger", "equity", "summary", "failure"} /\ f # "failure"
  BY <1>1, <1>2 DEF WritingFiles
<1>5. /\ rundirs' \in [Pairs -> Dirs] /\ \A q \in Pairs : q # p => rundirs'[q] = rundirs[q]
      /\ rundirs'[p].ledger = IF f = "ledger" THEN i ELSE rundirs[p].ledger
      /\ rundirs'[p].equity = IF f = "equity" THEN i ELSE rundirs[p].equity
      /\ rundirs'[p].summary = IF f = "summary" THEN i ELSE rundirs[p].summary
      /\ rundirs'[p].failure = IF f = "failure" THEN i ELSE rundirs[p].failure
  BY <1>1, <1>3, <1>4, FileWritten
<1> QED BY <1>2, <1>4, <1>5

LEMMA FailWrites ==
  ASSUME Typed, NEW i \in DOMAIN runs, Fail(i), NEW p, p = runs[i].pair
  PROVE  /\ rundirs' \in [Pairs -> Dirs] /\ \A q \in Pairs : q # p => rundirs'[q] = rundirs[q]
         /\ rundirs'[p].ledger = rundirs[p].ledger /\ rundirs'[p].equity = rundirs[p].equity
         /\ rundirs'[p].summary = rundirs[p].summary /\ rundirs'[p].failure = i
<1> DEFINE f == "failure"
<1>1. Wrote(p, f, i)
  BY FailMoves DEF Wrote
<1>2. p \in Pairs /\ i \in Nat /\ rundirs \in [Pairs -> Dirs]
  BY RunTyped DEF Typed
<1>3. f \in {"ledger", "equity", "summary", "failure"} /\ f # "ledger" /\ f # "equity" /\ f # "summary"
  OBVIOUS
<1>4. f = "failure"
  OBVIOUS
<1> HIDE DEF f
<1>5. /\ rundirs' \in [Pairs -> Dirs] /\ \A q \in Pairs : q # p => rundirs'[q] = rundirs[q]
      /\ rundirs'[p].ledger = IF f = "ledger" THEN i ELSE rundirs[p].ledger
      /\ rundirs'[p].equity = IF f = "equity" THEN i ELSE rundirs[p].equity
      /\ rundirs'[p].summary = IF f = "summary" THEN i ELSE rundirs[p].summary
      /\ rundirs'[p].failure = IF f = "failure" THEN i ELSE rundirs[p].failure
  BY <1>1, <1>2, <1>3, FileWritten
<1> QED BY <1>3, <1>4, <1>5

LEMMA TypedKept == ASSUME Typed, ReportOK, CampaignNext PROVE Typed'
<1> USE DEF Typed
<1>1. CASE OrchStart
  BY <1>1, OrchStartMoves DEF Reset
<1>2. CASE KillOrch
  BY <1>2, KillOrchMoves DEF Reset
<1>3. CASE OrchEnsure
  BY <1>3, OrchEnsureMoves, EnsureTyped
<1>4. CASE OrchRecord
  <2>1. trials' \in [Pairs -> Nat]
    BY <1>4, OrchRecordMoves, TrialAdded
  <2> QED BY <1>4, <2>1, OrchRecordMoves
<1>5. CASE OrchPass
  BY <1>5, PassMoves DEF Turned, Started
<1>6. CASE ReportStart
  BY <1>6, ReportStartMoves, SpentLater, SpentTyped
<1>7. CASE ReportEnsure
  BY <1>7, ReportEnsureMoves, EnsureTyped
<1>8. CASE ReportRow
  BY <1>8, ReportRowMoves
<1>9. CASE ReportFiles
  <2>1. report.left # <<>>
    BY <1>9 DEF ReportOK, ReportFiles
  <2> QED BY <1>9, <2>1, ReportFilesMoves
<1>10. ASSUME NEW p \in Solo, Execute(p) PROVE Typed'
  <2>1. /\ runs' \in Seq(Processes) /\ UNCHANGED <<only, regimes, trials, orch, rundirs, report, raced>>
        /\ spent.events < MaxEvents[only] /\ spent' = [spent EXCEPT !.events = @ + 1]
    BY <1>10, ExecuteMoves DEF Started
  <2> QED BY <2>1, SpentLater, SpentTyped
<1>11. ASSUME NEW i \in DOMAIN runs, RunStep(i) PROVE Typed'
  <2> USE DEF Moved
  <2>1. CASE Load(i)
    BY <2>1, LoadMoves
  <2>2. CASE Unblock(i)
    BY <2>2, UnblockMoves
  <2>3. CASE WorkerEnsure(i)
    BY <2>3, EnsureMoves, EnsureTyped
  <2>4. CASE Record(i)
    <3>1. trials' \in [Pairs -> Nat]
      BY <2>4, RecordMoves, RunTyped, TrialAdded
    <3> QED BY <2>4, <3>1, RecordMoves
  <2>5. CASE Replay(i)
    BY <2>5, ReplayMoves
  <2>6. CASE Persist(i)
    <3>1. rundirs' \in [Pairs -> Dirs]
      BY <2>6, PersistWrites
    <3>2. Moved(i) /\ UNCHANGED <<trials, spent, regimes, raced>>
      BY <2>6, PersistMoves
    <3> QED BY <3>1, <3>2
  <2>7. CASE Fail(i)
    <3>1. rundirs' \in [Pairs -> Dirs]
      BY <2>7, FailWrites
    <3>2. Moved(i) /\ UNCHANGED <<trials, spent, regimes, raced>>
      BY <2>7, FailMoves
    <3> QED BY <3>1, <3>2
  <2>8. CASE Exit(i)
    BY <2>8, ExitMoves
  <2> QED BY <1>11, <2>1, <2>2, <2>3, <2>4, <2>5, <2>6, <2>7, <2>8 DEF RunStep
<1>12. ASSUME NEW i \in DOMAIN runs, Kill(i) PROVE Typed'
  <2>1. /\ Moved(i) /\ UNCHANGED <<trials, regimes, rundirs, raced>>
        /\ spent.events < MaxEvents[only] /\ spent' = [spent EXCEPT !.events = @ + 1]
    BY <1>12, KillMoves
  <2>2. runs' \in Seq(Processes) /\ UNCHANGED <<only, orch, report>>
    BY <2>1 DEF Moved
  <2> QED BY <2>1, <2>2, SpentLater, SpentTyped
<1> QED BY <1>1, <1>2, <1>3, <1>4, <1>5, <1>6, <1>7, <1>8, <1>9, <1>10, <1>11, <1>12 DEF CampaignNext, CampaignStep

-----------------------------------------------------------------------------
(* Runs and files only grow.                                                *)

Grow ==
  /\ only' = only /\ Len(runs') \in Nat /\ Len(runs) <= Len(runs')
  /\ \A i \in 1..Len(runs) :
       /\ runs'[i].pair = runs[i].pair /\ runs'[i].via = runs[i].via /\ (runs[i].played => runs'[i].played)
       /\ runs[i].pc = "gone" => runs'[i].pc = "gone"
FilesStay ==
  \A p \in Pairs : /\ rundirs[p].ledger # 0 => rundirs'[p].ledger # 0
                   /\ rundirs[p].equity # 0 => rundirs'[p].equity # 0
                   /\ rundirs[p].summary # 0 => rundirs'[p].summary # 0

LEMMA MovedGrows == ASSUME Typed, NEW i \in DOMAIN runs, Moved(i) PROVE Grow
BY RunTyped DEF Moved, Grow

LEMMA StartedGrows == ASSUME Typed, NEW k \in Nat, Started(k), only' = only PROVE Grow
BY OrchTyped DEF Started, Grow

\* A step either leaves the runs and their files alone, or starts some, or is one of a run's.
RunsRest == UNCHANGED <<only, runs, rundirs>>
NewRuns == UNCHANGED <<only, rundirs, report>> /\ \E k \in Nat :
             /\ Started(k)
             /\ \A i \in Fresh(k) : runs'[i].pc = "load" /\ ~runs'[i].played /\ runs'[i].code = 0
OneRun == \E i \in DOMAIN runs : RunStep(i) \/ Kill(i)

LEMMA StepKinds == ASSUME Typed, ReportOK, CampaignNext PROVE RunsRest \/ NewRuns \/ OneRun
<1>1. CASE OrchStart \/ KillOrch
  BY <1>1, OrchStartMoves, KillOrchMoves DEF Reset, RunsRest
<1>2. CASE OrchEnsure
  BY <1>2, OrchEnsureMoves DEF RunsRest
<1>3. CASE OrchRecord
  BY <1>3, OrchRecordMoves DEF RunsRest
<1>4. CASE OrchPass
  <2>1. PICK k, finished : k \in 0..Len(orch.jobs) /\ Turned(k, finished)
    BY <1>4, PassMoves
  <2>2. Started(k) /\ \A j \in 1..k : runs'[Len(runs) + j] = Worker(orch.jobs[j], "worker")
    BY <2>1 DEF Turned
  <2>3. ASSUME NEW i \in Fresh(k) PROVE runs'[i].pc = "load" /\ ~runs'[i].played /\ runs'[i].code = 0
    <3>1. i - Len(runs) \in 1..k /\ Len(runs) + (i - Len(runs)) = i
      BY <2>1, OrchTyped DEF Fresh
    <3>2. runs'[i] = Worker(orch.jobs[i - Len(runs)], "worker")
      BY <2>2, <3>1
    <3> QED BY <3>2 DEF Worker
  <2>4. k \in Nat
    BY <2>1
  <2> QED BY <1>4, <2>2, <2>3, <2>4, PassMoves DEF NewRuns
<1>5. CASE ReportStart
  BY <1>5, ReportStartMoves DEF RunsRest
<1>6. CASE ReportEnsure
  BY <1>6, ReportEnsureMoves DEF RunsRest
<1>7. CASE ReportRow
  BY <1>7, ReportRowMoves DEF RunsRest
<1>8. CASE ReportFiles
  <2>1. report.left # <<>>
    BY <1>8 DEF ReportOK, ReportFiles
  <2> QED BY <1>8, <2>1, ReportFilesMoves DEF RunsRest
<1>9. ASSUME NEW p \in Solo, Execute(p) PROVE NewRuns
  <2>1. /\ Started(1) /\ runs'[Len(runs) + 1] = Worker(p, "execute") /\ UNCHANGED <<only, rundirs, report>>
    BY <1>9, ExecuteMoves
  <2>2. \A i \in Fresh(1) : i = Len(runs) + 1
    BY OrchTyped DEF Fresh
  <2>3. \A i \in Fresh(1) : runs'[i].pc = "load" /\ ~runs'[i].played /\ runs'[i].code = 0
    BY <2>1, <2>2 DEF Worker
  <2>4. 1 \in Nat
    OBVIOUS
  <2> QED BY <2>1, <2>3, <2>4 DEF NewRuns
<1>10. ASSUME NEW i \in DOMAIN runs, RunStep(i) \/ Kill(i) PROVE OneRun
  BY <1>10 DEF OneRun
<1> QED BY <1>1, <1>2, <1>3, <1>4, <1>5, <1>6, <1>7, <1>8, <1>9, <1>10 DEF CampaignNext, CampaignStep

LEMMA RunMoves ==
  ASSUME Typed, NEW i \in DOMAIN runs, RunStep(i) \/ Kill(i)
  PROVE  Moved(i) /\ (Persist(i) \/ Fail(i) \/ UNCHANGED rundirs)
BY LoadMoves, UnblockMoves, EnsureMoves, RecordMoves, ReplayMoves, PersistMoves, FailMoves, ExitMoves, KillMoves
   DEF RunStep

LEMMA Grows == ASSUME Typed, ReportOK, CampaignNext PROVE Grow /\ FilesStay
<1>1. CASE RunsRest
  BY <1>1, OrchTyped DEF RunsRest, Grow, FilesStay
<1>2. CASE NewRuns
  <2>1. Grow
    BY <1>2, StartedGrows DEF NewRuns
  <2> QED BY <1>2, <2>1 DEF NewRuns, FilesStay
<1>3. ASSUME NEW i \in DOMAIN runs, RunStep(i) \/ Kill(i) PROVE Grow /\ FilesStay
  <2>1. Grow
    BY <1>3, RunMoves, MovedGrows
  <2>2. CASE Persist(i)
    <3> DEFINE p == runs[i].pair
    <3>1. i # 0
      BY RunTyped
    <3>2. /\ \A q \in Pairs : q # p => rundirs'[q] = rundirs[q]
          /\ rundirs'[p].ledger \in {i, rundirs[p].ledger} /\ rundirs'[p].equity \in {i, rundirs[p].equity}
          /\ rundirs'[p].summary \in {i, rundirs[p].summary}
      BY <2>2, PersistWrites
    <3> QED BY <2>1, <3>1, <3>2 DEF FilesStay
  <2>3. CASE Fail(i)
    <3> DEFINE p == runs[i].pair
    <3>1. /\ \A q \in Pairs : q # p => rundirs'[q] = rundirs[q]
          /\ rundirs'[p].ledger = rundirs[p].ledger /\ rundirs'[p].equity = rundirs[p].equity
          /\ rundirs'[p].summary = rundirs[p].summary
      BY <2>3, FailWrites
    <3> QED BY <2>1, <3>1 DEF FilesStay
  <2>4. CASE UNCHANGED rundirs
    BY <2>1, <2>4 DEF FilesStay
  <2> QED BY <1>3, <2>2, <2>3, <2>4, RunMoves
<1> QED BY <1>1, <1>2, <1>3, StepKinds DEF OneRun

-----------------------------------------------------------------------------
(* What each process has done.                                              *)

LEMMA RunsKept == ASSUME CampaignInv, CampaignNext PROVE RunsOK'
<1>1. Typed /\ Typed' /\ RunsOK /\ ReportOK /\ Grow /\ FilesStay
  BY TypedKept, Grows DEF CampaignInv
<1>2. CASE RunsRest
  BY <1>1, <1>2 DEF RunsRest, RunsOK, RunOK
<1>3. CASE NewRuns
  <2>1. PICK k \in Nat : /\ Started(k)
                         /\ \A i \in Fresh(k) : runs'[i].pc = "load" /\ ~runs'[i].played /\ runs'[i].code = 0
    BY <1>3 DEF NewRuns
  <2>2. UNCHANGED rundirs
    BY <1>3 DEF NewRuns
  <2>3. ASSUME NEW i \in 1..Len(runs') PROVE RunOK(i)'
    <3>1. CASE i \in 1..Len(runs)
      BY <1>1, <2>1, <2>2, <3>1 DEF Started, RunsOK, RunOK
    <3>2. CASE i \notin 1..Len(runs)
      <4>1. i \in Fresh(k)
        BY <1>1, <2>1, <3>2, OrchTyped DEF Started, Fresh
      <4>2. runs'[i].pc = "load"
        BY <2>1, <4>1
      <4> QED BY <4>2 DEF RunOK, Ensuring, WritingFiles
    <3> QED BY <3>1, <3>2
  <2> QED BY <2>3 DEF RunsOK
<1>4. ASSUME NEW i \in DOMAIN runs, RunStep(i) \/ Kill(i) PROVE RunsOK'
  <2>1. Moved(i) /\ i \in 1..Len(runs) /\ runs[i].pair \in Pairs
    BY <1>1, <1>4, RunMoves, RunTyped
  <2>2. ASSUME NEW j \in 1..Len(runs), j # i PROVE RunOK(j)'
    <3>1. runs'[j] = runs[j] /\ RunOK(j) /\ runs[j].pair \in Pairs
      BY <1>1, <2>1, <2>2, RunTyped DEF Moved, RunsOK
    <3> QED BY <1>1, <3>1 DEF RunOK, FilesStay
  <2>3. RunOK(i)
    BY <1>1, <2>1 DEF RunsOK
  <2>4. RunOK(i)'
    <3> USE DEF RunOK, Moved, Ensuring, WritingFiles
    <3>1. CASE Load(i)
      BY <1>1, <2>3, <3>1, LoadMoves, RunTyped
    <3>2. CASE Unblock(i)
      BY <1>1, <2>3, <3>2, UnblockMoves
    <3>3. CASE WorkerEnsure(i)
      BY <1>1, <2>3, <3>3, EnsureMoves
    <3>4. CASE Record(i)
      BY <1>1, <2>3, <3>4, RecordMoves
    <3>5. CASE Replay(i)
      BY <1>1, <2>3, <3>5, ReplayMoves
    <3>6. CASE Persist(i)
      <4> DEFINE p == runs[i].pair
      <4>1. /\ rundirs'[p].ledger = IF runs[i].pc = "ledger" THEN i ELSE rundirs[p].ledger
            /\ rundirs'[p].equity = IF runs[i].pc = "equity" THEN i ELSE rundirs[p].equity
        BY <1>1, <3>6, PersistWrites
      <4>2. /\ Moved(i) /\ runs[i].pc \in WritingFiles /\ runs'[i].pc = FileAfter(runs[i].pc).next
            /\ runs'[i].played = runs[i].played
        BY <1>1, <3>6, PersistMoves
      <4>3. /\ runs[i].pc = "ledger" => runs'[i].pc = "equity"
            /\ runs[i].pc = "equity" => runs'[i].pc = "summary"
            /\ runs[i].pc = "summary" => runs'[i].pc = "exit"
        BY <4>2 DEF FileAfter
      <4>4. i # 0 /\ runs[i].played
        BY <2>1, <2>3, <4>2
      <4>5. runs'[i].pair = p
        BY <4>2
      <4> HIDE DEF p
      <4> QED BY <2>3, <4>1, <4>2, <4>3, <4>4, <4>5 DEF p
    <3>7. CASE Fail(i)
      BY <1>1, <2>3, <3>7, FailMoves
    <3>8. CASE Exit(i)
      BY <1>1, <2>3, <3>8, ExitMoves
    <3>9. CASE Kill(i)
      BY <1>1, <2>3, <3>9, KillMoves
    <3> QED BY <1>4, <3>1, <3>2, <3>3, <3>4, <3>5, <3>6, <3>7, <3>8, <3>9 DEF RunStep
  <2>5. Len(runs') = Len(runs)
    BY <2>1 DEF Moved
  <2> QED BY <2>2, <2>4, <2>5 DEF RunsOK
<1> QED BY <1>1, <1>2, <1>3, <1>4, StepKinds DEF OneRun

-----------------------------------------------------------------------------
(* Directories and the report.                                              *)

LEMMA PlayedStays == ASSUME Grow, Typed, NEW n, NEW p, PlayedOf(n, p) PROVE PlayedOf(n, p)'
<1>1. n \in 1..Len(runs) /\ n \in 1..Len(runs')
  BY OrchTyped DEF Grow, PlayedOf
<1> QED BY <1>1 DEF Grow, PlayedOf

LEMMA DirsKept == ASSUME CampaignInv, CampaignNext PROVE DirsOK'
<1>1. Typed /\ RunsOK /\ DirsOK /\ ReportOK /\ Grow
  BY Grows DEF CampaignInv
<1>2. ASSUME NEW p \in Pairs, rundirs'[p] = rundirs[p] PROVE DirOK(p)'
  <2>1. DirOK(p)
    BY <1>1 DEF DirsOK
  <2>2. \A n \in {rundirs[p].ledger, rundirs[p].equity, rundirs[p].summary} : n # 0 => PlayedOf(n, p)'
    BY <1>1, <2>1, PlayedStays DEF DirOK
  <2>3. rundirs[p].failure # 0 => rundirs[p].failure \in 1..Len(runs') /\ runs'[rundirs[p].failure].pair = p
    BY <1>1, <2>1, OrchTyped DEF DirOK, Grow
  <2> QED BY <1>2, <2>1, <2>2, <2>3 DEF DirOK
<1>3. CASE UNCHANGED rundirs
  BY <1>2, <1>3 DEF DirsOK
<1>4. ASSUME NEW i \in DOMAIN runs, Persist(i) PROVE DirsOK'
  <2>a. PICK p \in Pairs : p = runs[i].pair
    BY <1>1, RunTyped
  <2>1. /\ rundirs' \in [Pairs -> Dirs] /\ \A q \in Pairs : q # p => rundirs'[q] = rundirs[q]
        /\ rundirs'[p].ledger = IF runs[i].pc = "ledger" THEN i ELSE rundirs[p].ledger
        /\ rundirs'[p].equity = IF runs[i].pc = "equity" THEN i ELSE rundirs[p].equity
        /\ rundirs'[p].summary = IF runs[i].pc = "summary" THEN i ELSE rundirs[p].summary
        /\ rundirs'[p].failure = rundirs[p].failure
    BY <1>1, <1>4, <2>a, PersistWrites
  <2>2. /\ Moved(i) /\ runs[i].pc \in WritingFiles
    BY <1>1, <1>4, PersistMoves
  <2>3. i \in 1..Len(runs) /\ p \in Pairs /\ i # 0
    BY <1>1, <2>a, RunTyped
  <2>4. PlayedOf(i, p)
    <3>1. RunOK(i)
      BY <1>1, <2>3 DEF RunsOK
    <3> QED BY <2>2, <2>3, <2>a, <3>1 DEF RunOK, PlayedOf
  <2>5. runs[i].pc = "summary" => rundirs[p].ledger # 0 /\ rundirs[p].equity # 0
    BY <1>1, <2>3, <2>a DEF RunsOK, RunOK
  <2>6. DirOK(p)
    BY <1>1, <2>3 DEF DirsOK
  <2>7. DirOK(p)'
    <3>1. \A n \in {rundirs'[p].ledger, rundirs'[p].equity, rundirs'[p].summary} : n # 0 => PlayedOf(n, p)
      BY <2>1, <2>4, <2>6 DEF DirOK
    <3>2. \A n \in {rundirs'[p].ledger, rundirs'[p].equity, rundirs'[p].summary} : n # 0 => PlayedOf(n, p)'
      BY <1>1, <3>1, PlayedStays
    <3>3. rundirs'[p].failure # 0 => rundirs'[p].failure \in 1..Len(runs') /\ runs'[rundirs'[p].failure].pair = p
      BY <1>1, <2>1, <2>6, OrchTyped DEF DirOK, Grow
    <3>4. rundirs'[p].summary # 0 => rundirs'[p].ledger # 0 /\ rundirs'[p].equity # 0
      BY <2>1, <2>2, <2>3, <2>5, <2>6 DEF DirOK, WritingFiles
    <3> QED BY <3>2, <3>3, <3>4 DEF DirOK
  <2> QED BY <1>2, <2>1, <2>7 DEF DirsOK
<1>5. ASSUME NEW i \in DOMAIN runs, Fail(i) PROVE DirsOK'
  <2>a. PICK p \in Pairs : p = runs[i].pair
    BY <1>1, RunTyped
  <2>1. /\ rundirs' \in [Pairs -> Dirs] /\ \A q \in Pairs : q # p => rundirs'[q] = rundirs[q]
        /\ rundirs'[p].ledger = rundirs[p].ledger /\ rundirs'[p].equity = rundirs[p].equity
        /\ rundirs'[p].summary = rundirs[p].summary /\ rundirs'[p].failure = i
    BY <1>1, <1>5, <2>a, FailWrites
  <2>2. Moved(i)
    BY <1>1, <1>5, FailMoves
  <2>3. i \in 1..Len(runs') /\ p \in Pairs /\ runs'[i].pair = p
    BY <1>1, <2>2, <2>a, RunTyped DEF Moved
  <2>4. DirOK(p)
    BY <1>1, <2>3 DEF DirsOK
  <2>5. DirOK(p)'
    <3>1. \A n \in {rundirs'[p].ledger, rundirs'[p].equity, rundirs'[p].summary} : n # 0 => PlayedOf(n, p)
      BY <2>1, <2>4 DEF DirOK
    <3>2. \A n \in {rundirs'[p].ledger, rundirs'[p].equity, rundirs'[p].summary} : n # 0 => PlayedOf(n, p)'
      BY <1>1, <3>1, PlayedStays
    <3> QED BY <2>1, <2>3, <2>4, <3>2 DEF DirOK
  <2> QED BY <1>2, <2>1, <2>5 DEF DirsOK
<1>6. CASE OneRun
  BY <1>1, <1>3, <1>4, <1>5, <1>6, RunMoves DEF OneRun
<1> QED BY <1>1, <1>3, <1>6, StepKinds DEF RunsRest, NewRuns

LEMMA TwoStay == ASSUME Grow, Typed, NEW p, TwoPlayed(p) PROVE TwoPlayed(p)'
<1>1. PICK i, j \in Nat : i # j /\ PlayedOf(i, p) /\ PlayedOf(j, p)
  BY DEF TwoPlayed
<1>2. PlayedOf(i, p)' /\ PlayedOf(j, p)'
  BY <1>1, PlayedStays
<1> QED BY <1>1, <1>2 DEF TwoPlayed

LEMMA ReportKept == ASSUME CampaignInv, CampaignNext PROVE ReportOK'
<1>1. Typed /\ DirsOK /\ ReportOK /\ Grow /\ FilesStay
  BY Grows DEF CampaignInv
<1>2. ASSUME report'.mixed => report.mixed PROVE report'.mixed => \E name \in Signals : TwoPlayed(OOS(name))'
  BY <1>1, <1>2, TwoStay DEF ReportOK
<1>3. CASE UNCHANGED report
  <2>1. report'.mixed => \E name \in Signals : TwoPlayed(OOS(name))'
    BY <1>2, <1>3
  <2>2. ASSUME report.pc = "files"
        PROVE  /\ report.left # <<>> /\ PlayedOf(report.summary, OOS(Head(report.left)))'
               /\ rundirs'[OOS(Head(report.left))].summary # 0
    <3>1. PICK p, n : p \in Pairs /\ p = OOS(Head(report.left)) /\ n = report.summary
      BY <1>1, <2>2, ReportTyped DEF ReportOK
    <3>2. report.left # <<>> /\ PlayedOf(n, p) /\ rundirs[p].summary # 0
      BY <1>1, <2>2, <3>1 DEF ReportOK
    <3>3. PlayedOf(n, p)' /\ rundirs'[p].summary # 0
      BY <1>1, <3>1, <3>2, PlayedStays DEF FilesStay
    <3> QED BY <1>3, <3>1, <3>2, <3>3
  <2>3. report.why # "half"
    BY <1>1 DEF ReportOK
  <2> HIDE DEF OOS
  <2> QED BY <1>3, <2>1, <2>2, <2>3 DEF ReportOK, PlayedOf
<1>4. CASE ReportStart
  BY <1>1, <1>4, ReportStartMoves DEF ReportOK
<1>5. CASE ReportEnsure
  <2>1. report'.pc # "files" /\ report'.mixed = report.mixed /\ report'.why = report.why
    BY <1>1, <1>5, ReportEnsureMoves
  <2> QED BY <1>1, <1>2, <2>1 DEF ReportOK, TwoPlayed
<1>6. CASE ReportRow
  <2>1. /\ report'.mixed = report.mixed /\ report'.why \in {report.why, "missing"}
        /\ report'.pc = "files" =>
              /\ report'.left = report.left /\ report.left # <<>>
              /\ report'.summary = rundirs[OOS(Head(report.left))].summary
              /\ rundirs[OOS(Head(report.left))].summary # 0
        /\ UNCHANGED <<runs, rundirs>>
    BY <1>1, <1>6, ReportRowMoves
  <2>2. report'.mixed => \E name \in Signals : TwoPlayed(OOS(name))'
    BY <1>2, <2>1
  <2>3. report'.pc = "files" => PlayedOf(rundirs[OOS(Head(report.left))].summary, OOS(Head(report.left)))
    BY <1>1, <2>1, ReportTyped DEF DirsOK, DirOK
  <2>4. report'.why # "half"
    BY <1>1, <2>1 DEF ReportOK
  <2>5. report'.pc = "files" => PlayedOf(rundirs[OOS(Head(report.left))].summary, OOS(Head(report.left)))'
    BY <2>1, <2>3 DEF PlayedOf
  <2> HIDE DEF OOS
  <2> QED BY <2>1, <2>2, <2>4, <2>5 DEF ReportOK, PlayedOf
<1>7. CASE ReportFiles
  <2> DEFINE p == OOS(Head(report.left))
             dir == rundirs[p]
  <2>1. report.left # <<>> /\ PlayedOf(report.summary, p) /\ dir.summary # 0 /\ report.pc = "files"
    BY <1>1, <1>7 DEF ReportOK, ReportFiles
  <2>2. /\ report'.pc \in {"raise", "rows"}
        /\ report'.why = "half" => report.why = "half" \/ 0 \in {dir.ledger, dir.equity}
        /\ report'.mixed => report.mixed \/ Mixed(dir)
        /\ UNCHANGED <<runs, rundirs>>
    BY <1>1, <1>7, <2>1, ReportFilesMoves
  <2>3. p \in Pairs /\ Head(report.left) \in Signals
    BY <1>1, <2>1, ReportTyped
  <2>4. dir.ledger # 0 /\ dir.equity # 0 /\ PlayedOf(dir.ledger, p) /\ PlayedOf(dir.equity, p)
    BY <1>1, <2>1, <2>3 DEF DirsOK, DirOK
  <2>5. report'.why # "half"
    BY <1>1, <2>2, <2>4 DEF ReportOK
  <2>6. Mixed(dir) => TwoPlayed(p)
    BY <2>1, <2>4 DEF Mixed, TwoPlayed, PlayedOf
  <2>7. report'.mixed => \E name \in Signals : TwoPlayed(OOS(name))
    BY <1>1, <2>2, <2>3, <2>6 DEF ReportOK
  <2>8. report'.mixed => \E name \in Signals : TwoPlayed(OOS(name))'
    BY <1>1, <2>7, TwoStay
  <2> HIDE DEF p
  <2> QED BY <2>2, <2>5, <2>8 DEF ReportOK, TwoPlayed
<1>8. ASSUME NEW p \in Solo, Execute(p) PROVE UNCHANGED report
  BY <1>1, <1>8, ExecuteMoves
<1>9. ASSUME NEW i \in DOMAIN runs, RunStep(i) \/ Kill(i) PROVE UNCHANGED report
  BY <1>1, <1>9, RunMoves DEF Moved
<1>10. ASSUME OrchStart \/ OrchEnsure \/ OrchRecord \/ OrchPass \/ KillOrch PROVE UNCHANGED report
  BY <1>1, <1>10, OrchStartMoves, OrchEnsureMoves, OrchRecordMoves, PassMoves, KillOrchMoves DEF Reset
<1> QED BY <1>3, <1>4, <1>5, <1>6, <1>7, <1>8, <1>9, <1>10 DEF CampaignNext, CampaignStep

-----------------------------------------------------------------------------
(* The queue.                                                               *)

LEMMA QueueRests == ASSUME CampaignInv, Grow, UNCHANGED orch PROVE QueueOK'
<1>1. QueueOK /\ Plan' = Plan /\ Len(runs) \in Nat
  BY PlanSame, OrchTyped DEF CampaignInv, Grow
<1>2. Launched' = Launched /\ Begun' = Begun
  BY <1>1 DEF Launched, Begun
<1>3. Launched \subseteq 1..Len(runs')
  BY <1>1 DEF QueueOK, Grow
<1>4. \A i \in Launched : runs'[i].pair = runs[i].pair
  BY <1>1 DEF QueueOK, Grow
<1>5. \A i \in orch.done : runs'[i].pc = "gone"
  BY <1>1 DEF QueueOK, Grow, Launched
<1> QED BY <1>1, <1>2, <1>3, <1>4, <1>5 DEF QueueOK

LEMMA ResetFields ==
  ASSUME NEW x, NEW o, o = [NoOrchestrator EXCEPT !.pc = x]
  PROVE  o.pc = x /\ o.jobs = <<>> /\ o.running = {} /\ o.done = {} /\ o.recorded = 0
BY DEF NoOrchestrator

LEMMA QueueReset == ASSUME Typed, NEW x \in {"ensure", "off"}, Reset(x) PROVE QueueOK'
<1>1. orch' = [NoOrchestrator EXCEPT !.pc = x] /\ orch'.pc = x
  BY DEF Reset
<1>2. orch'.running = {} /\ orch'.done = {}
  BY <1>1, ResetFields
<1>3. Launched' = {}
  BY <1>2 DEF Launched
<1>4. x \notin {"record", "loop", "ended"}
  OBVIOUS
<1> QED BY <1>1, <1>2, <1>3, <1>4 DEF QueueOK

LEMMA QueueEnsured == ASSUME Typed, QueueOK, OrchEnsure PROVE QueueOK'
<1>1. /\ orch.pc \in Ensuring /\ orch' = [orch EXCEPT !.pc = orch'.pc] /\ UNCHANGED <<only, runs>>
      /\ orch'.pc \in {"classify", "write", "raise", "record"}
  BY OrchEnsureMoves
<1>2. orch = [NoOrchestrator EXCEPT !.pc = orch.pc]
  BY <1>1 DEF QueueOK
<1>3. orch' = [NoOrchestrator EXCEPT !.pc = orch'.pc]
  BY <1>1, <1>2 DEF NoOrchestrator
<1>4. orch'.running = {} /\ orch'.done = {} /\ orch'.recorded = 0 /\ orch'.jobs = <<>>
  BY <1>3, ResetFields
<1>5. Launched' = {} /\ Plan' = Plan /\ Len(Plan) \in Nat
  BY <1>1, <1>4, PlanSame, PlanFacts DEF Launched
<1>6. orch'.pc \notin {"loop", "ended"} /\ Len(orch'.jobs) = 0
  BY <1>1, <1>4
<1>7. orch'.pc = "record" =>
       /\ orch'.recorded <= Len(Plan)' /\ Len(orch'.jobs) = orch'.recorded
       /\ \A j \in 1..orch'.recorded : orch'.jobs[j] = Plan'[j]
  BY <1>4, <1>5, <1>6
<1> QED BY <1>3, <1>4, <1>5, <1>6, <1>7 DEF QueueOK

LEMMA QueueRecorded == ASSUME Typed, QueueOK, OrchRecord PROVE QueueOK'
<1>1. /\ orch.pc = "record" /\ orch'.running = orch.running /\ orch'.done = orch.done /\ UNCHANGED <<only, runs>>
  BY OrchRecordMoves
<1>2. /\ Launched = {} /\ orch.recorded <= Len(Plan) /\ Len(orch.jobs) = orch.recorded
      /\ \A j \in 1..orch.recorded : orch.jobs[j] = Plan[j]
  BY <1>1 DEF QueueOK
<1>3. Launched' = {} /\ Plan' = Plan /\ Len(Plan) \in Nat /\ orch.recorded \in Nat /\ orch.jobs \in Seq(Pairs)
  BY <1>1, <1>2, PlanSame, PlanFacts, OrchTyped DEF Launched
<1>4. CASE /\ orch.recorded < Len(Plan) /\ orch'.pc = "record" /\ orch'.recorded = orch.recorded + 1
           /\ orch'.jobs = Append(orch.jobs, Plan[orch.recorded + 1]) /\ Plan[orch.recorded + 1] \in Pairs
  <2>1. /\ Len(orch'.jobs) = orch.recorded + 1 /\ orch'.jobs[orch.recorded + 1] = Plan[orch.recorded + 1]
        /\ \A j \in 1..orch.recorded : orch'.jobs[j] = orch.jobs[j]
    <3> DEFINE q == Plan[orch.recorded + 1]
    <3>1. /\ Len(Append(orch.jobs, q)) = Len(orch.jobs) + 1 /\ Append(orch.jobs, q)[Len(orch.jobs) + 1] = q
          /\ \A j \in 1..Len(orch.jobs) : Append(orch.jobs, q)[j] = orch.jobs[j]
      <4>1. orch.jobs \in Seq(Pairs) /\ q \in Pairs
        BY <1>3, <1>4
      <4> HIDE DEF q
      <4> QED BY <4>1, AppendProperties
    <3> QED BY <1>2, <1>4, <3>1
  <2>2. ASSUME NEW j \in 1..(orch.recorded + 1) PROVE orch'.jobs[j] = Plan[j]
    <3>1. j = orch.recorded + 1 \/ j \in 1..orch.recorded
      BY <1>3
    <3> QED BY <1>2, <2>1, <3>1
  <2>3. orch.done = {} /\ orch'.done = {} /\ orch'.pc \notin {"off", "raise", "loop", "ended"} \cup Ensuring
    BY <1>1, <1>2, <1>4 DEF Launched, Ensuring
  <2> QED BY <1>3, <1>4, <2>1, <2>2, <2>3 DEF QueueOK
<1>5. CASE orch.recorded >= Len(Plan) /\ orch' = [orch EXCEPT !.pc = "loop"]
  <2>1. orch'.pc = "loop" /\ orch'.jobs = orch.jobs
    BY <1>5 DEF Typed, Orchestrators
  <2>2. Len(orch.jobs) = Len(Plan) /\ Begun' = 0
    BY <1>2, <1>3, <1>5, <2>1 DEF Begun
  <2>3. \A j \in 1..Len(orch.jobs) : orch.jobs[j] = Plan[0 + j]
    BY <1>2, <1>3, <2>2
  <2>4. Cardinality(Launched') = 0 /\ orch'.done = {}
    BY <1>1, <1>2, <1>3, FS_EmptySet DEF Launched
  <2>5. orch'.pc \notin {"off", "raise", "record", "ended"} \cup Ensuring
    BY <2>1 DEF Ensuring
  <2>6. 1..0 = {}
    OBVIOUS
  <2> QED BY <1>3, <2>1, <2>2, <2>3, <2>4, <2>5, <2>6 DEF QueueOK
<1> QED BY <1>4, <1>5, OrchRecordMoves

LEMMA QueueTurned == ASSUME Typed, QueueOK, OrchPass PROVE QueueOK'
<1>1. PICK k, finished : k \in 0..Len(orch.jobs) /\ Turned(k, finished)
  BY PassMoves
<1>2. /\ finished = {i \in orch.running : runs[i].pc = "gone"} /\ Started(k)
      /\ \A j \in 1..k : runs'[Len(runs) + j] = Worker(orch.jobs[j], "worker")
      /\ Len(orch'.jobs) = Len(orch.jobs) - k
      /\ \A j \in 1..(Len(orch.jobs) - k) : orch'.jobs[j] = orch.jobs[k + j]
      /\ orch'.running = (orch.running \ finished) \cup Fresh(k) /\ orch'.done = orch.done \cup finished
      /\ orch'.pc = IF orch.jobs = <<>> /\ orch.running \ finished = {} THEN "ended" ELSE "loop"
      /\ orch'.jobs \in Seq(Pairs)
  BY <1>1 DEF Turned
<1>3. orch.pc = "loop" /\ Plan' = Plan /\ Len(Plan) \in Nat /\ Len(runs) \in Nat /\ Len(orch.jobs) \in Nat /\ k \in Nat
  BY <1>1, PassMoves, PlanSame, PlanFacts, OrchTyped
<1>4. /\ Launched \subseteq 1..Len(runs) /\ \A i \in orch.done : runs[i].pc = "gone"
      /\ Len(orch.jobs) <= Len(Plan) /\ Cardinality(Launched) = Begun
      /\ \A j \in 1..Len(orch.jobs) : orch.jobs[j] = Plan[Begun + j]
      /\ \A j \in 1..Begun : \E i \in Launched : runs[i].pair = Plan[j]
      /\ \A i \in Launched : \E j \in 1..Begun : runs[i].pair = Plan[j]
  BY <1>3 DEF QueueOK
<1>5. /\ Len(runs') = Len(runs) + k /\ \A i \in 1..Len(runs) : runs'[i] = runs[i]
  BY <1>2 DEF Started
<1>6. Launched' = Launched \cup Fresh(k)
  BY <1>2 DEF Launched
<1>7. Launched' \subseteq 1..Len(runs')
  <2>1. Fresh(k) = (Len(runs) + 1)..Len(runs')
    BY <1>5 DEF Fresh
  <2>2. \A i \in Fresh(k) : i \in 1..Len(runs')
    BY <1>3, <1>5, <2>1
  <2>3. \A i \in 1..Len(runs) : i \in 1..Len(runs')
    BY <1>3, <1>5
  <2> QED BY <1>4, <1>6, <2>2, <2>3
<1>8. \A i \in orch'.done : runs'[i].pc = "gone"
  BY <1>2, <1>4, <1>5 DEF Launched
<1>9. Begun' = Begun + k /\ Begun \in Nat
  BY <1>1, <1>2, <1>3, <1>4 DEF Begun
<1>10. Cardinality(Launched') = Begun'
  <2>1. IsFiniteSet(Launched) /\ Cardinality(Launched) \in Nat
    BY <1>3, <1>4, UptoFinite
  <2>2. IsFiniteSet(Fresh(k)) /\ Cardinality(Fresh(k)) = k
    <3>1. Len(runs) + 1 \in Int /\ Len(runs) + k \in Int
      BY <1>3
    <3>2. IsFiniteSet(Fresh(k)) /\ Cardinality(Fresh(k)) = IF Len(runs) + 1 > Len(runs) + k THEN 0 ELSE (Len(runs) + k) - (Len(runs) + 1) + 1
      BY <3>1, FS_Interval DEF Fresh
    <3> QED BY <1>3, <3>2
  <2>3. Launched \cap Fresh(k) = {}
    BY <1>3, <1>4 DEF Fresh
  <2>4. Cardinality(Launched \cup Fresh(k)) = Cardinality(Launched) + Cardinality(Fresh(k))
    BY <2>1, <2>2, <2>3, DisjointCard
  <2> QED BY <1>4, <1>6, <1>9, <2>2, <2>4
<1>11. \A j \in 1..Len(orch'.jobs) : orch'.jobs[j] = Plan[Begun' + j]
  <2>1. ASSUME NEW j \in 1..(Len(orch.jobs) - k) PROVE orch'.jobs[j] = Plan[(Begun + k) + j]
    <3>1. k + j \in 1..Len(orch.jobs) /\ Begun + (k + j) = (Begun + k) + j
      BY <1>1, <1>3, <1>9
    <3> QED BY <1>2, <1>4, <3>1
  <2> QED BY <1>2, <1>9, <2>1
<1>12. ASSUME NEW j \in 1..k
       PROVE  Len(runs) + j \in Fresh(k) /\ Begun + j \in 1..Begun' /\ runs'[Len(runs) + j].pair = Plan[Begun + j]
  <2>1. Len(runs) + j \in Fresh(k) /\ Begun + j \in 1..Begun' /\ j \in 1..Len(orch.jobs)
    BY <1>1, <1>3, <1>9 DEF Fresh
  <2>2. runs'[Len(runs) + j] = Worker(orch.jobs[j], "worker")
    BY <1>2
  <2>3. runs'[Len(runs) + j].pair = orch.jobs[j]
    BY <2>2 DEF Worker
  <2> QED BY <1>4, <2>1, <2>3
<1>13. ASSUME NEW j \in 1..Begun' PROVE \E i \in Launched' : runs'[i].pair = Plan[j]
  <2>1. CASE j \in 1..Begun
    <3>1. PICK i \in Launched : runs[i].pair = Plan[j]
      BY <1>4, <2>1
    <3> QED BY <1>4, <1>5, <1>6, <3>1
  <2>2. CASE j \notin 1..Begun
    <3>1. j - Begun \in 1..k /\ Begun + (j - Begun) = j
      BY <1>3, <1>9, <2>2
    <3>2. Len(runs) + (j - Begun) \in Fresh(k) /\ runs'[Len(runs) + (j - Begun)].pair = Plan[j]
      BY <1>12, <3>1
    <3> QED BY <1>6, <3>2
  <2> QED BY <2>1, <2>2
<1>14. ASSUME NEW i \in Launched' PROVE \E j \in 1..Begun' : runs'[i].pair = Plan[j]
  <2>1. CASE i \in Launched
    <3>1. PICK j \in 1..Begun : runs[i].pair = Plan[j]
      BY <1>4, <2>1
    <3>2. runs'[i] = runs[i]
      BY <1>4, <1>5, <2>1
    <3>3. j \in 1..Begun'
      BY <1>3, <1>9
    <3> QED BY <3>1, <3>2, <3>3
  <2>2. CASE i \in Fresh(k)
    <3>1. i - Len(runs) \in 1..k /\ Len(runs) + (i - Len(runs)) = i
      BY <1>3, <2>2 DEF Fresh
    <3>2. Begun + (i - Len(runs)) \in 1..Begun' /\ runs'[i].pair = Plan[Begun + (i - Len(runs))]
      BY <1>12, <3>1
    <3> QED BY <3>2
  <2> QED BY <1>6, <2>1, <2>2
<1>15. orch'.pc = "ended" => orch'.jobs = <<>> /\ orch'.running = {}
  <2> SUFFICES ASSUME orch'.pc = "ended" PROVE orch'.jobs = <<>> /\ orch'.running = {}
    OBVIOUS
  <2>1. orch.jobs = <<>> /\ orch.running \ finished = {}
    BY <1>2
  <2>2. k = 0 /\ Len(orch'.jobs) = 0
    BY <1>1, <1>2, <2>1
  <2>3. orch'.jobs = <<>>
    BY <1>2, <2>2, EmptySeq
  <2>4. Fresh(k) = {}
    BY <1>3, <2>2 DEF Fresh
  <2> QED BY <1>2, <2>1, <2>3, <2>4
<1>16. orch'.pc \notin {"off", "raise", "record"} \cup Ensuring /\ Len(orch'.jobs) <= Len(Plan)
  BY <1>1, <1>2, <1>3, <1>4 DEF Ensuring
<1> QED BY <1>3, <1>7, <1>8, <1>10, <1>11, <1>13, <1>14, <1>15, <1>16 DEF QueueOK

LEMMA QueueKept == ASSUME CampaignInv, CampaignNext PROVE QueueOK'
<1>1. Typed /\ QueueOK /\ ReportOK /\ Grow
  BY Grows DEF CampaignInv
<1>2. CASE UNCHANGED orch
  BY <1>1, <1>2, QueueRests
<1>3. CASE OrchStart \/ KillOrch
  BY <1>1, <1>3, OrchStartMoves, KillOrchMoves, QueueReset
<1>4. CASE OrchEnsure \/ OrchRecord \/ OrchPass
  BY <1>1, <1>4, QueueEnsured, QueueRecorded, QueueTurned
<1>5. ASSUME ReportStart \/ ReportEnsure \/ ReportRow \/ ReportFiles PROVE UNCHANGED orch
  BY <1>5 DEF ReportStart, ReportEnsure, ReportRow, ReportFiles
<1>6. ASSUME NEW p \in Solo, Execute(p) PROVE UNCHANGED orch
  BY <1>1, <1>6, ExecuteMoves
<1>7. ASSUME NEW i \in DOMAIN runs, RunStep(i) \/ Kill(i) PROVE UNCHANGED orch
  BY <1>1, <1>7, RunMoves DEF Moved
<1> QED BY <1>2, <1>3, <1>4, <1>5, <1>6, <1>7 DEF CampaignNext, CampaignStep

-----------------------------------------------------------------------------
(* The budgets.                                                             *)

LEMMA BudgetRests == ASSUME Typed, QueueOK, FitsBudget, Grow, orch'.running = orch.running PROVE FitsBudget'
<1>1. \A i \in orch.running : runs'[i].pair = runs[i].pair
  BY DEF QueueOK, Launched, Grow
<1>2. HeavyOf(orch.running)' = HeavyOf(orch.running)
  BY <1>1 DEF HeavyOf
<1> QED BY <1>2 DEF FitsBudget

LEMMA BudgetEmpty == ASSUME orch'.running = {} PROVE FitsBudget'
<1>1. HeavyOf(orch.running)' = {}
  BY DEF HeavyOf
<1> QED BY <1>1, FS_EmptySet, BudgetAssumption DEF FitsBudget

LEMMA BudgetTurned == ASSUME Typed, QueueOK, FitsBudget, OrchPass PROVE FitsBudget'
<1>1. PICK k, finished : k \in 0..Len(orch.jobs) /\ Turned(k, finished)
  BY PassMoves
<1> DEFINE alive == orch.running \ finished
           Heavy == {j \in 1..k : orch.jobs[j] \in HEAVY}
           Shifted == {Len(runs) + j : j \in Heavy}
<1>2. /\ Started(k) /\ \A j \in 1..k : runs'[Len(runs) + j] = Worker(orch.jobs[j], "worker")
      /\ MayLaunch(orch.jobs, alive, k) /\ orch'.running = alive \cup Fresh(k)
  BY <1>1 DEF Turned
<1>3. Len(runs) \in Nat /\ k \in Nat /\ alive \subseteq 1..Len(runs) /\ orch.running \subseteq 1..Len(runs)
  BY <1>1, OrchTyped DEF QueueOK, Launched
<1>4. /\ Cardinality(orch.running) <= MaxProcs /\ Cardinality(HeavyOf(orch.running)) <= HeavyProcs
      /\ MaxProcs \in Nat /\ HeavyProcs \in Nat
  BY BudgetAssumption DEF FitsBudget
<1>5. /\ IsFiniteSet(alive) /\ Cardinality(alive) \in Nat /\ Cardinality(alive) <= MaxProcs
  <2>1. IsFiniteSet(orch.running) /\ Cardinality(orch.running) \in Nat
    BY <1>3, UptoFinite
  <2>2. IsFiniteSet(alive) /\ Cardinality(alive) <= Cardinality(orch.running)
    BY <2>1, FS_Subset
  <2> QED BY <1>4, <2>1, <2>2, FS_CardinalityType
<1>6. /\ IsFiniteSet(HeavyOf(alive)) /\ Cardinality(HeavyOf(alive)) \in Nat /\ Cardinality(HeavyOf(alive)) <= HeavyProcs
  <2>1. HeavyOf(alive) \subseteq HeavyOf(orch.running) /\ HeavyOf(orch.running) \subseteq 1..Len(runs)
    BY <1>3 DEF HeavyOf
  <2>2. IsFiniteSet(HeavyOf(orch.running)) /\ Cardinality(HeavyOf(orch.running)) \in Nat
    BY <1>3, <2>1, UptoFinite
  <2>3. IsFiniteSet(HeavyOf(alive)) /\ Cardinality(HeavyOf(alive)) <= Cardinality(HeavyOf(orch.running))
    BY <2>1, <2>2, FS_Subset
  <2> QED BY <1>4, <2>2, <2>3, FS_CardinalityType
<1>7. \A i \in 1..k : /\ Cardinality(alive) + i - 1 < MaxProcs
                      /\ orch.jobs[i] \in HEAVY =>
                           Cardinality(HeavyOf(alive)) + Cardinality({j \in 1..(i - 1) : orch.jobs[j] \in HEAVY}) < HeavyProcs
  BY <1>2 DEF MayLaunch
<1>8. Cardinality(orch'.running) <= MaxProcs
  <2>1. IsFiniteSet(Fresh(k)) /\ Cardinality(Fresh(k)) = k
    <3>1. Len(runs) + 1 \in Int /\ Len(runs) + k \in Int
      BY <1>3
    <3>2. IsFiniteSet(Fresh(k)) /\ Cardinality(Fresh(k)) = IF Len(runs) + 1 > Len(runs) + k THEN 0 ELSE (Len(runs) + k) - (Len(runs) + 1) + 1
      BY <3>1, FS_Interval DEF Fresh
    <3> QED BY <1>3, <3>2
  <2>2. alive \cap Fresh(k) = {}
    BY <1>3 DEF Fresh
  <2>3. Cardinality(alive \cup Fresh(k)) = Cardinality(alive) + k
    <3> HIDE DEF alive
    <3> QED BY <1>5, <2>1, <2>2, DisjointCard
  <2>4. CASE k = 0
    BY <1>2, <1>5, <2>3, <2>4
  <2>5. CASE k # 0
    <3>1. k \in 1..k
      BY <1>3, <2>5
    <3>2. Cardinality(alive) + k - 1 < MaxProcs
      BY <1>7, <3>1
    <3> HIDE DEF alive
    <3> QED BY <1>2, <1>3, <1>4, <1>5, <2>3, <3>2
  <2> QED BY <2>4, <2>5
<1>9. HeavyOf(orch.running)' = HeavyOf(alive) \cup Shifted
  <2>1. ASSUME NEW i \in alive PROVE runs'[i] = runs[i]
    BY <1>2, <1>3, <2>1 DEF Started
  <2>2. ASSUME NEW j \in 1..k PROVE runs'[Len(runs) + j].pair = orch.jobs[j]
    <3>1. runs'[Len(runs) + j] = Worker(orch.jobs[j], "worker")
      BY <1>2
    <3> QED BY <3>1 DEF Worker
  <2>3. \A i \in Fresh(k) : i - Len(runs) \in 1..k /\ Len(runs) + (i - Len(runs)) = i
    BY <1>3 DEF Fresh
  <2>4. \A j \in 1..k : Len(runs) + j \in Fresh(k)
    BY <1>3 DEF Fresh
  <2>5. HeavyOf(orch.running)' = {i \in alive \cup Fresh(k) : runs'[i].pair \in HEAVY}
    BY <1>2 DEF HeavyOf
  <2>6. {i \in alive : runs'[i].pair \in HEAVY} = HeavyOf(alive)
    BY <2>1 DEF HeavyOf
  <2>7. {i \in Fresh(k) : runs'[i].pair \in HEAVY} \subseteq Shifted
    <3>1. ASSUME NEW i \in Fresh(k), runs'[i].pair \in HEAVY PROVE i \in Shifted
      <4>1. i - Len(runs) \in Heavy
        BY <2>2, <2>3, <3>1
      <4> QED BY <2>3, <4>1
    <3> HIDE DEF Shifted
    <3> QED BY <3>1
  <2>8. Shifted \subseteq {i \in Fresh(k) : runs'[i].pair \in HEAVY}
    BY <2>2, <2>4
  <2> HIDE DEF alive, Shifted
  <2> QED BY <2>5, <2>6, <2>7, <2>8
<1>10. Heavy \subseteq 1..k /\ IsFiniteSet(Heavy) /\ Cardinality(Heavy) \in Nat
  BY <1>3, UptoFinite
<1>11. IsFiniteSet(Shifted) /\ Cardinality(Shifted) = Cardinality(Heavy)
  <2>1. Heavy \subseteq Int /\ Len(runs) \in Int
    BY <1>3
  <2> HIDE DEF Heavy
  <2> QED BY <1>10, <2>1, ShiftCard
<1>12. HeavyOf(alive) \cap Shifted = {}
  <2>1. \A i \in HeavyOf(alive) : i \in 1..Len(runs)
    BY <1>3 DEF HeavyOf
  <2>2. \A j \in Heavy : Len(runs) + j > Len(runs)
    BY <1>3
  <2>3. \A i \in Shifted : i > Len(runs)
    BY <2>2
  <2> HIDE DEF Shifted
  <2>4. ASSUME NEW i \in HeavyOf(alive), i \in Shifted PROVE FALSE
    <3>1. i \in 1..Len(runs) /\ i > Len(runs)
      BY <2>1, <2>3, <2>4
    <3> QED BY <1>3, <3>1
  <2> QED BY <2>4
<1>13. Cardinality(HeavyOf(orch.running)') = Cardinality(HeavyOf(alive)) + Cardinality(Heavy)
  <2> HIDE DEF Shifted, Heavy, alive
  <2> QED BY <1>6, <1>9, <1>11, <1>12, DisjointCard
<1>14. Cardinality(HeavyOf(alive)) + Cardinality(Heavy) <= HeavyProcs
  <2>1. CASE Heavy = {}
    <3> HIDE DEF Heavy, alive
    <3> QED BY <1>6, <2>1, FS_EmptySet
  <2>2. CASE Heavy # {}
    <3> DEFINE m == Max(Heavy)
               First == {j \in 1..(m - 1) : orch.jobs[j] \in HEAVY}
    <3>1. m \in Heavy /\ \A j \in Heavy : m >= j
      <4>1. Heavy \subseteq 0..k
        BY <1>3
      <4> HIDE DEF Heavy
      <4> QED BY <1>3, <2>2, <4>1, GreatestOf
    <3> HIDE DEF m
    <3>2. Heavy = First \cup {m} /\ m \notin First
      BY <1>3, <3>1
    <3>3. m \in 1..k /\ orch.jobs[m] \in HEAVY /\ m - 1 \in Nat
      BY <3>1
    <3>4. Cardinality(HeavyOf(alive)) + Cardinality(First) < HeavyProcs
      BY <1>7, <3>3
    <3>5. IsFiniteSet(First) /\ Cardinality(First) \in Nat
      BY <3>3, UptoFinite
    <3> HIDE DEF First, Heavy, alive
    <3>6. Cardinality(Heavy) = Cardinality(First) + 1
      BY <3>2, <3>5, FS_AddElement
    <3> QED BY <1>4, <1>6, <3>4, <3>5, <3>6
  <2> QED BY <2>1, <2>2
<1> QED BY <1>8, <1>13, <1>14 DEF FitsBudget

LEMMA BudgetKept == ASSUME CampaignInv, CampaignNext PROVE FitsBudget'
<1>1. Typed /\ QueueOK /\ FitsBudget /\ ReportOK /\ Grow
  BY Grows DEF CampaignInv
<1>2. CASE orch'.running = orch.running
  BY <1>1, <1>2, BudgetRests
<1>3. CASE OrchStart
  BY <1>1, <1>3, OrchStartMoves, ResetFields, BudgetEmpty DEF Reset
<1>4. CASE KillOrch
  BY <1>1, <1>4, KillOrchMoves, ResetFields, BudgetEmpty DEF Reset
<1>5. CASE OrchPass
  BY <1>1, <1>5, BudgetTurned
<1>6. CASE OrchEnsure
  <2>1. orch' = [orch EXCEPT !.pc = NextEnsure(orch.pc, "record")]
    BY <1>1, <1>6, OrchEnsureMoves
  <2>2. orch'.running = orch.running
    BY <1>1, <2>1 DEF Typed, Orchestrators
  <2> QED BY <1>2, <2>2
<1>7. CASE OrchRecord
  BY <1>1, <1>2, <1>7, OrchRecordMoves
<1>8. ASSUME ReportStart \/ ReportEnsure \/ ReportRow \/ ReportFiles PROVE UNCHANGED orch
  BY <1>8 DEF ReportStart, ReportEnsure, ReportRow, ReportFiles
<1>9. ASSUME NEW p \in Solo, Execute(p) PROVE UNCHANGED orch
  BY <1>1, <1>9, ExecuteMoves
<1>10. ASSUME NEW i \in DOMAIN runs, RunStep(i) \/ Kill(i) PROVE UNCHANGED orch
  BY <1>1, <1>10, RunMoves DEF Moved
<1> QED BY <1>2, <1>3, <1>4, <1>5, <1>6, <1>7, <1>8, <1>9, <1>10 DEF CampaignNext, CampaignStep

-----------------------------------------------------------------------------
(* How many runs there are.                                                 *)

Events == spent.starts + spent.events

LEMMA PendingNat == ASSUME Typed PROVE Pending \in Nat /\ (orch.pc \in Ensuring \cup {"record"} => Pending = Len(Plan))
<1>1. Len(Plan) \in Nat /\ Len(orch.jobs) \in Nat
  BY PlanFacts, OrchTyped
<1> QED BY <1>1 DEF Pending, Ensuring

\* Another event leaves room for another plan.
LEMMA MoreRoom ==
  ASSUME Typed, Typed', CountOK, Events < Events', NEW n \in Nat, n <= Len(runs) + Pending + Len(PLAN)
  PROVE  n <= Events' * Len(PLAN)
<1>1. Events \in Nat /\ Events' \in Nat /\ Len(runs) \in Nat
  BY SpentTyped, OrchTyped DEF Events, Typed
<1>2. Len(PLAN) \in Nat /\ Pending \in Nat
  BY PlanFacts, PendingNat
<1>3. Len(runs) + Pending <= Events * Len(PLAN)
  BY DEF CountOK, Events
<1>4. Events + 1 \in Nat /\ Events + 1 <= Events'
  BY <1>1
<1>5. (Events + 1) * Len(PLAN) = Events * Len(PLAN) + Len(PLAN) /\ Events * Len(PLAN) \in Nat
  BY <1>1, <1>2, TimesGrows
<1>6. (Events + 1) * Len(PLAN) <= Events' * Len(PLAN) /\ Events' * Len(PLAN) \in Nat
  BY <1>1, <1>2, <1>4, TimesGrows
<1> QED BY <1>1, <1>2, <1>3, <1>5, <1>6

LEMMA CountKept == ASSUME CampaignInv, CampaignNext PROVE CountOK'
<1>1. Typed /\ Typed' /\ QueueOK /\ ReportOK /\ CountOK
  BY TypedKept DEF CampaignInv
<1>2. Len(runs) + Pending <= Events * Len(PLAN)
  BY <1>1 DEF CountOK, Events
<1>3. /\ Len(runs) \in Nat /\ Len(runs') \in Nat /\ Len(Plan) \in Nat /\ Len(Plan) <= Len(PLAN) /\ Len(PLAN) \in Nat \ {0}
      /\ Len(orch.jobs) \in Nat /\ Pending \in Nat /\ Events * Len(PLAN) \in Nat /\ Events \in Nat
  <2>1. Events \in Nat
    BY <1>1, SpentTyped DEF Events
  <2>2. Len(runs') \in Nat
    BY <1>1 DEF Typed
  <2> QED BY <1>1, <2>1, <2>2, PlanFacts, OrchTyped, PendingNat, TimesGrows
<1>4. ASSUME UNCHANGED <<spent>>, Len(runs') + Pending' <= Len(runs) + Pending, Pending' \in Nat PROVE CountOK'
  <2>1. Events' = Events
    BY <1>4 DEF Events
  <2>2. Len(runs') + Pending' <= Events * Len(PLAN)
    BY <1>2, <1>3, <1>4
  <2> QED BY <2>1, <2>2 DEF CountOK, Events
<1>5. ASSUME Events < Events', Len(runs') + Pending' <= Len(runs) + Pending + Len(PLAN), Pending' \in Nat PROVE CountOK'
  <2>1. Len(runs') + Pending' \in Nat
    BY <1>3, <1>5
  <2>2. Len(runs') + Pending' <= Events' * Len(PLAN)
    BY <1>1, <1>5, <2>1, MoreRoom
  <2> QED BY <2>2 DEF CountOK, Events
<1>6. ASSUME UNCHANGED <<orch, only>> PROVE Pending' = Pending
  BY <1>6, PlanSame DEF Pending
<1>7. CASE OrchStart
  <2>1. Reset("ensure")
    BY <1>1, <1>7, OrchStartMoves
  <2>2. Pending' = Len(Plan) /\ Len(runs') = Len(runs) /\ Events < Events'
    BY <2>1, PlanSame DEF Reset, Pending, Ensuring, Events
  <2> QED BY <1>3, <1>5, <2>2
<1>8. CASE KillOrch
  <2>1. Reset("off")
    BY <1>1, <1>8, KillOrchMoves
  <2>2. Pending' = 0 /\ Len(runs') = Len(runs) /\ Events < Events'
    BY <2>1 DEF Reset, Pending, Ensuring, Events
  <2> QED BY <1>3, <1>5, <2>2
<1>9. CASE OrchEnsure
  <2>1. /\ orch.pc \in Ensuring /\ orch'.pc \in {"classify", "write", "raise", "record"} /\ UNCHANGED <<only, runs, spent>>
    BY <1>1, <1>9, OrchEnsureMoves
  <2>2. Pending = Len(Plan) /\ Pending' \in {0, Len(Plan)}
    BY <2>1, PlanSame DEF Pending, Ensuring
  <2> QED BY <1>3, <1>4, <2>1, <2>2
<1>10. CASE OrchRecord
  <2>1. orch.pc = "record" /\ UNCHANGED <<only, runs, spent>>
    BY <1>1, <1>10, OrchRecordMoves
  <2>2. Pending = Len(Plan) /\ Plan' = Plan
    BY <2>1, PlanSame DEF Pending
  <2>3. CASE orch'.pc = "record"
    <3>1. Pending' = Len(Plan)
      BY <2>2, <2>3 DEF Pending
    <3> QED BY <1>3, <1>4, <2>1, <2>2, <3>1
  <2>4. CASE orch' = [orch EXCEPT !.pc = "loop"]
    <3>1. orch'.pc = "loop" /\ orch'.jobs = orch.jobs
      BY <1>1, <2>4 DEF Typed, Orchestrators
    <3>2. Pending' = Len(orch.jobs)
      BY <3>1 DEF Pending, Ensuring
    <3>3. Len(orch.jobs) <= Len(Plan)
      BY <1>1, <2>1 DEF QueueOK
    <3> QED BY <1>3, <1>4, <2>1, <2>2, <3>2, <3>3
  <2> QED BY <1>1, <1>10, <2>3, <2>4, OrchRecordMoves
<1>11. CASE OrchPass
  <2>1. PICK k, finished : k \in 0..Len(orch.jobs) /\ Turned(k, finished)
    BY <1>1, <1>11, PassMoves
  <2>2. orch.pc = "loop" /\ UNCHANGED spent
    BY <1>1, <1>11, PassMoves
  <2>3. Pending = Len(orch.jobs)
    BY <2>2 DEF Pending, Ensuring
  <2>4. Len(runs') = Len(runs) + k /\ Len(orch'.jobs) = Len(orch.jobs) - k /\ orch'.pc \in {"loop", "ended"}
    BY <2>1 DEF Turned, Started
  <2>5. Pending' \in {0, Len(orch.jobs) - k}
    BY <2>4 DEF Pending, Ensuring
  <2> QED BY <1>3, <1>4, <2>1, <2>2, <2>3, <2>4, <2>5
<1>12. CASE ReportStart
  <2>1. UNCHANGED <<orch, only, runs>> /\ spent' = [spent EXCEPT !.events = @ + 1]
    BY <1>1, <1>12, ReportStartMoves
  <2>2. Events < Events'
    BY <1>1, <2>1, SpentLater, SpentTyped DEF Events
  <2> QED BY <1>3, <1>5, <1>6, <2>1, <2>2
<1>13. CASE ReportEnsure
  <2>1. UNCHANGED <<orch, only, runs, spent>>
    BY <1>1, <1>13, ReportEnsureMoves
  <2> QED BY <1>3, <1>4, <1>6, <2>1
<1>14. CASE ReportRow \/ ReportFiles
  <2>1. UNCHANGED <<orch, only, runs, spent>>
    BY <1>14 DEF ReportRow, ReportFiles
  <2> QED BY <1>3, <1>4, <1>6, <2>1
<1>15. ASSUME NEW p \in Solo, Execute(p) PROVE CountOK'
  <2>1. Len(runs') = Len(runs) + 1 /\ UNCHANGED <<orch, only>> /\ spent' = [spent EXCEPT !.events = @ + 1]
    BY <1>1, <1>15, ExecuteMoves DEF Started
  <2>2. Events < Events'
    BY <1>1, <2>1, SpentLater, SpentTyped DEF Events
  <2> QED BY <1>3, <1>5, <1>6, <2>1, <2>2
<1>16. ASSUME NEW i \in DOMAIN runs, RunStep(i) PROVE CountOK'
  <2>1. Len(runs') = Len(runs) /\ UNCHANGED <<orch, only>>
    BY <1>1, <1>16, RunMoves DEF Moved
  <2>2. UNCHANGED spent
    BY <1>16 DEF RunStep, Load, Unblock, WorkerEnsure, Record, Replay, Persist, Fail, Exit, KeepFiles
  <2> QED BY <1>3, <1>4, <1>6, <2>1, <2>2
<1>17. ASSUME NEW i \in DOMAIN runs, Kill(i) PROVE CountOK'
  <2>1. Len(runs') = Len(runs) /\ UNCHANGED <<orch, only>> /\ spent' = [spent EXCEPT !.events = @ + 1]
    BY <1>1, <1>17, KillMoves DEF Moved
  <2>2. Events < Events'
    BY <1>1, <2>1, SpentLater, SpentTyped DEF Events
  <2> QED BY <1>3, <1>5, <1>6, <2>1, <2>2
<1> QED
  BY <1>7, <1>8, <1>9, <1>10, <1>11, <1>12, <1>13, <1>14, <1>15, <1>16, <1>17 DEF CampaignNext, CampaignStep

-----------------------------------------------------------------------------
(* The registry is ahead.                                                   *)

\* At most one element more.
LEMMA OneMore ==
  ASSUME NEW n \in Nat, NEW T, T \subseteq 1..n, NEW x, NEW S, S \subseteq T \cup {x}
  PROVE  /\ Cardinality(S) \in Nat /\ Cardinality(T) \in Nat /\ Cardinality(S) <= Cardinality(T) + 1
         /\ S \subseteq T => Cardinality(S) <= Cardinality(T)
<1>1. IsFiniteSet(T) /\ Cardinality(T) \in Nat
  BY UptoFinite
<1>2. IsFiniteSet(T \cup {x}) /\ Cardinality(T \cup {x}) <= Cardinality(T) + 1
  <2>1. IsFiniteSet(T \cup {x}) /\ Cardinality(T \cup {x}) = IF x \in T THEN Cardinality(T) ELSE Cardinality(T) + 1
    BY <1>1, FS_AddElement
  <2> QED BY <1>1, <2>1
<1>3. IsFiniteSet(S) /\ Cardinality(S) <= Cardinality(T \cup {x})
  BY <1>2, FS_Subset
<1>4. Cardinality(S) \in Nat /\ Cardinality(T \cup {x}) \in Nat
  BY <1>2, <1>3, FS_CardinalityType
<1>5. S \subseteq T => Cardinality(S) <= Cardinality(T)
  BY <1>1, FS_Subset
<1> QED BY <1>1, <1>2, <1>3, <1>4, <1>5

\* A step that charges or queues one run more has written a line for it.
LEMMA AheadStays ==
  ASSUME Typed, Typed', NEW p \in Pairs, AheadOf(p), NEW x,
         \/ ChargedOf(p)' \subseteq ChargedOf(p) /\ QueuedOf(p)' \subseteq QueuedOf(p) /\ trials'[p] >= trials[p]
         \/ /\ ChargedOf(p)' \subseteq ChargedOf(p) \cup {x} /\ QueuedOf(p)' \subseteq QueuedOf(p)
            /\ trials'[p] >= trials[p] + 1
         \/ /\ ChargedOf(p)' \subseteq ChargedOf(p) /\ QueuedOf(p)' \subseteq QueuedOf(p) \cup {x}
            /\ trials'[p] >= trials[p] + 1
  PROVE  AheadOf(p)'
<1>1. trials[p] \in Nat /\ trials'[p] \in Nat /\ Len(runs) \in Nat /\ Len(orch.jobs) \in Nat
  BY OrchTyped DEF Typed
<1>2. ChargedOf(p) \subseteq 1..Len(runs) /\ QueuedOf(p) \subseteq 1..Len(orch.jobs)
  BY DEF ChargedOf, QueuedOf
<1>3. Cardinality(ChargedOf(p)) + Cardinality(QueuedOf(p)) <= trials[p]
  BY DEF AheadOf
<1> DEFINE C == ChargedOf(p)
           Q == QueuedOf(p)
<1>4. PICK c, q : c = ChargedOf(p)' /\ q = QueuedOf(p)'
  OBVIOUS
<1>5. /\ c \subseteq C \cup {x} => Cardinality(c) <= Cardinality(C) + 1 /\ Cardinality(c) \in Nat /\ Cardinality(C) \in Nat
      /\ c \subseteq C => Cardinality(c) <= Cardinality(C) /\ Cardinality(c) \in Nat /\ Cardinality(C) \in Nat
  <2> HIDE DEF C
  <2>1. C \subseteq 1..Len(runs)
    BY <1>2 DEF C
  <2> QED BY <1>1, <2>1, OneMore
<1>6. /\ q \subseteq Q \cup {x} => Cardinality(q) <= Cardinality(Q) + 1 /\ Cardinality(q) \in Nat /\ Cardinality(Q) \in Nat
      /\ q \subseteq Q => Cardinality(q) <= Cardinality(Q) /\ Cardinality(q) \in Nat /\ Cardinality(Q) \in Nat
  <2> HIDE DEF Q
  <2>1. Q \subseteq 1..Len(orch.jobs)
    BY <1>2 DEF Q
  <2> QED BY <1>1, <2>1, OneMore
<1>7. Cardinality(c) + Cardinality(q) <= trials'[p]
  <2>1. \/ c \subseteq C /\ q \subseteq Q /\ trials'[p] >= trials[p]
        \/ c \subseteq C \cup {x} /\ q \subseteq Q /\ trials'[p] >= trials[p] + 1
        \/ c \subseteq C /\ q \subseteq Q \cup {x} /\ trials'[p] >= trials[p] + 1
    BY <1>4, Zenon
  <2> HIDE DEF C, Q
  <2>2. Cardinality(C) + Cardinality(Q) <= trials[p]
    BY <1>3 DEF C, Q
  <2>3. CASE c \subseteq C /\ q \subseteq Q /\ trials'[p] >= trials[p]
    BY <1>1, <1>5, <1>6, <2>2, <2>3
  <2>4. CASE c \subseteq C \cup {x} /\ q \subseteq Q /\ trials'[p] >= trials[p] + 1
    <3>1. /\ Cardinality(c) <= Cardinality(C) + 1 /\ Cardinality(c) \in Nat /\ Cardinality(C) \in Nat
          /\ Cardinality(q) <= Cardinality(Q) /\ Cardinality(q) \in Nat /\ Cardinality(Q) \in Nat
      BY <1>5, <1>6, <2>4
    <3> QED BY <1>1, <2>2, <2>4, <3>1
  <2>5. CASE c \subseteq C /\ q \subseteq Q \cup {x} /\ trials'[p] >= trials[p] + 1
    <3>1. /\ Cardinality(c) <= Cardinality(C) /\ Cardinality(c) \in Nat /\ Cardinality(C) \in Nat
          /\ Cardinality(q) <= Cardinality(Q) + 1 /\ Cardinality(q) \in Nat /\ Cardinality(Q) \in Nat
      BY <1>5, <1>6, <2>5
    <3> QED BY <1>1, <2>2, <2>5, <3>1
  <2> QED BY <2>1, <2>3, <2>4, <2>5
<1> QED BY <1>4, <1>7 DEF AheadOf

\* The lines of a pair never get fewer.
LEMMA TrialsStay == ASSUME Typed, NEW p \in Pairs, NEW q, RunSignal(q) \/ UNCHANGED trials
                    PROVE  trials'[p] >= trials[p] /\ (RunSignal(q) /\ p = q => trials'[p] >= trials[p] + 1)
BY DEF Typed, RunSignal

LEMMA AheadRests ==
  ASSUME Typed, Typed', TrialsAhead, UNCHANGED <<trials, runs>>,
         \A p \in Pairs : QueuedOf(p)' \subseteq QueuedOf(p)
  PROVE  TrialsAhead'
<1>1. ASSUME NEW p \in Pairs PROVE AheadOf(p)'
  <2>1. ChargedOf(p)' \subseteq ChargedOf(p) /\ AheadOf(p)
    BY DEF ChargedOf, Charged, TrialsAhead
  <2>2. trials'[p] >= trials[p]
    BY DEF Typed
  <2> QED BY <2>1, <2>2, AheadStays
<1> QED BY <1>1 DEF TrialsAhead

LEMMA AheadRecorded == ASSUME Typed, Typed', TrialsAhead, OrchRecord PROVE TrialsAhead'
<1>1. UNCHANGED runs
  BY OrchRecordMoves
<1>2. CASE UNCHANGED trials /\ orch' = [orch EXCEPT !.pc = "loop"]
  <2>1. orch'.jobs = orch.jobs
    BY <1>2 DEF Typed, Orchestrators
  <2>2. \A p \in Pairs : QueuedOf(p)' \subseteq QueuedOf(p)
    BY <2>1 DEF QueuedOf
  <2> QED BY <1>1, <1>2, <2>2, AheadRests
<1>3. ASSUME NEW q \in Pairs, RunSignal(q), orch'.jobs = Append(orch.jobs, q), NEW p \in Pairs PROVE AheadOf(p)'
  <2> DEFINE x == Len(orch.jobs) + 1
  <2>1. orch.jobs \in Seq(Pairs) /\ Len(orch.jobs) \in Nat
    BY OrchTyped
  <2>2. /\ Len(orch'.jobs) = x /\ orch'.jobs[x] = q
        /\ \A j \in 1..Len(orch.jobs) : orch'.jobs[j] = orch.jobs[j]
    BY <1>3, <2>1, AppendProperties
  <2>3. \A j \in 1..x : j = x \/ j \in 1..Len(orch.jobs)
    BY <2>1
  <2>4. QueuedOf(p)' \subseteq QueuedOf(p) \cup {x} /\ (p # q => QueuedOf(p)' \subseteq QueuedOf(p))
    BY <2>2, <2>3 DEF QueuedOf
  <2>5. ChargedOf(p)' \subseteq ChargedOf(p) /\ AheadOf(p)
    BY <1>1 DEF ChargedOf, Charged, TrialsAhead
  <2>6. trials'[p] >= trials[p] /\ (p = q => trials'[p] >= trials[p] + 1)
    BY <1>3, TrialsStay
  <2> HIDE DEF x
  <2> QED BY <2>4, <2>5, <2>6, AheadStays
<1>4. CASE /\ RunSignal(Plan[orch.recorded + 1]) /\ orch'.jobs = Append(orch.jobs, Plan[orch.recorded + 1])
           /\ Plan[orch.recorded + 1] \in Pairs
  BY <1>3, <1>4 DEF TrialsAhead
<1> QED BY <1>2, <1>4, OrchRecordMoves

\* A turn of the loop moves runs from the queue to the processes.
LEMMA AheadTurned == ASSUME Typed, Typed', TrialsAhead, OrchPass PROVE TrialsAhead'
<1>1. PICK k, finished : k \in 0..Len(orch.jobs) /\ Turned(k, finished)
  BY PassMoves
<1>2. /\ \A j \in 1..k : runs'[Len(runs) + j] = Worker(orch.jobs[j], "worker")
      /\ Len(orch'.jobs) = Len(orch.jobs) - k
      /\ \A j \in 1..(Len(orch.jobs) - k) : orch'.jobs[j] = orch.jobs[k + j]
      /\ Len(runs') = Len(runs) + k /\ \A i \in 1..Len(runs) : runs'[i] = runs[i]
  BY <1>1 DEF Turned, Started
<1>3. UNCHANGED trials /\ Len(runs) \in Nat /\ Len(orch.jobs) \in Nat /\ k \in Nat
  BY <1>1, PassMoves, OrchTyped
<1>4. ASSUME NEW p \in Pairs PROVE AheadOf(p)'
  <2> DEFINE C == ChargedOf(p)
             Gone == {j \in 1..k : orch.jobs[j] = p}
             Left == {j \in 1..(Len(orch.jobs) - k) : orch.jobs[k + j] = p}
             Begin == {Len(runs) + j : j \in Gone}
             Later == {k + j : j \in Left}
  <2>1. Gone \subseteq Int /\ Left \subseteq Int /\ IsFiniteSet(Gone) /\ IsFiniteSet(Left)
        /\ Cardinality(Gone) \in Nat /\ Cardinality(Left) \in Nat
    <3>1. Gone \subseteq 1..k /\ Left \subseteq 1..(Len(orch.jobs) - k) /\ Len(orch.jobs) - k \in Nat
      BY <1>1, <1>3
    <3> HIDE DEF Gone, Left
    <3>2. Gone \subseteq Int /\ Left \subseteq Int
      BY <1>3, <3>1
    <3>3. IsFiniteSet(Gone) /\ Cardinality(Gone) \in Nat
      BY <1>3, <3>1, UptoFinite
    <3>4. IsFiniteSet(Left) /\ Cardinality(Left) \in Nat
      <4> DEFINE n == Len(orch.jobs) - k
      <4>1. n \in Nat /\ Left \subseteq 1..n
        BY <3>1
      <4> HIDE DEF n
      <4> QED BY <4>1, UptoFinite
    <3> QED BY <3>2, <3>3, <3>4
  <2>2. /\ IsFiniteSet(Begin) /\ Cardinality(Begin) = Cardinality(Gone)
        /\ IsFiniteSet(Later) /\ Cardinality(Later) = Cardinality(Left)
    <3> HIDE DEF Gone, Left
    <3>1. Len(runs) \in Int /\ k \in Int
      BY <1>3
    <3>2. IsFiniteSet(Begin) /\ Cardinality(Begin) = Cardinality(Gone)
      BY <2>1, <3>1, ShiftCard
    <3>3. IsFiniteSet(Later) /\ Cardinality(Later) = Cardinality(Left)
      BY <2>1, <3>1, ShiftCard
    <3> QED BY <3>2, <3>3
  <2>3. C \subseteq 1..Len(runs)
    BY DEF ChargedOf
  <2>4. IsFiniteSet(C) /\ Cardinality(C) \in Nat
    <3> HIDE DEF C
    <3> QED BY <1>3, <2>3, UptoFinite
  <2>5. PICK c, q : c = ChargedOf(p)' /\ q = QueuedOf(p)'
    OBVIOUS
  <2>6. c = C \cup Begin
    <3>1. \A i \in 1..Len(runs) : Charged(i)' <=> Charged(i)
      BY <1>2 DEF Charged
    <3>2. ASSUME NEW j \in 1..k, NEW i, i = Len(runs) + j PROVE runs'[i].pair = orch.jobs[j] /\ Charged(i)'
      <4>1. runs'[i] = Worker(orch.jobs[j], "worker")
        BY <1>2, <3>2
      <4> QED BY <4>1 DEF Worker, Charged
    <3>3. ASSUME NEW i \in c PROVE i \in C \cup Begin
      <4>1. i \in 1..Len(runs') /\ runs'[i].pair = p /\ Charged(i)'
        BY <2>5, <3>3 DEF ChargedOf
      <4>2. CASE i \in 1..Len(runs)
        BY <1>2, <3>1, <4>1, <4>2 DEF ChargedOf
      <4>3. CASE i \notin 1..Len(runs)
        <5>1. i - Len(runs) \in 1..k /\ Len(runs) + (i - Len(runs)) = i
          BY <1>2, <1>3, <4>1, <4>3
        <5>2. i - Len(runs) \in Gone
          BY <3>2, <4>1, <5>1
        <5> QED BY <5>1, <5>2
      <4> QED BY <4>2, <4>3
    <3>4. ASSUME NEW i \in C PROVE i \in c
      <4>1. i \in 1..Len(runs) /\ runs[i].pair = p /\ Charged(i)
        BY <3>4 DEF ChargedOf
      <4>2. i \in 1..Len(runs')
        BY <1>2, <1>3, <4>1
      <4> QED BY <1>2, <2>5, <3>1, <4>1, <4>2 DEF ChargedOf
    <3>5. ASSUME NEW j \in Gone, NEW i, i = Len(runs) + j PROVE i \in c
      <4>1. i \in 1..Len(runs') /\ j \in 1..k /\ orch.jobs[j] = p
        BY <1>2, <1>3, <3>5
      <4>2. runs'[i].pair = orch.jobs[j] /\ Charged(i)'
        BY <3>2, <3>5, <4>1
      <4> QED BY <2>5, <4>1, <4>2 DEF ChargedOf
    <3> HIDE DEF C, Gone
    <3> QED BY <3>3, <3>4, <3>5
  <2>7. C \cap Begin = {}
    <3>1. \A j \in Gone : Len(runs) + j > Len(runs)
      BY <1>3
    <3> HIDE DEF C, Gone
    <3>2. \A i \in C : i <= Len(runs)
      BY <1>3, <2>3
    <3>3. ASSUME NEW i \in C, i \in Begin PROVE FALSE
      <4>1. i > Len(runs) /\ i <= Len(runs) /\ i \in Int
        BY <1>3, <2>3, <3>1, <3>2, <3>3
      <4> QED BY <1>3, <4>1
    <3> HIDE DEF Begin
    <3> QED BY <3>3
  <2>8. q = Left
    BY <1>2, <2>5 DEF QueuedOf
  <2>9. QueuedOf(p) = Gone \cup Later
    <3>1. ASSUME NEW i \in QueuedOf(p) PROVE i \in Gone \cup Later
      <4>1. i \in 1..Len(orch.jobs) /\ orch.jobs[i] = p
        BY <3>1 DEF QueuedOf
      <4>2. CASE i \in 1..k
        BY <4>1, <4>2
      <4>3. CASE i \notin 1..k
        <5>1. i - k \in 1..(Len(orch.jobs) - k) /\ k + (i - k) = i
          BY <1>1, <1>3, <4>1, <4>3
        <5>2. i - k \in Left
          BY <4>1, <5>1
        <5> QED BY <5>1, <5>2
      <4> QED BY <4>2, <4>3
    <3>2. \A i \in Gone : i \in QueuedOf(p)
      BY <1>1, <1>3 DEF QueuedOf
    <3>3. ASSUME NEW j \in Left PROVE k + j \in QueuedOf(p)
      <4>1. k + j \in 1..Len(orch.jobs)
        BY <1>1, <1>3
      <4> QED BY <4>1 DEF QueuedOf
    <3> HIDE DEF Gone, Left
    <3> QED BY <3>1, <3>2, <3>3
  <2>10. Gone \cap Later = {}
    <3>1. ASSUME NEW j \in Left PROVE k + j \notin Gone
      <4>1. j \in 1..(Len(orch.jobs) - k)
        OBVIOUS
      <4> HIDE DEF Left
      <4>2. k + j \notin 1..k
        BY <1>3, <4>1
      <4>3. Gone \subseteq 1..k
        OBVIOUS
      <4> HIDE DEF Gone
      <4> QED BY <4>2, <4>3
    <3> HIDE DEF Gone, Left
    <3> QED BY <3>1
  <2>11. Cardinality(C) + Cardinality(QueuedOf(p)) <= trials[p]
    BY DEF TrialsAhead, AheadOf
  <2> HIDE DEF C, Gone, Left, Begin, Later
  <2>12. Cardinality(c) = Cardinality(C) + Cardinality(Gone)
    <3>1. Cardinality(C \cup Begin) = Cardinality(C) + Cardinality(Begin)
      BY <2>2, <2>4, <2>7, DisjointCard
    <3> QED BY <2>2, <2>6, <3>1
  <2>13. Cardinality(QueuedOf(p)) = Cardinality(Gone) + Cardinality(Left)
    <3>1. Cardinality(Gone \cup Later) = Cardinality(Gone) + Cardinality(Later)
      BY <2>1, <2>2, <2>10, DisjointCard
    <3> QED BY <2>2, <2>9, <3>1
  <2>14. Cardinality(c) + Cardinality(q) <= trials[p]
    BY <2>1, <2>4, <2>8, <2>11, <2>12, <2>13
  <2> QED BY <1>3, <2>5, <2>14 DEF AheadOf
<1> QED BY <1>4 DEF TrialsAhead

\* A run comes to its replay with a line.
LEMMA ChargedMoves ==
  ASSUME Typed, NEW i \in DOMAIN runs, RunOK(i), RunStep(i) \/ Kill(i), ~Record(i), Charged(i)'
  PROVE  Charged(i)
<1>1. runs[i].via \in {"worker", "execute"} /\ Moved(i)
  BY RunTyped, RunMoves
<1> USE DEF Charged, Moved, RunOK
<1>2. CASE Load(i)
  BY <1>1, <1>2, LoadMoves
<1>3. CASE Unblock(i)
  BY <1>1, <1>3, UnblockMoves
<1>4. CASE WorkerEnsure(i)
  BY <1>1, <1>4, EnsureMoves
<1>5. CASE Replay(i)
  BY <1>5, ReplayMoves
<1>6. CASE Persist(i)
  BY <1>6, PersistMoves
<1>7. CASE Fail(i)
  BY <1>1, <1>7, FailMoves
<1>8. CASE Exit(i)
  BY <1>1, <1>8, ExitMoves
<1>9. CASE Kill(i)
  BY <1>1, <1>9, KillMoves
<1> QED BY <1>2, <1>3, <1>4, <1>5, <1>6, <1>7, <1>8, <1>9 DEF RunStep

LEMMA TrialsKept == ASSUME CampaignInv, CampaignNext PROVE TrialsAhead'
<1>1. Typed /\ Typed' /\ RunsOK /\ QueueOK /\ ReportOK /\ TrialsAhead /\ Grow
  BY TypedKept, Grows DEF CampaignInv
<1>2. CASE OrchStart
  <2>1. UNCHANGED <<trials, runs>> /\ orch'.jobs = <<>>
    BY <1>1, <1>2, OrchStartMoves, ResetFields DEF Reset
  <2>2. \A p \in Pairs : QueuedOf(p)' \subseteq QueuedOf(p)
    BY <2>1 DEF QueuedOf
  <2> QED BY <1>1, <2>1, <2>2, AheadRests
<1>3. CASE KillOrch
  <2>1. UNCHANGED <<trials, runs>> /\ orch'.jobs = <<>>
    BY <1>1, <1>3, KillOrchMoves, ResetFields DEF Reset
  <2>2. \A p \in Pairs : QueuedOf(p)' \subseteq QueuedOf(p)
    BY <2>1 DEF QueuedOf
  <2> QED BY <1>1, <2>1, <2>2, AheadRests
<1>4. CASE OrchEnsure
  <2>1. UNCHANGED <<trials, runs>> /\ orch' = [orch EXCEPT !.pc = NextEnsure(orch.pc, "record")]
    BY <1>1, <1>4, OrchEnsureMoves
  <2>2. orch'.jobs = orch.jobs
    BY <1>1, <2>1 DEF Typed, Orchestrators
  <2>3. \A p \in Pairs : QueuedOf(p)' \subseteq QueuedOf(p)
    BY <2>2 DEF QueuedOf
  <2> QED BY <1>1, <2>1, <2>3, AheadRests
<1>5. CASE OrchRecord \/ OrchPass
  BY <1>1, <1>5, AheadRecorded, AheadTurned
<1>6. CASE ReportStart \/ ReportEnsure \/ ReportRow \/ ReportFiles
  <2>1. UNCHANGED <<trials, runs, orch>>
    BY <1>6 DEF ReportStart, ReportEnsure, ReportRow, ReportFiles
  <2>2. \A p \in Pairs : QueuedOf(p)' \subseteq QueuedOf(p)
    BY <2>1 DEF QueuedOf
  <2> QED BY <1>1, <2>1, <2>2, AheadRests
<1>7. ASSUME NEW s \in Solo, Execute(s), NEW p \in Pairs PROVE AheadOf(p)'
  <2> DEFINE n == Len(runs) + 1
  <2>1. Started(1) /\ runs'[n] = Worker(s, "execute") /\ UNCHANGED <<trials, orch>>
    BY <1>1, <1>7, ExecuteMoves
  <2>2. ASSUME NEW i, i = n PROVE ~Charged(i)'
    <3>1. runs'[i] = Worker(s, "execute")
      BY <2>1, <2>2
    <3> QED BY <3>1 DEF Charged, Worker
  <2>3. \A i \in 1..Len(runs) : runs'[i] = runs[i]
    BY <2>1 DEF Started
  <2>4. \A i \in 1..Len(runs') : i = n \/ i \in 1..Len(runs)
    BY <1>1, <2>1, OrchTyped DEF Started
  <2>5. ChargedOf(p)' \subseteq ChargedOf(p)
    BY <2>2, <2>3, <2>4 DEF ChargedOf, Charged
  <2>6. QueuedOf(p)' = QueuedOf(p) /\ trials'[p] >= trials[p] /\ AheadOf(p)
    BY <1>1, <2>1 DEF QueuedOf, Typed, TrialsAhead
  <2> QED BY <1>1, <2>5, <2>6, AheadStays
<1>8. ASSUME NEW i \in DOMAIN runs, RunStep(i) \/ Kill(i), NEW p \in Pairs PROVE AheadOf(p)'
  <2>1. Moved(i) /\ i \in 1..Len(runs) /\ RunOK(i) /\ AheadOf(p)
    BY <1>1, <1>8, RunMoves, RunTyped DEF RunsOK, TrialsAhead
  <2>2. Len(runs') = Len(runs) /\ UNCHANGED orch /\ \A j \in 1..Len(runs) : j # i => runs'[j] = runs[j]
    BY <2>1 DEF Moved
  <2>3. QueuedOf(p)' = QueuedOf(p) /\ ChargedOf(p)' \subseteq ChargedOf(p) \cup {i} /\ runs'[i].pair = runs[i].pair
    BY <2>1, <2>2 DEF QueuedOf, ChargedOf, Charged, Moved
  <2>4. CASE Record(i)
    <3>1. RunSignal(runs[i].pair)
      BY <2>4 DEF Record
    <3>2. CASE p = runs[i].pair
      <4>1. trials'[p] >= trials[p] + 1
        BY <1>1, <3>1, <3>2, TrialsStay
      <4> QED BY <1>1, <2>1, <2>3, <4>1, AheadStays
    <3>3. CASE p # runs[i].pair
      <4>1. ChargedOf(p)' \subseteq ChargedOf(p)
        BY <2>2, <2>3, <3>3 DEF ChargedOf, Charged
      <4>2. trials'[p] >= trials[p]
        BY <1>1, <3>1, TrialsStay
      <4> QED BY <1>1, <2>1, <2>3, <4>1, <4>2, AheadStays
    <3> QED BY <3>2, <3>3
  <2>5. CASE ~Record(i)
    <3>1. Charged(i)' => Charged(i)
      BY <1>1, <1>8, <2>1, <2>5, ChargedMoves
    <3>2. ChargedOf(p)' \subseteq ChargedOf(p)
      BY <2>1, <2>2, <2>3, <3>1 DEF ChargedOf
    <3>3. UNCHANGED trials
      BY <1>8, <2>5 DEF RunStep, Kill, Load, Unblock, WorkerEnsure, Replay, Persist, Fail, Exit, KeepFiles
    <3>4. trials'[p] >= trials[p]
      BY <1>1, <3>3 DEF Typed
    <3> QED BY <1>1, <2>1, <2>3, <3>2, <3>4, AheadStays
  <2> QED BY <2>4, <2>5
<1>9. ASSUME NEW s \in Solo, Execute(s) PROVE TrialsAhead'
  BY <1>7, <1>9 DEF TrialsAhead
<1>10. ASSUME NEW i \in DOMAIN runs, RunStep(i) \/ Kill(i) PROVE TrialsAhead'
  BY <1>8, <1>10 DEF TrialsAhead
<1> QED BY <1>2, <1>3, <1>4, <1>5, <1>6, <1>9, <1>10 DEF CampaignNext, CampaignStep

-----------------------------------------------------------------------------
(* The parquet of regimes.                                                  *)

\* Who passes the check without a race is alone with a file that is not whole.
LEMMA NoRace ==
  ASSUME Typed, NEW x \in Ensuring, EnsureRegimes(x), ~raced'
  PROVE  /\ ~raced /\ regimes' = EnsuredFile(x)
         /\ x = "ensure" /\ regimes # "whole" => ~Building(orch.pc) /\ ~Building(report.pc)
<1>1. ~raced /\ regimes' = EnsuredFile(x) /\ (x = "ensure" /\ regimes # "whole" => ~(Builders > 0))
  BY DEF EnsureRegimes
<1> DEFINE B == {i \in DOMAIN runs : runs[i].pc \in {"classify", "write"}}
<1>2. Cardinality(B) \in Nat
  <2>1. B \subseteq 1..Len(runs) /\ Len(runs) \in Nat
    BY RunTyped, OrchTyped
  <2> HIDE DEF B
  <2> QED BY <2>1, UptoFinite
<1>3. Builders = Cardinality(B) + (IF Building(orch.pc) THEN 1 ELSE 0) + (IF Building(report.pc) THEN 1 ELSE 0)
  BY DEF Builders, Building
<1> HIDE DEF B
<1>4. ~(Builders > 0) => ~Building(orch.pc) /\ ~Building(report.pc)
  BY <1>2, <1>3
<1> QED BY <1>1, <1>4

LEMMA RegimesKept == ASSUME CampaignInv, CampaignNext PROVE RegimesOK'
<1> SUFFICES ASSUME ~raced' PROVE OneBuilder'
  BY DEF RegimesOK
<1>1. Typed /\ RunsOK /\ ReportOK /\ (~raced => OneBuilder)
  BY DEF CampaignInv, RegimesOK
<1>2. ASSUME UNCHANGED <<regimes, raced>>
      PROVE  /\ regimes = "whole" => ~Building(orch.pc) /\ ~Building(report.pc)
             /\ ~(Building(orch.pc) /\ Building(report.pc))
             /\ orch.pc \in {"record", "loop", "ended"} => regimes = "whole"
             /\ \A i \in 1..Len(runs) :
                  /\ ~Building(runs[i].pc) /\ runs[i].pc # "cut" /\ runs[i].code # 4
                  /\ runs[i].via = "worker" => regimes = "whole"
  BY <1>1, <1>2 DEF OneBuilder
<1>3. CASE OrchStart
  <2>1. orch'.pc = "ensure" /\ UNCHANGED <<regimes, runs, report, raced>>
    BY <1>1, <1>3, OrchStartMoves DEF Reset
  <2> QED BY <1>2, <2>1 DEF OneBuilder, Building
<1>4. CASE KillOrch
  <2>1. orch'.pc = "off" /\ UNCHANGED <<regimes, runs, report, raced>>
    BY <1>1, <1>4, KillOrchMoves DEF Reset
  <2> QED BY <1>2, <2>1 DEF OneBuilder, Building
<1>5. CASE OrchEnsure
  <2>1. /\ orch.pc \in Ensuring /\ EnsureRegimes(orch.pc) /\ orch'.pc = NextEnsure(orch.pc, "record")
        /\ UNCHANGED <<runs, report>> /\ regimes \in {"none", "partial", "whole"}
    BY <1>1, <1>5, OrchEnsureMoves DEF Typed
  <2>2. /\ OneBuilder /\ regimes' = EnsuredFile(orch.pc)
        /\ orch.pc = "ensure" /\ regimes # "whole" => ~Building(report.pc)
    BY <1>1, <2>1, NoRace
  <2>3. CASE orch.pc = "ensure"
    <3>1. regimes' = regimes
      BY <2>2, <2>3 DEF EnsuredFile
    <3>2. /\ regimes = "whole" => orch'.pc = "record"
          /\ regimes # "whole" => orch'.pc \in {"classify", "raise"}
      BY <2>1, <2>3 DEF NextEnsure
    <3> QED BY <2>1, <2>2, <2>3, <3>1, <3>2 DEF OneBuilder, Building
  <2>4. CASE orch.pc = "classify"
    <3>1. regimes' = "partial" /\ orch'.pc = "write"
      BY <2>1, <2>2, <2>4 DEF EnsuredFile, NextEnsure
    <3> QED BY <2>1, <2>2, <2>4, <3>1 DEF OneBuilder, Building
  <2>5. CASE orch.pc = "write"
    <3>1. regimes' = "whole" /\ orch'.pc = "record"
      BY <2>1, <2>2, <2>5 DEF EnsuredFile, NextEnsure
    <3> QED BY <2>1, <2>2, <2>5, <3>1 DEF OneBuilder, Building
  <2> QED BY <2>1, <2>3, <2>4, <2>5 DEF Ensuring
<1>6. CASE OrchRecord
  <2>1. orch.pc = "record" /\ orch'.pc \in {"record", "loop"} /\ UNCHANGED <<regimes, runs, report, raced>>
    BY <1>1, <1>6, OrchRecordMoves DEF Typed, Orchestrators
  <2> QED BY <1>2, <2>1 DEF OneBuilder, Building
<1>7. CASE OrchPass
  <2>1. PICK k, finished : k \in 0..Len(orch.jobs) /\ Turned(k, finished)
    BY <1>1, <1>7, PassMoves
  <2>2. orch.pc = "loop" /\ orch'.pc \in {"loop", "ended"} /\ UNCHANGED <<regimes, report, raced>>
    BY <1>1, <1>7, <2>1, PassMoves DEF Turned
  <2>3. regimes = "whole"
    BY <1>2, <2>2
  <2>4. /\ Len(runs') = Len(runs) + k /\ \A i \in 1..Len(runs) : runs'[i] = runs[i]
        /\ \A j \in 1..k : runs'[Len(runs) + j] = Worker(orch.jobs[j], "worker")
    BY <2>1 DEF Turned, Started
  <2>5. ASSUME NEW i \in 1..Len(runs') PROVE ~Building(runs'[i].pc) /\ runs'[i].pc # "cut" /\ runs'[i].code # 4
    <3>1. CASE i \in 1..Len(runs)
      BY <1>2, <2>2, <2>4, <3>1
    <3>2. CASE i \notin 1..Len(runs)
      <4>1. i - Len(runs) \in 1..k /\ Len(runs) + (i - Len(runs)) = i
        BY <1>1, <2>1, <2>4, <3>2, OrchTyped
      <4>2. runs'[i] = Worker(orch.jobs[i - Len(runs)], "worker")
        BY <2>4, <4>1
      <4> QED BY <4>2 DEF Worker, Building
    <3> QED BY <3>1, <3>2
  <2> QED BY <1>2, <2>2, <2>3, <2>5 DEF OneBuilder, Building
<1>8. CASE ReportStart
  <2>1. report'.pc = "ensure" /\ UNCHANGED <<regimes, runs, orch, raced>>
    BY <1>1, <1>8, ReportStartMoves
  <2> QED BY <1>2, <2>1 DEF OneBuilder, Building
<1>9. CASE ReportEnsure
  <2>1. /\ report.pc \in Ensuring /\ EnsureRegimes(report.pc) /\ report'.pc = NextEnsure(report.pc, "rows")
        /\ UNCHANGED <<runs, orch>> /\ regimes \in {"none", "partial", "whole"}
    BY <1>1, <1>9, ReportEnsureMoves DEF Typed
  <2>2. /\ OneBuilder /\ regimes' = EnsuredFile(report.pc)
        /\ report.pc = "ensure" /\ regimes # "whole" => ~Building(orch.pc)
    BY <1>1, <2>1, NoRace
  <2>3. CASE report.pc = "ensure"
    <3>1. regimes' = regimes
      BY <2>2, <2>3 DEF EnsuredFile
    <3>2. /\ regimes = "whole" => report'.pc = "rows"
          /\ regimes # "whole" => report'.pc \in {"classify", "raise"}
      BY <2>1, <2>3 DEF NextEnsure
    <3> QED BY <2>1, <2>2, <2>3, <3>1, <3>2 DEF OneBuilder, Building
  <2>4. CASE report.pc = "classify"
    <3>1. regimes' = "partial" /\ report'.pc = "write"
      BY <2>1, <2>2, <2>4 DEF EnsuredFile, NextEnsure
    <3> QED BY <2>1, <2>2, <2>4, <3>1 DEF OneBuilder, Building
  <2>5. CASE report.pc = "write"
    <3>1. regimes' = "whole" /\ report'.pc = "rows"
      BY <2>1, <2>2, <2>5 DEF EnsuredFile, NextEnsure
    <3> QED BY <2>1, <2>2, <2>5, <3>1 DEF OneBuilder, Building
  <2> QED BY <2>1, <2>3, <2>4, <2>5 DEF Ensuring
<1>10. CASE ReportRow \/ ReportFiles
  <2>1. report'.pc \in {"done", "files", "raise", "rows"} /\ UNCHANGED <<regimes, runs, orch, raced>>
    <3>1. CASE ReportRow
      BY <1>1, <3>1, ReportRowMoves DEF ReportRow
    <3>2. CASE ReportFiles
      <4>1. report.left # <<>>
        BY <1>1, <3>2 DEF ReportOK, ReportFiles
      <4> QED BY <1>1, <3>2, <4>1, ReportFilesMoves DEF ReportFiles
    <3> QED BY <1>10, <3>1, <3>2
  <2> QED BY <1>2, <2>1 DEF OneBuilder, Building
<1>11. ASSUME NEW p \in Solo, Execute(p) PROVE OneBuilder'
  <2>1. Started(1) /\ runs'[Len(runs) + 1] = Worker(p, "execute") /\ UNCHANGED <<regimes, orch, report, raced>>
    BY <1>1, <1>11, ExecuteMoves
  <2>2. \A i \in 1..Len(runs) : runs'[i] = runs[i]
    BY <2>1 DEF Started
  <2>3. \A i \in 1..Len(runs') : i = Len(runs) + 1 \/ i \in 1..Len(runs)
    BY <1>1, <2>1, OrchTyped DEF Started
  <2>4. ASSUME NEW i \in 1..Len(runs')
        PROVE  /\ ~Building(runs'[i].pc) /\ runs'[i].pc # "cut" /\ runs'[i].code # 4
               /\ runs'[i].via = "worker" => regimes = "whole"
    <3>1. CASE i \in 1..Len(runs)
      BY <1>2, <2>1, <2>2, <3>1
    <3>2. CASE i = Len(runs) + 1
      BY <2>1, <3>2 DEF Worker, Building
    <3> QED BY <2>3, <3>1, <3>2
  <2> QED BY <1>2, <2>1, <2>4 DEF OneBuilder, Building
<1>12. ASSUME NEW i \in DOMAIN runs, RunStep(i) \/ Kill(i) PROVE OneBuilder'
  <2>1. Moved(i) /\ i \in 1..Len(runs) /\ RunOK(i) /\ runs[i].via \in {"worker", "execute"}
    BY <1>1, <1>12, RunMoves, RunTyped DEF RunsOK
  <2>2. /\ Len(runs') = Len(runs) /\ UNCHANGED <<orch, report>> /\ \A j \in 1..Len(runs) : j # i => runs'[j] = runs[j]
        /\ runs'[i].via = runs[i].via
    BY <2>1 DEF Moved
  <2>3. ~raced /\ OneBuilder
    <3>1. ASSUME ~WorkerEnsure(i) PROVE UNCHANGED raced
      BY <1>12, <3>1 DEF RunStep, Kill, Load, Unblock, Record, Replay, Persist, Fail, Exit, KeepFiles
    <3>2. ASSUME WorkerEnsure(i) PROVE ~raced
      BY <1>1, <3>2, EnsureMoves, NoRace
    <3> QED BY <1>1, <3>1, <3>2
  <2>4. ~Building(runs[i].pc) /\ runs[i].pc # "cut" /\ runs[i].code # 4 /\ (runs[i].via = "worker" => regimes = "whole")
    BY <2>1, <2>3 DEF OneBuilder
  <2>5. ~Building(runs'[i].pc) /\ runs'[i].pc # "cut" /\ runs'[i].code # 4 /\ UNCHANGED regimes
    <3> USE DEF Building
    <3>1. CASE Load(i)
      BY <1>1, <2>1, <2>4, <3>1, LoadMoves
    <3>2. CASE Unblock(i)
      BY <1>1, <2>4, <3>2, UnblockMoves
    <3>3. CASE WorkerEnsure(i)
      <4>1. runs[i].pc = "ensure" /\ regimes = "whole"
        BY <1>1, <2>1, <2>4, <3>3, EnsureMoves DEF RunOK, Ensuring
      <4>2. runs'[i].pc = "replay" /\ runs'[i].code = runs[i].code /\ EnsureRegimes("ensure")
        BY <1>1, <3>3, <4>1, EnsureMoves
      <4>3. UNCHANGED regimes
        BY <4>2 DEF EnsureRegimes, EnsuredFile
      <4> QED BY <2>4, <4>2, <4>3
    <3>4. CASE Record(i)
      BY <1>1, <2>4, <3>4, RecordMoves
    <3>5. CASE Replay(i)
      BY <1>1, <2>4, <3>5, ReplayMoves
    <3>6. CASE Persist(i)
      BY <1>1, <2>4, <3>6, PersistMoves DEF FileAfter
    <3>7. CASE Fail(i)
      <4>1. runs'[i].pc = "gone" /\ UNCHANGED regimes /\ runs'[i].code = IF runs[i].pc = "cut" THEN 4 ELSE 3
        BY <1>1, <3>7, FailMoves
      <4>2. runs'[i].code = 3
        BY <2>4, <4>1
      <4> QED BY <4>1, <4>2
    <3>8. CASE Exit(i)
      BY <1>1, <2>4, <3>8, ExitMoves
    <3>9. CASE Kill(i)
      BY <1>1, <3>9, KillMoves
    <3> QED BY <1>12, <3>1, <3>2, <3>3, <3>4, <3>5, <3>6, <3>7, <3>8, <3>9 DEF RunStep
  <2>6. ASSUME NEW j \in 1..Len(runs')
        PROVE  /\ ~Building(runs'[j].pc) /\ runs'[j].pc # "cut" /\ runs'[j].code # 4
               /\ runs'[j].via = "worker" => regimes = "whole"
    <3>1. CASE j = i
      BY <2>2, <2>4, <2>5, <3>1
    <3>2. CASE j # i
      BY <2>2, <2>3, <3>2 DEF OneBuilder
    <3> QED BY <3>1, <3>2
  <2>7. /\ regimes = "whole" => ~Building(orch.pc) /\ ~Building(report.pc)
        /\ ~(Building(orch.pc) /\ Building(report.pc))
        /\ orch.pc \in {"record", "loop", "ended"} => regimes = "whole"
    BY <2>3 DEF OneBuilder
  <2> QED BY <2>2, <2>5, <2>6, <2>7 DEF OneBuilder, Building
<1> QED BY <1>3, <1>4, <1>5, <1>6, <1>7, <1>8, <1>9, <1>10, <1>11, <1>12 DEF CampaignNext, CampaignStep

-----------------------------------------------------------------------------
(* What the invariant says of the campaign.                                 *)

\* Some --only has the most events.
LEMMA MostEvents ==
  ASSUME NEW o \in Onlys
  PROVE  Max(Range(MaxEvents)) \in Nat /\ MaxEvents[o] <= Max(Range(MaxEvents))
<1>1. IsFiniteSet(Onlys) /\ MaxEvents \in [Onlys -> Nat]
  BY PlanAssumption
<1>2. PICK n \in Nat : ExistsBijection(1..n, Onlys)
  BY <1>1, FS_NatBijection
<1>3. PICK f : f \in Bijection(1..n, Onlys)
  BY <1>2 DEF ExistsBijection
<1>4. f \in [1..n -> Onlys] /\ \A x \in Onlys : \E i \in 1..n : f[i] = x
  BY <1>3 DEF Bijection, Surjection
<1> DEFINE Bound(m, b) == \A i \in 1..m : MaxEvents[f[i]] <= b
           Good == {m \in Nat : m <= n => \E b \in Nat : Bound(m, b)}
<1>5. 0 \in Good
  <2>1. Bound(0, 0)
    OBVIOUS
  <2> HIDE DEF Bound
  <2> QED BY <2>1
<1>6. ASSUME NEW m \in Nat, m \in Good PROVE m + 1 \in Good
  <2>1. SUFFICES ASSUME m + 1 <= n PROVE \E b \in Nat : Bound(m + 1, b)
    OBVIOUS
  <2>2. m <= n
    BY <1>2, <2>1
  <2>3. PICK b \in Nat : Bound(m, b)
    <3> HIDE DEF Bound
    <3> QED BY <1>6, <2>2
  <2> DEFINE e == MaxEvents[f[m + 1]]
             c == IF e > b THEN e ELSE b
  <2>4. \A i \in 1..n : MaxEvents[f[i]] \in Nat
    BY <1>1, <1>4
  <2>5. e \in Nat /\ c \in Nat /\ e <= c /\ b <= c
    <3>1. m + 1 \in 1..n
      BY <1>2, <2>1
    <3>2. e \in Nat
      BY <2>4, <3>1
    <3> HIDE DEF e
    <3> QED BY <2>3, <3>2
  <2>6. ASSUME NEW i \in 1..(m + 1) PROVE MaxEvents[f[i]] <= c
    <3>1. i \in 1..n /\ MaxEvents[f[i]] \in Nat
      BY <1>2, <2>1, <2>4
    <3>2. CASE i = m + 1
      BY <2>5, <3>2
    <3>3. CASE i # m + 1
      <4>1. MaxEvents[f[i]] <= b
        BY <2>3, <3>3
      <4> HIDE DEF c, e
      <4> QED BY <2>3, <2>5, <3>1, <4>1
    <3> QED BY <3>2, <3>3
  <2> HIDE DEF c
  <2> QED BY <2>5, <2>6
<1>7. PICK b \in Nat : Bound(n, b)
  <2> HIDE DEF Good
  <2>1. Nat \subseteq Good
    BY <1>5, <1>6, NatSetInduction
  <2>2. n \in Good /\ n <= n
    BY <1>2, <2>1
  <2> QED BY <2>2 DEF Good
<1> DEFINE R == Range(MaxEvents)
<1>8. R \subseteq 0..b /\ R # {} /\ MaxEvents[o] \in R
  <2>1. R = {MaxEvents[x] : x \in Onlys}
    BY <1>1 DEF Range
  <2>2. ASSUME NEW x \in Onlys PROVE MaxEvents[x] \in 0..b
    <3>1. PICK i \in 1..n : f[i] = x
      BY <1>4
    <3>2. MaxEvents[x] \in Nat /\ MaxEvents[x] <= b
      BY <1>1, <1>7, <3>1
    <3> QED BY <1>7, <3>2
  <2> QED BY <2>1, <2>2
<1> HIDE DEF R
<1>9. Max(R) \in R /\ \A y \in R : Max(R) >= y
  BY <1>7, <1>8, GreatestOf
<1>10. Max(R) \in Nat /\ MaxEvents[o] <= Max(R)
  <2>1. \A y \in R : y \in Nat
    BY <1>7, <1>8
  <2>2. Max(R) >= MaxEvents[o]
    BY <1>8, <1>9
  <2> QED BY <1>8, <1>9, <2>1, <2>2
<1> QED BY <1>10 DEF R

LEMMA TypesMean == CampaignInv => CampaignTypeOK
<1> SUFFICES ASSUME CampaignInv PROVE CampaignTypeOK
  OBVIOUS
<1>1. Typed /\ DirsOK /\ QueueOK /\ CountOK
  BY DEF CampaignInv
<1>2. /\ Len(runs) \in Nat /\ Len(orch.jobs) \in Nat /\ DOMAIN runs = 1..Len(runs) /\ orch.jobs \in Seq(Pairs)
      /\ Plan \in Seq(Pairs) /\ Len(Plan) \in Nat /\ Len(PLAN) \in Nat
  BY <1>1, OrchTyped, PlanFacts DEF Typed
<1>3. DOMAIN runs \subseteq Ids
  <2> DEFINE M == Max(Range(MaxEvents))
  <2>1. M \in Nat /\ MaxEvents[only] <= M /\ MaxEvents[only] \in Nat
    BY <1>1, MostEvents, PlanAssumption DEF Typed
  <2> HIDE DEF M
  <2>2. Events \in Nat /\ Events <= 1 + M
    BY <1>1, <2>1, SpentTyped DEF Events
  <2>3. Events * Len(PLAN) <= (1 + M) * Len(PLAN) /\ Events * Len(PLAN) \in Nat /\ (1 + M) * Len(PLAN) \in Nat
    BY <1>2, <2>1, <2>2, TimesGrows
  <2>4. Len(runs) <= (1 + M) * Len(PLAN)
    <3>1. Len(runs) + Pending <= Events * Len(PLAN) /\ Pending \in Nat
      BY <1>1, PendingNat DEF CountOK, Events
    <3> QED BY <1>2, <2>3, <3>1
  <2>5. Ids = 1..((1 + M) * Len(PLAN))
    BY DEF Ids, M
  <2> DEFINE top == (1 + M) * Len(PLAN)
  <2>6. top \in Nat /\ Len(runs) <= top /\ Ids = 1..top
    BY <2>3, <2>4, <2>5
  <2> HIDE DEF top
  <2> QED BY <1>2, <2>6
<1>4. Range(orch.jobs) \subseteq Range(Plan)
  <2>1. SUFFICES ASSUME NEW j \in 1..Len(orch.jobs) PROVE \E n \in 1..Len(Plan) : orch.jobs[j] = Plan[n]
    <3>1. Range(orch.jobs) = {orch.jobs[j] : j \in 1..Len(orch.jobs)} /\ Range(Plan) = {Plan[n] : n \in 1..Len(Plan)}
      BY <1>2 DEF Range
    <3> QED BY <3>1
  <2>2. CASE orch.pc \in {"off", "raise"} \cup Ensuring
    <3>1. orch = [NoOrchestrator EXCEPT !.pc = orch.pc]
      BY <1>1, <2>2 DEF QueueOK
    <3>2. orch.jobs = <<>>
      BY <3>1, ResetFields, Zenon
    <3> QED BY <3>2
  <2>3. CASE orch.pc = "record"
    <3>1. /\ orch.recorded <= Len(Plan) /\ Len(orch.jobs) = orch.recorded
          /\ \A i \in 1..orch.recorded : orch.jobs[i] = Plan[i]
      BY <1>1, <2>3 DEF QueueOK
    <3>2. j \in 1..Len(Plan)
      BY <1>2, <3>1
    <3> QED BY <3>1, <3>2
  <2>4. CASE orch.pc \in {"loop", "ended"}
    <3>1. Len(orch.jobs) <= Len(Plan) /\ \A i \in 1..Len(orch.jobs) : orch.jobs[i] = Plan[Begun + i]
      BY <1>1, <2>4 DEF QueueOK
    <3>2. Begun + j \in 1..Len(Plan)
      BY <1>2, <3>1 DEF Begun
    <3> QED BY <3>1, <3>2
  <2> QED BY <1>1, <2>2, <2>3, <2>4, OrchTyped DEF OrchPcs
<1>5. orch.running \cup orch.done \subseteq DOMAIN runs
  BY <1>1, <1>2 DEF QueueOK, Launched
<1>6. ASSUME NEW p \in Pairs PROVE Range(rundirs[p]) \subseteq {0} \cup {i \in DOMAIN runs : runs[i].pair = p}
  <2>1. rundirs[p] \in Dirs /\ DirOK(p)
    BY <1>1 DEF Typed, DirsOK
  <2>2. Range(rundirs[p]) = {rundirs[p].ledger, rundirs[p].equity, rundirs[p].summary, rundirs[p].failure}
    <3>1. DOMAIN rundirs[p] = {"ledger", "equity", "summary", "failure"}
      BY <2>1 DEF Dirs
    <3> QED BY <3>1 DEF Range
  <2>3. ASSUME NEW n \in {rundirs[p].ledger, rundirs[p].equity, rundirs[p].summary, rundirs[p].failure}, n # 0
        PROVE  n \in 1..Len(runs) /\ runs[n].pair = p
    BY <2>1, <2>3 DEF DirOK, PlayedOf
  <2> QED BY <1>2, <2>2, <2>3
<1> QED BY <1>1, <1>3, <1>4, <1>5, <1>6 DEF CampaignTypeOK, Typed

LEMMA RecordedMeans == CampaignInv => RecordedFirst
<1> SUFFICES ASSUME CampaignInv, NEW p \in Pairs
             PROVE  Cardinality({i \in DOMAIN runs : runs[i].pair = p /\ runs[i].played}) <= trials[p]
  BY DEF RecordedFirst
<1> DEFINE P == {i \in DOMAIN runs : runs[i].pair = p /\ runs[i].played}
<1>1. Typed /\ Cardinality(ChargedOf(p)) + Cardinality(QueuedOf(p)) <= trials[p]
  BY DEF CampaignInv, TrialsAhead, AheadOf
<1>2. Len(runs) \in Nat /\ DOMAIN runs = 1..Len(runs) /\ Len(orch.jobs) \in Nat /\ trials[p] \in Nat
  BY <1>1, OrchTyped DEF Typed
<1>3. P \subseteq ChargedOf(p) /\ ChargedOf(p) \subseteq 1..Len(runs) /\ QueuedOf(p) \subseteq 1..Len(orch.jobs)
  BY <1>2 DEF ChargedOf, Charged, QueuedOf
<1> HIDE DEF P
<1>4. IsFiniteSet(ChargedOf(p)) /\ Cardinality(ChargedOf(p)) \in Nat /\ Cardinality(QueuedOf(p)) \in Nat
  BY <1>2, <1>3, UptoFinite
<1>5. Cardinality(P) <= Cardinality(ChargedOf(p)) /\ IsFiniteSet(P)
  BY <1>3, <1>4, FS_Subset
<1>6. Cardinality(P) \in Nat
  BY <1>5, FS_CardinalityType
<1>7. Cardinality(P) <= trials[p]
  BY <1>1, <1>2, <1>4, <1>5, <1>6
<1> QED BY <1>7 DEF P

LEMMA BudgetMeans == CampaignInv => WithinBudget
<1> SUFFICES ASSUME CampaignInv PROVE WithinBudget
  OBVIOUS
<1> DEFINE alive == {i \in orch.running : runs[i].pc # "gone"}
<1>1. Typed /\ QueueOK /\ FitsBudget
  BY DEF CampaignInv
<1>2. orch.running \subseteq 1..Len(runs) /\ Len(runs) \in Nat /\ MaxProcs \in Nat /\ HeavyProcs \in Nat
  BY <1>1, OrchTyped, BudgetAssumption DEF QueueOK, Launched
<1>3. alive \subseteq orch.running /\ HeavyOf(alive) \subseteq HeavyOf(orch.running) /\ HeavyOf(orch.running) \subseteq 1..Len(runs)
  BY <1>2 DEF HeavyOf
<1> HIDE DEF alive
<1>4. Cardinality(alive) <= Cardinality(orch.running) /\ Cardinality(alive) \in Nat /\ Cardinality(orch.running) \in Nat
  BY <1>2, <1>3, OneMore
<1>5. /\ Cardinality(HeavyOf(alive)) <= Cardinality(HeavyOf(orch.running)) /\ Cardinality(HeavyOf(alive)) \in Nat
      /\ Cardinality(HeavyOf(orch.running)) \in Nat
  BY <1>2, <1>3, OneMore
<1>6. Cardinality(alive) <= MaxProcs /\ Cardinality(HeavyOf(alive)) <= HeavyProcs
  BY <1>1, <1>2, <1>4, <1>5 DEF FitsBudget
<1> QED BY <1>6 DEF WithinBudget, alive

LEMMA EndedMeans == CampaignInv => EndedMeansDone
<1> SUFFICES ASSUME CampaignInv, orch.pc = "ended"
             PROVE  /\ {runs[i].pair : i \in orch.done} = Range(Plan) /\ Cardinality(orch.done) = Len(Plan)
                    /\ \A i \in orch.done : runs[i].pc = "gone"
  BY DEF EndedMeansDone
<1>1. QueueOK /\ Plan \in Seq(Pairs) /\ Len(Plan) \in Nat
  BY PlanFacts DEF CampaignInv
<1>2. /\ orch.jobs = <<>> /\ orch.running = {} /\ \A i \in orch.done : runs[i].pc = "gone"
      /\ Cardinality(Launched) = Begun
      /\ \A j \in 1..Begun : \E i \in Launched : runs[i].pair = Plan[j]
      /\ \A i \in Launched : \E j \in 1..Begun : runs[i].pair = Plan[j]
  BY <1>1 DEF QueueOK
<1>3. Launched = orch.done /\ Begun = Len(Plan)
  BY <1>1, <1>2 DEF Launched, Begun
<1>4. Range(Plan) = {Plan[j] : j \in 1..Len(Plan)}
  BY <1>1 DEF Range
<1>5. \A i \in orch.done : runs[i].pair \in Range(Plan)
  BY <1>2, <1>3, <1>4
<1>6. \A x \in Range(Plan) : \E i \in orch.done : runs[i].pair = x
  BY <1>2, <1>3, <1>4
<1> QED BY <1>2, <1>3, <1>5, <1>6

LEMMA WorkersMean == CampaignInv => WorkersSeeWhole
<1>1. ASSUME CampaignInv PROVE DOMAIN runs = 1..Len(runs) /\ (~raced => OneBuilder)
  BY <1>1 DEF CampaignInv, RegimesOK, Typed
<1> QED BY <1>1 DEF OneBuilder, WorkersSeeWhole

LEMMA ReportMeans == CampaignInv => ReportSeesWholeRuns
<1> SUFFICES ASSUME CampaignInv PROVE ReportSeesWholeRuns
  OBVIOUS
<1>1. Typed /\ ReportOK /\ Len(runs) \in Nat /\ DOMAIN runs = 1..Len(runs)
  BY OrchTyped DEF CampaignInv, Typed
<1>2. ASSUME report.mixed
      PROVE  \E k \in DOMAIN SPECS : Cardinality({i \in DOMAIN runs : runs[i].pair = OOS(SPECS[k]) /\ runs[i].played}) > 1
  <2>1. PICK name \in Signals : TwoPlayed(OOS(name))
    BY <1>1, <1>2 DEF ReportOK
  <2>2. PICK k \in DOMAIN SPECS : SPECS[k] = name
    BY DEF Signals, Range
  <2>3. PICK i \in Nat, j \in Nat : i # j /\ PlayedOf(i, OOS(name)) /\ PlayedOf(j, OOS(name))
    BY <2>1 DEF TwoPlayed
  <2> DEFINE P == {n \in DOMAIN runs : runs[n].pair = OOS(name) /\ runs[n].played}
  <2>4. {i, j} \subseteq P /\ P \subseteq 1..Len(runs)
    BY <1>1, <2>3 DEF PlayedOf
  <2> HIDE DEF P
  <2>5. IsFiniteSet(P) /\ Cardinality(P) \in Nat
    BY <1>1, <2>4, UptoFinite
  <2>6. Cardinality({i, j}) = 2
    <3>1. IsFiniteSet({i}) /\ Cardinality({i}) = 1
      BY FS_Singleton
    <3>2. Cardinality({i} \cup {j}) = Cardinality({i}) + 1
      BY <2>3, <3>1, FS_AddElement
    <3>3. {i} \cup {j} = {i, j}
      OBVIOUS
    <3> QED BY <3>1, <3>2, <3>3
  <2>7. Cardinality({i, j}) <= Cardinality(P)
    BY <2>4, <2>5, FS_Subset
  <2>8. Cardinality(P) > 1
    BY <2>5, <2>6, <2>7
  <2> QED BY <2>2, <2>8 DEF P
<1> QED BY <1>1, <1>2 DEF ReportSeesWholeRuns, ReportOK

LEMMA CampaignMeans == CampaignInv => CampaignSound
BY TypesMean, RecordedMeans, BudgetMeans, EndedMeans, WorkersMean, ReportMeans DEF CampaignSound

-----------------------------------------------------------------------------
(* The theorem.                                                             *)

\* A step that changes nothing keeps the invariant.
LEMMA CampaignStutters == ASSUME CampaignInv, UNCHANGED campaignVars PROVE CampaignInv'
<1>1. UNCHANGED <<only, regimes, trials, orch, runs, rundirs, report, spent, raced>>
  BY DEF campaignVars
<1>2. Plan' = Plan
  BY <1>1, PlanSame
<1>3. Typed'
  BY <1>1 DEF CampaignInv, Typed
<1>4. RunsOK'
  BY <1>1 DEF CampaignInv, RunsOK, RunOK
<1>5. DirsOK'
  BY <1>1 DEF CampaignInv, DirsOK, DirOK, PlayedOf
<1>6. ReportOK'
  BY <1>1 DEF CampaignInv, ReportOK, TwoPlayed, PlayedOf
<1>7. QueueOK'
  BY <1>1, <1>2 DEF CampaignInv, QueueOK, Launched, Begun
<1>8. FitsBudget'
  BY <1>1 DEF CampaignInv, FitsBudget, HeavyOf
<1>9. CountOK'
  BY <1>1, <1>2 DEF CampaignInv, CountOK, Pending
<1>10. TrialsAhead'
  BY <1>1 DEF CampaignInv, TrialsAhead, AheadOf, ChargedOf, Charged, QueuedOf
<1>11. RegimesOK'
  BY <1>1 DEF CampaignInv, RegimesOK, OneBuilder
<1> QED BY <1>3, <1>4, <1>5, <1>6, <1>7, <1>8, <1>9, <1>10, <1>11 DEF CampaignInv

\* Every reachable state of the campaign satisfies the invariant.
THEOREM CampaignInvariant == CampaignSpec => []CampaignInv
<1>1. CampaignInit => CampaignInv
  BY CampaignStarts
<1>2. CampaignInv /\ [CampaignNext]_campaignVars => CampaignInv'
  <2>1. ASSUME CampaignInv, CampaignNext PROVE CampaignInv'
    <3>1. Typed /\ ReportOK
      BY <2>1 DEF CampaignInv
    <3>2. Typed'
      BY <2>1, <3>1, TypedKept
    <3> QED BY <2>1, <3>2, RunsKept, DirsKept, ReportKept, QueueKept, BudgetKept, CountKept, TrialsKept, RegimesKept
            DEF CampaignInv
  <2> QED BY <2>1, CampaignStutters
<1> QED BY <1>1, <1>2, PTL DEF CampaignSpec

\* For any plan, budgets, report and --only, whatever crashes, is killed, restarted or run
\* twice: a line in the registry before every backtest, both budgets kept, an end that means
\* every pair of the plan ran, no half-written regimes without a race, no half-written run
\* in a report.
THEOREM CampaignKept == CampaignSpec => []CampaignSound
BY CampaignInvariant, CampaignMeans, PTL
=============================================================================
