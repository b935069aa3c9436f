----------------------------- MODULE Promotion -----------------------------
(***************************************************************************)
(* How a strategy earns live money: the promotion ledger                   *)
(* (strategies/promotion.py), the pipeline that writes `validated`         *)
(* (backtest/pipeline.py) and the deploy gates (runners/deploy_runner.py). *)
(*                                                                         *)
(* Each process runs one command at a time: a backtest, a paper session or *)
(* a live deployment.  All of them share results/<name>/status.json and    *)
(* the strategy's source file, which somebody may edit at any time.  A     *)
(* process runs the bytes it imported; code_hash reads the bytes on disk.  *)
(***************************************************************************)
EXTENDS Naturals, FiniteSets

CONSTANTS
  Procs,         \* processes running the deploy command
  Versions,      \* contents the strategy's source file may have
  MaxEdits,      \* bound on edits of the source file
  MaxCrashes,    \* bound on process deaths
  Serial,        \* TRUE: one command at a time
  EditsAnytime   \* TRUE: the file may be edited while a command runs

NoHash == "no hash"

ASSUME PromotionAssumption ==
  /\ Versions # {} /\ NoHash \notin Versions /\ MaxEdits \in Nat /\ MaxCrashes \in Nat
  /\ Serial \in BOOLEAN /\ EditsAnytime \in BOOLEAN

Hashes == Versions \cup {NoHash}

\* The part of PromotionRecord the gates read.
Record == [validated : BOOLEAN, paper : BOOLEAN, hash : Hashes]
Fresh == [validated |-> FALSE, paper |-> FALSE, hash |-> NoHash]

\* What a save() is about: a verdict, a granted paper session, a mere log line.
Events == {"candidate", "rejected", "paper", "log"}
NoTmp == [rec |-> Fresh, event |-> "none"]

Verdicts == {"candidate", "rejected"}
PCs == {"idle", "bt_run", "pa_run", "lv_eligible", "lv_hash", "lv_confirm",
        "save_tmp", "save_replace"}

VARIABLES
  source,    \* the bytes of the strategy's module on disk
  ledger,    \* status.json (Fresh when absent)
  tmp,       \* status.tmp, the file every save() writes first, or NoTmp
  pc,        \* per process: where its command is
  loaded,    \* per process: the code it imported
  mem,       \* per process: the PromotionRecord it will save
  event,     \* per process: what that save will mean
  edits, crashes,
  passed,    \* code a canonical backtest has run on with a passing verdict
  verdict,   \* the last canonical verdict recorded in the ledger
  retested,  \* a paper session was recorded since the last failing verdict
  live       \* code deployed live

ledgerVars == <<ledger, tmp>>
history == <<passed, verdict, retested, live>>
vars == <<source, ledger, tmp, pc, loaded, mem, event, edits, crashes,
          passed, verdict, retested, live>>

Init ==
  /\ source \in Versions
  /\ ledger = Fresh /\ tmp = NoTmp
  /\ pc = [p \in Procs |-> "idle"]
  /\ loaded = [p \in Procs |-> source]
  /\ mem = [p \in Procs |-> Fresh]
  /\ event = [p \in Procs |-> "none"]
  /\ edits = 0 /\ crashes = 0
  /\ passed = {} /\ verdict = "none" /\ retested = FALSE
  /\ live = {}

MayStart == Serial => \A q \in Procs : pc[q] = "idle"

\* _ensure_loaded imports the strategy before anything else happens.
Start(p, l) ==
  /\ pc[p] = "idle" /\ MayStart
  /\ pc' = [pc EXCEPT ![p] = l]
  /\ loaded' = [loaded EXCEPT ![p] = source]
  /\ UNCHANGED <<source, ledgerVars, mem, event, edits, crashes, history>>

StartBacktest(p) == Start(p, "bt_run")
StartPaper(p) == Start(p, "pa_run")
StartLive(p) == Start(p, "lv_eligible")

Leave(p) == /\ pc' = [pc EXCEPT ![p] = "idle"]
            /\ UNCHANGED <<source, ledgerVars, loaded, mem, event, edits, crashes>>

\* rec is computed, save() follows.
Save(p, r, e) ==
  /\ mem' = [mem EXCEPT ![p] = r]
  /\ event' = [event EXCEPT ![p] = e]
  /\ pc' = [pc EXCEPT ![p] = "save_tmp"]
  /\ UNCHANGED <<source, ledgerVars, loaded, edits, crashes>>

\* Mutant: a failing re-run leaves paper_tested as it was.
BacktestedKeepsPaper(r, v, h) == [validated |-> v = "candidate", paper |-> r.paper, hash |-> h]

\* Mutant: a pass, once recorded, is never withdrawn.
BacktestedSticky(r, v, h) ==
  [validated |-> r.validated \/ v = "candidate", paper |-> r.paper /\ v = "candidate", hash |-> h]

\* Mutant: the fingerprint is dropped from the record.
BacktestedNoHash(r, v, h) == [validated |-> v = "candidate", paper |-> r.paper /\ v = "candidate"]

\* record_backtest on record r: a failing run withdraws paper_tested too.
Backtested(r, v, h) ==
  [validated |-> v = "candidate",
   paper |-> r.paper /\ v = "candidate",
   hash |-> h]

\* The pipeline ends: a --set run records nothing, any other run loads the
\* record and fingerprints the file as it is on disk now.
FinishBacktest(p) ==
  /\ pc[p] = "bt_run"
  /\ \/ Leave(p) /\ UNCHANGED history      \* research=True
     \/ \E v \in Verdicts :
          /\ Save(p, Backtested(ledger, v, source), v)
          /\ passed' = IF v = "candidate" THEN passed \cup {loaded[p]} ELSE passed
          /\ UNCHANGED <<verdict, retested, live>>

\* record_paper_session: refused without validation or without a round trip,
\* and even a refusal saves the record it loaded.
FinishPaper(p) ==
  /\ pc[p] = "pa_run"
  /\ \E trips \in 0..1 :
       IF ledger.validated /\ trips > 0
       THEN Save(p, [ledger EXCEPT !.paper = TRUE], "paper")
       ELSE Save(p, ledger, "log")
  /\ UNCHANGED <<passed, verdict, retested, live>>

\* save(): write the temporary file ...
WriteTmp(p) ==
  /\ pc[p] = "save_tmp"
  /\ tmp' = [rec |-> mem[p], event |-> event[p]]
  /\ pc' = [pc EXCEPT ![p] = "save_replace"]
  /\ UNCHANGED <<source, ledger, loaded, mem, event, edits, crashes, history>>

\* ... and move it over status.json; another save() may have moved it already.
ReplaceLedger(p) ==
  /\ pc[p] = "save_replace"
  /\ pc' = [pc EXCEPT ![p] = "idle"]
  /\ tmp' = NoTmp
  /\ \/ /\ tmp = NoTmp                      \* FileNotFoundError
        /\ UNCHANGED <<ledger, verdict, retested>>
     \/ /\ tmp # NoTmp
        /\ ledger' = tmp.rec
        /\ verdict' = IF tmp.event \in Verdicts THEN tmp.event ELSE verdict
        /\ retested' = CASE tmp.event = "paper" -> TRUE
                         [] tmp.event = "rejected" -> FALSE
                         [] OTHER -> retested
  /\ UNCHANGED <<source, loaded, mem, event, edits, crashes, passed, live>>

\* enforce_preconditions, first check_live_eligibility (no module path).
CheckEligible(p) ==
  /\ pc[p] = "lv_eligible"
  /\ pc' = [pc EXCEPT ![p] = IF ledger.validated /\ ledger.paper THEN "lv_hash" ELSE "idle"]
  /\ UNCHANGED <<source, ledgerVars, loaded, mem, event, edits, crashes, history>>

\* Mutant: the fingerprint is not compared.
FingerprintIgnored(r, s) == TRUE

Fingerprint(r, s) == r.hash # NoHash => r.hash = s

\* ... and the second one, which compares the fingerprint.
CheckHash(p) ==
  /\ pc[p] = "lv_hash"
  /\ pc' = [pc EXCEPT ![p] =
       IF ledger.validated /\ ledger.paper /\ Fingerprint(ledger, source)
       THEN "lv_confirm" ELSE "idle"]
  /\ UNCHANGED <<source, ledgerVars, loaded, mem, event, edits, crashes, history>>

\* enforce_gates: the operator types LIVE, or does not.
Confirm(p) ==
  /\ pc[p] = "lv_confirm"
  /\ Leave(p)
  /\ \/ live' = live \cup {loaded[p]}
     \/ live' = live
  /\ UNCHANGED <<passed, verdict, retested>>

EditSource ==
  /\ edits < MaxEdits
  /\ EditsAnytime \/ \A p \in Procs : pc[p] = "idle"
  /\ source' \in Versions \ {source}
  /\ edits' = edits + 1
  /\ UNCHANGED <<ledgerVars, pc, loaded, mem, event, crashes, history>>

Die(p) ==
  /\ pc[p] # "idle" /\ crashes < MaxCrashes
  /\ crashes' = crashes + 1
  /\ pc' = [pc EXCEPT ![p] = "idle"]
  /\ UNCHANGED <<source, ledgerVars, loaded, mem, event, edits, history>>

Step(p) ==
  \/ StartBacktest(p) \/ FinishBacktest(p)
  \/ StartPaper(p) \/ FinishPaper(p)
  \/ WriteTmp(p) \/ ReplaceLedger(p)
  \/ StartLive(p) \/ CheckEligible(p) \/ CheckHash(p) \/ Confirm(p)
  \/ Die(p)

Next == (\E p \in Procs : Step(p)) \/ EditSource

Spec == Init /\ [][Next]_vars

-----------------------------------------------------------------------------

\* Types of the ledger, of the processes and of the history.
TypeOK ==
  /\ source \in Versions /\ ledger \in Record
  /\ tmp \in [rec : Record, event : Events \cup {"none"}]
  /\ pc \in [Procs -> PCs] /\ loaded \in [Procs -> Versions]
  /\ mem \in [Procs -> Record]
  /\ event \in [Procs -> Events \cup {"none"}]
  /\ edits \in Nat /\ crashes \in Nat
  /\ passed \subseteq Versions /\ live \subseteq Versions
  /\ verdict \in Verdicts \cup {"none"} /\ retested \in BOOLEAN

\* "live could run code that was never the validated code": whatever goes live
\* is code a canonical backtest ran on and passed.
RanWhatWasValidated == live \subseteq passed

\* A deployment gets past the gates only if the last canonical verdict passed
\* and a paper session was recorded after the last failing one.
FailureResets ==
  [][\A p \in Procs : pc[p] = "lv_confirm" /\ live' # live
       => verdict = "candidate" /\ retested]_vars

\* "A failing re-run withdraws a previous pass": from then on the ledger says
\* not validated until a passing run is recorded.
WithdrawnStays == verdict = "rejected" => ~ledger.validated
=============================================================================
