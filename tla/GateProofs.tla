----------------------------- MODULE GateProofs ------------------------------
(***************************************************************************)
(* Proofs about the two gates that a ledger opens.  Promotion: for any     *)
(* processes, any versions of the source and any bounds, when one command  *)
(* runs at a time.  The lockbox: for any processes, configs and nonces,    *)
(* and any number of registry lines, deaths and deletions, with nothing    *)
(* that excludes concurrent writers of the registry.                       *)
(***************************************************************************)
EXTENDS MCGates, FiniteSetTheorems, SequenceTheorems, TLAPS

-----------------------------------------------------------------------------
(* The promotion ledger and the deploy gates.                               *)

\* At most one process is inside a command.
OneBusy == \A p, q \in Procs : pc[p] # "idle" /\ pc[q] # "idle" => p = q

Saving(p) == pc[p] \in {"save_tmp", "save_replace"}

\* The record about to be saved: a verdict's own, or the ledger's plus paper.
Computed(p) ==
  /\ event[p] \in Events
  /\ event[p] = "rejected" => ~mem[p].validated /\ ~mem[p].paper
  /\ event[p] = "candidate" => mem[p].validated /\ (mem[p].paper => ledger.paper)
  /\ event[p] = "paper" => ledger.validated /\ mem[p].validated
  /\ event[p] = "log" => mem[p] = ledger

\* What holds of process p by itself.
Local(p) ==
  /\ Saving(p) => Computed(p)
  /\ pc[p] = "save_replace" => tmp = [rec |-> mem[p], event |-> event[p]]
  /\ pc[p] \in {"lv_hash", "lv_confirm"} => ledger.validated /\ ledger.paper

\* The ledger's flags are what the last verdict and the paper sessions after
\* the last failing one have earned.
Earned ==
  /\ ledger.validated <=> verdict = "candidate"
  /\ ledger.paper => retested

SInv == TypeOK /\ OneBusy /\ Earned /\ \A p \in Procs : Local(p)

\* The start state satisfies the invariant.
LEMMA SInvInit == Init => SInv
<1> SUFFICES ASSUME Init PROVE SInv OBVIOUS
<1> USE PromotionAssumption DEF Init, Fresh, NoTmp
<1>1. TypeOK BY DEF TypeOK, Record, Hashes, PCs
<1>2. OneBusy BY DEF OneBusy
<1>3. Earned BY DEF Earned
<1>4. \A p \in Procs : Local(p) BY DEF Local, Saving
<1> QED BY <1>1, <1>2, <1>3, <1>4 DEF SInv

\* Every step of any process, and every edit of the source, keeps the types.
LEMMA TypeStep == ASSUME TypeOK, [Next]_vars PROVE TypeOK'
<1> USE PromotionAssumption DEF TypeOK, PCs
<1>1. ASSUME NEW p \in Procs, StartBacktest(p) \/ StartPaper(p) \/ StartLive(p)
      PROVE TypeOK'
  BY <1>1 DEF StartBacktest, StartPaper, StartLive, Start, ledgerVars, history
<1>2. ASSUME NEW p \in Procs, FinishBacktest(p) PROVE TypeOK'
  <2>1. CASE Leave(p) /\ UNCHANGED history
    BY <2>1 DEF Leave, ledgerVars, history
  <2>2. ASSUME NEW v \in Verdicts, Save(p, Backtested(ledger, v, source), v),
               passed' = IF v = "candidate" THEN passed \cup {loaded[p]} ELSE passed,
               UNCHANGED <<verdict, retested, live>>
        PROVE TypeOK'
    <3>1. Backtested(ledger, v, source) \in Record
      BY DEF Backtested, Record, Hashes
    <3> HIDE DEF TypeOK
    <3>2. passed' \subseteq Versions BY <2>2 DEF TypeOK
    <3>3. v \in Events \cup {"none"} BY DEF Verdicts, Events
    <3> QED BY <2>2, <3>1, <3>2, <3>3 DEF TypeOK, Save, ledgerVars
  <2> QED BY <1>2, <2>1, <2>2 DEF FinishBacktest
<1>3. ASSUME NEW p \in Procs, FinishPaper(p) PROVE TypeOK'
  <2>1. [ledger EXCEPT !.paper = TRUE] \in Record BY DEF Record
  <2>3. \/ Save(p, [ledger EXCEPT !.paper = TRUE], "paper")
        \/ Save(p, ledger, "log")
    BY <1>3 DEF FinishPaper
  <2>4. mem' \in [Procs -> Record] BY <2>1, <2>3 DEF Save
  <2>5. event' \in [Procs -> Events \cup {"none"}] BY <2>3 DEF Save, Events
  <2>6. pc' \in [Procs -> PCs] BY <2>3 DEF Save
  <2> QED BY <1>3, <2>3, <2>4, <2>5, <2>6 DEF FinishPaper, Save, ledgerVars
<1>4. ASSUME NEW p \in Procs, WriteTmp(p) PROVE TypeOK'
  BY <1>4 DEF WriteTmp, history
<1>5. ASSUME NEW p \in Procs, ReplaceLedger(p) PROVE TypeOK'
  <2>1. NoTmp \in [rec : Record, event : Events \cup {"none"}]
    BY DEF NoTmp, Fresh, Record, Hashes
  <2> HIDE DEF NoTmp
  <2>2. ledger' \in Record BY <1>5 DEF ReplaceLedger
  <2>3. verdict' \in Verdicts \cup {"none"} /\ retested' \in BOOLEAN
    BY <1>5 DEF ReplaceLedger
  <2> QED BY <1>5, <2>1, <2>2, <2>3 DEF ReplaceLedger
<1>6. ASSUME NEW p \in Procs, CheckEligible(p) \/ CheckHash(p) PROVE TypeOK'
  BY <1>6 DEF CheckEligible, CheckHash, ledgerVars, history
<1>7. ASSUME NEW p \in Procs, Confirm(p) PROVE TypeOK'
  BY <1>7 DEF Confirm, Leave, ledgerVars
<1>8. ASSUME NEW p \in Procs, Die(p) PROVE TypeOK'
  BY <1>8 DEF Die, ledgerVars, history
<1>9. CASE EditSource
  BY <1>9 DEF EditSource, ledgerVars, history
<1>10. CASE UNCHANGED vars
  BY <1>10 DEF vars
<1> QED BY <1>1, <1>2, <1>3, <1>4, <1>5, <1>6, <1>7, <1>8, <1>9, <1>10 DEF Next, Step

\* TypeOK of the promotion pipeline, with any number of processes running
\* concurrently, edits at any time and deaths anywhere.
THEOREM TypeCorrect == Spec => []TypeOK
<1>1. Init => TypeOK BY SInvInit DEF SInv
<1>2. TypeOK /\ [Next]_vars => TypeOK' BY TypeStep
<1> QED BY <1>1, <1>2, PTL DEF Spec

\* With one command at a time, every step keeps the serial invariant.
LEMMA SInvStep == ASSUME Serial, SInv, [Next]_vars PROVE SInv'
<1> USE PromotionAssumption
<1>0. TypeOK /\ OneBusy /\ Earned /\ \A p \in Procs : Local(p)
  BY DEF SInv
<1>t. TypeOK' BY <1>0, TypeStep
<1>i. ASSUME NEW p \in Procs, NEW q \in Procs, pc[p] # "idle", q # p
      PROVE pc[q] = "idle"
  BY <1>0, <1>i DEF OneBusy
<1> SUFFICES OneBusy' /\ Earned' /\ (\A q \in Procs : Local(q))'
  BY <1>t DEF SInv
<1>1. ASSUME NEW p \in Procs, StartBacktest(p) \/ StartPaper(p) \/ StartLive(p)
      PROVE OneBusy' /\ Earned' /\ (\A q \in Procs : Local(q))'
  <2>1. \E l \in {"bt_run", "pa_run", "lv_eligible"} :
           /\ Start(p, l)
           /\ pc' = [pc EXCEPT ![p] = l]
    BY <1>1 DEF StartBacktest, StartPaper, StartLive, Start
  <2>2. \A q \in Procs : pc[q] = "idle" BY <2>1 DEF Start, MayStart
  <2>3. OneBusy' BY <1>0, <2>1, <2>2 DEF OneBusy, TypeOK
  <2>4. Earned' BY <1>0, <2>1 DEF Earned, Start, ledgerVars, history
  <2>5. \A q \in Procs : Local(q)' 
    BY <1>0, <2>1, <2>2 DEF Local, Saving, Start, TypeOK, ledgerVars, history
  <2> QED BY <2>3, <2>4, <2>5
<1>2. ASSUME NEW p \in Procs, FinishBacktest(p)
      PROVE OneBusy' /\ Earned' /\ (\A q \in Procs : Local(q))'
  <2>a. pc[p] = "bt_run" BY <1>2 DEF FinishBacktest
  <2>1. CASE Leave(p) /\ UNCHANGED history
    <3>1. OneBusy' BY <1>0, <2>1 DEF OneBusy, TypeOK, Leave
    <3>2. Earned' BY <1>0, <2>1 DEF Earned, Leave, ledgerVars, history
    <3>3. \A q \in Procs : Local(q)'
      BY <1>0, <1>i, <2>a, <2>1 DEF Local, Saving, Leave, TypeOK, ledgerVars, history
    <3> QED BY <3>1, <3>2, <3>3
  <2>2. ASSUME NEW v \in Verdicts, Save(p, Backtested(ledger, v, source), v),
               UNCHANGED <<verdict, retested, live>>
        PROVE OneBusy' /\ Earned' /\ (\A q \in Procs : Local(q))'
    <3>1. OneBusy' BY <1>0, <1>i, <2>a, <2>2 DEF OneBusy, TypeOK, Save
    <3>2. Earned' BY <1>0, <2>2 DEF Earned, Save, ledgerVars
    <3>3. Local(p)'
      <4>1. /\ mem'[p] = Backtested(ledger, v, source) /\ event'[p] = v
            /\ pc'[p] = "save_tmp" /\ ledger' = ledger
        BY <1>0, <2>2 DEF TypeOK, Save, ledgerVars
      <4>2. /\ mem'[p].validated <=> v = "candidate"
            /\ mem'[p].paper <=> ledger.paper /\ v = "candidate"
        <5>1. mem'[p].validated = (v = "candidate") BY <4>1 DEF Backtested
        <5>2. mem'[p].paper = (ledger.paper /\ v = "candidate") BY <4>1 DEF Backtested
        <5> QED BY <5>1, <5>2
      <4>3. Computed(p)'
        BY <4>1, <4>2 DEF Computed, Verdicts, Events
      <4> QED BY <4>1, <4>3 DEF Local
    <3>4. ASSUME NEW q \in Procs, q # p PROVE Local(q)'
      BY <1>0, <1>i, <2>a, <2>2, <3>4 DEF Local, Saving, Save, TypeOK
    <3> QED BY <3>1, <3>2, <3>3, <3>4
  <2> QED BY <1>2, <2>1, <2>2 DEF FinishBacktest
<1>3. ASSUME NEW p \in Procs, FinishPaper(p)
      PROVE OneBusy' /\ Earned' /\ (\A q \in Procs : Local(q))'
  <2>a. pc[p] = "pa_run" BY <1>3 DEF FinishPaper
  <2>1. \/ ledger.validated /\ Save(p, [ledger EXCEPT !.paper = TRUE], "paper")
        \/ Save(p, ledger, "log")
    BY <1>3 DEF FinishPaper
  <2>2. [ledger EXCEPT !.paper = TRUE].validated = ledger.validated
    BY <1>0 DEF TypeOK, Record
  <2>3. /\ pc' = [pc EXCEPT ![p] = "save_tmp"] /\ ledger' = ledger /\ tmp' = tmp
    BY <2>1 DEF Save, ledgerVars
  <2>4. OneBusy' BY <1>0, <1>i, <2>a, <2>3 DEF OneBusy, TypeOK
  <2>5. Earned' BY <1>0, <1>3, <2>3 DEF Earned, FinishPaper
  <2>6. Local(p)'
    <3>1. CASE ledger.validated /\ Save(p, [ledger EXCEPT !.paper = TRUE], "paper")
      <4>1. event'[p] = "paper" /\ mem'[p].validated
        BY <1>0, <3>1, <2>2 DEF Save, TypeOK
      <4> QED BY <1>0, <3>1, <2>3, <4>1 DEF Local, Computed, Events, TypeOK
    <3>2. CASE Save(p, ledger, "log")
      <4>1. event'[p] = "log" /\ mem'[p] = ledger BY <1>0, <3>2 DEF Save, TypeOK
      <4> QED BY <1>0, <2>3, <4>1 DEF Local, Computed, Events, TypeOK
    <3> QED BY <2>1, <3>1, <3>2
  <2>7. ASSUME NEW q \in Procs, q # p PROVE Local(q)'
    BY <1>0, <1>i, <2>a, <2>3, <2>7 DEF Local, Saving, TypeOK
  <2> QED BY <2>4, <2>5, <2>6, <2>7
<1>4. ASSUME NEW p \in Procs, WriteTmp(p)
      PROVE OneBusy' /\ Earned' /\ (\A q \in Procs : Local(q))'
  <2>1. OneBusy' BY <1>0, <1>i, <1>4 DEF OneBusy, TypeOK, WriteTmp
  <2>2. Earned' BY <1>0, <1>4 DEF Earned, WriteTmp, history
  <2>3. Local(p)'
    <3>1. Computed(p) BY <1>0, <1>4 DEF Local, Saving, WriteTmp
    <3>2. Computed(p)' BY <3>1, <1>4 DEF Computed, WriteTmp
    <3> QED BY <1>0, <1>4, <3>2 DEF Local, Saving, TypeOK, WriteTmp
  <2>4. ASSUME NEW q \in Procs, q # p PROVE Local(q)'
    BY <1>0, <1>i, <1>4, <2>4 DEF Local, Saving, TypeOK, WriteTmp
  <2> QED BY <2>1, <2>2, <2>3, <2>4
<1>5. ASSUME NEW p \in Procs, ReplaceLedger(p)
      PROVE OneBusy' /\ Earned' /\ (\A q \in Procs : Local(q))'
  <2>a. pc[p] = "save_replace" BY <1>5 DEF ReplaceLedger
  <2>b. Computed(p) /\ tmp = [rec |-> mem[p], event |-> event[p]]
    BY <1>0, <2>a DEF Local, Saving
  <2>c. tmp.rec = mem[p] /\ tmp.event = event[p] /\ tmp # NoTmp
    <3>1. event[p] # "none" BY <2>b DEF Computed, Events
    <3> QED BY <2>b, <3>1 DEF NoTmp
  <2>1. OneBusy' BY <1>0, <1>5 DEF OneBusy, TypeOK, ReplaceLedger
  <2>2. /\ ledger' = mem[p]
        /\ verdict' = IF event[p] \in Verdicts THEN event[p] ELSE verdict
        /\ retested' = CASE event[p] = "paper" -> TRUE
                         [] event[p] = "rejected" -> FALSE
                         [] OTHER -> retested
    BY <1>5, <2>c DEF ReplaceLedger
  <2>3. Earned'
    <3>1. CASE event[p] = "candidate"
      <4>1. retested' = retested /\ verdict' = "candidate" BY <2>2, <3>1 DEF Verdicts
      <4> QED BY <1>0, <2>b, <2>2, <3>1, <4>1 DEF Earned, Computed
    <3>2. CASE event[p] = "rejected"
      <4>1. verdict' = "rejected" BY <2>2, <3>2 DEF Verdicts
      <4> QED BY <1>0, <2>b, <2>2, <3>2, <4>1 DEF Earned, Computed
    <3>3. CASE event[p] = "paper"
      <4>1. retested' /\ verdict' = verdict BY <2>2, <3>3 DEF Verdicts
      <4> QED BY <1>0, <2>b, <2>2, <3>3, <4>1 DEF Earned, Computed
    <3>4. CASE event[p] = "log"
      <4>1. retested' = retested /\ verdict' = verdict BY <2>2, <3>4 DEF Verdicts
      <4> QED BY <1>0, <2>b, <2>2, <3>4, <4>1 DEF Earned, Computed
    <3> QED BY <2>b, <3>1, <3>2, <3>3, <3>4 DEF Computed, Events
  <2>4. \A q \in Procs : pc'[q] = "idle"
    BY <1>0, <1>i, <1>5, <2>a DEF TypeOK, ReplaceLedger
  <2>5. \A q \in Procs : Local(q)' BY <2>4 DEF Local, Saving
  <2> QED BY <2>1, <2>3, <2>5
<1>6. ASSUME NEW p \in Procs, CheckEligible(p) \/ CheckHash(p)
      PROVE OneBusy' /\ Earned' /\ (\A q \in Procs : Local(q))'
  <2>1. OneBusy' BY <1>0, <1>i, <1>6 DEF OneBusy, TypeOK, CheckEligible, CheckHash
  <2>2. Earned' BY <1>0, <1>6 DEF Earned, CheckEligible, CheckHash, ledgerVars, history
  <2>3. /\ ledger' = ledger /\ pc[p] # "idle"
        /\ pc' = [pc EXCEPT ![p] = "idle"] \/ (/\ ledger.validated /\ ledger.paper
               /\ \/ pc' = [pc EXCEPT ![p] = "lv_hash"]
                  \/ pc' = [pc EXCEPT ![p] = "lv_confirm"])
    BY <1>6 DEF CheckEligible, CheckHash, ledgerVars
  <2>4. \A q \in Procs : Local(q)'
    BY <1>0, <1>i, <2>3 DEF Local, Saving, TypeOK
  <2> QED BY <2>1, <2>2, <2>4
<1>7. ASSUME NEW p \in Procs, Confirm(p) \/ Die(p)
      PROVE OneBusy' /\ Earned' /\ (\A q \in Procs : Local(q))'
  <2>1. pc' = [pc EXCEPT ![p] = "idle"] /\ pc[p] # "idle"
    BY <1>7 DEF Confirm, Leave, Die
  <2>2. OneBusy' BY <1>0, <2>1 DEF OneBusy, TypeOK
  <2>3. Earned' BY <1>0, <1>7 DEF Earned, Confirm, Leave, Die, ledgerVars, history
  <2>4. \A q \in Procs : pc'[q] = "idle" BY <1>0, <1>i, <2>1 DEF TypeOK
  <2>5. \A q \in Procs : Local(q)' BY <2>4 DEF Local, Saving
  <2> QED BY <2>2, <2>3, <2>5
<1>8. CASE EditSource
  BY <1>0, <1>8 DEF EditSource, OneBusy, Earned, Local, Saving, Computed, ledgerVars, history
<1>9. CASE UNCHANGED vars
  BY <1>0, <1>9 DEF vars, OneBusy, Earned, Local, Saving, Computed
<1> QED BY <1>1, <1>2, <1>3, <1>4, <1>5, <1>6, <1>7, <1>8, <1>9 DEF Next, Step

\* "A failing re-run withdraws a previous pass" (record_backtest): with one
\* command at a time the ledger never says validated after a failing verdict.
THEOREM Withdrawal == ASSUME Serial PROVE Spec => []WithdrawnStays
<1>1. Init => SInv BY SInvInit
<1>2. SInv /\ [Next]_vars => SInv' BY SInvStep
<1>3. SInv => WithdrawnStays BY DEF SInv, Earned, WithdrawnStays
<1> QED BY <1>1, <1>2, <1>3, PTL DEF Spec

\* enforce_preconditions lets a deployment through only after a passing verdict
\* and a paper session younger than the last failing one.
THEOREM FailureReset == ASSUME Serial PROVE Spec => FailureResets
<1>1. Init => SInv BY SInvInit
<1>2. SInv /\ [Next]_vars => SInv' BY SInvStep
<1>3. SInv /\ [Next]_vars
        => [\A p \in Procs : pc[p] = "lv_confirm" /\ live' # live
              => verdict = "candidate" /\ retested]_vars
  BY DEF SInv, Earned, Local
<1> QED BY <1>1, <1>2, <1>3, PTL DEF Spec, FailureResets

-----------------------------------------------------------------------------

\* A record that says validated names code a passing backtest really ran on.
Good(r) == r.validated => r.hash \in passed

\* A command's code is the code on disk, and what a deployment is about to run
\* has passed.
Honest(p) ==
  /\ pc[p] # "idle" => loaded[p] = source
  /\ Good(mem[p])
  /\ pc[p] = "lv_confirm" => loaded[p] \in passed

VInv == /\ SInv
        /\ Good(ledger) /\ Good(tmp.rec) /\ \A p \in Procs : Honest(p)
        /\ RanWhatWasValidated

\* The start state satisfies it.
LEMMA VInvInit == Init => VInv
<1> SUFFICES ASSUME Init PROVE VInv OBVIOUS
<1>1. SInv BY SInvInit
<1>2. Good(Fresh) BY DEF Good, Fresh
<1>3. ledger = Fresh /\ tmp.rec = Fresh /\ (\A p \in Procs : mem[p] = Fresh)
  BY DEF Init, NoTmp
<1>4. \A p \in Procs : Honest(p) BY <1>2, <1>3 DEF Honest, Init
<1>5. RanWhatWasValidated BY DEF Init, RanWhatWasValidated
<1> QED BY <1>1, <1>2, <1>3, <1>4, <1>5 DEF VInv

\* Without edits during a command, every step keeps it.
LEMMA VInvStep == ASSUME Serial, ~EditsAnytime, VInv, [Next]_vars PROVE VInv'
<1> USE PromotionAssumption
<1>0. /\ SInv /\ TypeOK /\ Good(ledger) /\ Good(tmp.rec)
      /\ RanWhatWasValidated /\ \A p \in Procs : Honest(p)
  BY DEF VInv, SInv
<1>s. SInv' BY <1>0, SInvStep
<1> SUFFICES /\ Good(ledger)' /\ Good(tmp.rec)' /\ (\A q \in Procs : Honest(q))'
             /\ RanWhatWasValidated'
  BY <1>s DEF VInv
<1>1. ASSUME NEW p \in Procs, StartBacktest(p) \/ StartPaper(p) \/ StartLive(p)
      PROVE /\ Good(ledger)' /\ Good(tmp.rec)' /\ (\A q \in Procs : Honest(q))'
            /\ RanWhatWasValidated'
  <2>1. /\ \E l \in {"bt_run", "pa_run", "lv_eligible"} : pc' = [pc EXCEPT ![p] = l]
        /\ loaded' = [loaded EXCEPT ![p] = source]
        /\ UNCHANGED <<source, ledger, tmp, mem, passed, live>>
    BY <1>1 DEF StartBacktest, StartPaper, StartLive, Start, ledgerVars, history
  <2>2. \A q \in Procs : Honest(q)' BY <1>0, <2>1 DEF Honest, Good, TypeOK
  <2> QED BY <1>0, <2>1, <2>2 DEF Good, RanWhatWasValidated
<1>2. ASSUME NEW p \in Procs, FinishBacktest(p)
      PROVE /\ Good(ledger)' /\ Good(tmp.rec)' /\ (\A q \in Procs : Honest(q))'
            /\ RanWhatWasValidated'
  <2>1. CASE Leave(p) /\ UNCHANGED history
    BY <1>0, <2>1 DEF Leave, Honest, Good, RanWhatWasValidated, TypeOK, ledgerVars, history
  <2>2. ASSUME NEW v \in Verdicts, Save(p, Backtested(ledger, v, source), v),
               passed' = IF v = "candidate" THEN passed \cup {loaded[p]} ELSE passed,
               UNCHANGED <<verdict, retested, live>>
        PROVE /\ Good(ledger)' /\ Good(tmp.rec)' /\ (\A q \in Procs : Honest(q))'
              /\ RanWhatWasValidated'
    <3>1. passed \subseteq passed' BY <2>2
    <3>2. /\ pc' = [pc EXCEPT ![p] = "save_tmp"]
          /\ mem' = [mem EXCEPT ![p] = Backtested(ledger, v, source)]
          /\ UNCHANGED <<source, ledger, tmp, loaded>>
      BY <2>2 DEF Save, ledgerVars
    <3>3. loaded[p] = source BY <1>0, <1>2 DEF Honest, FinishBacktest
    <3>4. Honest(p)'
      <4>1. mem'[p] = Backtested(ledger, v, source) BY <1>0, <3>2 DEF TypeOK
      <4>2. mem'[p].validated => v = "candidate" BY <4>1 DEF Backtested
      <4>3. mem'[p].hash = source BY <4>1 DEF Backtested
      <4>4. Good(mem[p])' BY <2>2, <3>3, <4>2, <4>3 DEF Good
      <4> QED BY <1>0, <3>2, <3>3, <4>4 DEF Honest, TypeOK
    <3>5. ASSUME NEW q \in Procs, q # p PROVE Honest(q)'
      <4>1. mem'[q] = mem[q] /\ pc'[q] = pc[q] BY <1>0, <3>2, <3>5 DEF TypeOK
      <4>2. Honest(q) BY <1>0
      <4> QED BY <3>1, <3>2, <4>1, <4>2 DEF Honest, Good
    <3>6. Good(ledger)' /\ Good(tmp.rec)' BY <1>0, <3>1, <3>2 DEF Good
    <3>7. RanWhatWasValidated' BY <1>0, <2>2, <3>1 DEF RanWhatWasValidated
    <3> QED BY <3>4, <3>5, <3>6, <3>7
  <2> QED BY <1>2, <2>1, <2>2 DEF FinishBacktest
<1>3. ASSUME NEW p \in Procs, FinishPaper(p)
      PROVE /\ Good(ledger)' /\ Good(tmp.rec)' /\ (\A q \in Procs : Honest(q))'
            /\ RanWhatWasValidated'
  <2>1. PICK r \in {[ledger EXCEPT !.paper = TRUE], ledger} :
           mem' = [mem EXCEPT ![p] = r] /\ (Save(p, r, "paper") \/ Save(p, r, "log"))
    BY <1>3 DEF FinishPaper, Save
  <2>2. r.validated = ledger.validated /\ r.hash = ledger.hash
    BY <1>0 DEF TypeOK, Record
  <2>3. /\ pc' = [pc EXCEPT ![p] = "save_tmp"]
        /\ UNCHANGED <<source, ledger, tmp, loaded, passed, live>>
    BY <1>3, <2>1 DEF FinishPaper, Save, ledgerVars
  <2>4. Good(r)' BY <1>0, <2>2, <2>3 DEF Good
  <2>5. \A q \in Procs : Honest(q)' BY <1>0, <1>3, <2>1, <2>3, <2>4 DEF Honest, Good, TypeOK, FinishPaper
  <2> QED BY <1>0, <2>3, <2>5 DEF Good, RanWhatWasValidated
<1>4. ASSUME NEW p \in Procs, WriteTmp(p)
      PROVE /\ Good(ledger)' /\ Good(tmp.rec)' /\ (\A q \in Procs : Honest(q))'
            /\ RanWhatWasValidated'
  <2>1. tmp'.rec = mem[p] BY <1>4 DEF WriteTmp
  <2>2. Good(mem[p]) BY <1>0 DEF Honest
  <2>3. \A q \in Procs : Honest(q)'
    BY <1>0, <1>4 DEF Honest, Good, TypeOK, WriteTmp, history
  <2> QED BY <1>0, <1>4, <2>1, <2>2, <2>3 DEF WriteTmp, Good, RanWhatWasValidated, history
<1>5. ASSUME NEW p \in Procs, ReplaceLedger(p)
      PROVE /\ Good(ledger)' /\ Good(tmp.rec)' /\ (\A q \in Procs : Honest(q))'
            /\ RanWhatWasValidated'
  <2>1. ledger' \in {ledger, tmp.rec} BY <1>5 DEF ReplaceLedger
  <2>2. tmp'.rec.validated = FALSE BY <1>5 DEF ReplaceLedger, NoTmp, Fresh
  <2>3. /\ pc' = [pc EXCEPT ![p] = "idle"]
        /\ UNCHANGED <<source, loaded, mem, passed, live>>
    BY <1>5 DEF ReplaceLedger
  <2>4. \A q \in Procs : Honest(q)' BY <1>0, <2>3 DEF Honest, Good, TypeOK
  <2> QED BY <1>0, <2>1, <2>2, <2>3, <2>4 DEF Good, RanWhatWasValidated
<1>6. ASSUME NEW p \in Procs, CheckEligible(p)
      PROVE /\ Good(ledger)' /\ Good(tmp.rec)' /\ (\A q \in Procs : Honest(q))'
            /\ RanWhatWasValidated'
  BY <1>0, <1>6 DEF CheckEligible, Honest, Good, TypeOK, RanWhatWasValidated, ledgerVars, history
<1>7. ASSUME NEW p \in Procs, CheckHash(p)
      PROVE /\ Good(ledger)' /\ Good(tmp.rec)' /\ (\A q \in Procs : Honest(q))'
            /\ RanWhatWasValidated'
  <2>1. UNCHANGED <<source, ledger, tmp, loaded, mem, passed, live>>
    BY <1>7 DEF CheckHash, ledgerVars, history
  <2>2. Honest(p)'
    <3>1. CASE ledger.validated /\ Fingerprint(ledger, source)
      <4>1. ledger.hash \in passed BY <1>0, <3>1 DEF Good
      <4>2. ledger.hash # NoHash BY <1>0, <4>1 DEF TypeOK
      <4>3. loaded[p] \in passed
        BY <1>0, <1>7, <3>1, <4>1, <4>2 DEF Fingerprint, Honest, CheckHash
      <4> QED BY <1>0, <1>7, <2>1, <4>3 DEF CheckHash, Honest, Good, TypeOK
    <3>2. CASE ~(ledger.validated /\ Fingerprint(ledger, source))
      BY <1>0, <1>7, <2>1, <3>2 DEF CheckHash, Honest, Good, TypeOK
    <3> QED BY <3>1, <3>2
  <2>3. ASSUME NEW q \in Procs, q # p PROVE Honest(q)'
    BY <1>0, <1>7, <2>1, <2>3 DEF CheckHash, Honest, Good, TypeOK
  <2> QED BY <1>0, <2>1, <2>2, <2>3 DEF Good, RanWhatWasValidated
<1>8. ASSUME NEW p \in Procs, Confirm(p)
      PROVE /\ Good(ledger)' /\ Good(tmp.rec)' /\ (\A q \in Procs : Honest(q))'
            /\ RanWhatWasValidated'
  <2>1. loaded[p] \in passed BY <1>0, <1>8 DEF Confirm, Honest
  <2>2. RanWhatWasValidated' BY <1>0, <1>8, <2>1 DEF Confirm, RanWhatWasValidated
  <2> QED BY <1>0, <1>8, <2>2 DEF Confirm, Leave, Honest, Good, TypeOK, ledgerVars
<1>9. ASSUME NEW p \in Procs, Die(p)
      PROVE /\ Good(ledger)' /\ Good(tmp.rec)' /\ (\A q \in Procs : Honest(q))'
            /\ RanWhatWasValidated'
  BY <1>0, <1>9 DEF Die, Honest, Good, TypeOK, RanWhatWasValidated, ledgerVars, history
<1>10. CASE EditSource
  BY <1>0, <1>10 DEF EditSource, Honest, Good, RanWhatWasValidated, ledgerVars, history
<1>11. CASE UNCHANGED vars
  BY <1>0, <1>11 DEF vars, Honest, Good, RanWhatWasValidated
<1> QED
  BY <1>1, <1>2, <1>3, <1>4, <1>5, <1>6, <1>7, <1>8, <1>9, <1>10, <1>11 DEF Next, Step

\* code_hash and check_live_eligibility (audit D-064): when the source is only
\* edited between commands, live never runs code that did not pass.
THEOREM ValidatedCodeOnly ==
  ASSUME Serial, ~EditsAnytime PROVE Spec => []RanWhatWasValidated
<1>1. Init => VInv BY VInvInit
<1>2. VInv /\ [Next]_vars => VInv' BY VInvStep
<1>3. VInv => RanWhatWasValidated BY DEF VInv
<1> QED BY <1>1, <1>2, <1>3, PTL DEF Spec
-----------------------------------------------------------------------------
(* The lockbox.                                                            *)

IsList(t) == Len(t) \in Nat /\ t = [k \in 1..Len(t) |-> t[k]]
LinesTyped == IsList(lines)

\* The registry holds a trial with config n, complete or merged with a torn line.
Recorded(n) == \E k \in 1..Len(lines) : lines[k].cfg = n /\ lines[k].kind # "torn"

\* Who writes its sidecar has appended its line, whoever else wrote meanwhile.
RegistryInv ==
  /\ LinesTyped
  /\ boxPc \in [Inst -> Box!PCs] /\ op \in [Inst -> Box!Ops]
  /\ arg \in [Inst -> Configs] /\ result \in [Inst -> Box!Results]
  /\ \A i \in Inst : boxPc[i] = "write_cache" => Recorded(arg[i])

\* What an issue() carries from one step to the next: the nonce it drew is the one
\* it records, it is in the registry before the sentinel is created, and only one
\* issue() gets to fill the sentinel.
IssueOf(i) ==
  /\ lpc[i] \in {"record", "create", "dump"} => nonce[i] \in Nonces
  /\ lpc[i] = "record" => op[i] = "record" /\ arg[i] = nonce[i]
  /\ lpc[i] \in {"create", "dump"} => Recorded(nonce[i])
  /\ lpc[i] = "dump" => sentinel = "empty"
IssueInv ==
  /\ \A i \in Inst : IssueOf(i)
  /\ \A i, j \in Inst : lpc[i] = "dump" /\ lpc[j] = "dump" => i = j

\* There is at most one key, and the sentinel is its nonce until somebody deletes it.
KeyOf(n) == keys = {n} /\ sentinel \in {n, "absent"} /\ Recorded(n)
KeyInv == (keys = {} /\ sentinel \in {"absent", "empty"}) \/ \E n \in Nonces : KeyOf(n)

\* A deleted sentinel leaves the trial behind, and no issue() gets past its scan.
Deleted == keys # {} /\ sentinel = "absent"
StoppedAt(i) ==
  /\ lpc[i] \notin {"record", "create", "dump"}
  /\ lpc[i] = "scan" => marker[i] = "absent" /\ (result[i] = "ok" => found[i] # {})
DeletedInv == Deleted => deletes > 0 /\ \A i \in Inst : StoppedAt(i)

LockInv == Box!LTypeOK /\ RegistryInv /\ IssueInv /\ KeyInv /\ DeletedInv

-----------------------------------------------------------------------------
(* The registry's steps.                                                    *)

\* Complete lines stay where they are.
Grows ==
  /\ Len(lines) <= Len(lines')
  /\ \A k \in 1..Len(lines) : lines[k].kind # "torn" => lines'[k] = lines[k]

\* What is in the registry stays there.
LEMMA RecordedStays ==
  ASSUME LinesTyped, LinesTyped', Grows, NEW n, Recorded(n)
  PROVE  Recorded(n)'
<1>1. PICK k \in 1..Len(lines) : lines[k].cfg = n /\ lines[k].kind # "torn"
  BY DEF Recorded
<1>2. k \in 1..Len(lines') /\ lines'[k] = lines[k]
  BY <1>1 DEF Grows, LinesTyped, IsList
<1> QED BY <1>1, <1>2 DEF Recorded

\* A line with its config and kind, torn lines merged with it included.
IsLine(l, cfg, kind) ==
  LET merged == [l EXCEPT !.kind = "garbled"]
  IN  l.cfg = cfg /\ l.kind = kind /\ merged.cfg = cfg /\ merged.kind = "garbled"

\* Bytes appended to the file leave its complete lines alone, and their config is in it.
LEMMA Appended ==
  ASSUME NEW t, IsList(t),
         NEW l, NEW cfg, NEW kind, IsLine(l, cfg, kind), NEW u, u = Box!AppendBytes(t, l)
  PROVE  /\ IsList(u) /\ Len(t) <= Len(u)
         /\ \A k \in 1..Len(t) : t[k].kind # "torn" => u[k] = t[k]
         /\ kind # "torn" => \E k \in 1..Len(u) : u[k].cfg = cfg /\ u[k].kind # "torn"
<1> DEFINE g == [l EXCEPT !.kind = "garbled"]
           S == {t[k] : k \in 1..Len(t)} \cup {l, g}
<1>1. t \in Seq(S)
  BY DEF IsList
<1>2. CASE t # <<>> /\ t[Len(t)].kind = "torn"
  <2>1. u = [t EXCEPT ![Len(t)] = g] /\ Len(t) \in 1..Len(t)
    BY <1>1, <1>2 DEF Box!AppendBytes
  <2>2. u \in Seq(S) /\ Len(u) = Len(t) /\ u[Len(t)] = g
    BY <1>1, <2>1
  <2>3. g.cfg = cfg /\ g.kind = "garbled"
    BY DEF IsLine
  <2>4. \A k \in 1..Len(t) : k # Len(t) => u[k] = t[k]
    BY <1>1, <2>1
  <2> HIDE DEF g, S
  <2>5. \A k \in 1..Len(t) : t[k].kind # "torn" => u[k] = t[k]
    BY <1>2, <2>4
  <2>6. IsList(u)
    BY <2>2 DEF IsList
  <2> QED BY <2>1, <2>2, <2>3, <2>5, <2>6
<1>3. CASE ~(t # <<>> /\ t[Len(t)].kind = "torn")
  <2>1. u = Append(t, l)
    BY <1>3 DEF Box!AppendBytes
  <2> HIDE DEF g, S
  <2>2. l \in S
    BY DEF S
  <2>3. u \in Seq(S) /\ Len(u) = Len(t) + 1 /\ u[Len(t) + 1] = l
        /\ \A k \in 1..Len(t) : u[k] = t[k]
    BY <1>1, <2>1, <2>2, AppendProperties
  <2>4. Len(t) + 1 \in 1..Len(u)
    BY <2>3
  <2>5. IsList(u)
    BY <2>3 DEF IsList
  <2>6. l.cfg = cfg /\ l.kind = kind
    BY DEF IsLine
  <2> QED BY <2>3, <2>4, <2>5, <2>6
<1> QED BY <1>2, <1>3

RegistryStep(i) ==
  \/ \E c \in Configs : Box!RecordTrial(i, c)
  \/ Box!Query(i) \/ Box!RebuildIndex(i)
  \/ Box!ReadCache(i) \/ Box!CheckSize(i) \/ Box!Walk(i)
  \/ Box!WarmCache(i) \/ Box!WarmFile(i) \/ Box!AppendLine(i) \/ Box!WriteCache(i)
  \/ Box!RebuildWalk(i) \/ Box!RebuildWrite(i) \/ Box!Crash(i)

\* A step of process i leaves the others' operations alone.
OnlyOf(i) ==
  \A j \in Inst \ {i} : /\ boxPc'[j] = boxPc[j] /\ op'[j] = op[j]
                        /\ arg'[j] = arg[j] /\ result'[j] = result[j]

\* A step that leaves the file alone and does not get to the sidecar.
LEMMA QuietKeeps ==
  ASSUME RegistryInv, NEW i \in Inst, OnlyOf(i), lines' = lines,
         NEW p \in Box!PCs \ {"write_cache"}, boxPc' = [boxPc EXCEPT ![i] = p],
         op' \in [Inst -> Box!Ops], arg' \in [Inst -> Configs], result' \in [Inst -> Box!Results]
  PROVE  RegistryInv' /\ Grows
<1>1. \A j \in Inst : boxPc'[j] = "write_cache" => j # i /\ boxPc[j] = "write_cache" /\ arg'[j] = arg[j]
  BY DEF RegistryInv, OnlyOf
<1>2. Grows /\ LinesTyped'
  BY DEF Grows, RegistryInv, LinesTyped
<1>3. ASSUME NEW j \in Inst, boxPc'[j] = "write_cache" PROVE Recorded(arg[j])'
  <2>1. Recorded(arg[j])
    BY <1>1, <1>3 DEF RegistryInv
  <2> QED BY <1>1, <1>3, <2>1 DEF Recorded
<1> QED BY <1>2, <1>3 DEF RegistryInv

\* A step keeps the registry's invariant and its complete lines, and is its process's own.
LEMMA RegistryKept ==
  ASSUME RegistryInv, NEW i \in Inst, RegistryStep(i)
  PROVE  RegistryInv' /\ Grows /\ OnlyOf(i)
<1> USE DEF OnlyOf, Box!PCs, Box!Ops, Box!Results, Box!WriteOps
<1>0. /\ boxPc \in [Inst -> Box!PCs] /\ op \in [Inst -> Box!Ops]
      /\ arg \in [Inst -> Configs] /\ result \in [Inst -> Box!Results]
      /\ LinesTyped
  BY DEF RegistryInv
<1> HIDE DEF RegistryInv
<1>1. CASE \/ \E c \in Configs : Box!RecordTrial(i, c)
           \/ Box!Query(i) \/ Box!RebuildIndex(i)
  <2>1. PICK c \in Configs, o \in Box!Ops, p \in {"read_cache", "warm_cache", "rb_walk"} :
          /\ arg' = arg \/ arg' = [arg EXCEPT ![i] = c]
          /\ op' = [op EXCEPT ![i] = o] /\ boxPc' = [boxPc EXCEPT ![i] = p]
          /\ result' = [result EXCEPT ![i] = "none"] /\ lines' = lines
    BY <1>0, <1>1 DEF Box!RecordTrial, Box!Query, Box!RebuildIndex, Box!Enter, Box!file
  <2>2. OnlyOf(i) /\ op' \in [Inst -> Box!Ops] /\ arg' \in [Inst -> Configs]
        /\ result' \in [Inst -> Box!Results]
    BY <1>0, <2>1
  <2> QED BY <2>1, <2>2, QuietKeeps
<1>2. CASE \/ Box!ReadCache(i) \/ Box!CheckSize(i) \/ Box!Walk(i)
           \/ Box!WarmCache(i) \/ Box!WarmFile(i)
           \/ Box!RebuildWalk(i) \/ Box!RebuildWrite(i)
  <2>1. PICK p \in Box!PCs \ {"write_cache"}, r \in Box!Results :
          /\ boxPc' = [boxPc EXCEPT ![i] = p] /\ lines' = lines
          /\ result' = result \/ result' = [result EXCEPT ![i] = r]
          /\ op' = op /\ arg' = arg
    BY <1>2 DEF Box!ReadCache, Box!CheckSize, Box!Walk, Box!WarmCache, Box!WarmFile, Box!RebuildWalk,
         Box!RebuildWrite, Box!Goto, Box!End, Box!Tampered, Box!file
  <2>2. OnlyOf(i) /\ result' \in [Inst -> Box!Results]
    BY <1>0, <2>1
  <2> QED BY <1>0, <2>1, <2>2, QuietKeeps
<1>3. CASE Box!WriteCache(i)
  <2>1. /\ boxPc' = [boxPc EXCEPT ![i] = "idle"] /\ lines' = lines
        /\ result' = [result EXCEPT ![i] = "ok"] /\ op' = op /\ arg' = arg
    BY <1>3 DEF Box!WriteCache, Box!End
  <2>2. OnlyOf(i) /\ result' \in [Inst -> Box!Results]
    BY <1>0, <2>1
  <2> QED BY <1>0, <2>1, <2>2, QuietKeeps
<1>4. CASE Box!Crash(i) /\ lines' = lines
  <2>1. /\ boxPc' = [boxPc EXCEPT ![i] = "idle"]
        /\ result' = [result EXCEPT ![i] = "none"] /\ op' = op /\ arg' = arg
    BY <1>4 DEF Box!Crash, Box!End
  <2>2. OnlyOf(i) /\ result' \in [Inst -> Box!Results]
    BY <1>0, <2>1
  <2> QED BY <1>0, <1>4, <2>1, <2>2, QuietKeeps
<1>5. ASSUME NEW kind, NEW p \in Box!PCs, NEW r \in Box!Results,
             lines' = Box!AppendBytes(lines, [Box!NewLine(i) EXCEPT !.kind = kind]),
             boxPc' = [boxPc EXCEPT ![i] = p], p = "write_cache" => kind # "torn",
             result' = result \/ result' = [result EXCEPT ![i] = r], op' = op, arg' = arg
      PROVE  RegistryInv' /\ Grows /\ OnlyOf(i)
  <2> DEFINE w == writer[i].count + 1
             d == dupMap[i][arg[i]]
             v == IF writer[i].tail = Box!NoSha THEN Box!Genesis ELSE writer[i].tail
             l == [sha |-> nextSha, id |-> w, cfg |-> arg[i], dup |-> d, kind |-> kind, prev |-> v]
  <2>1. lines' = Box!AppendBytes(lines, l)
    BY <1>5 DEF Box!NewLine
  <2> HIDE DEF w, d, v
  <2>2. LinesTyped' /\ Grows /\ (kind # "torn" => Recorded(arg[i])')
    <3> DEFINE u == lines'
    <3>1. IsLine(l, arg[i], kind)
      BY DEF IsLine
    <3>2. IsList(lines) /\ u = Box!AppendBytes(lines, l)
      BY <1>0, <2>1 DEF LinesTyped
    <3>3. /\ IsList(u) /\ Len(lines) <= Len(u)
          /\ \A k \in 1..Len(lines) : lines[k].kind # "torn" => u[k] = lines[k]
          /\ kind # "torn" => \E k \in 1..Len(u) : u[k].cfg = arg[i] /\ u[k].kind # "torn"
      <4> HIDE DEF u, l
      <4> QED BY <3>1, <3>2, Appended
    <3> QED BY <1>5, <3>3 DEF LinesTyped, Grows, Recorded
  <2>3. OnlyOf(i) /\ result' \in [Inst -> Box!Results] /\ boxPc' \in [Inst -> Box!PCs]
    BY <1>0, <1>5
  <2>4. ASSUME NEW j \in Inst, boxPc'[j] = "write_cache" PROVE Recorded(arg[j])'
    <3>1. CASE j = i
      BY <1>0, <1>5, <2>2, <2>4, <3>1
    <3>2. CASE j # i
      <4>1. Recorded(arg[j])
        BY <2>3, <2>4, <3>2 DEF RegistryInv
      <4>2. \E k \in 1..Len(lines') : lines'[k].cfg = arg[j] /\ lines'[k].kind # "torn"
        BY <1>0, <2>2, <4>1, RecordedStays DEF Recorded
      <4> QED BY <1>5, <4>2 DEF Recorded
    <3> QED BY <3>1, <3>2
  <2> QED BY <1>0, <1>5, <2>2, <2>3, <2>4 DEF RegistryInv
<1>6. CASE Box!AppendLine(i)
  <2>1. /\ lines' = Box!AppendBytes(lines, Box!NewLine(i)) /\ op' = op /\ arg' = arg
        /\ boxPc' = [boxPc EXCEPT ![i] = "write_cache"] /\ result' = result
    BY <1>6 DEF Box!AppendLine, Box!Goto
  <2>2. Box!NewLine(i) = [Box!NewLine(i) EXCEPT !.kind = "chained"]
    BY DEF Box!NewLine
  <2> QED BY <1>5, <2>1, <2>2
<1>7. CASE Box!Crash(i) /\ lines' # lines
  <2>1. /\ lines' = Box!AppendBytes(lines, [Box!NewLine(i) EXCEPT !.kind = "torn"])
        /\ boxPc' = [boxPc EXCEPT ![i] = "idle"]
        /\ result' = [result EXCEPT ![i] = "none"] /\ op' = op /\ arg' = arg
    BY <1>7 DEF Box!Crash, Box!End
  <2> QED BY <1>5, <2>1
<1> QED BY <1>1, <1>2, <1>3, <1>4, <1>6, <1>7 DEF RegistryStep

-----------------------------------------------------------------------------
(* The steps of issue().                                                    *)

\* Where nothing touches the registry.
LEMMA RegistrySame ==
  ASSUME RegistryInv, UNCHANGED <<lines, boxPc, op, arg, result>>
  PROVE  RegistryInv' /\ Grows /\ \A i \in Inst : OnlyOf(i)
BY DEF RegistryInv, Grows, OnlyOf, LinesTyped, IsList, Recorded

LockStep(i) ==
  \/ Box!Research(i) \/ Box!IssueExists(i) \/ Box!DetectSentinel(i) \/ Box!DetectScan(i)
  \/ Box!DetectJudge(i) \/ Box!RecordIssuance(i) \/ Box!CreateSentinel(i) \/ Box!DumpSentinel(i)
  \/ Box!Die(i)

\* Every step of a process leaves the others' calls and the complete lines alone.
LEMMA StepOfOne ==
  ASSUME LockInv, NEW i \in Inst, LockStep(i)
  PROVE  RegistryInv' /\ Grows /\ OnlyOf(i)
<1>0. RegistryInv
  BY DEF LockInv
<1>1. CASE Box!Research(i)
  BY <1>0, <1>1, RegistryKept DEF Box!Research, RegistryStep
<1>2. CASE Box!IssueExists(i)
  BY <1>0, <1>2, RegistrySame DEF Box!IssueExists, Box!vars
<1>3. CASE Box!DetectSentinel(i)
  <2>1. CASE Box!Query(i)
    BY <1>0, <2>1, RegistryKept DEF RegistryStep
  <2>2. CASE UNCHANGED Box!vars
    BY <1>0, <2>2, RegistrySame DEF Box!vars
  <2> QED BY <1>3, <2>1, <2>2 DEF Box!DetectSentinel, Box!vars
<1>4. CASE Box!DetectScan(i)
  BY <1>0, <1>4, RegistryKept DEF Box!DetectScan, RegistryStep
<1>5. CASE Box!DetectJudge(i)
  <2>1. CASE \E n \in Nonces : Box!RecordTrial(i, n)
    BY <1>0, <2>1, RegistryKept, IdleConfigAssumption DEF RegistryStep
  <2>2. CASE UNCHANGED Box!vars
    BY <1>0, <2>2, RegistrySame DEF Box!vars
  <2> QED BY <1>5, <2>1, <2>2 DEF Box!DetectJudge, Box!vars
<1>6. CASE Box!RecordIssuance(i)
  BY <1>0, <1>6, RegistryKept DEF Box!RecordIssuance, RegistryStep
<1>7. CASE Box!CreateSentinel(i)
  BY <1>0, <1>7, RegistrySame DEF Box!CreateSentinel, Box!file
<1>8. CASE Box!DumpSentinel(i)
  BY <1>0, <1>8, RegistrySame DEF Box!DumpSentinel, Box!vars
<1>9. CASE Box!Die(i)
  BY <1>0, <1>9, RegistryKept DEF Box!Die, RegistryStep
<1> QED BY <1>1, <1>2, <1>3, <1>4, <1>5, <1>6, <1>7, <1>8, <1>9 DEF LockStep

\* The types hold after every step.
LEMMA LockTyped ==
  ASSUME LockInv, NEW i \in Inst, LockStep(i) \/ Box!DeleteSentinel
  PROVE  Box!LTypeOK'
<1> USE DEF Box!LTypeOK, Box!LGoto, Box!LEnd, Box!Absent, Box!Empty
<1>0. Box!LTypeOK
  BY DEF LockInv
<1>1. CASE Box!Research(i)
  BY <1>0, <1>1 DEF Box!Research, Box!lvars
<1>2. CASE Box!IssueExists(i)
  BY <1>0, <1>2 DEF Box!IssueExists
<1>3. CASE Box!DetectSentinel(i)
  BY <1>0, <1>3 DEF Box!DetectSentinel
<1>4. CASE Box!DetectScan(i)
  BY <1>0, <1>4 DEF Box!DetectScan, Box!Issuances
<1>5. CASE Box!DetectJudge(i)
  BY <1>0, <1>5 DEF Box!DetectJudge
<1>6. CASE Box!RecordIssuance(i)
  BY <1>0, <1>6 DEF Box!RecordIssuance
<1>7. CASE Box!CreateSentinel(i)
  BY <1>0, <1>7 DEF Box!CreateSentinel
<1>8. CASE Box!DumpSentinel(i)
  <2>1. nonce[i] \in Nonces
    BY <1>8 DEF Box!DumpSentinel, LockInv, IssueInv, IssueOf
  <2> QED BY <1>0, <1>8, <2>1 DEF Box!DumpSentinel
<1>9. CASE Box!Die(i)
  BY <1>0, <1>9 DEF Box!Die
<1>10. CASE Box!DeleteSentinel
  BY <1>0, <1>10 DEF Box!DeleteSentinel
<1> QED BY <1>1, <1>2, <1>3, <1>4, <1>5, <1>6, <1>7, <1>8, <1>9, <1>10 DEF LockStep

\* A step of process i leaves the other issue() calls where they are, and moves the
\* sentinel only by creating or by filling it.
LEMMA OthersStay ==
  ASSUME LockInv, NEW i \in Inst, LockStep(i)
  PROVE  /\ \A j \in Inst \ {i} : /\ lpc'[j] = lpc[j] /\ nonce'[j] = nonce[j]
                                  /\ marker'[j] = marker[j] /\ found'[j] = found[j]
         /\ \/ sentinel' = sentinel
            \/ sentinel = "absent" /\ sentinel' = "empty" /\ lpc[i] = "create"
            \/ lpc[i] = "dump" /\ sentinel' = nonce[i]
         /\ deletes' = deletes
<1> USE DEF Box!LTypeOK, Box!LGoto, Box!LEnd, Box!Absent, Box!Empty
<1>0. Box!LTypeOK
  BY DEF LockInv
<1>1. CASE Box!Research(i)
  BY <1>0, <1>1 DEF Box!Research, Box!lvars
<1>2. CASE Box!IssueExists(i)
  BY <1>0, <1>2 DEF Box!IssueExists
<1>3. CASE Box!DetectSentinel(i)
  BY <1>0, <1>3 DEF Box!DetectSentinel
<1>4. CASE Box!DetectScan(i)
  BY <1>0, <1>4 DEF Box!DetectScan
<1>5. CASE Box!DetectJudge(i)
  BY <1>0, <1>5 DEF Box!DetectJudge
<1>6. CASE Box!RecordIssuance(i)
  BY <1>0, <1>6 DEF Box!RecordIssuance
<1>7. CASE Box!CreateSentinel(i)
  BY <1>0, <1>7 DEF Box!CreateSentinel
<1>8. CASE Box!DumpSentinel(i)
  BY <1>0, <1>8 DEF Box!DumpSentinel
<1>9. CASE Box!Die(i)
  BY <1>0, <1>9 DEF Box!Die
<1> QED BY <1>1, <1>2, <1>3, <1>4, <1>5, <1>6, <1>7, <1>8, <1>9 DEF LockStep

\* A nonce whose trial was recorded still has it after the step.
LEMMA StillRecorded ==
  ASSUME LockInv, NEW i \in Inst, LockStep(i), NEW n, Recorded(n)
  PROVE  Recorded(n)'
BY StepOfOne, RecordedStays DEF LockInv, RegistryInv

\* The append of an issuance ends with its sidecar, hence with its line in the file.
LEMMA IssuanceRecorded ==
  ASSUME LockInv, NEW i \in Inst, Box!RecordIssuance(i), boxPc'[i] = "idle", result'[i] = "ok"
  PROVE  Recorded(nonce[i])
<1>0. /\ boxPc \in [Inst -> Box!PCs] /\ result \in [Inst -> Box!Results]
      /\ op[i] = "record" /\ arg[i] = nonce[i]
  BY DEF LockInv, RegistryInv, IssueInv, IssueOf, Box!RecordIssuance
<1>1. CASE Box!ReadCache(i)
  BY <1>0, <1>1 DEF Box!ReadCache, Box!Goto, Box!End, Box!Tampered
<1>2. CASE Box!CheckSize(i)
  BY <1>0, <1>2 DEF Box!CheckSize, Box!Goto, Box!End, Box!Tampered
<1>3. CASE Box!Walk(i)
  BY <1>0, <1>3 DEF Box!Walk, Box!Goto, Box!End, Box!Tampered
<1>4. CASE Box!AppendLine(i)
  BY <1>0, <1>4 DEF Box!AppendLine, Box!Goto
<1>5. CASE Box!WriteCache(i)
  BY <1>0, <1>5 DEF Box!WriteCache, LockInv, RegistryInv
<1> QED BY <1>1, <1>2, <1>3, <1>4, <1>5 DEF Box!RecordIssuance

\* The steps of a process keep what issue() carries.
LEMMA IssueKept == ASSUME LockInv, NEW i \in Inst, LockStep(i) PROVE IssueInv'
<1>0. Box!LTypeOK /\ IssueInv /\ KeyInv /\ Box!LTypeOK'
  BY LockTyped DEF LockInv
<1>1. ASSUME NEW j \in Inst \ {i} PROVE IssueOf(j)'
  <2>1. IssueOf(j)
    BY <1>0 DEF IssueInv
  <2>2. lpc'[j] = lpc[j] /\ nonce'[j] = nonce[j] /\ op'[j] = op[j] /\ arg'[j] = arg[j]
    BY StepOfOne, OthersStay DEF OnlyOf
  <2>3. lpc[j] = "dump" => sentinel' = "empty"
    BY <1>0, <2>1, OthersStay DEF IssueOf, IssueInv
  <2>4. lpc[j] \in {"create", "dump"} => Recorded(nonce[j])'
    BY <2>1, <2>2, StillRecorded DEF IssueOf, Recorded
  <2> QED BY <2>1, <2>2, <2>3, <2>4 DEF IssueOf
<1>2. IssueOf(i)'
  <2> USE DEF Box!LGoto, Box!LEnd
  <2>0. /\ IssueOf(i) /\ lpc \in [Inst -> {"out", "detect", "scan", "record", "create", "dump"}]
        /\ nonce \in [Inst -> Nonces \cup {"absent"}]
    BY <1>0 DEF IssueInv, Box!LTypeOK, Box!Absent
  <2>1. CASE lpc'[i] \in {"out", "detect", "scan"}
    BY <2>1 DEF IssueOf
  <2>2. CASE Box!DetectJudge(i) /\ lpc'[i] \notin {"out", "detect", "scan"}
    <3>1. PICK n \in Nonces : nonce' = [nonce EXCEPT ![i] = n] /\ Box!RecordTrial(i, n)
      BY <2>0, <2>2 DEF Box!DetectJudge
    <3>2. lpc'[i] = "record"
      BY <2>0, <2>2 DEF Box!DetectJudge
    <3>3. op'[i] = "record" /\ arg'[i] = n
      BY <3>1 DEF Box!RecordTrial, Box!Enter, LockInv, RegistryInv
    <3> QED BY <2>0, <3>1, <3>2, <3>3 DEF IssueOf
  <2>3. CASE Box!RecordIssuance(i) /\ lpc'[i] = "record"
    <3>1. op' = op /\ arg' = arg /\ nonce' = nonce /\ lpc[i] = "record"
      BY <2>3 DEF Box!RecordIssuance, Box!ReadCache, Box!CheckSize, Box!Walk, Box!AppendLine, Box!WriteCache
    <3> QED BY <2>0, <2>3, <3>1 DEF IssueOf
  <2>4. CASE Box!RecordIssuance(i) /\ lpc'[i] = "create"
    <3>1. nonce' = nonce /\ lpc[i] = "record" /\ boxPc'[i] = "idle" /\ result'[i] = "ok"
      BY <2>0, <2>4 DEF Box!RecordIssuance
    <3>2. Recorded(nonce[i])'
      BY <2>4, <3>1, IssuanceRecorded, StillRecorded DEF LockStep, Recorded
    <3> QED BY <2>0, <2>4, <3>1, <3>2 DEF IssueOf
  <2>5. CASE Box!CreateSentinel(i) /\ lpc'[i] = "dump"
    <3>1. nonce' = nonce /\ lpc[i] = "create" /\ sentinel' = "empty" /\ lines' = lines
      BY <2>0, <2>5 DEF Box!CreateSentinel, Box!file, Box!Empty
    <3> QED BY <2>0, <2>5, <3>1 DEF IssueOf, Recorded
  <2>6. \/ lpc'[i] \in {"out", "detect", "scan"}
        \/ Box!DetectJudge(i)
        \/ Box!RecordIssuance(i) /\ lpc'[i] \in {"record", "create"}
        \/ Box!CreateSentinel(i) /\ lpc'[i] = "dump"
    <3>1. CASE Box!Research(i) \/ Box!IssueExists(i) \/ Box!DetectSentinel(i) \/ Box!DetectScan(i)
               \/ Box!DumpSentinel(i) \/ Box!Die(i)
      BY <2>0, <3>1 DEF Box!Research, Box!lvars, Box!Issuing, Box!IssueExists, Box!DetectSentinel,
           Box!DetectScan, Box!DumpSentinel, Box!Die
    <3>2. CASE Box!RecordIssuance(i)
      BY <2>0, <3>2 DEF Box!RecordIssuance
    <3>3. CASE Box!CreateSentinel(i)
      BY <2>0, <3>3 DEF Box!CreateSentinel
    <3> QED BY <3>1, <3>2, <3>3 DEF LockStep
  <2> QED BY <2>1, <2>2, <2>3, <2>4, <2>5, <2>6
<1>3. ASSUME NEW j \in Inst \ {i}, lpc'[i] = "dump", lpc'[j] = "dump" PROVE FALSE
  <2>1. lpc[j] = "dump" /\ sentinel = "empty"
    BY <1>0, <1>3, OthersStay DEF IssueInv, IssueOf
  <2>2. lpc[i] = "dump" \/ sentinel = "absent"
    BY <1>0, <1>3 DEF LockStep, Box!Research, Box!lvars, Box!IssueExists, Box!DetectSentinel,
         Box!DetectScan, Box!DetectJudge, Box!RecordIssuance, Box!CreateSentinel, Box!DumpSentinel,
         Box!Die, Box!LGoto, Box!LEnd, Box!LTypeOK, Box!Absent
  <2> QED BY <1>0, <2>1, <2>2 DEF IssueInv
<1>4. \A j, k \in Inst : lpc'[j] = "dump" /\ lpc'[k] = "dump" => j = k
  <2>1. \A j, k \in Inst \ {i} : lpc'[j] = "dump" /\ lpc'[k] = "dump" => j = k
    BY <1>0, OthersStay DEF IssueInv
  <2> QED BY <1>3, <2>1
<1> QED BY <1>1, <1>2, <1>4 DEF IssueInv

\* Keys come from the one issue() that fills the sentinel it created.
LEMMA KeyKept == ASSUME LockInv, NEW i \in Inst, LockStep(i) PROVE KeyInv'
<1>0. Box!LTypeOK /\ IssueInv /\ KeyInv /\ {"absent", "empty"} \cap Nonces = {}
  BY IdleConfigAssumption DEF LockInv
<1>1. CASE Box!DumpSentinel(i)
  <2>1. /\ lpc[i] = "dump" /\ sentinel' = nonce[i] /\ keys' = keys \cup {nonce[i]}
        /\ nonce[i] \in Nonces /\ Recorded(nonce[i]) /\ sentinel = "empty"
    BY <1>0, <1>1 DEF Box!DumpSentinel, IssueInv, IssueOf
  <2>2. keys = {}
    BY <1>0, <2>1 DEF KeyInv, KeyOf
  <2> DEFINE n == nonce[i]
  <2>3. keys' = {n} /\ sentinel' \in {n, "absent"} /\ n \in Nonces
    BY <2>1, <2>2
  <2>4. Recorded(n)'
    BY <1>1, <2>1 DEF Recorded, Box!DumpSentinel, Box!vars
  <2> QED
    <3>1. \E m \in Nonces : KeyOf(m)'
      <4>1. lines' = lines /\ Recorded(n)
        BY <1>1, <2>1 DEF Box!DumpSentinel, Box!vars
      <4> HIDE DEF n
      <4> QED BY <2>3, <4>1 DEF KeyOf, Recorded
    <3> QED BY <3>1 DEF KeyInv
<1>2. CASE ~Box!DumpSentinel(i)
  <2>1. keys' = keys
    BY <1>2 DEF LockStep, Box!Research, Box!lvars, Box!IssueExists, Box!DetectSentinel,
         Box!DetectScan, Box!DetectJudge, Box!RecordIssuance, Box!CreateSentinel, Box!Die
  <2>2. sentinel' = sentinel \/ (sentinel = "absent" /\ sentinel' = "empty" /\ lpc[i] = "create")
    BY <1>2 DEF LockStep, Box!Research, Box!lvars, Box!IssueExists, Box!DetectSentinel, Box!DetectScan,
         Box!DetectJudge, Box!RecordIssuance, Box!CreateSentinel, Box!Die, Box!Absent, Box!Empty
  <2>3. lpc[i] = "create" => ~Deleted
    BY DEF LockInv, DeletedInv, StoppedAt
  <2>4. CASE keys = {}
    <3>1. sentinel \in {"absent", "empty"}
      BY <1>0, <2>4 DEF KeyInv, KeyOf
    <3> QED BY <2>1, <2>2, <2>4, <3>1 DEF KeyInv
  <2>5. CASE keys # {}
    <3>1. PICK n \in Nonces : KeyOf(n)
      BY <1>0, <2>5 DEF KeyInv
    <3>2. sentinel' = sentinel
      BY <2>2, <2>3, <2>5 DEF Deleted
    <3>3. Recorded(n)'
      BY <3>1, StillRecorded DEF KeyOf
    <3> QED BY <2>1, <3>1, <3>2, <3>3 DEF KeyInv, KeyOf
  <2> QED BY <2>4, <2>5
<1> QED BY <1>1, <1>2

\* Over a trial without its sentinel every issue() ends at its scan.
LEMMA DeletedKept == ASSUME LockInv, NEW i \in Inst, LockStep(i) PROVE DeletedInv'
<1>0. /\ Box!LTypeOK /\ IssueInv /\ KeyInv /\ DeletedInv /\ RegistryInv /\ RegistryInv'
      /\ {"absent", "empty"} \cap Nonces = {}
  BY StepOfOne, IdleConfigAssumption DEF LockInv
<1>1. SUFFICES ASSUME Deleted' PROVE deletes' > 0 /\ \A j \in Inst : StoppedAt(j)'
  BY DEF DeletedInv
<1>2. ~Box!DumpSentinel(i)
  BY <1>0, <1>1 DEF Box!DumpSentinel, IssueInv, IssueOf, Deleted
<1>3. keys' = keys /\ Deleted
  <2>1. keys' = keys
    BY <1>2 DEF LockStep, Box!Research, Box!lvars, Box!IssueExists, Box!DetectSentinel,
         Box!DetectScan, Box!DetectJudge, Box!RecordIssuance, Box!CreateSentinel, Box!Die
  <2>2. sentinel = "absent"
    BY <1>0, <1>1, OthersStay DEF Deleted, IssueInv, IssueOf
  <2> QED BY <1>1, <2>1, <2>2 DEF Deleted
<1>4. deletes' > 0
  BY <1>0, <1>3, OthersStay DEF DeletedInv
<1>5. \A j \in Inst \ {i} : StoppedAt(j)'
  BY <1>0, <1>3, OthersStay, StepOfOne DEF DeletedInv, StoppedAt, OnlyOf
<1>6. StoppedAt(i)'
  <2> USE DEF Box!LGoto, Box!LEnd
  <2>0. /\ StoppedAt(i) /\ sentinel = "absent"
        /\ lpc \in [Inst -> {"out", "detect", "scan", "record", "create", "dump"}]
        /\ marker \in [Inst -> Nonces \cup {"absent"}] /\ found \in [Inst -> SUBSET Nonces]
        /\ result \in [Inst -> Box!Results]
    BY <1>0, <1>3 DEF Deleted, DeletedInv, Box!LTypeOK, RegistryInv, Box!Absent
  <2>1. CASE Box!Research(i) \/ Box!IssueExists(i) \/ Box!Die(i)
    BY <2>0, <2>1 DEF Box!Research, Box!lvars, Box!Issuing, Box!IssueExists, Box!Die, StoppedAt
  <2>2. CASE Box!DetectSentinel(i)
    BY <2>0, <2>2 DEF Box!DetectSentinel, Box!Query, Box!Enter, Box!Empty, StoppedAt
  <2>3. CASE Box!DetectScan(i)
    <3>1. PICK n \in Nonces : Recorded(n)
      BY <1>0, <1>3 DEF KeyInv, KeyOf, Deleted
    <3>2. Box!Issuances(lines) # {}
      BY <3>1 DEF Recorded, Box!Issuances
    <3>3. lpc'[i] = "scan" /\ marker'[i] = "absent" /\ (result'[i] = "ok" => found'[i] # {})
      BY <2>0, <2>3, <3>2 DEF Box!DetectScan, StoppedAt
    <3> QED BY <3>3 DEF StoppedAt
  <2>4. CASE Box!DetectJudge(i)
    <3>1. ~(result[i] = "ok" /\ Box!AnchorsAgree(marker[i], found[i]))
      BY <2>0, <2>4 DEF Box!DetectJudge, Box!AnchorsAgree, Box!Absent, StoppedAt
    <3>2. lpc'[i] = "out"
      BY <2>0, <2>4, <3>1 DEF Box!DetectJudge
    <3> QED BY <3>2 DEF StoppedAt
  <2>5. CASE Box!RecordIssuance(i) \/ Box!CreateSentinel(i)
    BY <2>0, <2>5 DEF Box!RecordIssuance, Box!CreateSentinel, StoppedAt
  <2> QED BY <1>2, <2>1, <2>2, <2>3, <2>4, <2>5 DEF LockStep
<1> QED BY <1>4, <1>5, <1>6

\* A complete sentinel removed by hand, while nobody is in issue(), leaves its trial.
LEMMA DeletionKeeps == ASSUME LockInv, Box!DeleteSentinel PROVE LockInv'
<1>0. /\ sentinel \in Nonces /\ sentinel' = "absent" /\ deletes' = deletes + 1 /\ deletes \in Nat
      /\ \A i \in Inst : lpc[i] = "out"
      /\ UNCHANGED <<lines, boxPc, op, arg, result, lpc, nonce, marker, found, keys>>
      /\ {"absent", "empty"} \cap Nonces = {}
  BY IdleConfigAssumption DEF Box!DeleteSentinel, Box!vars, Box!Issuing, Box!Absent, LockInv, Box!LTypeOK
<1>1. Box!LTypeOK'
  BY DEF LockInv, Box!LTypeOK, Box!DeleteSentinel, Box!Absent
<1>2. RegistryInv'
  BY <1>0, RegistrySame DEF LockInv
<1>3. IssueInv'
  BY <1>0 DEF IssueInv, IssueOf
<1>4. KeyInv'
  <2>1. PICK n \in Nonces : KeyOf(n)
    BY <1>0 DEF LockInv, KeyInv
  <2> QED BY <1>0, <2>1 DEF KeyInv, KeyOf, Recorded
<1>5. DeletedInv'
  BY <1>0 DEF DeletedInv, StoppedAt
<1> QED BY <1>1, <1>2, <1>3, <1>4, <1>5 DEF LockInv

\* Nothing happens to the lockbox while the deploy gates are at work.
LEMMA LockStutters == ASSUME LockInv, UNCHANGED boxVars PROVE LockInv'
<1>1. /\ Box!LTypeOK' /\ KeyInv'
  BY DEF LockInv, boxVars, Box!LTypeOK, KeyInv, KeyOf, Recorded
<1>2. RegistryInv'
  BY RegistrySame DEF LockInv, boxVars
<1>3. IssueInv'
  BY DEF LockInv, boxVars, IssueInv, IssueOf, Recorded
<1>4. DeletedInv'
  BY DEF LockInv, boxVars, DeletedInv, Deleted, StoppedAt
<1> QED BY <1>1, <1>2, <1>3, <1>4 DEF LockInv

\* The lockbox starts closed over an empty registry.
LEMMA LockStart == GatesInit => LockInv
<1> SUFFICES ASSUME GatesInit PROVE LockInv
  OBVIOUS
<1>0. Box!LInit /\ Box!Init
  BY DEF GatesInit, Box!LInit
<1>1. Box!LTypeOK
  BY <1>0 DEF Box!LInit, Box!LTypeOK, Box!Absent, Box!Empty
<1>2. RegistryInv
  <2>1. lines = [k \in 1..0 |-> Box!LegacyLine([x \in 1..0 |-> 0], k)]
    BY <1>0 DEF Box!Init
  <2>2. lines = <<>>
    BY <2>1
  <2>3. LinesTyped
    BY <2>2 DEF LinesTyped, IsList
  <2> QED BY <1>0, <2>3, IdleConfigAssumption DEF Box!Init, RegistryInv, Box!PCs, Box!Ops, Box!WriteOps,
         Box!Results
<1>3. IssueInv /\ KeyInv /\ DeletedInv
  BY <1>0 DEF Box!LInit, IssueInv, IssueOf, KeyInv, DeletedInv, Deleted, Box!Absent
<1> QED BY <1>1, <1>2, <1>3 DEF LockInv

\* What the invariant says of the run's properties.
LEMMA LockMeans == LockInv => LockboxOnce
<1> SUFFICES ASSUME LockInv PROVE LockboxOnce
  OBVIOUS
<1>0. /\ Box!LTypeOK /\ KeyInv /\ DeletedInv /\ {"absent", "empty"} \cap Nonces = {}
  BY IdleConfigAssumption DEF LockInv
<1>1. Box!OneKey
  <2>1. \A S : Box!Cardinality(S) = Cardinality(S)
    BY Zenon DEF Box!Cardinality, Cardinality
  <2>2. Cardinality(keys) \in {0, 1}
    BY <1>0, FS_EmptySet, FS_Singleton DEF KeyInv, KeyOf
  <2> QED BY <2>1, <2>2 DEF Box!OneKey
<1>2. Box!SpentIsRecorded
  BY <1>0 DEF KeyInv, KeyOf, Recorded, Box!SpentIsRecorded
<1>3. Box!KeysOpen
  BY <1>0 DEF KeyInv, KeyOf, DeletedInv, Deleted, Box!LTypeOK, Box!KeysOpen
<1> QED BY <1>0, <1>1, <1>2, <1>3 DEF LockboxOnce

\* The lockbox opens once (MCGates' LockboxOnce): with any number of processes that research
\* and issue, die at any file access and write the registry without excluding each other, one
\* key at most is ever returned, its trial is in the registry before the sentinel names it,
\* and it opens the loader until somebody deletes the sentinel.
THEOREM OneUnlock == GatesSpec => []LockboxOnce
<1>1. LockInv /\ [GatesNext]_<<part, vars, boxVars>> => LockInv'
  <2>1. SUFFICES ASSUME LockInv, [GatesNext]_<<part, vars, boxVars>> PROVE LockInv'
    OBVIOUS
  <2>2. CASE UNCHANGED boxVars
    BY <2>1, <2>2, LockStutters
  <2>3. ASSUME NEW i \in Inst, LockStep(i) PROVE LockInv'
    BY <2>1, <2>3, LockTyped, StepOfOne, IssueKept, KeyKept, DeletedKept DEF LockInv
  <2>4. CASE Box!DeleteSentinel
    BY <2>1, <2>4, DeletionKeeps
  <2>5. CASE Box!LNext
    BY <2>3, <2>4, <2>5 DEF Box!LNext, LockStep
  <2> QED BY <2>1, <2>2, <2>5 DEF GatesNext
<1> QED BY <1>1, LockStart, LockMeans, PTL DEF GatesSpec
=============================================================================
