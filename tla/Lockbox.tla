------------------------------ MODULE Lockbox ------------------------------
(***************************************************************************)
(* The one-time unlock of the out-of-sample data: LockboxKey.issue and     *)
(* detect_tamper (edge/validation/lockbox.py) on top of the trial registry.*)
(* A process of Inst either uses the registry as a researcher or runs an   *)
(* issue(), which scans the registry, appends an issuance trial and then   *)
(* exclusively creates LOCKBOX_SPENT.json.  All registry accesses are the  *)
(* steps of TrialRegistry, so issues interleave with each other and with   *)
(* research at file-access granularity.                                    *)
(***************************************************************************)
EXTENDS TrialRegistry

CONSTANTS
  Nonces,       \* 128-bit nonces an issue may draw: among Configs, as issuance trials
  MaxDeletes    \* bound on deletions of the sentinel from outside

Absent == "absent"    \* no LOCKBOX_SPENT.json
Empty == "empty"      \* created by open(path, "x"), json.dump not flushed yet

VARIABLES
  sentinel,   \* Absent, Empty or the nonce inside the file
  lpc,        \* per process: where its issue() is
  nonce,      \* per process: the nonce it drew, or Absent
  marker,     \* per process: the sentinel detect_tamper read
  found,      \* per process: issuance nonces its registry scan returned
  verdict,    \* per process: how its last issue() ended
  keys,       \* nonces of the keys issue() has returned
  used,       \* nonces drawn so far
  deletes     \* how often the sentinel was deleted from outside

lvars == <<sentinel, lpc, nonce, marker, found, verdict, keys, used, deletes>>
allVars == <<vars, lvars>>

LInit ==
  /\ Init
  /\ sentinel = Absent
  /\ lpc = [i \in Inst |-> "out"]
  /\ nonce = [i \in Inst |-> Absent]
  /\ marker = [i \in Inst |-> Absent]
  /\ found = [i \in Inst |-> {}]
  /\ verdict = [i \in Inst |-> "none"]
  /\ keys = {} /\ used = {} /\ deletes = 0

Issuing(i) == lpc[i] # "out"

\* A process outside issue() works with the registry.
Research(i) ==
  /\ ~Issuing(i)
  /\ \/ \E c \in Configs \ Nonces : RecordTrial(i, c)
     \/ Query(i) \/ RebuildIndex(i)
     \/ ReadCache(i) \/ CheckSize(i) \/ Walk(i)
     \/ WarmCache(i) \/ WarmFile(i) \/ AppendLine(i) \/ WriteCache(i)
     \/ RebuildWalk(i) \/ RebuildWrite(i)
  /\ UNCHANGED lvars

LGoto(i, l) == lpc' = [lpc EXCEPT ![i] = l]
LEnd(i, v) == /\ lpc' = [lpc EXCEPT ![i] = "out"]
              /\ verdict' = [verdict EXCEPT ![i] = v]

\* if path.exists(): raise.  issue() makes registry instances of its own, so a
\* process that has a warm writer is modelled by a process that has none.
IssueExists(i) ==
  /\ ~Issuing(i) /\ pc[i] = "idle" /\ writer[i] = NoWriter
  /\ ExclusiveWriters => \A j \in Inst : ~Writing(j) /\ ~Issuing(j)
  /\ Len(lines) < MaxLines /\ used # Nonces
  /\ IF sentinel # Absent THEN LEnd(i, "spent")
     ELSE LGoto(i, "detect") /\ verdict' = [verdict EXCEPT ![i] = "none"]
  /\ UNCHANGED <<vars, sentinel, nonce, marker, found, keys, used, deletes>>

\* Mutant: read_sentinel hands on a file it cannot parse.
DetectSentinelUnparsed(i) ==
  /\ lpc[i] = "detect"
  /\ marker' = [marker EXCEPT ![i] = sentinel]
  /\ LGoto(i, "scan") /\ UNCHANGED verdict
  /\ Query(i)
  /\ UNCHANGED <<sentinel, nonce, found, keys, used, deletes>>

\* detect_tamper: read_sentinel, which refuses a file it cannot parse, ...
DetectSentinel(i) ==
  /\ lpc[i] = "detect"
  /\ \/ /\ sentinel = Empty
        /\ LEnd(i, "tampered")
        /\ UNCHANGED <<vars, marker>>
     \/ /\ sentinel # Empty
        /\ marker' = [marker EXCEPT ![i] = sentinel]
        /\ LGoto(i, "scan") /\ UNCHANGED verdict
        /\ Query(i)
  /\ UNCHANGED <<sentinel, nonce, found, keys, used, deletes>>

\* ... then a full registry query for issuance trials, ...
Issuances(t) == {t[k].cfg : k \in 1..Len(t)} \cap Nonces

DetectScan(i) ==
  /\ lpc[i] = "scan"
  /\ ReadCache(i) \/ CheckSize(i) \/ Walk(i)
  /\ found' = [found EXCEPT ![i] = IF result'[i] = "ok" THEN Issuances(lines) ELSE {}]
  /\ UNCHANGED <<sentinel, lpc, nonce, marker, verdict, keys, used, deletes>>

\* ... then the two anchors must agree.
\* Mutant: a missing sentinel is taken for an unspent lockbox.
AnchorsAgreeIfPresent(s, f) == s = Absent \/ s \in f

AnchorsAgree(s, f) == IF s = Absent THEN f = {} ELSE s \in f

\* Mutant: issue() goes straight to the sentinel, no issuance trial is recorded.
DetectJudgeNoRecord(i) ==
  /\ lpc[i] = "scan" /\ pc[i] = "idle"
  /\ result[i] = "ok" /\ AnchorsAgree(marker[i], found[i])
  /\ \E n \in Nonces \ used :
       nonce' = [nonce EXCEPT ![i] = n] /\ used' = used \cup {n}
  /\ LGoto(i, "create")
  /\ UNCHANGED <<vars, sentinel, marker, found, verdict, keys, deletes>>

\* issue() goes on to draw a nonce and to record the issuance (cold append).
DetectJudge(i) ==
  /\ lpc[i] = "scan" /\ pc[i] = "idle"
  /\ \/ /\ result[i] = "tampered"
        /\ LEnd(i, "registry") /\ UNCHANGED <<vars, nonce, used>>
     \/ /\ result[i] = "ok" /\ ~AnchorsAgree(marker[i], found[i])
        /\ LEnd(i, "tampered") /\ UNCHANGED <<vars, nonce, used>>
     \/ /\ result[i] = "ok" /\ AnchorsAgree(marker[i], found[i])
        /\ \E n \in Nonces \ used :
             /\ nonce' = [nonce EXCEPT ![i] = n] /\ used' = used \cup {n}
             /\ RecordTrial(i, n)
        /\ LGoto(i, "record") /\ UNCHANGED verdict
  /\ marker' = [marker EXCEPT ![i] = Absent]
  /\ found' = [found EXCEPT ![i] = {}]
  /\ UNCHANGED <<sentinel, keys, deletes>>

RecordIssuance(i) ==
  /\ lpc[i] = "record"
  /\ ReadCache(i) \/ CheckSize(i) \/ Walk(i) \/ AppendLine(i) \/ WriteCache(i)
  /\ LET over == pc'[i] = "idle" IN
       /\ lpc' = [lpc EXCEPT ![i] = IF ~over THEN "record"
                                    ELSE IF result'[i] = "ok" THEN "create" ELSE "out"]
       /\ verdict' = [verdict EXCEPT ![i] = IF over /\ result'[i] # "ok" THEN "registry" ELSE @]
  /\ UNCHANGED <<sentinel, nonce, marker, found, keys, used, deletes>>

\* Mutant: open(path, "w") instead of the exclusive "x".
CreateSentinelPlain(i) ==
  /\ lpc[i] = "create"
  /\ sentinel' = Empty /\ LGoto(i, "dump") /\ UNCHANGED verdict
  /\ UNCHANGED <<vars, nonce, marker, found, keys, used, deletes>>

\* open(path, "x"): exactly one of several issues gets past this line.  The
\* registry instance that recorded the issuance is gone by then.
CreateSentinel(i) ==
  /\ lpc[i] = "create"
  /\ writer' = [writer EXCEPT ![i] = NoWriter]
  /\ dupMap' = [dupMap EXCEPT ![i] = [c \in Configs |-> NoDup]]
  /\ \/ sentinel = Absent /\ sentinel' = Empty /\ LGoto(i, "dump") /\ UNCHANGED verdict
     \/ sentinel # Absent /\ LEnd(i, "spent") /\ UNCHANGED sentinel
  /\ UNCHANGED <<file, pc, op, arg, seen, result, history>>
  /\ UNCHANGED <<nonce, marker, found, keys, used, deletes>>

\* json.dump, close, and the key is returned.
DumpSentinel(i) ==
  /\ lpc[i] = "dump"
  /\ sentinel' = nonce[i]
  /\ keys' = keys \cup {nonce[i]}
  /\ LEnd(i, "key")
  /\ UNCHANGED <<vars, nonce, marker, found, used, deletes>>

\* The process dies inside or outside issue().
Die(i) ==
  /\ Crash(i)
  /\ lpc' = [lpc EXCEPT ![i] = "out"]
  /\ verdict' = [verdict EXCEPT ![i] = "none"]
  /\ marker' = [marker EXCEPT ![i] = Absent]
  /\ found' = [found EXCEPT ![i] = {}]
  /\ UNCHANGED <<sentinel, nonce, keys, used, deletes>>

\* Somebody removes a complete sentinel by hand, between two calls of issue():
\* inside one nothing but the sentinel itself stands in the way of a second key.
DeleteSentinel ==
  /\ sentinel \in Nonces /\ deletes < MaxDeletes
  /\ \A i \in Inst : ~Issuing(i)
  /\ sentinel' = Absent /\ deletes' = deletes + 1
  /\ UNCHANGED <<vars, lpc, nonce, marker, found, verdict, keys, used>>

LNext ==
  \/ \E i \in Inst :
       \/ Research(i) \/ IssueExists(i) \/ DetectSentinel(i) \/ DetectScan(i)
       \/ DetectJudge(i) \/ RecordIssuance(i) \/ CreateSentinel(i) \/ DumpSentinel(i)
       \/ Die(i)
  \/ DeleteSentinel

LSpec == LInit /\ [][LNext]_allVars

-----------------------------------------------------------------------------

\* The types of the sentinel and of each issue()'s local state; the registry's are TypeOK.
LTypeOK ==
  /\ sentinel \in Nonces \cup {Absent, Empty}
  /\ lpc \in [Inst -> {"out", "detect", "scan", "record", "create", "dump"}]
  /\ nonce \in [Inst -> Nonces \cup {Absent}]
  /\ marker \in [Inst -> Nonces \cup {Absent}]
  /\ found \in [Inst -> SUBSET Nonces]
  /\ verdict \in [Inst -> {"none", "key", "spent", "tampered", "registry"}]
  /\ keys \subseteq Nonces /\ used \subseteq Nonces /\ deletes \in Nat

\* The lockbox opens exactly once: however many processes issue, crash, or
\* retry, and even after the sentinel is deleted between two issues, one key at
\* most is returned, with no exclusion between writers of the registry.
OneKey == Cardinality(keys) <= 1

\* Whatever nonce the sentinel holds was recorded in the registry first: an
\* open lockbox always has its issuance trial, even where another process died
\* or wrote during the append and the line is one the chain walk refuses.
SpentIsRecorded ==
  sentinel \in Nonces =>
    \E k \in 1..Len(lines) : lines[k].cfg = sentinel /\ lines[k].kind # "torn"

\* A returned key opens the loader until somebody deletes the sentinel.
KeysOpen == deletes = 0 /\ keys # {} => sentinel \in keys
=============================================================================
