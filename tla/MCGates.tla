------------------------------ MODULE MCGates ------------------------------
(***************************************************************************)
(* The two gates that are opened by a ledger: the deploy gates over the    *)
(* promotion ledger, and the lockbox over a trial registry whose writers   *)
(* nothing excludes.  They share no state: a behaviour is one of the two.  *)
(* Processes of the lockbox are interchangeable, and so are its nonces, as *)
(* long as the config that idle instances hold is not one of them.         *)
(***************************************************************************)
EXTENDS Promotion, TLC

CONSTANTS Inst, Configs, Nonces, MaxLines,
          MaxDeaths,    \* deaths of a process of the lockbox
          MaxDeletes    \* deletions of the sentinel from outside

\* A nonce is a string of hex digits, and idle instances hold a config that is none.
ASSUME IdleConfigAssumption ==
  /\ Nonces \subseteq Configs /\ (CHOOSE c \in Configs : TRUE) \in Configs \ Nonces
  /\ {"absent", "empty"} \cap Nonces = {}
  /\ {MaxDeaths, MaxDeletes} \subseteq Nat

VARIABLES
  part,
  lines, size, index, nextSha, boxPc, op, arg, seen, writer, dupMap, result, acked, boxCrashes,
  boxEdits, foreign, doctored, stale, sentinel, lpc, nonce, marker, found, boxVerdict, keys, used, deletes

Box == INSTANCE Lockbox WITH
  MaxLegacy <- 0, MaxCrashes <- MaxDeaths, MaxEdits <- 0, ExclusiveWriters <- FALSE,
  pc <- boxPc, crashes <- boxCrashes, edits <- boxEdits, verdict <- boxVerdict

boxVars == <<lines, size, index, nextSha, boxPc, op, arg, seen, writer, dupMap, result, acked, boxCrashes,
             boxEdits, foreign, doctored, stale, sentinel, lpc, nonce, marker, found, boxVerdict, keys,
             used, deletes>>

GatesInit ==
  /\ part \in {"deploy", "lockbox"} /\ Box!LInit
  /\ Init /\ (part = "lockbox" => source = CHOOSE v \in Versions : TRUE)
GatesNext ==
  \/ part = "deploy" /\ Next /\ UNCHANGED <<part, boxVars>>
  \/ part = "lockbox" /\ Box!LNext /\ UNCHANGED <<part, vars>>
GatesSpec == GatesInit /\ [][GatesNext]_<<part, vars, boxVars>>

Symmetry == Permutations(Inst) \cup Permutations(Nonces)
-----------------------------------------------------------------------------
\* The lockbox opens once, leaves its trace in the registry, and the key that was returned
\* keeps it open; see the conjuncts in Lockbox.
LockboxOnce == Box!LTypeOK /\ Box!OneKey /\ Box!SpentIsRecorded /\ Box!KeysOpen
=============================================================================
