-------------------------- MODULE MCTrialRegistry --------------------------
(***************************************************************************)
(* TrialRegistry for TLC.  Instances are interchangeable; configs are not, *)
(* because idle instances hold a chosen one.                               *)
(***************************************************************************)
EXTENDS TrialRegistry, TLC

InstSymmetry == Permutations(Inst)

\* One fault per behaviour: a death or an edit from outside, anywhere.
OneFault == crashes + edits <= 1
-----------------------------------------------------------------------------
\* Readers: an alarm is explained by what became of the file, what is served as clean is,
\* and a rebuild never launders a doctored line; see TrialRegistry.
ReadsHonest == AlarmsExplained /\ ServedClean /\ NeverLaundered
=============================================================================
