--------------------------- MODULE SignalCatalog ---------------------------
(***************************************************************************)
(* The catalog of signal classes and the hypothesis contract               *)
(* (edge/signals/registry.py, base.py), and what runners/campaign.py       *)
(* records of a run and what it runs.  A class is a record of its          *)
(* class-level declarations, id its qualified name.                        *)
(***************************************************************************)
EXTENDS Integers, Sequences, FiniteSets, Functions, SequencesExt

CONSTANTS Classes, SignalConfigs, Specs,
          BaseConfigs,     \* the values edge.yaml may have: [execution, risk]
          MIN_HYPOTHESIS_CHARS,
          MaxTrials

\* Qualified names tell classes apart.
ASSUME CatalogAssumption == \A c, d \in Classes : c.id = d.id => c = d

VARIABLES catalog,    \* _SIGNALS: name -> [cls, enabled]
          trial_lines,     \* the lines run_signal has recorded
          engines,    \* the engines built, each with the trial it belongs to
          current,    \* the run under way: the class, its spec, its trial
          base        \* edge.yaml

catalogVars == <<catalog, trial_lines, engines, current, base>>
Idle == [pc |-> "idle"]

\* require_hypothesis, the one validator of both enforcement points.
Admissible(cls) == cls.hypothesis >= MIN_HYPOTHESIS_CHARS
ValidClass(cls) == cls.concrete /\ Admissible(cls) /\ cls.warmup >= 0 /\ cls.allowed # {}

NoTrials == catalog = <<>> /\ trial_lines = <<>> /\ engines = <<>> /\ current = Idle
CatalogInit == NoTrials /\ base \in BaseConfigs
CatalogRest == NoTrials /\ base = CHOOSE b \in BaseConfigs : TRUE

\* register: a name that is taken raises.
Register(cls) ==
    /\ current = Idle /\ ValidClass(cls) /\ cls.name \notin DOMAIN catalog
    /\ catalog' = [n \in DOMAIN catalog \cup {cls.name} |->
                     IF n = cls.name THEN [cls |-> cls.id, enabled |-> TRUE] ELSE catalog[n]]
    /\ UNCHANGED <<trial_lines, engines, current, base>>
SetEnabled(name, value) ==
    /\ current = Idle /\ name \in DOMAIN catalog /\ catalog' = [catalog EXCEPT ![name].enabled = value]
    /\ UNCHANGED <<trial_lines, engines, current, base>>

\* The half-spreads of the run are left out.
RunConfigNoSpreads(spec) ==
    [span |-> spec.span, symbols |-> spec.symbols, latency |-> spec.latency, overrides |-> spec.overrides]

\* _run_config: the spec, field by field.
RunConfig(spec) ==
    [span |-> spec.span, symbols |-> spec.symbols, latency |-> spec.latency, half |-> spec.half,
     overrides |-> spec.overrides]

\* trial_config_for; equal dicts have equal hashes.
TrialConfig(cls, config, spec) ==
    [signal |-> cls.name, class |-> cls.id, config |-> config, allowed |-> cls.allowed,
     warmup |-> cls.warmup, run |-> RunConfig(spec)]

DuplicateOf(config) ==
    LET earlier == {i \in DOMAIN trial_lines : trial_lines[i].config = config}
    IN  IF earlier = {} THEN 0 ELSE CHOOSE i \in earlier : \A j \in earlier : i <= j

\* execute up to run_signal's record: the class may have skipped registration.
RecordTrial(cls, config, spec) ==
    /\ current = Idle /\ Len(trial_lines) < MaxTrials
    /\ Admissible(cls) /\ cls.concrete
    /\ LET line == TrialConfig(cls, config, spec)
       IN  trial_lines' = Append(trial_lines, [config |-> line, dup |-> DuplicateOf(line)])
    /\ current' = [pc |-> "backtest", cls |-> cls, config |-> config, spec |-> spec, trial |-> Len(trial_lines')]
    /\ UNCHANGED <<catalog, engines, base>>

\* The overrides are recorded only.
EngineInputUnapplied(spec, b) ==
    [span |-> spec.span, symbols |-> spec.symbols, latency |-> spec.latency, half |-> spec.half,
     execution |-> b.execution, risk |-> b.risk]

\* model_copy(update=..)
Updated(f, update) == [k \in DOMAIN f \cup DOMAIN update |-> IF k \in DOMAIN update THEN update[k] ELSE f[k]]

\* execute: the params, the quote source and the configuration the engine gets.
EngineInput(spec, b) ==
    [span |-> spec.span, symbols |-> spec.symbols, latency |-> spec.latency, half |-> spec.half,
     execution |-> Updated(b.execution, spec.overrides), risk |-> b.risk]

\* backtest(signal): the engine runs, or raises, which execute turns into a file.
Backtest ==
    /\ current.pc = "backtest" /\ current' = Idle
    /\ engines' = Append(engines, [trial |-> current.trial, cls |-> current.cls, config |-> current.config,
                                   input |-> EngineInput(current.spec, base), base |-> base])
    /\ UNCHANGED <<catalog, trial_lines, base>>

\* The process dies after the trial line.
DieBeforeBacktest == current.pc = "backtest" /\ current' = Idle /\ UNCHANGED <<catalog, trial_lines, engines, base>>

\* edge.yaml is edited between two runs.
EditConfig ==
    /\ current = Idle /\ base' \in BaseConfigs \ {base} /\ UNCHANGED <<catalog, trial_lines, engines, current>>

CatalogNext ==
    \/ \E cls \in Classes : Register(cls)
    \/ \E name \in DOMAIN catalog, value \in BOOLEAN : SetEnabled(name, value)
    \/ \E cls \in Classes, config \in SignalConfigs, spec \in Specs : RecordTrial(cls, config, spec)
    \/ Backtest \/ DieBeforeBacktest \/ EditConfig
----------------------------------------------------------------------------
\* "the engine sees exactly the execution parameters _run_config() reports": every
\* engine ever built has a trial line of its own, recorded before it, that states
\* what it was given, whatever died or was edited in between.
RecordedIsApplied ==
    \A e \in DOMAIN engines :
        LET run == engines[e] IN
        /\ run.trial \in DOMAIN trial_lines
        /\ \A f \in DOMAIN engines : engines[f].trial = run.trial => f = e
        /\ LET line == trial_lines[run.trial].config IN
           /\ line.class = run.cls.id /\ line.config = run.config
           /\ line.run.half = run.input.half /\ line.run.latency = run.input.latency
           /\ \A k \in DOMAIN line.run.overrides : run.input.execution[k] = line.run.overrides[k]

\* "Two trials with equal dicts hash identically and the second is flagged
\* duplicate_of": a flagged trial repeats the experiment of the first one exactly,
\* for one edge.yaml.  The rest of that file is in no trial line.
DuplicatesRepeat ==
    \A e, f \in DOMAIN engines :
        LET a == engines[e]  b == engines[f] IN
        trial_lines[b.trial].dup = a.trial =>
            /\ a.trial < b.trial /\ trial_lines[a.trial].dup = 0
            /\ a.cls = b.cls /\ a.config = b.config
            /\ a.base = b.base => a.input = b.input
=============================================================================
