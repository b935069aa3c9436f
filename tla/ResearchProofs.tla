--------------------------- MODULE ResearchProofs ----------------------------
(***************************************************************************)
(* The gateway's scan, the catalog of signal classes, the contract         *)
(* selector and the catalyst pipeline, for any modules, files, classes,    *)
(* configurations, chains, answers of engines and walk-forward windows.    *)
(***************************************************************************)
EXTENDS MCResearch, SequenceTheorems, SumProofs

(* The gateway.                                                             *)

LEMMA PartsOf ==
  /\ DataPackage \in Seq(Word) /\ Len(DataPackage) = 2 /\ DataPackage[1] = "edge" /\ DataPackage[2] = "data"
  /\ Loader \in Seq(Word) /\ Len(Loader) = 3 /\ Loader[1] = "edge" /\ Loader[2] = "data" /\ Loader[3] = "loader"
  /\ <<"catalyst">> \in Seq(Word) /\ Len(<<"catalyst">>) = 1 /\ <<"catalyst">>[1] = "catalyst"
<1>1. "edge" \in Word /\ "data" \in Word /\ "loader" \in Word /\ "catalyst" \in Word
  BY GatewayAssumption DEF GatewayAssumption, ROOT_PACKAGE
<1>2. \A a \in Word : <<a>> \in Seq(Word) /\ Len(<<a>>) = 1 /\ <<a>>[1] = a
  OBVIOUS
<1>3. \A a, b \in Word : <<a, b>> \in Seq(Word) /\ Len(<<a, b>>) = 2 /\ <<a, b>>[1] = a /\ <<a, b>>[2] = b
  OBVIOUS
<1>4. DataPackage \in Seq(Word) /\ Len(DataPackage) = 2 /\ DataPackage[1] = "edge" /\ DataPackage[2] = "data"
  BY <1>1, <1>3 DEF DataPackage, ROOT_PACKAGE
<1>5. \A s \in Seq(Word), e \in Word :
        /\ Append(s, e) \in Seq(Word) /\ Len(Append(s, e)) = Len(s) + 1 /\ Append(s, e)[Len(s) + 1] = e
        /\ \A k \in 1..Len(s) : Append(s, e)[k] = s[k]
  BY AppendProperties
<1>6. Loader \in Seq(Word) /\ Len(Loader) = 3 /\ Loader[1] = "edge" /\ Loader[2] = "data" /\ Loader[3] = "loader"
  <2>1. \A a, b, c \in Word :
          LET s == Append(<<a, b>>, c) IN s \in Seq(Word) /\ Len(s) = 3 /\ s[1] = a /\ s[2] = b /\ s[3] = c
    BY <1>3, <1>5
  <2> QED BY <1>1, <2>1 DEF Loader, DataPackage, ROOT_PACKAGE
<1> QED BY <1>1, <1>2, <1>4, <1>6

\* A prefix, part by part.
LEMMA PrefixOf ==
  ASSUME NEW s \in Seq(Word), NEW w \in Seq(Word)
  PROVE  IsPrefix(s, w) <=> Len(s) <= Len(w) /\ \A k \in 1..Len(s) : s[k] = w[k]
<1>1. CASE Len(s) > Len(w)
  BY <1>1 DEF IsPrefix
<1>2. CASE Len(s) <= Len(w)
  <2>1. SubSeq(s, 1, Len(s)) = [k \in 1..Len(s) |-> s[k]] /\ SubSeq(w, 1, Len(s)) = [k \in 1..Len(s) |-> w[k]]
    BY <1>2 
  <2> QED BY <1>2, <2>1 DEF IsPrefix
<1> QED BY <1>1, <1>2

\* Below the data package, at the loader or below it, spelled out.
LEMMA PrefixesOf ==
  ASSUME NEW w \in Seq(Word)
  PROVE  /\ IsStrictPrefix(DataPackage, w) <=> Len(w) > 2 /\ w[1] = "edge" /\ w[2] = "data"
         /\ IsPrefix(Loader, w) <=> Len(w) > 2 /\ w[1] = "edge" /\ w[2] = "data" /\ w[3] = "loader"
         /\ IsStrictPrefix(Loader, w) <=> Len(w) > 3 /\ w[1] = "edge" /\ w[2] = "data" /\ w[3] = "loader"
         /\ IsPrefix(<<"catalyst">>, w) <=> Len(w) > 0 /\ w[1] = "catalyst"
<1> DEFINE C == <<"catalyst">>
<1>1. Len(w) \in Nat
  OBVIOUS
<1>2. C \in Seq(Word) /\ Len(C) = 1 /\ C[1] = "catalyst"
  BY PartsOf
<1> HIDE DEF C
<1>3. ASSUME NEW s \in Seq(Word), Len(s) = 1 PROVE IsPrefix(s, w) <=> Len(w) >= 1 /\ w[1] = s[1]
  <2>1. \A k : k \in 1..1 <=> k = 1
    OBVIOUS
  <2>2. (\A k \in 1..1 : s[k] = w[k]) <=> w[1] = s[1]
    BY <2>1
  <2> QED BY <1>1, <1>3, <2>2, PrefixOf
<1>4. ASSUME NEW s \in Seq(Word), Len(s) = 2
      PROVE  IsPrefix(s, w) <=> Len(w) >= 2 /\ w[1] = s[1] /\ w[2] = s[2]
  <2>1. \A k : k \in 1..2 <=> k = 1 \/ k = 2
    OBVIOUS
  <2>2. (\A k \in 1..2 : s[k] = w[k]) <=> w[1] = s[1] /\ w[2] = s[2]
    BY <2>1
  <2> QED BY <1>1, <1>4, <2>2, PrefixOf
<1>5. ASSUME NEW s \in Seq(Word), Len(s) = 3
      PROVE  IsPrefix(s, w) <=> Len(w) >= 3 /\ w[1] = s[1] /\ w[2] = s[2] /\ w[3] = s[3]
  <2>1. \A k : k \in 1..3 <=> k = 1 \/ k = 2 \/ k = 3
    OBVIOUS
  <2>2. (\A k \in 1..3 : s[k] = w[k]) <=> w[1] = s[1] /\ w[2] = s[2] /\ w[3] = s[3]
    BY <2>1
  <2> QED BY <1>1, <1>5, <2>2, PrefixOf
<1>6. ASSUME NEW s \in Seq(Word), IsPrefix(s, w) PROVE IsStrictPrefix(s, w) <=> Len(w) > Len(s)
  <2>1. Len(s) <= Len(w) /\ \A k \in 1..Len(s) : s[k] = w[k]
    BY <1>6, PrefixOf
  <2>2. ASSUME Len(w) = Len(s) PROVE s = w
    BY <2>1, <2>2
  <2> QED BY <1>1, <1>6, <2>1, <2>2 DEF IsStrictPrefix
<1>7. \A s : IsStrictPrefix(s, w) => IsPrefix(s, w)
  BY DEF IsStrictPrefix
<1>8. IsPrefix(DataPackage, w) <=> Len(w) >= 2 /\ w[1] = "edge" /\ w[2] = "data"
  BY <1>4, PartsOf
<1>9. IsPrefix(Loader, w) <=> Len(w) >= 3 /\ w[1] = "edge" /\ w[2] = "data" /\ w[3] = "loader"
  BY <1>5, PartsOf
<1>10. IsPrefix(C, w) <=> Len(w) >= 1 /\ w[1] = "catalyst"
  BY <1>2, <1>3
<1>11. IsStrictPrefix(DataPackage, w) <=> Len(w) > 2 /\ w[1] = "edge" /\ w[2] = "data"
  <2>1. IsPrefix(DataPackage, w) => (IsStrictPrefix(DataPackage, w) <=> Len(w) > 2)
    <3>1. DataPackage \in Seq(Word) /\ Len(DataPackage) = 2
      BY PartsOf
    <3> QED BY <1>6, <3>1
  <2>2. IsStrictPrefix(DataPackage, w) => IsPrefix(DataPackage, w)
    BY <1>7
  <2> QED BY <1>1, <1>8, <2>1, <2>2
<1>12. IsStrictPrefix(Loader, w) <=> Len(w) > 3 /\ w[1] = "edge" /\ w[2] = "data" /\ w[3] = "loader"
  <2>1. IsPrefix(Loader, w) => (IsStrictPrefix(Loader, w) <=> Len(w) > 3)
    <3>1. Loader \in Seq(Word) /\ Len(Loader) = 3
      BY PartsOf
    <3> QED BY <1>6, <3>1
  <2>2. IsStrictPrefix(Loader, w) => IsPrefix(Loader, w)
    BY <1>7
  <2> QED BY <1>1, <1>9, <2>1, <2>2
<1> QED BY <1>1, <1>9, <1>10, <1>11, <1>12 DEF C

LEMMA ModuleParts ==
  ASSUME NEW w \in Modules
  PROVE  w \in Seq(Word) /\ w # <<>> /\ Head(w) = w[1] /\ Len(w) \in Nat /\ Len(w) > 0
<1>1. w \in Seq(Word) /\ w # <<>>
  BY GatewayAssumption DEF GatewayAssumption
<1>2. \A q \in Seq(Word) : q # <<>> => Head(q) = q[1] /\ Len(q) \in Nat /\ Len(q) > 0
  OBVIOUS
<1> QED BY <1>1, <1>2

Nodes == [form : {"import", "from", "name"}, level : Nat, module : Seq(Word), name : Word]

\* A module that is imported and exists is reported exactly when importing it loads raw data.
LEMMA BannedLoads ==
  ASSUME NEW w \in Modules
  PROVE  /\ \A m \in Modules : IsPrefix(m, w) /\ Raw(m) => BannedModule(w)
         /\ BannedModule(w) => Raw(w) \/ Head(w) = "importlib"
         /\ IsPrefix(w, w)
<1>1. w \in Seq(Word) /\ w # <<>> /\ Head(w) = w[1] /\ Len(w) \in Nat /\ Len(w) > 0
  BY ModuleParts
<1>2. \A m \in Modules : m \in Seq(Word) /\ m # <<>> /\ ~IsStrictPrefix(Loader, m)
  BY GatewayAssumption DEF GatewayAssumption
<1>3. ASSUME NEW m \in Modules, IsPrefix(m, w), Raw(m) PROVE BannedModule(w)
  <2>1. Len(m) <= Len(w) /\ \A k \in 1..Len(m) : m[k] = w[k]
    BY <1>1, <1>2, <1>3, PrefixOf
  <2>2. m \in Seq(Word) /\ Len(m) \in Nat
    BY <1>2
  <2>3. CASE IsPrefix(<<"catalyst">>, m)
    <3>1. Len(m) > 0 /\ m[1] = "catalyst"
      BY <2>2, <2>3, PrefixesOf
    <3>2. w[1] = "catalyst"
      BY <2>1, <2>2, <3>1
    <3> QED BY <1>1, <3>2 DEF BannedModule
  <2>4. CASE IsStrictPrefix(DataPackage, m) /\ m # Loader
    <3>1. Len(m) > 2 /\ m[1] = "edge" /\ m[2] = "data"
      BY <2>2, <2>4, PrefixesOf
    <3>2. ~IsPrefix(Loader, m)
      BY <1>2, <2>4 DEF IsStrictPrefix
    <3>3. m[3] # "loader"
      BY <2>2, <3>1, <3>2, PrefixesOf
    <3>4. Len(w) > 2 /\ w[1] = "edge" /\ w[2] = "data" /\ w[3] = m[3]
      BY <1>1, <2>1, <2>2, <3>1
    <3>5. IsStrictPrefix(DataPackage, w)
      BY <1>1, <3>4, PrefixesOf
    <3>6. ~IsPrefix(Loader, w)
      BY <1>1, <3>3, <3>4, PrefixesOf
    <3> QED BY <1>1, <3>5, <3>6 DEF BannedModule
  <2> QED BY <1>3, <2>3, <2>4 DEF Raw
<1>4. BannedModule(w) => Raw(w) \/ Head(w) = "importlib"
  <2>1. ASSUME w[1] = "catalyst" PROVE Raw(w)
    <3>1. IsPrefix(<<"catalyst">>, w)
      BY <1>1, <2>1, PrefixesOf
    <3> QED BY <3>1 DEF Raw
  <2>2. IsPrefix(Loader, Loader)
    <3>1. Loader \in Seq(Word)
      BY PartsOf
    <3> QED BY <3>1, PrefixOf
  <2> QED BY <1>1, <2>1, <2>2 DEF BannedModule, Raw
<1>5. IsPrefix(w, w)
  BY <1>1, PrefixOf
<1> QED BY <1>3, <1>4, <1>5

\* A name below a module that exists.
LEMMA BannedBelow ==
  ASSUME NEW w \in Modules, NEW n \in Word
  PROVE  /\ Append(w, n) \in Modules /\ Raw(Append(w, n)) => BannedModule(Append(w, n)) /\ n # "*"
         /\ BannedModule(Append(w, n)) => Raw(w) \/ w = DataPackage \/ Head(w) = "importlib"
<1> DEFINE a == Append(w, n)
<1>1. w \in Seq(Word) /\ w # <<>> /\ Head(w) = w[1] /\ Len(w) \in Nat /\ Len(w) > 0
  BY ModuleParts
<1>2. a \in Seq(Word) /\ Len(a) = Len(w) + 1 /\ a[Len(w) + 1] = n /\ a # <<>> /\ \A k \in 1..Len(w) : a[k] = w[k]
  BY <1>1, AppendProperties
<1>3. a[1] = w[1] /\ Head(a) = w[1]
  BY <1>1, <1>2
<1> HIDE DEF a
<1>4. ASSUME a \in Modules, Raw(a) PROVE BannedModule(a) /\ n # "*"
  <2>1. BannedModule(a)
    BY <1>4, BannedLoads
  <2>2. \A k \in DOMAIN a : a[k] # "*"
    BY <1>4, GatewayAssumption DEF GatewayAssumption
  <2>3. Len(w) + 1 \in DOMAIN a
    BY <1>1, <1>2
  <2> QED BY <1>2, <2>1, <2>2, <2>3
<1>5. ASSUME BannedModule(a) PROVE Raw(w) \/ w = DataPackage \/ Head(w) = "importlib"
  <2>1. ASSUME w[1] = "catalyst" PROVE Raw(w)
    <3>1. IsPrefix(<<"catalyst">>, w)
      BY <1>1, <2>1, PrefixesOf
    <3> QED BY <3>1 DEF Raw
  <2>2. ASSUME IsStrictPrefix(DataPackage, a), ~IsPrefix(Loader, a) PROVE Raw(w) \/ w = DataPackage
    <3>1. Len(a) > 2 /\ a[1] = "edge" /\ a[2] = "data"
      BY <1>2, <2>2, PrefixesOf
    <3>2. Len(w) >= 2 /\ w[1] = "edge" /\ w[2] = "data"
      BY <1>1, <1>2, <3>1
    <3>3. CASE Len(w) = 2
      <4>1. DataPackage \in Seq(Word) /\ Len(DataPackage) = 2 /\ DataPackage[1] = w[1] /\ DataPackage[2] = w[2]
        BY <3>2, PartsOf
      <4>2. \A p, q \in Seq(Word) : Len(p) = 2 /\ Len(q) = 2 /\ p[1] = q[1] /\ p[2] = q[2] => p = q
        OBVIOUS
      <4> QED BY <1>1, <3>3, <4>1, <4>2
    <3>4. CASE Len(w) > 2
      <4>1. IsStrictPrefix(DataPackage, w)
        BY <1>1, <3>2, <3>4, PrefixesOf
      <4>2. w # Loader
        <5>1. ASSUME w = Loader PROVE FALSE
          <6>1. Len(w) = 3 /\ w[3] = "loader"
            BY <5>1, PartsOf
          <6>2. a[3] = "loader"
            BY <1>1, <1>2, <6>1
          <6>3. IsPrefix(Loader, a)
            BY <1>2, <3>1, <6>2, PrefixesOf
          <6> QED BY <2>2, <6>3
        <5> QED BY <5>1
      <4> QED BY <4>1, <4>2 DEF Raw
    <3>5. Len(w) = 2 \/ Len(w) > 2
      <4>1. Len(w) \in Nat /\ Len(w) >= 2
        BY <1>1, <3>2, Zenon
      <4>2. \A k \in Nat : k >= 2 => k = 2 \/ k > 2
        OBVIOUS
      <4> QED BY <4>1, <4>2, Zenon
    <3> QED BY <3>3, <3>4, <3>5
  <2> QED BY <1>1, <1>3, <1>5, <2>1, <2>2 DEF BannedModule
<1> QED BY <1>4, <1>5 DEF a

\* The scan resolves what Python imports.
LEMMA BaseIsTarget ==
  ASSUME NEW node \in Nodes, NEW package \in Seq(Word), node.form = "from", Target(node, package) \in Modules
  PROVE  FromBase(node, package) = Target(node, package) /\ FromBase(node, package) # Escapes
<1>1. Escapes \notin Modules
  BY GatewayAssumption DEF GatewayAssumption, Escapes
<1>2. node.form # "import" /\ node.level \in Nat /\ Len(package) \in Nat
  BY DEF Nodes
<1>3. CASE node.level = 0
  BY <1>1, <1>2, <1>3 DEF Target, FromBase
<1>4. CASE node.level > 0
  <2>1. node.level <= Len(package)
    BY <1>1, <1>2, <1>4 DEF Target
  <2>2. Len(package) - (node.level - 1) = Len(package) + 1 - node.level /\ ~(node.level - 1 > Len(package))
    BY <1>2, <2>1
  <2>3. FromBase(node, package) = Target(node, package)
    BY <1>2, <1>4, <2>1, <2>2 DEF Target, FromBase
  <2> QED BY <1>1, <2>3
<1> QED BY <1>2, <1>3, <1>4

GatewayMeaning(node, package) ==
  LET reaches == \/ node.name \in BACKEND_NAMES \cup {"*"} /\ Target(node, package) \in {Loader, DataPackage}
                 \/ \E m \in Loaded(node, package) : Raw(m)
  IN  /\ reaches => NodeHit(node, package)
      /\ NodeHit(node, package) =>
           reaches \/ Target(node, package) = DataPackage \/ Head(Target(node, package)) = "importlib"

LEMMA NodeMeans ==
  ASSUME NEW node \in Nodes, NEW package \in Seq(Word), node.form # "name", Loaded(node, package) # {},
         node.form = "import" => node.name = ""
  PROVE  GatewayMeaning(node, package)
<1> DEFINE goal == Target(node, package)
<1>1. goal \in Modules
  BY DEF Loaded
<1>2. \A m : m \in Loaded(node, package) <=>
        \/ m \in Modules /\ IsPrefix(m, goal)
        \/ node.form = "from" /\ m = Append(goal, node.name) /\ m \in Modules
  BY <1>1 DEF Loaded
<1>3. node.form \in {"import", "from"} /\ node.name \in Word
  BY DEF Nodes
<1>4. goal \in Loaded(node, package)
  BY <1>1, <1>2, BannedLoads
<1>5. CASE node.form = "import"
  <2>1. node.name \notin BACKEND_NAMES \cup {"*"}
    BY <1>5 DEF BACKEND_NAMES
  <2>2. goal = node.module /\ NodeHit(node, package) = BannedModule(goal)
    BY <1>5 DEF Target, NodeHit
  <2>3. \A m \in Loaded(node, package) : m \in Modules /\ IsPrefix(m, goal)
    BY <1>2, <1>5
  <2> QED BY <1>1, <1>4, <2>1, <2>2, <2>3, BannedLoads DEF GatewayMeaning
<1>6. CASE node.form = "from"
  <2>1. FromBase(node, package) = goal /\ goal # Escapes
    BY <1>1, <1>6, BaseIsTarget
  <2> DEFINE named == goal \in {Loader, DataPackage} /\ node.name \in BACKEND_NAMES \cup {"*"}
             below == node.name # "*" /\ BannedModule(Append(goal, node.name))
  <2>2. NodeHit(node, package) <=> BannedModule(goal) \/ named \/ below
    BY <1>6, <2>1 DEF NodeHit
  <2>3. ASSUME NEW m \in Loaded(node, package), Raw(m) PROVE BannedModule(goal) \/ below
    <3>1. CASE m \in Modules /\ IsPrefix(m, goal)
      BY <1>1, <2>3, <3>1, BannedLoads
    <3>2. CASE m = Append(goal, node.name) /\ m \in Modules
      BY <1>1, <1>3, <2>3, <3>2, BannedBelow
    <3> QED BY <1>2, <3>1, <3>2
  <2>4. BannedModule(goal) => Raw(goal) \/ Head(goal) = "importlib"
    BY <1>1, BannedLoads
  <2>5. below => Raw(goal) \/ goal = DataPackage \/ Head(goal) = "importlib"
    BY <1>1, <1>3, BannedBelow
  <2> QED BY <1>4, <2>2, <2>3, <2>4, <2>5 DEF GatewayMeaning
<1> QED BY <1>3, <1>5, <1>6

GatewayInv ==
  /\ source \in Sources
  /\ scanned \in BOOLEAN
  /\ scanned => violations = IF Exempt(source) THEN {} ELSE ScanFile(source)

LEMMA GatewayStarts == GatewayInit => GatewayInv
BY DEF GatewayInit, GatewayInv

LEMMA GatewayInvKept ==
  ASSUME GatewayInv, GatewayNext
  PROVE  GatewayInv'
BY DEF GatewayInv, GatewayNext, ScanResearchSide, Exempt, ScanFile

\* What the invariant says of a scan that is over.
LEMMA GatewayMeans ==
  ASSUME GatewayInv
  PROVE  GatewayExact
<1>1. SUFFICES ASSUME scanned, ~Exempt(source)
               PROVE  IF ~source.parses THEN violations # {}
                      ELSE \A i \in DOMAIN source.nodes :
                             source.nodes[i].form # "name" /\ Loaded(source.nodes[i], source.package) # {} =>
                               /\ \/ source.nodes[i].name \in BACKEND_NAMES \cup {"*"}
                                       /\ Target(source.nodes[i], source.package) \in {Loader, DataPackage}
                                  \/ \E m \in Loaded(source.nodes[i], source.package) : Raw(m)
                                  => i \in violations
                               /\ i \in violations =>
                                    \/ \/ source.nodes[i].name \in BACKEND_NAMES \cup {"*"}
                                            /\ Target(source.nodes[i], source.package) \in {Loader, DataPackage}
                                       \/ \E m \in Loaded(source.nodes[i], source.package) : Raw(m)
                                    \/ Target(source.nodes[i], source.package) = DataPackage
                                    \/ Head(Target(source.nodes[i], source.package)) = "importlib"
  BY DEF GatewayExact
<1>2. violations = ScanFile(source)
  BY <1>1 DEF GatewayInv
<1>3. source.package \in Seq(Word) /\ source.nodes \in Seq(Nodes)
      /\ \A i \in DOMAIN source.nodes : source.nodes[i].form = "import" => source.nodes[i].name = ""
  BY GatewayAssumption DEF GatewayAssumption, GatewayInv, Nodes
<1>4. CASE ~source.parses
  BY <1>2, <1>4 DEF ScanFile
<1>5. CASE source.parses
  <2>1. SUFFICES ASSUME NEW i \in DOMAIN source.nodes, source.nodes[i].form # "name",
                        Loaded(source.nodes[i], source.package) # {}
                 PROVE  /\ i \in violations <=> NodeHit(source.nodes[i], source.package)
                        /\ GatewayMeaning(source.nodes[i], source.package)
    BY <1>5, Zenon DEF GatewayMeaning
  <2>2. source.nodes[i] \in Nodes
    <3>1. \A q \in Seq(Nodes) : \A j \in DOMAIN q : q[j] \in Nodes
      OBVIOUS
    <3> QED BY <1>3, <2>1, <3>1
  <2>3. i \in violations <=> NodeHit(source.nodes[i], source.package)
    BY <1>2, <1>5 DEF ScanFile
  <2> QED BY <1>3, <2>1, <2>2, <2>3, NodeMeans
<1> QED BY <1>4, <1>5
-----------------------------------------------------------------------------
(* The catalog.                                                             *)

TrialConfigs == {TrialConfig(cls, config, spec) : cls \in Classes, config \in SignalConfigs, spec \in Specs}
Lines == [config : TrialConfigs, dup : Nat]
Inputs == {EngineInput(spec, b) : spec \in Specs, b \in BaseConfigs}
BuiltEngines == [trial : Nat, cls : Classes, config : SignalConfigs, input : Inputs, base : BaseConfigs]

\* The line n is flagged as a repetition of the first line that says the same.
FlagOK(n) ==
  LET line == trial_lines[n]
  IN  /\ line.dup < n
      /\ line.dup = 0 => \A j \in 1..(n - 1) : trial_lines[j].config # line.config
      /\ line.dup > 0 => /\ trial_lines[line.dup].config = line.config
                         /\ \A j \in 1..(line.dup - 1) : trial_lines[j].config # line.config

\* One spec accounts for what an engine got and for what its line says.
EngineOK(e) ==
  /\ engines[e].trial \in 1..Len(trial_lines)
  /\ \E spec \in Specs : /\ trial_lines[engines[e].trial].config = TrialConfig(engines[e].cls, engines[e].config, spec)
                         /\ engines[e].input = EngineInput(spec, engines[e].base)

UnderWay == [pc : {"backtest"}, cls : Classes, config : SignalConfigs, spec : Specs, trial : Nat]
CurrentOK ==
  current # Idle =>
    /\ current \in UnderWay /\ current.trial = Len(trial_lines) /\ Len(trial_lines) > 0
    /\ trial_lines[current.trial].config = TrialConfig(current.cls, current.config, current.spec)
    /\ \A e \in 1..Len(engines) : engines[e].trial < current.trial

CatalogInv ==
  /\ trial_lines \in Seq(Lines) /\ engines \in Seq(BuiltEngines) /\ base \in BaseConfigs
  /\ \A n \in 1..Len(trial_lines) : FlagOK(n)
  /\ \A e \in 1..Len(engines) : EngineOK(e)
  /\ \A e, f \in 1..Len(engines) : engines[e].trial = engines[f].trial => e = f
  /\ CurrentOK

LEMMA CatalogStarts == CatalogInit => CatalogInv
<1>1. SUFFICES ASSUME CatalogInit PROVE CatalogInv
  OBVIOUS
<1>2. trial_lines = <<>> /\ engines = <<>> /\ current = Idle /\ base \in BaseConfigs
  BY <1>1 DEF CatalogInit, NoTrials
<1>3. \A S : <<>> \in Seq(S) /\ Len(<<>>) = 0 /\ 1..0 = {}
  OBVIOUS
<1> QED BY <1>2, <1>3 DEF CatalogInv, CurrentOK

\* What is appended last, and what was there before.
LEMMA Appended ==
  ASSUME NEW S, NEW q \in Seq(S), NEW x \in S, NEW r, r = Append(q, x)
  PROVE  /\ r \in Seq(S) /\ Len(r) = Len(q) + 1 /\ Len(q) \in Nat /\ r[Len(r)] = x
         /\ \A n \in 1..Len(q) : r[n] = q[n] /\ q[n] \in S
         /\ \A n \in 1..Len(r) : n \in 1..Len(q) \/ n = Len(r)
BY AppendProperties

\* The flag of a line that is about to be written.
LEMMA DuplicateIs ==
  ASSUME trial_lines \in Seq(Lines), NEW config
  PROVE  /\ DuplicateOf(config) \in 0..Len(trial_lines)
         /\ DuplicateOf(config) = 0 => \A j \in 1..Len(trial_lines) : trial_lines[j].config # config
         /\ DuplicateOf(config) > 0 =>
              /\ trial_lines[DuplicateOf(config)].config = config
              /\ \A j \in 1..(DuplicateOf(config) - 1) : trial_lines[j].config # config
<1> DEFINE earlier == {i \in DOMAIN trial_lines : trial_lines[i].config = config}
           least == CHOOSE i \in earlier : \A j \in earlier : i <= j
<1>1. DOMAIN trial_lines = 1..Len(trial_lines) /\ Len(trial_lines) \in Nat
  OBVIOUS
<1>2. DuplicateOf(config) = IF earlier = {} THEN 0 ELSE least
  BY DEF DuplicateOf
<1>3. CASE earlier = {}
  BY <1>1, <1>2, <1>3
<1>4. CASE earlier # {}
  <2>1. earlier \subseteq Nat
    BY <1>1
  <2>2. \E i \in earlier : \A j \in earlier : i <= j
    BY <1>4, <2>1, LeastNat
  <2>3. least \in earlier /\ \A j \in earlier : least <= j
    BY <2>2
  <2>4. least \in 1..Len(trial_lines) /\ trial_lines[least].config = config
    BY <1>1, <2>3
  <2>5. \A j \in 1..(least - 1) : trial_lines[j].config # config
    BY <1>1, <2>3, <2>4
  <2> HIDE DEF least
  <2> QED BY <1>1, <1>2, <1>4, <2>4, <2>5
<1> QED BY <1>3, <1>4

LEMMA RecordKeeps ==
  ASSUME CatalogInv, NEW cls \in Classes, NEW config \in SignalConfigs, NEW spec \in Specs,
         RecordTrial(cls, config, spec)
  PROVE  CatalogInv'
<1> DEFINE stated == TrialConfig(cls, config, spec)
           line == [config |-> stated, dup |-> DuplicateOf(stated)]
           n == Len(trial_lines)
<1>1. /\ trial_lines' = Append(trial_lines, line) /\ UNCHANGED <<engines, base>>
      /\ current' = [pc |-> "backtest", cls |-> cls, config |-> config, spec |-> spec, trial |-> Len(trial_lines')]
  BY DEF RecordTrial
<1>2. trial_lines \in Seq(Lines) /\ engines \in Seq(BuiltEngines) /\ base \in BaseConfigs
  BY DEF CatalogInv
<1>3. stated \in TrialConfigs
  BY DEF TrialConfigs
<1> HIDE DEF stated
<1>4. DuplicateOf(stated) \in 0..n
  BY <1>2, DuplicateIs
<1>5. line \in Lines /\ n \in Nat /\ line.config = stated /\ line.dup = DuplicateOf(stated)
  BY <1>2, <1>3, <1>4 DEF Lines
<1> HIDE DEF line
<1>6. /\ trial_lines' \in Seq(Lines) /\ Len(trial_lines') = n + 1 /\ trial_lines'[n + 1] = line
      /\ \A k \in 1..n : trial_lines'[k] = trial_lines[k] /\ trial_lines[k] \in Lines
      /\ \A k \in 1..(n + 1) : k \in 1..n \/ k = n + 1
  BY <1>1, <1>2, <1>5, Appended
<1> HIDE DEF n
<1>7. ASSUME NEW k \in 1..(n + 1) PROVE FlagOK(k)'
  <2>1. CASE k \in 1..n
    <3>1. FlagOK(k) /\ trial_lines[k] \in Lines
      BY <1>6, <2>1 DEF CatalogInv, n
    <3>2. trial_lines[k].dup \in Nat /\ trial_lines[k].dup < k
      BY <3>1 DEF FlagOK, Lines
    <3>3. /\ \A j \in 1..(k - 1) : trial_lines'[j] = trial_lines[j]
          /\ \A j \in 1..(trial_lines[k].dup - 1) : trial_lines'[j] = trial_lines[j]
          /\ trial_lines[k].dup > 0 => trial_lines'[trial_lines[k].dup] = trial_lines[trial_lines[k].dup]
          /\ trial_lines'[k] = trial_lines[k]
      BY <1>5, <1>6, <2>1, <3>2 DEF n
    <3> QED BY <3>1, <3>3 DEF FlagOK
  <2>2. CASE k = n + 1
    <3> DEFINE d == DuplicateOf(stated)
    <3>1. /\ d \in 0..n /\ (d = 0 => \A j \in 1..n : trial_lines[j].config # stated)
          /\ d > 0 => trial_lines[d].config = stated /\ \A j \in 1..(d - 1) : trial_lines[j].config # stated
      BY <1>2, DuplicateIs DEF n
    <3>2. trial_lines'[k].config = stated /\ trial_lines'[k].dup = d
      BY <1>5, <1>6, <2>2
    <3> HIDE DEF d
    <3>3. /\ k - 1 = n /\ d < k /\ \A j \in 1..n : trial_lines'[j] = trial_lines[j]
          /\ \A j \in 1..(d - 1) : trial_lines'[j] = trial_lines[j]
          /\ d > 0 => trial_lines'[d] = trial_lines[d]
      BY <1>5, <1>6, <2>2, <3>1 DEF n
    <3> QED BY <3>1, <3>2, <3>3 DEF FlagOK
  <2> QED BY <1>6, <2>1, <2>2
<1>8. \A e \in 1..Len(engines) : engines[e].trial \in 1..n
  BY DEF CatalogInv, EngineOK, n
<1>9. ASSUME NEW e \in 1..Len(engines) PROVE EngineOK(e)'
  <2>1. EngineOK(e) /\ trial_lines'[engines[e].trial] = trial_lines[engines[e].trial]
    BY <1>6, <1>8 DEF CatalogInv
  <2>2. engines[e].trial \in 1..(n + 1)
    BY <1>5, <1>8 DEF n
  <2> QED BY <1>1, <1>6, <2>1, <2>2 DEF EngineOK
<1>10. CurrentOK'
  <2>1. current' \in UnderWay /\ current'.trial = n + 1 /\ current'.cls = cls /\ current'.config = config /\ current'.spec = spec
    BY <1>1, <1>5, <1>6 DEF UnderWay, n
  <2>2. trial_lines'[n + 1].config = stated
    BY <1>5, <1>6
  <2>3. \A e \in 1..Len(engines') : engines'[e].trial < n + 1
    BY <1>1, <1>5, <1>8 DEF n
  <2>4. n + 1 > 0
    BY <1>5 DEF n
  <2> QED BY <1>6, <2>1, <2>2, <2>3, <2>4 DEF CurrentOK, stated
<1> QED BY <1>1, <1>2, <1>6, <1>7, <1>9, <1>10 DEF CatalogInv

LEMMA BacktestKeeps ==
  ASSUME CatalogInv, Backtest
  PROVE  CatalogInv'
<1> DEFINE built == [trial |-> current.trial, cls |-> current.cls, config |-> current.config,
                     input |-> EngineInput(current.spec, base), base |-> base]
           n == Len(engines)
<1>1. engines' = Append(engines, built) /\ current' = Idle /\ UNCHANGED <<trial_lines, base>> /\ current.pc = "backtest"
  BY DEF Backtest
<1>2. trial_lines \in Seq(Lines) /\ engines \in Seq(BuiltEngines) /\ base \in BaseConfigs
  BY DEF CatalogInv
<1>3. /\ current \in UnderWay /\ current.trial = Len(trial_lines) /\ Len(trial_lines) > 0
      /\ trial_lines[current.trial].config = TrialConfig(current.cls, current.config, current.spec)
      /\ \A e \in 1..n : engines[e].trial < current.trial
  <2>1. current # Idle
    BY <1>1 DEF Idle
  <2> QED BY <2>1 DEF CatalogInv, CurrentOK
<1>4. EngineInput(current.spec, base) \in Inputs
  BY <1>2, <1>3 DEF Inputs, UnderWay
<1>5. built \in BuiltEngines
  BY <1>2, <1>3, <1>4 DEF BuiltEngines, UnderWay
<1>6. /\ built.trial = current.trial /\ built.cls = current.cls /\ built.config = current.config /\ built.base = base
      /\ built.input = EngineInput(current.spec, base) /\ current.spec \in Specs
  BY <1>3 DEF UnderWay
<1> HIDE DEF built
<1>7. /\ engines' \in Seq(BuiltEngines) /\ Len(engines') = n + 1 /\ n \in Nat /\ engines'[n + 1] = built
      /\ \A k \in 1..n : engines'[k] = engines[k] /\ engines[k] \in BuiltEngines
      /\ \A k \in 1..(n + 1) : k \in 1..n \/ k = n + 1
  BY <1>1, <1>2, <1>5, Appended
<1>8. ASSUME NEW e \in 1..(n + 1) PROVE EngineOK(e)'
  <2>1. CASE e \in 1..n
    <3>1. EngineOK(e) /\ engines'[e] = engines[e]
      BY <1>7, <2>1 DEF CatalogInv
    <3> QED BY <1>1, <3>1 DEF EngineOK
  <2>2. CASE e = n + 1
    <3>1. built.trial \in 1..Len(trial_lines)
      BY <1>2, <1>3, <1>6
    <3>2. /\ trial_lines'[built.trial].config = TrialConfig(built.cls, built.config, current.spec)
          /\ built.input = EngineInput(current.spec, built.base)
      BY <1>1, <1>3, <1>6
    <3> QED BY <1>1, <1>6, <1>7, <2>2, <3>1, <3>2 DEF EngineOK
  <2> QED BY <1>7, <2>1, <2>2
<1>9. ASSUME NEW e \in 1..(n + 1), NEW f \in 1..(n + 1), engines'[e].trial = engines'[f].trial PROVE e = f
  <2>1. \A k \in 1..n : engines'[k].trial \in Nat /\ engines'[k].trial < engines'[n + 1].trial
    BY <1>3, <1>6, <1>7 DEF BuiltEngines
  <2>2. \A k, m \in 1..n : engines'[k].trial = engines'[m].trial => k = m
    BY <1>7 DEF CatalogInv
  <2>3. engines'[n + 1].trial \in Nat
    BY <1>2, <1>3, <1>6, <1>7
  <2> QED BY <1>7, <1>9, <2>1, <2>2, <2>3
<1>10. (\A k \in 1..Len(trial_lines) : FlagOK(k))'
  BY <1>1 DEF CatalogInv, FlagOK
<1>11. CurrentOK'
  BY <1>1 DEF CurrentOK
<1> QED BY <1>1, <1>2, <1>7, <1>8, <1>9, <1>10, <1>11 DEF CatalogInv

LEMMA CatalogInvKept ==
  ASSUME CatalogInv, CatalogNext
  PROVE  CatalogInv'
<1>1. ASSUME UNCHANGED <<trial_lines, engines, current>>, base' \in BaseConfigs PROVE CatalogInv'
  BY <1>1 DEF CatalogInv, FlagOK, EngineOK, CurrentOK
<1>2. base \in BaseConfigs
  BY DEF CatalogInv
<1>3. ASSUME NEW cls \in Classes, Register(cls) PROVE CatalogInv'
  BY <1>1, <1>2, <1>3 DEF Register
<1>4. ASSUME NEW name \in DOMAIN catalog, NEW value \in BOOLEAN, SetEnabled(name, value) PROVE CatalogInv'
  BY <1>1, <1>2, <1>4 DEF SetEnabled
<1>5. ASSUME NEW cls \in Classes, NEW config \in SignalConfigs, NEW spec \in Specs, RecordTrial(cls, config, spec)
      PROVE CatalogInv'
  BY <1>5, RecordKeeps
<1>6. ASSUME DieBeforeBacktest PROVE CatalogInv'
  BY <1>6 DEF DieBeforeBacktest, CatalogInv, FlagOK, EngineOK, CurrentOK
<1>7. ASSUME EditConfig PROVE CatalogInv'
  BY <1>1, <1>7 DEF EditConfig
<1> QED BY <1>3, <1>4, <1>5, <1>6, <1>7, BacktestKeeps DEF CatalogNext

\* What a trial line tells of the class and of the spec.
LEMMA LineTells ==
  ASSUME NEW c \in Classes, NEW d \in Classes, NEW k, NEW l, NEW s \in Specs, NEW w \in Specs,
         TrialConfig(c, k, s) = TrialConfig(d, l, w)
  PROVE  c = d /\ k = l /\ \A b : EngineInput(s, b) = EngineInput(w, b)
<1>1. TrialConfig(c, k, s).class = c.id /\ TrialConfig(c, k, s).config = k /\ TrialConfig(c, k, s).run = RunConfig(s)
  BY DEF TrialConfig
<1>2. TrialConfig(d, l, w).class = d.id /\ TrialConfig(d, l, w).config = l /\ TrialConfig(d, l, w).run = RunConfig(w)
  BY DEF TrialConfig
<1>3. c = d
  BY <1>1, <1>2, CatalogAssumption DEF CatalogAssumption
<1>4. \A u : /\ RunConfig(u).span = u.span /\ RunConfig(u).symbols = u.symbols /\ RunConfig(u).latency = u.latency
             /\ RunConfig(u).half = u.half /\ RunConfig(u).overrides = u.overrides
  BY DEF RunConfig
<1>5. RunConfig(s) = RunConfig(w)
  BY <1>1, <1>2
<1>6. s.span = w.span /\ s.symbols = w.symbols /\ s.latency = w.latency /\ s.half = w.half /\ s.overrides = w.overrides
  BY <1>4, <1>5
<1>7. \A b : EngineInput(s, b) = EngineInput(w, b)
  BY <1>6 DEF EngineInput
<1> QED BY <1>1, <1>2, <1>3, <1>7

\* An override is what the engine gets.
LEMMA InputOverrides ==
  ASSUME NEW s, NEW b, NEW k \in DOMAIN s.overrides
  PROVE  EngineInput(s, b).execution[k] = s.overrides[k]
<1>1. EngineInput(s, b).execution = Updated(b.execution, s.overrides)
  BY DEF EngineInput
<1> QED BY <1>1 DEF Updated

LEMMA CatalogMeans ==
  ASSUME CatalogInv
  PROVE  RecordedIsApplied /\ DuplicatesRepeat
<1>1. /\ DOMAIN engines = 1..Len(engines) /\ DOMAIN trial_lines = 1..Len(trial_lines)
      /\ \A e \in 1..Len(engines) : engines[e] \in BuiltEngines
      /\ \A n \in 1..Len(trial_lines) : trial_lines[n] \in Lines
  BY DEF CatalogInv
<1>2. ASSUME NEW e \in DOMAIN engines
      PROVE  LET run == engines[e]
                 line == trial_lines[run.trial].config
             IN  /\ run.trial \in DOMAIN trial_lines
                 /\ \A f \in DOMAIN engines : engines[f].trial = run.trial => f = e
                 /\ line.class = run.cls.id /\ line.config = run.config
                 /\ line.run.half = run.input.half /\ line.run.latency = run.input.latency
                 /\ \A k \in DOMAIN line.run.overrides : run.input.execution[k] = line.run.overrides[k]
  <2>1. EngineOK(e) /\ engines[e].trial \in DOMAIN trial_lines
    BY <1>1 DEF CatalogInv, EngineOK
  <2>2. PICK spec \in Specs : /\ trial_lines[engines[e].trial].config = TrialConfig(engines[e].cls, engines[e].config, spec)
                              /\ engines[e].input = EngineInput(spec, engines[e].base)
    BY <2>1 DEF EngineOK
  <2> DEFINE line == trial_lines[engines[e].trial].config
  <2>3. line.class = engines[e].cls.id /\ line.config = engines[e].config /\ line.run = RunConfig(spec)
    BY <2>2 DEF TrialConfig
  <2>4. line.run.half = spec.half /\ line.run.latency = spec.latency /\ line.run.overrides = spec.overrides
    BY <2>3 DEF RunConfig
  <2>5. engines[e].input.half = spec.half /\ engines[e].input.latency = spec.latency
    BY <2>2 DEF EngineInput
  <2>6. \A k \in DOMAIN spec.overrides : engines[e].input.execution[k] = spec.overrides[k]
    BY <2>2, InputOverrides
  <2>7. \A f \in DOMAIN engines : engines[f].trial = engines[e].trial => f = e
    BY <1>1 DEF CatalogInv
  <2> HIDE DEF line
  <2>8. /\ line.run.half = engines[e].input.half /\ line.run.latency = engines[e].input.latency
        /\ \A k \in DOMAIN line.run.overrides : engines[e].input.execution[k] = line.run.overrides[k]
    BY <2>4, <2>5, <2>6
  <2> QED BY <2>1, <2>3, <2>7, <2>8 DEF line
<1>3. ASSUME NEW e \in DOMAIN engines, NEW f \in DOMAIN engines, trial_lines[engines[f].trial].dup = engines[e].trial
      PROVE  /\ engines[e].trial < engines[f].trial /\ trial_lines[engines[e].trial].dup = 0
             /\ engines[e].cls = engines[f].cls /\ engines[e].config = engines[f].config
             /\ engines[e].base = engines[f].base => engines[e].input = engines[f].input
  <2> DEFINE i == engines[e].trial
             j == engines[f].trial
  <2>1. i \in 1..Len(trial_lines) /\ j \in 1..Len(trial_lines) /\ EngineOK(e) /\ EngineOK(f)
    BY <1>1 DEF CatalogInv, EngineOK
  <2>2. FlagOK(i) /\ FlagOK(j) /\ trial_lines[j].dup = i
    BY <1>3, <2>1 DEF CatalogInv
  <2>3. engines[e] \in BuiltEngines /\ engines[f] \in BuiltEngines /\ trial_lines[i] \in Lines
    BY <1>1, <2>1
  <2>4. engines[e].cls \in Classes /\ engines[f].cls \in Classes /\ trial_lines[i].dup \in Nat
    BY <2>3 DEF BuiltEngines, Lines
  <2>5. PICK s \in Specs : /\ trial_lines[i].config = TrialConfig(engines[e].cls, engines[e].config, s)
                           /\ engines[e].input = EngineInput(s, engines[e].base)
    BY <2>1 DEF EngineOK
  <2>6. PICK t_ \in Specs : /\ trial_lines[j].config = TrialConfig(engines[f].cls, engines[f].config, t_)
                            /\ engines[f].input = EngineInput(t_, engines[f].base)
    BY <2>1 DEF EngineOK
  <2> HIDE DEF i, j
  <2>7. i < j /\ trial_lines[i].config = trial_lines[j].config /\ \A n \in 1..(i - 1) : trial_lines[n].config # trial_lines[j].config
    BY <2>1, <2>2 DEF FlagOK
  <2>8. trial_lines[i].dup = 0
    <3>1. ASSUME trial_lines[i].dup > 0 PROVE FALSE
      <4>1. trial_lines[i].dup \in 1..(i - 1) /\ trial_lines[trial_lines[i].dup].config = trial_lines[i].config
        BY <2>1, <2>2, <2>4, <3>1 DEF FlagOK
      <4> QED BY <2>7, <4>1
    <3> QED BY <2>4, <3>1
  <2>9. /\ engines[e].cls = engines[f].cls /\ engines[e].config = engines[f].config
        /\ \A b : EngineInput(s, b) = EngineInput(t_, b)
    <3>1. TrialConfig(engines[e].cls, engines[e].config, s) = TrialConfig(engines[f].cls, engines[f].config, t_)
      BY <2>5, <2>6, <2>7
    <3> QED BY <2>4, <3>1, LineTells
  <2> QED BY <2>5, <2>6, <2>7, <2>8, <2>9 DEF i, j
<1> QED BY <1>2, <1>3 DEF RecordedIsApplied, DuplicatesRepeat
-----------------------------------------------------------------------------
(* The contract selector.                                                   *)

ChainRows == [strike : Int, right : {"C", "P"}, delta : Int, dte : Int, bid : Int, ask : Int, oi : Int, size : Int,
              finite : BOOLEAN]

\* A function on a non-empty set of indices takes its least value somewhere.
LEMMA ArgMin ==
  \A n \in Nat : \A I \in SUBSET (1..n) : \A f \in [I -> Int] : I # {} => \E i \in I : \A j \in I : f[i] <= f[j]
<1> DEFINE Q == {n \in Nat : \A I \in SUBSET (1..n) : \A f \in [I -> Int] :
                               I # {} => \E i \in I : \A j \in I : f[i] <= f[j]}
<1>1. 0 \in Q
  <2>1. \A I \in SUBSET (1..0) : I = {}
    OBVIOUS
  <2> QED BY <2>1
<1>2. ASSUME NEW n \in Nat, n \in Q PROVE n + 1 \in Q
  <2>0. n + 1 \in Nat
    OBVIOUS
  <2>1. SUFFICES ASSUME NEW I \in SUBSET (1..(n + 1)), NEW f \in [I -> Int], I # {}
                 PROVE  \E i \in I : \A j \in I : f[i] <= f[j]
    BY <2>0
  <2> DEFINE J == I \ {n + 1}
             g == [j \in J |-> f[j]]
  <2>2. J \in SUBSET (1..n) /\ g \in [J -> Int] /\ \A j \in J : g[j] = f[j]
    OBVIOUS
  <2>3. \A j \in I : f[j] \in Int
    OBVIOUS
  <2>4. CASE J = {}
    <3>1. I = {n + 1}
      BY <2>1, <2>4
    <3> QED BY <2>3, <3>1
  <2>5. CASE J # {}
    <3> HIDE DEF J, g
    <3>1. PICK k \in J : \A j \in J : g[k] <= g[j]
      BY <1>2, <2>2, <2>5
    <3>2. k \in I /\ (\A j \in J : f[k] <= f[j]) /\ \A j \in I : j \in J \/ j = n + 1
      BY <2>2, <3>1 DEF J
    <3>3. CASE n + 1 \in I /\ f[n + 1] < f[k]
      <4>1. \A j \in J : j \in I
        BY DEF J
      <4> QED BY <2>3, <3>2, <3>3, <4>1
    <3>4. CASE ~(n + 1 \in I /\ f[n + 1] < f[k])
      BY <2>3, <3>2, <3>4
    <3> QED BY <3>3, <3>4
  <2> QED BY <2>4, <2>5
<1>3. Nat \subseteq Q
  <2> HIDE DEF Q
  <2> QED BY <1>1, <1>2, NatSetInduction
<1> QED BY <1>3

LEMMA RowNumbers ==
  ASSUME NEW row \in ChainRows, NEW goal \in Int
  PROVE  /\ AbsDelta(row) \in Nat /\ Distance(row, goal) \in Int
         /\ row.oi \in Int /\ row.bid \in Int /\ row.ask \in Int /\ row.strike \in Int /\ row.delta \in Int
<1>1. row.oi \in Int /\ row.bid \in Int /\ row.ask \in Int /\ row.strike \in Int /\ row.delta \in Int
  BY DEF ChainRows
<1>2. AbsDelta(row) \in Nat
  BY <1>1 DEF AbsDelta
<1> QED BY <1>1, <1>2 DEF Distance

\* The order of the keys, spelled out.
LEMMA KeyOrder ==
  ASSUME NEW a \in ChainRows, NEW b \in ChainRows, NEW goal \in Int
  PROVE  Below(Key(a, goal), Key(b, goal)) <=>
           \/ Distance(a, goal) < Distance(b, goal)
           \/ Distance(a, goal) = Distance(b, goal) /\ -a.oi < -b.oi
           \/ Distance(a, goal) = Distance(b, goal) /\ -a.oi = -b.oi /\ a.bid + a.ask < b.bid + b.ask
           \/ /\ Distance(a, goal) = Distance(b, goal) /\ -a.oi = -b.oi /\ a.bid + a.ask = b.bid + b.ask
              /\ a.strike < b.strike
<1> DEFINE p == Key(a, goal)
           q == Key(b, goal)
<1>1. DOMAIN p = 1..4 /\ p[1] = Distance(a, goal) /\ p[2] = -a.oi /\ p[3] = a.bid + a.ask /\ p[4] = a.strike
  BY DEF Key
<1>2. q[1] = Distance(b, goal) /\ q[2] = -b.oi /\ q[3] = b.bid + b.ask /\ q[4] = b.strike
  BY DEF Key
<1> HIDE DEF p, q
<1>3. \A k : k \in 1..4 <=> k = 1 \/ k = 2 \/ k = 3 \/ k = 4
  OBVIOUS
<1>4. /\ \A j : j \notin 1..(1 - 1)
      /\ \A j : j \in 1..(2 - 1) <=> j = 1
      /\ \A j : j \in 1..(3 - 1) <=> j = 1 \/ j = 2
      /\ \A j : j \in 1..(4 - 1) <=> j = 1 \/ j = 2 \/ j = 3
  OBVIOUS
<1>5. Below(p, q) <=> \E k \in DOMAIN p : p[k] < q[k] /\ \A j \in 1..(k - 1) : p[j] = q[j]
  BY DEF Below
<1>6. /\ (\A j \in 1..(1 - 1) : p[j] = q[j]) <=> TRUE
      /\ (\A j \in 1..(2 - 1) : p[j] = q[j]) <=> p[1] = q[1]
      /\ (\A j \in 1..(3 - 1) : p[j] = q[j]) <=> p[1] = q[1] /\ p[2] = q[2]
      /\ (\A j \in 1..(4 - 1) : p[j] = q[j]) <=> p[1] = q[1] /\ p[2] = q[2] /\ p[3] = q[3]
  BY <1>4
<1>7. Below(p, q) <=>
        \/ p[1] < q[1] /\ \A j \in 1..(1 - 1) : p[j] = q[j]
        \/ p[2] < q[2] /\ \A j \in 1..(2 - 1) : p[j] = q[j]
        \/ p[3] < q[3] /\ \A j \in 1..(3 - 1) : p[j] = q[j]
        \/ p[4] < q[4] /\ \A j \in 1..(4 - 1) : p[j] = q[j]
  BY <1>1, <1>3, <1>5
<1>8. Below(p, q) <=> \/ p[1] < q[1]
                      \/ p[2] < q[2] /\ p[1] = q[1]
                      \/ p[3] < q[3] /\ p[1] = q[1] /\ p[2] = q[2]
                      \/ p[4] < q[4] /\ p[1] = q[1] /\ p[2] = q[2] /\ p[3] = q[3]
  BY <1>6, <1>7
<1> QED BY <1>1, <1>2, <1>8 DEF p, q

Chain == Seq(ChainRows)
Rival(rows, I, c, i) == \A j \in I : ~Below(Key(rows[j], AimedDelta(c)), Key(rows[i], AimedDelta(c)))

\* Some row has no other below it.
LEMMA RivalExists ==
  ASSUME NEW rows \in Chain, NEW I \in SUBSET (1..Len(rows)), I # {}, NEW c, AimedDelta(c) \in Int
  PROVE  \E i \in I : Rival(rows, I, c, i)
<1> DEFINE goal == AimedDelta(c)
           n == Len(rows)
<1>1. n \in Nat /\ \A i \in I : rows[i] \in ChainRows
  BY DEF Chain
<1>2. \A i \in I : /\ Distance(rows[i], goal) \in Int /\ -rows[i].oi \in Int
                   /\ rows[i].bid + rows[i].ask \in Int /\ rows[i].strike \in Int
  <2>1. ASSUME NEW i \in I
        PROVE  /\ Distance(rows[i], goal) \in Int /\ rows[i].oi \in Int /\ rows[i].bid \in Int /\ rows[i].ask \in Int
               /\ rows[i].strike \in Int
    BY <1>1, RowNumbers
  <2>2. \A x, y \in Int : -x \in Int /\ x + y \in Int
    OBVIOUS
  <2> QED BY <2>1, <2>2
<1> HIDE DEF n, goal
<1>3. ASSUME NEW J \in SUBSET I, J # {}, NEW f \in [J -> Int] PROVE \E i \in J : \A j \in J : f[i] <= f[j]
  BY <1>1, <1>3, ArgMin DEF n
<1>4. PICK i1 \in I : \A j \in I : Distance(rows[i1], goal) <= Distance(rows[j], goal)
  <2> DEFINE f == [j \in I |-> Distance(rows[j], goal)]
  <2>1. f \in [I -> Int]
    BY <1>2
  <2>2. \E i \in I : \A j \in I : f[i] <= f[j]
    BY <1>3, <2>1
  <2> QED BY <2>2
<1> DEFINE J1 == {j \in I : Distance(rows[j], goal) = Distance(rows[i1], goal)}
<1>5. J1 \in SUBSET I /\ i1 \in J1 /\ \A j \in I : j \in J1 <=> Distance(rows[j], goal) = Distance(rows[i1], goal)
  OBVIOUS
<1> HIDE DEF J1
<1>6. PICK i2 \in J1 : \A j \in J1 : -rows[i2].oi <= -rows[j].oi
  <2> DEFINE f == [j \in J1 |-> -rows[j].oi]
  <2>1. f \in [J1 -> Int] /\ J1 # {}
    BY <1>2, <1>5
  <2>2. \E i \in J1 : \A j \in J1 : f[i] <= f[j]
    <3> HIDE DEF f
    <3> QED BY <1>3, <1>5, <2>1
  <2> QED BY <2>2
<1> DEFINE J2 == {j \in J1 : -rows[j].oi = -rows[i2].oi}
<1>7. J2 \in SUBSET I /\ i2 \in J2 /\ \A j \in I : j \in J2 <=> j \in J1 /\ -rows[j].oi = -rows[i2].oi
  BY <1>5
<1> HIDE DEF J2
<1>8. PICK i3 \in J2 : \A j \in J2 : rows[i3].bid + rows[i3].ask <= rows[j].bid + rows[j].ask
  <2> DEFINE f == [j \in J2 |-> rows[j].bid + rows[j].ask]
  <2>1. f \in [J2 -> Int] /\ J2 # {}
    BY <1>2, <1>7
  <2>2. \E i \in J2 : \A j \in J2 : f[i] <= f[j]
    <3> HIDE DEF f
    <3> QED BY <1>3, <1>7, <2>1
  <2> QED BY <2>2
<1> DEFINE J3 == {j \in J2 : rows[j].bid + rows[j].ask = rows[i3].bid + rows[i3].ask}
<1>9. /\ J3 \in SUBSET I /\ i3 \in J3
      /\ \A j \in I : j \in J3 <=> j \in J2 /\ rows[j].bid + rows[j].ask = rows[i3].bid + rows[i3].ask
  BY <1>7
<1> HIDE DEF J3
<1>10. PICK i4 \in J3 : \A j \in J3 : rows[i4].strike <= rows[j].strike
  <2> DEFINE f == [j \in J3 |-> rows[j].strike]
  <2>1. f \in [J3 -> Int] /\ J3 # {}
    BY <1>2, <1>9
  <2>2. \E i \in J3 : \A j \in J3 : f[i] <= f[j]
    <3> HIDE DEF f
    <3> QED BY <1>3, <1>9, <2>1
  <2> QED BY <2>2
<1>11. /\ i4 \in I /\ Distance(rows[i4], goal) = Distance(rows[i1], goal) /\ -rows[i4].oi = -rows[i2].oi
       /\ rows[i4].bid + rows[i4].ask = rows[i3].bid + rows[i3].ask
  <2>1. i4 \in I /\ rows[i4].bid + rows[i4].ask = rows[i3].bid + rows[i3].ask /\ i4 \in J2
    BY <1>9
  <2>2. -rows[i4].oi = -rows[i2].oi /\ i4 \in J1
    BY <1>7, <2>1
  <2>3. Distance(rows[i4], goal) = Distance(rows[i1], goal)
    BY <1>5, <2>1, <2>2
  <2> QED BY <2>1, <2>2, <2>3
<1>12. ASSUME NEW j \in I PROVE ~Below(Key(rows[j], goal), Key(rows[i4], goal))
  <2>1. /\ Distance(rows[j], goal) \in Int /\ -rows[j].oi \in Int /\ rows[j].bid + rows[j].ask \in Int
        /\ rows[j].strike \in Int
        /\ Distance(rows[i4], goal) \in Int /\ -rows[i4].oi \in Int /\ rows[i4].bid + rows[i4].ask \in Int
        /\ rows[i4].strike \in Int
    BY <1>2, <1>11
  <2>2. ~(Distance(rows[j], goal) < Distance(rows[i4], goal))
    <3>1. Distance(rows[i4], goal) <= Distance(rows[j], goal)
      BY <1>4, <1>11
    <3> QED BY <2>1, <3>1
  <2>3. ASSUME Distance(rows[j], goal) = Distance(rows[i4], goal)
        PROVE  j \in J1 /\ ~(-rows[j].oi < -rows[i4].oi)
    <3>1. j \in J1
      BY <1>5, <1>11, <2>3
    <3>2. -rows[i4].oi <= -rows[j].oi
      BY <1>6, <1>11, <3>1
    <3> QED BY <2>1, <3>1, <3>2
  <2>4. ASSUME j \in J1, -rows[j].oi = -rows[i4].oi
        PROVE  j \in J2 /\ ~(rows[j].bid + rows[j].ask < rows[i4].bid + rows[i4].ask)
    <3>1. j \in J2
      BY <1>7, <1>11, <2>4
    <3>2. rows[i4].bid + rows[i4].ask <= rows[j].bid + rows[j].ask
      BY <1>8, <1>11, <3>1
    <3> QED BY <2>1, <3>1, <3>2
  <2>5. ASSUME j \in J2, rows[j].bid + rows[j].ask = rows[i4].bid + rows[i4].ask
        PROVE  ~(rows[j].strike < rows[i4].strike)
    <3>1. j \in J3
      BY <1>9, <1>11, <2>5
    <3>2. rows[i4].strike <= rows[j].strike
      BY <1>10, <3>1
    <3> QED BY <2>1, <3>2
  <2>6. rows[j] \in ChainRows /\ rows[i4] \in ChainRows /\ goal \in Int
    BY <1>1, <1>11 DEF goal
  <2> QED BY <2>2, <2>3, <2>4, <2>5, <2>6, KeyOrder
<1> QED BY <1>11, <1>12 DEF Rival, goal

\* min returns such a row, the first of them.
LEMMA BestIs ==
  ASSUME NEW rows \in Chain, NEW I \in SUBSET (1..Len(rows)), I # {}, NEW c, AimedDelta(c) \in Int
  PROVE  Best(rows, I, c) \in I /\ Rival(rows, I, c, Best(rows, I, c))
<1> DEFINE S == {i \in I : Rival(rows, I, c, i)}
<1>1. S # {} /\ S \subseteq Nat
  <2>1. \E i \in I : Rival(rows, I, c, i)
    BY RivalExists
  <2>2. I \subseteq Nat
    OBVIOUS
  <2> QED BY <2>1, <2>2
<1>2. Best(rows, I, c) = Min(S)
  BY DEF Best, Rival
<1>3. Min(S) \in S
  <2>1. \E x \in S : \A y \in S : x <= y
    BY <1>1, LeastNat
  <2> HIDE DEF S
  <2> QED BY <2>1 DEF Min
<1> QED BY <1>2, <1>3

\* Rows that no row is below agree in all the sort key looks at.
LEMMA RivalsAlike ==
  ASSUME NEW rows \in Chain, NEW I \in SUBSET (1..Len(rows)), NEW c, AimedDelta(c) \in Int,
         NEW i \in I, NEW j \in I, Rival(rows, I, c, i), Rival(rows, I, c, j)
  PROVE  /\ rows[i].strike = rows[j].strike /\ rows[i].bid + rows[i].ask = rows[j].bid + rows[j].ask
         /\ rows[i].oi = rows[j].oi /\ Distance(rows[i], AimedDelta(c)) = Distance(rows[j], AimedDelta(c))
<1>1. rows[i] \in ChainRows /\ rows[j] \in ChainRows
  BY DEF Chain
<1>2. ~Below(Key(rows[i], AimedDelta(c)), Key(rows[j], AimedDelta(c)))
      /\ ~Below(Key(rows[j], AimedDelta(c)), Key(rows[i], AimedDelta(c)))
  BY DEF Rival
<1> DEFINE goal == AimedDelta(c)
<1>0. goal \in Int
  OBVIOUS
<1> HIDE DEF goal
<1>3. /\ Distance(rows[i], goal) \in Int /\ Distance(rows[j], goal) \in Int /\ rows[i].oi \in Int /\ rows[j].oi \in Int
      /\ rows[i].bid + rows[i].ask \in Int /\ rows[j].bid + rows[j].ask \in Int
      /\ rows[i].strike \in Int /\ rows[j].strike \in Int
  <2>1. /\ Distance(rows[i], goal) \in Int /\ rows[i].oi \in Int /\ rows[i].bid \in Int /\ rows[i].ask \in Int
        /\ rows[i].strike \in Int
    BY <1>0, <1>1, RowNumbers
  <2>2. /\ Distance(rows[j], goal) \in Int /\ rows[j].oi \in Int /\ rows[j].bid \in Int /\ rows[j].ask \in Int
        /\ rows[j].strike \in Int
    BY <1>0, <1>1, RowNumbers
  <2> QED BY <2>1, <2>2
<1>4. /\ ~(Distance(rows[i], goal) < Distance(rows[j], goal)) /\ ~(Distance(rows[j], goal) < Distance(rows[i], goal))
      /\ Distance(rows[i], goal) = Distance(rows[j], goal) => ~(-rows[i].oi < -rows[j].oi) /\ ~(-rows[j].oi < -rows[i].oi)
      /\ Distance(rows[i], goal) = Distance(rows[j], goal) /\ -rows[i].oi = -rows[j].oi =>
           /\ ~(rows[i].bid + rows[i].ask < rows[j].bid + rows[j].ask)
           /\ ~(rows[j].bid + rows[j].ask < rows[i].bid + rows[i].ask)
      /\ Distance(rows[i], goal) = Distance(rows[j], goal) /\ -rows[i].oi = -rows[j].oi
         /\ rows[i].bid + rows[i].ask = rows[j].bid + rows[j].ask =>
           ~(rows[i].strike < rows[j].strike) /\ ~(rows[j].strike < rows[i].strike)
  BY <1>0, <1>1, <1>2, KeyOrder DEF goal
<1>5. Distance(rows[i], goal) = Distance(rows[j], goal)
  BY <1>3, <1>4
<1>6. rows[i].oi = rows[j].oi /\ -rows[i].oi = -rows[j].oi
  BY <1>3, <1>4, <1>5
<1>7. rows[i].bid + rows[i].ask = rows[j].bid + rows[j].ask
  <2>1. ~(rows[i].bid + rows[i].ask < rows[j].bid + rows[j].ask) /\ ~(rows[j].bid + rows[j].ask < rows[i].bid + rows[i].ask)
    BY <1>4, <1>5, <1>6, Zenon
  <2> QED BY <1>3, <2>1
<1>8. rows[i].strike = rows[j].strike
  <2>1. ~(rows[i].strike < rows[j].strike) /\ ~(rows[j].strike < rows[i].strike)
    BY <1>4, <1>5, <1>6, <1>7, Zenon
  <2> QED BY <1>3, <2>1
<1> QED BY <1>5, <1>6, <1>7, <1>8 DEF goal

\* The outcome once the row is known.
Accept(row, i) ==
  [status |-> "accepted", reason |-> "none", row |-> i, premium |-> Premium(row),
   max_loss |-> Premium(row) * Multiplier + Commission]
Decided(row, i, c) ==
  IF Gate(row, c.rung) # "passed" THEN Reject(Gate(row, c.rung))
  ELSE IF Crossed(row) THEN Reject("raised")
  ELSE IF BreakevenUnreachable(row, c, Premium(row)) THEN Reject("breakeven_unreachable")
  ELSE Accept(row, i)

LEMMA ChooseIs ==
  ASSUME NEW rows, NEW c
  PROVE  LET I == Universe(rows, c)
             i == Best(rows, I, c)
         IN  Choose(rows, c) = IF I = {} THEN Reject("empty_rung") ELSE Decided(rows[i], i, c)
BY DEF Choose, Decided, Accept

LEMMA AimIsInt ==
  ASSUME NEW c \in Calls
  PROVE  AimedDelta(c) \in Int
BY SelectorAssumption DEF SelectorAssumption, AimedDelta

LEMMA UniverseIn ==
  ASSUME NEW rows \in Chain, NEW c
  PROVE  Universe(rows, c) \in SUBSET (1..Len(rows))
         /\ \A i \in Universe(rows, c) : rows[i] \in ChainRows /\ rows[i].right = Right(c.side)
<1>1. DOMAIN rows = 1..Len(rows) /\ \A i \in 1..Len(rows) : rows[i] \in ChainRows
  BY DEF Chain
<1> QED BY <1>1 DEF Universe

\* The chain read backwards.
LEMMA Mirrored ==
  ASSUME NEW rows \in Chain, NEW c
  PROVE  LET n == Len(rows)
             back == Reverse(rows)
         IN  /\ back \in Chain /\ Len(back) = n
             /\ \A i \in 1..n : n + 1 - i \in 1..n /\ back[n + 1 - i] = rows[i] /\ back[i] = rows[n + 1 - i]
             /\ \A i \in 1..n : i \in Universe(back, c) <=> n + 1 - i \in Universe(rows, c)
<1> DEFINE n == Len(rows)
           back == Reverse(rows)
<1>1. n \in Nat /\ \A i \in 1..n : n + 1 - i \in 1..n /\ (n - i) + 1 = n + 1 - i /\ (n - (n + 1 - i)) + 1 = i
  OBVIOUS
<1>2. \A i \in 1..n : rows[i] \in ChainRows
  BY DEF Chain
<1>3. back = [i \in 1..n |-> rows[(n - i) + 1]]
  BY DEF Reverse
<1>4. back \in Seq(ChainRows) /\ Len(back) = n
  BY <1>1, <1>2, <1>3
<1>5. \A i \in 1..n : back[i] = rows[n + 1 - i] /\ back[n + 1 - i] = rows[i]
  BY <1>1, <1>3
<1>6. DOMAIN rows = 1..n /\ DOMAIN back = 1..n
  BY <1>3
<1> HIDE DEF n, back
<1>7. ASSUME NEW i \in 1..n PROVE i \in Universe(back, c) <=> n + 1 - i \in Universe(rows, c)
  BY <1>1, <1>5, <1>6, <1>7 DEF Universe
<1> QED BY <1>1, <1>4, <1>5, <1>7 DEF n, back, Chain

\* Read backwards, the chain yields the same contract, or two of the rung are alike.
LEMMA BackwardsSame ==
  ASSUME NEW rows \in Chain, NEW c \in Calls
  PROVE  \/ Choose(Reverse(rows), c) =
              [Choose(rows, c) EXCEPT !.row = IF @ = 0 THEN 0 ELSE Len(rows) + 1 - @]
         \/ \E i, j \in Universe(rows, c) :
              /\ i # j
              /\ rows[i].strike = rows[j].strike /\ rows[i].bid + rows[i].ask = rows[j].bid + rows[j].ask
              /\ rows[i].oi = rows[j].oi /\ Distance(rows[i], AimedDelta(c)) = Distance(rows[j], AimedDelta(c))
<1> DEFINE n == Len(rows)
           back == Reverse(rows)
           I == Universe(rows, c)
           J == Universe(back, c)
           i == Best(rows, I, c)
           j == Best(back, J, c)
<1>1. /\ back \in Chain /\ Len(back) = n /\ n \in Nat
      /\ \A k \in 1..n : n + 1 - k \in 1..n /\ back[n + 1 - k] = rows[k] /\ back[k] = rows[n + 1 - k]
      /\ \A k \in 1..n : k \in J <=> n + 1 - k \in I
  <2>1. n \in Nat
    BY DEF Chain
  <2> QED BY <2>1, Mirrored
<1>2. I \in SUBSET (1..n) /\ J \in SUBSET (1..n) /\ AimedDelta(c) \in Int
  BY <1>1, UniverseIn, AimIsInt
<1>3. /\ Choose(rows, c) = IF I = {} THEN Reject("empty_rung") ELSE Decided(rows[i], i, c)
      /\ Choose(back, c) = IF J = {} THEN Reject("empty_rung") ELSE Decided(back[j], j, c)
  BY ChooseIs
<1>4. \A x : Reject(x).row = 0 /\ [Reject(x) EXCEPT !.row = IF @ = 0 THEN 0 ELSE n + 1 - @] = Reject(x)
  BY DEF Reject
<1>5. \A row, k : k \in 1..n => [Decided(row, k, c) EXCEPT !.row = IF @ = 0 THEN 0 ELSE n + 1 - @] = Decided(row, n + 1 - k, c)
  <2>1. SUFFICES ASSUME NEW row, NEW k \in 1..n
                 PROVE  [Decided(row, k, c) EXCEPT !.row = IF @ = 0 THEN 0 ELSE n + 1 - @] = Decided(row, n + 1 - k, c)
    OBVIOUS
  <2>2. Accept(row, k).row = k /\ k # 0
    BY DEF Accept
  <2>3. [Accept(row, k) EXCEPT !.row = IF @ = 0 THEN 0 ELSE n + 1 - @] = Accept(row, n + 1 - k)
    BY <2>2 DEF Accept
  <2> QED BY <1>4, <2>3 DEF Decided
<1> HIDE DEF n, back, I, J, i, j
<1>6. CASE I = {}
  <2>1. J = {}
    BY <1>1, <1>2, <1>6
  <2> QED BY <1>3, <1>4, <1>6, <2>1 DEF n, back
<1>7. CASE I # {}
  <2>1. i \in I /\ Rival(rows, I, c, i) /\ i \in 1..n
    BY <1>2, <1>7, BestIs DEF n, i
  <2>2. n + 1 - i \in J
    <3>1. n + 1 - i \in 1..n /\ n + 1 - (n + 1 - i) = i
      BY <1>1, <2>1
    <3> QED BY <1>1, <2>1, <3>1
  <2>3. j \in J /\ Rival(back, J, c, j) /\ j \in 1..n
    BY <1>1, <1>2, <2>2, BestIs DEF j
  <2> DEFINE k == n + 1 - j
  <2>4. k \in I /\ k \in 1..n /\ back[j] = rows[k] /\ n + 1 - k = j
    BY <1>1, <2>3
  <2> HIDE DEF k
  <2>5. Rival(rows, I, c, k)
    <3>1. SUFFICES ASSUME NEW m \in I
                   PROVE  ~Below(Key(rows[m], AimedDelta(c)), Key(rows[k], AimedDelta(c)))
      BY DEF Rival
    <3>2. m \in 1..n /\ n + 1 - m \in 1..n /\ n + 1 - (n + 1 - m) = m /\ back[n + 1 - m] = rows[m]
      BY <1>1, <1>2
    <3>3. n + 1 - m \in J
      BY <1>1, <3>2
    <3> QED BY <2>3, <2>4, <3>2, <3>3 DEF Rival
  <2>6. CASE k = i
    <3>1. Choose(back, c) = Decided(rows[i], n + 1 - i, c)
      BY <1>3, <2>2, <2>4, <2>6
    <3>2. Choose(rows, c) = Decided(rows[i], i, c)
      BY <1>3, <1>7
    <3> QED BY <1>5, <2>1, <3>1, <3>2 DEF n, back
  <2>7. CASE k # i
    <3>1. /\ rows[i].strike = rows[k].strike /\ rows[i].bid + rows[i].ask = rows[k].bid + rows[k].ask
          /\ rows[i].oi = rows[k].oi /\ Distance(rows[i], AimedDelta(c)) = Distance(rows[k], AimedDelta(c))
      BY <1>2, <2>1, <2>4, <2>5, RivalsAlike DEF n
    <3> QED BY <2>1, <2>4, <2>7, <3>1 DEF I
  <2> QED BY <2>6, <2>7
<1> QED BY <1>6, <1>7

\* What an accepted outcome has passed.
LEMMA AcceptedIs ==
  ASSUME NEW rows \in Chain, NEW c \in Calls, Choose(rows, c).status = "accepted"
  PROVE  LET I == Universe(rows, c)
             i == Best(rows, I, c)
         IN  /\ I # {} /\ Choose(rows, c) = Accept(rows[i], i) /\ i \in I /\ Rival(rows, I, c, i)
             /\ Gate(rows[i], c.rung) = "passed" /\ ~Crossed(rows[i])
             /\ ~BreakevenUnreachable(rows[i], c, Premium(rows[i]))
<1> DEFINE I == Universe(rows, c)
           i == Best(rows, I, c)
<1>1. \A x : Reject(x).status = "rejected"
  BY DEF Reject
<1>2. Choose(rows, c) = IF I = {} THEN Reject("empty_rung") ELSE Decided(rows[i], i, c)
  BY ChooseIs
<1> HIDE DEF I, i
<1>3. I # {} /\ Choose(rows, c) = Decided(rows[i], i, c)
  BY <1>1, <1>2
<1>4. /\ Gate(rows[i], c.rung) = "passed" /\ ~Crossed(rows[i]) /\ ~BreakevenUnreachable(rows[i], c, Premium(rows[i]))
      /\ Choose(rows, c) = Accept(rows[i], i)
  BY <1>1, <1>3 DEF Decided
<1>5. i \in I /\ Rival(rows, I, c, i)
  BY <1>3, UniverseIn, AimIsInt, BestIs DEF I, i
<1> QED BY <1>3, <1>4, <1>5 DEF I, i

\* A purchase costs at least the mid, so the cost model does not refuse it.
LEMMA PurchaseFills ==
  ASSUME NEW row \in ChainRows, ~Crossed(row), row.bid + row.ask > 0
  PROVE  /\ MarketableFill(row, BUY, 1).status = "filled"
         /\ MarketableFill(row, BUY, 1).price \in Nat
         /\ MarketableFill(row, BUY, 1).commission = Commission
<1> DEFINE s == row.bid + row.ask
           d == row.ask - row.bid
           x == 100 * s + SpreadFillPct * d
           price == SlippedPrice(row, BUY)
<1>1. /\ row.bid \in Int /\ row.ask \in Int /\ SpreadFillPct \in Nat /\ SlippagePct \in Nat /\ Commission \in Nat
      /\ Multiplier \in Nat
  BY FillAssumption DEF FillAssumption, ChainRows
<1>2. s \in Nat /\ s > 0 /\ d \in Nat
  BY <1>1 DEF Crossed
<1>3. CrossedPrice(row, BUY) = 100 * x
  BY DEF CrossedPrice
<1>4. Mid(row) = 10000 * s
  BY DEF Mid
<1> HIDE DEF s, d
<1>5. SpreadFillPct * d \in Nat
  <2>1. \A a, b \in Nat : a * b \in Nat
    OBVIOUS
  <2> QED BY <1>1, <1>2, <2>1
<1>6. x \in Nat /\ x >= 100 * s
  BY <1>2, <1>5
<1> HIDE DEF x
<1>7. price = x * (100 + SlippagePct)
  <2>1. (100 * x) \div 100 = x
    BY <1>6
  <2> QED BY <1>3, <2>1 DEF SlippedPrice, BUY, SELL
<1>8. x * (100 + SlippagePct) = 100 * x + x * SlippagePct /\ x * SlippagePct \in Nat
  <2>1. \A a, b \in Nat : a * b \in Nat /\ a * (100 + b) = 100 * a + a * b
    OBVIOUS
  <2> QED BY <1>1, <1>6, <2>1
<1> HIDE DEF price
<1>9. price \in Nat /\ price >= 10000 * s
  BY <1>2, <1>6, <1>7, <1>8
<1>10. NotBetterThanMid(price, row, BUY)
  BY <1>4, <1>9 DEF NotBetterThanMid
<1>11. ~(1 < 1 \/ Crossed(row) \/ ~NotBetterThanMid(price, row, BUY))
  BY <1>10
<1>12. /\ MarketableFill(row, BUY, 1).status = "filled" /\ MarketableFill(row, BUY, 1).price = price
       /\ MarketableFill(row, BUY, 1).commission = Commission * 1
  BY <1>11 DEF MarketableFill, price
<1> QED BY <1>1, <1>9, <1>12

SelectInv ==
  /\ chain \in Chains /\ call \in Calls
  /\ choice # NoChoice => choice = Choose(chain, call)

LEMMA SelectStarts == SelectInit => SelectInv
BY DEF SelectInit, SelectInv

LEMMA SelectInvKept ==
  ASSUME SelectInv, SelectNext
  PROVE  SelectInv'
BY DEF SelectInv, SelectNext, Select

LEMMA SelectMeans ==
  ASSUME SelectInv
  PROVE  ChoiceOrderFree /\ NeverWorseDelta /\ ExcursionPaysDebit
<1>1. chain \in Chain /\ call \in Calls /\ chain \in Chains
  BY SelectorAssumption DEF SelectInv, SelectorAssumption, Chain, ChainRows
<1>2. ChoiceOrderFree
  <2>1. SUFFICES ASSUME choice # NoChoice
                 PROVE  \/ Choose(Reverse(chain), call) = [choice EXCEPT !.row = IF @ = 0 THEN 0 ELSE Len(chain) + 1 - @]
                        \/ \E i, j \in Universe(chain, call) :
                             /\ i # j
                             /\ chain[i].strike = chain[j].strike
                             /\ chain[i].bid + chain[i].ask = chain[j].bid + chain[j].ask /\ chain[i].oi = chain[j].oi
                             /\ Distance(chain[i], AimedDelta(call)) = Distance(chain[j], AimedDelta(call))
    BY Zenon DEF ChoiceOrderFree
  <2>2. choice = Choose(chain, call)
    BY <2>1 DEF SelectInv
  <2> QED BY <1>1, <2>2, BackwardsSame
<1> DEFINE i == choice.row
           row == chain[choice.row]
<1>3. ASSUME Chosen
      PROVE  /\ choice = Accept(row, i) /\ i \in Universe(chain, call) /\ Rival(chain, Universe(chain, call), call, i)
             /\ Gate(row, call.rung) = "passed" /\ ~Crossed(row) /\ ~BreakevenUnreachable(row, call, Premium(row))
             /\ row \in ChainRows /\ row.right = Right(call.side)
  <2>1. choice = Choose(chain, call) /\ Choose(chain, call).status = "accepted"
    BY <1>3 DEF Chosen, SelectInv
  <2> DEFINE k == Best(chain, Universe(chain, call), call)
  <2>2. /\ Choose(chain, call) = Accept(chain[k], k) /\ k \in Universe(chain, call)
        /\ Rival(chain, Universe(chain, call), call, k)
        /\ Gate(chain[k], call.rung) = "passed" /\ ~Crossed(chain[k])
        /\ ~BreakevenUnreachable(chain[k], call, Premium(chain[k]))
    BY <1>1, <2>1, AcceptedIs
  <2> HIDE DEF k
  <2>3. Accept(chain[k], k).row = k
    BY DEF Accept
  <2>4. i = k
    BY <2>1, <2>2, <2>3
  <2>5. chain[k] \in ChainRows /\ chain[k].right = Right(call.side)
    BY <1>1, <2>2, UniverseIn
  <2> QED BY <2>1, <2>2, <2>4, <2>5
<1> HIDE DEF i, row
<1>4. NeverWorseDelta
  <2>1. SUFFICES ASSUME Chosen, NEW k \in Universe(chain, call)
                 PROVE  Distance(chain[k], AimedDelta(call)) >= Distance(row, AimedDelta(call))
    BY DEF NeverWorseDelta, row
  <2>2. row \in ChainRows /\ chain[k] \in ChainRows /\ AimedDelta(call) \in Int
    BY <1>1, <1>3, <2>1, UniverseIn, AimIsInt
  <2>3. ~Below(Key(chain[k], AimedDelta(call)), Key(row, AimedDelta(call)))
    BY <1>3, <2>1 DEF Rival, row, i
  <2>4. ~(Distance(chain[k], AimedDelta(call)) < Distance(row, AimedDelta(call)))
    BY <2>2, <2>3, KeyOrder
  <2>5. Distance(chain[k], AimedDelta(call)) \in Int /\ Distance(row, AimedDelta(call)) \in Int
    BY <2>2, RowNumbers
  <2> QED BY <2>4, <2>5
<1>5. ExcursionPaysDebit
  <2> DEFINE fill == MarketableFill(row, BUY, 1)
  <2>1. SUFFICES ASSUME Chosen
                 PROVE  /\ fill.status = "filled" /\ call.excursion * SpotTicks * AbsDelta(row) * Unit > 1000 * fill.price
                        /\ choice.max_loss = fill.price * Multiplier + fill.commission
                        /\ (SharesEquivalent(row) > 0) <=> (call.side = BUY)
    BY DEF ExcursionPaysDebit, row
  <2>2. row \in ChainRows /\ ~Crossed(row) /\ Gate(row, call.rung) = "passed"
    BY <1>3, <2>1
  <2>3. row.bid \in Int /\ row.ask \in Int /\ row.delta \in Int /\ AbsDelta(row) \in Nat
    BY <2>2, SelectorAssumption, RowNumbers DEF SelectorAssumption
  <2>4. row.bid + row.ask > 0
    BY <2>2, <2>3 DEF Gate
  <2>5. fill.status = "filled" /\ fill.price \in Nat /\ fill.commission = Commission
    BY <2>2, <2>4, PurchaseFills
  <2>6. Premium(row) = fill.price
    BY DEF Premium
  <2>7. choice.max_loss = fill.price * Multiplier + fill.commission
    <3>1. choice.max_loss = Premium(row) * Multiplier + Commission
      BY <1>3, <2>1 DEF Accept
    <3> QED BY <2>5, <2>6, <3>1
  <2> HIDE DEF fill
  <2> DEFINE m == call.excursion * SpotTicks * AbsDelta(row) * Unit
  <2>8. call.excursion \in Nat /\ SpotTicks \in Nat /\ call.side \in {BUY, SELL} /\ m \in Nat
    <3>1. call.excursion \in Nat /\ SpotTicks \in Nat /\ call.side \in {BUY, SELL}
      BY <1>1, SelectorAssumption DEF SelectorAssumption
    <3>2. \A a, b \in Nat : a * b \in Nat
      OBVIOUS
    <3>3. call.excursion * SpotTicks \in Nat
      BY <3>1, <3>2
    <3>4. call.excursion * SpotTicks * AbsDelta(row) \in Nat
      BY <2>3, <3>2, <3>3
    <3>5. m \in Nat
      BY <3>4 DEF Unit
    <3> QED BY <3>1, <3>5
  <2>9. m > 1000 * fill.price
    <3>1. ~(m <= 1000 * fill.price)
      BY <1>3, <2>1, <2>6 DEF BreakevenUnreachable
    <3> HIDE DEF m
    <3> QED BY <2>5, <2>8, <3>1
  <2>10. row.delta # 0
    <3>1. ASSUME row.delta = 0 PROVE FALSE
      <4>1. AbsDelta(row) = 0
        BY <3>1 DEF AbsDelta
      <4>2. \A a \in Nat : a * 0 = 0
        OBVIOUS
      <4>3. call.excursion * SpotTicks \in Nat
        <5>1. \A a, b \in Nat : a * b \in Nat
          OBVIOUS
        <5> QED BY <2>8, <5>1
      <4>4. m = 0
        BY <4>1, <4>2, <4>3 DEF Unit
      <4> HIDE DEF m
      <4> QED BY <2>5, <2>9, <4>4
    <3> QED BY <3>1
  <2>11. (row.delta > 0) <=> (call.side = BUY)
    <3>1. row.right = Right(call.side)
      BY <1>3, <2>1
    <3>2. (row.right = "C" => row.delta >= 0) /\ (row.right = "P" => row.delta <= 0)
      <4>1. i \in DOMAIN chain
        BY <1>3, <2>1 DEF Universe
      <4> QED BY <1>1, <4>1, SelectorAssumption DEF SelectorAssumption, row, i
    <3>3. CASE call.side = BUY
      BY <2>3, <2>10, <3>1, <3>2, <3>3 DEF Right
    <3>4. CASE call.side # BUY
      BY <2>3, <2>10, <3>1, <3>2, <3>4 DEF Right
    <3> QED BY <3>3, <3>4
  <2>12. (SharesEquivalent(row) > 0) <=> (row.delta > 0)
    <3>1. Multiplier \in Nat /\ Multiplier > 0
      BY FillAssumption DEF FillAssumption
    <3>2. \A x \in Int, y \in Nat : y > 0 => ((x * y > 0) <=> (x > 0))
      OBVIOUS
    <3> QED BY <2>3, <3>1, <3>2 DEF SharesEquivalent
  <2> QED BY <2>5, <2>7, <2>9, <2>11, <2>12
<1> QED BY <1>2, <1>4, <1>5
-----------------------------------------------------------------------------
(* The pipeline.                                                            *)

LEMMA CellsAre ==
  /\ Len(Cells) = 6
  /\ \A i \in 1..6 : Cells[i] \in CellSet
  /\ \A c \in CellSet : \E i \in 1..6 : Cells[i] = c
  /\ \A i, j \in 1..6 : Cells[i] = Cells[j] => i = j
  /\ <<"test", "real">> \in CellSet
<1>1. Len(Cells) = 6 /\ DOMAIN Cells = 1..6
  BY DEF Cells
<1>2. CellSet = {Cells[i] : i \in 1..6}
  BY <1>1 DEF CellSet, Range
<1>3. /\ Cells[1] = <<"full", "real">> /\ Cells[2] = <<"full", "zero">> /\ Cells[3] = <<"train", "real">>
      /\ Cells[4] = <<"train", "zero">> /\ Cells[5] = <<"test", "real">> /\ Cells[6] = <<"test", "zero">>
  BY DEF Cells
<1>4. \A i, j \in 1..6 : Cells[i] = Cells[j] => i = j
  <2>1. \A a, b, c, d : <<a, b>> = <<c, d>> => a = c /\ b = d
    OBVIOUS
  <2>2. \A i \in 1..6 : i = 1 \/ i = 2 \/ i = 3 \/ i = 4 \/ i = 5 \/ i = 6
    OBVIOUS
  <2> QED BY <1>3, <2>1, <2>2
<1> QED BY <1>1, <1>2, <1>3, <1>4

LEMMA CellIn == ASSUME NEW i \in 1..6 PROVE Cells[i] \in CellSet
BY CellsAre

\* The sum of a list with one more number.
LEMMA AppendSum ==
  ASSUME NEW s \in Seq(Int), NEW x \in Int
  PROVE  SumFunction(Append(s, x)) = SumFunction(s) + x /\ SumFunction(s) \in Int
<1> DEFINE n == Len(s)
           z == Append(s, x)
<1>1. /\ z \in Seq(Int) /\ Len(z) = n + 1 /\ n \in Nat /\ z[n + 1] = x
      /\ \A k \in 1..n : z[k] = s[k]
  BY AppendProperties
<1>2. z \in [1..(n + 1) -> Int] /\ s \in [1..n -> Int]
  <2>1. \A q \in Seq(Int) : q \in [1..Len(q) -> Int]
    OBVIOUS
  <2> HIDE DEF z
  <2> QED BY <1>1, <2>1
<1>3. SumFunction(z) = SumFunction(s) + z[n + 1]
  <2> HIDE DEF z, n
  <2> QED BY <1>1, <1>2, SumAppend
<1>4. SumFunction(s) \in Int
  <2>1. IsFiniteSet(1..n) /\ DOMAIN s = 1..n /\ \A k \in 1..n : s[k] \in Int
    <3>1. n \in Int /\ 1 \in Int
      BY <1>1
    <3>2. IsFiniteSet(1..n)
      BY <3>1, FS_Interval
    <3> QED BY <1>2, <3>2
  <2> QED BY <2>1, SumInt
<1> QED BY <1>1, <1>3, <1>4

\* What a view says of an answer, the costs being the configured ones.
Given(r, c, e) ==
  LET a == r.answers[c][e]
  IN  [engine |-> e,
       available |-> a.outcome = "ok" /\ ~a.thin /\ SessionCount(Window(r.span, c[1])) > 1,
       monthly |-> IF c[2] = "zero" THEN a.monthly + a.drag ELSE a.monthly, equity |-> a.equity,
       n |-> a.n, top |-> a.top, total |-> a.total]
Views(r) == {Given(r, c, e) : c \in CellSet, e \in Range(EnginesFor(r))}

LEMMA ViewIs ==
  ASSUME frictions = TRUE, NEW c, NEW e
  PROVE  ViewOf(c, e) = Given(request, c, e)
BY DEF ViewOf, Given, Answer

\* The engines of a request.
LEMMA EnginesAre ==
  ASSUME NEW r \in Requests
  PROVE  /\ EnginesFor(r) \in Seq(Range(EnginesFor(r))) /\ Len(EnginesFor(r)) \in Nat
         /\ DOMAIN EnginesFor(r) = 1..Len(EnginesFor(r))
         /\ \A k \in 1..Len(EnginesFor(r)) : EnginesFor(r)[k] \in Range(EnginesFor(r))
         /\ \A e \in Range(EnginesFor(r)) : \E k \in 1..Len(EnginesFor(r)) : e = EnginesFor(r)[k]
         /\ r.intraday => Range(EnginesFor(r)) = {"intraday_native"}
         /\ ~r.intraday => "intraday_native" \notin Range(EnginesFor(r))
<1>1. \E S : EnginesFor(r) \in Seq(S)
  <2>1. <<"intraday_native">> \in Seq({"intraday_native"})
    OBVIOUS
  <2> QED BY <2>1, RequestsAssumption DEF RequestsAssumption, EnginesFor
<1>2. /\ Len(EnginesFor(r)) \in Nat /\ DOMAIN EnginesFor(r) = 1..Len(EnginesFor(r))
      /\ EnginesFor(r) = [k \in 1..Len(EnginesFor(r)) |-> EnginesFor(r)[k]]
  BY <1>1
<1>3. \A k \in 1..Len(EnginesFor(r)) : EnginesFor(r)[k] \in Range(EnginesFor(r))
  BY <1>2 DEF Range
<1>4. \A e \in Range(EnginesFor(r)) : \E k \in 1..Len(EnginesFor(r)) : e = EnginesFor(r)[k]
  BY <1>2 DEF Range
<1>5. EnginesFor(r) \in Seq(Range(EnginesFor(r)))
  BY <1>2, <1>3
<1>6. r.intraday => Range(EnginesFor(r)) = {"intraday_native"}
  <2>1. Range(<<"intraday_native">>) = {"intraday_native"}
    <3>1. DOMAIN <<"intraday_native">> = {1} /\ <<"intraday_native">>[1] = "intraday_native"
      OBVIOUS
    <3> QED BY <3>1 DEF Range
  <2> QED BY <2>1 DEF EnginesFor
<1>7. ~r.intraday => "intraday_native" \notin Range(EnginesFor(r))
  <2>1. ~r.intraday => \A k \in 1..Len(EnginesFor(r)) : EnginesFor(r)[k] \in EngineNames
    BY RequestsAssumption DEF RequestsAssumption, EnginesFor
  <2>2. "intraday_native" \notin EngineNames
    BY DEF EngineNames
  <2> QED BY <2>1, <2>2, <1>4
<1> QED BY <1>2, <1>3, <1>4, <1>5, <1>6, <1>7

\* What the gates of a cell count once its first m engines have answered.
Ran(r, c, m) == {k \in 1..m : r.answers[c][EnginesFor(r)[k]].outcome # "unavailable"}
Counted(r, c, m) == SumFunction([k \in Ran(r, c, m) |-> r.answers[c][EnginesFor(r)[k]].gates])

LEMMA CountedStep ==
  ASSUME NEW r \in Requests, NEW c \in CellSet, NEW m \in Nat, m < Len(EnginesFor(r))
  PROVE  /\ Counted(r, c, m) \in Int
         /\ Counted(r, c, m + 1) = Counted(r, c, m) +
              (IF r.answers[c][EnginesFor(r)[m + 1]].outcome = "unavailable" THEN 0
               ELSE r.answers[c][EnginesFor(r)[m + 1]].gates)
         /\ Counted(r, c, m + 1) \in Int
<1> DEFINE g(k) == r.answers[c][EnginesFor(r)[k]].gates
           D == Ran(r, c, m)
           E == Ran(r, c, m + 1)
           f == [k \in D |-> g(k)]
           h == [k \in E |-> g(k)]
<1>1. \A k \in 1..(m + 1) : g(k) \in Int
  <2>1. \A k \in 1..(m + 1) : EnginesFor(r)[k] \in Range(EnginesFor(r))
    BY EnginesAre
  <2> QED BY <2>1, RequestsAssumption DEF RequestsAssumption
<1>2. /\ D \subseteq 1..m /\ E \subseteq 1..(m + 1) /\ IsFiniteSet(D) /\ IsFiniteSet(E)
  <2>1. D \subseteq 1..m /\ E \subseteq 1..(m + 1)
    BY DEF Ran
  <2>2. IsFiniteSet(1..m) /\ IsFiniteSet(1..(m + 1))
    <3>1. m \in Int /\ m + 1 \in Int /\ 1 \in Int
      OBVIOUS
    <3> QED BY <3>1, FS_Interval
  <2>3. IsFiniteSet(D)
    BY <2>1, <2>2, FS_Subset
  <2>4. IsFiniteSet(E)
    BY <2>1, <2>2, FS_Subset
  <2> QED BY <2>1, <2>3, <2>4
<1>3. \A k \in D : f[k] \in Int
  BY <1>1, <1>2
<1>4. Counted(r, c, m) = SumFunction(f) /\ Counted(r, c, m + 1) = SumFunction(h)
  BY DEF Counted
<1>5. SumFunction(f) \in Int
  BY <1>2, <1>3, SumInt
<1>6. CASE r.answers[c][EnginesFor(r)[m + 1]].outcome = "unavailable"
  <2>1. E = D
    BY <1>6 DEF Ran
  <2> QED BY <1>4, <1>5, <1>6, <2>1
<1>7. CASE r.answers[c][EnginesFor(r)[m + 1]].outcome # "unavailable"
  <2>1. D = E \ {m + 1} /\ m + 1 \in E
    BY <1>7 DEF Ran
  <2>2. \A k \in E : h[k] \in Int
    BY <1>1, <1>2
  <2>3. DOMAIN h = E /\ DOMAIN f = E \ {m + 1} /\ (\A k \in E \ {m + 1} : f[k] = h[k]) /\ h[m + 1] = g(m + 1)
    BY <2>1
  <2>4. SumFunction(h) = h[m + 1] + SumFunction(f)
    <3>1. IsFiniteSet(E) /\ m + 1 \in E /\ (\A y \in E \ {m + 1} : f[y] = h[y])
      BY <1>2, <2>1, <2>3
    <3> HIDE DEF f, h, E, D
    <3> QED BY <3>1, <2>2, <2>3, SumLess
  <2>5. g(m + 1) \in Int
    BY <1>1
  <2>6. SumFunction(h) = g(m + 1) + SumFunction(f)
    BY <2>3, <2>4
  <2> HIDE DEF f, h, D, E, g
  <2>7. Counted(r, c, m + 1) = Counted(r, c, m) + g(m + 1)
    BY <1>4, <1>5, <2>5, <2>6
  <2>8. Counted(r, c, m) \in Int /\ Counted(r, c, m + 1) \in Int
    BY <1>4, <1>5, <2>5, <2>6
  <2> QED BY <1>7, <2>7, <2>8 DEF g
<1> QED BY <1>6, <1>7

LEMMA CountedNone ==
  ASSUME NEW r, NEW c
  PROVE  Counted(r, c, 0) = 0
<1>1. Ran(r, c, 0) = {}
  BY DEF Ran
<1> QED BY <1>1, SumEmpty DEF Counted

\* vs are the views of the engines that have answered for cell c.
Filed(r, c, vs) ==
  /\ vs \in Seq(Views(r)) /\ Len(vs) <= Len(EnginesFor(r))
  /\ \A k \in 1..Len(vs) : vs[k] = Given(r, c, EnginesFor(r)[k])

\* A segment is the available view of the reference engine in a cell that was filed.
SegmentOK(seg, comparisons) ==
  \E j \in 1..Len(comparisons) :
    /\ seg.cell = Cells[j]
    /\ \E k \in 1..Len(comparisons[j]) :
         /\ seg.of = comparisons[j][k] /\ comparisons[j][k].available
         /\ comparisons[j][k].engine \in {"native", "intraday_native"}

\* What a CANDIDATE has stood.
Stood(rep) ==
  /\ ~EnginesDiverge(rep) /\ SegmentsMissing(rep) = {}
  /\ LET test == CellOf(rep, <<"test", "real">>)
     IN  /\ test.n # 0 /\ ~(test.n > 0 /\ SampleTooSmall(test))
         /\ ~(~SampleTooSmall(test) /\ (LotteryFlagged(test) \/ test.monthly <= BaselineMonthly))

MatrixOf(r) ==
  [segments : Seq([cell : CellSet, of : Views(r)]), comparisons : Seq(Seq(Views(r))), gates : Seq(Int),
   verdict : {"none", "HOLD", "NO RESULT", "NO TRADES", "INCONCLUSIVE", "REJECT", "CANDIDATE"}]

LEMMA MatrixFields ==
  ASSUME NEW r, NEW s \in MatrixOf(r)
  PROVE  /\ s.segments \in Seq([cell : CellSet, of : Views(r)]) /\ s.comparisons \in Seq(Seq(Views(r)))
         /\ s.gates \in Seq(Int) /\ Len(s.segments) \in Nat /\ Len(s.comparisons) \in Nat /\ Len(s.gates) \in Nat
<1>1. /\ s.segments \in Seq([cell : CellSet, of : Views(r)]) /\ s.comparisons \in Seq(Seq(Views(r)))
      /\ s.gates \in Seq(Int)
  BY DEF MatrixOf
<1>2. \A S : \A q \in Seq(S) : Len(q) \in Nat
  OBVIOUS
<1> QED BY <1>1, <1>2

\* The matrix so far.
MatrixInv ==
  LET n == Len(study.comparisons)
  IN  /\ study \in MatrixOf(request) /\ n <= 6 /\ Len(study.gates) = n
      /\ \A i \in 1..n : /\ Filed(request, Cells[i], study.comparisons[i])
                         /\ Len(study.comparisons[i]) = Len(EnginesFor(request))
                         /\ study.gates[i] = Counted(request, Cells[i], Len(EnginesFor(request)))
      /\ \A i \in 1..Len(study.segments) : SegmentOK(study.segments[i], study.comparisons)

\* The cell at work: who has answered, and what the gates have counted in it.
CellInv ==
  LET n == Len(study.comparisons)
  IN  /\ stage = "run" <=> n < 6
      /\ n < 6 => /\ Filed(request, Cells[n + 1], views)
                  /\ gates = SumFunction(study.gates) + Counted(request, Cells[n + 1], Len(views))

\* The verdict and the record.
RecordInv ==
  /\ stage \in {"run", "judge"} => study.verdict = "none"
  /\ study.verdict = "CANDIDATE" => Stood(study)
  /\ stage \in {"record", "end"} => saved = study.verdict
  /\ promotion = IF stage = "end" THEN Recorded(Promoted, study.verdict, request.research) ELSE Promoted

RunInv ==
  /\ request \in Requests /\ stage \in {"run", "judge", "save", "record", "end"}
  /\ frictions = TRUE /\ walk = NoWalk /\ walked = <<>>
  /\ MatrixInv /\ CellInv /\ RecordInv

LEMMA RunStarts ==
  ASSUME PipeBegin, stage = "run", request \in Requests, walk = NoWalk
  PROVE  RunInv
<1>1. /\ views = <<>> /\ frictions = TRUE /\ gates = 0 /\ study = EmptyMatrix
      /\ promotion = Promoted /\ walked = <<>>
  BY DEF PipeBegin
<1>2. study.segments = <<>> /\ study.comparisons = <<>> /\ study.gates = <<>> /\ study.verdict = "none"
  BY <1>1 DEF EmptyMatrix
<1>3. \A S : <<>> \in Seq(S) /\ Len(<<>>) = 0 /\ 1..0 = {}
  OBVIOUS
<1>4. study \in MatrixOf(request)
  BY <1>1, <1>3 DEF EmptyMatrix, MatrixOf
<1>5. MatrixInv
  BY <1>2, <1>3, <1>4 DEF MatrixInv
<1>6. CellInv
  <2>1. SumFunction(study.gates) = 0
    <3>1. DOMAIN study.gates = {}
      BY <1>2
    <3> QED BY <3>1, SumEmpty
  <2>2. Filed(request, Cells[1], views)
    BY <1>1, <1>3, EnginesAre DEF Filed
  <2>3. Counted(request, Cells[1], Len(views)) = 0
    BY <1>1, <1>3, CountedNone
  <2> QED BY <1>1, <1>2, <1>3, <2>1, <2>2, <2>3 DEF CellInv
<1>7. RecordInv
  BY <1>1, <1>2 DEF RecordInv
<1> QED BY <1>1, <1>5, <1>6, <1>7 DEF RunInv

\* One engine answers.
LEMMA RunEngineKeeps ==
  ASSUME RunInv, RunEngine
  PROVE  RunInv'
<1> DEFINE n == Len(study.comparisons)
           c == Cells[n + 1]
           m == Len(views)
           e == EnginesFor(request)[m + 1]
           v == Given(request, c, e)
<1>1. /\ request \in Requests /\ stage = "run" /\ n < 6 /\ n \in Nat /\ c \in CellSet
      /\ Filed(request, c, views) /\ m \in Nat /\ m < Len(EnginesFor(request))
      /\ gates = SumFunction(study.gates) + Counted(request, c, m) /\ study.gates \in Seq(Int)
      /\ frictions = TRUE /\ RecordInv /\ MatrixInv /\ walk = NoWalk /\ walked = <<>>
  <2>1. study \in MatrixOf(request) /\ Len(Cells) = 6
    BY CellsAre DEF RunInv, MatrixInv
  <2>2. n \in Nat /\ study.gates \in Seq(Int)
    BY <2>1, MatrixFields
  <2>3. stage = "run" /\ n < 6 /\ m < Len(EnginesFor(request))
    <3>1. stage = "run" /\ m # Len(EnginesFor(request)) /\ m < Len(EnginesFor(request))
      BY DEF RunEngine
    <3> QED BY <3>1 DEF RunInv, CellInv
  <2>4. Filed(request, c, views) /\ gates = SumFunction(study.gates) + Counted(request, c, m)
    BY <2>3 DEF RunInv, CellInv
  <2>5. m \in Nat
    BY <2>4 DEF Filed
  <2>6. c \in CellSet
    <3>1. n + 1 \in 1..6
      BY <2>2, <2>3
    <3> HIDE DEF n
    <3> QED BY <3>1, CellIn
  <2> QED BY <2>2, <2>3, <2>4, <2>5, <2>6 DEF RunInv
<1>2. Cell = c /\ Asked = e /\ ViewOf(c, e) = v
  BY <1>1, ViewIs DEF Cell, Asked
<1>3. e \in Range(EnginesFor(request)) /\ v \in Views(request)
  <2>1. e \in Range(EnginesFor(request))
    BY <1>1, EnginesAre
  <2>2. \A x \in CellSet, y \in Range(EnginesFor(request)) : Given(request, x, y) \in Views(request)
    BY DEF Views
  <2>3. c \in CellSet
    BY <1>1
  <2> HIDE DEF c, e
  <2> QED BY <2>1, <2>2, <2>3
<1>4. /\ views' = Append(views, v) /\ frictions' = TRUE
      /\ gates' = gates + (IF request.answers[c][e].outcome = "unavailable" THEN 0 ELSE request.answers[c][e].gates)
      /\ UNCHANGED <<request, stage, study, saved, promotion, walk, walked>>
  BY <1>1, <1>2 DEF RunEngine, AfterTwin, Answer
<1>5. Filed(request, c, views')
  <2>1. views' \in Seq(Views(request)) /\ Len(views') = m + 1 /\ views'[m + 1] = v /\ \A k \in 1..m : views'[k] = views[k]
    <3>1. views \in Seq(Views(request)) /\ Len(views) = m
      BY <1>1 DEF Filed
    <3>2. v \in Views(request) /\ views' = Append(views, v)
      BY <1>3, <1>4
    <3> HIDE DEF v, m
    <3> QED BY <3>1, <3>2, AppendProperties
  <2>2. \A k \in 1..(m + 1) : views'[k] = Given(request, c, EnginesFor(request)[k])
    <3>1. TAKE k \in 1..(m + 1)
    <3>2. CASE k = m + 1
      BY <2>1, <3>2
    <3>3. CASE k \in 1..m
      BY <1>1, <2>1, <3>3 DEF Filed
    <3> QED BY <1>1, <3>2, <3>3
  <2>3. m + 1 <= Len(EnginesFor(request))
    BY <1>1, EnginesAre
  <2> QED BY <2>1, <2>2, <2>3 DEF Filed
<1>6. gates' = SumFunction(study.gates) + Counted(request, c, Len(views'))
  <2>1. Len(views') = m + 1
    BY <1>1, <1>3, <1>4, AppendProperties DEF Filed
  <2>2. SumFunction(study.gates) \in Int
    <3>1. DOMAIN study.gates = 1..Len(study.gates) /\ Len(study.gates) \in Nat /\ \A k \in DOMAIN study.gates : study.gates[k] \in Int
      BY <1>1
    <3>2. IsFiniteSet(DOMAIN study.gates)
      <4>1. 1 \in Int /\ Len(study.gates) \in Int
        BY <3>1
      <4> QED BY <3>1, <4>1, FS_Interval
    <3> QED BY <3>1, <3>2, SumInt
  <2>3. request.answers[c][e].outcome # "unavailable" => request.answers[c][e].gates \in Int
    BY <1>1, <1>3, RequestsAssumption DEF RequestsAssumption
  <2>4. /\ Counted(request, c, m) \in Int
        /\ Counted(request, c, m + 1) = Counted(request, c, m) +
             (IF request.answers[c][e].outcome = "unavailable" THEN 0 ELSE request.answers[c][e].gates)
    <3>1. request \in Requests /\ c \in CellSet /\ m \in Nat /\ m < Len(EnginesFor(request))
      BY <1>1
    <3> HIDE DEF c, m
    <3> QED BY <3>1, CountedStep
  <2>5. gates = SumFunction(study.gates) + Counted(request, c, m)
    BY <1>1
  <2> HIDE DEF c, e, m
  <2> QED BY <1>4, <2>1, <2>2, <2>3, <2>4, <2>5
<1>7. MatrixInv'
  BY <1>1, <1>4 DEF MatrixInv
<1>8. CellInv'
  BY <1>1, <1>4, <1>5, <1>6 DEF CellInv
<1>9. RecordInv'
  BY <1>1, <1>4 DEF RecordInv
<1> QED BY <1>1, <1>4, <1>7, <1>8, <1>9 DEF RunInv

LEMMA MinIn ==
  ASSUME NEW S, S \subseteq Nat, S # {}
  PROVE  Min(S) \in S /\ \A j \in S : Min(S) <= j
<1>1. \E k \in S : \A j \in S : k <= j
  BY LeastNat
<1> QED BY <1>1 DEF Min

\* A segment stays one when further cells are filed.
LEMMA SegmentStays ==
  ASSUME NEW S, NEW q \in Seq(S), NEW vs \in S, NEW seg, SegmentOK(seg, q)
  PROVE  SegmentOK(seg, Append(q, vs))
<1>1. /\ Len(Append(q, vs)) = Len(q) + 1 /\ Len(q) \in Nat
      /\ \A k \in 1..Len(q) : Append(q, vs)[k] = q[k]
  BY AppendProperties
<1>2. PICK j \in 1..Len(q) :
        /\ seg.cell = Cells[j]
        /\ \E k \in 1..Len(q[j]) : /\ seg.of = q[j][k] /\ q[j][k].available
                                   /\ q[j][k].engine \in {"native", "intraday_native"}
  BY DEF SegmentOK
<1>3. j \in 1..Len(Append(q, vs)) /\ Append(q, vs)[j] = q[j]
  BY <1>1
<1> HIDE DEF SegmentOK
<1> QED BY <1>2, <1>3 DEF SegmentOK

\* A cell is filed.
LEMMA FileCellKeeps ==
  ASSUME RunInv, FileCell
  PROVE  RunInv'
<1> DEFINE n == Len(study.comparisons)
           c == Cells[n + 1]
           m == Len(EnginesFor(request))
           natives == NativeViews(views)
           seg == [cell |-> c, of |-> views[Min(natives)]]
<1>1. /\ request \in Requests /\ stage = "run" /\ n < 6 /\ n \in Nat /\ c \in CellSet
      /\ Filed(request, c, views) /\ Len(views) = m /\ m \in Nat
      /\ gates = SumFunction(study.gates) + Counted(request, c, m)
      /\ study \in MatrixOf(request)
      /\ frictions = TRUE /\ RecordInv /\ MatrixInv /\ walk = NoWalk /\ walked = <<>>
  <2>1. study \in MatrixOf(request) /\ Len(Cells) = 6 /\ request \in Requests
    BY CellsAre DEF RunInv, MatrixInv
  <2>2. n \in Nat /\ m \in Nat
    BY <2>1, MatrixFields, EnginesAre
  <2>3. stage = "run" /\ n < 6 /\ Len(views) = m
    BY <2>1 DEF RunInv, CellInv, FileCell
  <2>4. Filed(request, c, views) /\ gates = SumFunction(study.gates) + Counted(request, c, m)
    BY <2>3 DEF RunInv, CellInv
  <2>6. c \in CellSet
    <3>1. n + 1 \in 1..6
      BY <2>2, <2>3
    <3> HIDE DEF n
    <3> QED BY <3>1, CellIn
  <2> QED BY <2>1, <2>2, <2>3, <2>4, <2>6 DEF RunInv
<1>2. /\ study.segments \in Seq([cell : CellSet, of : Views(request)])
      /\ study.comparisons \in Seq(Seq(Views(request))) /\ study.gates \in Seq(Int)
      /\ Len(study.segments) \in Nat /\ Len(study.gates) = n /\ study.verdict = "none"
  BY <1>1, MatrixFields DEF MatrixInv, RecordInv
<1>3. Cell = c
  BY DEF Cell
<1>4. /\ study' = [study EXCEPT !.segments = IF natives = {} THEN study.segments ELSE Append(study.segments, seg),
                                !.comparisons = Append(study.comparisons, views),
                                !.gates = Append(study.gates, gates - SumFunction(study.gates))]
      /\ views' = <<>> /\ stage' = IF n + 1 = 6 THEN "judge" ELSE "run"
      /\ UNCHANGED <<request, frictions, gates, saved, promotion, walk, walked>>
  BY <1>3, CellsAre DEF FileCell, CountedSoFar
<1>5. /\ study'.segments = IF natives = {} THEN study.segments ELSE Append(study.segments, seg)
      /\ study'.comparisons = Append(study.comparisons, views)
      /\ study'.gates = Append(study.gates, gates - SumFunction(study.gates))
      /\ study'.verdict = "none"
      /\ study' = [segments |-> study'.segments, comparisons |-> study'.comparisons, gates |-> study'.gates,
                   verdict |-> study'.verdict]
  <2>1. study = [segments |-> study.segments, comparisons |-> study.comparisons, gates |-> study.gates,
                 verdict |-> study.verdict]
    BY <1>1 DEF MatrixOf
  <2> HIDE DEF natives, seg
  <2> QED BY <1>2, <1>4, <2>1
<1>6. Counted(request, c, m) \in Int /\ SumFunction(study.gates) \in Int
  <2>1. CASE m = 0
    BY <2>1, CountedNone, <1>2, AppendSum
  <2>2. CASE m > 0
    <3>1. m - 1 \in Nat /\ m - 1 < Len(EnginesFor(request)) /\ (m - 1) + 1 = m
      BY <1>1, <2>2
    <3>2. Counted(request, c, (m - 1) + 1) \in Int
      <4> HIDE DEF c, m
      <4> QED BY <1>1, <3>1, CountedStep
    <3> QED BY <1>2, <3>1, <3>2, AppendSum
  <2> QED BY <1>1, <2>1, <2>2
<1>7. gates - SumFunction(study.gates) = Counted(request, c, m)
  <2> HIDE DEF c, m
  <2> QED BY <1>1, <1>6
<1>8. natives # {} => /\ seg \in [cell : CellSet, of : Views(request)]
                      /\ SegmentOK(seg, Append(study.comparisons, views))
  <2>1. SUFFICES ASSUME natives # {}
                 PROVE  /\ seg \in [cell : CellSet, of : Views(request)]
                        /\ SegmentOK(seg, Append(study.comparisons, views))
    OBVIOUS
  <2>2. natives \subseteq 1..m /\ natives \subseteq Nat
    BY <1>1 DEF NativeViews, Available, Filed
  <2>3. Min(natives) \in natives
    <3> HIDE DEF natives
    <3> QED BY <2>1, <2>2, MinIn
  <2>4. /\ Min(natives) \in 1..Len(views) /\ views[Min(natives)] \in Views(request)
        /\ views[Min(natives)].available /\ views[Min(natives)].engine \in {"native", "intraday_native"}
    <3>1. /\ Min(natives) \in 1..Len(views)
          /\ views[Min(natives)].available /\ views[Min(natives)].engine \in {"native", "intraday_native"}
      <4>1. \A k \in natives : views[k].available /\ views[k].engine \in {"native", "intraday_native"}
        BY DEF NativeViews, Available
      <4> HIDE DEF natives
      <4> QED BY <1>1, <2>2, <2>3, <4>1
    <3>2. views \in Seq(Views(request))
      BY <1>1 DEF Filed
    <3> HIDE DEF natives
    <3> QED BY <3>1, <3>2
  <2>5. /\ Append(study.comparisons, views)[n + 1] = views /\ Len(Append(study.comparisons, views)) = n + 1
    BY <1>1, <1>2, AppendProperties DEF Filed
  <2>6. seg.cell = Cells[n + 1] /\ seg.of = views[Min(natives)] /\ n + 1 \in 1..(n + 1)
    BY <1>1
  <2>7. SegmentOK(seg, Append(study.comparisons, views))
    <3> DEFINE q == Append(study.comparisons, views)
    <3>1. n + 1 \in 1..Len(q) /\ q[n + 1] = views
      BY <2>5, <2>6
    <3> HIDE DEF q, n, natives, seg
    <3>2. SegmentOK(seg, q)
      BY <2>4, <2>6, <3>1 DEF SegmentOK
    <3> QED BY <3>2 DEF q
  <2> QED BY <1>1, <2>4, <2>7
<1>9. MatrixInv'
  <2> DEFINE q == Append(study.comparisons, views)
  <2>1. /\ q \in Seq(Seq(Views(request))) /\ Len(q) = n + 1 /\ q[n + 1] = views
        /\ \A i \in 1..n : q[i] = study.comparisons[i]
    BY <1>1, <1>2, AppendProperties DEF Filed
  <2>2. /\ study'.gates \in Seq(Int) /\ Len(study'.gates) = n + 1
        /\ study'.gates[n + 1] = Counted(request, c, m) /\ \A i \in 1..n : study'.gates[i] = study.gates[i]
    BY <1>2, <1>5, <1>6, <1>7, AppendProperties
  <2>3. study'.segments \in Seq([cell : CellSet, of : Views(request)])
    <3>1. CASE natives = {}
      BY <1>2, <1>5, <3>1
    <3>2. CASE natives # {}
      <4>1. seg \in [cell : CellSet, of : Views(request)] /\ study'.segments = Append(study.segments, seg)
        BY <1>5, <1>8, <3>2
      <4> HIDE DEF seg, natives
      <4> QED BY <1>2, <4>1, AppendProperties
    <3> QED BY <3>1, <3>2
  <2>4. study' \in MatrixOf(request)
    <3>1. study'.comparisons \in Seq(Seq(Views(request))) /\ study'.verdict = "none"
      BY <1>5, <2>1
    <3> QED BY <1>5, <2>2, <2>3, <3>1 DEF MatrixOf
  <2>5. ASSUME NEW i \in 1..(n + 1)
        PROVE  Filed(request, Cells[i], q[i]) /\ Len(q[i]) = m /\ study'.gates[i] = Counted(request, Cells[i], m)
    <3>1. CASE i = n + 1
      BY <1>1, <2>1, <2>2, <3>1
    <3>2. CASE i \in 1..n
      BY <1>1, <2>1, <2>2, <3>2 DEF MatrixInv
    <3> QED BY <1>1, <3>1, <3>2
  <2>6. ASSUME NEW i \in 1..Len(study'.segments)
        PROVE  SegmentOK(study'.segments[i], q)
    <3>1. \A k \in 1..Len(study.segments) : SegmentOK(study.segments[k], q)
      <4>1. \A k \in 1..Len(study.segments) : SegmentOK(study.segments[k], study.comparisons)
        BY <1>1 DEF MatrixInv
      <4>2. views \in Seq(Views(request))
        BY <1>1 DEF Filed
      <4> QED BY <1>2, <4>1, <4>2, SegmentStays
    <3>2. CASE natives = {}
      BY <1>5, <3>1, <3>2
    <3>3. CASE natives # {}
      <4>1. /\ Len(study'.segments) = Len(study.segments) + 1 /\ study'.segments[Len(study.segments) + 1] = seg
            /\ \A k \in 1..Len(study.segments) : study'.segments[k] = study.segments[k]
        <5> HIDE DEF seg, natives
        <5> QED BY <1>2, <1>5, <1>8, <3>3, AppendProperties
      <4>2. CASE i = Len(study.segments) + 1
        <5> HIDE DEF seg, natives
        <5> QED BY <1>8, <3>3, <4>1, <4>2
      <4>3. CASE i \in 1..Len(study.segments)
        BY <3>1, <4>1, <4>3
      <4> QED BY <1>2, <4>1, <4>2, <4>3
    <3> QED BY <3>2, <3>3
  <2>7. study'.comparisons = q /\ request' = request
    BY <1>4, <1>5
  <2>8. n + 1 <= 6 /\ n + 1 \in Nat
    BY <1>1
  <2> HIDE DEF q, n
  <2> QED BY <2>1, <2>2, <2>4, <2>5, <2>6, <2>7, <2>8 DEF MatrixInv
<1>10. CellInv'
  <2>1. Len(study'.comparisons) = n + 1
    BY <1>1, <1>2, <1>5, AppendProperties DEF Filed
  <2>2. gates = SumFunction(study'.gates)
    <3>1. SumFunction(study'.gates) = SumFunction(study.gates) + Counted(request, c, m)
      <4> HIDE DEF c, m
      <4> QED BY <1>2, <1>5, <1>6, <1>7, AppendSum
    <3> QED BY <1>1, <3>1
  <2>3. Filed(request, Cells[(n + 1) + 1], <<>>) /\ Counted(request, Cells[(n + 1) + 1], Len(<<>>)) = 0
    <3>1. \A S : <<>> \in Seq(S) /\ Len(<<>>) = 0 /\ 1..0 = {}
      OBVIOUS
    <3> QED BY <1>1, <3>1, CountedNone DEF Filed
  <2>4. gates = SumFunction(study'.gates) + 0
    <3>1. gates \in Int
      <4> HIDE DEF c, m
      <4> QED BY <1>1, <1>6
    <3> QED BY <2>2, <3>1
  <2> QED BY <1>1, <1>4, <2>1, <2>3, <2>4 DEF CellInv
<1>11. RecordInv'
  BY <1>1, <1>4, <1>5 DEF RecordInv
<1>12. stage' \in {"run", "judge"}
  BY <1>4
<1> QED BY <1>1, <1>4, <1>9, <1>10, <1>11, <1>12 DEF RunInv

\* The verdict is reached, saved and recorded.
LEMMA JudgeKeeps ==
  ASSUME RunInv, Judge
  PROVE  RunInv'
<1>1. /\ stage = "judge" /\ stage' = "save" /\ study' = [study EXCEPT !.verdict = Verdict(study)]
      /\ UNCHANGED <<request, views, frictions, gates, saved, promotion, walk, walked>>
  BY DEF Judge
<1>2. study \in MatrixOf(request)
  BY DEF RunInv, MatrixInv
<1>3. Verdict(study) \in {"HOLD", "NO RESULT", "NO TRADES", "INCONCLUSIVE", "REJECT", "CANDIDATE"}
  BY DEF Verdict
<1>4. Verdict(study) = "CANDIDATE" => Stood(study)
  <2>1. SUFFICES ASSUME Verdict(study) = "CANDIDATE" PROVE Stood(study)
    OBVIOUS
  <2> DEFINE test == CellOf(study, <<"test", "real">>)
             small == SampleTooSmall(test)
             bad == LotteryFlagged(test) \/ test.monthly <= BaselineMonthly
  <2>2. ~EnginesDiverge(study) /\ SegmentsMissing(study) = {}
    BY <2>1 DEF Verdict
  <2>3. Verdict(study) = CASE test.n = 0 -> "NO TRADES"
                           [] test.n > 0 /\ small -> "INCONCLUSIVE"
                           [] ~small /\ bad -> "REJECT"
                           [] OTHER -> "CANDIDATE"
    BY <2>2 DEF Verdict
  <2> HIDE DEF test, small, bad
  <2>4. test.n # 0 /\ ~(test.n > 0 /\ small) /\ ~(~small /\ bad)
    BY <2>1, <2>3
  <2> QED BY <2>2, <2>4 DEF Stood, test, small, bad
<1>5. /\ study'.segments = study.segments /\ study'.comparisons = study.comparisons /\ study'.gates = study.gates
      /\ study'.verdict = Verdict(study) /\ study' \in MatrixOf(request)
  <2>1. study = [segments |-> study.segments, comparisons |-> study.comparisons, gates |-> study.gates,
                 verdict |-> study.verdict]
    BY <1>2 DEF MatrixOf
  <2>2. study' = [segments |-> study.segments, comparisons |-> study.comparisons, gates |-> study.gates,
                  verdict |-> Verdict(study)]
    BY <1>1, <2>1
  <2> QED BY <1>2, <1>3, <2>2 DEF MatrixOf
<1>6. Stood(study) => Stood(study)'
  <2>1. EnginesDiverge(study)' = EnginesDiverge(study)
    BY <1>5 DEF EnginesDiverge
  <2>2. SegmentsMissing(study)' = SegmentsMissing(study)
    BY <1>5 DEF SegmentsMissing, Produced
  <2>3. CellOf(study, <<"test", "real">>)' = CellOf(study, <<"test", "real">>)
    BY <1>5 DEF CellOf
  <2> QED BY <2>1, <2>2, <2>3 DEF Stood
<1>7. MatrixInv' /\ CellInv'
  BY <1>1, <1>5 DEF RunInv, MatrixInv, CellInv
<1>8. RecordInv'
  BY <1>1, <1>4, <1>5, <1>6 DEF RunInv, RecordInv
<1> QED BY <1>1, <1>7, <1>8 DEF RunInv

LEMMA SaveKeeps ==
  ASSUME RunInv, SaveReport
  PROVE  RunInv'
<1>1. /\ stage = "save" /\ stage' = "record" /\ saved' = study.verdict
      /\ UNCHANGED <<request, views, frictions, gates, study, promotion, walk, walked>>
  BY DEF SaveReport
<1> QED BY <1>1 DEF RunInv, MatrixInv, CellInv, RecordInv

LEMMA RecordVerdictKeeps ==
  ASSUME RunInv, RecordVerdict
  PROVE  RunInv'
<1>1. /\ stage = "record" /\ stage' = "end" /\ promotion' = Recorded(promotion, study.verdict, request.research)
      /\ UNCHANGED <<request, views, frictions, gates, study, saved, walk, walked>>
  BY DEF RecordVerdict
<1> QED BY <1>1 DEF RunInv, MatrixInv, CellInv, RecordInv

LEMMA GivenIs ==
  ASSUME NEW r, NEW c, NEW e
  PROVE  LET a == r.answers[c][e]
             v == Given(r, c, e)
         IN  /\ v.engine = e /\ v.monthly = (IF c[2] = "zero" THEN a.monthly + a.drag ELSE a.monthly)
             /\ v.equity = a.equity /\ v.n = a.n /\ v.top = a.top /\ v.total = a.total
             /\ v.available <=> a.outcome = "ok" /\ ~a.thin /\ SessionCount(Window(r.span, c[1])) > 1
<1> DEFINE a == r.answers[c][e]
           v == Given(r, c, e)
           ok == a.outcome = "ok" /\ ~a.thin /\ SessionCount(Window(r.span, c[1])) > 1
           monthly == IF c[2] = "zero" THEN a.monthly + a.drag ELSE a.monthly
<1>1. v = [engine |-> e, available |-> ok, monthly |-> monthly, equity |-> a.equity, n |-> a.n, top |-> a.top,
           total |-> a.total]
  BY DEF Given
<1>2. ok \in BOOLEAN
  OBVIOUS
<1>3. /\ v.engine = e /\ v.available = ok /\ v.monthly = monthly /\ v.equity = a.equity /\ v.n = a.n
      /\ v.top = a.top /\ v.total = a.total
  <2> HIDE DEF ok, monthly, a, v
  <2> QED BY <1>1
<1> QED BY <1>2, <1>3

\* What a view of the matrix says of the engine that gave it.
LEMMA FiledIs ==
  ASSUME NEW r \in Requests, NEW c \in CellSet, NEW vs, Filed(r, c, vs)
  PROVE  /\ Len(vs) \in Nat /\ DOMAIN vs = 1..Len(vs)
         /\ \A k \in 1..Len(vs) :
              LET e == EnginesFor(r)[k]
                  a == r.answers[c][e]
              IN  /\ vs[k].engine = e /\ vs[k].monthly = (IF c[2] = "zero" THEN a.monthly + a.drag ELSE a.monthly)
                  /\ vs[k].equity = a.equity /\ vs[k].n = a.n /\ vs[k].top = a.top /\ vs[k].total = a.total
                  /\ vs[k].available <=> a.outcome = "ok" /\ ~a.thin /\ SessionCount(Window(r.span, c[1])) > 1
                  /\ e \in Range(EnginesFor(r))
<1>1. vs \in Seq(Views(r)) /\ Len(vs) <= Len(EnginesFor(r))
  BY DEF Filed
<1>2. Len(vs) \in Nat /\ DOMAIN vs = 1..Len(vs)
  BY <1>1
<1>3. ASSUME NEW k \in 1..Len(vs)
      PROVE  vs[k] = Given(r, c, EnginesFor(r)[k]) /\ EnginesFor(r)[k] \in Range(EnginesFor(r))
  <2>1. k \in 1..Len(EnginesFor(r))
    BY <1>1, <1>2, EnginesAre
  <2> QED BY <2>1, EnginesAre DEF Filed
<1>4. ASSUME NEW k \in 1..Len(vs)
      PROVE  LET e == EnginesFor(r)[k]
                 a == r.answers[c][e]
             IN  /\ vs[k].engine = e /\ vs[k].monthly = (IF c[2] = "zero" THEN a.monthly + a.drag ELSE a.monthly)
                 /\ vs[k].equity = a.equity /\ vs[k].n = a.n /\ vs[k].top = a.top /\ vs[k].total = a.total
                 /\ vs[k].available <=> a.outcome = "ok" /\ ~a.thin /\ SessionCount(Window(r.span, c[1])) > 1
                 /\ e \in Range(EnginesFor(r))
  BY <1>3, GivenIs
<1> QED BY <1>2, <1>4

\* The same of one view, by the engine's name.
LEMMA ViewTells ==
  ASSUME NEW r \in Requests, NEW c \in CellSet, NEW vs, Filed(r, c, vs), NEW k \in 1..Len(vs),
         NEW e, e = EnginesFor(r)[k]
  PROVE  /\ vs[k].engine = e /\ vs[k].equity = r.answers[c][e].equity /\ vs[k].n = r.answers[c][e].n
         /\ vs[k].top = r.answers[c][e].top /\ vs[k].total = r.answers[c][e].total
         /\ vs[k].monthly = (IF c[2] = "zero" THEN r.answers[c][e].monthly + r.answers[c][e].drag
                             ELSE r.answers[c][e].monthly)
         /\ vs[k].available <=> /\ r.answers[c][e].outcome = "ok" /\ ~r.answers[c][e].thin
                                /\ SessionCount(Window(r.span, c[1])) > 1
BY FiledIs

LEMMA AnswerNumbers ==
  ASSUME NEW r \in Requests, NEW c \in CellSet, NEW e \in Range(EnginesFor(r))
  PROVE  /\ r.answers[c][e].n \in Nat /\ r.answers[c][e].monthly \in Int /\ r.answers[c][e].drag \in Int
         /\ r.answers[c][e].equity \in Int
BY RequestsAssumption DEF RequestsAssumption

\* Real cells are charged what the configuration says, zero cells nothing.
LEMMA TwinMeans ==
  ASSUME RunInv
  PROVE  TwinApart
<1>1. SUFFICES ASSUME NEW i \in DOMAIN study.segments
               PROVE  study.segments[i].of.monthly = ChargedMonthly(study.segments[i].cell, study.segments[i].of.engine)
  BY DEF TwinApart
<1>2. study \in MatrixOf(request) /\ request \in Requests
  BY DEF RunInv, MatrixInv
<1>3. i \in 1..Len(study.segments)
  BY <1>2, MatrixFields
<1>4. PICK j \in 1..Len(study.comparisons) :
        /\ study.segments[i].cell = Cells[j]
        /\ \E k \in 1..Len(study.comparisons[j]) : study.segments[i].of = study.comparisons[j][k]
  BY <1>3 DEF RunInv, MatrixInv, SegmentOK
<1>5. PICK k \in 1..Len(study.comparisons[j]) : study.segments[i].of = study.comparisons[j][k]
  BY <1>4
<1>6. j \in 1..6 /\ Cells[j] \in CellSet /\ Filed(request, Cells[j], study.comparisons[j])
  <2>1. j \in 1..6
    BY <1>2, MatrixFields DEF RunInv, MatrixInv
  <2> QED BY <2>1, CellsAre DEF RunInv, MatrixInv
<1>7. LET e == EnginesFor(request)[k]
          a == request.answers[Cells[j]][e]
      IN  /\ study.comparisons[j][k].engine = e
          /\ study.comparisons[j][k].monthly = (IF Cells[j][2] = "zero" THEN a.monthly + a.drag ELSE a.monthly)
          /\ a.monthly \in Int
  <2>1. EnginesFor(request)[k] \in Range(EnginesFor(request))
    BY <1>2, <1>6, FiledIs
  <2>2. request.answers[Cells[j]][EnginesFor(request)[k]].monthly \in Int
    BY <1>2, <1>6, <2>1, RequestsAssumption DEF RequestsAssumption
  <2>3. LET e == EnginesFor(request)[k]
            a == request.answers[Cells[j]][e]
        IN  /\ study.comparisons[j][k].engine = e
            /\ study.comparisons[j][k].monthly = (IF Cells[j][2] = "zero" THEN a.monthly + a.drag ELSE a.monthly)
    <3> DEFINE c == Cells[j]
               vs == study.comparisons[j]
               e == EnginesFor(request)[k]
    <3>1. Filed(request, c, vs) /\ c \in CellSet /\ k \in 1..Len(vs)
      BY <1>6
    <3> HIDE DEF c, vs, e
    <3>2. /\ vs[k].engine = e
          /\ vs[k].monthly = (IF c[2] = "zero" THEN request.answers[c][e].monthly + request.answers[c][e].drag
                              ELSE request.answers[c][e].monthly)
      BY <1>2, <3>1, ViewTells DEF e
    <3> QED BY <3>2 DEF c, vs, e
  <2> QED BY <2>2, <2>3
<1> QED BY <1>4, <1>5, <1>7 DEF ChargedMonthly, Answer

\* Every engine is in every comparison, and a cell counts what was refused in it.
LEMMA OmittedMeans ==
  ASSUME RunInv
  PROVE  NothingOmitted
<1>1. study \in MatrixOf(request) /\ request \in Requests
  BY DEF RunInv, MatrixInv
<1>2. ASSUME NEW i \in DOMAIN study.comparisons
      PROVE  /\ [k \in DOMAIN study.comparisons[i] |-> study.comparisons[i][k].engine] = EnginesFor(request)
             /\ study.gates[i] = SumFunction([k \in {k \in DOMAIN EnginesFor(request) : Answer(Cells[i], EnginesFor(request)[k]).outcome # "unavailable"}
                                               |-> Answer(Cells[i], EnginesFor(request)[k]).gates])
  <2>1. i \in 1..Len(study.comparisons) /\ i \in 1..6
    BY <1>1, MatrixFields DEF RunInv, MatrixInv
  <2>2. /\ Filed(request, Cells[i], study.comparisons[i]) /\ Len(study.comparisons[i]) = Len(EnginesFor(request))
        /\ study.gates[i] = Counted(request, Cells[i], Len(EnginesFor(request)))
    BY <2>1 DEF RunInv, MatrixInv
  <2>3. Cells[i] \in CellSet
    BY <2>1, CellsAre
  <2>4. DOMAIN study.comparisons[i] = 1..Len(EnginesFor(request)) /\
        \A k \in 1..Len(EnginesFor(request)) : study.comparisons[i][k].engine = EnginesFor(request)[k]
    BY <1>1, <2>2, <2>3, FiledIs
  <2>5. /\ EnginesFor(request) = [k \in 1..Len(EnginesFor(request)) |-> EnginesFor(request)[k]]
        /\ DOMAIN EnginesFor(request) = 1..Len(EnginesFor(request))
    <3>1. \A S : \A q \in Seq(S) : q = [k \in 1..Len(q) |-> q[k]] /\ DOMAIN q = 1..Len(q)
      OBVIOUS
    <3> QED BY <1>1, <3>1, EnginesAre
  <2>6. study.gates[i] = SumFunction([k \in {k \in DOMAIN EnginesFor(request) : Answer(Cells[i], EnginesFor(request)[k]).outcome # "unavailable"}
                                       |-> Answer(Cells[i], EnginesFor(request)[k]).gates])
    BY <2>2, <2>5 DEF Counted, Ran, Answer
  <2>7. [k \in DOMAIN study.comparisons[i] |-> study.comparisons[i][k].engine] = EnginesFor(request)
    BY <2>4, <2>5
  <2> QED BY <2>6, <2>7
<1> QED BY <1>2 DEF NothingOmitted

\* The record follows the saved report.
LEMMA GrantedMeans ==
  ASSUME RunInv
  PROVE  GrantedByReport
BY DEF RunInv, RecordInv, GrantedByReport, Recorded, Promoted

\* The reference of a comparison.
LEMMA ReferenceIs ==
  ASSUME NEW r \in Requests, ~r.intraday, NEW c \in CellSet, NEW vs, Filed(r, c, vs), NEW k \in 1..Len(vs),
         vs[k].available, vs[k].engine = "native"
  PROVE  /\ ReferenceOf(vs).engine = "native" /\ ReferenceOf(vs).monthly = vs[k].monthly
         /\ ReferenceOf(vs).equity = vs[k].equity
<1> DEFINE natives == {i \in Available(vs) : vs[i].engine = "native"}
<1>1. Len(vs) \in Nat /\ DOMAIN vs = 1..Len(vs)
  BY FiledIs
<1>2. natives \subseteq Nat /\ k \in natives /\ natives \subseteq 1..Len(vs)
  BY <1>1 DEF Available
<1>3. Min(natives) \in natives /\ ReferenceOf(vs) = vs[Min(natives)]
  <2>1. ReferenceOf(vs) = vs[Min(natives)]
    BY <1>2 DEF ReferenceOf
  <2>2. natives # {}
    BY <1>2
  <2> HIDE DEF natives
  <2> QED BY <1>2, <2>1, <2>2, MinIn
<1>4. PICK i \in 1..Len(vs) : ReferenceOf(vs) = vs[i] /\ vs[i].engine = "native"
  <2>1. \A i \in natives : vs[i].engine = "native"
    OBVIOUS
  <2> HIDE DEF natives
  <2> QED BY <1>2, <1>3, <2>1
<1>5. EnginesFor(r)[i] = "native" /\ EnginesFor(r)[k] = "native"
  BY <1>4, FiledIs
<1>6. /\ vs[i].monthly = vs[k].monthly /\ vs[i].equity = vs[k].equity
  <2>1. ASSUME NEW x \in {i, k}
        PROVE  /\ vs[x].equity = r.answers[c]["native"].equity
               /\ vs[x].monthly = (IF c[2] = "zero" THEN r.answers[c]["native"].monthly + r.answers[c]["native"].drag
                                   ELSE r.answers[c]["native"].monthly)
    <3>1. x \in 1..Len(vs) /\ "native" = EnginesFor(r)[x]
      BY <1>5
    <3> QED BY <3>1, ViewTells
  <2> QED BY <2>1
<1> QED BY <1>4, <1>6

LEMMA MaxOfTwo ==
  ASSUME NEW x \in Int, NEW y \in Int
  PROVE  Max({x, y}) = IF x >= y THEN x ELSE y
<1>1. \E m \in {x, y} : \A z \in {x, y} : m >= z
  OBVIOUS
<1>2. Max({x, y}) \in {x, y} /\ \A z \in {x, y} : Max({x, y}) >= z
  BY <1>1 DEF Max
<1> QED BY <1>2

LEMMA GapIsInt ==
  ASSUME NEW x \in Int, NEW y \in Int
  PROVE  GapOf(x, y) \in Int
<1>1. x - y \in Int /\ y - x \in Int
  OBVIOUS
<1> QED BY <1>1, MaxOfTwo DEF GapOf

\* The split: both sides together are the span, and no day is on both.
LEMMA SplitIs ==
  ASSUME NEW r \in Requests, SessionCount(Window(r.span, "test")) > 1
  PROVE  LET train == Window(r.span, "train")
             tested == Window(r.span, "test")
         IN  /\ train[2] < tested[1]
             /\ SessionCount(train) + SessionCount(tested) = SessionCount(r.span)
<1> DEFINE s == r.span[1]
           z == r.span[2]
           b == s + ((z - s) * TrainPct) \div 100
<1>1. s \in Int /\ z \in Int /\ s <= z /\ TrainPct \in Nat
  BY RequestsAssumption DEF RequestsAssumption
<1>2. ((z - s) * TrainPct) \div 100 \in Nat
  <2>1. z - s \in Nat
    BY <1>1
  <2>2. \A x, y \in Nat : x * y \in Nat
    OBVIOUS
  <2>3. \A x \in Nat : x \div 100 \in Nat
    OBVIOUS
  <2> QED BY <1>1, <2>1, <2>2, <2>3
<1>3. b \in Int /\ b >= s
  BY <1>1, <1>2
<1>4. Window(r.span, "train") = <<s, b>> /\ Window(r.span, "test") = <<b + 1, z>>
  BY DEF Window, ChronologicalSplitExclusive
<1>5. \A x, y \in Int : \A w : w[1] = x /\ w[2] = y => SessionCount(w) = IF 0 >= y - x + 1 THEN 0 ELSE y - x + 1
  <2>1. \A x, y \in Int : y - x + 1 \in Int
    OBVIOUS
  <2> QED BY <2>1, MaxOfTwo DEF SessionCount
<1> HIDE DEF b, s, z
<1>6. /\ SessionCount(<<s, b>>) = b - s + 1
      /\ SessionCount(<<b + 1, z>>) = IF 0 >= z - b THEN 0 ELSE z - b
      /\ SessionCount(r.span) = z - s + 1
  <2>1. /\ SessionCount(<<s, b>>) = IF 0 >= b - s + 1 THEN 0 ELSE b - s + 1
        /\ SessionCount(<<b + 1, z>>) = IF 0 >= z - (b + 1) + 1 THEN 0 ELSE z - (b + 1) + 1
    <3>1. <<s, b>>[1] = s /\ <<s, b>>[2] = b /\ <<b + 1, z>>[1] = b + 1 /\ <<b + 1, z>>[2] = z /\ b + 1 \in Int
      BY <1>3
    <3> QED BY <1>1, <1>3, <1>5, <3>1
  <2>2. SessionCount(r.span) = IF 0 >= z - s + 1 THEN 0 ELSE z - s + 1
    BY <1>1, <1>5 DEF s, z
  <2> QED BY <1>1, <1>3, <2>1, <2>2
<1>7. SessionCount(<<b + 1, z>>) > 1
  BY <1>4
<1>8. Window(r.span, "train")[2] = b /\ Window(r.span, "test")[1] = b + 1
  BY <1>4
<1>9. b < b + 1 /\ SessionCount(<<s, b>>) + SessionCount(<<b + 1, z>>) = SessionCount(r.span)
  BY <1>1, <1>3, <1>6, <1>7
<1> QED BY <1>4, <1>8, <1>9

NativeOf(r) == IF r.intraday THEN "intraday_native" ELSE "native"

\* What a segment says of the reference engine's answer.
LEMMA SegmentMeans ==
  ASSUME RunInv, NEW i \in 1..Len(study.segments)
  PROVE  \E j \in 1..Len(study.comparisons), k \in 1..Len(EnginesFor(request)) :
           LET c == Cells[j]
               a == request.answers[c][NativeOf(request)]
               v == study.comparisons[j][k]
           IN  /\ study.segments[i].cell = c /\ c \in CellSet /\ study.segments[i].of = v
               /\ Filed(request, c, study.comparisons[j])
               /\ Len(study.comparisons[j]) = Len(EnginesFor(request))
               /\ v.available /\ v.engine = NativeOf(request) /\ NativeOf(request) \in Range(EnginesFor(request))
               /\ a.outcome = "ok" /\ ~a.thin /\ SessionCount(Window(request.span, c[1])) > 1
               /\ v.monthly = (IF c[2] = "zero" THEN a.monthly + a.drag ELSE a.monthly)
               /\ v.n = a.n /\ v.top = a.top /\ v.total = a.total /\ v.equity = a.equity
<1>1. study \in MatrixOf(request) /\ request \in Requests
  BY DEF RunInv, MatrixInv
<1>2. PICK j \in 1..Len(study.comparisons) :
        /\ study.segments[i].cell = Cells[j]
        /\ \E k \in 1..Len(study.comparisons[j]) :
             /\ study.segments[i].of = study.comparisons[j][k] /\ study.comparisons[j][k].available
             /\ study.comparisons[j][k].engine \in {"native", "intraday_native"}
  BY DEF RunInv, MatrixInv, SegmentOK
<1>3. PICK k \in 1..Len(study.comparisons[j]) :
        /\ study.segments[i].of = study.comparisons[j][k] /\ study.comparisons[j][k].available
        /\ study.comparisons[j][k].engine \in {"native", "intraday_native"}
  BY <1>2
<1>4. /\ j \in 1..6 /\ Cells[j] \in CellSet /\ Filed(request, Cells[j], study.comparisons[j])
      /\ Len(study.comparisons[j]) = Len(EnginesFor(request))
  <2>1. j \in 1..6
    BY <1>1, MatrixFields DEF RunInv, MatrixInv
  <2> QED BY <2>1, CellsAre DEF RunInv, MatrixInv
<1>5. /\ study.comparisons[j][k].engine = EnginesFor(request)[k]
      /\ EnginesFor(request)[k] \in Range(EnginesFor(request))
  BY <1>1, <1>4, FiledIs
<1>6. study.comparisons[j][k].engine = NativeOf(request)
  <2>1. CASE request.intraday
    BY <1>1, <1>5, <2>1, EnginesAre DEF NativeOf
  <2>2. CASE ~request.intraday
    BY <1>1, <1>3, <1>5, <2>2, EnginesAre DEF NativeOf
  <2> QED BY <2>1, <2>2
<1>7. EnginesFor(request)[k] = NativeOf(request)
  BY <1>5, <1>6
<1>8. LET c == Cells[j]
          a == request.answers[c][NativeOf(request)]
          v == study.comparisons[j][k]
      IN  /\ a.outcome = "ok" /\ ~a.thin /\ SessionCount(Window(request.span, c[1])) > 1
          /\ v.monthly = (IF c[2] = "zero" THEN a.monthly + a.drag ELSE a.monthly)
          /\ v.n = a.n /\ v.top = a.top /\ v.total = a.total /\ v.equity = a.equity
  <2>1. k \in 1..Len(study.comparisons[j]) /\ NativeOf(request) = EnginesFor(request)[k]
    BY <1>7
  <2> DEFINE c == Cells[j]
             vs == study.comparisons[j]
             e == NativeOf(request)
  <2>2. /\ c \in CellSet /\ Filed(request, c, vs) /\ k \in 1..Len(vs) /\ e = EnginesFor(request)[k]
        /\ vs[k].available
    BY <1>3, <1>4, <2>1
  <2> HIDE DEF c, vs, e
  <2>3. /\ vs[k].equity = request.answers[c][e].equity /\ vs[k].n = request.answers[c][e].n
        /\ vs[k].top = request.answers[c][e].top /\ vs[k].total = request.answers[c][e].total
        /\ vs[k].monthly = (IF c[2] = "zero" THEN request.answers[c][e].monthly + request.answers[c][e].drag
                            ELSE request.answers[c][e].monthly)
        /\ request.answers[c][e].outcome = "ok" /\ ~request.answers[c][e].thin
        /\ SessionCount(Window(request.span, c[1])) > 1
    BY <1>1, <2>2, ViewTells
  <2> QED BY <2>3 DEF c, vs, e
<1>9. k \in 1..Len(EnginesFor(request))
  BY <1>4
<1> QED BY <1>2, <1>3, <1>4, <1>5, <1>6, <1>8, <1>9

\* No other engine that answered stands apart from the reference.
LEMMA NoneApart ==
  ASSUME RunInv, Stood(study), NEW j \in 1..Len(study.comparisons), NEW c \in CellSet, c = Cells[j],
         NEW k \in 1..Len(EnginesFor(request)), study.comparisons[j][k].available,
         study.comparisons[j][k].engine = NativeOf(request), Filed(request, c, study.comparisons[j]),
         Len(study.comparisons[j]) = Len(EnginesFor(request)),
         NEW e \in Range(EnginesFor(request)), e # NativeOf(request),
         request.answers[c][e].outcome = "ok", ~request.answers[c][e].thin,
         SessionCount(Window(request.span, c[1])) > 1
  PROVE  /\ GapOf(ChargedMonthly(c, e), ChargedMonthly(c, NativeOf(request))) <= DIVERGENCE_TOLERANCE
         /\ 100 * GapOf(request.answers[c][e].equity, request.answers[c][NativeOf(request)].equity)
              <= EquityTolerancePct * GapOf(request.answers[c][NativeOf(request)].equity, 0)
<1> DEFINE vs == study.comparisons[j]
<1>1. request \in Requests /\ study \in MatrixOf(request)
  BY DEF RunInv, MatrixInv
<1>2. ~request.intraday /\ NativeOf(request) = "native"
  <2>1. CASE request.intraday
    <3>1. Range(EnginesFor(request)) = {"intraday_native"} /\ NativeOf(request) = "intraday_native"
      BY <1>1, <2>1, EnginesAre DEF NativeOf
    <3> QED BY <3>1
  <2>2. CASE ~request.intraday
    BY <2>2 DEF NativeOf
  <2> QED BY <2>1, <2>2
<1>3. PICK h \in 1..Len(EnginesFor(request)) : e = EnginesFor(request)[h]
  BY <1>1, EnginesAre
<1>4. /\ vs[h].engine = e /\ vs[h].available
      /\ vs[h].monthly = (IF c[2] = "zero" THEN request.answers[c][e].monthly + request.answers[c][e].drag
                          ELSE request.answers[c][e].monthly)
      /\ vs[h].equity = request.answers[c][e].equity
  <2>1. h \in 1..Len(vs) /\ Filed(request, c, vs)
    OBVIOUS
  <2> HIDE DEF vs
  <2> QED BY <1>1, <1>3, <2>1, ViewTells
<1>5. EnginesFor(request)[k] = NativeOf(request) /\ NativeOf(request) \in Range(EnginesFor(request))
  BY <1>1, FiledIs
<1>6. /\ vs[k].monthly = (IF c[2] = "zero" THEN request.answers[c][NativeOf(request)].monthly + request.answers[c][NativeOf(request)].drag
                          ELSE request.answers[c][NativeOf(request)].monthly)
      /\ vs[k].equity = request.answers[c][NativeOf(request)].equity
  <2>1. k \in 1..Len(vs) /\ Filed(request, c, vs) /\ NativeOf(request) = EnginesFor(request)[k]
    BY <1>5
  <2> HIDE DEF vs
  <2> QED BY <1>1, <2>1, ViewTells
<1>7. /\ ReferenceOf(vs).engine = "native" /\ ReferenceOf(vs).monthly = vs[k].monthly
      /\ ReferenceOf(vs).equity = vs[k].equity
  BY <1>1, <1>2, ReferenceIs
<1>8. vs[h] \in Comparable(vs)
  <2>1. h \in DOMAIN vs
    BY <1>1, FiledIs
  <2>2. h \in Available(vs)
    BY <1>4, <2>1 DEF Available
  <2> QED BY <1>2, <1>4, <1>7, <2>2 DEF Comparable
<1>9. ~Apart(vs[h], ReferenceOf(vs))
  <2>1. j \in DOMAIN study.comparisons
    BY <1>1, MatrixFields
  <2> QED BY <1>8, <2>1 DEF Stood, EnginesDiverge
<1>10. ASSUME NEW x \in {e, NativeOf(request)}
       PROVE  /\ request.answers[c][x].monthly \in Int /\ request.answers[c][x].drag \in Int
              /\ request.answers[c][x].equity \in Int
  BY <1>1, <1>5, AnswerNumbers
<1>11. vs[h].monthly = ChargedMonthly(c, e) /\ vs[k].monthly = ChargedMonthly(c, NativeOf(request))
  <2>1. \A x \in {e, NativeOf(request)} :
          ChargedMonthly(c, x) = (IF c[2] = "zero" THEN request.answers[c][x].monthly + request.answers[c][x].drag
                                  ELSE request.answers[c][x].monthly)
    <3>1. ASSUME NEW x \in {e, NativeOf(request)}
          PROVE  ChargedMonthly(c, x) = (IF c[2] = "zero" THEN request.answers[c][x].monthly + request.answers[c][x].drag
                                         ELSE request.answers[c][x].monthly)
      <4> DEFINE m == request.answers[c][x].monthly
                 d == request.answers[c][x].drag
      <4>1. ChargedMonthly(c, x) = m + (IF c[2] = "zero" THEN d ELSE 0)
        BY DEF ChargedMonthly, Answer
      <4>2. m \in Int
        BY <1>10
      <4> HIDE DEF m, d
      <4>3. ChargedMonthly(c, x) = IF c[2] = "zero" THEN m + d ELSE m
        <5>1. CASE c[2] = "zero"
          BY <4>1, <5>1
        <5>2. CASE c[2] # "zero"
          BY <4>1, <4>2, <5>2
        <5> QED BY <5>1, <5>2
      <4> QED BY <4>3 DEF m, d
    <3> QED BY <3>1
  <2> HIDE DEF vs
  <2> QED BY <1>4, <1>6, <2>1
<1>12. vs[h].monthly \in Int /\ vs[k].monthly \in Int /\ vs[h].equity \in Int /\ vs[k].equity \in Int
  <2>1. \A x \in {e, NativeOf(request)} :
          (IF c[2] = "zero" THEN request.answers[c][x].monthly + request.answers[c][x].drag
           ELSE request.answers[c][x].monthly) \in Int
    <3>1. \A m, d \in Int : m + d \in Int
      OBVIOUS
    <3>2. ASSUME NEW x \in {e, NativeOf(request)} PROVE request.answers[c][x].monthly + request.answers[c][x].drag \in Int
      BY <1>10, <3>1
    <3>3. ASSUME NEW x \in {e, NativeOf(request)} PROVE request.answers[c][x].monthly \in Int
      BY <1>10
    <3>4. CASE c[2] = "zero"
      BY <3>2, <3>4
    <3>5. CASE c[2] # "zero"
      BY <3>3, <3>5
    <3> QED BY <3>4, <3>5
  <2>2. vs[h].monthly \in Int /\ vs[k].monthly \in Int
    <3> HIDE DEF vs
    <3> QED BY <1>4, <1>6, <2>1
  <2>3. vs[h].equity \in Int /\ vs[k].equity \in Int
    <3> HIDE DEF vs
    <3> QED BY <1>4, <1>6, <1>10
  <2> QED BY <2>2, <2>3
<1>13. /\ ~(100 * GapOf(vs[h].equity, vs[k].equity) > EquityTolerancePct * GapOf(vs[k].equity, 0))
       /\ ~(GapOf(vs[h].monthly, vs[k].monthly) > DIVERGENCE_TOLERANCE)
  BY <1>7, <1>9 DEF Apart
<1>14. /\ 100 * GapOf(vs[h].equity, vs[k].equity) \in Int /\ EquityTolerancePct * GapOf(vs[k].equity, 0) \in Int
       /\ GapOf(vs[h].monthly, vs[k].monthly) \in Int /\ DIVERGENCE_TOLERANCE \in Int
  <2>1. \A x, y \in Int : x * y \in Int
    OBVIOUS
  <2>2. /\ GapOf(vs[h].equity, vs[k].equity) \in Int /\ GapOf(vs[k].equity, 0) \in Int
        /\ GapOf(vs[h].monthly, vs[k].monthly) \in Int
    <3>1. \A x, y \in Int : GapOf(x, y) \in Int
      BY GapIsInt
    <3>2. 0 \in Int
      OBVIOUS
    <3> HIDE DEF vs
    <3> QED BY <1>12, <3>1, <3>2
  <2>3. EquityTolerancePct \in Int /\ DIVERGENCE_TOLERANCE \in Int /\ 100 \in Int
    BY RequestsAssumption DEF RequestsAssumption
  <2> QED BY <2>1, <2>2, <2>3
<1>15. \A x, y \in Int : ~(x > y) => x <= y
  OBVIOUS
<1>16. /\ 100 * GapOf(vs[h].equity, vs[k].equity) <= EquityTolerancePct * GapOf(vs[k].equity, 0)
       /\ GapOf(vs[h].monthly, vs[k].monthly) <= DIVERGENCE_TOLERANCE
  BY <1>13, <1>14, <1>15
<1> QED BY <1>4, <1>6, <1>11, <1>16

\* A pass was earned out of sample, on a whole matrix.
LEMMA PassMeans ==
  ASSUME RunInv
  PROVE  PassEarned
<1> DEFINE native == NativeOf(request)
           T == <<"test", "real">>
           a == request.answers[T][native]
<1>1. SUFFICES ASSUME study.verdict = "CANDIDATE"
               PROVE  /\ native \in Range(EnginesFor(request))
                      /\ a.monthly > BaselineMonthly /\ a.n >= MIN_TRUSTWORTHY_N /\ ~LotteryFlagged(a)
                      /\ \A c \in CellSet :
                           /\ request.answers[c][native].outcome = "ok" /\ ~request.answers[c][native].thin
                           /\ \A e \in Range(EnginesFor(request)) :
                                LET b == request.answers[c][e]
                                IN  b.outcome = "ok" /\ ~b.thin /\ e # native =>
                                      /\ GapOf(ChargedMonthly(c, e), ChargedMonthly(c, native)) <= DIVERGENCE_TOLERANCE
                                      /\ 100 * GapOf(b.equity, request.answers[c][native].equity)
                                           <= EquityTolerancePct * GapOf(request.answers[c][native].equity, 0)
                      /\ LET train == Window(request.span, "train")
                             tested == Window(request.span, "test")
                         IN  /\ SessionCount(tested) > 1 /\ train[2] < tested[1]
                             /\ SessionCount(train) + SessionCount(tested) = SessionCount(request.span)
  <2> QED BY <1>1 DEF PassEarned, Answer, NativeOf
<1>2. /\ request \in Requests /\ study \in MatrixOf(request) /\ Stood(study)
  BY <1>1 DEF RunInv, MatrixInv, RecordInv
<1>3. DOMAIN study.segments = 1..Len(study.segments)
  BY <1>2, MatrixFields
<1>4. \A c \in CellSet : \E i \in 1..Len(study.segments) : study.segments[i].cell = c
  BY <1>2, <1>3 DEF Stood, SegmentsMissing, Produced
<1>5. T \in CellSet
  BY CellsAre
<1>6. PICK i \in 1..Len(study.segments) : study.segments[i].cell = T /\ CellOf(study, T) = study.segments[i].of
  <2>1. \E i \in DOMAIN study.segments : study.segments[i].cell = T
    BY <1>3, <1>4, <1>5
  <2> DEFINE i == CHOOSE i \in DOMAIN study.segments : study.segments[i].cell = T
  <2>2. i \in DOMAIN study.segments /\ study.segments[i].cell = T
    BY <2>1
  <2>3. CellOf(study, T) = study.segments[i].of
    BY DEF CellOf
  <2> QED BY <1>3, <2>2, <2>3
<1>7. PICK j \in 1..Len(study.comparisons), k \in 1..Len(EnginesFor(request)) :
        LET c == Cells[j]
            b == request.answers[c][native]
            v == study.comparisons[j][k]
        IN  /\ study.segments[i].cell = c /\ study.segments[i].of = v
            /\ native \in Range(EnginesFor(request)) /\ SessionCount(Window(request.span, c[1])) > 1
            /\ v.monthly = (IF c[2] = "zero" THEN b.monthly + b.drag ELSE b.monthly)
            /\ v.n = b.n /\ v.top = b.top /\ v.total = b.total
  BY SegmentMeans
<1>8. Cells[j] = T /\ T[1] = "test" /\ T[2] # "zero"
  BY <1>6, <1>7
<1>9. LET v == CellOf(study, T) IN v.monthly = a.monthly /\ v.n = a.n /\ v.top = a.top /\ v.total = a.total
  BY <1>6, <1>7, <1>8
<1>10. a.monthly > BaselineMonthly /\ a.n >= MIN_TRUSTWORTHY_N /\ ~LotteryFlagged(a)
  <2> DEFINE v == CellOf(study, T)
  <2>1. a.n \in Nat /\ a.monthly \in Int /\ MIN_TRUSTWORTHY_N \in Int /\ BaselineMonthly \in Int
    BY <1>2, <1>5, <1>7, RequestsAssumption DEF RequestsAssumption
  <2>2. /\ v.n # 0 /\ ~(v.n > 0 /\ SampleTooSmall(v))
        /\ ~(~SampleTooSmall(v) /\ (LotteryFlagged(v) \/ v.monthly <= BaselineMonthly))
    BY <1>2 DEF Stood
  <2>3. ~SampleTooSmall(v) /\ ~LotteryFlagged(v) /\ ~(v.monthly <= BaselineMonthly)
    BY <1>9, <2>1, <2>2
  <2>4. ~LotteryFlagged(a)
    BY <1>9, <2>3 DEF LotteryFlagged
  <2>5. ~(a.n < MIN_TRUSTWORTHY_N) /\ ~(a.monthly <= BaselineMonthly)
    BY <1>9, <2>3 DEF SampleTooSmall
  <2>6. \A x, y \in Int : ~(x < y) => x >= y
    OBVIOUS
  <2>7. \A x, y \in Int : ~(x <= y) => x > y
    OBVIOUS
  <2>8. a.n \in Int
    BY <2>1
  <2> HIDE DEF a, v
  <2> QED BY <2>1, <2>4, <2>5, <2>6, <2>7, <2>8
<1>11. ASSUME NEW c \in CellSet
       PROVE  /\ request.answers[c][native].outcome = "ok" /\ ~request.answers[c][native].thin
              /\ \A e \in Range(EnginesFor(request)) :
                   LET b == request.answers[c][e]
                   IN  b.outcome = "ok" /\ ~b.thin /\ e # native =>
                         /\ GapOf(ChargedMonthly(c, e), ChargedMonthly(c, native)) <= DIVERGENCE_TOLERANCE
                         /\ 100 * GapOf(b.equity, request.answers[c][native].equity)
                              <= EquityTolerancePct * GapOf(request.answers[c][native].equity, 0)
  <2>1. PICK s \in 1..Len(study.segments) : study.segments[s].cell = c
    BY <1>4
  <2>2. PICK p \in 1..Len(study.comparisons), q \in 1..Len(EnginesFor(request)) :
          /\ study.segments[s].cell = Cells[p] /\ Filed(request, Cells[p], study.comparisons[p])
          /\ Len(study.comparisons[p]) = Len(EnginesFor(request))
          /\ study.comparisons[p][q].available /\ study.comparisons[p][q].engine = native
          /\ request.answers[Cells[p]][native].outcome = "ok" /\ ~request.answers[Cells[p]][native].thin
          /\ SessionCount(Window(request.span, Cells[p][1])) > 1
    BY SegmentMeans
  <2>3. c = Cells[p]
    BY <2>1, <2>2
  <2> HIDE DEF native
  <2>4. ASSUME NEW e \in Range(EnginesFor(request)), request.answers[c][e].outcome = "ok",
               ~request.answers[c][e].thin, e # native
        PROVE  /\ GapOf(ChargedMonthly(c, e), ChargedMonthly(c, native)) <= DIVERGENCE_TOLERANCE
               /\ 100 * GapOf(request.answers[c][e].equity, request.answers[c][native].equity)
                    <= EquityTolerancePct * GapOf(request.answers[c][native].equity, 0)
    BY <1>2, <2>2, <2>3, <2>4, NoneApart DEF native
  <2> QED BY <2>2, <2>3, <2>4
<1>12. /\ SessionCount(Window(request.span, "test")) > 1 /\ native \in Range(EnginesFor(request))
  BY <1>7, <1>8
<1>13. LET train == Window(request.span, "train")
           tested == Window(request.span, "test")
       IN  /\ train[2] < tested[1]
           /\ SessionCount(train) + SessionCount(tested) = SessionCount(request.span)
  BY <1>2, <1>12, SplitIs
<1> HIDE DEF a, native
<1> QED BY <1>10, <1>11, <1>12, <1>13

-----------------------------------------------------------------------------
(* Walk-forward windows.                                                    *)

DaysTo(n) == SumFunction([m \in 0..(n - 1) |-> LengthOf(m)])
ValidDate(d) == d \in Nat \X Nat /\ d[2] \in 1..LengthOf(d[1])

LEMMA LengthIs == ASSUME NEW m \in Nat PROVE LengthOf(m) \in Nat /\ LengthOf(m) > 0 /\ LengthOf(m) \in Range(MonthLengths)
<1>1. MonthLengths \in Seq(Nat \ {0}) /\ MonthLengths # <<>>
  BY WalksAssumption DEF WalksAssumption
<1>2. Len(MonthLengths) \in Nat /\ Len(MonthLengths) > 0
  BY <1>1
<1>3. \A n \in Nat : n > 0 => 1 + (m % n) \in 1..n
  OBVIOUS
<1>4. 1 + (m % Len(MonthLengths)) \in 1..Len(MonthLengths)
  BY <1>2, <1>3
<1>5. \A k \in 1..Len(MonthLengths) : MonthLengths[k] \in Nat \ {0} /\ MonthLengths[k] \in Range(MonthLengths)
  BY <1>1 DEF Range
<1> QED BY <1>4, <1>5 DEF LengthOf

\* A month adds its days.
LEMMA DaysStep ==
  ASSUME NEW n \in Nat
  PROVE  DaysTo(n) \in Int /\ DaysTo(n + 1) = DaysTo(n) + LengthOf(n)
<1> DEFINE D == 0..(n - 1)
           E == 0..n
           f == [m \in D |-> LengthOf(m)]
           h == [m \in E |-> LengthOf(m)]
<1>1. IsFiniteSet(D) /\ IsFiniteSet(E)
  <2>1. 0 \in Int /\ n - 1 \in Int /\ n \in Int
    OBVIOUS
  <2> QED BY <2>1, FS_Interval
<1>2. D = E \ {n} /\ n \in E /\ (\A m \in E : m \in Nat) /\ (n + 1) - 1 = n
  OBVIOUS
<1>3. \A m \in E : h[m] \in Int
  BY <1>2, LengthIs
<1>4. DOMAIN f = D /\ DOMAIN h = E /\ (\A m \in E \ {n} : f[m] = h[m]) /\ h[n] = LengthOf(n)
  BY <1>2
<1>5. DaysTo(n) = SumFunction(f) /\ DaysTo(n + 1) = SumFunction(h)
  BY <1>2 DEF DaysTo
<1>6. SumFunction(f) \in Int
  <2>1. \A m \in D : f[m] \in Int
    BY <1>2, <1>3, <1>4
  <2> HIDE DEF D, E, f, h
  <2> QED BY <1>1, <1>4, <2>1, SumInt
<1>7. SumFunction(h) = h[n] + SumFunction(f)
  <2>1. DOMAIN f = E \ {n} /\ n \in E /\ IsFiniteSet(E) /\ DOMAIN h = E
    BY <1>1, <1>2, <1>4
  <2>2. (\A m \in E : h[m] \in Int) /\ \A m \in E \ {n} : f[m] = h[m]
    BY <1>3, <1>4
  <2> HIDE DEF D, E, f, h
  <2>3. ASSUME NEW x \in E, DOMAIN f = E \ {x}, \A m \in E \ {x} : f[m] = h[m]
        PROVE  SumFunction(h) = h[x] + SumFunction(f)
    <3>1. IsFiniteSet(E) /\ DOMAIN h = E /\ \A m \in E : h[m] \in Int
      BY <2>1, <2>2
    <3> QED BY <2>3, <3>1, SumLess
  <2> QED BY <2>1, <2>2, <2>3
<1>8. LengthOf(n) \in Int
  BY LengthIs
<1> QED BY <1>4, <1>5, <1>6, <1>7, <1>8

\* Later months begin later.
LEMMA DaysLater ==
  ASSUME NEW n \in Nat, NEW k \in Nat
  PROVE  DaysTo(n + k) >= DaysTo(n) /\ DaysTo(n + k) \in Int /\ DaysTo(n) \in Int
<1> DEFINE Q == {j \in Nat : DaysTo(n + j) >= DaysTo(n)}
<1>1. DaysTo(n) \in Int
  BY DaysStep
<1>2. 0 \in Q
  BY <1>1
<1>3. ASSUME NEW j \in Nat, j \in Q PROVE j + 1 \in Q
  <2>1. n + j \in Nat /\ n + (j + 1) = (n + j) + 1
    OBVIOUS
  <2>2. DaysTo(n + j) \in Int /\ DaysTo((n + j) + 1) = DaysTo(n + j) + LengthOf(n + j) /\ LengthOf(n + j) \in Nat
    BY <2>1, DaysStep, LengthIs
  <2>3. DaysTo(n + j) >= DaysTo(n)
    BY <1>3
  <2>4. DaysTo(n + (j + 1)) >= DaysTo(n)
    BY <1>1, <2>1, <2>2, <2>3
  <2> QED BY <2>4
<1>4. Nat \subseteq Q
  <2> HIDE DEF Q
  <2> QED BY <1>2, <1>3, NatSetInduction
<1>5. DaysTo(n + k) >= DaysTo(n)
  BY <1>4
<1>6. n + k \in Nat
  OBVIOUS
<1> QED BY <1>1, <1>5, <1>6, DaysStep

LEMMA OrdinalIs ==
  ASSUME NEW d, ValidDate(d)
  PROVE  Ordinal(d) = DaysTo(d[1]) + d[2] /\ Ordinal(d) \in Int
<1>1. d[1] \in Nat /\ d[2] \in Nat
  BY DEF ValidDate
<1>2. Ordinal(d) = DaysTo(d[1]) + d[2]
  BY DEF Ordinal, DaysTo
<1> QED BY <1>1, <1>2, DaysStep

\* Months added lead to a later day of the calendar.
LEMMA AddMonthsLater ==
  ASSUME NEW d, ValidDate(d), NEW k \in Nat \ {0}
  PROVE  /\ ValidDate(AddMonths(d, k)) /\ Ordinal(d) < Ordinal(AddMonths(d, k))
         /\ AddMonths(d, k)[1] = d[1] + k
         /\ d[2] <= LengthOf(d[1] + k) => AddMonths(d, k)[2] = d[2]
<1> DEFINE m == d[1] + k
           l == LengthOf(m)
           day == Min({d[2], l})
<1>1. d[1] \in Nat /\ d[2] \in Nat /\ d[2] >= 1 /\ d[2] <= LengthOf(d[1]) /\ LengthOf(d[1]) \in Nat
  BY LengthIs DEF ValidDate
<1>2. m \in Nat /\ m = (d[1] + 1) + (k - 1) /\ k - 1 \in Nat /\ d[1] + 1 \in Nat
  BY <1>1
<1>3. l \in Nat /\ l >= 1
  BY <1>2, LengthIs
<1>4. day \in {d[2], l} /\ day <= d[2] /\ day <= l
  <2>1. {d[2], l} \subseteq Nat /\ {d[2], l} # {}
    BY <1>1, <1>3
  <2> HIDE DEF l
  <2> QED BY <2>1, MinIn
<1>5. AddMonths(d, k) = <<m, day>>
  BY DEF AddMonths
<1>6. AddMonths(d, k)[1] = m /\ AddMonths(d, k)[2] = day /\ AddMonths(d, k) \in Nat \X Nat
  <2>1. day \in Nat
    BY <1>1, <1>3, <1>4
  <2> HIDE DEF m, day
  <2> QED BY <1>2, <1>5, <2>1
<1>7. ValidDate(AddMonths(d, k))
  BY <1>1, <1>3, <1>4, <1>6 DEF ValidDate
<1>8. Ordinal(d) < Ordinal(AddMonths(d, k))
  <2>1. Ordinal(AddMonths(d, k)) = DaysTo(m) + day /\ Ordinal(d) = DaysTo(d[1]) + d[2]
    BY <1>6, <1>7, OrdinalIs
  <2>2. DaysTo(d[1] + 1) = DaysTo(d[1]) + LengthOf(d[1]) /\ DaysTo(d[1]) \in Int
    BY <1>1, DaysStep
  <2>3. DaysTo(m) >= DaysTo(d[1] + 1) /\ DaysTo(m) \in Int
    BY <1>2, DaysLater
  <2> HIDE DEF m, l, day
  <2>4. day >= 1 /\ day \in Nat
    BY <1>1, <1>3, <1>4
  <2> QED BY <1>1, <2>1, <2>2, <2>3, <2>4
<1>9. d[2] <= LengthOf(d[1] + k) => day = d[2]
  <2> HIDE DEF day
  <2> QED BY <1>1, <1>3, <1>4
<1> QED BY <1>6, <1>7, <1>8, <1>9

\* The window whose training begins at cursor.
WindowOf(cursor, w) ==
  [cursor |-> cursor,
   train |-> <<Ordinal(cursor), Ordinal(AddMonths(cursor, w.train))>>,
   test |-> <<Ordinal(AddMonths(cursor, w.train)) + 1, Ordinal(AddMonths(AddMonths(cursor, w.train), w.test))>>]

\* Each window follows from the one before it, and ends within the walk.
WindowOK(list, i, w) ==
  /\ ValidDate(list[i].cursor) /\ list[i] = WindowOf(list[i].cursor, w)
  /\ list[i].cursor = IF i = 1 THEN w.start ELSE AddMonths(list[i - 1].cursor, w.step)
  /\ list[i].test[2] <= Ordinal(w.end)

WalkInv ==
  /\ request = NoRequest /\ walk \in Walks /\ stage \in {"walk", "end"} /\ study = EmptyMatrix
  /\ DOMAIN walked = 1..Len(walked) /\ Len(walked) \in Nat /\ walked \in Seq(Range(walked))
  /\ \A i \in 1..Len(walked) : WindowOK(walked, i, walk)

LEMMA WalkStarts ==
  ASSUME PipeBegin, stage = "walk", request = NoRequest, walk \in Walks
  PROVE  WalkInv
<1>1. walked = <<>> /\ study = EmptyMatrix
  BY DEF PipeBegin
<1>2. DOMAIN <<>> = 1..0 /\ Len(<<>>) = 0 /\ (\A S : <<>> \in Seq(S)) /\ 1..0 = {}
  OBVIOUS
<1> QED BY <1>1, <1>2 DEF WalkInv

LEMMA WalkIs ==
  ASSUME NEW w \in Walks
  PROVE  w.step \in Nat \ {0} /\ w.train \in Nat \ {0} /\ w.test \in Nat \ {0} /\ ValidDate(w.start)
BY WalksAssumption DEF WalksAssumption, ValidDate

LEMMA CursorIs ==
  ASSUME WalkInv
  PROVE  /\ ValidDate(Cursor) /\ walk \in Walks
         /\ Cursor = IF Len(walked) = 0 THEN walk.start ELSE AddMonths(walked[Len(walked)].cursor, walk.step)
<1>1. walk \in Walks /\ Len(walked) \in Nat /\ walked \in Seq(Range(walked))
  BY DEF WalkInv
<1>2. walked = <<>> <=> Len(walked) = 0
  BY <1>1
<1>3. Cursor = IF Len(walked) = 0 THEN walk.start ELSE AddMonths(walked[Len(walked)].cursor, walk.step)
  BY <1>2 DEF Cursor, Last
<1>4. CASE Len(walked) = 0
  BY <1>1, <1>3, <1>4, WalkIs
<1>5. CASE Len(walked) # 0
  <2>1. Len(walked) \in 1..Len(walked)
    BY <1>1, <1>5
  <2>2. ValidDate(walked[Len(walked)].cursor)
    BY <2>1 DEF WalkInv, WindowOK
  <2> QED BY <1>1, <1>3, <1>5, <2>2, WalkIs, AddMonthsLater
<1> QED BY <1>4, <1>5, <1>1, <1>3

\* One more window.
LEMMA NextWindowKeeps ==
  ASSUME WalkInv, NextWindow
  PROVE  WalkInv'
<1> DEFINE n == Len(walked)
           w == WindowOf(Cursor, walk)
<1>1. /\ n \in Nat /\ walked \in Seq(Range(walked)) /\ walk \in Walks /\ stage = "walk"
      /\ Ordinal(TestEnd) <= Ordinal(walk.end) /\ walked' = Append(walked, w)
      /\ UNCHANGED <<request, stage, study, walk>>
  BY DEF WalkInv, NextWindow, WindowOf, TestEnd, TrainEnd, FirstTestDay
<1>2. /\ w.cursor = Cursor /\ w.test[2] = Ordinal(TestEnd)
  BY DEF WindowOf, TestEnd, TrainEnd
<1> HIDE DEF w
<1>3. /\ walked' \in Seq(Range(walked) \cup {w}) /\ Len(walked') = n + 1 /\ walked'[n + 1] = w
      /\ \A i \in 1..n : walked'[i] = walked[i]
  <2>1. walked \in Seq(Range(walked) \cup {w})
    <3>1. \A S, T : \A q \in Seq(S) : S \subseteq T => q \in Seq(T)
      OBVIOUS
    <3> QED BY <1>1, <3>1
  <2> QED BY <1>1, <2>1, AppendProperties
<1>4. DOMAIN walked' = 1..Len(walked') /\ Len(walked') \in Nat /\ walked' \in Seq(Range(walked'))
  <2>1. \A S : \A q \in Seq(S) : DOMAIN q = 1..Len(q) /\ Len(q) \in Nat /\ q = [k \in 1..Len(q) |-> q[k]]
    OBVIOUS
  <2>2. DOMAIN walked' = 1..Len(walked') /\ Len(walked') \in Nat /\ walked' = [k \in 1..Len(walked') |-> walked'[k]]
    BY <1>3, <2>1
  <2>3. \A k \in 1..Len(walked') : walked'[k] \in Range(walked')
    BY <2>2 DEF Range
  <2> QED BY <2>2, <2>3
<1>5. ASSUME NEW i \in 1..(n + 1)
      PROVE  WindowOK(walked', i, walk)
  <2>1. CASE i \in 1..n
    <3>1. WindowOK(walked, i, walk)
      BY <2>1 DEF WalkInv
    <3>2. walked'[i] = walked[i] /\ (i # 1 => walked'[i - 1] = walked[i - 1])
      BY <1>1, <1>3, <2>1
    <3> QED BY <3>1, <3>2 DEF WindowOK
  <2>2. CASE i = n + 1
    <3>1. walked'[i] = w /\ (i # 1 => walked'[i - 1] = walked[n] /\ n # 0) /\ (i = 1 => n = 0)
      BY <1>1, <1>3, <2>2
    <3>2. ValidDate(Cursor) /\ Cursor = IF n = 0 THEN walk.start ELSE AddMonths(walked[n].cursor, walk.step)
      BY CursorIs
    <3>3. w = WindowOf(w.cursor, walk)
      BY <1>2 DEF w
    <3> HIDE DEF n
    <3> QED BY <1>1, <1>2, <3>1, <3>2, <3>3 DEF WindowOK
  <2> QED BY <1>1, <2>1, <2>2
<1> QED BY <1>1, <1>3, <1>4, <1>5 DEF WalkInv

LEMMA EndWalkKeeps ==
  ASSUME WalkInv, EndWalk
  PROVE  WalkInv'
<1>1. stage' = "end" /\ UNCHANGED <<request, study, walk, walked>>
  BY DEF EndWalk
<1> QED BY <1>1 DEF WalkInv, WindowOK

\* With the day of the start in every month the cursor keeps it.
LEMMA DayKept ==
  ASSUME WalkInv, \A l \in Range(MonthLengths) : walk.start[2] <= l
  PROVE  \A i \in 1..Len(walked) : walked[i].cursor[2] = walk.start[2]
<1> DEFINE Q == {i \in Nat : i + 1 \in 1..Len(walked) => walked[i + 1].cursor[2] = walk.start[2]}
<1>1. Len(walked) \in Nat /\ walk \in Walks /\ \A i \in 1..Len(walked) : WindowOK(walked, i, walk)
  BY DEF WalkInv
<1>2. 0 \in Q
  <2>1. 0 + 1 \in 1..Len(walked) => walked[0 + 1].cursor = walk.start
    <3>1. 0 + 1 = 1
      OBVIOUS
    <3> QED BY <1>1, <3>1 DEF WindowOK
  <2> QED BY <2>1
<1>3. ASSUME NEW i \in Nat, i \in Q PROVE i + 1 \in Q
  <2>1. SUFFICES ASSUME (i + 1) + 1 \in 1..Len(walked)
                 PROVE  walked[(i + 1) + 1].cursor[2] = walk.start[2]
    OBVIOUS
  <2>2. i + 1 \in 1..Len(walked) /\ (i + 1) + 1 # 1 /\ ((i + 1) + 1) - 1 = i + 1
    BY <1>1, <2>1
  <2>3. walked[(i + 1) + 1].cursor = AddMonths(walked[i + 1].cursor, walk.step) /\ ValidDate(walked[i + 1].cursor)
    BY <1>1, <2>1, <2>2 DEF WindowOK
  <2>4. walked[i + 1].cursor[2] = walk.start[2]
    BY <1>3, <2>2
  <2>5. walked[i + 1].cursor[1] + walk.step \in Nat
    BY <1>1, <2>3, WalkIs DEF ValidDate
  <2>6. walked[i + 1].cursor[2] <= LengthOf(walked[i + 1].cursor[1] + walk.step)
    BY <2>4, <2>5, LengthIs
  <2>7. walk.step \in Nat \ {0}
    BY <1>1, WalkIs
  <2>8. AddMonths(walked[i + 1].cursor, walk.step)[2] = walked[i + 1].cursor[2]
    BY <2>3, <2>6, <2>7, AddMonthsLater
  <2> QED BY <2>3, <2>4, <2>8
<1>4. Nat \subseteq Q
  <2> HIDE DEF Q
  <2> QED BY <1>2, <1>3, NatSetInduction
<1>5. ASSUME NEW i \in 1..Len(walked) PROVE walked[i].cursor[2] = walk.start[2]
  <2>1. i - 1 \in Nat /\ (i - 1) + 1 = i
    BY <1>1
  <2>2. i - 1 \in Q
    BY <1>4, <2>1
  <2> QED BY <2>1, <2>2
<1> QED BY <1>5

\* Windows test what comes after their training, and tile when months are long enough.
LEMMA WindowsMean ==
  ASSUME WalkInv
  PROVE  WindowsSound
<1>1. Len(walked) \in Nat /\ walk \in Walks /\ DOMAIN walked = 1..Len(walked)
      /\ \A i \in 1..Len(walked) : WindowOK(walked, i, walk)
  BY DEF WalkInv
<1>2. walk.step \in Nat \ {0} /\ walk.train \in Nat \ {0} /\ walk.test \in Nat \ {0} /\ ValidDate(walk.start)
  BY <1>1, WalkIs
<1>3. ASSUME NEW i \in 1..Len(walked)
      PROVE  LET c == walked[i].cursor
                 z == AddMonths(c, walk.train)
             IN  /\ ValidDate(c) /\ ValidDate(z) /\ Ordinal(c) < Ordinal(z) /\ Ordinal(z) < Ordinal(AddMonths(z, walk.test))
                 /\ Ordinal(c) \in Int /\ Ordinal(z) \in Int /\ Ordinal(AddMonths(z, walk.test)) \in Int
                 /\ walked[i].train[1] = Ordinal(c) /\ walked[i].train[2] = Ordinal(z)
                 /\ walked[i].test[1] = Ordinal(z) + 1 /\ walked[i].test[2] = Ordinal(AddMonths(z, walk.test))
                 /\ walked[i].test[2] <= Ordinal(walk.end)
  <2> DEFINE c == walked[i].cursor
             z == AddMonths(c, walk.train)
             u == AddMonths(z, walk.test)
  <2>1. ValidDate(c) /\ walked[i] = WindowOf(c, walk) /\ walked[i].test[2] <= Ordinal(walk.end)
    BY <1>1 DEF WindowOK
  <2>2. ValidDate(z) /\ Ordinal(c) < Ordinal(z)
    BY <1>2, <2>1, AddMonthsLater
  <2>3. ValidDate(u) /\ Ordinal(z) < Ordinal(u)
    BY <1>2, <2>2, AddMonthsLater
  <2>4. Ordinal(c) \in Int /\ Ordinal(z) \in Int /\ Ordinal(u) \in Int
    BY <2>1, <2>2, <2>3, OrdinalIs
  <2>5. /\ WindowOf(c, walk).train[1] = Ordinal(c) /\ WindowOf(c, walk).train[2] = Ordinal(z)
        /\ WindowOf(c, walk).test[1] = Ordinal(z) + 1 /\ WindowOf(c, walk).test[2] = Ordinal(u)
    BY DEF WindowOf
  <2> QED BY <2>1, <2>2, <2>3, <2>4, <2>5
<1>4. ASSUME NEW i \in DOMAIN walked
      PROVE  /\ walked[i].train[1] < walked[i].train[2] /\ walked[i].train[2] < walked[i].test[1]
             /\ walked[i].test[1] <= walked[i].test[2] /\ walked[i].test[2] <= Ordinal(walk.end)
  <2>1. i \in 1..Len(walked)
    BY <1>1
  <2>2. \A x, y, z \in Int : x < y /\ y < z => y < y + 1 /\ y + 1 <= z
    OBVIOUS
  <2> QED BY <1>3, <2>1, <2>2
<1>5. ASSUME \A l \in Range(MonthLengths) : walk # NoWalk => walk.start[2] <= l,
             NEW i \in 2..Len(walked), walk.step = walk.test
      PROVE  walked[i].test[1] = walked[i - 1].test[2] + 1
  <2> DEFINE p == i - 1
             s == AddMonths(walked[p].cursor, walk.train)
             z == AddMonths(walked[i].cursor, walk.train)
             u == AddMonths(s, walk.test)
             day == walk.start[2]
  <2>1. walk # NoWalk
    <3>1. walk.start \in Nat \X Nat
      BY <1>2 DEF ValidDate
    <3>2. \A a, b \in Nat : <<a, b>> # <<>>
      OBVIOUS
    <3>3. walk.start # <<>>
      BY <3>1, <3>2
    <3> QED BY <3>3 DEF NoWalk
  <2>2. i \in 1..Len(walked) /\ p \in 1..Len(walked) /\ i # 1
    BY <1>1
  <2>3. \A l \in Range(MonthLengths) : day <= l
    BY <1>5, <2>1
  <2>4. walked[i].cursor[2] = day /\ walked[p].cursor[2] = day
    BY <2>2, <2>3, DayKept
  <2>5. walked[i].cursor = AddMonths(walked[p].cursor, walk.test) /\ ValidDate(walked[p].cursor) /\ ValidDate(walked[i].cursor)
    BY <1>1, <1>5, <2>2 DEF WindowOK
  <2> HIDE DEF p, day
  <2>6. ASSUME NEW d, ValidDate(d), d[2] = day, NEW k \in Nat \ {0}
        PROVE  ValidDate(AddMonths(d, k)) /\ AddMonths(d, k)[1] = d[1] + k /\ AddMonths(d, k)[2] = day
    <3>1. d[1] + k \in Nat
      BY <2>6 DEF ValidDate
    <3>2. d[2] <= LengthOf(d[1] + k)
      BY <2>3, <2>6, <3>1, LengthIs
    <3> QED BY <2>6, <3>2, AddMonthsLater
  <2>7. walked[i].cursor[1] = walked[p].cursor[1] + walk.test
    <3>1. AddMonths(walked[p].cursor, walk.test)[1] = walked[p].cursor[1] + walk.test
      BY <1>2, <2>4, <2>5, <2>6
    <3> QED BY <2>5, <3>1
  <2>8. ValidDate(s) /\ s[1] = walked[p].cursor[1] + walk.train /\ s[2] = day
    BY <1>2, <2>4, <2>5, <2>6
  <2>9. ValidDate(z) /\ z[1] = walked[i].cursor[1] + walk.train /\ z[2] = day
    BY <1>2, <2>4, <2>5, <2>6
  <2> HIDE DEF s, z
  <2>10. ValidDate(u) /\ u[1] = s[1] + walk.test /\ u[2] = day
    BY <1>2, <2>6, <2>8
  <2> HIDE DEF u
  <2>11. z = u
    <3>1. z[1] = u[1] /\ z[2] = u[2]
      <4>1. walked[p].cursor[1] \in Nat /\ walked[i].cursor[1] \in Nat
        BY <2>5 DEF ValidDate
      <4>2. \A a, x, y \in Nat : (a + x) + y = (a + y) + x
        OBVIOUS
      <4>3. z[1] = (walked[p].cursor[1] + walk.test) + walk.train
        BY <2>7, <2>9
      <4>4. u[1] = (walked[p].cursor[1] + walk.train) + walk.test
        BY <2>8, <2>10
      <4>5. z[1] = u[1]
        BY <1>2, <4>1, <4>2, <4>3, <4>4
      <4> QED BY <2>9, <2>10, <4>5
    <3>2. \A x, y \in Nat \X Nat : x[1] = y[1] /\ x[2] = y[2] => x = y
      OBVIOUS
    <3> QED BY <2>9, <2>10, <3>1, <3>2 DEF ValidDate
  <2>12. walked[i].test[1] = Ordinal(z) + 1 /\ walked[p].test[2] = Ordinal(u)
    BY <1>3, <2>2 DEF s, z, u
  <2> QED BY <2>11, <2>12 DEF p
<1> QED BY <1>4, <1>5 DEF WindowsSound

\* The pipeline is at its run or at its walk.
PipeInv == RunInv \/ WalkInv

LEMMA PipeStarts == PipeInit => PipeInv
BY RunStarts, WalkStarts DEF PipeInit, PipeInv

LEMMA PipeInvKept ==
  ASSUME PipeInv, PipeNext
  PROVE  PipeInv'
<1>1. CASE RunInv
  <2>1. stage # "walk"
    BY <1>1 DEF RunInv
  <2>2. RunEngine \/ FileCell \/ Judge \/ SaveReport \/ RecordVerdict
    BY <2>1 DEF PipeNext, NextWindow, EndWalk
  <2> QED BY <1>1, <2>2, RunEngineKeeps, FileCellKeeps, JudgeKeeps, SaveKeeps, RecordVerdictKeeps DEF PipeInv
<1>2. CASE WalkInv
  <2>1. stage \in {"walk", "end"}
    BY <1>2 DEF WalkInv
  <2>2. NextWindow \/ EndWalk
    BY <2>1 DEF PipeNext, RunEngine, FileCell, Judge, SaveReport, RecordVerdict
  <2> QED BY <1>2, <2>2, NextWindowKeeps, EndWalkKeeps DEF PipeInv
<1> QED BY <1>1, <1>2 DEF PipeInv

LEMMA PipeMeans ==
  ASSUME PipeInv
  PROVE  PassEarned /\ TwinApart /\ NothingOmitted /\ GrantedByReport /\ WindowsSound
<1>1. CASE RunInv
  <2>1. WindowsSound
    <3>1. walked = <<>> /\ DOMAIN <<>> = {} /\ Len(<<>>) = 0 /\ 2..0 = {}
      BY <1>1 DEF RunInv
    <3> QED BY <3>1 DEF WindowsSound
  <2> QED BY <1>1, <2>1, PassMeans, TwinMeans, OmittedMeans, GrantedMeans
<1>2. CASE WalkInv
  <2>1. request = NoRequest /\ study.segments = <<>> /\ study.comparisons = <<>> /\ DOMAIN <<>> = {}
    BY <1>2 DEF WalkInv, EmptyMatrix
  <2> QED BY <1>2, <2>1, WindowsMean DEF PassEarned, Judged, TwinApart, NothingOmitted, GrantedByReport
<1> QED BY <1>1, <1>2 DEF PipeInv
-----------------------------------------------------------------------------
(* The parts together.                                                      *)

ResearchInv ==
  /\ part = "gateway" => GatewayInv
  /\ part = "catalog" => CatalogInv
  /\ part = "selector" => SelectInv
  /\ part = "pipeline" => PipeInv

LEMMA ResearchStarts == ResearchInit => ResearchInv
BY GatewayStarts, CatalogStarts, SelectStarts, PipeStarts DEF ResearchInit, ResearchInv

LEMMA PartAlone ==
  ASSUME ResearchNext
  PROVE  /\ part' = part
         /\ part = "gateway" => GatewayNext
         /\ part = "catalog" => CatalogNext
         /\ part = "selector" => SelectNext
         /\ part = "pipeline" => PipeNext
BY DEF ResearchNext, OthersStill

LEMMA ResearchStutters ==
  ASSUME ResearchInv, UNCHANGED researchVars
  PROVE  ResearchInv'
<1>1. /\ UNCHANGED <<part, source, scanned, violations, trial_lines, engines, current, base>>
      /\ UNCHANGED <<chain, call, choice>>
      /\ UNCHANGED <<request, stage, views, frictions, gates, study, saved, promotion, walk, walked>>
  BY DEF researchVars, gatewayVars, catalogVars, selectVars, pipeVars
<1>2. GatewayInv => GatewayInv'
  BY <1>1 DEF GatewayInv
<1>3. CatalogInv => CatalogInv'
  BY <1>1 DEF CatalogInv, FlagOK, EngineOK, CurrentOK
<1>4. SelectInv => SelectInv'
  BY <1>1 DEF SelectInv
<1>5. PipeInv => PipeInv'
  <2>1. RunInv => RunInv'
    BY <1>1 DEF RunInv, MatrixInv, CellInv, RecordInv
  <2>2. WalkInv => WalkInv'
    BY <1>1 DEF WalkInv
  <2> QED BY <2>1, <2>2 DEF PipeInv
<1> QED BY <1>1, <1>2, <1>3, <1>4, <1>5 DEF ResearchInv

\* Every reachable state of the research side satisfies the invariant of the part at work.
THEOREM ResearchInvariant == ResearchSpec => []ResearchInv
<1>1. ResearchInit => ResearchInv
  BY ResearchStarts
<1>2. ResearchInv /\ [ResearchNext]_researchVars => ResearchInv'
  <2>1. ASSUME ResearchInv, ResearchNext PROVE ResearchInv'
    BY <2>1, PartAlone, GatewayInvKept, CatalogInvKept, SelectInvKept, PipeInvKept DEF ResearchInv
  <2> QED BY <2>1, ResearchStutters
<1> QED BY <1>1, <1>2, PTL DEF ResearchSpec

\* For any modules and files, no import of a raw data module or a backend class goes
\* unreported and nothing else is reported; for any classes, specs and edits of edge.yaml,
\* every engine has a trial line of its own that states what it got, and a flagged trial
\* repeats the one it is flagged with.
THEOREM HonestKept == ResearchSpec => []ResearchHonest
<1>1. ResearchInv => ResearchHonest
  BY GatewayMeans, CatalogMeans DEF ResearchInv, ResearchHonest
<1> QED BY <1>1, ResearchInvariant, PTL

\* For any chain: its order decides nothing but between rows the sort key cannot tell
\* apart, no contract of the rung is nearer the target than the one bought, and the median
\* excursion brings back more than the contract costs.
THEOREM SelectionKept == ResearchSpec => []SelectionSound
<1>1. ResearchInv => SelectionSound
  BY SelectMeans DEF ResearchInv, SelectionSound
<1> QED BY <1>1, ResearchInvariant, PTL

\* For any requests and answers of the engines: a CANDIDATE ran on the reference engine in
\* all six cells, beat the baseline on days nobody trained on, and no engine that answered
\* contradicts a cell; frictions, gate counts and failures are filed with the cell they
\* belong to, the record follows the saved report, and for any calendar of months and any
\* walk every window tests days after its training and none beyond the end.
THEOREM VerdictKept == ResearchSpec => []VerdictSound
<1>1. ResearchInv => VerdictSound
  BY PipeMeans DEF ResearchInv, VerdictSound
<1> QED BY <1>1, ResearchInvariant, PTL

=============================================================================
