---------------------------- MODULE DataGateway ----------------------------
(***************************************************************************)
(* edge/validation/gateway.py: the scan that keeps research code away from *)
(* the raw data modules.  A module name is the sequence of its parts, a    *)
(* file its package and the nodes the walk meets in it.                    *)
(***************************************************************************)
EXTENDS Integers, Sequences, FiniteSets, SequencesExt

CONSTANTS Modules,    \* the modules that exist
          Sources     \* the files to scan

ROOT_PACKAGE == "edge"
DataPackage == <<ROOT_PACKAGE, "data">>
Loader == Append(DataPackage, "loader")
BACKEND_NAMES == {"DataBackend", "SyntheticBackend", "FeedsBackend"}
DYNAMIC == {"importlib", "__import__", "exec", "eval"}

\* A part of a module name.
Word == STRING

\* The loader is a module, not a package; a name is no wildcard, and only a from-import
\* takes names from what it imports.
ASSUME GatewayAssumption ==
    /\ {ROOT_PACKAGE, "data", "loader", "catalyst"} \subseteq Word
    /\ Modules \subseteq Seq(Word) /\ <<>> \notin Modules /\ <<"..">> \notin Modules
    /\ \A m \in Modules : ~IsStrictPrefix(Loader, m) /\ \A k \in DOMAIN m : m[k] # "*"
    /\ \A f \in Sources :
         /\ f.package \in Seq(Word) /\ f.parses \in BOOLEAN
         /\ f.nodes \in Seq([form : {"import", "from", "name"}, level : Nat, module : Seq(Word), name : Word])
         /\ \A i \in DOMAIN f.nodes : f.nodes[i].form = "import" => f.nodes[i].name = ""

VARIABLES source, scanned, violations

gatewayVars == <<source, scanned, violations>>

\* The sanctioned path is compared by its beginning.
BannedModuleLoosely(resolved) ==
    resolved # <<>> /\
    \/ Head(resolved) \in {"catalyst", "importlib"}
    \/ IsStrictPrefix(DataPackage, resolved) /\ resolved[3] \notin {"loader", "feeds"}

\* _banned_module: catalyst, importlib, anything below data but the loader.
BannedModule(resolved) ==
    resolved # <<>> /\
    \/ Head(resolved) \in {"catalyst", "importlib"}
    \/ IsStrictPrefix(DataPackage, resolved) /\ ~IsPrefix(Loader, resolved)

Escapes == <<"..">>

\* One level too many is stripped.
FromBaseShort(node, package) ==
    IF node.level = 0 THEN node.module
    ELSE IF node.level > Len(package) THEN Escapes
    ELSE SubSeq(package, 1, Len(package) - node.level) \o node.module

\* _resolve_from_base: None for a relative import past the root.
FromBase(node, package) ==
    IF node.level = 0 THEN node.module
    ELSE IF node.level - 1 > Len(package) THEN Escapes
    ELSE SubSeq(package, 1, Len(package) - (node.level - 1)) \o node.module

\* One node of the walk.
NodeHit(node, package) ==
    CASE node.form = "import" -> BannedModule(node.module)
      [] node.form = "name" -> node.name \in DYNAMIC \cup {"sys.modules"}
      [] OTHER ->
           LET base == FromBase(node, package)
           IN  /\ base # Escapes
               /\ \/ BannedModule(base)
                  \/ base \in {Loader, DataPackage} /\ node.name \in BACKEND_NAMES \cup {"*"}
                  \/ node.name # "*" /\ BannedModule(Append(base, node.name))

\* _scan_file: what cannot be parsed cannot be certified.
ScanFile(file) ==
    IF file.parses THEN {i \in DOMAIN file.nodes : NodeHit(file.nodes[i], file.package)} ELSE {0}

Exempt(file) == IsPrefix(DataPackage, file.package)

GatewayInit == source \in Sources /\ scanned = FALSE /\ violations = {}
GatewayRest == source = [package |-> <<>>, parses |-> TRUE, nodes |-> <<>>] /\ scanned = FALSE /\ violations = {}

\* scan_research_side on one file.
ScanResearchSide ==
    /\ ~scanned /\ scanned' = TRUE /\ UNCHANGED source
    /\ violations' = IF Exempt(source) THEN {} ELSE ScanFile(source)
GatewayNext == ScanResearchSide
----------------------------------------------------------------------------
(* What Python does with an import.                                        *)

\* A relative import needs as many packages as it has dots; every package on the
\* way is loaded, and a name that is a submodule is loaded too.
Target(node, package) ==
    IF node.form = "import" THEN node.module
    ELSE IF node.level > Len(package) THEN Escapes
    ELSE IF node.level = 0 THEN node.module
    ELSE SubSeq(package, 1, Len(package) + 1 - node.level) \o node.module
Loaded(node, package) ==
    LET target == Target(node, package)
    IN  IF target \notin Modules THEN {}
        ELSE {m \in Modules : IsPrefix(m, target)}
             \cup (IF node.form = "from" THEN {Append(target, node.name)} \cap Modules ELSE {})
Raw(module) == IsPrefix(<<"catalyst">>, module) \/ (IsStrictPrefix(DataPackage, module) /\ module # Loader)

\* "no plain import, from-import, or relative import in research-side code can
\* reach a raw data module without scan_research_side reporting it", nor get hold
\* of a backend class; an import that reaches neither is left alone, unless it is of
\* importlib or takes a name of the data package itself.
GatewayExact ==
    scanned /\ ~Exempt(source) =>
        IF ~source.parses THEN violations # {}
        ELSE \A i \in DOMAIN source.nodes :
               LET node == source.nodes[i]
                   loads == Loaded(node, source.package)
                   backend == node.name \in BACKEND_NAMES \cup {"*"} /\ Target(node, source.package) \in {Loader, DataPackage}
                   reaches == backend \/ \E m \in loads : Raw(m)
               IN  node.form # "name" /\ loads # {} =>
                     /\ reaches => i \in violations
                     /\ i \in violations =>
                          \/ reaches \/ Target(node, source.package) = DataPackage
                          \/ Head(Target(node, source.package)) = "importlib"
=============================================================================
