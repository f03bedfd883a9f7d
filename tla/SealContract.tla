----------------------------- MODULE SealContract -----------------------------
(***************************************************************************)
(* What a sealed bundle promises to the consumers of it: the linkage list  *)
(* (source_target_csv in core/rewrite.py), the seal over all exports       *)
(* (core/integrity.py), and what the loader asks of each file              *)
(* (core/indexing.py).                                                     *)
(*                                                                         *)
(* The content of a file is a record, and stands for its digest and size   *)
(* too.  A seal is a record                                                *)
(*   schema     "v2", or "legacy" for a list of paths                      *)
(*   run, source, final, audit, graph, ontology                            *)
(*   artifacts  key -> [path, digest]                                      *)
(***************************************************************************)
EXTENDS ReviewGraph

\* No file at a path, or no seal.
NoFile == [missing |-> TRUE]

Key == {"source", "final", "audit", "graph", "ontology"}

CanonicalPath == [source |-> "original.md", final |-> "final.md", audit |-> "audit.json",
                  graph |-> "graph.jsonl", ontology |-> "ontology.json",
                  links |-> "source-to-target.csv"]

\* A run without a draft has no mapping, which is not a mapping without targets.
NoMapping == [none |-> TRUE]

\* What documents/original* finds.
Originals == {"original.md", "original.pdf"}

-----------------------------------------------------------------------------
(* The list that links the sections of the source to those of the result.  *)

Link(source, target, final) ==
    [source |-> source, target |-> target, heading |-> target, digest |-> final]

\* Without a mapping every section is its own target.  With one, a target has the
\* sections whose spans it cites or was given, and a section without a target is
\* listed alone.
SourceTargetRows(review, mapping, final) ==
    LET sections == ToSet(review.sections)
        spansOf(t) == t.spans \cup {d.span : d \in {e \in mapping.dispositions : t.id \in e.dest}}
        sourcesOf(t) == {s \in sections : s.spans \cap spansOf(t) # {}}
    IN  IF mapping = NoMapping THEN {Link(s.id, s.id, final) : s \in sections}
        ELSE (UNION {{Link(s.id, t.id, final) : s \in sourcesOf(t)} : t \in mapping.targets})
             \cup {Link("", t.id, final) : t \in {u \in mapping.targets : sourcesOf(u) = {}}}
             \cup {Link(s.id, "", final) :
                    s \in sections \ UNION {sourcesOf(t) : t \in mapping.targets}}

-----------------------------------------------------------------------------
(* The seal *)

\* The record of a run maps every key to the reference of its file.
Registry(contents) ==
    [k \in DOMAIN contents |-> [path |-> CanonicalPath[k], digest |-> contents[k]]]

PathsUnique(artifacts) ==
    \A k, l \in DOMAIN artifacts : artifacts[k].path = artifacts[l].path => k = l

\* validate_seal_manifest without the files.
SealValid(seal) ==
    /\ seal # NoFile
    /\ seal.schema = "v2"
    /\ Key \subseteq DOMAIN seal.artifacts
    /\ PathsUnique(seal.artifacts)
    /\ seal.source = seal.artifacts["source"].digest
    /\ seal.final = seal.artifacts["final"].digest
    /\ seal.audit = seal.artifacts["audit"].digest
    /\ seal.graph = seal.artifacts["graph"].digest
    /\ seal.ontology = seal.artifacts["ontology"].digest

BuildSeal(run, artifacts) ==
    [schema |-> "v2", run |-> run, source |-> artifacts["source"].digest,
     final |-> artifacts["final"].digest, audit |-> artifacts["audit"].digest,
     graph |-> artifacts["graph"].digest, ontology |-> artifacts["ontology"].digest,
     artifacts |-> artifacts]

\* A seal of the first format says where its files are, not what is in them.
LegacySeal(run, artifacts) ==
    [schema |-> "legacy", run |-> run, source |-> artifacts["source"].digest,
     final |-> artifacts["final"].digest, audit |-> artifacts["audit"].digest,
     paths |-> {artifacts[k].path : k \in DOMAIN artifacts}]

\* migrate_legacy_seal_manifest raises unless this holds of the references.
MigrationValid(legacy, artifacts) ==
    /\ legacy # NoFile
    /\ legacy.schema = "legacy"
    /\ Key \subseteq DOMAIN artifacts
    /\ \A k \in Key : artifacts[k].path \in legacy.paths
    /\ legacy.source = artifacts["source"].digest
    /\ legacy.final = artifacts["final"].digest
    /\ legacy.audit = artifacts["audit"].digest
    /\ SealValid(BuildSeal(legacy.run, artifacts))

-----------------------------------------------------------------------------
(* What the loader asks *)

\* Canonical paths only: the paths of Stage 1 are never among them.  The path of the
\* links is looked at when it is their turn to be read.
ManifestPathsValid(seal, run) ==
    /\ seal.run = run
    /\ \A k \in Key \ {"source"} : seal.artifacts[k].path = CanonicalPath[k]
    /\ seal.artifacts["source"].path \in Originals

LinksPathValid(seal) == seal.artifacts["links"].path = CanonicalPath["links"]

GraphValid(graph) ==
    /\ IsInjective(NodeIds(graph))
    /\ SemanticReferencesValid(graph)

\* A row of the first format has one id for source and target.
LinksValid(links, final, graph) ==
    /\ links.header \in {"v2", "legacy"}
    /\ \A r \in links.rows :
        /\ r.digest = final
        /\ r.source = "" \/ <<r.source, "">> \in ToSet(NodeIds(graph))
        /\ links.header = "v2" => (r.target = "") = (r.heading = "")

\* Checked when the artifact k has been read, after those before it.
ContentAccepted(k, data, seal) ==
    CASE k = "audit" -> data["audit"].status = "pass"
      [] k = "ontology" ->
            data["ontology"].markdown = seal.final /\ GraphValid(data["ontology"].graph)
      [] k = "graph" ->
            /\ GraphValid(data["graph"].graph)
            /\ ToSet(NodeIds(data["graph"].graph)) = ToSet(NodeIds(data["ontology"].graph))
            /\ data["graph"].graph.edges = data["ontology"].graph.edges
      [] k = "links" -> LinksValid(data["links"], seal.final, data["ontology"].graph)
      [] OTHER -> TRUE
=============================================================================
