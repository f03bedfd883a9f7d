----------------------------- MODULE SealedBundle -----------------------------
(***************************************************************************)
(* A bundle as the runner leaves it, the loader that reads it file by file *)
(* (load_sealed_bundle in core/indexing.py) and the SQLite index that      *)
(* indexing processes fill from what they loaded (CoreBundleIndex).        *)
(*                                                                         *)
(* Nothing locks the directory: while it is read, it may be replaced by    *)
(* another version of the bundle, one file at a time, lose files, or get   *)
(* a seal made for other paths.  An indexing process may be killed at any  *)
(* step.                                                                   *)
(***************************************************************************)
EXTENDS SealContract, FiniteSets

CONSTANTS
    Indexers,   \* processes that index the bundle
    Runs,       \* what a run may seal: [review, recipe, mapping, text, passes]
    Others,     \* the versions of the bundle that may replace it
    MaxChanges, \* bound on the changes to the directory
    MaxCalls    \* bound on the calls of one process

ASSUME BoundsAssumption == MaxChanges \in Nat /\ MaxCalls \in Nat

ASSUME ProcessAssumption == "nobody" \notin Indexers

VARIABLES
    run,      \* the run that made the bundle
    files,    \* path -> content
    seal,     \* json/12-seal.json
    changes,  \* changes of the directory so far
    calls,    \* process -> calls of index so far
    step,     \* process -> where its call is
    manifest, \* process -> the seal it read
    data,     \* process -> key -> the content it read
    exists,   \* does the database file exist?
    tables,   \* the tables it has
    rows,     \* table -> the committed rows of the bundle
    pending,  \* the open transaction [by, rows]
    indexed   \* has a call of index returned?

bundleVars == <<run, files, seal, changes>>
databaseVars == <<exists, tables, rows, pending, indexed>>
callVars == <<calls, step, manifest, data>>
vars == <<bundleVars, callVars, databaseVars>>

BundleName == "bundle"

Path == {CanonicalPath[k] : k \in DOMAIN CanonicalPath} \cup Originals

Table == {"bundles", "nodes", "edges", "chunks"}

NoRows == [none |-> TRUE]

Nobody == "nobody"

NoTransaction == [by |-> Nobody, rows |-> [t \in Table |-> NoRows]]

-----------------------------------------------------------------------------
(* What a run writes *)

Contents(r) ==
    LET final == [kind |-> "final", text |-> r.text]
        graph == SemanticGraph(r.review, r.recipe)
        status == IF r.passes /\ SemanticReferencesValid(graph) /\ GraphTypesValid(graph, r.recipe)
                  THEN "pass" ELSE "fail"
    IN  [source |-> [kind |-> "source", text |-> r.text],
         final |-> final,
         audit |-> [status |-> status, text |-> r.text],
         ontology |-> [kind |-> "ontology", graph |-> graph, markdown |-> final],
         graph |-> [kind |-> "jsonl", graph |-> graph],
         links |-> [header |-> "v2", rows |-> SourceTargetRows(r.review, r.mapping, final)]]

SealOf(r) == BuildSeal(BundleName, Registry(Contents(r)))

FilesOf(contents) ==
    [p \in Path |->
        IF \E k \in DOMAIN contents : CanonicalPath[k] = p
        THEN contents[CHOOSE k \in DOMAIN contents : CanonicalPath[k] = p] ELSE NoFile]

\* A failed audit leaves the bundle without a seal; an old bundle has an old one.
Init ==
    /\ run \in Runs
    /\ files = FilesOf(Contents(run))
    /\ \/ seal = IF Contents(run)["audit"].status = "pass" THEN SealOf(run) ELSE NoFile
       \/ seal = LegacySeal(BundleName, Registry(Contents(run)))
    /\ changes = 0
    /\ calls = [i \in Indexers |-> 0]
    /\ step = [i \in Indexers |-> <<"idle", 0>>]
    /\ manifest = [i \in Indexers |-> NoFile]
    /\ data = [i \in Indexers |-> <<>>]
    /\ exists = FALSE
    /\ tables = {}
    /\ rows = [t \in Table |-> NoRows]
    /\ pending = NoTransaction
    /\ indexed = FALSE

-----------------------------------------------------------------------------
(* The directory changes *)

\* The directory is replaced as a whole.
ReplaceBundle ==
    /\ changes < MaxChanges
    /\ \E v \in Others \cup {run} : files' = FilesOf(Contents(v)) /\ seal' = SealOf(v)
    /\ changes' = changes + 1
    /\ UNCHANGED <<run, callVars, databaseVars>>

\* A path gets the content another version has there, or loses what it has; the
\* document of another version may have another suffix.
ReplaceFile ==
    /\ changes < MaxChanges
    /\ \E p \in Path, v \in Others \cup {run} :
        \E content \in {NoFile, FilesOf(Contents(v))[IF p \in Originals THEN "original.md" ELSE p]} :
            /\ content # files[p]
            /\ files' = [files EXCEPT ![p] = content]
    /\ changes' = changes + 1
    /\ UNCHANGED <<run, seal, callVars, databaseVars>>

\* Seals that are no seal of this directory: of another version or another run,
\* without an artifact, or with a file of Stage 1 in place of the final document.
ReplaceSeal ==
    /\ changes < MaxChanges
    /\ \E v \in Others \cup {run} :
        LET s == SealOf(v) IN
        seal' \in {s, [s EXCEPT !.run = "other"], [s EXCEPT !.artifacts["final"].path = "draft.md"],
                   [s EXCEPT !.artifacts = [k \in Key \ {"graph"} |-> s.artifacts[k]]], NoFile}
    /\ changes' = changes + 1
    /\ UNCHANGED <<run, files, callVars, databaseVars>>

\* An old seal is upgraded from references made of the files as they are.
MigrateSeal ==
    LET found == {k \in DOMAIN CanonicalPath : files[CanonicalPath[k]] # NoFile}
        artifacts == Registry([k \in found |-> files[CanonicalPath[k]]])
    IN  /\ MigrationValid(seal, artifacts)
        /\ seal' = BuildSeal(seal.run, artifacts)
        /\ UNCHANGED <<run, files, changes, callVars, databaseVars>>

-----------------------------------------------------------------------------
(* load_sealed_bundle.  A step is a pair of a stage and a position. *)

ReadOrder == <<"source", "final", "audit", "ontology", "graph">>

Goto(i, stage, at) == step' = [step EXCEPT ![i] = <<stage, at>>]

Refuse(i) == Goto(i, "refused", 0)

\* What is verified and read, in this order; the list of links only if it is sealed.
Artifacts(m) == IF "links" \in DOMAIN m.artifacts THEN Append(ReadOrder, "links") ELSE ReadOrder

Verified(m, k) == files[m.artifacts[k].path] = m.artifacts[k].digest

Index(i) ==
    /\ step[i][1] \in {"idle", "refused", "failed", "done"}
    /\ calls[i] < MaxCalls
    /\ calls' = [calls EXCEPT ![i] = @ + 1]
    /\ Goto(i, "seal", 0)
    /\ manifest' = [manifest EXCEPT ![i] = NoFile]
    /\ data' = [data EXCEPT ![i] = <<>>]
    /\ UNCHANGED <<bundleVars, databaseVars>>

ReadSeal(i) ==
    /\ step[i][1] = "seal"
    /\ IF SealValid(seal) /\ ManifestPathsValid(seal, BundleName)
       THEN manifest' = [manifest EXCEPT ![i] = seal] /\ Goto(i, "verify", 1)
       ELSE Refuse(i) /\ UNCHANGED manifest
    /\ UNCHANGED <<bundleVars, calls, data, databaseVars>>

\* Every artifact of the registry, the ones no reader asks for included.
VerifyRegistered(i) ==
    LET at == step[i][2] IN
    /\ step[i][1] = "verify"
    /\ CASE at > Len(Artifacts(manifest[i])) -> Goto(i, "find", 0)
         [] at <= Len(Artifacts(manifest[i])) ->
                IF Verified(manifest[i], Artifacts(manifest[i])[at]) THEN Goto(i, "verify", at + 1)
                ELSE Refuse(i)
    /\ UNCHANGED <<bundleVars, calls, manifest, data, databaseVars>>

\* There is one document and the seal names it.
FindSource(i) ==
    /\ step[i][1] = "find"
    /\ IF {p \in Originals : files[p] # NoFile} = {manifest[i].artifacts["source"].path}
       THEN Goto(i, "check", 1) ELSE Refuse(i)
    /\ UNCHANGED <<bundleVars, calls, manifest, data, databaseVars>>

VerifyArtifact(i) ==
    LET at == step[i][2]
        m == manifest[i]
    IN  /\ step[i][1] = "check"
        /\ CASE at > Len(Artifacts(m)) -> Goto(i, "connect", 0)
             [] at <= Len(Artifacts(m)) ->
                    IF /\ Artifacts(m)[at] = "links" => LinksPathValid(m)
                       /\ Verified(m, Artifacts(m)[at])
                    THEN Goto(i, "read", at) ELSE Refuse(i)
        /\ UNCHANGED <<bundleVars, calls, manifest, data, databaseVars>>

\* Mutant: what was read is taken for what was verified.
UnchangedSinceVerified(reference, content) == content # NoFile

\* What was read is what the seal says, not only what was verified before it.
Unchanged(reference, content) == content = reference.digest

ReadArtifact(i) ==
    LET key == Artifacts(manifest[i])[step[i][2]]
        content == files[manifest[i].artifacts[key].path]
        read == [k \in DOMAIN data[i] \cup {key} |-> IF k = key THEN content ELSE data[i][k]]
    IN  /\ step[i][1] = "read"
        /\ IF Unchanged(manifest[i].artifacts[key], content) /\ ContentAccepted(key, read, manifest[i])
           THEN data' = [data EXCEPT ![i] = read] /\ Goto(i, "check", step[i][2] + 1)
           ELSE Refuse(i) /\ UNCHANGED data
        /\ UNCHANGED <<bundleVars, calls, manifest, databaseVars>>

-----------------------------------------------------------------------------
(* CoreBundleIndex.  The statements that create tables commit one by one;   *)
(* the first DELETE opens the transaction that the end of the block commits.*)

Tables == <<"bundles", "nodes", "edges", "chunks">>

Statements ==
    [k \in 1..13 |->
        CASE k \in 1..4 -> [op |-> "create", table |-> Tables[k]]
          [] k \in 5..8 -> [op |-> "delete", table |-> Tables[k - 4]]
          [] k \in 9..12 -> [op |-> "insert", table |-> Tables[k - 8]]
          [] k = 13 -> [op |-> "commit", table |-> "none"]]

\* The rows that a table gets for what a process loaded.
RowsOf(m, d, table) ==
    CASE table = "bundles" -> [run |-> m.run, source |-> m.source]
      [] table = "nodes" -> [nodes |-> d["ontology"].graph.nodes]
      [] table = "edges" -> [edges |-> d["ontology"].graph.edges]
      [] table = "chunks" -> d["final"]

Connect(i) ==
    /\ step[i][1] = "connect"
    /\ exists' = TRUE
    /\ Goto(i, "sql", 1)
    /\ UNCHANGED <<bundleVars, calls, manifest, data, tables, rows, pending, indexed>>

Statement(i) == Statements[step[i][2]]

NextStatement(i) == Goto(i, "sql", step[i][2] + 1)

\* No other connection holds the database for writing.
MayWrite(i) == pending.by \in {Nobody, i}

Create(i) ==
    /\ step[i][1] = "sql" /\ Statement(i).op = "create"
    /\ Statement(i).table \in tables \/ MayWrite(i)
    /\ tables' = tables \cup {Statement(i).table}
    /\ NextStatement(i)
    /\ UNCHANGED <<bundleVars, calls, manifest, data, exists, rows, pending, indexed>>

Write(i) ==
    /\ step[i][1] = "sql" /\ Statement(i).op \in {"delete", "insert"}
    /\ MayWrite(i)
    /\ LET before == IF pending.by = i THEN pending.rows ELSE rows
           table == Statement(i).table
           after == IF Statement(i).op = "delete" THEN NoRows
                    ELSE RowsOf(manifest[i], data[i], table)
       IN  pending' = [by |-> i, rows |-> [before EXCEPT ![table] = after]]
    /\ NextStatement(i)
    /\ UNCHANGED <<bundleVars, calls, manifest, data, exists, tables, rows, indexed>>

Commit(i) ==
    /\ step[i][1] = "sql" /\ Statement(i).op = "commit"
    /\ rows' = pending.rows
    /\ pending' = NoTransaction
    /\ indexed' = TRUE
    /\ Goto(i, "done", 0)
    /\ UNCHANGED <<bundleVars, calls, manifest, data, exists, tables>>

\* Another connection kept the database for longer than the timeout.
Busy(i) ==
    /\ step[i][1] = "sql" /\ Statement(i).op # "commit"
    /\ ~MayWrite(i)
    /\ Goto(i, "failed", 0)
    /\ UNCHANGED <<bundleVars, calls, manifest, data, databaseVars>>

\* An open transaction is rolled back by whoever opens the database next.
Kill(i) ==
    /\ step[i][1] \notin {"idle", "refused", "failed", "done"}
    /\ pending' = IF pending.by = i THEN NoTransaction ELSE pending
    /\ Goto(i, "idle", 0)
    /\ UNCHANGED <<bundleVars, calls, manifest, data, exists, tables, rows, indexed>>

\* A search reads what is committed; without its table it takes every query for
\* an invalid one.
SearchResult ==
    CASE ~exists -> NoRows
      [] exists /\ "chunks" \notin tables -> [invalid |-> "search query"]
      [] exists /\ "chunks" \in tables -> rows["chunks"]

Next ==
    \/ ReplaceBundle \/ ReplaceFile \/ ReplaceSeal \/ MigrateSeal
    \/ \E i \in Indexers :
        \/ Index(i) \/ ReadSeal(i) \/ VerifyRegistered(i) \/ FindSource(i)
        \/ VerifyArtifact(i) \/ ReadArtifact(i)
        \/ Connect(i) \/ Create(i) \/ Write(i) \/ Commit(i) \/ Busy(i) \/ Kill(i)

Spec == Init /\ [][Next]_vars

-----------------------------------------------------------------------------
TypeOK ==
    /\ run \in Runs
    /\ DOMAIN files = Path
    /\ changes \in 0..MaxChanges
    /\ calls \in [Indexers -> 0..MaxCalls]
    /\ DOMAIN step = Indexers
    /\ \A i \in Indexers : DOMAIN data[i] \subseteq DOMAIN CanonicalPath
    /\ exists \in BOOLEAN
    /\ tables \subseteq Table
    /\ DOMAIN rows = Table
    /\ pending.by \in Indexers \cup {Nobody}
    /\ indexed \in BOOLEAN

\* The audit asks less of a graph than the loader: no check of it counts the
\* nodes with one id, and a section gets a node for each hook after its first that
\* the recipe allows.
HooksDistinct(r) ==
    \A s \in ToSet(r.review.sections) :
        LET hooks == ExportedHooks(s, r.recipe)
        IN  \A a, b \in DOMAIN hooks : Lower[hooks[a]] = Lower[hooks[b]] => a = b

\* A bundle that nothing has touched since its run is refused by the loader only
\* without a seal of the current format, after an audit that failed (an old seal
\* may have been upgraded), or when a requirement repeats a hook in another case: such
\* a run is sealed and nobody can load it.  Every other one is loaded.
LoadedExactlyWhenSealed ==
    [][changes = 0 =>
        LET loadable == Contents(run)["audit"].status = "pass" /\ HooksDistinct(run)
        IN  \A i \in Indexers : step'[i] # step[i] =>
            /\ step'[i][1] = "refused" => seal = NoFile \/ seal.schema = "legacy" \/ ~loadable
            /\ step'[i][1] = "connect" => loadable]_vars

\* Whatever happens to the directory while it is read, to the indexing processes
\* and between two of their statements: the committed rows are none, or describe
\* one final document of a run with a passing audit, its source, its text and a
\* graph made for it; after a call has returned they are never none.  A search
\* sees the same.
IndexHoldsOneSnapshot ==
    \/ ~indexed /\ rows = [t \in Table |-> NoRows]
    \/ /\ \E v, w \in Others \cup {run} :
            LET document == Contents(v)
                graph == Contents(w)["ontology"]
                m == [run |-> BundleName, source |-> document["source"]]
            IN  /\ document["audit"].status = "pass"
                /\ graph.markdown = document["final"]
                /\ rows = [t \in Table |->
                            RowsOf(m, [final |-> document["final"], ontology |-> graph], t)]
       /\ SearchResult = rows["chunks"]
=============================================================================
