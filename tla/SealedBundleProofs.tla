-------------------------- MODULE SealedBundleProofs --------------------------
(***************************************************************************)
(* Whatever happens to a bundle while processes load and index it, the     *)
(* index holds nothing or one snapshot.                                    *)
(*                                                                         *)
(* The argument: every seal of the current format that can ever be read    *)
(* names the source, the final document and the audit of one run and the   *)
(* ontology of one; what a process has loaded is what the seal it read     *)
(* names; the open transaction holds the rows of what its process loaded;  *)
(* and rows appear only with the commit.                                   *)
(***************************************************************************)
EXTENDS SealedBundle, TLAPS

Versions == Others \cup {run}

\* Every seal of the current format names the document of one run and the
\* ontology of one.
NamesRuns(s) ==
    \E v, w \in Versions :
        /\ s.source = Contents(v)["source"]
        /\ s.final = Contents(v)["final"]
        /\ s.audit = Contents(v)["audit"]
        /\ s.ontology = Contents(w)["ontology"]

\* A seal of the old format is the one that was there in the beginning.
SealInv ==
    seal # NoFile =>
        /\ seal.schema = "v2" => NamesRuns(seal)
        /\ seal.schema = "legacy" =>
            /\ seal.source = Contents(run)["source"]
            /\ seal.final = Contents(run)["final"]
            /\ seal.audit = Contents(run)["audit"]

FilesInv ==
    /\ DOMAIN files = Path
    /\ files["ontology.json"] = NoFile
       \/ \E w \in Versions : files["ontology.json"] = Contents(w)["ontology"]

Stage == {"idle", "seal", "verify", "find", "check", "read", "connect", "sql",
          "refused", "failed", "done"}

\* What has been read before position n is what the seal names, and was accepted.
Loaded(i, n) ==
    /\ n > 2 => "final" \in DOMAIN data[i] /\ data[i]["final"] = manifest[i].final
    /\ n > 3 => manifest[i].audit.status = "pass"
    /\ n > 4 =>
        /\ "ontology" \in DOMAIN data[i]
        /\ data[i]["ontology"] = manifest[i].ontology
        /\ manifest[i].ontology.markdown = manifest[i].final

ProcessInv(i) ==
    /\ step[i] = <<step[i][1], step[i][2]>>
    /\ step[i][1] \in Stage
    /\ step[i][2] \in Nat
    /\ step[i][1] \in {"verify", "find", "check", "read", "connect", "sql"} =>
        /\ SealValid(manifest[i])
        /\ manifest[i].run = BundleName
        /\ NamesRuns(manifest[i])
    /\ step[i][1] \in {"verify", "check", "read"} => step[i][2] >= 1
    /\ step[i][1] \in {"check", "read"} => Loaded(i, step[i][2])
    /\ step[i][1] = "read" => step[i][2] <= Len(Artifacts(manifest[i]))
    /\ step[i][1] \in {"connect", "sql"} => Loaded(i, 6)
    /\ step[i][1] = "sql" =>
        /\ step[i][2] \in 1..13
        /\ exists
        /\ step[i][2] > 4 => "chunks" \in tables
    /\ (pending.by = i) <=> (step[i][1] = "sql" /\ step[i][2] > 5)
    /\ step[i][1] = "sql" =>
        \A t \in 1..4 : step[i][2] > 8 + t =>
            pending.rows[Tables[t]] = RowsOf(manifest[i], data[i], Tables[t])

\* The rows that describe the document of v and the graph of w.
SnapshotOf(v, w) ==
    [t \in Table |->
        RowsOf([run |-> BundleName, source |-> Contents(v)["source"]],
               [final |-> Contents(v)["final"], ontology |-> Contents(w)["ontology"]], t)]

RowsInv ==
    IF indexed
    THEN /\ exists /\ "chunks" \in tables
         /\ \E v, w \in Versions :
            /\ Contents(v)["audit"].status = "pass"
            /\ Contents(w)["ontology"].markdown = Contents(v)["final"]
            /\ rows = SnapshotOf(v, w)
    ELSE rows = [t \in Table |-> NoRows]

DatabaseInv ==
    /\ pending.rows = [t \in Table |-> pending.rows[t]]
    /\ pending.by \in Indexers \cup {Nobody}
    /\ RowsInv

IInv ==
    /\ TypeOK
    /\ SealInv
    /\ FilesInv
    /\ DOMAIN manifest = Indexers /\ DOMAIN data = Indexers
    /\ \A i \in Indexers : ProcessInv(i)
    /\ DatabaseInv

-----------------------------------------------------------------------------
(* The operators *)

\* Three statements a table, and the commit.
LEMMA StatementOf ==
    \A k \in 1..13 :
        /\ k \in 1..4 => Statements[k] = [op |-> "create", table |-> Tables[k]]
        /\ k \in 5..8 => Statements[k] = [op |-> "delete", table |-> Tables[k - 4]]
        /\ k \in 9..12 => Statements[k] = [op |-> "insert", table |-> Tables[k - 8]]
        /\ k = 13 => Statements[k] = [op |-> "commit", table |-> "none"]
BY DEF Statements

\* The four tables, each once.
LEMMA TableOf ==
    /\ Table = {Tables[t] : t \in 1..4}
    /\ \A t, u \in 1..4 : Tables[t] = Tables[u] => t = u
    /\ Tables[4] = "chunks"
BY DEF Table, Tables

\* What a run exports.
LEMMA ContentsKeys ==
    ASSUME NEW r
    PROVE  DOMAIN Contents(r) = {"source", "final", "audit", "ontology", "graph", "links"}
BY DEF Contents

\* Where a run puts its ontology.
LEMMA OntologyFile ==
    ASSUME NEW r
    PROVE  /\ DOMAIN FilesOf(Contents(r)) = Path
           /\ FilesOf(Contents(r))["ontology.json"] = Contents(r)["ontology"]
BY ContentsKeys DEF FilesOf, CanonicalPath, Path

\* The seal that a run makes names that run.
LEMMA SealNamesRun ==
    ASSUME NEW v \in Versions
    PROVE  NamesRuns(SealOf(v)) /\ SealOf(v).schema = "v2"
BY ContentsKeys DEF SealOf, NamesRuns, BuildSeal, Registry

\* The artifacts are read in a fixed order, the links last and only if sealed.
LEMMA ReadInOrder ==
    ASSUME NEW m
    PROVE  /\ Len(Artifacts(m)) \in {5, 6}
           /\ Artifacts(m)[2] = "final"
           /\ Artifacts(m)[3] = "audit"
           /\ Artifacts(m)[4] = "ontology"
           /\ \A n \in {1, 5} : Artifacts(m)[n] \in Key \ {"final", "audit", "ontology"}
           /\ Len(Artifacts(m)) = 6 => Artifacts(m)[6] = "links"
BY DEF Artifacts, ReadOrder, Key

\* load_sealed_bundle accepts a passing audit only.
LEMMA AcceptedAudit ==
    ASSUME NEW d, NEW s, ContentAccepted("audit", d, s)
    PROVE  d["audit"].status = "pass"
BY DEF ContentAccepted

\* It accepts an ontology of the sealed final document only.
LEMMA AcceptedOntology ==
    ASSUME NEW d, NEW s, ContentAccepted("ontology", d, s)
    PROVE  d["ontology"].markdown = s.final
BY DEF ContentAccepted

-----------------------------------------------------------------------------
(* The directory changes *)

\* What a change of the directory leaves to be shown.
LEMMA DirectoryAssemble ==
    ASSUME IInv, UNCHANGED <<run, callVars, databaseVars>>, changes' \in 0..MaxChanges,
           DOMAIN files' = Path, SealInv', FilesInv'
    PROVE  IInv'
<1>1. TypeOK'
  BY DEF IInv, TypeOK, callVars, databaseVars
<1>2. ASSUME NEW i \in Indexers PROVE ProcessInv(i)'
  BY DEF IInv, ProcessInv, NamesRuns, Versions, Loaded, callVars, databaseVars
<1>3. DatabaseInv'
  BY DEF IInv, DatabaseInv, RowsInv, Versions, databaseVars
<1> QED BY <1>1, <1>2, <1>3 DEF IInv, callVars

\* A change keeps within the bound.
LEMMA CountedChange ==
    ASSUME IInv, changes < MaxChanges
    PROVE  changes + 1 \in 0..MaxChanges
BY BoundsAssumption DEF IInv, TypeOK

\* The directory is replaced by that of another run.
LEMMA ReplaceBundleKeeps ==
    ASSUME IInv, ReplaceBundle
    PROVE  IInv'
<1>1. PICK v \in Versions : files' = FilesOf(Contents(v)) /\ seal' = SealOf(v)
  BY DEF ReplaceBundle, Versions
<1>2. UNCHANGED <<run, callVars, databaseVars>> /\ changes' \in 0..MaxChanges
  BY CountedChange DEF ReplaceBundle
<1>3. SealInv'
  BY <1>1, <1>2, SealNamesRun DEF SealInv, NamesRuns, Versions
<1>4. FilesInv' /\ DOMAIN files' = Path
  BY <1>1, <1>2, OntologyFile DEF FilesInv, Versions
<1> QED BY <1>2, <1>3, <1>4, DirectoryAssemble

\* One file comes from another version.
LEMMA ReplaceFileKeeps ==
    ASSUME IInv, ReplaceFile
    PROVE  IInv'
<1>1. PICK p \in Path, v \in Versions :
        \E content \in {NoFile, FilesOf(Contents(v))[IF p \in Originals THEN "original.md" ELSE p]} :
            files' = [files EXCEPT ![p] = content]
  BY DEF ReplaceFile, Versions
<1>2. UNCHANGED <<run, seal, callVars, databaseVars>> /\ changes' \in 0..MaxChanges
  BY CountedChange DEF ReplaceFile
<1>3. "ontology.json" \notin Originals
  BY DEF Originals
<1>4. FilesInv' /\ DOMAIN files' = Path
  BY <1>1, <1>2, <1>3, OntologyFile DEF IInv, FilesInv, Versions
<1>5. SealInv'
  BY <1>2 DEF IInv, SealInv, NamesRuns, Versions
<1> QED BY <1>2, <1>4, <1>5, DirectoryAssemble

\* The seal comes from another version.
LEMMA ReplaceSealKeeps ==
    ASSUME IInv, ReplaceSeal
    PROVE  IInv'
<1>1. UNCHANGED <<run, files, callVars, databaseVars>> /\ changes' \in 0..MaxChanges
  BY CountedChange DEF ReplaceSeal
<1>2. PICK v \in Versions :
        seal' \in {SealOf(v), [SealOf(v) EXCEPT !.run = "other"],
                   [SealOf(v) EXCEPT !.artifacts["final"].path = "draft.md"],
                   [SealOf(v) EXCEPT !.artifacts = [k \in Key \ {"graph"} |-> SealOf(v).artifacts[k]]],
                   NoFile}
  BY DEF ReplaceSeal, Versions
<1>3. seal' # NoFile =>
        /\ seal'.schema = "v2"
        /\ seal'.source = SealOf(v).source
        /\ seal'.final = SealOf(v).final
        /\ seal'.audit = SealOf(v).audit
        /\ seal'.ontology = SealOf(v).ontology
  BY <1>2 DEF SealOf, BuildSeal
<1>4. SealInv'
  BY <1>1, <1>3, SealNamesRun DEF SealInv, NamesRuns, Versions
<1>5. FilesInv' /\ DOMAIN files' = Path
  BY <1>1 DEF IInv, FilesInv, Versions
<1> QED BY <1>1, <1>4, <1>5, DirectoryAssemble

\* The upgraded seal names the document that the old one named, and the ontology
\* that is there.
LEMMA MigrateSealKeeps ==
    ASSUME IInv, MigrateSeal
    PROVE  IInv'
<1> DEFINE found == {k \in DOMAIN CanonicalPath : files[CanonicalPath[k]] # NoFile}
           contents == [k \in found |-> files[CanonicalPath[k]]]
           artifacts == Registry(contents)
<1>1. /\ MigrationValid(seal, artifacts)
      /\ seal' = BuildSeal(seal.run, artifacts)
      /\ UNCHANGED <<run, files, changes, callVars, databaseVars>>
  BY DEF MigrateSeal
<1>2. "ontology" \in found /\ artifacts["ontology"].digest = files["ontology.json"]
      /\ files["ontology.json"] # NoFile
  <2>1. Key \subseteq DOMAIN artifacts
    BY <1>1 DEF MigrationValid
  <2>2. "ontology" \in found
    BY <2>1 DEF Key, Registry
  <2>3. CanonicalPath["ontology"] = "ontology.json"
    BY DEF CanonicalPath
  <2> QED BY <2>2, <2>3 DEF Registry
<1>3. PICK w \in Versions : files["ontology.json"] = Contents(w)["ontology"]
  BY <1>2 DEF IInv, FilesInv
<1>4. /\ seal # NoFile /\ seal.schema = "legacy"
      /\ seal.source = artifacts["source"].digest
      /\ seal.final = artifacts["final"].digest
      /\ seal.audit = artifacts["audit"].digest
  BY <1>1 DEF MigrationValid
<1> HIDE DEF artifacts
<1>5. /\ seal'.schema = "v2"
      /\ seal'.source = Contents(run)["source"]
      /\ seal'.final = Contents(run)["final"]
      /\ seal'.audit = Contents(run)["audit"]
      /\ seal'.ontology = Contents(w)["ontology"]
  BY <1>1, <1>2, <1>3, <1>4 DEF IInv, SealInv, BuildSeal
<1>6. SealInv'
  BY <1>1, <1>5 DEF SealInv, NamesRuns, Versions
<1>7. FilesInv' /\ DOMAIN files' = Path /\ changes' \in 0..MaxChanges
  BY <1>1 DEF IInv, TypeOK, FilesInv, Versions
<1> QED BY <1>1, <1>6, <1>7, DirectoryAssemble

-----------------------------------------------------------------------------
(* A process reads the bundle *)

\* A step of i leaves the calls of the others and their transactions alone.
Moves(i) ==
    /\ UNCHANGED bundleVars
    /\ \A j \in Indexers \ {i} :
        step'[j] = step[j] /\ manifest'[j] = manifest[j] /\ data'[j] = data[j]
    /\ DOMAIN step' = Indexers /\ DOMAIN manifest' = Indexers /\ DOMAIN data' = Indexers
    /\ exists => exists'
    /\ tables \subseteq tables'
    /\ \A j \in Indexers \ {i} : (pending'.by = j) <=> (pending.by = j)
    /\ \A j \in Indexers \ {i} : pending.by = j => pending' = pending

\* Who has written all of a table still holds the transaction.
LEMMA OthersKeep ==
    ASSUME IInv, NEW i \in Indexers, Moves(i), NEW j \in Indexers \ {i}
    PROVE  ProcessInv(j)'
<1>1. /\ step'[j] = step[j] /\ manifest'[j] = manifest[j] /\ data'[j] = data[j]
      /\ run' = run /\ (exists => exists') /\ tables \subseteq tables'
      /\ ((pending'.by = j) <=> (pending.by = j)) /\ (pending.by = j => pending' = pending)
  BY DEF Moves, bundleVars
<1>2. ProcessInv(j)
  BY DEF IInv
<1>3. /\ step[j] = <<step[j][1], step[j][2]>> /\ step[j][1] \in Stage /\ step[j][2] \in Nat
      /\ step[j][1] \in {"verify", "find", "check", "read", "connect", "sql"} =>
            SealValid(manifest[j]) /\ manifest[j].run = BundleName /\ NamesRuns(manifest[j])'
      /\ step[j][1] \in {"verify", "check", "read"} => step[j][2] >= 1
      /\ step[j][1] \in {"check", "read"} => Loaded(j, step[j][2])'
      /\ step[j][1] = "read" => step[j][2] <= Len(Artifacts(manifest[j]))
      /\ step[j][1] \in {"connect", "sql"} => Loaded(j, 6)'
  BY <1>1, <1>2 DEF ProcessInv, NamesRuns, Versions, Loaded
<1>4. step[j][1] = "sql" =>
        step[j][2] \in 1..13 /\ exists' /\ (step[j][2] > 4 => "chunks" \in tables')
  BY <1>1, <1>2 DEF ProcessInv
<1>5. (pending'.by = j) <=> (step[j][1] = "sql" /\ step[j][2] > 5)
  BY <1>1, <1>2 DEF ProcessInv
<1>6. step[j][1] = "sql" =>
        \A t \in 1..4 : step[j][2] > 8 + t =>
            pending'.rows[Tables[t]] = RowsOf(manifest[j], data[j], Tables[t])
  BY <1>1, <1>2 DEF ProcessInv
<1> QED BY <1>1, <1>3, <1>4, <1>5, <1>6 DEF ProcessInv

\* What a step of i must restore.
LEMMA ProcessAssemble ==
    ASSUME IInv, NEW i \in Indexers, Moves(i), TypeOK', ProcessInv(i)', DatabaseInv'
    PROVE  IInv'
<1>1. UNCHANGED <<run, files, seal, changes>>
  BY DEF Moves, bundleVars
<1>2. SealInv' /\ FilesInv'
  BY <1>1 DEF IInv, SealInv, FilesInv, NamesRuns, Versions
<1>3. \A j \in Indexers : ProcessInv(j)'
  BY OthersKeep
<1> QED BY <1>2, <1>3 DEF IInv, Moves

\* What a step of i that leaves the database alone must restore.
LEMMA ReaderAssemble ==
    ASSUME IInv, NEW i \in Indexers, UNCHANGED <<bundleVars, databaseVars>>,
           DOMAIN step' = Indexers, DOMAIN manifest' = Indexers, DOMAIN data' = Indexers,
           \A j \in Indexers \ {i} :
                step'[j] = step[j] /\ manifest'[j] = manifest[j] /\ data'[j] = data[j],
           calls' \in [Indexers -> 0..MaxCalls],
           DOMAIN data'[i] \subseteq DOMAIN CanonicalPath,
           ProcessInv(i)'
    PROVE  IInv'
<1>1. Moves(i)
  BY DEF Moves, databaseVars
<1>2. TypeOK'
  BY DEF IInv, TypeOK, bundleVars, databaseVars
<1>3. DatabaseInv'
  BY DEF IInv, DatabaseInv, RowsInv, Versions, bundleVars, databaseVars
<1> QED BY <1>1, <1>2, <1>3, ProcessAssemble

\* A process has a transaction only while it executes statements.
LEMMA PendingIsOpen ==
    ASSUME IInv, NEW i \in Indexers, step[i][1] # "sql"
    PROVE  pending.by # i
BY DEF IInv, ProcessInv

\* A call of index begins.
LEMMA IndexKeeps ==
    ASSUME IInv, NEW i \in Indexers, Index(i)
    PROVE  IInv'
<1>1. /\ step' = [step EXCEPT ![i] = <<"seal", 0>>]
      /\ manifest' = [manifest EXCEPT ![i] = NoFile] /\ data' = [data EXCEPT ![i] = <<>>]
      /\ calls' = [calls EXCEPT ![i] = @ + 1] /\ calls[i] < MaxCalls
      /\ UNCHANGED <<bundleVars, databaseVars>>
      /\ step[i][1] # "sql"
  BY DEF Index, Goto
<1>2. step'[i] = <<"seal", 0>> /\ data'[i] = <<>>
  BY <1>1 DEF IInv, TypeOK
<1>3. pending'.by # i
  BY <1>1, PendingIsOpen DEF databaseVars
<1>4. ProcessInv(i)'
  BY <1>2, <1>3 DEF ProcessInv, Stage
<1>5. calls' \in [Indexers -> 0..MaxCalls]
  BY <1>1, BoundsAssumption DEF IInv, TypeOK
<1>6. DOMAIN data'[i] \subseteq DOMAIN CanonicalPath
  BY <1>2
<1> QED BY <1>1, <1>4, <1>5, <1>6, ReaderAssemble DEF IInv, TypeOK

\* The seal is read and its form checked.
LEMMA ReadSealKeeps ==
    ASSUME IInv, NEW i \in Indexers, ReadSeal(i)
    PROVE  IInv'
<1>1. UNCHANGED <<bundleVars, calls, data, databaseVars>> /\ step[i][1] # "sql"
  BY DEF ReadSeal
<1>2. pending'.by # i
  BY <1>1, PendingIsOpen DEF databaseVars
<1>3. CASE SealValid(seal) /\ ManifestPathsValid(seal, BundleName)
  <2>1. manifest' = [manifest EXCEPT ![i] = seal] /\ step' = [step EXCEPT ![i] = <<"verify", 1>>]
    BY <1>3 DEF ReadSeal, Goto
  <2>2. step'[i] = <<"verify", 1>> /\ manifest'[i] = seal
    BY <2>1 DEF IInv, TypeOK
  <2>3. SealValid(seal) /\ seal.run = BundleName /\ NamesRuns(seal)
    BY <1>3 DEF IInv, SealInv, SealValid, ManifestPathsValid
  <2>4. NamesRuns(manifest[i])'
    BY <1>1, <2>2, <2>3 DEF NamesRuns, Versions, bundleVars
  <2>5. ProcessInv(i)'
    BY <1>2, <2>2, <2>3, <2>4 DEF ProcessInv, Stage
  <2> QED BY <1>1, <2>1, <2>5, ReaderAssemble DEF IInv, TypeOK
<1>4. CASE ~(SealValid(seal) /\ ManifestPathsValid(seal, BundleName))
  <2>1. step' = [step EXCEPT ![i] = <<"refused", 0>>] /\ manifest' = manifest
    BY <1>4 DEF ReadSeal, Refuse, Goto
  <2>2. step'[i] = <<"refused", 0>>
    BY <2>1 DEF IInv, TypeOK
  <2>3. ProcessInv(i)'
    BY <1>2, <2>2 DEF ProcessInv, Stage
  <2> QED BY <1>1, <2>1, <2>3, ReaderAssemble DEF IInv, TypeOK
<1> QED BY <1>3, <1>4

\* A step of the loader that only moves on.
LEMMA WalkKeeps ==
    ASSUME IInv, NEW i \in Indexers,
           UNCHANGED <<bundleVars, calls, manifest, data, databaseVars>>,
           step[i][1] \in {"verify", "find", "check", "read"},
           NEW s \in {"refused", "verify", "find", "check", "read", "connect"}, NEW n \in Nat,
           Goto(i, s, n),
           s \in {"verify", "check", "read"} => n >= 1,
           s \in {"check", "read"} => Loaded(i, n),
           s = "read" => n <= Len(Artifacts(manifest[i])),
           s = "connect" => Loaded(i, 6)
    PROVE  IInv'
<1>1. step' = [step EXCEPT ![i] = <<s, n>>] /\ step'[i] = <<s, n>>
  BY DEF Goto, IInv, TypeOK
<1>2. pending'.by # i
  BY PendingIsOpen DEF databaseVars
<1>3. SealValid(manifest[i]) /\ manifest[i].run = BundleName /\ NamesRuns(manifest[i])'
  BY DEF IInv, ProcessInv, NamesRuns, Versions, bundleVars
<1>4. ProcessInv(i)'
  BY <1>1, <1>2, <1>3 DEF ProcessInv, Stage, Loaded
<1> QED BY <1>1, <1>4, ReaderAssemble DEF IInv, TypeOK

\* One registered artifact is verified.
LEMMA VerifyRegisteredKeeps ==
    ASSUME IInv, NEW i \in Indexers, VerifyRegistered(i)
    PROVE  IInv'
<1>1. /\ UNCHANGED <<bundleVars, calls, manifest, data, databaseVars>>
      /\ step[i][1] = "verify" /\ step[i][2] \in Nat /\ step[i][2] >= 1
  BY DEF VerifyRegistered, IInv, ProcessInv
<1>2. Goto(i, "find", 0) \/ Goto(i, "verify", step[i][2] + 1) \/ Goto(i, "refused", 0)
  <2>1. Len(Artifacts(manifest[i])) \in Nat
    BY ReadInOrder
  <2>2. CASE step[i][2] > Len(Artifacts(manifest[i]))
    BY <1>1, <2>1, <2>2 DEF VerifyRegistered, Refuse
  <2>3. CASE step[i][2] <= Len(Artifacts(manifest[i]))
    BY <1>1, <2>1, <2>3 DEF VerifyRegistered, Refuse
  <2> QED BY <1>1, <2>1, <2>2, <2>3
<1>3. CASE Goto(i, "find", 0)
  BY <1>1, <1>3, WalkKeeps
<1>4. CASE Goto(i, "verify", step[i][2] + 1)
  BY <1>1, <1>4, WalkKeeps
<1>5. CASE Goto(i, "refused", 0)
  BY <1>1, <1>5, WalkKeeps
<1> QED BY <1>2, <1>3, <1>4, <1>5

\* The original is looked for.
LEMMA FindSourceKeeps ==
    ASSUME IInv, NEW i \in Indexers, FindSource(i)
    PROVE  IInv'
<1>1. /\ UNCHANGED <<bundleVars, calls, manifest, data, databaseVars>>
      /\ step[i][1] = "find"
  BY DEF FindSource
<1>2. Goto(i, "check", 1) \/ Goto(i, "refused", 0)
  BY DEF FindSource, Refuse
<1>3. CASE Goto(i, "check", 1)
  <2>1. Loaded(i, 1)
    BY DEF Loaded
  <2> QED BY <1>1, <1>3, <2>1, WalkKeeps
<1>4. CASE Goto(i, "refused", 0)
  BY <1>1, <1>4, WalkKeeps
<1> QED BY <1>2, <1>3, <1>4

\* Behind the last artifact everything has been read.
LEMMA VerifyArtifactKeeps ==
    ASSUME IInv, NEW i \in Indexers, VerifyArtifact(i)
    PROVE  IInv'
<1>1. /\ UNCHANGED <<bundleVars, calls, manifest, data, databaseVars>>
      /\ step[i][1] = "check" /\ step[i][2] \in Nat /\ step[i][2] >= 1
      /\ Loaded(i, step[i][2])
  BY DEF VerifyArtifact, IInv, ProcessInv
<1>2. \/ step[i][2] > Len(Artifacts(manifest[i])) /\ Goto(i, "connect", 0)
      \/ step[i][2] <= Len(Artifacts(manifest[i])) /\ Goto(i, "read", step[i][2])
      \/ Goto(i, "refused", 0)
  <2>1. Len(Artifacts(manifest[i])) \in Nat
    BY ReadInOrder
  <2>2. CASE step[i][2] > Len(Artifacts(manifest[i]))
    BY <1>1, <2>1, <2>2 DEF VerifyArtifact, Refuse
  <2>3. CASE step[i][2] <= Len(Artifacts(manifest[i]))
    BY <1>1, <2>1, <2>3 DEF VerifyArtifact, Refuse
  <2> QED BY <1>1, <2>1, <2>2, <2>3
<1>3. CASE step[i][2] > Len(Artifacts(manifest[i])) /\ Goto(i, "connect", 0)
  <2>1. Loaded(i, 6)
    BY <1>1, <1>3, ReadInOrder DEF Loaded
  <2> QED BY <1>1, <1>3, <2>1, WalkKeeps
<1>4. CASE step[i][2] <= Len(Artifacts(manifest[i])) /\ Goto(i, "read", step[i][2])
  BY <1>1, <1>4, WalkKeeps
<1>5. CASE Goto(i, "refused", 0)
  BY <1>1, <1>5, WalkKeeps
<1> QED BY <1>2, <1>3, <1>4, <1>5

\* What is kept of a file is what the seal names, and an audit or an ontology is
\* kept only if it is accepted.
LEMMA ReadArtifactKeeps ==
    ASSUME IInv, NEW i \in Indexers, ReadArtifact(i)
    PROVE  IInv'
<1>0. PICK n \in Nat : n = step[i][2]
  BY DEF IInv, ProcessInv
<1> DEFINE m == manifest[i]
           key == Artifacts(m)[n]
           content == files[m.artifacts[key].path]
           read == [k \in DOMAIN data[i] \cup {key} |-> IF k = key THEN content ELSE data[i][k]]
<1>1. /\ UNCHANGED <<bundleVars, calls, manifest, databaseVars>>
      /\ step[i][1] = "read" /\ n \in Nat /\ n >= 1 /\ n <= Len(Artifacts(m))
      /\ Loaded(i, n) /\ SealValid(m) /\ m.run = BundleName
  BY <1>0 DEF ReadArtifact, IInv, ProcessInv
<1>2. CASE Unchanged(m.artifacts[key], content) /\ ContentAccepted(key, read, m)
  <2>1. data' = [data EXCEPT ![i] = read] /\ step' = [step EXCEPT ![i] = <<"check", n + 1>>]
    BY <1>0, <1>2 DEF ReadArtifact, Goto
  <2>2. step'[i] = <<"check", n + 1>> /\ data'[i] = read
    BY <2>1 DEF IInv, TypeOK
  <2>3. content = m.artifacts[key].digest
    BY <1>2 DEF Unchanged
  <2>4. /\ m.final = m.artifacts["final"].digest
        /\ m.audit = m.artifacts["audit"].digest
        /\ m.ontology = m.artifacts["ontology"].digest
    BY <1>1 DEF SealValid
  <2>5. n \in 1..6 /\ key \in DOMAIN CanonicalPath
        /\ (n = 2 => key = "final") /\ (n = 3 => key = "audit") /\ (n = 4 => key = "ontology")
        /\ (n \notin {2, 3, 4} => key \notin {"final", "audit", "ontology"})
    <3>1. n \in 1..6 /\ (n = 6 => Len(Artifacts(m)) = 6)
      <4>1. Len(Artifacts(m)) = 5 \/ Len(Artifacts(m)) = 6
        BY ReadInOrder
      <4>2. n >= 1 /\ n <= Len(Artifacts(m))
        BY <1>1
      <4>3. CASE Len(Artifacts(m)) = 5
        BY <4>2, <4>3
      <4>4. CASE Len(Artifacts(m)) = 6
        BY <4>2, <4>4
      <4> QED BY <4>1, <4>3, <4>4
    <3>2. n = 1 \/ n = 2 \/ n = 3 \/ n = 4 \/ n = 5 \/ n = 6
      BY <3>1
    <3>3. DOMAIN CanonicalPath = Key \cup {"links"}
      BY DEF CanonicalPath, Key
    <3> HIDE DEF m
    <3> QED BY <3>1, <3>2, <3>3, ReadInOrder DEF Key
  <2>6. read[key] = content /\ key \in DOMAIN read
        /\ \A k \in DOMAIN data[i] : k # key => k \in DOMAIN read /\ read[k] = data[i][k]
    OBVIOUS
  <2>7. n = 3 => m.audit.status = "pass"
    <3> HAVE n = 3
    <3>1. key = "audit"
      BY <2>5
    <3>2. read["audit"].status = "pass"
      BY <1>2, <3>1, AcceptedAudit
    <3> QED BY <2>3, <2>4, <2>6, <3>1, <3>2
  <2>8. n = 4 => m.ontology.markdown = m.final
    <3> HAVE n = 4
    <3>1. key = "ontology"
      BY <2>5
    <3>2. read["ontology"].markdown = m.final
      BY <1>2, <3>1, AcceptedOntology
    <3> QED BY <2>3, <2>4, <2>6, <3>1, <3>2
  <2> HIDE DEF content, read, key
  <2>9. Loaded(i, n + 1)'
    <3>1. manifest'[i] = m /\ data'[i] = read
      BY <1>1, <2>2
    <3>2. n + 1 > 2 => "final" \in DOMAIN read /\ read["final"] = m.final
      BY <1>1, <2>3, <2>4, <2>5, <2>6 DEF Loaded
    <3>3. n + 1 > 3 => m.audit.status = "pass"
      BY <1>1, <2>7 DEF Loaded
    <3>4. n + 1 > 4 => /\ "ontology" \in DOMAIN read /\ read["ontology"] = m.ontology
                       /\ m.ontology.markdown = m.final
      BY <1>1, <2>3, <2>4, <2>5, <2>6, <2>8 DEF Loaded
    <3> HIDE DEF m
    <3> QED BY <3>1, <3>2, <3>3, <3>4 DEF Loaded
  <2>10. pending'.by # i
    BY <1>1, PendingIsOpen DEF databaseVars
  <2>11. SealValid(m) /\ NamesRuns(m)' /\ manifest' = manifest
    BY <1>1 DEF IInv, ProcessInv, NamesRuns, Versions, bundleVars
  <2>12. ProcessInv(i)'
    BY <1>1, <2>2, <2>9, <2>10, <2>11 DEF ProcessInv, Stage, Loaded
  <2>13. DOMAIN data'[i] \subseteq DOMAIN CanonicalPath
    BY <2>2, <2>5 DEF IInv, TypeOK, read
  <2> QED BY <1>1, <2>1, <2>12, <2>13, ReaderAssemble DEF IInv, TypeOK
<1>3. CASE ~(Unchanged(m.artifacts[key], content) /\ ContentAccepted(key, read, m))
  <2>1. Goto(i, "refused", 0) /\ UNCHANGED data
    BY <1>0, <1>3 DEF ReadArtifact, Refuse
  <2> QED BY <1>1, <2>1, WalkKeeps
<1> QED BY <1>2, <1>3

-----------------------------------------------------------------------------
(* A process fills the index *)

\* What is known of a process that executes statements.
LEMMA Executing ==
    ASSUME IInv, NEW i \in Indexers, step[i][1] = "sql"
    PROVE  /\ SealValid(manifest[i]) /\ manifest[i].run = BundleName
           /\ NamesRuns(manifest[i]) /\ Loaded(i, 6)
           /\ step[i][2] \in 1..13 /\ exists
           /\ step[i][2] > 4 => "chunks" \in tables
           /\ pending.by = i <=> step[i][2] > 5
           /\ \A t \in 1..4 : step[i][2] > 8 + t =>
                pending.rows[Tables[t]] = RowsOf(manifest[i], data[i], Tables[t])
BY DEF IInv, ProcessInv

\* The database is opened.
LEMMA ConnectKeeps ==
    ASSUME IInv, NEW i \in Indexers, Connect(i)
    PROVE  IInv'
<1>1. /\ UNCHANGED <<bundleVars, calls, manifest, data, tables, rows, pending, indexed>>
      /\ step[i][1] = "connect" /\ exists' = TRUE /\ step' = [step EXCEPT ![i] = <<"sql", 1>>]
  BY DEF Connect, Goto
<1>2. step'[i] = <<"sql", 1>> /\ pending'.by # i
  BY <1>1, PendingIsOpen DEF IInv, TypeOK
<1>3. SealValid(manifest[i]) /\ manifest[i].run = BundleName /\ NamesRuns(manifest[i])'
      /\ Loaded(i, 6)'
  BY <1>1 DEF IInv, ProcessInv, NamesRuns, Versions, bundleVars, Loaded
<1>4. ProcessInv(i)'
  BY <1>1, <1>2, <1>3 DEF ProcessInv, Stage
<1>5. Moves(i)
  BY <1>1 DEF Moves, IInv, TypeOK
<1>6. TypeOK'
  BY <1>1 DEF IInv, TypeOK, bundleVars
<1>7. DatabaseInv'
  BY <1>1 DEF IInv, DatabaseInv, RowsInv, Versions, bundleVars
<1> QED BY <1>4, <1>5, <1>6, <1>7, ProcessAssemble

\* A table is created, and stays without a commit.
LEMMA CreateKeeps ==
    ASSUME IInv, NEW i \in Indexers, Create(i)
    PROVE  IInv'
<1>1. PICK n \in 1..13 : n = step[i][2]
  BY Executing DEF Create
<1>2. /\ UNCHANGED <<bundleVars, calls, manifest, data, exists, rows, pending, indexed>>
      /\ step[i][1] = "sql" /\ Statements[n].op = "create"
      /\ tables' = tables \cup {Statements[n].table}
      /\ step' = [step EXCEPT ![i] = <<"sql", n + 1>>]
  BY <1>1 DEF Create, Statement, NextStatement, Goto
<1>3. n \in 1..4 /\ Statements[n].table = Tables[n]
  BY <1>2, StatementOf
<1>4. Tables[n] \in Table /\ (n = 4 => Tables[n] = "chunks")
  BY <1>3, TableOf
<1>5. step'[i] = <<"sql", n + 1>> /\ pending'.by # i
  BY <1>1, <1>2, <1>3, Executing DEF IInv, TypeOK
<1>6. /\ SealValid(manifest[i]) /\ manifest[i].run = BundleName /\ NamesRuns(manifest[i])'
      /\ Loaded(i, 6)' /\ exists
  BY <1>2 DEF IInv, ProcessInv, NamesRuns, Versions, bundleVars, Loaded
<1>7. ProcessInv(i)'
  BY <1>2, <1>3, <1>4, <1>5, <1>6 DEF ProcessInv, Stage
<1>8. Moves(i)
  BY <1>2 DEF Moves, IInv, TypeOK
<1>9. TypeOK'
  BY <1>2, <1>3, <1>4 DEF IInv, TypeOK, bundleVars
<1>10. DatabaseInv'
  BY <1>2 DEF IInv, DatabaseInv, RowsInv, Versions, bundleVars
<1> QED BY <1>7, <1>8, <1>9, <1>10, ProcessAssemble

\* The first DELETE takes the transaction, and only its owner writes in it.
LEMMA WriteKeeps ==
    ASSUME IInv, NEW i \in Indexers, Write(i)
    PROVE  IInv'
<1>1. PICK n \in 1..13 : n = step[i][2]
  BY Executing DEF Write
<1> DEFINE before == IF pending.by = i THEN pending.rows ELSE rows
           after == IF Statements[n].op = "delete" THEN NoRows
                    ELSE RowsOf(manifest[i], data[i], Statements[n].table)
<1>2. /\ UNCHANGED <<bundleVars, calls, manifest, data, exists, tables, rows, indexed>>
      /\ step[i][1] = "sql" /\ Statements[n].op \in {"delete", "insert"}
      /\ pending.by \in {Nobody, i}
      /\ pending' = [by |-> i, rows |-> [before EXCEPT ![Statements[n].table] = after]]
      /\ step' = [step EXCEPT ![i] = <<"sql", n + 1>>]
  BY <1>1 DEF Write, Statement, NextStatement, Goto, MayWrite
<1>3. n \in 5..12 /\ step'[i] = <<"sql", n + 1>>
  BY <1>2, StatementOf DEF IInv, TypeOK
<1>4. before = [t \in Table |-> before[t]]
  <2>1. rows = [t \in Table |-> rows[t]]
    BY DEF IInv, DatabaseInv, RowsInv, SnapshotOf
  <2> QED BY <2>1 DEF IInv, DatabaseInv
<1>5. /\ SealValid(manifest[i]) /\ manifest[i].run = BundleName /\ NamesRuns(manifest[i])'
      /\ Loaded(i, 6)' /\ exists /\ "chunks" \in tables
  BY <1>1, <1>2, <1>3 DEF IInv, ProcessInv, NamesRuns, Versions, bundleVars, Loaded
<1>6. \A t \in 1..4 : n + 1 > 8 + t =>
            pending'.rows[Tables[t]] = RowsOf(manifest[i], data[i], Tables[t])
  <2> SUFFICES ASSUME NEW t \in 1..4, n + 1 > 8 + t
               PROVE  pending'.rows[Tables[t]] = RowsOf(manifest[i], data[i], Tables[t])
    OBVIOUS
  <2>1. n \in 9..12 /\ Statements[n].op = "insert" /\ Statements[n].table = Tables[n - 8]
    BY <1>3, StatementOf
  <2>2. pending.by = i
    BY <1>1, <1>2, <2>1, Executing
  <2>3. Tables[t] \in Table
    BY TableOf
  <2>4. CASE n - 8 = t
    BY <1>2, <1>4, <2>1, <2>3, <2>4
  <2>5. CASE n - 8 # t
    <3>1. n > 8 + t /\ n - 8 \in 1..4
      BY <2>1, <2>5
    <3>2. Tables[n - 8] # Tables[t]
      BY <2>5, <3>1, TableOf
    <3>3. pending.rows[Tables[t]] = RowsOf(manifest[i], data[i], Tables[t])
      BY <1>1, <1>2, <3>1, Executing
    <3> QED BY <1>2, <1>4, <2>1, <2>2, <2>3, <3>2, <3>3
  <2> QED BY <2>4, <2>5
<1>7. ProcessInv(i)'
  BY <1>2, <1>3, <1>5, <1>6 DEF ProcessInv, Stage
<1>8. Moves(i)
  <2>1. \A j \in Indexers \ {i} : pending.by # j /\ pending'.by # j
    BY <1>2, ProcessAssumption DEF Nobody
  <2> QED BY <1>2, <2>1 DEF Moves, IInv, TypeOK
<1>9. TypeOK'
  BY <1>2 DEF IInv, TypeOK, bundleVars
<1>10. DatabaseInv'
  <2>1. pending'.rows = [t \in Table |-> pending'.rows[t]] /\ pending'.by = i
    BY <1>2, <1>4
  <2> QED BY <1>2, <2>1 DEF IInv, DatabaseInv, RowsInv, Versions, bundleVars
<1> QED BY <1>7, <1>8, <1>9, <1>10, ProcessAssemble

\* The rows depend on the source, the final document and the ontology only.
LEMMA RowsAreSnapshot ==
    ASSUME NEW m, NEW d, NEW v \in Versions, NEW w \in Versions,
           m.run = BundleName, m.source = Contents(v)["source"],
           d["final"] = Contents(v)["final"], d["ontology"] = Contents(w)["ontology"]
    PROVE  \A t \in Table : RowsOf(m, d, t) = SnapshotOf(v, w)[t]
BY DEF RowsOf, SnapshotOf, Table

\* The rows of the transaction replace those of the bundle.
LEMMA CommitKeeps ==
    ASSUME IInv, NEW i \in Indexers, Commit(i)
    PROVE  IInv'
<1>1. PICK n \in 1..13 : n = step[i][2]
  BY Executing DEF Commit
<1>2. /\ UNCHANGED <<bundleVars, calls, manifest, data, exists, tables>>
      /\ step[i][1] = "sql" /\ Statements[n].op = "commit"
      /\ rows' = pending.rows /\ pending' = NoTransaction /\ indexed' = TRUE
      /\ step' = [step EXCEPT ![i] = <<"done", 0>>]
  BY <1>1 DEF Commit, Statement, Goto
<1>3. n = 13 /\ step'[i] = <<"done", 0>>
  BY <1>2, StatementOf DEF IInv, TypeOK
<1>4. /\ SealValid(manifest[i]) /\ manifest[i].run = BundleName /\ NamesRuns(manifest[i])
      /\ Loaded(i, 6) /\ exists /\ "chunks" \in tables /\ pending.by = i
      /\ \A t \in 1..4 : pending.rows[Tables[t]] = RowsOf(manifest[i], data[i], Tables[t])
  <2>1. step[i][2] = 13
    BY <1>1, <1>3
  <2>2. /\ SealValid(manifest[i]) /\ manifest[i].run = BundleName /\ NamesRuns(manifest[i])
        /\ Loaded(i, 6) /\ exists /\ "chunks" \in tables /\ pending.by = i
    BY <1>2, <2>1, Executing
  <2>3. \A t \in 1..4 : step[i][2] > 8 + t =>
            pending.rows[Tables[t]] = RowsOf(manifest[i], data[i], Tables[t])
    BY <1>2, Executing
  <2>4. \A t \in 1..4 : step[i][2] > 8 + t
    BY <2>1
  <2> QED BY <2>2, <2>3, <2>4
<1>5. PICK v, w \in Versions :
        /\ manifest[i].source = Contents(v)["source"]
        /\ manifest[i].final = Contents(v)["final"]
        /\ manifest[i].audit = Contents(v)["audit"]
        /\ manifest[i].ontology = Contents(w)["ontology"]
  BY <1>4 DEF NamesRuns
<1>6. /\ data[i]["final"] = Contents(v)["final"] /\ data[i]["ontology"] = Contents(w)["ontology"]
      /\ Contents(v)["audit"].status = "pass"
      /\ Contents(w)["ontology"].markdown = Contents(v)["final"]
  BY <1>4, <1>5 DEF Loaded
<1>7. rows' = SnapshotOf(v, w)
  <2>1. \A t \in Table : RowsOf(manifest[i], data[i], t) = SnapshotOf(v, w)[t]
    BY <1>4, <1>5, <1>6, RowsAreSnapshot
  <2>2. \A t \in Table : pending.rows[t] = SnapshotOf(v, w)[t]
    BY <1>4, <2>1, TableOf
  <2>3. pending.rows = [t \in Table |-> pending.rows[t]]
    BY DEF IInv, DatabaseInv
  <2>4. SnapshotOf(v, w) = [t \in Table |-> SnapshotOf(v, w)[t]]
    BY DEF SnapshotOf
  <2> QED BY <1>2, <2>2, <2>3, <2>4
<1>8. ProcessInv(i)'
  <2>1. pending'.by # i
    BY <1>2, ProcessAssumption DEF NoTransaction, Nobody
  <2> QED BY <1>3, <2>1 DEF ProcessInv, Stage
<1>9. Moves(i)
  <2>1. \A j \in Indexers \ {i} : pending.by # j /\ pending'.by # j
    BY <1>2, <1>4, ProcessAssumption DEF NoTransaction, Nobody
  <2> QED BY <1>2, <2>1 DEF Moves, IInv, TypeOK
<1>10. TypeOK'
  BY <1>2, <1>7 DEF IInv, TypeOK, SnapshotOf, NoTransaction, bundleVars
<1>11. RowsInv'
  <2>1. v \in Versions' /\ w \in Versions'
    BY <1>2 DEF Versions, bundleVars
  <2> QED BY <1>2, <1>4, <1>6, <1>7, <2>1 DEF RowsInv
<1>12. DatabaseInv'
  BY <1>2, <1>11 DEF DatabaseInv, NoTransaction
<1> QED BY <1>8, <1>9, <1>10, <1>12, ProcessAssemble

\* The owner of the transaction is never busy.
LEMMA BusyKeeps ==
    ASSUME IInv, NEW i \in Indexers, Busy(i)
    PROVE  IInv'
<1>1. /\ UNCHANGED <<bundleVars, calls, manifest, data, databaseVars>>
      /\ step' = [step EXCEPT ![i] = <<"failed", 0>>] /\ pending.by # i
  BY DEF Busy, Goto, MayWrite
<1>2. step'[i] = <<"failed", 0>> /\ pending'.by # i
  BY <1>1 DEF IInv, TypeOK, databaseVars
<1>3. ProcessInv(i)'
  BY <1>2 DEF ProcessInv, Stage
<1> QED BY <1>1, <1>3, ReaderAssemble DEF IInv, TypeOK

\* A killed process leaves what it had not committed behind, and nothing else.
LEMMA KillKeeps ==
    ASSUME IInv, NEW i \in Indexers, Kill(i)
    PROVE  IInv'
<1>1. /\ UNCHANGED <<bundleVars, calls, manifest, data, exists, tables, rows, indexed>>
      /\ pending' = IF pending.by = i THEN NoTransaction ELSE pending
      /\ step' = [step EXCEPT ![i] = <<"idle", 0>>]
  BY DEF Kill, Goto
<1>2. step'[i] = <<"idle", 0>> /\ pending'.by # i
  BY <1>1, ProcessAssumption DEF IInv, TypeOK, NoTransaction, Nobody
<1>3. ProcessInv(i)'
  BY <1>2 DEF ProcessInv, Stage
<1>4. Moves(i)
  <2>1. \A j \in Indexers \ {i} : (pending'.by = j) <=> (pending.by = j)
    BY <1>1, ProcessAssumption DEF NoTransaction, Nobody
  <2>2. \A j \in Indexers \ {i} : pending.by = j => pending' = pending
    BY <1>1
  <2> QED BY <1>1, <2>1, <2>2 DEF Moves, IInv, TypeOK
<1>5. TypeOK'
  BY <1>1 DEF IInv, TypeOK, NoTransaction, bundleVars
<1>6. DatabaseInv'
  BY <1>1 DEF IInv, DatabaseInv, NoTransaction, RowsInv, Versions, bundleVars
<1> QED BY <1>3, <1>4, <1>5, <1>6, ProcessAssemble

-----------------------------------------------------------------------------
(* The invariant *)

\* The invariant holds of the bundle as the run left it, and an empty index.
LEMMA InitHolds ==
    ASSUME Init
    PROVE  IInv
<1>1. TypeOK
  <2>1. DOMAIN files = Path
    BY OntologyFile DEF Init
  <2>2. /\ changes \in 0..MaxChanges /\ calls \in [Indexers -> 0..MaxCalls]
        /\ DOMAIN step = Indexers /\ DOMAIN rows = Table /\ pending.by = Nobody
    BY BoundsAssumption DEF Init, NoTransaction
  <2>3. \A i \in Indexers : DOMAIN data[i] = {}
    BY DEF Init
  <2> QED BY <2>1, <2>2, <2>3 DEF Init, TypeOK
<1>2. SealInv
  <2>1. run \in Versions
    BY DEF Versions
  <2>2. CASE seal = IF Contents(run)["audit"].status = "pass" THEN SealOf(run) ELSE NoFile
    BY <2>1, <2>2, SealNamesRun DEF SealInv
  <2>3. CASE seal = LegacySeal(BundleName, Registry(Contents(run)))
    BY <2>3, ContentsKeys DEF SealInv, LegacySeal, Registry
  <2> QED BY <2>2, <2>3 DEF Init
<1>3. FilesInv
  BY OntologyFile DEF Init, FilesInv, Versions
<1>4. \A i \in Indexers : ProcessInv(i)
  <2> SUFFICES ASSUME NEW i \in Indexers PROVE ProcessInv(i)
    OBVIOUS
  <2>1. step[i] = <<"idle", 0>> /\ pending.by # i
    BY ProcessAssumption DEF Init, NoTransaction, Nobody
  <2> QED BY <2>1 DEF ProcessInv, Stage
<1>5. DatabaseInv
  BY DEF Init, DatabaseInv, NoTransaction, RowsInv
<1> QED BY <1>1, <1>2, <1>3, <1>4, <1>5 DEF Init, IInv

\* Every step keeps the invariant.
LEMMA StepKeeps ==
    ASSUME IInv, [Next]_vars
    PROVE  IInv'
<1>1. CASE UNCHANGED vars
  BY <1>1 DEF IInv, TypeOK, SealInv, NamesRuns, Versions, FilesInv, ProcessInv, Loaded,
              DatabaseInv, RowsInv, vars, bundleVars, callVars, databaseVars
<1>2. CASE ReplaceBundle \/ ReplaceFile \/ ReplaceSeal \/ MigrateSeal
  BY <1>2, ReplaceBundleKeeps, ReplaceFileKeeps, ReplaceSealKeeps, MigrateSealKeeps
<1>3. ASSUME NEW i \in Indexers,
             \/ Index(i) \/ ReadSeal(i) \/ VerifyRegistered(i) \/ FindSource(i)
             \/ VerifyArtifact(i) \/ ReadArtifact(i)
      PROVE  IInv'
  BY <1>3, IndexKeeps, ReadSealKeeps, VerifyRegisteredKeeps, FindSourceKeeps,
     VerifyArtifactKeeps, ReadArtifactKeeps
<1>4. ASSUME NEW i \in Indexers,
             Connect(i) \/ Create(i) \/ Write(i) \/ Commit(i) \/ Busy(i) \/ Kill(i)
      PROVE  IInv'
  BY <1>4, ConnectKeeps, CreateKeeps, WriteKeeps, CommitKeeps, BusyKeeps, KillKeeps
<1> QED BY <1>1, <1>2, <1>3, <1>4 DEF Next

\* IInv holds in every reachable state, whatever changes the directory, however
\* many processes index it and whoever is killed.
THEOREM BundleInvariance == Spec => []IInv
<1>1. Init => IInv
  BY InitHolds
<1>2. IInv /\ [Next]_vars => IInv'
  BY StepKeeps
<1> QED BY <1>1, <1>2, PTL DEF Spec

\* Every variable keeps its type: the directory its paths, the index its tables,
\* the open transaction one owner.
THEOREM TypeCorrect == Spec => []TypeOK
<1>1. IInv => TypeOK
  BY DEF IInv
<1> QED BY <1>1, BundleInvariance, PTL

\* The committed rows are none, or describe one final document of a run with a
\* passing audit, its source and a graph made for its text (load_sealed_bundle and
\* CoreBundleIndex.index); what a search reads is what was committed.
THEOREM OneSnapshot == Spec => []IndexHoldsOneSnapshot
<1>1. ASSUME IInv PROVE IndexHoldsOneSnapshot
  <2>1. CASE ~indexed
    BY <1>1, <2>1 DEF IInv, DatabaseInv, RowsInv, IndexHoldsOneSnapshot
  <2>2. CASE indexed
    <3>1. PICK v, w \in Versions :
            /\ Contents(v)["audit"].status = "pass"
            /\ Contents(w)["ontology"].markdown = Contents(v)["final"]
            /\ rows = SnapshotOf(v, w)
      BY <1>1, <2>2 DEF IInv, DatabaseInv, RowsInv
    <3>2. SearchResult = rows["chunks"]
      BY <1>1, <2>2 DEF IInv, DatabaseInv, RowsInv, SearchResult
    <3> DEFINE m == [run |-> BundleName, source |-> Contents(v)["source"]]
               d == [final |-> Contents(v)["final"], ontology |-> Contents(w)["ontology"]]
    <3>3. rows = [t \in Table |-> RowsOf(m, d, t)]
      BY <3>1 DEF SnapshotOf
    <3> QED BY <3>1, <3>2, <3>3, Zenon DEF IndexHoldsOneSnapshot, Versions
  <2> QED BY <2>1, <2>2
<1>2. IInv => IndexHoldsOneSnapshot
  BY <1>1
<1> QED BY <1>2, BundleInvariance, PTL
=============================================================================
