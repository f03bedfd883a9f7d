------------------------------ MODULE RagCatalog ------------------------------
(***************************************************************************)
(* The local retrieval catalog: builders that fill a staging directory and *)
(* promote it with two renames (RagCatalogBuilder.build and _promote), and *)
(* readers that open the catalog by its path, file by file                 *)
(* (RagCatalog.open).  Nothing is locked: builders and readers are separate *)
(* processes, and a builder can be killed between two file operations.     *)
(***************************************************************************)
EXTENDS Naturals

CONSTANTS
    Builders,   \* processes that build the catalog
    Readers,    \* processes that open it
    Builds,     \* bound on the number of builds: they are numbered 1 .. Builds
    Size,       \* the row counts of the catalog that each build makes
    None        \* absence of a directory, a build, a generation

ASSUME ConstantsAssumption ==
    /\ Builds \in Nat
    /\ None \notin 1 .. Builds

VARIABLES
    files,      \* per build: what its directory holds, wherever it is
    catalog,    \* the build whose directory is at the path of the catalog
    staging,    \* the builds whose directory is a staging directory
    backup,     \* per build: the build whose directory it moved out of the way
    started,    \* builds started so far
    step,       \* per builder: its next file operation
    build,      \* per builder: the build it works on
    had,        \* per builder: whether it found a catalog to move away
    reading,    \* per reader: its next file operation
    seen,       \* per reader: the build each file it read came from
    latest,     \* the build installed last
    killed,     \* has a builder been killed?
    overlapped  \* have two builders worked at the same time?

history == <<latest, killed, overlapped>>
builderVars == <<files, catalog, staging, backup, started, step, build, had, history>>
readerVars == <<reading, seen>>
vars == <<builderVars, readerVars>>

-----------------------------------------------------------------------------
Build == 1 .. Builds

File == {"database", "index", "manifest"}

NothingSeen == [f \in File |-> None]

Init ==
    /\ catalog = None
    /\ files = [n \in Build |-> {}]
    /\ staging = {}
    /\ backup = [n \in Build |-> None]
    /\ started = 0
    /\ step = [b \in Builders |-> "idle"]
    /\ build = [b \in Builders |-> None]
    /\ had = [b \in Builders |-> FALSE]
    /\ reading = [r \in Readers |-> "idle"]
    /\ seen = [r \in Readers |-> NothingSeen]
    /\ latest = None
    /\ killed = FALSE
    /\ overlapped = FALSE

Goto(b, s) == step' = [step EXCEPT ![b] = s]

-----------------------------------------------------------------------------
(* RagCatalogBuilder.build.                                                *)

\* The bundles have been loaded and the staging directory is made.
Begin(b) ==
    /\ step[b] = "idle"
    /\ started < Builds
    /\ started' = started + 1
    /\ build' = [build EXCEPT ![b] = started']
    /\ staging' = staging \cup {started'}
    /\ overlapped' = (overlapped \/ \E c \in Builders : step[c] # "idle")
    /\ Goto(b, "database")
    /\ UNCHANGED <<files, catalog, backup, had, latest, killed, readerVars>>

\* _write_sqlite, _write_faiss and the manifest with the digests of both.
After(f) == CASE f = "database" -> "index" [] f = "index" -> "manifest" [] OTHER -> "validate"

\* Mutant: a file is written under another name.
WriteFileElsewhere(b, f) ==
    /\ step[b] = f
    /\ files' = [files EXCEPT ![build[b]] = @ \cup {"index.faiss"}]
    /\ Goto(b, After(f))
    /\ UNCHANGED <<catalog, staging, backup, started, build, had, history, readerVars>>

WriteFile(b, f) ==
    /\ step[b] = f
    /\ files' = [files EXCEPT ![build[b]] = @ \cup {f}]
    /\ Goto(b, After(f))
    /\ UNCHANGED <<catalog, staging, backup, started, build, had, history, readerVars>>

\* Mutant: a build that failed goes on to promote what it has.
FailGoesOn(b) ==
    /\ step[b] \in File \cup {"validate", "drop_backup", "dropping"}
    /\ Goto(b, "look")
    /\ UNCHANGED <<files, catalog, staging, backup, started, build, had, history, readerVars>>

\* Preparation, a write, the validation or the removal of the backup raises.
Fail(b) ==
    /\ step[b] \in File \cup {"validate", "drop_backup", "dropping"}
    /\ Goto(b, "discard")
    /\ UNCHANGED <<files, catalog, staging, backup, started, build, had, history, readerVars>>

\* The staging directory is opened as a catalog before it is promoted.
Validate(b) ==
    /\ step[b] = "validate"
    /\ files[build[b]] = File
    /\ Goto(b, "look")
    /\ UNCHANGED <<files, catalog, staging, backup, started, build, had, history, readerVars>>

-----------------------------------------------------------------------------
(* RagCatalogBuilder._promote.                                             *)

Look(b) ==
    /\ step[b] = "look"
    /\ had' = [had EXCEPT ![b] = catalog # None]
    /\ Goto(b, IF catalog # None THEN "move_aside" ELSE "install")
    /\ UNCHANGED <<files, catalog, staging, backup, started, build, history, readerVars>>

\* The catalog found may be gone by now, which raises outside the try block.
MoveAside(b) ==
    /\ step[b] = "move_aside"
    /\ backup' = [backup EXCEPT ![build[b]] = catalog]
    /\ catalog' = None
    /\ Goto(b, IF catalog # None THEN "install" ELSE "discard")
    /\ UNCHANGED <<files, staging, started, build, had, history, readerVars>>

MoveAsideFails(b) ==
    /\ step[b] = "move_aside"
    /\ Goto(b, "discard")
    /\ UNCHANGED <<files, catalog, staging, backup, started, build, had, history, readerVars>>

\* A directory is never renamed over one that is not empty.
Install(b) ==
    /\ step[b] = "install"
    /\ catalog = None
    /\ catalog' = build[b]
    /\ staging' = staging \ {build[b]}
    /\ latest' = build[b]
    /\ Goto(b, "drop_backup")
    /\ UNCHANGED <<files, backup, started, build, had, killed, overlapped, readerVars>>

\* Mutant: a failed rename leaves the backup where it is.
InstallFailsForGood(b) ==
    /\ step[b] = "install"
    /\ Goto(b, "discard")
    /\ UNCHANGED <<files, catalog, staging, backup, started, build, had, history, readerVars>>

\* The rename raises: another catalog took the place, or the system refused.
InstallFails(b) ==
    /\ step[b] = "install"
    /\ Goto(b, IF had[b] /\ backup[build[b]] # None THEN "restore" ELSE "discard")
    /\ UNCHANGED <<files, catalog, staging, backup, started, build, had, history, readerVars>>

\* Mutant: some backup is put back, not the one this build has made.
RestoreAny(b) ==
    /\ step[b] = "restore"
    /\ \E n \in Build :
          /\ backup[n] # None
          /\ catalog = None
          /\ catalog' = backup[n]
          /\ backup' = [backup EXCEPT ![n] = None]
    /\ Goto(b, "discard")
    /\ UNCHANGED <<files, staging, started, build, had, history, readerVars>>

\* The backup takes its place again, unless another catalog is there by now.
Restore(b) ==
    /\ step[b] = "restore"
    /\ IF catalog = None
       THEN /\ catalog' = backup[build[b]]
            /\ backup' = [backup EXCEPT ![build[b]] = None]
       ELSE UNCHANGED <<catalog, backup>>
    /\ Goto(b, "discard")
    /\ UNCHANGED <<files, staging, started, build, had, history, readerVars>>

\* The call returns or raises.
Return(b) ==
    /\ Goto(b, "idle")
    /\ build' = [build EXCEPT ![b] = None]
    /\ had' = [had EXCEPT ![b] = FALSE]
    /\ UNCHANGED <<files, catalog, started, latest, overlapped, readerVars>>

\* The backup is removed file by file: once that has begun it is no catalog.
DropBackup(b) ==
    /\ step[b] = "drop_backup"
    /\ backup' = [backup EXCEPT ![build[b]] = None]
    /\ Goto(b, "dropping")
    /\ UNCHANGED <<files, catalog, staging, started, build, had, history, readerVars>>

Finish(b) ==
    /\ step[b] = "dropping"
    /\ Return(b)
    /\ UNCHANGED <<staging, backup, killed>>

\* Mutant: a build that raises leaves its staging directory.
DiscardNothing(b) ==
    /\ step[b] = "discard"
    /\ Return(b)
    /\ UNCHANGED <<staging, backup, killed>>

\* Whatever raised, the staging directory is removed if it still exists.
Discard(b) ==
    /\ step[b] = "discard"
    /\ staging' = staging \ {build[b]}
    /\ Return(b)
    /\ UNCHANGED <<backup, killed>>

\* The builder is killed: its directories stay as they are.
Crash(b) ==
    /\ step[b] # "idle"
    /\ killed' = TRUE
    /\ Return(b)
    /\ UNCHANGED <<staging, backup>>

-----------------------------------------------------------------------------
(* RagCatalog.open: every file is found through the path of the catalog.   *)

Read(r, from, f, to) ==
    /\ reading[r] = from
    /\ catalog # None
    /\ f \in files[catalog]
    /\ seen' = [seen EXCEPT ![r][f] = catalog]
    /\ reading' = [reading EXCEPT ![r] = to]
    /\ UNCHANGED builderVars

ReadManifest(r) == Read(r, "idle", "manifest", "verify_database")

\* The digest in the manifest is that of the file of the same build only.
Verify(r, from, to) ==
    /\ reading[r] = from
    /\ catalog = seen[r]["manifest"]
    /\ reading' = [reading EXCEPT ![r] = to]
    /\ UNCHANGED <<seen, builderVars>>

VerifyDatabase(r) == Verify(r, "verify_database", "verify_index")
VerifyIndex(r) == Verify(r, "verify_index", "connect")

Connect(r) == Read(r, "connect", "database", "load_index")
LoadIndex(r) == Read(r, "load_index", "index", "counts")

\* Mutant: the vectors of the index are not counted.
ValidateRowCounts(r) ==
    /\ reading[r] = "counts"
    /\ Size[seen[r]["database"]] = Size[seen[r]["manifest"]]
    /\ reading' = [reading EXCEPT ![r] = "open"]
    /\ UNCHANGED <<seen, builderVars>>

\* _validate_counts compares rows with the manifest and vectors with rows.
ValidateCounts(r) ==
    /\ reading[r] = "counts"
    /\ Size[seen[r]["database"]] = Size[seen[r]["manifest"]]
    /\ Size[seen[r]["index"]] = Size[seen[r]["database"]]
    /\ reading' = [reading EXCEPT ![r] = "open"]
    /\ UNCHANGED <<seen, builderVars>>

\* open raises, or the reader closes the catalog.
Close(r) ==
    /\ reading[r] # "idle"
    /\ reading' = [reading EXCEPT ![r] = "idle"]
    /\ seen' = [seen EXCEPT ![r] = NothingSeen]
    /\ UNCHANGED builderVars

-----------------------------------------------------------------------------
BuilderStep(b) ==
    \/ Begin(b)
    \/ \E f \in File : WriteFile(b, f)
    \/ Validate(b) \/ Fail(b)
    \/ Look(b) \/ MoveAside(b) \/ MoveAsideFails(b) \/ Install(b) \/ InstallFails(b) \/ Restore(b)
    \/ DropBackup(b) \/ Finish(b) \/ Discard(b) \/ Crash(b)

ReaderStep(r) ==
    \/ ReadManifest(r) \/ VerifyDatabase(r) \/ VerifyIndex(r)
    \/ Connect(r) \/ LoadIndex(r) \/ ValidateCounts(r)
    \/ Close(r)

Next ==
    \/ \E b \in Builders : BuilderStep(b)
    \/ \E r \in Readers : ReaderStep(r)

Spec == Init /\ [][Next]_vars

-----------------------------------------------------------------------------
(* Types and safety.                                                       *)

Step == File \cup {"idle", "validate", "look", "move_aside", "install", "restore",
                   "drop_backup", "dropping", "discard"}

Reading == {"idle", "verify_database", "verify_index", "connect", "load_index", "counts", "open"}

\* A directory is known by its build, every process is at one of its steps, and a
\* reader has seen files of builds only.
TypeOK ==
    /\ files \in [Build -> SUBSET File]
    /\ catalog \in Build \cup {None}
    /\ staging \subseteq Build
    /\ backup \in [Build -> Build \cup {None}]
    /\ started \in 0 .. Builds
    /\ step \in [Builders -> Step]
    /\ build \in [Builders -> Build \cup {None}]
    /\ had \in [Builders -> BOOLEAN]
    /\ reading \in [Readers -> Reading]
    /\ seen \in [Readers -> [File -> Build \cup {None}]]
    /\ latest \in Build \cup {None}
    /\ killed \in BOOLEAN
    /\ overlapped \in BOOLEAN

\* Only complete, validated catalogs are ever found at the path, also while
\* builds fail, are killed or overtake each other; what is moved aside, and may
\* be put back, is complete as well.
ServedCatalogComplete ==
    /\ catalog # None => files[catalog] = File
    /\ \A n \in Build : backup[n] # None => files[backup[n]] = File

\* Builders that take turns and are not killed leave the path empty only before
\* the first build and between the two renames of a promotion: a build that
\* raises puts the previous catalog back.
Gap(b) == step[b] \in {"install", "restore"}

MissingOnlyInGap ==
    ~killed /\ ~overlapped /\ catalog = None =>
        latest = None \/ \E b \in Builders : Gap(b)

\* Builders that take turns, and may be killed, never bring an older catalog back
\* over a newer one, whatever backups the killed ones have left.
LatestServed == ~overlapped /\ catalog # None => catalog = latest

\* As long as no builder is killed none leaves its staging directory behind, and
\* when they take turns, a backup that could not be removed holds an older
\* catalog than the one installed.
NothingNewLeftBehind ==
    ~killed /\ (\A b \in Builders : step[b] = "idle") =>
        /\ staging = {}
        /\ ~overlapped => \A n \in Build :
              backup[n] # None => catalog # None /\ backup[n] < catalog

-----------------------------------------------------------------------------
(* The inductive invariants of the proofs.                                 *)

\* A builder promotes only what it has validated.
BuilderInv(b) ==
    /\ step[b] # "idle" => build[b] \in 1 .. started
    /\ step[b] \in {"look", "move_aside", "install"} => files[build[b]] = File

\* Directories are complete once they are validated and files are only added, so
\* what is served or moved aside stays complete.
IInv == TypeOK /\ ServedCatalogComplete /\ \A b \in Builders : BuilderInv(b)

\* What the builder at work knows between its two renames if no other one has
\* been at work with it.
TurnsInv ==
    ~overlapped =>
        /\ LatestServed
        /\ \A b, c \in Builders : step[b] # "idle" /\ step[c] # "idle" => b = c
        /\ \A n \in started + 1 .. Builds : backup[n] = None
        /\ \A b \in Builders :
              /\ step[b] \notin {"idle", "install", "restore", "drop_backup", "dropping", "discard"} =>
                    backup[build[b]] = None
              /\ Gap(b) => catalog = None
              /\ Gap(b) /\ backup[build[b]] # None => backup[build[b]] = latest

-----------------------------------------------------------------------------
(* What readers get.  RagCatalog calls itself a "validated read-only view  *)
(* over one promoted local catalog".                                       *)

\* The manifest, the rows and the vectors of an open catalog are of one build.
\* It holds when builds differ in their counts: the counts are all that tells
\* apart what was read after the digests were verified.
OneBuildOpen ==
    \A r \in Readers : reading[r] = "open" =>
        \A f, g \in File : seen[r][f] = seen[r][g]

\* README.md:261, "atomically replaces the previous local catalog": the catalog
\* that is served is the one installed last, also when builders overlap.
BuildReplacesCatalog == catalog # None => catalog = latest
=============================================================================
