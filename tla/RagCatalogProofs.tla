--------------------------- MODULE RagCatalogProofs ---------------------------
(***************************************************************************)
(* Proofs about the catalog for any builders, readers, builds and counts:  *)
(* what is served is always complete; builders that take turns never bring *)
(* an older catalog back over the one installed last, leave no gap and no  *)
(* directory behind.                                                       *)
(***************************************************************************)
EXTENDS RagCatalog, TLAPS

-----------------------------------------------------------------------------
(* Types.                                                                  *)

\* The initial state has the types of the variables.
LEMMA InitTypeOK == Init => TypeOK
<1> SUFFICES ASSUME Init PROVE TypeOK
  OBVIOUS
<1>1. killed \in BOOLEAN /\ overlapped \in BOOLEAN
  BY Zenon DEF Init
<1> QED
  BY <1>1, ConstantsAssumption DEF Init, TypeOK, Build, File, Step, Reading, NothingSeen

\* A step of a reader keeps the types and everything a builder knows.
LEMMA ReaderTypeOK ==
  ASSUME TypeOK, NEW r \in Readers, ReaderStep(r)
  PROVE  TypeOK' /\ UNCHANGED builderVars
<1> USE DEF TypeOK, builderVars, history, Reading, File
<1>1. CASE ReadManifest(r)
  BY <1>1 DEF ReadManifest, Read
<1>2. CASE VerifyDatabase(r) \/ VerifyIndex(r)
  BY <1>2 DEF VerifyDatabase, VerifyIndex, Verify
<1>3. CASE Connect(r)
  BY <1>3 DEF Connect, Read
<1>4. CASE LoadIndex(r)
  BY <1>4 DEF LoadIndex, Read
<1>5. CASE ValidateCounts(r)
  BY <1>5 DEF ValidateCounts
<1>6. CASE Close(r)
  BY <1>6 DEF Close, NothingSeen
<1> QED
  BY <1>1, <1>2, <1>3, <1>4, <1>5, <1>6 DEF ReaderStep

\* A step of a builder keeps the types: the number of its build is one of Build.
LEMMA BuilderTypeOK ==
  ASSUME TypeOK, NEW b \in Builders, BuilderInv(b), BuilderStep(b)
  PROVE  TypeOK'
<1> USE DEF TypeOK, Goto, readerVars, history, Step, File
<1>0. 1 .. started \subseteq Build
  BY ConstantsAssumption DEF Build
<1>1. CASE Begin(b)
  BY <1>1, ConstantsAssumption DEF Begin, Build
<1>2. ASSUME NEW f \in File, WriteFile(b, f) PROVE TypeOK'
  BY <1>2 DEF WriteFile, After
<1>3. CASE Validate(b) \/ Fail(b) \/ Look(b) \/ MoveAsideFails(b) \/ InstallFails(b)
  BY <1>3 DEF Validate, Fail, Look, MoveAsideFails, InstallFails
<1>4. CASE MoveAside(b)
  BY <1>4 DEF MoveAside
<1>5. CASE Install(b)
  BY <1>0, <1>5 DEF Install, BuilderInv
<1>6. CASE Restore(b)
  BY <1>0, <1>6 DEF Restore, BuilderInv
<1>7. CASE DropBackup(b) \/ Finish(b) \/ Discard(b) \/ Crash(b)
  BY <1>7 DEF DropBackup, Finish, Discard, Crash, Return
<1> QED
  BY <1>1, <1>2, <1>3, <1>4, <1>5, <1>6, <1>7 DEF BuilderStep

-----------------------------------------------------------------------------
(* What is served is complete.                                             *)

\* The invariant holds initially.
LEMMA InitIInv == Init => IInv
  BY InitTypeOK DEF Init, IInv, ServedCatalogComplete, BuilderInv

\* Files are only added, so a directory that is complete stays complete.
LEMMA FilesGrow ==
  ASSUME TypeOK, NEW b \in Builders, BuilderStep(b)
  PROVE  \A n \in Build : files[n] = File => files'[n] = File
<1>1. ASSUME NEW f \in File, WriteFile(b, f) PROVE \A n \in Build : files[n] = File => files'[n] = File
  BY <1>1 DEF WriteFile, TypeOK
<1>2. (\E f \in File : WriteFile(b, f)) \/ files' = files
  BY DEF BuilderStep, Begin, Validate, Fail, Look, MoveAside, MoveAsideFails, Install,
         InstallFails, Restore, DropBackup, Finish, Discard, Crash, Return
<1> QED
  BY <1>1, <1>2

\* A step of one builder does not reach into another.
LEMMA OthersKeep ==
  ASSUME TypeOK, NEW b \in Builders, BuilderStep(b), NEW c \in Builders, c # b
  PROVE  step'[c] = step[c] /\ build'[c] = build[c] /\ started' \in {started, started + 1}
  BY DEF TypeOK, BuilderStep, Begin, WriteFile, Validate, Fail, Look, MoveAside, MoveAsideFails,
         Install, InstallFails, Restore, DropBackup, Finish, Discard, Crash, Return, Goto

\* A builder's own steps: what it is about to promote is complete.
LEMMA OwnBuilderInv ==
  ASSUME IInv, NEW b \in Builders, BuilderStep(b)
  PROVE  BuilderInv(b)'
<1> USE DEF IInv, TypeOK, BuilderInv, Goto
<1>1. CASE Begin(b)
  BY <1>1 DEF Begin
<1>2. ASSUME NEW f \in File, WriteFile(b, f) PROVE BuilderInv(b)'
  BY <1>2 DEF WriteFile, After, File
<1>3. CASE Validate(b) \/ Fail(b) \/ Look(b) \/ MoveAside(b) \/ MoveAsideFails(b)
            \/ Install(b) \/ InstallFails(b) \/ Restore(b)
  BY <1>3 DEF Validate, Fail, Look, MoveAside, MoveAsideFails, Install, InstallFails, Restore, File
<1>4. CASE DropBackup(b) \/ Finish(b) \/ Discard(b) \/ Crash(b)
  BY <1>4 DEF DropBackup, Finish, Discard, Crash, Return
<1> QED
  BY <1>1, <1>2, <1>3, <1>4 DEF BuilderStep

\* A builder serves, or moves aside, only what was complete before.
LEMMA ServedStep ==
  ASSUME IInv, NEW b \in Builders, BuilderStep(b)
  PROVE  ServedCatalogComplete'
<1>0. TypeOK /\ ServedCatalogComplete /\ BuilderInv(b)
  BY DEF IInv
<1>1. \A n \in Build : files[n] = File => files'[n] = File
  BY <1>0, FilesGrow
<1>2. step[b] # "idle" => build[b] \in Build
  BY <1>0, ConstantsAssumption DEF BuilderInv, TypeOK, Build
<1> USE <1>0, <1>1, <1>2 DEF TypeOK, ServedCatalogComplete, Goto
<1>3. CASE UNCHANGED <<catalog, backup>>
  BY <1>3
<1>4. CASE MoveAside(b)
  BY <1>4 DEF MoveAside
<1>5. CASE Install(b)
  BY <1>5 DEF Install, BuilderInv
<1>6. CASE Restore(b)
  BY <1>6 DEF Restore
<1>7. CASE DropBackup(b)
  BY <1>7 DEF DropBackup, Return
<1> QED
  BY <1>3, <1>4, <1>5, <1>6, <1>7
     DEF BuilderStep, Begin, WriteFile, Validate, Fail, Look, MoveAsideFails, InstallFails,
         Finish, Discard, Crash, Return

\* Every step keeps the invariant.
LEMMA NextIInv == IInv /\ [Next]_vars => IInv'
<1> SUFFICES ASSUME IInv, [Next]_vars PROVE IInv'
  OBVIOUS
<1>1. CASE UNCHANGED vars
  BY <1>1 DEF vars, builderVars, readerVars, history, IInv, TypeOK, ServedCatalogComplete, BuilderInv
<1>2. ASSUME NEW r \in Readers, ReaderStep(r) PROVE IInv'
  <2>1. TypeOK' /\ UNCHANGED builderVars
    BY <1>2, ReaderTypeOK DEF IInv
  <2> QED
    BY <2>1 DEF IInv, ServedCatalogComplete, BuilderInv, builderVars, history
<1>3. ASSUME NEW b \in Builders, BuilderStep(b) PROVE IInv'
  <2>1. TypeOK'
    BY <1>3, BuilderTypeOK DEF IInv
  <2>2. ServedCatalogComplete'
    BY <1>3, ServedStep
  <2>3. ASSUME NEW c \in Builders PROVE BuilderInv(c)'
    <3>1. CASE c = b
      BY <1>3, <3>1, OwnBuilderInv
    <3>2. CASE c # b
      <4>1. step'[c] = step[c] /\ build'[c] = build[c] /\ started' \in {started, started + 1}
        BY <1>3, <3>2, OthersKeep DEF IInv
      <4>2. \A n \in Build : files[n] = File => files'[n] = File
        BY <1>3, FilesGrow DEF IInv
      <4>3. BuilderInv(c) /\ started \in Nat /\ started <= Builds /\ Builds \in Nat
        BY ConstantsAssumption DEF IInv, TypeOK
      <4> QED
        BY <4>1, <4>2, <4>3 DEF BuilderInv, Build
    <3> QED
      BY <3>1, <3>2
  <2> QED
    BY <2>1, <2>2, <2>3 DEF IInv
<1> QED
  BY <1>1, <1>2, <1>3 DEF Next

\* The invariant of the catalog, for any number of builders that fail, are killed
\* and overtake each other.
THEOREM CatalogInvariance == Spec => []IInv
  BY InitIInv, NextIInv, PTL DEF Spec

\* Only complete catalogs are found at the path of the catalog.
THEOREM CatalogComplete == Spec => []ServedCatalogComplete
<1>1. IInv => ServedCatalogComplete
  BY DEF IInv
<1> QED
  BY <1>1, CatalogInvariance, PTL

-----------------------------------------------------------------------------
(* Builders that take turns.                                               *)

\* What the builder at work knows holds initially.
LEMMA InitTurnsInv == Init => TurnsInv
  BY ConstantsAssumption DEF Init, TurnsInv, LatestServed, Gap, Build

\* A step without overlap is that of the only builder at work.
LEMMA AtWorkAlone ==
  ASSUME IInv, TurnsInv, NEW b \in Builders, BuilderStep(b), ~overlapped'
  PROVE  /\ ~overlapped
         /\ \A c \in Builders : c # b => step[c] = "idle" /\ step'[c] = "idle"
<1>1. ~overlapped
  BY DEF BuilderStep, Begin, WriteFile, Validate, Fail, Look, MoveAside, MoveAsideFails,
         Install, InstallFails, Restore, DropBackup, Finish, Discard, Crash, Return, history
<1>2. ASSUME NEW c \in Builders, c # b PROVE step[c] = "idle"
  <2>1. CASE Begin(b)
    BY <1>2, <2>1 DEF Begin
  <2>2. CASE step[b] # "idle"
    BY <1>1, <1>2, <2>2 DEF TurnsInv
  <2> QED
    BY <2>1, <2>2 DEF BuilderStep, WriteFile, Validate, Fail, Look, MoveAside, MoveAsideFails,
       Install, InstallFails, Restore, DropBackup, Finish, Discard, Crash, File
<1> QED
  BY <1>1, <1>2, OthersKeep DEF IInv

\* The builder at work finds its own backup only, and the place empty for it.
LEMMA BuilderTurnsInv ==
  ASSUME IInv, TurnsInv, NEW b \in Builders, BuilderStep(b)
  PROVE  TurnsInv'
<1> SUFFICES ASSUME ~overlapped' PROVE TurnsInv'
  BY DEF TurnsInv
<1>a. ~overlapped /\ \A c \in Builders : c # b => step[c] = "idle" /\ step'[c] = "idle"
  BY AtWorkAlone
<1>0. /\ TypeOK
      /\ step[b] # "idle" => build[b] \in 1 .. started
      /\ 1 .. started \subseteq Build
  BY ConstantsAssumption DEF IInv, BuilderInv, TypeOK, Build
<1> USE <1>0, <1>a DEF TypeOK, TurnsInv, LatestServed, Gap, Goto, Build, history
<1>1. CASE Begin(b)
  BY <1>1, ConstantsAssumption DEF Begin
<1>2. ASSUME NEW f \in File, WriteFile(b, f) PROVE TurnsInv'
  BY <1>2 DEF WriteFile, After, File
<1>3. CASE Validate(b) \/ Fail(b) \/ MoveAsideFails(b)
  BY <1>3 DEF Validate, Fail, MoveAsideFails, File
<1>4. CASE Look(b)
  BY <1>4 DEF Look
<1>5. CASE MoveAside(b)
  BY <1>5 DEF MoveAside
<1>6. CASE Install(b)
  BY <1>6 DEF Install
<1>7. CASE InstallFails(b)
  BY <1>7 DEF InstallFails
<1>8. CASE Restore(b)
  <2>1. catalog = None /\ (backup[build[b]] # None => backup[build[b]] = latest)
    BY <1>8 DEF Restore
  <2>2. latest' = latest /\ catalog' = backup[build[b]]
    BY <1>8, <2>1 DEF Restore
  <2>3. LatestServed'
    BY <2>1, <2>2 DEF Restore
  <2>4. \A n \in started' + 1 .. Builds : backup'[n] = None
    <3> SUFFICES ASSUME NEW n \in started' + 1 .. Builds PROVE backup'[n] = None
      OBVIOUS
    <3>1. started' = started /\ backup' = [backup EXCEPT ![build[b]] = None]
      BY <1>8, <2>1 DEF Restore
    <3>2. n \in Build /\ backup[n] = None
      BY <3>1, ConstantsAssumption
    <3> QED
      BY <3>1, <3>2
  <2>5. step'[b] = "discard"
    BY <1>8 DEF Restore
  <2> QED
    BY <2>3, <2>4, <2>5
<1>9. CASE DropBackup(b) \/ Finish(b) \/ Discard(b) \/ Crash(b)
  <2>1. /\ step'[b] \in {"dropping", "idle"}
        /\ UNCHANGED <<catalog, latest, started>>
        /\ backup' \in {backup, [backup EXCEPT ![build[b]] = None]}
    BY <1>9 DEF DropBackup, Finish, Discard, Crash, Return
  <2>2. \A n \in started' + 1 .. Builds : backup'[n] = None
    <3> SUFFICES ASSUME NEW n \in started' + 1 .. Builds PROVE backup'[n] = None
      OBVIOUS
    <3>1. n \in Build /\ backup[n] = None
      BY <2>1, ConstantsAssumption
    <3> QED
      BY <2>1, <3>1
  <2> QED
    BY <2>1, <2>2
<1> QED
  BY <1>1, <1>2, <1>3, <1>4, <1>5, <1>6, <1>7, <1>8, <1>9 DEF BuilderStep

\* What the builder at work knows holds in every state.
LEMMA TurnsInvariance == Spec => []TurnsInv
<1>1. IInv /\ TurnsInv /\ [Next]_vars => TurnsInv'
  <2> SUFFICES ASSUME IInv, TurnsInv, [Next]_vars PROVE TurnsInv'
    OBVIOUS
  <2>1. CASE UNCHANGED vars
    BY <2>1 DEF vars, builderVars, history, TurnsInv, LatestServed, Gap
  <2>2. ASSUME NEW r \in Readers, ReaderStep(r) PROVE TurnsInv'
    <3>1. UNCHANGED builderVars
      BY <2>2, ReaderTypeOK DEF IInv
    <3> QED
      BY <3>1 DEF TurnsInv, LatestServed, Gap, builderVars, history
  <2> QED
    BY <2>1, <2>2, BuilderTurnsInv DEF Next
<1> QED
  BY <1>1, InitTurnsInv, CatalogInvariance, PTL DEF Spec

\* Builders that take turns, killed as often as one likes, never bring an older
\* catalog back over a newer one.
THEOREM LatestIsServed == Spec => []LatestServed
<1>1. TurnsInv => LatestServed
  BY DEF TurnsInv, LatestServed
<1> QED
  BY <1>1, TurnsInvariance, PTL

-----------------------------------------------------------------------------
(* The place of the catalog and what is left beside it.                    *)

\* A builder between its two renames has a catalog to put back, unless there has
\* never been one; the place is empty only then.
GapInv ==
    ~killed /\ ~overlapped =>
        /\ MissingOnlyInGap
        /\ \A b \in Builders :
              /\ step[b] = "move_aside" => had[b]
              /\ Gap(b) => latest = None \/ (had[b] /\ backup[build[b]] # None)

\* The builder at work began last and is about to install a newer catalog; what it
\* has not moved aside itself is older than the catalog installed last.
BackupInv ==
    ~killed /\ ~overlapped =>
        /\ latest # None => latest <= started
        /\ \A b \in Builders :
              /\ step[b] # "idle" => build[b] = started
              /\ step[b] \notin {"idle", "drop_backup", "dropping", "discard"} /\ latest # None =>
                    latest < build[b]
        /\ \A n \in Build : backup[n] # None =>
              /\ latest # None
              /\ backup[n] < latest \/ \E b \in Builders : Gap(b) /\ n = build[b]

\* A staging directory is that of a builder at work, which has not installed it yet.
StagingInv ==
    ~killed =>
        /\ \A n \in staging : \E b \in Builders : step[b] # "idle" /\ build[b] = n
        /\ \A b \in Builders : step[b] \in {"drop_backup", "dropping"} => build[b] \notin staging

\* What a step of the builder at work must restore of these.
LEMMA OwnGapInv ==
  ASSUME IInv, TurnsInv, GapInv, BackupInv, NEW b \in Builders, BuilderStep(b),
         ~killed', ~overlapped'
  PROVE  GapInv' /\ BackupInv'
<1>a. /\ ~overlapped
      /\ \A c \in Builders : c # b => step[c] = "idle" /\ step'[c] = "idle"
  BY AtWorkAlone
<1>b. ~killed
  BY DEF BuilderStep, Begin, WriteFile, Validate, Fail, Look, MoveAside, MoveAsideFails,
         Install, InstallFails, Restore, DropBackup, Finish, Discard, Crash, Return, history
<1>c. \A c \in Builders : c # b => ~Gap(c) /\ ~Gap(c)' /\ step'[c] # "move_aside"
  BY <1>a DEF Gap
<1>d. /\ step[b] # "idle" => build[b] \in Build /\ build[b] = started
      /\ Gap(b) => catalog = None
      /\ catalog # None => catalog = latest
      /\ catalog = None => latest = None \/ Gap(b)
      /\ step[b] = "move_aside" => had[b]
      /\ Gap(b) => latest = None \/ (had[b] /\ backup[build[b]] # None)
      /\ Gap(b) /\ backup[build[b]] # None => backup[build[b]] = latest
      /\ step[b] \notin {"idle", "install", "restore", "drop_backup", "dropping", "discard"} =>
            backup[build[b]] = None
  BY <1>a, <1>b, <1>c, ConstantsAssumption
     DEF IInv, TypeOK, BuilderInv, Build, TurnsInv, GapInv, MissingOnlyInGap, LatestServed, BackupInv
<1>e. /\ latest # None => latest <= started
      /\ step[b] \notin {"idle", "drop_backup", "dropping", "discard"} /\ latest # None =>
            latest < build[b]
      /\ \A n \in Build : backup[n] # None =>
            latest # None /\ (backup[n] < latest \/ (Gap(b) /\ n = build[b]))
  BY <1>a, <1>b, <1>c DEF BackupInv
<1>f. TypeOK /\ None \notin Build /\ \A n \in Build : n \in Nat
  BY ConstantsAssumption DEF IInv, Build
<1> USE <1>d, <1>f DEF TypeOK, Gap, Goto, history
<1>1. /\ catalog' = None => latest' = None \/ Gap(b)'
      /\ step'[b] = "move_aside" => had'[b]
      /\ Gap(b)' => latest' = None \/ (had'[b] /\ backup'[build'[b]] # None)
  <2>1. CASE Begin(b)
    BY <2>1 DEF Begin
  <2>2. ASSUME NEW f \in File, WriteFile(b, f) PROVE <1>1!:
    BY <2>2 DEF WriteFile, After, File
  <2>3. CASE Validate(b) \/ Fail(b) \/ Look(b) \/ MoveAsideFails(b)
    BY <2>3 DEF Validate, Fail, Look, MoveAsideFails, File
  <2>4. CASE MoveAside(b)
    BY <2>4 DEF MoveAside
  <2>5. CASE Install(b) \/ InstallFails(b)
    BY <2>5 DEF Install, InstallFails
  <2>6. CASE Restore(b)
    BY <2>6 DEF Restore
  <2>7. CASE DropBackup(b) \/ Finish(b) \/ Discard(b) \/ Crash(b)
    BY <2>7 DEF DropBackup, Finish, Discard, Crash, Return
  <2> QED
    BY <2>1, <2>2, <2>3, <2>4, <2>5, <2>6, <2>7 DEF BuilderStep
<1>2. GapInv'
  BY <1>1, <1>c DEF GapInv, MissingOnlyInGap
<1>3. /\ latest' # None => latest' <= started'
      /\ step'[b] # "idle" => build'[b] = started'
      /\ step'[b] \notin {"idle", "drop_backup", "dropping", "discard"} /\ latest' # None =>
            latest' < build'[b]
  <2> USE <1>e DEF Build
  <2>1. CASE Begin(b)
    BY <2>1, ConstantsAssumption DEF Begin
  <2>2. ASSUME NEW f \in File, WriteFile(b, f) PROVE <1>3!:
    BY <2>2 DEF WriteFile, After, File
  <2>3. CASE Validate(b) \/ Fail(b) \/ Look(b) \/ MoveAsideFails(b)
    BY <2>3 DEF Validate, Fail, Look, MoveAsideFails, File
  <2>4. CASE MoveAside(b)
    BY <2>4 DEF MoveAside
  <2>5. CASE Install(b) \/ InstallFails(b)
    BY <2>5 DEF Install, InstallFails
  <2>6. CASE Restore(b)
    BY <2>6 DEF Restore
  <2>7. CASE DropBackup(b) \/ Finish(b) \/ Discard(b) \/ Crash(b)
    BY <2>7 DEF DropBackup, Finish, Discard, Crash, Return
  <2> QED
    BY <2>1, <2>2, <2>3, <2>4, <2>5, <2>6, <2>7 DEF BuilderStep
<1>4. \A n \in Build : backup'[n] # None =>
            latest' # None /\ (backup'[n] < latest' \/ (Gap(b)' /\ n = build'[b]))
  <2> SUFFICES ASSUME NEW n \in Build, backup'[n] # None
               PROVE  latest' # None /\ (backup'[n] < latest' \/ (Gap(b)' /\ n = build'[b]))
    OBVIOUS
  <2> USE <1>e
  <2>1. CASE Begin(b)
    BY <2>1 DEF Begin
  <2>2. ASSUME NEW f \in File, WriteFile(b, f) PROVE latest' # None /\ (backup'[n] < latest' \/ (Gap(b)' /\ n = build'[b]))
    BY <2>2 DEF WriteFile, After, File
  <2>3. CASE Validate(b) \/ Fail(b) \/ Look(b) \/ MoveAsideFails(b)
    BY <2>3 DEF Validate, Fail, Look, MoveAsideFails, File
  <2>4. CASE MoveAside(b)
    BY <2>4 DEF MoveAside
  <2>5. CASE Install(b)
    <3>1. latest < build[b] /\ latest' = build[b] /\ backup'[n] = backup[n] /\ latest # None
      BY <2>5 DEF Install
    <3>2. backup[n] \in Build /\ latest \in Build /\ build[b] \in Build
      BY <2>5, <3>1 DEF Install
    <3>3. backup[n] < latest \/ backup[n] = latest
      BY <2>5, <3>1
    <3> QED BY <3>1, <3>2, <3>3
  <2>6. CASE InstallFails(b)
    BY <2>6 DEF InstallFails
  <2>7. CASE Restore(b)
    BY <2>7 DEF Restore
  <2>8. CASE DropBackup(b) \/ Finish(b) \/ Discard(b) \/ Crash(b)
    BY <2>8 DEF DropBackup, Finish, Discard, Crash, Return
  <2> QED
    BY <2>1, <2>2, <2>3, <2>4, <2>5, <2>6, <2>7, <2>8 DEF BuilderStep
<1>5. BackupInv'
  BY <1>a, <1>3, <1>4 DEF BackupInv
<1> QED
  BY <1>2, <1>5

\* A staging directory is removed by the builder that made it, or installed.
LEMMA OwnStagingInv ==
  ASSUME IInv, StagingInv, NEW b \in Builders, BuilderStep(b), ~killed'
  PROVE  StagingInv'
<1>1. ~killed
  BY DEF BuilderStep, Begin, WriteFile, Validate, Fail, Look, MoveAside, MoveAsideFails,
         Install, InstallFails, Restore, DropBackup, Finish, Discard, Crash, Return, history
<1>2. \A c \in Builders : c # b => step'[c] = step[c] /\ build'[c] = build[c]
  BY OthersKeep DEF IInv
<1>3. /\ \A n \in staging : \E c \in Builders : step[c] # "idle" /\ build[c] = n
      /\ \A c \in Builders : step[c] \in {"drop_backup", "dropping"} =>
            build[c] \notin staging /\ build[c] \in 1 .. started
      /\ TypeOK
  BY <1>1 DEF StagingInv, IInv, BuilderInv
<1> USE <1>2, <1>3 DEF TypeOK, StagingInv, Goto
<1>4. CASE Begin(b)
  <2>1. /\ step[b] = "idle" /\ step'[b] = "database" /\ build'[b] = started + 1
        /\ staging' = staging \cup {started + 1}
    BY <1>4 DEF Begin
  <2>2. started \in Nat
    BY ConstantsAssumption
  <2>3. \A c \in Builders : step'[c] \in {"drop_backup", "dropping"} => build'[c] \notin staging'
    BY <2>1, <2>2
  <2>4. \A n \in staging' : \E c \in Builders : step'[c] # "idle" /\ build'[c] = n
    BY <2>1
  <2> QED BY <2>3, <2>4
<1>5. ASSUME NEW f \in File, WriteFile(b, f) PROVE StagingInv'
  BY <1>5 DEF WriteFile, After, File
<1>6. CASE Validate(b) \/ Fail(b) \/ Look(b) \/ MoveAside(b) \/ MoveAsideFails(b)
            \/ InstallFails(b) \/ Restore(b) \/ DropBackup(b)
  BY <1>6 DEF Validate, Fail, Look, MoveAside, MoveAsideFails, InstallFails, Restore, DropBackup, File
<1>7. CASE Install(b)
  BY <1>7 DEF Install
<1>8. CASE Finish(b)
  BY <1>8 DEF Finish, Return
<1>9. CASE Discard(b)
  BY <1>9 DEF Discard, Return
<1>10. CASE Crash(b)
  BY <1>10 DEF Crash
<1> QED
  BY <1>4, <1>5, <1>6, <1>7, <1>8, <1>9, <1>10 DEF BuilderStep

\* What is known of the place of the catalog and beside it holds in every state.
LEMMA PlaceInvariance == Spec => [](GapInv /\ BackupInv /\ StagingInv)
<1> DEFINE PlaceInv == GapInv /\ BackupInv /\ StagingInv
<1>1. Init => PlaceInv
  BY ConstantsAssumption DEF Init, GapInv, MissingOnlyInGap, Gap, BackupInv, StagingInv, Build
<1>2. IInv /\ TurnsInv /\ PlaceInv /\ [Next]_vars => PlaceInv'
  <2> SUFFICES ASSUME IInv, TurnsInv, PlaceInv, [Next]_vars PROVE PlaceInv'
    OBVIOUS
  <2>1. CASE UNCHANGED vars
    BY <2>1 DEF vars, builderVars, history, GapInv, MissingOnlyInGap, Gap, BackupInv, StagingInv
  <2>2. ASSUME NEW r \in Readers, ReaderStep(r) PROVE PlaceInv'
    <3>1. UNCHANGED builderVars
      BY <2>2, ReaderTypeOK DEF IInv
    <3> QED
      BY <3>1 DEF GapInv, MissingOnlyInGap, Gap, BackupInv, StagingInv, builderVars, history
  <2>3. ASSUME NEW b \in Builders, BuilderStep(b) PROVE PlaceInv'
    <3>1. ~killed' /\ ~overlapped' => GapInv' /\ BackupInv'
      BY <2>3, OwnGapInv
    <3>2. ~killed' => StagingInv'
      BY <2>3, OwnStagingInv
    <3> QED
      BY <3>1, <3>2 DEF GapInv, BackupInv, StagingInv
  <2> QED
    BY <2>1, <2>2, <2>3 DEF Next
<1> QED
  BY <1>1, <1>2, CatalogInvariance, TurnsInvariance, PTL DEF Spec

\* RagCatalogBuilder._promote puts the previous catalog back when a build raises:
\* builders that take turns and are not killed leave no gap behind.
THEOREM GapIsTransient == Spec => []MissingOnlyInGap
<1>1. GapInv => MissingOnlyInGap
  BY DEF GapInv, MissingOnlyInGap
<1> QED
  BY <1>1, PlaceInvariance, PTL

\* No builder that returns or raises leaves its staging directory behind, and a
\* backup that it could not remove is older than the catalog it has installed.
THEOREM NothingLeftBehind == Spec => []NothingNewLeftBehind
<1>1. IInv /\ TurnsInv /\ GapInv /\ BackupInv /\ StagingInv => NothingNewLeftBehind
  <2> SUFFICES ASSUME IInv, TurnsInv, GapInv, BackupInv, StagingInv,
                      ~killed, \A b \in Builders : step[b] = "idle"
               PROVE  /\ staging = {}
                      /\ ~overlapped => \A n \in Build :
                            backup[n] # None => catalog # None /\ backup[n] < catalog
    BY DEF NothingNewLeftBehind
  <2>1. staging = {}
    BY DEF StagingInv
  <2>2. ASSUME ~overlapped, NEW n \in Build, backup[n] # None
        PROVE  catalog # None /\ backup[n] < catalog
    <3>1. latest # None /\ backup[n] < latest
      BY <2>2 DEF BackupInv, Gap
    <3>2. catalog # None
      BY <2>2, <3>1 DEF GapInv, MissingOnlyInGap, Gap
    <3>3. catalog = latest
      BY <2>2, <3>2 DEF TurnsInv, LatestServed
    <3> QED BY <3>1, <3>2, <3>3
  <2> QED BY <2>1, <2>2
<1> QED
  BY <1>1, CatalogInvariance, TurnsInvariance, PlaceInvariance, PTL
=============================================================================
