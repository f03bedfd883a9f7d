# A verification development for document-enhancer

`document_enhancer` turns a source document into an evidence-linked draft, waits
for a human reviewer, promotes the approved draft to final outputs and seals the
result. Sealed bundles feed a retrieval catalog that answers questions with
citations. This directory models that program in TLA+, checks the models with
TLC on small instances and proves theorems about them with TLAPS.

Paths below are relative to `src/src/document_enhancer/` unless they begin with
`src/`. `PROJECT.json` lists, for every definition that models code, the lines it
stands for; for every property, a mutation of the model that breaks it; and the
hazards the properties are aimed at.

## 1. Inventory

| Component | State | Operations | What makes it hard |
|---|---|---|---|
| Run bundle and runner (`core/runner.py`, `core/store.py`, `core/layout.py`) | `json/00-run.json`, the registered artifact files, `review/decisions.yaml`, `json/12-seal.json`, `.run.lock`; in memory: one `RunRecord` per call | `start`, `resume` (review, interrupted analysis, interrupted or failed promotion) | every store call is one atomic replace under a lock, an operation is thirty of them; any process can be killed between two; two resumes can race; the reviewer edits without a lock |
| Integrity contracts (`core/integrity.py`, `core/models.py`) | digests in the record, the seal manifest, the resume identity | verify artifacts, capture/compare identity, build/validate/migrate the seal | checks made before the lock must be repeated under it |
| Review and decision gate (`core/review.py`, `core/recipes.py`, `core/audit.py`) | none: pure functions of draft, review, decisions | questions, suggestions, dispositions, audit checks | which decision leaves what unresolved; checks that cannot fail |
| Transformation and drafts (`core/transformation.py`, `core/context_budget.py`, `core/rewrite.py`) | none | coverage validation, rendering, revision by decisions | every source span in a place that cites it; answers that replace text in turn |
| Live providers (`core/providers.py`) | none | one method per artifact, calls of the gateway | partial failure of several calls |
| Figures (`core/visuals.py`, `core/figures.py`) | candidate manifest, image files | interpretation within limits, references and appendix | a place of the source is looked for in a text that was rewritten |
| Structured model gateway (`llm/`) | response cache on disk, `last_manifest`, per-call counters | `invoke`, `ainvoke`: cache, attempts, repairs, retries, budget, promotion validators, fallback route | retries, repairs and fallback share one call; a cached response must be as valid as a fresh one |
| Retrieval catalog (`retrieval/catalog.py`, `chunking.py`, `embeddings.py`, `models.py`) | catalog directory: manifest, SQLite database, FAISS index; staging and backup directories | `build`, `open`, `search`, `close` | promotion by two renames, crashes between them, readers during a build |
| Index of sealed bundles (`core/indexing.py`, `core/export.py`) | SQLite index of bundles | `load_sealed_bundle`, `index`, `search` | a bundle whose seal is invalid must not be indexed |
| Question answering (`retrieval/agent.py`, `corpus.py`, `evaluation.py`) | per-question graph state and evidence ledger | plan, tool calls, answer, validate citations; corpus batches and reduction | an answer must cite what was retrieved; coverage must count failed batches |
| Reference packs (`references/`, `core/recipes.py`) | none; the files of a pack may change | validation, precedence, compilation of a recipe | what was checked is read again to be used; what a check tolerates is used |
| Ingest (`ingest/`) | none | parse, normalize, score structure | which documents are sent to recovery |
| Command line (`cli.py`, `config.py`) | none | options to runner calls, exit codes | the configuration of a continued run |
| HTML report (`core/html_report.py`) | none | render | written twice, before and after the verdict |

How they interact: the command line builds a `CoreRunner` with a recipe, a
provider and a configuration and calls `start` or `resume`. The runner calls
ingest, the provider (which calls the gateway for every structured artifact) and
the renderers, and stores each result through `RunStore`. `_finish` runs inside
`RunStore.locked_promotion`: it verifies every registered artifact, writes the
outputs, audits them and seals the bundle. The index and the catalog read only
sealed bundles, through `load_sealed_bundle`; question answering reads the catalog.

Properties that would make each component correct:

* Run bundle: only approved and complete decisions are sealed; a seal never mixes
  the outputs of two attempts; sealed bytes never change; a refused or killed
  call leaves a run that can go on; every call returns.
* Gateway: what is returned satisfies the schema and the promotion validators,
  cached or not; attempts, repairs and route changes are bounded; a fallback is
  recorded as one; a failure that is not retryable is not retried.
* Catalog: a reader that succeeds has manifest, database and index of one
  build; a build that fails leaves the previous catalog; after a crash the
  catalog is the old one, the new one, or absent, never a mixture.
* Index: an indexed bundle was sealed and verified when it was indexed.
* Review, transformation, figures: what is sealed has nothing open in it and has lost
  neither source nor answers nor figures; a run that waits for a reviewer can be
  sealed by some decisions.
* Reference packs: a recipe that comes out of a load is one that the checks passed,
  and a run is resumed by the recipe it was started with.
* Question answering: every citation is a retrieved chunk; a corpus answer that
  claims full coverage had no failed batch.


## 2. Plan

Modules in the order they were written.

1. `RunBundle`, with the abstract `ReviewGate`, the refinement `RunBundleGate`,
   the inductive invariants `RunBundleInvariant` and `RunBundleStages`, and their proofs.
2. `RagCatalog`: builders, crashes and readers over the catalog directory, with its
   proofs.
3. `ModelGateway`: concurrent structured calls over one response cache (attempts,
   retries, repairs, fallback, time-outs, restarts), with its proofs.
4. `RagAnswer` and `CorpusAnswer`, composed by `AdaptiveRag`: the focused agent, whose tool
   calls run in threads over one unlocked ledger, and the corpus map, of which batches
   fail; proofs about both, which need `FoldTheorems`.
5. `Transformation`, `ReviewContent`, `OfflineDraft`, `SourceFigures` and
   `DraftRevision`, composed by `DraftRun`: what a run says, from the source to the
   sealed text, where `RunBundle` has the files and the processes.
6. `ReviewGraph` and `SealContract`, composed by `SealedBundle`: what a sealed bundle
   has in it, which bundles load, and the index they go to.
7. `PackRules`, used by `ReferencePack`: reference packs that change while they are
   loaded, and the recipes that come out.

All of them are complete. Everything the runs check is proved but liveness, two properties
of `DraftRun` and one of `SealedBundle`; section 11 says which and why.

## 3. The run bundle

### State and actions

`RunBundle.tla` has the persistent state of one bundle and the memory of any number
of processes that work on it.

| Variable | Code |
|---|---|
| `record` | the `RunRecord` in `json/00-run.json`; `refs` holds for each kind of artifact the registered bytes, in place of their digest |
| `files` | the bytes at the registered paths |
| `yaml` | `review/decisions.yaml`; `review` names the review whose questions and suggestions it quotes |
| `seal` | `json/12-seal.json` |
| `lock` | the holder of `.run.lock` across `locked_promotion` |
| `pc`, `loc`, `expect`, `conf` | per process: its next store call, the record it carries, the `ResumeIdentity` it captured, the configuration of its runner |
| `starter` | the process inside `CoreRunner.start` |

A store call of `RunStore` takes `.run.lock`, so it is one step; what a process
computes between two store calls is local and belongs to the next one. While a
promotion holds the lock, store calls of other processes wait (`At`). Reads that
the code makes without the lock are steps of their own (`Call` loads the record,
`ReadDecisions` the editable file, `CheckRecovery` verifies before the lock).

`Start` to `SaveWaiting` and `WriteReport`/`SaveReport` are `start`; `StartFails`
is its exception handler, which saves the failure. `ResumeAnalysis`,
`ResumeReview` and `ResumePromotion` are the three ways `resume` can go;
`Submit`, `SaveDecisions`, `VerifyInputs`, `SaveUnresolved` store and judge the
decisions; `Promote` takes the lock and compares the identity; `Prepare` to
`SaveSealed` are `_finish`. `EditDecisions` is the reviewer. `Crash` kills a
process at any point; a guard of the code that fails raises, which saves nothing
and has the effect of `Crash`.

### Abstractions

* Artifacts are grouped by the operation that writes them (`Key`). The files of
  a group are always written together by one process between two saves, and
  what a group contains is reduced to what it was made from: the candidate and
  configuration for draft and review, the decisions and the draft for the
  outputs, the outcome for the audit, the status for the report. `Stamps` are
  the time stamps of the DOCX package, the one part of the outputs that a
  retry does not reproduce.
* Digests are the bytes themselves: no collisions.
* A write of a file is atomic (`_atomic_write` replaces), so a crash leaves the old
  or the new bytes.
* Bundles without a draft, which only runs made before the transformation provider
  existed have, are left out, as is an editor that saves an older buffer of
  `decisions.yaml` over a newer file.

### What the runs show

All runs allow a crash at every step. `CHECK_DEADLOCK FALSE` is set because the
number of calls is bounded by `MaxOps`: when it is used up and nobody is inside a
call the system stops.

| Run | Instance | Shows |
|---|---|---|
| `RunBundle_overlap` | two processes, two candidates, two time stamps, four calls, resume at any time | `IInv`, the invariant of the proofs; `SealedDecisionsComplete`, `SealedAuditCoversFinal`, `SealedBytesIntact` |
| `RunBundle_stage2` | two processes, two candidates, two configurations, three calls, resume after stage 1, fairness | `SealedRecordAgrees`, `WaitingRunCanResume`, `FirstInterruptionRecoverable`, `PromotionKeepsInputs`, the refinement `ImplementsReviewGate`, and `CallsReturn` |
| `RunBundle_final` | the smallest that shows it | a disagreement, section 12 |

Bounds. Two processes are what a race needs; three calls are `start` and two
resumes, so that an interrupted analysis, a refused review, a promotion that failed or was
killed is followed by another call; four add one more to what two resumes at once left
behind. One blocking question with one answer has both outcomes (open, answered); two
candidates tell two analyses apart; two time stamps make a retry write other bytes;
two configurations tell a matching from a mismatched resume. These values are only
compared for equality, so `RunBundle_overlap` uses `SYMMETRY`; the run with a liveness
property does not.

Fairness. `FairSpec` says of every process that if it can continuously make its
next store call or raise, it does. The code justifies it: a call is a straight
sequence of store calls with bounded work between them, the run lock is released
by a context manager or, when its holder dies, by the kernel, and a process that
waits for the lock is not required to move while another holds it. Nobody is
required to call, to crash or to edit the decisions.

## 4. The review gate

`ReviewGate.tla` says what a bundle promises a reviewer without files, processes
or locks: decisions are committed once, complete and approved; a retry promotes the
committed decisions; a seal stands on them. `RunBundleGate.tla` reads the stage
off the saved record and the sealed decisions off the seal;
`ImplementsReviewGate` is the abstract specification under that mapping. It holds
when resume is called after stage 1 has ended (`Overlap = FALSE`). When they
overlap it does not: `start` saves its record without comparing it
(`RunBundle_final`).


## 5. The retrieval catalog

### State and actions

`RagCatalog.tla` has the directories of one catalog and the processes that use it,
with no lock between any of them, as in the code. A directory is known by the number
of the build that made it, whatever path it has at the moment.

| Variable | Code |
|---|---|
| `files` | the files in a build's directory (`catalog.sqlite3`, `faiss/`, `manifest.json`) |
| `catalog` | the directory at the path of the catalog |
| `staging`, `backup` | the directories at the staging path and at the backup path of each build |
| `step`, `build`, `had` | per builder: its next file operation, its build, what `exists()` returned in `_promote` |
| `reading`, `seen` | per reader: its next file operation, the build of each file it has read |
| `started` | builds so far |
| `latest`, `killed`, `overlapped` | history: the build installed last; whether a builder was killed; whether two were at work at once |

`Begin` to `Validate` and `Finish` are `build`, `Look` to `DropBackup` are `_promote`, `Discard` is the
`except` clause of `build`. Each rename is a step and can be refused; each step of a
builder can be its last (`Crash`). `ReadManifest` to `ValidateCounts` are `open`, one
step per access to a file, since each goes through the path of the catalog again.
An exception in a reader is `Close`.

### Abstractions

* The contents of a build are its number; what the counts of rows and vectors can
  tell apart is the constant `Size`.
* A rename is atomic, and one onto an existing catalog is refused (a catalog's
  directory is never empty).
* When the rename that brings the backup back is refused for another reason than
  that the path is taken, the outcome is that of a crash between the renames; it
  is not modelled separately.
* Embeddings, SQL and search read an open catalog and change nothing.

### What the runs show

`CHECK_DEADLOCK FALSE` because the number of builds is bounded.

| Run | Instance | Shows |
|---|---|---|
| `RagCatalog_builds` | two builders, four builds of different size, one reader, crashes | `IInv`; `ServedCatalogComplete`; for builders that take turns `LatestServed`, and if none is killed `MissingOnlyInGap` |
| `RagCatalog_mixed` | the smallest that shows it: `OneBuildOpen` | a disagreement, section 12 |

Bounds. Two builders are what an overlap of promotions needs; with four builds each can
find, move aside and put back a catalog of the other after a first one is
installed. Readers do not disturb anybody, so one is enough. `Size` is different for each
build in `RagCatalog_builds` and the same for all in `RagCatalog_mixed`: a reader can mix
only builds whose counts agree. No liveness is claimed: a call of `build` is a
straight line, and nothing in the code makes anyone build or read.

## 6. The model gateway

### State and actions

`ModelGateway.tla` has the threads inside one gateway object, the cache directory, and
the configuration of the running process. `ainvoke` starts one thread per call; the
provider answers in any way at every attempt.

| Variable | Code |
|---|---|
| `cached`, `noted` | per cache key: the route that made the response on file, the `effective_route_id` its record names |
| `allow` | `config.allow_pro_fallback` of this process |
| `last` | the call `last_manifest` is about |
| `step`, `request`, `route`, `prompt`, `prompts`, `attempts`, `retries`, `repairs`, `fallback` | the locals of `invoke` and `_invoke_route`: `attempt_prompt_digests` is `prompts`, `provider_retries` is `retries` |
| `made`, `named` | of the call a thread returned last: the route that made its artifact, the effective route of its manifest |
| `timedOut` | the caller in `ainvoke` has given up |
| `calls`, `sent`, `rejected`, `returned`, `overlapped`, `torn`, `allowed` | history |

`Begin`, `CacheHit` and `CacheMiss` are `invoke` up to the provider. `Send` is the attempt,
and the actions of `Answer` are what follows it: `Accept` the `else` clause, `Repair` and
`RepairFails` the handler of invalid answers, `Retry` and `ProviderFails` that of errors,
`FallBack` the handler in `invoke`. `Put`, `PutEvidence` and `PutFails` are the writes to the
cache, of which a fallback makes two. `Timeout` is `asyncio.timeout`; `Restart` kills the
process and starts one with another configuration.

### Abstractions

* A request is what the cache key is made of, and a cache is configured. The
  promotion validator of a call and `allow_pro_fallback` are not part of the key.
* The flash and flash-lite routes differ in nothing the control depends on.
* A corrective prompt is known by the findings in it, since the base prompt is the
  same. Which findings an answer gives rise to is free.
* Which class an error has is free; an exceeded budget is one that is not retried.
* A cache write puts its record in place or not, and may raise in both cases. A
  cache file is replaced by a rename and so never half written.
* A reader's `json` errors and digest mismatches are cache misses, as in the code.

### What the runs show

`CHECK_DEADLOCK FALSE` because the number of calls is bounded.

| Run | Instance | Shows |
|---|---|---|
| `ModelGateway_calls` | two threads, three calls, one pro and one flash request, two findings, one retry, two repairs | `IInv`; `BoundedProviderCalls`; `RejectedPromptNotRepeated`; `CacheNamesProducer`, `ManifestNamesProducer`; `FailsClosed`; `LastManifestIsOwn` |

`ainvoke` does not cancel its thread when it times out (`Timeout` leaves the call
running): it goes on to send its retries, repairs and fallback and to write the cache, so all
properties are checked with such calls still at work, although `llm/models.py:1110`
speaks of "cancellation propagation and an explicit timeout".

What the properties exclude is what the code does not give: `CacheNamesProducer` and
`ManifestNamesProducer` except a fallback that was interrupted between its two writes, after
which the cache claims a pro response for good; `FailsClosed` excepts a cache that any gateway
with `allow_pro_fallback` has used; `LastManifestIsOwn` excepts calls that overlap.

Bounds. The counters of a route are independent, so one retry and two repairs show
every order of them that matters: two repairs are needed for a corrective prompt to be asked
for twice. Three calls let a third one meet what two overlapping ones have left in the
cache. No liveness is claimed beyond `BoundedProviderCalls`, since an answer of the
provider may never come.

## 7. Question answering

### State and actions

`AdaptiveRag.tla` is one question: `plan_query` sends it to the focused agent
(`RagAnswer.tla`) or to the corpus map (`CorpusAnswer.tla`), which share no state.

| Variable | Code |
|---|---|
| `plan` | the `QueryPlan` |
| `phase`, `supersteps` | whose turn it is in the graph of `agent.invoke`, and the steps LangGraph counts against `recursion_limit` |
| `closure` | `tool_calls`, `ledger`, `chunk_evidence`, `evidence_characters`, which the tools close over |
| `call` | per tool thread: its next step, and the locals of `register` |
| `sources` | the sources of the `AnswerResult` |
| `seen` | history: calls served, cards shown, whether two threads were in `register` at once, whether a call of the model or of a tool failed |
| `stage`, `coverage`, `selected`, `pending`, `batches`, `evidence`, `examined`, `runRows`, `rows`, `matched`, `failed`, `reduced`, `report` | the locals of `CorpusAnswerer.answer` |

The tool calls of one message of the model run in threads of their own: that is
LangChain's doing, modelled as external, and the code is written for it (the catalog
opens SQLite with `check_same_thread=False`, `retrieval/catalog.py:451`, and searches under
`_db_lock`). What the tools share has no lock. A step of a thread is what it does
between two calls of functions, since CPython may switch threads at a call: `Enter` counts,
`Refuse` and `Serve` compare, `Search` is one call of the catalog under its lock, `Look` to
`Add` are one turn of the loop in `register`, `Cards` makes the cards. `Store` reads
`evidence_characters` and `Add` writes it because `len(chunk.text)` is called between the
two. `search_evidence` and `expand_graph` share these steps and differ in what they ask
of the catalog.

`ModelCalls`, `Reformulate`, `ModelAnswers`, `NoAnswer` and `ModelFails` are what the model
may do, and it may do any of them at any turn; `Answer` is `validate_answer`. In
`CorpusAnswer`, `TakeDocument` selects and batches the chunks of a document, `MapBatch`
and `MapFails` are one call of `_map_batch` with the check of its citations, `FinishDocument`
the `else` clause of the loop, and `NothingToReduce`, `Reduce`, `ReduceFails` the end.

### Abstractions

* What the catalog returns is any sequence of distinct chunks up to its limit: which
  ones, and what graph expansion finds, are not modelled.
* A claim is its set of citations and a row its key, statement and citations. The words
  of a question are reduced to whether they speak of the corpus.
* A reply of the model whose rows cite outside the batch, or of the reducer that cite what
  no row cited, is a failure, as is any exception of the model: `MapFails`, `ReduceFails`.
* The trace, latencies and the history of a chat change no decision. A chat asks its
  questions one after the other, each with fresh state.

### What the runs show

`CHECK_DEADLOCK FALSE` because a question ends.

| Run | Instance | Shows |
|---|---|---|
| `AdaptiveRag_answers` | two tool threads, three chunks of two sizes, budgets of two calls, two chunks and three characters; a catalog of two documents, of which one has a chunk larger than a batch | `ToolBudgetKept`, `CardsAreInLedger`, `EvidenceWithinBudget`, `AnswerCitesEvidence`, `NumbersAreStable`; `RowsRestOnSoundDocuments`, `ExhaustiveReadsAll`, `BatchesFit`, `ReportAddsUp`; `QuestionEnds` |

Rows that conflict are not asked for: `_deduplicate` knows a row by its key alone and
reports the first of two that say different things, although the reducer is told to
"preserve genuinely distinct or conflicting items" (`retrieval/corpus.py:52`).

What the properties exclude is what the code does not give. Two threads in `register` at
once can take the same number, after which a card that was shown stands for another
chunk, and can each pass the check of the bounds before either has stored its chunk:
`NumbersAreStable` holds without such a race, and `EvidenceWithinBudget` states the
strict bound without one and a weaker bound with one. That an answer cites only
what the model has seen (`AnswerCitesEvidence`) holds with races too.

Bounds. Two threads are what a race needs; three chunks, one more than the ledger has
room for, let a hit be known, fit, or not fit by number or by size. Batches of two out of
four chunks have a first, a full and a last one; one document fails while the other
succeeds.

Fairness. `WF_vars(Focused)` lets the agent go on while it can: calls of the provider
time out, the tools wait for nobody but the lock of the catalog, and every loop in them is over
a finite list. Nothing is required of the user or of the corpus map. `QuestionEnds`
says more than that the question ends, which is LangGraph's part: the model may call tools
for ever, the limit of `agent.py:212` stops it between two of its steps with an exception,
and `answer` makes a result of that one (`LimitReached`) and raises every other one again
(`ModelFails`, `SearchFails`). A question in which no call failed must therefore end with an
answer or as insufficient; its mutant, which does not tell the exceptions apart, ends it as
raised.

## 8. The content of a run

`RunBundle` follows the files and phases of a run and treats what they say as opaque.
`DraftRun.tla` follows what they say, from the source to the sealed document, through
one instance per component:

| Module | Code |
|---|---|
| `Transformation` | the contracts of a mapping, a draft and an audit (`core/transformation.py`), and the promotion of a provider's answers into them (`core/providers.py`) |
| `ReviewContent` | the questions of the deterministic review (`core/review.py`) and what a review provider, the mapping and the figures add |
| `OfflineDraft` | what the runner answers itself where no transformation provider is configured |
| `SourceFigures` | what a visual provider may say of a figure, the references and the appendix (`core/visuals.py`, `core/figures.py`), and the checks of the audit on them |
| `DraftRevision` | stage 2: the decisions applied to the draft, and the other checks of the final audit (`core/rewrite.py`, `core/audit.py`) |
| `DraftRunInvariant`, `DraftRunProofs` | the inductive invariant and what is proved with it (section 11) |

### State and actions

| Variable | Code |
|---|---|
| `phase` | where the run is: visuals, analyze, draft, audit, waiting, failed, sealed or blocked |
| `provider`, `source` | the configuration, and the spans of the normalized source |
| `figures` | the figures with a visual candidate, after `_interpret_visuals` |
| `mapping`, `draft`, `fidelity` | the promoted `MappingBundle`, the mapping with its drafted texts, the Stage 1 audit |
| `questions` | the questions of the merged review, in order |
| `decisions`, `waivers` | what `decisions.yaml` held when Stage 2 ran |
| `final` | the final document |

A text is a sequence of tokens: `head`, `text`, `ph` (a placeholder), `gap` (a callout),
`cand` (a visual candidate), `mark` and `ask` (the review markers at the end), `ans` (an
answer put in), `log` (the decision log), `fig` (a reference), `refs` (the heading over
the references without a place), `shot` (an entry of the appendix). A source says per span
under which heading it is, its placeholders, whether it conflicts or is disputed, what
evidence it has, and the figure ids that its prose and its captions mention.

| Action | Code |
|---|---|
| `InterpretVisuals` | `_interpret_visuals`: the figures in order, within the limits, and which of them stay candidates |
| `MapDocument` | `map_document`, its validation and promotion, and the merge of all questions |
| `GenerateDraft` | `generate_draft` and its checks against the frozen mapping |
| `AuditDraft` | `audit_draft`; a draft that fails is still offered for review |
| `CallFails` | a live call that does not fit its context or that the gateway gives up on |
| `Continue` | `resume` with a `decisions.yaml` the gate lets through: revision, appendix, final audit, seal |
| `Retry` | the same again for a run whose audit failed |

### Abstractions

* A span's prose is one token, so anchors, overlap of titles and fidelity are decided on
  whole spans; a section title is the id of the template section it matches best.
* One kind of placeholder, one conflict marker, one template. Steering replaces fixed
  phrases and is left out, as are DOCX and HTML. A size includes the caption.
* `DecisionFiles` are those an editor leaves: a disposition per question, entries removed,
  in the generated order or turned round. A file that the gate refuses changes nothing
  here (in `RunBundle` it does).

### What the runs show

`CHECK_DEADLOCK FALSE` because a run ends; no fairness, and no liveness is claimed.

| Run | Instance | Shows |
|---|---|---|
| `DraftRun_stages` | three spans, two template sections of which the first is required, two figures of which the first occurs twice, before all prose and at the end; 13 offline sources and one live source; 23 answers to `map_document`, of which 13 must be refused, four to `generate_draft`, three to `audit_draft`; two reviews of a provider; limits for one figure and for two | `SealedTextIsClean`, `OfflineKeepsAnswers`, `OfflineKeepsSource`, `ReviewSurvivesProviders`, `SealableExactlyWhen` |
| `DraftRun_placeholder` | the same | must find `AnswersInPlace` violated |
| `DraftRun_defer` | the same | must find `DeferPausesStageTwo` violated |

The bounds are small and the sources are chosen: three spans, since a figure may come before the
prose of one section and again behind that of the next, where its reference then goes; two placeholders in one section and in
two, a missing required section, a conflict, a heading the template lacks, no heading at
all, a figure before and behind its prose, unknown figure ids. Two of each is what it takes
for one to be mistaken for another.

`SealableExactlyWhen` says when a reviewer can get out at all. The mapping may place a span
in a section that does not cite it, omit one, or name a gap in two sections; a caption may
name a figure that the source lacks; each of these passes Stage 1, is offered for review,
and no decision seals it.

## 9. The index of sealed bundles

`SealedBundle.tla` has one bundle directory, the loader that reads it
(`load_sealed_bundle`) and the processes that fill one SQLite index from it
(`CoreBundleIndex`). `ReviewGraph.tla` makes the graphs that the bundle exports,
`SealContract.tla` the list of links, the seal, and what the loader asks of each file.

| Variable | Code |
|---|---|
| `run` | the run that made the bundle |
| `files`, `seal`, `changes` | the directory, `json/12-seal.json`, and the bound on its changes |
| `calls`, `step` | per process: its calls of `index`, and where the call is |
| `manifest`, `data` | per process: the seal it read and the artifacts it has read since |
| `exists`, `tables`, `rows` | the database file, its tables, the committed rows of the bundle |
| `pending`, `indexed` | the open transaction, and whether any call has returned |

| Action | Code |
|---|---|
| `ReplaceBundle`, `ReplaceFile`, `ReplaceSeal` | the directory is replaced by another version, at once or one file of it, or gets another seal: the code takes no lock on it |
| `MigrateSeal` | `migrate_legacy_seal_manifest` |
| `Index` … `ReadArtifact` | `load_sealed_bundle`: the seal, every registered artifact, the original, and each artifact verified, then opened |
| `Connect`, `Create`, `Write`, `Commit`, `Busy` | `CoreBundleIndex.index`: SQLite takes each statement by itself, the `CREATE`s commit at once, one connection writes at a time |
| `Kill` | the process is killed at any step; SQLite rolls an open transaction back |

`SearchResult` is what `search` answers. Ranking, snippets and paths are left out; a file
that cannot be parsed and a symbolic link are refused like a missing file; content stands
for its digest.

| Run | Instance | Shows |
|---|---|---|
| `SealedBundle_index` | two indexers with one call each, one change of the directory, 12 runs (hooks in two cases, types the recipe does not know, processes, an added edge, a failed check, a mapping with a target of its own and a dropped section), two other versions; symmetry of the indexers | `LoadedExactlyWhenSealed`, `IndexHoldsOneSnapshot` |

One change suffices for every pair of a check and a use; the second indexer is there for
the lock of the database and for the rollback. Symmetry is sound: no property and no choice
names an indexer. `CHECK_DEADLOCK FALSE` because calls run out.

What the properties exclude. A requirement that repeats a hook in another case gives two
nodes with one id: the audit passes, the run is sealed, and the loader refuses it
(`HooksDistinct`). An old seal that is upgraded vouches for the graph, the ontology and the
links as they are at that moment, although the old seal never named them
(`core/integrity.py:579`); so what `IndexHoldsOneSnapshot` promises of the graph is that it
was made for this final document, perhaps by another run with the same text.

## 10. Reference packs

`ReferencePack.tla` has one pack directory and the runners that load it; one of them starts
a run, the others resume it. `PackRules.tla` has the checks of a manifest and of its files,
and the recipe.

| Variable | Code |
|---|---|
| `files`, `changes` | the directory, and the bound on its changes |
| `step`, `manifest`, `data` | per runner: where its load is, the manifest it goes by, what it has read |
| `quiet` | per runner: history, whether the directory stayed as it was during the load |
| `recipe` | per runner: the `DocumentRecipe` |
| `record`, `resumed` | the recipe of the run record, and the runners that were let through |

| Action | Code |
|---|---|
| `ReplacePack`, `ReplaceFile` | the directory is edited or replaced while it is read: nothing locks it |
| `ReadManifest` … `CheckRubrics` | `ReferencePackValidator.report`: the manifest, the digests, the listing, and the files once more for the checks of their content |
| `Reload`, `Compile` | `EnterpriseReferencePackLoader.load` and `load_recipe`: the manifest and the files a third time, without digests |
| `BuildWithoutPack` | a runner that is given no pack |
| `Start`, `Resume` | the recipe is recorded, and compared on resume |

The first error ends a load here; the code collects them and then refuses. A file is one of a
few variants, and a digest the variant it was taken of. One document type is asked for. A
context source is selected by what it says of itself; how documents are chosen by date is
kept, which text they hold is not. Every file is within the limits of `_safe_yaml_load`
(size, depth, nodes, aliases): the checks apply them, `recipes.py:150` does not when it reads
the files for the recipe. A manifest that loses its paths of types behind the checks gives a
recipe without types (`Skips`); one of the packs that may come in has such a manifest.

| Run | Instance | Shows |
|---|---|---|
| `ReferencePack_loads` | 37 packs with one defect or none, two changes of the directory, two runners | `LoadedRecipeIsUsable`, `ResumedReviewIsSound` |

Each pack has at most one defect, so that no check hides behind another, and two changes
are enough to replace a file behind its check and to put it back. `CHECK_DEADLOCK FALSE`
because loads end.

`LoadedRecipeIsUsable` is about quiet loads, because another one proves nothing:
between its checks and its reads a runner can mix two packs into a recipe whose table has
no section, and start a run by it. `ResumedReviewIsSound` is what is left: the digest of
the recipe that `resume` compares holds all of the recipe, so no runner with a sound pack
continues such a run. It can never be resumed, then, by anybody.

## 11. Proofs

`RunBundleProofs.tla` proves, for all processes, configurations, candidates, questions,
answers, time stamps and any bound on the calls, and with `Overlap` either way:

| Theorem | Statement |
|---|---|
| `Invariance` | `Spec => []IInv` |
| `TypeCorrectness` | `Spec => []TypeOK` |
| `SealCompleteness` | `Spec => []SealedDecisionsComplete` |
| `SealCoherence` | `Spec => []SealedAuditCoversFinal` |
| `SealIntegrity` | `Spec => []SealedBytesIntact` |

Assumptions: `ConstantsAssumption` (the bounds are what they should be and `None` is not a
process, an answer, a candidate or a configuration), `NoneIsNoContent` and
`NoneIsNoRecord` (`None` is neither the bytes of a file nor a record). TLC evaluates
them in every run.

Argument. The three seal properties are not inductive: the step that writes the
seal copies the record in memory, so one needs to know what a promoter has in
memory at that point. `IInv` (in `RunBundleInvariant.tla`) says it, step by step:
who holds the lock is promoting and who promotes holds it (`LockInv`); before
`verify_inputs` the captured identity is the record in memory, and before
`promote` it is complete (`ReviewingInv`); under the lock, decisions, outputs and
audit in memory match each other as soon as each is written (`PromotingInv`). A
promoter takes its record from `record`, which it compares with the complete
identity under the lock, whence completeness; every write is refused once there is
a seal, and `WriteSeal` verifies the bytes, whence integrity. Each action has a
lemma that it preserves `IInv`; `NextIInv` collects them.

It goes on, for the same constants and `Overlap = FALSE`: resume is
called only after stage 1 has ended, as a user does who waits for the review.

| Theorem | Statement |
|---|---|
| `StageInvariance` | `Spec => []StageInv` |
| `RecordAgreement` | `Spec => []SealedRecordAgrees` |
| `WaitingIsResumable` | `Spec => []WaitingRunCanResume` |
| `InterruptionIsRecoverable` | `Spec => []FirstInterruptionRecoverable` |
| `InputsKept` | `Spec => PromotionKeepsInputs` |
| `GateRefinement` | `Spec => ImplementsReviewGate` |

The condition is needed: with overlap `start` saves its record over that of a promotion,
which is the disagreement that `RunBundle_final` shows, and none of the six is true. It
enters in the three actions of resume only. `StageInv` (in `RunBundleStages.tla`) says what `IInv` cannot:
a process of stage 1 is alone, and what it has registered has its bytes (`StageOneAlone`);
a reviewer's record differs from the identity it captured in the decisions only
(`ReviewerWaits`); under the lock the saved record is what the promotion has made of it
(`PromoterOwns`); the saved record is in one of a few states, in each of which certain
groups of artifacts are intact, whoever was killed (`RecordStands`). The last two
theorems are about steps. Each step either keeps status, phase and inputs of the saved
record or changes them in one of the ways `RecordStep` lists, and each of those is
a step of the gate or none.

`RagCatalogProofs.tla` proves, for all builders, readers, any number of builds, any
row counts and any number of killed builders:

| Theorem | Statement |
|---|---|
| `CatalogInvariance` | `Spec => []IInv` |
| `CatalogComplete` | `Spec => []ServedCatalogComplete` |
| `LatestIsServed` | `Spec => []LatestServed` |
| `GapIsTransient` | `Spec => []MissingOnlyInGap` |
| `NothingLeftBehind` | `Spec => []NothingNewLeftBehind` |

Assumption: `ConstantsAssumption`. `ServedCatalogComplete` needs to know that what a builder
is about to install is complete (`BuilderInv`): it was validated, and nobody else
writes to it. The others are about builders that take turns and need what is aside
during a promotion (`TurnsInv`): between its two renames the builder at work has the
newest catalog in its own backup, or nothing, and backups of killed builders are never
touched. Overlapping builders break them: the rollback of one may put an older catalog back
over the path that the other has just filled. No run checks `NothingNewLeftBehind`; it is proved
only.

`ModelGatewayProofs.tla` proves, for all threads, requests, findings, limits and any
number of calls and restarts:

| Theorem | Statement |
|---|---|
| `GatewayInvariance`, `GatewayTypes` | `Spec => []IInv`, `Spec => []TypeOK` |
| `CallsAreBounded` | `Spec => []BoundedProviderCalls` |
| `RejectedStaysBehind` | `Spec => []RejectedPromptNotRepeated` |
| `CacheIsTrue`, `ManifestIsTrue` | `Spec => []CacheNamesProducer`, `Spec => []ManifestNamesProducer` |
| `NoSilentFallback` | `Spec => []FailsClosed` |
| `LastManifestIsTrue` | `Spec => []LastManifestIsOwn` |

Assumption: `ConstantsAssumption`. The bound on a call needs an account of each attempt
(`CountInv`): every one but the first of a route is paid for by a retry or a repair,
and a call that has fallen back has left the pro route with no more than its limit behind.
That no rejected prompt is repeated needs to know that rejected prompts were sent
(`PromptInv`), since the code compares with what was sent. What is said about manifests
of calls that take turns needs that nothing has returned while one runs (`TurnsInv`).

`AdaptiveRagProofs.tla` proves, for any number of tool threads, any catalog, any limits and
whatever the model replies:

| Theorem | Statement |
|---|---|
| `RagInvariant` | `Spec => []RagIInv` |
| `ToolBudgetIsKept` | `Spec => []ToolBudgetKept` |
| `CardsAreAlwaysInLedger` | `Spec => []CardsAreInLedger` |
| `AnswersCiteEvidence` | `Spec => []AnswerCitesEvidence` |
| `NumbersStayStable` | `Spec => []NumbersAreStable` |
| `EvidenceStaysWithinBudget` | `Spec => []EvidenceWithinBudget` |
| `CorpusInvariant` | `Spec => []CorpusIInv` |
| `ReportIsGrounded` | `Spec => []RowsRestOnSoundDocuments` |
| `ExhaustiveIsComplete` | `Spec => []ExhaustiveReadsAll` |
| `BatchesKeepLimits` | `Spec => []BatchesFit` |
| `ReportsAddUp` | `Spec => []ReportAddsUp` |

Assumptions: `RagAnswerAssumption`, `CorpusAnswerAssumption` (a chunk belongs to one document
and is listed there once, which the tables of the catalog enforce; sizes and limits are
numbers, and a batch may have a chunk), `SelectionsAssumption` (a question names finitely many documents). The invariants are in
`AdaptiveRagInvariants.tla`.

The budget of calls needs that every thread which is yet to compare has been counted
(`Counted`). That an answer cites what was seen needs an account of every entry of the
ledger (`Accounted`): it has been shown as it is now, or a thread still carries its
number, whichever thread overwrote it last; when the model has its turn no thread
carries anything (`Turns`, `Numbers`), so everything has been shown. Without a race the
thread in `register` gives out the next number (`Alone`), so no entry is written twice.
The budget of evidence counts, besides the ledger, the threads that have found room and
not yet written: the last of them to look found a ledger that was not full (`Reserved`), so
that races overshoot by fewer chunks than there are threads. Without a race what
a thread has read still holds when it writes, and the characters counted are those
of the chunks in the ledger (`Exact`).

The corpus map needs to know of the document being read that its batches share no chunk
with each other or with what has been numbered (`Once`), that together with what has been
numbered they are all of its chunks (`Whole`), that rows kept are those of documents that were
read to their end (`Grounds`), and that each document is counted once as matched,
failed or still to come (`Queue`). It rests on what the loops compute: `Batches` cuts
any sequence of chunks into batches within the limits that have each chunk once,
`Distinct` and `Deduplicated` drop elements and add none.

These loops are folds. `FoldTheorems.tla` has the lemmas about the folds of the community modules,
for a constant operator `Op` with two parameters of its own, what defines them (`FoldUnrolls`: their definition by
`CHOOSE` has a value, which is the recursive one), the fold over one more element
(`FoldAppend`) and the same for sums over finite sets (`SumAdd`); a module that proves something about a
fold instantiates it with its own operator. Its `NumberInduction` is induction over sets
of numbers in place of predicates: the library's theorems take the predicate as a
parameter, which the installed provers cannot instantiate. An induction over a sequence is
one over the lengths of its prefixes.

`DraftRunProofs.tla` proves, for any template, any sources and figures, and whatever the
providers answer and the reviewer decides:

| Theorem | Statement |
|---|---|
| `DraftInvariance` | `Spec => []DraftInv` |
| `ReviewSurvives` | `Spec => []ReviewSurvivesProviders` |
| `SealedIsClean` | `Spec => []SealedTextIsClean` |
| `OfflineKeeps` | `Spec => []OfflineKeepsAnswers` |

Assumptions: `OrdersAreInjective` and `FiguresAreOrdered` (spans, sections and figures are listed in
an order, each once), `InputsAssumption` (a source counts placeholders and lists
mentions; what a provider answers has been parsed into lists of records with their fields,
as the code's schemas do before anything else). Nothing is assumed of what the
answers say: duplicate ids, unknown references and wrong coverage are what the model, like
the code, has to refuse.

`DraftInv` (in `DraftRunInvariant.tla`, which `MCDraftRun` extends; it holds on the instance of
`DraftRun_stages`) is needed because the properties speak of the end and what makes them true
happened at the start: `MappingIsSound` is what promotion has verified, and nobody verifies it
again; `QuestionsAreAsked` says that each merge, of a provider's batches, of the mapping's
questions and of the figures, only appends, and never an id that is there
(`MergeOne`, `ProviderReviewKeeps`; a free number for a renamed question exists since the ids
are finitely many, `FreshId`); `DraftIsOf` ties the draft to the gaps of its mapping; and a final document
is the one that `decisions` and `waivers` lead to, also after any number of retries.

The two theorems about sealed documents then follow a document through `ReviseExactDraft`,
`ApplyReviewerDecisions` and `ComposeFigureAppendix`. Each of these is a fold of small
changes, so each has a lemma on what one change keeps and adds, and one by induction on what the pass
does (`GapsKept`, `VisualsKept`, `AnswersKept`, `AppendixKeeps`, collected in `FinalKeeps`): a token that no
decision is about is still there at the end, and nothing comes in but answers, the log and
what the appendix writes. For `SealedTextIsClean` this is used backwards. The markers are only kept
while a blocking gap is open or a figure unreviewed; the callout of that gap, or the candidate of
that figure, then is in the text to the end (`OpenGapShows`, `UnreviewedShows`), and the audit
refuses it (`PassedIsUnmarked`). For `OfflineKeepsAnswers` it is used forwards: an offline mapping places every gap in a
section, so no marker is ever written and nothing behind one is dropped
(`OfflineIsPlaced`, `OfflineLogStays`).

`SealedBundleProofs.tla` proves, for any bundles and processes and any number of changes and calls:

| Theorem | Statement |
|---|---|
| `BundleInvariance` | `Spec => []IInv` |
| `TypeCorrect` | `Spec => []TypeOK` |
| `OneSnapshot` | `Spec => []IndexHoldsOneSnapshot` |

Assumptions: `BoundsAssumption`, `ProcessAssumption` (`"nobody"`, who holds the database
when no transaction is open, is no process). Every seal of the current format that can ever be
read names the source, the final document and the audit of one run (`SealInv`); what a process
has loaded is what its seal names (`ProcessInv`), since it reads, hashes and uses the same
bytes; the open transaction is a prefix of the statements of its process, over the rows
committed before, and rows appear with the commit only (`RowsInv`).

`ReferencePackProofs.tla` proves, for any packs, any contents of their files, any number of runners and changes:

| Theorem | Statement |
|---|---|
| `PackInvariance` | `Spec => []IInv` |
| `ResumedIsSound` | `Spec => []ResumedReviewIsSound` |
| `RecipeIsUsable` | `Spec => LoadedRecipeIsUsable` |

Assumptions: `BoundsAssumption` and `ContentAssumption` (a variant of a file is not the absence
of the file, and what is parsed as a list is a sequence). While nothing changes, what a load has checked is true
of the files as they are, step by step (`Found`), so the recipe that the last
reads make is the one that was checked. The proof corrected the property:
`LoadedRecipeIsUsable` spoke of all sources that always apply, but `resolve_precedence` passes over
those whose kind the order of precedence does not name (`references/loader.py:402`), so
two of these may be in conflict. The property says so now, and `MCReferencePack` has such a pack.

Only model-checked:

* `OfflineKeepsSource`. It is about the order of tokens and the heading over each, where the
  lemmas say which tokens there are. Trying to prove it corrected it: it placed each reference in the section of
  the figure's first occurrence, which two spans could not refute; with a third one
  `compose_figure_appendix` may take the anchor of a later occurrence in another section.
* `SealableExactlyWhen`. It says of all decisions there are that one of them passes, and so
  needs how often each token occurs in a text after every pass; the lemmas say which occur.
* `LoadedExactlyWhenSealed`, which rests on operators over whole texts.
* `CallsReturn` and `QuestionEnds`: liveness, and with it fairness and `ENABLED`, are out of the
  prover's reach.

## 12. Where code and documents disagree

Shown by a run that must find the disagreement:

* `RunBundle_final`: `src/README.md:133` makes succeeded final. `start` saves its record
  after the report without comparing it and turns a run that was promoted meanwhile
  back to waiting.
* `RagCatalog_mixed`: `open` verifies digests, then opens the files again by their path. A
  promotion in between gives a "validated view" of two builds when their counts agree.
* `DraftRun_placeholder`: each placeholder is asked about ("What should replace 'TBD'?",
  `core/review.py:547`), but `apply_deterministic_answers` puts every accepted answer,
  of whatever question, into the first placeholder left.
* `DraftRun_defer`: `decisions.yaml` says "defer: keep Stage 2 paused"
  (`core/runner.py:2341`). A question that is not blocking can be deferred without
  stopping `resume`; the decisions are registered, the audit fails, and every retry
  repeats it.

Seen while modelling, in the models, and of no run's properties:

* A crash between the saved verdict and the report, or the seal: a failed run whose report
  is not the registered one, which no retry passes (`src/README.md:132`), and a run that is
  succeeded and never sealed (`src/README.md:130`).
* The audit reports `recipe_configuration_unchanged` as true without a comparison, and
  `resume` of an interrupted analysis makes none.
* Two builds of the catalog at once can leave the older one in place
  (`src/README.md:261` calls the replacement atomic).
* An accepted answer or visual conversion is lost when a live mapping has a question of
  its own: the review markers are dropped to the end of the text, and the candidates
  and the decision log stand behind them. `OfflineKeepsAnswers` is about the offline
  provider for this reason.
* With the offline provider every partial section asks under the id
  `question-placeholder-001`; two such sections fail `validate_coverage`, and the run with
  them, before a reviewer sees it.
* `docs/reference-pack-authoring.md:57` (under `src/`) calls every conflict of equal
  precedence an error; a load compares only sources that apply without a context, so a
  selector hides one. Line 91 there asks for valid ontology hooks, which nobody checks.
* `rubrics/process.yaml:5` inherits the common rubric, and the validator resolves its
  criteria; the recipe holds only the type's own, and `build_review` passes over the
  others (`core/review.py:577`), hard blockers included. A second mapping of a
  requirement is ignored as well.

## 13. Not modelled

Parsers of document formats, prompts, the DOCX and HTML renderers, the command line's
options and the scripts: formatting and I/O without shared state. Of the run: runs
without a draft, which only older bundles have, with their rewrite and audit providers;
steering, which replaces fixed phrases; whether a prompt fits its context (a live call
may fail at any time); which embedded files are figures, and the copying of their
bytes. Of question answering: ranking, graph expansion, the history of a chat,
evaluation and visualization. Hazards that no property covers carry a note in
`PROJECT.json`.
