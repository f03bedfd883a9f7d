------------------------------ MODULE CorpusAnswer -----------------------------
(***************************************************************************)
(* A corpus question (CorpusAnswerer.answer): the chunks of every selected *)
(* document go to the model in batches, which map the question to rows;    *)
(* a document with a failed batch is dropped; one last call reduces the    *)
(* rows of all documents; the report says what was covered.                *)
(***************************************************************************)
EXTENDS Integers, Sequences, FiniteSets, SequencesExt

CONSTANTS
    Catalog,        \* the documents of the catalog, in the order of its manifest
    ChunksOf,       \* the chunks of each, in order
    TextSize,       \* the characters of each chunk
    PerDocument,    \* retrieval_chunks_per_document
    BatchChunks, BatchCharacters,
    Content,        \* what a row can say: a key, which may be "", and a statement
    MapRows, ReduceRows     \* bounds on the rows of a reply of the model

Document == ToSet(Catalog)

\* The identity of a chunk is the primary key of its table, and its document is a
\* column of it.
ASSUME CorpusAnswerAssumption ==
    /\ Catalog \in Seq(Document)
    /\ \A d \in Document: ChunksOf[d] \in Seq(DOMAIN TextSize) /\ IsInjective(ChunksOf[d])
    /\ \A d, e \in Document: d # e => ToSet(ChunksOf[d]) \cap ToSet(ChunksOf[e]) = {}
    /\ \A c \in DOMAIN TextSize: TextSize[c] \in Nat
    /\ PerDocument \in Nat /\ BatchChunks \in Nat \ {0} /\ BatchCharacters \in Nat
    /\ MapRows \in Nat /\ ReduceRows \in Nat
    /\ \A r \in Content: {"key", "statement"} \subseteq DOMAIN r

VARIABLES
    stage,          \* where the question is
    coverage,       \* "retrieval" or "exhaustive"
    selected,       \* the selected documents, without repetition
    pending,        \* those still to be mapped
    batches,        \* batches of the first of them still to be mapped
    evidence,       \* ledger: the chunk of each evidence number
    examined,       \* chunks_examined
    runRows,        \* run_items: rows of the document being mapped
    rows,           \* items
    matched,        \* documents_with_matches
    failed,         \* the documents of which a batch failed
    reduced,        \* the rows the reducer returned
    report          \* the CorpusResult

working == <<pending, batches, evidence, examined, runRows, matched, failed>>
corpusVars == <<stage, coverage, selected, working, rows, reduced, report>>

-----------------------------------------------------------------------------
(* Sequences                                                               *)

WithNew(kept, d) == IF d \in ToSet(kept) THEN kept ELSE Append(kept, d)

\* Every element of s once, in the order of the first occurrences.
Distinct(s) == FoldLeft(WithNew, <<>>, s)

ChunksIn(documents) == UNION {ToSet(ChunksOf[d]) : d \in ToSet(documents)}

Longer(n, chunk) == n + TextSize[chunk]

Characters(chunks) == FoldLeft(Longer, 0, chunks)

-----------------------------------------------------------------------------
CorpusInit ==
    /\ stage = "none"
    /\ coverage = "retrieval"
    /\ selected = <<>>
    /\ pending = <<>>
    /\ batches = <<>>
    /\ evidence = <<>>
    /\ examined = 0
    /\ runRows = <<>>
    /\ rows = <<>>
    /\ matched = 0
    /\ failed = {}
    /\ reduced = <<>>
    /\ report = <<>>

\* Mutant: a document is asked as often as it was named.
AskCorpusRepeating(runs, mode) ==
    LET chosen == IF runs = <<>> THEN Catalog ELSE runs
    IN  /\ stage = "none"
        /\ stage' = IF chosen # <<>> /\ ToSet(chosen) \subseteq Document THEN "document" ELSE "raised"
        /\ coverage' = mode
        /\ selected' = chosen
        /\ pending' = chosen
        /\ UNCHANGED <<batches, evidence, examined, runRows, matched, failed, rows, reduced, report>>

\* The user may name a document twice, or one that is not in the catalog.
AskCorpus(runs, mode) ==
    LET named == IF runs = <<>> THEN Catalog ELSE runs
        chosen == Distinct(named)
    IN  /\ stage = "none"
        /\ stage' = IF chosen # <<>> /\ ToSet(chosen) \subseteq Document THEN "document" ELSE "raised"
        /\ coverage' = mode
        /\ selected' = chosen
        /\ pending' = chosen
        /\ UNCHANGED <<batches, evidence, examined, runRows, matched, failed, rows, reduced, report>>

-----------------------------------------------------------------------------
(* One document                                                            *)

\* Mutant: the chunk that comes next is not counted.
FullWithoutNext(batch, chunk) ==
    \/ Len(batch) >= BatchChunks
    \/ Characters(batch) > BatchCharacters

\* _batches: a batch is full when the chunk that comes next does not fit.
Full(batch, chunk) ==
    \/ Len(batch) >= BatchChunks
    \/ Characters(batch) + TextSize[chunk] > BatchCharacters

Place(placed, c) ==
    IF placed = <<>> \/ Full(Last(placed), c)
      THEN Append(placed, <<c>>)
      ELSE [placed EXCEPT ![Len(placed)] = Append(@, c)]

Batches(chunks) == FoldLeft(Place, <<>>, chunks)

\* What a search in one document may return.
Found(d) ==
    {s \in UNION {[1 .. n -> ToSet(ChunksOf[d])] : n \in 0 .. PerDocument} : IsInjective(s)}

Candidates(d) == IF coverage = "exhaustive" THEN {ChunksOf[d]} ELSE Found(d)

TakeDocument ==
    /\ stage = "document"
    /\ pending # <<>>
    /\ \E candidates \in Candidates(Head(pending)): batches' = Batches(candidates)
    /\ stage' = "batch"
    /\ runRows' = <<>>
    /\ UNCHANGED <<coverage, selected, pending, evidence, examined, matched, failed, rows, reduced, report>>

\* No embedding for the question.  Nothing handles this here: what was mapped
\* so far is lost.
SearchRaises ==
    /\ stage = "document"
    /\ pending # <<>>
    /\ coverage = "retrieval"
    /\ stage' = "raised"
    /\ UNCHANGED <<coverage, selected, working, rows, reduced, report>>

\* A row as the schema has it: with a citation, of any number.
Row == [content : Content, citations : (SUBSET (1 .. (Len(evidence) + BatchChunks + 1))) \ {{}}]

Supports(allowed, row) == row.citations \subseteq allowed

\* The replies of n rows that pass the check of their citations.
Replies(allowed, n) == [1 .. n -> {row \in Row : Supports(allowed, row)}]

BatchNumbers == {Len(evidence) + i : i \in DOMAIN Head(batches)}

SendBatch ==
    /\ stage = "batch"
    /\ batches # <<>>
    /\ examined' = examined + Len(Head(batches))
    /\ evidence' = evidence \o Head(batches)

MapBatch ==
    /\ SendBatch
    /\ \E n \in 0 .. MapRows: \E reply \in Replies(BatchNumbers, n): runRows' = runRows \o reply
    /\ batches' = Tail(batches)
    /\ UNCHANGED <<stage, coverage, selected, pending, matched, failed, rows, reduced, report>>

\* Mutant: the rows of the batches before the failed one are kept.
MapFailsKeepingRows ==
    /\ SendBatch
    /\ failed' = failed \cup {Head(pending)}
    /\ pending' = Tail(pending)
    /\ batches' = <<>>
    /\ rows' = rows \o runRows
    /\ stage' = "document"
    /\ UNCHANGED <<coverage, selected, runRows, matched, reduced, report>>

\* Mutant: a document counts as matched once a batch of it had rows.
MapFailsMatched ==
    /\ SendBatch
    /\ failed' = failed \cup {Head(pending)}
    /\ pending' = Tail(pending)
    /\ batches' = <<>>
    /\ matched' = matched + (IF runRows = <<>> THEN 0 ELSE 1)
    /\ stage' = "document"
    /\ UNCHANGED <<coverage, selected, runRows, rows, reduced, report>>

\* An exception of the model, or a citation from outside the batch: the
\* document is given up, with the rows of its earlier batches.
MapFails ==
    /\ SendBatch
    /\ failed' = failed \cup {Head(pending)}
    /\ pending' = Tail(pending)
    /\ batches' = <<>>
    /\ stage' = "document"
    /\ UNCHANGED <<coverage, selected, runRows, matched, rows, reduced, report>>

\* _deduplicate: a row is known by its key, and by its statement if it has none.
Identity(row) ==
    IF row.content.key # "" THEN <<"key", row.content.key>>
                            ELSE <<"content", row.content.statement>>

WithNewRow(kept, row) ==
    IF \E r \in ToSet(kept): Identity(r) = Identity(row) THEN kept ELSE Append(kept, row)

Deduplicated(s) == FoldLeft(WithNewRow, <<>>, s)

FinishDocument ==
    /\ stage = "batch"
    /\ batches = <<>>
    /\ rows' = rows \o Deduplicated(runRows)
    /\ matched' = matched + (IF runRows = <<>> THEN 0 ELSE 1)
    /\ pending' = Tail(pending)
    /\ stage' = "document"
    /\ UNCHANGED <<coverage, selected, batches, evidence, examined, runRows, failed, reduced, report>>

-----------------------------------------------------------------------------
(* All documents                                                           *)

Cited(s) == UNION {r.citations : r \in ToSet(s)}

Report(items, reductionFailed) ==
    [status |-> IF items = <<>> THEN "insufficient" ELSE "answered",
     rows |-> items,
     requested |-> Len(selected),
     scanned |-> Len(selected),
     matched |-> matched,
     available |-> Cardinality(ChunksIn(selected)),
     examined |-> examined,
     failed |-> failed,
     reductionFailed |-> reductionFailed]

AllMapped == stage = "document" /\ pending = <<>>

Finish(items, reductionFailed) ==
    /\ rows' = items
    /\ report' = Report(items, reductionFailed)
    /\ stage' = "reported"
    /\ UNCHANGED <<coverage, selected, working>>

NothingToReduce ==
    /\ AllMapped
    /\ rows = <<>>
    /\ Finish(rows, FALSE)
    /\ UNCHANGED reduced

Reduce ==
    /\ AllMapped
    /\ rows # <<>>
    /\ \E n \in 0 .. ReduceRows: \E reply \in Replies(Cited(rows), n):
           /\ reduced' = reply
           /\ Finish(Deduplicated(reply), FALSE)

\* An exception of the model or a citation that no row had: no row is returned.
ReduceFails ==
    /\ AllMapped
    /\ rows # <<>>
    /\ Finish(<<>>, TRUE)
    /\ UNCHANGED reduced

CorpusNext ==
    \/ TakeDocument \/ SearchRaises \/ MapBatch \/ MapFails \/ FinishDocument
    \/ NothingToReduce \/ Reduce \/ ReduceFails

-----------------------------------------------------------------------------
(* Properties                                                              *)

CorpusTypeOK ==
    /\ stage \in {"none", "document", "batch", "reported", "raised"}
    /\ coverage \in {"retrieval", "exhaustive"}
    /\ ToSet(evidence) \subseteq ChunksIn(Catalog)
    /\ examined = Len(evidence)
    /\ failed \subseteq ToSet(selected) \cap Document
    /\ stage = "reported" <=> report # <<>>

\* Every row of a report rests on evidence, and only on chunks of selected
\* documents none of whose batches failed.
RowsRestOnSoundDocuments ==
    stage = "reported" =>
        \A r \in ToSet(report.rows):
            /\ r.citations # {} /\ r.citations \subseteq DOMAIN evidence
            /\ \A e \in r.citations: \E d \in ToSet(selected) \ failed: evidence[e] \in ToSet(ChunksOf[d])

\* An exhaustive report without a failure has read every chunk of every selected
\* document once, however they were cut into batches and however often the user
\* named a document; and no report has read a chunk twice.
ExhaustiveReadsAll ==
    stage = "reported" =>
        /\ IsInjective(evidence)
        /\ report.examined <= report.available
        /\ coverage = "exhaustive" /\ failed = {} =>
               /\ report.examined = report.available
               /\ ToSet(evidence) = ChunksIn(selected)

\* A batch keeps within its limits, but for a single chunk that is larger.
BatchesFit ==
    \A b \in ToSet(batches):
        b # <<>> /\ Len(b) <= BatchChunks /\ (Len(b) > 1 => Characters(b) <= BatchCharacters)

\* A document counts as matched or as failed, never as both, and a report that
\* no row was found in says so, or that documents or the reduction failed.
ReportAddsUp ==
    stage = "reported" =>
        /\ report.matched + Cardinality(report.failed) <= report.requested
        /\ report.status = "answered" => report.matched > 0 /\ ~report.reductionFailed
        /\ report.reductionFailed => report.matched > 0

\* Conflicting rows of the reducer are all reported: corpus.py:52-53 asks it to
\* "Preserve genuinely distinct or conflicting items", and src/README.md:530-531
\* says that conflicting evidence produces "insufficient".
ConflictsAreReported ==
    stage = "reported" /\ report.status = "answered" =>
        \A r \in ToSet(reduced): \E kept \in ToSet(report.rows): kept.content = r.content

=============================================================================
