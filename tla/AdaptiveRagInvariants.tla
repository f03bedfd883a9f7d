------------------------- MODULE AdaptiveRagInvariants -------------------------
(***************************************************************************)
(* The inductive invariants of the two ways to answer a question.  That    *)
(* every step keeps them, and what follows from them, is proved in         *)
(* AdaptiveRagProofs.                                                      *)
(***************************************************************************)
EXTENDS AdaptiveRag

-----------------------------------------------------------------------------
(* The ledger of a focused question, shared by the threads of its tools *)

\* Where a thread can be, and where it has nothing to do with the ledger.
Places == Registering \cup {"idle", "enter", "check", "search", "raised"}

Outside == {"idle", "enter", "check", "search", "raised"}

\* What a thread has still to register, and the numbers it has collected.
Hit == Seq(Chunk)

Collected == SUBSET Nat

Types ==
    /\ call \in [Threads -> [at : Places, todo : Hit, ids : Collected, number : Nat, before : Int]]
    /\ closure \in [toolCalls : Nat, ledger : Seq(Chunk),
                    evidenceOf : UNION {[C -> Nat] : C \in SUBSET Chunk}, characters : Int]
    /\ seen \in [served : Nat, shown : SUBSET (Nat \X Chunk), raced : BOOLEAN, failed : BOOLEAN]

\* The numbers that a thread carries are, or are about to be, in the ledger.
Numbers ==
    /\ \A c \in DOMAIN closure.evidenceOf: closure.evidenceOf[c] \in DOMAIN closure.ledger
    /\ \A t \in Threads:
           /\ call[t].ids \subseteq DOMAIN closure.ledger
           /\ call[t].at \in {"room", "number", "store", "add"} => call[t].todo # <<>>
           /\ call[t].at = "store" => call[t].number \in 1 .. (Len(closure.ledger) + 1)
           /\ call[t].at = "add" => call[t].number \in DOMAIN closure.ledger
           /\ call[t].at \in Outside => call[t].ids = {}

\* Every entry of the ledger has been shown, or a thread will show its number.
Accounted ==
    \A e \in DOMAIN closure.ledger:
        \/ <<e, closure.ledger[e]>> \in seen.shown
        \/ \E t \in Threads: e \in call[t].ids \/ (call[t].at = "add" /\ call[t].number = e)

\* Tools run only while it is their turn.
Turns ==
    /\ phase \in {"none", "model"} => \A t \in Threads: call[t].at \in {"idle", "raised"}
    /\ phase = "dispatch" => \A t \in Threads: call[t].at \in {"idle", "enter"}
    /\ phase = "answered" => sources # {} /\ sources \subseteq seen.shown

Checking == {t \in Threads : call[t].at = "check"}

\* A thread that is to compare the counter has been counted.
Counted ==
    /\ seen.served + Cardinality(Checking) <= closure.toolCalls
    /\ seen.served <= MaxToolCalls

\* Without a race one thread at a time is in register, so that it gives out the
\* next number, and no entry is ever written twice.
Alone ==
    ~seen.raced =>
        /\ \A t, u \in Threads: call[t].at \in Registering /\ call[u].at \in Registering => t = u
        /\ \A t \in Threads: call[t].at = "store" => call[t].number = Len(closure.ledger) + 1
        /\ \A s \in seen.shown: s[1] \in DOMAIN closure.ledger /\ closure.ledger[s[1]] = s[2]

\* What a thread in register may assume of the ledger although others write to it.
RagIInv == Types /\ Numbers /\ Accounted /\ Turns /\ Counted /\ Alone

-----------------------------------------------------------------------------
(* The budget of its evidence *)

\* The threads that have found room for a chunk that is not in the ledger yet.
Committed == {t \in Threads : call[t].at \in {"number", "store"}}

\* The last of them to look found a ledger that was not full, whatever the
\* others had found before.
Reserved == Evidence + Cardinality(Committed) < MaxEvidence + Cardinality(Threads)

\* Outside the turn of the tools no thread is in register.
Resting == phase # "tools" => \A t \in Threads : call[t].at \in Outside

\* The characters of the chunks in the ledger.
Kept == Total(Range(closure.ledger))

\* Without a race what a thread read of the ledger and of the characters still
\* holds when it writes them.
Exact ==
    ~seen.raced =>
        /\ DOMAIN closure.evidenceOf = Range(closure.ledger)
        /\ \A t \in Threads :
               /\ call[t].at \in {"room", "number", "store"} => Current(t) \notin DOMAIN closure.evidenceOf
               /\ call[t].at \in {"number", "store"} => HasRoom(Current(t))
               /\ call[t].at = "add" =>
                      call[t].before = closure.characters
                      /\ Kept = closure.characters + Size[Current(t)]
        /\ (\A t \in Threads : call[t].at # "add") => closure.characters = Kept
        /\ Kept <= MaxCharacters
        /\ Evidence <= MaxEvidence

\* It is inductive relative to RagIInv.
BudgetInv == Reserved /\ Resting /\ Exact

-----------------------------------------------------------------------------
(* The reading of a corpus *)

\* A chunk that has a text, and a row as the reader keeps it.
Letter == DOMAIN TextSize

CorpusRow == [content : Content, citations : SUBSET Nat]

\* The memory of answer(), whose evidence numbers are the positions in evidence.
ReaderTypes ==
    /\ stage \in {"none", "document", "batch", "reported", "raised"}
    /\ evidence \in Seq(Letter)
    /\ examined = Len(evidence)
    /\ matched \in Nat
    /\ rows \in Seq(CorpusRow)
    /\ runRows \in Seq(CorpusRow)
    /\ batches \in Seq(Seq(Letter))
    /\ stage = "none" =>
           evidence = <<>> /\ rows = <<>> /\ matched = 0 /\ failed = {}

\* The loop over the documents has not ended.
Working == stage \in {"document", "batch"}

\* The documents that are done, well or badly, and those still to be begun.
ToBegin == IF stage = "batch" THEN Tail(pending) ELSE pending

\* The documents that were read to their end.
Finished == ToSet(selected) \ (failed \cup ToSet(pending))

\* Each document is selected once and is read once, in this order: it counts as
\* matched or as failed, and a failed one is never begun again.
Queue ==
    Working =>
        /\ selected \in Seq(Document) /\ IsInjective(selected)
        /\ pending \in Seq(Document) /\ IsInjective(pending)
        /\ ToSet(pending) \subseteq ToSet(selected)
        /\ stage = "batch" => pending # <<>>
        /\ failed \subseteq ToSet(selected) \ ToSet(pending)
        /\ matched + Cardinality(failed) + Len(pending) <= Len(selected)
        /\ rows # <<>> => matched > 0

\* A row that cites numbers already given, each of a chunk of these documents.
Grounded(row, documents) ==
    /\ row.citations # {} /\ row.citations \subseteq DOMAIN evidence
    /\ \A e \in row.citations: \E d \in documents: evidence[e] \in ToSet(ChunksOf[d])

\* The rows kept are those of documents that ended well; the rows of the document
\* being read are its own until its last batch has been mapped.
Grounds ==
    /\ Working => \A r \in ToSet(rows): Grounded(r, Finished)
    /\ stage = "batch" => \A r \in ToSet(runRows): Grounded(r, {Head(pending)})

\* Batches that share no chunk, with each chunk once.
Apart(s) ==
    /\ \A i \in DOMAIN s: IsInjective(s[i])
    /\ \A i, j \in DOMAIN s: i # j => ToSet(s[i]) \cap ToSet(s[j]) = {}

Pieces(s) == UNION {ToSet(s[i]) : i \in DOMAIN s}

\* No chunk is given two numbers: what is still to be mapped is of the document
\* being read, and has no number yet.
Once ==
    Working =>
        /\ IsInjective(evidence)
        /\ \A e \in DOMAIN evidence: \E d \in ToSet(selected) \ ToSet(ToBegin):
               evidence[e] \in ToSet(ChunksOf[d])
        /\ stage = "batch" =>
               /\ Apart(batches)
               /\ Pieces(batches) \subseteq ToSet(ChunksOf[Head(pending)])
               /\ Pieces(batches) \cap ToSet(evidence) = {}

\* An exhaustive reading without a failure has skipped no chunk of what is done.
Whole ==
    Working /\ coverage = "exhaustive" /\ failed = {} =>
        /\ \A d \in Finished: ToSet(ChunksOf[d]) \subseteq ToSet(evidence)
        /\ stage = "batch" =>
               ToSet(ChunksOf[Head(pending)]) \subseteq ToSet(evidence) \cup Pieces(batches)

\* Together with the properties themselves.
CorpusIInv ==
    /\ ReaderTypes /\ Queue /\ Grounds /\ Once /\ Whole
    /\ RowsRestOnSoundDocuments /\ ExhaustiveReadsAll /\ BatchesFit /\ ReportAddsUp

=============================================================================
