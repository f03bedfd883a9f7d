SPECIFICATION Spec
CONSTANTS
    Threads = {t1, t2}
    Chunk = {"a1", "a2", "a3"}
    Size <- MCSize
    TextSize <- MCTextSize
    PerCall = 2
    MaxToolCalls = 2
    MaxEvidence = 2
    MaxCharacters = 3
    Catalog <- MCCatalog
    ChunksOf <- MCChunksOf
    PerDocument = 2
    BatchChunks = 2
    BatchCharacters = 3
    Content <- MCContent
    MapRows = 1
    ReduceRows = 2
    Selections <- MCSelections
INVARIANTS
    ToolBudgetKept
    CardsAreInLedger
    EvidenceWithinBudget
    AnswerCitesEvidence
    NumbersAreStable
    RowsRestOnSoundDocuments
    ExhaustiveReadsAll
    BatchesFit
    ReportAddsUp
PROPERTIES
    QuestionEnds
CHECK_DEADLOCK FALSE
