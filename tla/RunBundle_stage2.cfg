SPECIFICATION FairSpec

CONSTANTS
    Procs = {p1, p2}
    Configs = {c1, c2}
    Attempts = {a1, a2}
    Blocking = {q1}
    Answers = {yes}
    Stamps = {s1}
    Overlap = FALSE
    MaxOps = 3
    None = None

INVARIANTS
    SealedRecordAgrees
    WaitingRunCanResume
    FirstInterruptionRecoverable
PROPERTIES
    PromotionKeepsInputs
    ImplementsReviewGate
    CallsReturn

CHECK_DEADLOCK FALSE
