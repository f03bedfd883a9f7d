SPECIFICATION Spec

CONSTANTS
    Procs = {p1, p2}
    Configs = {c1}
    Attempts = {a1, a2}
    Blocking = {q1}
    Answers = {yes}
    Stamps = {s1, s2}
    Overlap = TRUE
    MaxOps = 4
    None = None

INVARIANTS
    IInv
    SealedDecisionsComplete
    SealedAuditCoversFinal
    SealedBytesIntact

SYMMETRY Interchangeable

CHECK_DEADLOCK FALSE
