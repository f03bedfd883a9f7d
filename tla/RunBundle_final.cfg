SPECIFICATION Spec

CONSTANTS
    Procs = {p1, p2}
    Configs = {c1}
    Attempts = {a1}
    Blocking = {q1}
    Answers = {yes}
    Stamps = {s1}
    Overlap = TRUE
    MaxOps = 3
    None = None

PROPERTIES
    SucceededIsFinal

CHECK_DEADLOCK FALSE
