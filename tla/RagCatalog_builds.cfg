SPECIFICATION Spec

CONSTANTS
    Builders = {b1, b2}
    Readers = {r1}
    Builds = 4
    Size <- DifferentCounts
    None = None

INVARIANTS
    IInv
    ServedCatalogComplete
    LatestServed
    MissingOnlyInGap

SYMMETRY Interchangeable

CHECK_DEADLOCK FALSE
