SPECIFICATION Spec
CONSTANTS
    i1 = i1
    i2 = i2
    Indexers <- MCIndexers
    Runs <- MCRuns
    Others <- MCOthers
    Lower <- MCLower
    MaxChanges = 1
    MaxCalls = 1
SYMMETRY Symmetry
CHECK_DEADLOCK FALSE
INVARIANTS
    IndexHoldsOneSnapshot
PROPERTIES
    LoadedExactlyWhenSealed
