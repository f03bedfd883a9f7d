SPECIFICATION Spec

CONSTANTS
    Builders = {b1}
    Readers = {r1}
    Builds = 2
    Size <- SameCounts
    None = None

INVARIANTS
    OneBuildOpen

CHECK_DEADLOCK FALSE
