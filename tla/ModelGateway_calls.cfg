SPECIFICATION Spec

CONSTANTS
    Threads = {t1, t2}
    Requests = {draft, review}
    Premium = {draft}
    Feedback = {f1, f2}
    ProRetries = 1
    FlashRetries = 1
    Repairs = 2
    MaxCalls = 3
    None = None

INVARIANTS
    IInv
    BoundedProviderCalls
    RejectedPromptNotRepeated
    CacheNamesProducer
    ManifestNamesProducer
    FailsClosed
    LastManifestIsOwn

SYMMETRY Interchangeable

CHECK_DEADLOCK FALSE
