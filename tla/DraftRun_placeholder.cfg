SPECIFICATION Spec
CONSTANTS
    SpanOrder <- MCSpanOrder
    Figures = {"f1", "f2"}
    SectionOrder <- MCSectionOrder
    Required = {"a"}
    HardBlockers = {"a"}
    FigureSpans <- MCFigureSpans
    OfflineSources <- MCOfflineSources
    LiveSources <- MCLiveSources
    FigureOrder <- MCFigureOrder
    Leading = {"f1"}
    VisualResponses <- MCVisualResponses
    FigureSizes = {1, 2, 3}
    VisualLimits <- MCVisualLimits
    ReviewCandidates <- MCReviewCandidates
    LiveMappings <- MCLiveMappings
    LiveReports <- MCLiveReports
INVARIANTS
    AnswersInPlace
CHECK_DEADLOCK FALSE
