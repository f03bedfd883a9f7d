----------------------------- MODULE OfflineDraft -----------------------------
(***************************************************************************)
(* What the runner answers itself when no live transformation provider is  *)
(* configured (_OfflineTransformationProvider in core/runner.py).          *)
(***************************************************************************)
EXTENDS ReviewContent

CONSTANT FigureSpans  \* the spans each figure is anchored at

\* Best token overlap of titles, the first section on a tie.
AssignedSection(source, span) ==
    LET overlap(i) == IF SectionOrder[i] = source[span].home THEN 1 ELSE 0
    IN  SectionOrder[CHOOSE i \in DOMAIN SectionOrder :
                \A j \in DOMAIN SectionOrder : overlap(j) < overlap(i) \/ (overlap(j) = overlap(i) /\ i <= j)]

SectionSpans(source, id) ==
    Selection(SpanOrder, {i \in DOMAIN SpanOrder : AssignedSection(source, SpanOrder[i]) = id})

SectionStatus(source, id) ==
    LET spans == ToSet(SectionSpans(source, id))
    IN  CASE spans = {} -> IF id \in Required THEN "missing" ELSE "not_applicable"
          [] \E s \in spans : source[s].conflict -> "conflicting"
          [] OTHER -> IF \E s \in spans : source[s].phs > 0 THEN "partial" ELSE "populated"

GapKind == [missing |-> "missing", partial |-> "ambiguous", conflicting |-> "conflicting"]

\* One gap and one question per section that is not populated; every partial
\* section asks under the same question id.
OfflineMapping(source) ==
    LET status(id) == SectionStatus(source, id)
        spans(id) == ToSet(SectionSpans(source, id))
        open == Selection(SectionOrder,
                          {i \in DOMAIN SectionOrder : status(SectionOrder[i]) \in DOMAIN GapKind})
        question(n) == IF status(open[n]) = "partial" THEN <<"ph", 1>> ELSE <<"map", n>>
    IN  [sections |-> [i \in DOMAIN SectionOrder |->
            [id |-> SectionOrder[i], status |-> status(SectionOrder[i]), spans |-> spans(SectionOrder[i]),
             figs |-> {f \in Figures : FigureSpans[f] \cap spans(SectionOrder[i]) # {}},
             gaps |-> {n \in DOMAIN open : open[n] = SectionOrder[i]}, text |-> <<>>]],
         dispositions |-> [i \in DOMAIN SpanOrder |->
            [span |-> SpanOrder[i], action |-> "placed",
             dest |-> <<AssignedSection(source, SpanOrder[i])>>]],
         gaps |-> [n \in DOMAIN open |->
            [id |-> n, section |-> open[n], kind |-> GapKind[status(open[n])],
             blocking |-> open[n] \in Required, question |-> question(n)]],
         questions |-> [n \in DOMAIN open |->
            [id |-> question(n), blocking |-> open[n] \in Required, section |-> open[n],
             spans |-> spans(open[n]), figs |-> {},
             suggestion |-> IF status(open[n]) = "partial" THEN "none" ELSE "guidance"]],
         process |-> [nodes |-> [i \in DOMAIN SectionOrder |->
                        [id |-> SectionOrder[i], section |-> SectionOrder[i]]],
                      edges |-> {[from |-> SectionOrder[i], to |-> SectionOrder[i + 1], spans |-> {}] :
                                    i \in 1..(Len(SectionOrder) - 1)}],
         cited |-> [spans |-> Spans, sections |-> Sections,
                    questions |-> {question(n) : n \in DOMAIN open}]]

CitedSpans(b, id) ==
    Selection(SpanOrder, {i \in DOMAIN SpanOrder : SpanOrder[i] \in Named(b.sections, id).spans})

\* Mutant: the spans of a section are joined last first.
OfflineDraftReversed(source, b) ==
    [texts |-> [id \in ToSet(Ids(b.sections)) |->
        LET spans == Reverse(CitedSpans(b, id))
        IN  FlattenSeq([i \in DOMAIN spans |-> SpanText(source, spans[i])])],
     frozen |-> TRUE]

\* The draft repeats the text of the spans of each section.
OfflineDraftAnswer(source, b) ==
    [texts |-> [id \in ToSet(Ids(b.sections)) |->
        LET spans == CitedSpans(b, id)
        IN  FlattenSeq([i \in DOMAIN spans |-> SpanText(source, spans[i])])],
     frozen |-> TRUE]

OfflineAudit == [status |-> "pass", invalid |-> FALSE, unsupported |-> FALSE]
=============================================================================
