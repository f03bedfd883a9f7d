---------------------------- MODULE Transformation ----------------------------
(***************************************************************************)
(* The contracts of a Stage 1 draft (core/transformation.py) and the       *)
(* promotion of what a transformation provider answers into them           *)
(* (GeminiTransformationProvider in core/providers.py).                    *)
(*                                                                         *)
(* A bundle is a record                                                    *)
(*   sections      sequence of [id, status, spans, figs, gaps, text]       *)
(*   dispositions  sequence of [span, action, dest]                        *)
(*   gaps          sequence of [id, section, kind, blocking, question]     *)
(*   questions     sequence of [id, blocking, section, spans, figs,        *)
(*                              suggestion]                                *)
(* A text is a sequence of tokens [k, id]: "head" a section heading,       *)
(* "text" a piece of source prose, "ph" an unresolved placeholder, "gap" a *)
(* gap callout, "cand" a visual candidate, "mark" the heading of the       *)
(* trailing review markers, "ask" a question printed under it.  Every id   *)
(* is a pair <<name, number>>.                                             *)
(***************************************************************************)
EXTENDS Integers, SequencesExt

CONSTANTS
    SpanOrder,   \* the spans of the source document, in document order
    Figures,     \* the figures of the source document
    SectionOrder \* every template section id, in template order

Spans == ToSet(SpanOrder)

Sections == ToSet(SectionOrder)

ASSUME OrdersAreInjective ==
    /\ SpanOrder \in Seq(Spans) /\ IsInjective(SpanOrder)
    /\ SectionOrder \in Seq(Sections) /\ IsInjective(SectionOrder)

\* gap.question when the provider linked none
NoQuestion == <<"none", 0>>

\* section of a question that names none
NoSection == "none"

Ids(seq) == [i \in DOMAIN seq |-> seq[i].id]

Named(seq, id) == seq[CHOOSE i \in DOMAIN seq : seq[i].id = id]

Token(k, id) == [k |-> k, id |-> id]

\* A question is a record of these fields.
QuestionsHaveFields(seq) ==
    \A i \in DOMAIN seq : DOMAIN seq[i] = {"id", "blocking", "section", "spans", "figs", "suggestion"}

\* The elements of a sequence at some of its positions, in order.
Selection(seq, positions) ==
    LET taken[n \in 0..Len(seq)] ==
            IF n = 0 THEN <<>>
            ELSE IF n \in positions THEN Append(taken[n - 1], seq[n]) ELSE taken[n - 1]
    IN  taken[Len(seq)]

Has(text, k) == \E i \in DOMAIN text : text[i].k = k

CountOf(text, k) == Cardinality({i \in DOMAIN text : text[i].k = k})

-----------------------------------------------------------------------------
(* Coverage: validate_coverage raises unless every part holds *)

\* SourceDisposition.validate_destinations
DispositionValid(d) ==
    /\ IsInjective(d.dest)
    /\ d.action = "placed" => Len(d.dest) = 1
    /\ d.action = "duplicated" => Len(d.dest) >= 2
    /\ d.action = "intentionally_omitted" => d.dest = <<>>

SpansDisposedOnce(b) ==
    /\ \A s \in Spans :
        Cardinality({i \in DOMAIN b.dispositions : b.dispositions[i].span = s}) = 1
    /\ \A i \in DOMAIN b.dispositions : b.dispositions[i].span \in Spans

IdsUnique(b) ==
    /\ IsInjective(Ids(b.sections))
    /\ IsInjective(Ids(b.gaps))
    /\ IsInjective(Ids(b.questions))

\* A gap id that resolves to no gap is an unknown reference, not a rule broken here.
GapRulesHold(b) ==
    \A i \in DOMAIN b.sections :
        LET section == b.sections[i]
            linked == {g \in ToSet(b.gaps) : g.id \in section.gaps}
        IN  /\ section.status # "conflicting" => \A g \in linked : g.kind # "conflicting"
            /\ section.status \in {"partial", "missing", "conflicting"} => section.gaps # {}
            /\ section.status = "conflicting" => \E g \in linked : g.kind = "conflicting"

ContentHasEvidence(b) ==
    \A i \in DOMAIN b.sections :
        /\ b.sections[i].text # <<>>
        /\ b.sections[i].status \in {"populated", "partial", "conflicting"}
        => b.sections[i].spans # {}

ReferencesResolve(b) ==
    LET sections == ToSet(Ids(b.sections))
        gaps == ToSet(Ids(b.gaps))
        questions == ToSet(Ids(b.questions))
    IN  /\ \A i \in DOMAIN b.dispositions : ToSet(b.dispositions[i].dest) \subseteq sections
        /\ \A i \in DOMAIN b.sections :
            /\ b.sections[i].spans \subseteq Spans
            /\ b.sections[i].figs \subseteq Figures
            /\ b.sections[i].gaps \subseteq gaps
        /\ \A i \in DOMAIN b.gaps :
            /\ b.gaps[i].section \in sections
            /\ b.gaps[i].question \in questions \cup {NoQuestion}
        /\ \A i \in DOMAIN b.questions :
            /\ b.questions[i].spans \subseteq Spans
            /\ b.questions[i].figs \subseteq Figures
            /\ b.questions[i].section \in sections \cup {NoSection}

CoverageValid(b) ==
    /\ SpansDisposedOnce(b)
    /\ IdsUnique(b)
    /\ GapRulesHold(b)
    /\ ContentHasEvidence(b)
    /\ ReferencesResolve(b)

-----------------------------------------------------------------------------
(* Promotion of a mapping answer.  The answer has the fields of a bundle,  *)
(* with gap ids as the provider named them, a process view [nodes, edges], *)
(* and `cited`, the ids its findings, section analyses and macro summary   *)
(* refer to.                                                               *)

\* Gap ids are renumbered in answer order; an id that names no gap is kept.
CanonicalGap(answer, raw) ==
    IF \E i \in DOMAIN answer.gaps : answer.gaps[i].id = raw
    THEN CHOOSE i \in DOMAIN answer.gaps : answer.gaps[i].id = raw
    ELSE raw

\* A suggestion is kept with a basis: it says no business value itself, or it is
\* supported by what the question cites.
PromotedQuestion(q) ==
    [q EXCEPT !.suggestion = q.suggestion = "guidance"
                             \/ (q.suggestion = "supported" /\ q.spans \cup q.figs # {})]

PromotedMapping(answer) ==
    [sections |->
        [i \in DOMAIN answer.sections |->
            [answer.sections[i] EXCEPT !.gaps = {CanonicalGap(answer, g) : g \in @}]],
     dispositions |-> answer.dispositions,
     gaps |-> [i \in DOMAIN answer.gaps |-> [answer.gaps[i] EXCEPT !.id = i]],
     questions |-> [i \in DOMAIN answer.questions |-> PromotedQuestion(answer.questions[i])]]

\* The placements are exactly the section requirements of the recipe.
PlacementsMatch(answer) ==
    /\ IsInjective(Ids(answer.sections))
    /\ ToSet(Ids(answer.sections)) = Sections

CitationsKnown(answer) ==
    /\ answer.cited.spans \subseteq Spans
    /\ answer.cited.sections \subseteq ToSet(Ids(answer.sections))
    /\ answer.cited.questions \subseteq ToSet(Ids(answer.questions))

\* The process view: distinct nodes, each of a section, and edges between nodes
\* or sections.
ProcessKnown(answer) ==
    LET sections == ToSet(Ids(answer.sections))
        ends == sections \cup ToSet(Ids(answer.process.nodes))
    IN  /\ IsInjective(Ids(answer.process.nodes))
        /\ \A i \in DOMAIN answer.process.nodes : answer.process.nodes[i].section \in sections
        /\ \A e \in answer.process.edges : {e.from, e.to} \subseteq ends /\ e.spans \subseteq Spans

MappingAccepted(answer) ==
    /\ PlacementsMatch(answer)
    /\ IsInjective(Ids(answer.gaps))
    /\ CitationsKnown(answer)
    /\ ProcessKnown(answer)
    /\ \A i \in DOMAIN answer.dispositions : DispositionValid(answer.dispositions[i])
    /\ CoverageValid(PromotedMapping(answer))

-----------------------------------------------------------------------------
(* Promotion of a draft answer [texts, frozen]: a text per section id, and *)
(* whether the references it repeats are those of the mapping.             *)

\* Placeholders may only come from the source; the sections share its count.
PlaceholdersCovered(b, texts, inSource) ==
    FoldLeft(LAMBDA n, section : n + CountOf(texts[section.id], "ph"), 0, b.sections) <= inSource

DraftAccepted(b, answer, inSource) ==
    /\ DOMAIN answer.texts = ToSet(Ids(b.sections))
    /\ answer.frozen
    /\ PlaceholdersCovered(b, answer.texts, inSource)
    /\ \A i \in DOMAIN b.sections :
        answer.texts[b.sections[i].id] # <<>> => b.sections[i].spans # {}

PromotedDraft(b, texts) ==
    [b EXCEPT !.sections =
        [i \in DOMAIN b.sections |-> [b.sections[i] EXCEPT !.text = texts[b.sections[i].id]]]]

\* The checks of audit_draft that do not ask the provider, and its verdict.
DraftAudit(mapping, draft, report) ==
    LET omissions == {i \in DOMAIN mapping.sections :
                         mapping.sections[i].status = "populated" /\ draft.sections[i].text = <<>>}
        open == {g \in ToSet(mapping.gaps) : g.blocking}
        rejected == \/ ~CoverageValid(mapping) \/ ~CoverageValid(draft)
                    \/ omissions # {} \/ open # {}
                    \/ report.invalid \/ report.unsupported \/ report.status = "fail"
    IN  [status |-> IF rejected THEN "fail" ELSE report.status,
         invalid |-> report.invalid \/ ~CoverageValid(mapping) \/ ~CoverageValid(draft),
         unsupported |-> report.unsupported]

-----------------------------------------------------------------------------
(* render_markdown *)

\* The callouts of some gaps, in the order of their ids.
GapTokens(b, ids) ==
    LET shown == Selection(b.gaps, {i \in DOMAIN b.gaps : b.gaps[i].id \in ids})
    IN  [i \in DOMAIN shown |-> Token("gap", <<"gap", shown[i].id>>)]

RenderSection(b, section) ==
    <<Token("head", <<section.id, 0>>)>> \o section.text \o GapTokens(b, section.gaps)

\* Questions linked to a gap of no section are printed with it and again alone.
RenderMarkdown(b) ==
    LET placed == UNION {s.gaps : s \in ToSet(b.sections)}
        unplaced == {g.id : g \in ToSet(b.gaps)} \ placed
        asked == {g.question : g \in {h \in ToSet(b.gaps) : h.id \in placed}}
        alone == Selection(b.questions, {i \in DOMAIN b.questions : b.questions[i].id \notin asked})
        body == FlattenSeq([i \in DOMAIN SectionOrder |->
                            RenderSection(b, Named(b.sections, SectionOrder[i]))])
    IN  IF unplaced = {} /\ alone = <<>> THEN body
        ELSE body \o <<Token("mark", <<"mark", 0>>)>> \o GapTokens(b, unplaced)
                  \o [i \in DOMAIN alone |-> Token("ask", alone[i].id)]

\* _render_candidate_draft appends the visual candidates after the document.
CandidateDraft(b, figures) ==
    RenderMarkdown(b) \o [i \in DOMAIN figures |-> Token("cand", <<figures[i], 0>>)]
=============================================================================
