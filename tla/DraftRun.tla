------------------------------- MODULE DraftRun -------------------------------
(***************************************************************************)
(* The content of one run, from the source to the sealed final document:   *)
(* CoreRunner._analyze, continue_run and _finish in core/runner.py on what *)
(* the mapping, the draft, the questions and the decisions say.  RunBundle *)
(* has the files, the phases and the crashes of the same run.              *)
(***************************************************************************)
EXTENDS DraftRevision

CONSTANTS
    OfflineSources,   \* the documents a run of the offline provider starts from
    LiveSources,      \* the documents a run of a live provider starts from
    VisualResponses,  \* what a live visual provider may say of the figures
    FigureSizes,      \* how large a figure may be
    VisualLimits,     \* the limits of what is shown to it
    ReviewCandidates, \* the reviews a review provider may add to an offline run
    LiveMappings,     \* what a live provider may answer to map_document
    LiveReports       \* what it may answer to audit_draft

\* A source counts placeholders and lists mentions; what providers answer is parsed
\* into lists of records with these fields.
ASSUME InputsAssumption ==
    /\ \A source \in OfflineSources \cup LiveSources : \A s \in Spans :
        source[s].phs \in Nat /\ source[s].refs \in Seq(ToSet(source[s].refs))
    /\ \A c \in ReviewCandidates :
        c \in Seq(ToSet(c)) /\ \A n \in DOMAIN c : c[n] \in Seq(ToSet(c[n])) /\ QuestionsHaveFields(c[n])
    /\ \A answer \in LiveMappings :
        /\ answer.sections \in Seq(ToSet(answer.sections))
        /\ \A i \in DOMAIN answer.sections :
            DOMAIN answer.sections[i] = {"id", "status", "spans", "figs", "gaps", "text"}
        /\ answer.gaps \in Seq(ToSet(answer.gaps))
        /\ \A i \in DOMAIN answer.gaps :
            DOMAIN answer.gaps[i] = {"id", "section", "kind", "blocking", "question"}
        /\ answer.questions \in Seq(ToSet(answer.questions)) /\ QuestionsHaveFields(answer.questions)

VARIABLES
    phase,      \* visuals, analyze, draft, audit, waiting, failed, sealed or blocked
    provider,   \* offline or live
    source,
    figures,    \* those with a visual candidate, in order
    mapping,    \* the frozen mapping
    draft,      \* the mapping with the drafted texts
    fidelity,   \* the Stage 1 audit of the draft
    questions,  \* the questions of the review, in order
    decisions,  \* the decisions Stage 2 runs with
    waivers,    \* the template sections they waive
    final       \* the final document

vars == <<phase, provider, source, figures, mapping, draft, fidelity, questions, decisions,
          waivers, final>>

Nothing == [sections |-> <<>>, dispositions |-> <<>>, gaps |-> <<>>, questions |-> <<>>]

Init ==
    /\ phase = "visuals"
    /\ \/ provider = "live" /\ source \in LiveSources
       \/ provider = "offline" /\ source \in OfflineSources
    /\ figures = <<>>
    /\ mapping = Nothing
    /\ draft = Nothing
    /\ fidelity = OfflineAudit
    /\ questions = <<>>
    /\ decisions = <<>>
    /\ waivers = {}
    /\ final = <<>>

-----------------------------------------------------------------------------
(* Stage 1 *)

\* Without a live provider nobody looks at the figures.
InterpretVisuals ==
    /\ phase = "visuals"
    /\ \E responses \in (IF provider = "offline" THEN {[f \in Figures |-> NoResponse]} ELSE VisualResponses),
          contextFits \in BOOLEAN, sizes \in [Figures -> FigureSizes], limits \in VisualLimits :
        figures' = Candidates(Interpret(contextFits, sizes, responses, limits))
    /\ phase' = "analyze"
    /\ UNCHANGED <<provider, source, mapping, draft, fidelity, questions, decisions, waivers, final>>

MappingAnswers == IF provider = "offline" THEN {OfflineMapping(source)} ELSE LiveMappings

\* A review provider is asked only where the transformation is offline.
Reviews ==
    {ProviderReview(BuildReview(source), c) : c \in IF provider = "offline" THEN ReviewCandidates ELSE {<<>>}}

MapDocument ==
    /\ phase = "analyze"
    /\ \E answer \in MappingAnswers, review \in Reviews :
        IF MappingAccepted(answer)
        THEN /\ phase' = "draft"
             /\ mapping' = PromotedMapping(answer)
             /\ questions' = MergedQuestions(review, mapping', figures)
        ELSE /\ phase' = "failed"
             /\ UNCHANGED <<mapping, questions>>
    /\ UNCHANGED <<provider, source, figures, draft, fidelity, decisions, waivers, final>>

\* A live draft leaves placeholders out, keeps them, or has one more.
DraftAnswers ==
    IF provider = "offline" THEN {OfflineDraftAnswer(source, mapping)}
    ELSE LET full == OfflineDraftAnswer(source, mapping).texts
             clean == [id \in DOMAIN full |-> Selection(full[id], {i \in DOMAIN full[id] : full[id][i].k # "ph"})]
             extra == [clean EXCEPT ![SectionOrder[1]] =
                        @ \o [n \in 1..Len(SourcePlaceholders(source)) + 1 |-> Token("ph", <<"new", n>>)]]
         IN  {[texts |-> t, frozen |-> TRUE] : t \in {full, clean, extra}}
             \cup {[texts |-> full, frozen |-> FALSE]}

GenerateDraft ==
    /\ phase = "draft"
    /\ \E answer \in DraftAnswers :
        IF DraftAccepted(mapping, answer, Len(SourcePlaceholders(source)))
        THEN /\ phase' = "audit"
             /\ draft' = PromotedDraft(mapping, answer.texts)
        ELSE phase' = "failed" /\ UNCHANGED draft
    /\ UNCHANGED <<provider, source, figures, mapping, fidelity, questions, decisions, waivers, final>>

\* A draft that fails its audit is still offered for review.
AuditDraft ==
    /\ phase = "audit"
    /\ \E report \in (IF provider = "offline" THEN {OfflineAudit} ELSE LiveReports) :
        fidelity' = DraftAudit(mapping, draft, report)
    /\ phase' = "waiting"
    /\ UNCHANGED <<provider, source, figures, mapping, draft, questions, decisions, waivers, final>>

\* A live call does not fit the context, or the gateway gives up on it.
CallFails ==
    /\ provider = "live" /\ phase \in {"analyze", "draft", "audit"}
    /\ phase' = "failed"
    /\ UNCHANGED <<provider, source, figures, mapping, draft, fidelity, questions, decisions, waivers, final>>

-----------------------------------------------------------------------------
(* Stage 2 *)

\* decisions.yaml as an editor leaves it: any of these dispositions per question,
\* entries removed, in the generated order or turned round.
DecisionFiles(dispositions) ==
    LET ids == Ids(questions)
        file(choice) == Selection([i \in DOMAIN ids |-> [id |-> ids[i], disp |-> choice[i]]],
                                  {i \in DOMAIN ids : choice[i] # "absent"})
    IN  {file(choice) : choice \in [DOMAIN ids -> dispositions]}
        \cup {Reverse(file(choice)) : choice \in [DOMAIN ids -> {"accept", "reject"}]}

FinalOf(ds, ws) ==
    ComposeFigureAppendix(
        ReviseExactDraft(CandidateDraft(draft, figures), mapping.gaps, figures, ds, ws), source)

\* A live configuration adds an independent audit, which may fail.
Finish(ds, ws) ==
    /\ final' = FinalOf(ds, ws)
    /\ \E independent \in (IF provider = "offline" THEN {TRUE} ELSE BOOLEAN) :
        phase' = IF independent /\ FinalAuditPasses(final', mapping, fidelity, ds, ws)
                 THEN "sealed" ELSE "blocked"

\* A file that leaves a blocking question open, or cannot be applied, changes
\* nothing here: the run waits for the next one.
Continue ==
    /\ phase = "waiting"
    /\ \E ds \in {f \in DecisionFiles(Dispositions) :
                    Unresolved(questions, f) = {} /\ EffectiveDecisionsExist(questions, f)},
          ws \in SUBSET Sections :
        /\ decisions' = ds
        /\ waivers' = ws
        /\ Finish(ds, ws)
    /\ UNCHANGED <<provider, source, figures, mapping, draft, fidelity, questions>>

\* A run whose audit failed is finished again, from the same decisions.
Retry ==
    /\ phase = "blocked"
    /\ Finish(decisions, waivers)
    /\ UNCHANGED <<provider, source, figures, mapping, draft, fidelity, questions, decisions, waivers>>

Next == InterpretVisuals \/ MapDocument \/ GenerateDraft \/ AuditDraft \/ CallFails \/ Continue \/ Retry

Spec == Init /\ [][Next]_vars

-----------------------------------------------------------------------------
(* Properties *)

\* Nothing of the review machinery is left in a sealed document: no placeholder,
\* no candidate, no blocking gap callout, and no trailing review markers.
SealedTextIsClean ==
    phase = "sealed" =>
        /\ ~Has(final, "ph") /\ ~Has(final, "cand") /\ ~Has(final, "mark")
        /\ \A g \in ToSet(mapping.gaps) :
            g.blocking => FirstOf(final, "gap", <<"gap", g.id>>) = 0

\* The answers a text shows, at a marker or in the decision log.
AnswersIn(text) ==
    {text[i].id : i \in {j \in DOMAIN text : text[j].k = "ans"}}
    \cup UNION {text[i].answers : i \in {j \in DOMAIN text : text[j].k = "log"}}

\* With the offline provider every accepted answer is in the sealed document.
OfflineKeepsAnswers ==
    phase = "sealed" /\ provider = "offline" =>
        ToSet(AcceptedIds(decisions)) \subseteq AnswersIn(final)

\* The heading over the token at i, 0 for the title of the document.
HeadingOver(text, i) ==
    CHOOSE j \in 0..i : /\ j = 0 \/ IsHeading(text[j])
                        /\ \A l \in (j + 1)..i : ~IsHeading(text[l])

\* With the offline provider the sealed document has every piece of the source
\* once, under the section the mapping placed it in, in the order of the source,
\* and refers to every figure once, only in a section that it comes from.
OfflineKeepsSource ==
    phase = "sealed" /\ provider = "offline" =>
        /\ \A n \in DOMAIN SectionOrder :
            LET from == FirstOf(final, "head", <<SectionOrder[n], 0>>)
                to == IF n = Len(SectionOrder) THEN Len(final) + 1
                      ELSE FirstOf(final, "head", <<SectionOrder[n + 1], 0>>)
                prose == Selection(final, {i \in from..(to - 1) : final[i].k = "text"})
                spans == SectionSpans(source, SectionOrder[n])
            IN  prose = [i \in DOMAIN spans |-> Token("text", <<spans[i], 0>>)]
        /\ \A f \in Figures : \E i \in DOMAIN final :
            /\ {j \in DOMAIN final : final[j] = Reference(f)} = {i}
            /\ LET over == HeadingOver(final, i)
               IN  over # 0 /\ final[over].k = "head"
                    => \E s \in FigureSpans[f] : final[over].id[1] = AssignedSection(source, s)

\* Whatever a provider adds, the questions of the deterministic review are all
\* asked, as they were, no two questions share an id, each cites what exists, and
\* every gap with a question finds it among them.
ReviewSurvivesProviders ==
    phase = "waiting" =>
        /\ IsPrefix(BuildReview(source), questions)
        /\ IsInjective(Ids(questions))
        /\ \A q \in ToSet(questions) : q.spans \subseteq Spans /\ q.figs \subseteq Figures
        /\ \A g \in ToSet(mapping.gaps) :
            g.question = NoQuestion \/ g.question \in ToSet(Ids(questions))

\* Some decisions and waivers lead from here to a sealed document.  Accepting and
\* rejecting are always open to the reviewer, and the other dispositions do no
\* more.
CanSeal ==
    \E ds \in DecisionFiles({"accept", "reject"}), ws \in SUBSET Sections :
        FinalAuditPasses(FinalOf(ds, ws), mapping, fidelity, ds, ws)

\* A waiting run can be sealed exactly when its mapping cites every span where it
\* places it, no gap is called out twice, the Stage 1 audit found neither invalid
\* references nor unsupported additions, and no caption mentions a figure that the
\* source does not have: nothing else is in its way.
SealableExactlyWhen ==
    phase = "waiting" =>
        (CanSeal <=>
            /\ SourceSectionsRetained(mapping)
            /\ \A g \in ToSet(mapping.gaps) : g.blocking =>
                LET text == RenderMarkdown(draft)
                IN  Cardinality({i \in DOMAIN text : text[i] = Token("gap", <<"gap", g.id>>)}) = 1
            /\ ~fidelity.invalid /\ ~fidelity.unsupported
            /\ \A f \in Figures : source[FirstSpan(f)].captions \subseteq Figures)

\* An accepted answer to a placeholder question stands where that placeholder was
\* ("What should replace 'TBD'?").
AnswersInPlace ==
    phase = "sealed" =>
        \A i \in DOMAIN final : \A n \in DOMAIN SourcePlaceholders(source) :
            final[i].k = "ans" /\ final[i].at = SourcePlaceholders(source)[n].id
                => final[i].id = <<"ph", n>>

\* Stage 2 waits while a decision is deferred ("defer: keep Stage 2 paused").
DeferPausesStageTwo ==
    phase \in {"sealed", "blocked"} => \A i \in DOMAIN decisions : decisions[i].disp # "defer"
=============================================================================
