-------------------------- MODULE DraftRunInvariant --------------------------
(***************************************************************************)
(* The inductive invariant of DraftRun, that DraftRunProofs proves and a   *)
(* run of TLC checks on a small instance.                                  *)
(***************************************************************************)
EXTENDS DraftRun

\* A sequence, of whatever it holds.
IsSeq(s) == s \in Seq(ToSet(s))

\* The fields of a question.
Fields == {"id", "blocking", "section", "spans", "figs", "suggestion"}

\* A list of questions with an id each, that cite what exists.
ReviewIsSound(qs) ==
    /\ IsSeq(qs)
    /\ IsInjective(Ids(qs))
    /\ QuestionsHaveFields(qs)
    /\ \A q \in ToSet(qs) : q.spans \subseteq Spans /\ q.figs \subseteq Figures

\* t begins with s.
Extends(s, t) == Len(s) <= Len(t) /\ \A i \in 1 .. Len(s) : t[i] = s[i]

\* The ids that are asked.
IdsOf(qs) == ToSet(Ids(qs))

\* What a source counts can be counted, and what it lists are lists.
SourceIsRead(doc) ==
    \A s \in Spans : doc[s].phs \in Nat /\ doc[s].refs \in Seq(ToSet(doc[s].refs))

\* The kinds of tokens of source prose.
SourceKinds == {"text", "ph", "fig"}

\* Figures in some order, each once.
FigureList(figs) == IsSeq(figs) /\ IsInjective(figs) /\ ToSet(figs) \subseteq Figures

\* What an answer lists has the fields of what it is.
AnswerIsParsed(answer) ==
    /\ IsSeq(answer.sections)
    /\ \A i \in DOMAIN answer.sections :
        DOMAIN answer.sections[i] = {"id", "status", "spans", "figs", "gaps", "text"}
    /\ IsSeq(answer.gaps)
    /\ \A i \in DOMAIN answer.gaps :
        DOMAIN answer.gaps[i] = {"id", "section", "kind", "blocking", "question"}
    /\ IsSeq(answer.questions) /\ QuestionsHaveFields(answer.questions)

\* A mapping that passed: one section per id of the template, and coverage holds.
MappingIsSound(m) ==
    /\ DOMAIN m = {"sections", "dispositions", "gaps", "questions"}
    /\ AnswerIsParsed(m)
    /\ ToSet(Ids(m.sections)) = Sections
    /\ CoverageValid(m)

\* A text of prose, placeholders and references only.
TextIsSource(t) == IsSeq(t) /\ \A x \in ToSet(t) : x.k \in SourceKinds

\* A draft differs from its mapping in the texts of its sections.
DraftIsOf(d, m) ==
    /\ d.gaps = m.gaps /\ d.questions = m.questions
    /\ IsSeq(d.sections) /\ DOMAIN d.sections = DOMAIN m.sections
    /\ \A i \in DOMAIN m.sections :
        /\ d.sections[i].id = m.sections[i].id
        /\ d.sections[i].gaps = m.sections[i].gaps
        /\ TextIsSource(d.sections[i].text)

\* What the gate asks: the deterministic review, and whatever a gap is linked to.
QuestionsAreAsked(qs, doc, m) ==
    /\ ReviewIsSound(qs)
    /\ Extends(BuildReview(doc), qs)
    /\ \A g \in ToSet(m.gaps) : g.question = NoQuestion \/ g.question \in IdsOf(qs)

\* How far the run has come.
Mapped == phase \in {"draft", "audit", "waiting", "sealed", "blocked"}
Drafted == phase \in {"audit", "waiting", "sealed", "blocked"}
Decided == phase \in {"sealed", "blocked"}

\* From the mapping on, the questions are those of the gate (core/runner.py:
\* _merge_provider_review) and never change; from the draft on, it says what the
\* mapping says; a final document is the one its decisions lead to, and a sealed
\* one passed its audit.
DraftInv ==
    /\ SourceIsRead(source)
    /\ FigureList(figures)
    /\ Mapped => /\ MappingIsSound(mapping)
                 /\ QuestionsAreAsked(questions, source, mapping)
                 /\ provider = "offline" => mapping = PromotedMapping(OfflineMapping(source))
    /\ Drafted => DraftIsOf(draft, mapping)
    /\ Decided => /\ IsSeq(decisions)
                  /\ EffectiveDecisionsExist(questions, decisions)
                  /\ final = FinalOf(decisions, waivers)
    /\ phase = "sealed" => FinalAuditPasses(final, mapping, fidelity, decisions, waivers)

=============================================================================
