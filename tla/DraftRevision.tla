---------------------------- MODULE DraftRevision ----------------------------
(***************************************************************************)
(* Stage 2 on the content of a run: how the reviewer's decisions change    *)
(* the candidate draft (_revise_exact_draft in core/runner.py,             *)
(* apply_reviewer_decisions in core/rewrite.py) and the deterministic      *)
(* checks of the final audit (core/audit.py).                              *)
(*                                                                         *)
(* A decision is [id, disp], in the order of decisions.yaml.  Two tokens   *)
(* are added to a text: "ans", the answer to a question, with the id of    *)
(* the marker it took the place of, and "log", the decision log.           *)
(***************************************************************************)
EXTENDS SourceFigures

Dispositions == {"accept", "accept_suggestion", "reject", "defer", "absent"}

Answer(q, at) == [k |-> "ans", id |-> q, at |-> at]

FirstOf(text, k, id) == SelectInSeq(text, LAMBDA t : t.k = k /\ t.id = id)

\* Replace the token at index i, if there is one.
Substitute(text, i, token) == IF i = 0 THEN text ELSE ReplaceAt(text, i, token)

Delete(text, i) == IF i = 0 THEN text ELSE RemoveAt(text, i)

-----------------------------------------------------------------------------
(* The gate *)

DispositionOf(decisions, id) ==
    IF id \in ToSet(Ids(decisions)) THEN Named(decisions, id).disp ELSE "absent"

\* Blocking questions without an answer that can be applied.
Unresolved(questions, decisions) ==
    {q \in ToSet(questions) :
        /\ q.blocking
        /\ \/ DispositionOf(decisions, q.id) \in {"absent", "defer"}
           \/ DispositionOf(decisions, q.id) = "accept_suggestion" /\ ~q.suggestion}

\* _effective_decisions raises on a second decision, an unknown question and
\* where there is no suggestion to accept.
EffectiveDecisionsExist(questions, decisions) ==
    /\ IsInjective(Ids(decisions))
    /\ ToSet(Ids(decisions)) \subseteq ToSet(Ids(questions))
    /\ \A q \in ToSet(questions) :
        DispositionOf(decisions, q.id) = "accept_suggestion" => q.suggestion

AcceptedIds(decisions) ==
    LET accepted == Selection(decisions, {i \in DOMAIN decisions :
                        decisions[i].disp \in {"accept", "accept_suggestion"}})
    IN  Ids(accepted)

-----------------------------------------------------------------------------
(* The revision of the draft *)

GapResolved(gap, decisions, waivers) ==
    gap.section \in waivers \/ gap.question \in ToSet(AcceptedIds(decisions))

\* Mutant: every callout of the gap is replaced.
ReviseGapsEverywhere(text, gaps, decisions, waivers) ==
    LET answered == {<<"gap", g.id>> : g \in {h \in ToSet(gaps) : GapResolved(h, decisions, waivers)}}
    IN  Selection(text, {i \in DOMAIN text : text[i].k # "gap" \/ text[i].id \notin answered})

\* An accepted answer replaces the first callout of its gap, a waiver removes it.
ReviseGaps(text, gaps, decisions, waivers) ==
    FoldLeft(LAMBDA doc, gap :
                LET at == <<"gap", gap.id>>
                IN  IF gap.question \in ToSet(AcceptedIds(decisions))
                    THEN Substitute(doc, FirstOf(doc, "gap", at), Answer(gap.question, at))
                    ELSE IF GapResolved(gap, decisions, waivers)
                         THEN Delete(doc, FirstOf(doc, "gap", at)) ELSE doc,
             text, gaps)

\* A reviewed candidate loses its markers, or goes.
ReviseVisuals(text, figures, decisions) ==
    FoldLeft(LAMBDA doc, f :
                LET at == <<f, 0>>
                IN  CASE at \in ToSet(AcceptedIds(decisions)) ->
                            Substitute(doc, FirstOf(doc, "cand", at), Answer(at, at))
                      [] DispositionOf(decisions, at) = "reject" ->
                            Delete(doc, FirstOf(doc, "cand", at))
                      [] OTHER -> doc,
             text, figures)

\* Each accepted answer takes the first placeholder left in the document.
ApplyDeterministicAnswers(text, decisions) ==
    FoldLeft(LAMBDA doc, q :
                LET i == SelectInSeq(doc, LAMBDA t : t.k = "ph")
                IN  IF i = 0 THEN doc ELSE ReplaceAt(doc, i, Answer(q, doc[i].id)),
             text, AcceptedIds(decisions))

DecisionLog(decisions) ==
    [k |-> "log", id |-> <<"log", 0>>, answers |-> ToSet(AcceptedIds(decisions))]

\* Mutant: the log is only for answers that filled a placeholder.
ApplyDecisionsLoggingFilled(text, decisions) ==
    LET filled == ApplyDeterministicAnswers(text, decisions)
    IN  IF filled = text THEN text ELSE Append(filled, DecisionLog(decisions))

ApplyReviewerDecisions(text, decisions) ==
    LET filled == ApplyDeterministicAnswers(text, decisions)
    IN  IF AcceptedIds(decisions) = <<>> THEN filled ELSE Append(filled, DecisionLog(decisions))

\* Everything from the review markers on goes once nothing is open.
DropReviewMarkers(text) ==
    LET i == SelectInSeq(text, LAMBDA t : t.k = "mark")
    IN  IF i = 0 THEN text ELSE SubSeq(text, 1, i - 1)

\* Mutant: a gap of a waived section counts as open.
ReviseDraftIgnoringWaivers(text, gaps, figures, decisions, waivers) ==
    LET revised == ApplyReviewerDecisions(
                     ReviseVisuals(ReviseGaps(text, gaps, decisions, waivers), figures, decisions),
                     decisions)
        openGaps == {g \in ToSet(gaps) : g.blocking /\ ~GapResolved(g, decisions, {})}
    IN  IF openGaps = {} THEN DropReviewMarkers(revised) ELSE revised

ReviseExactDraft(text, gaps, figures, decisions, waivers) ==
    LET revised == ApplyReviewerDecisions(
                     ReviseVisuals(ReviseGaps(text, gaps, decisions, waivers), figures, decisions),
                     decisions)
        openGaps == {g \in ToSet(gaps) : g.blocking /\ ~GapResolved(g, decisions, waivers)}
        unreviewed == {f \in ToSet(figures) :
                        DispositionOf(decisions, <<f, 0>>) \in {"defer", "absent"}}
    IN  IF openGaps = {} /\ unreviewed = {} THEN DropReviewMarkers(revised) ELSE revised

-----------------------------------------------------------------------------
(* The final audit *)

\* Every span is placed in sections that cite it; an omitted span fails here.
SourceSectionsRetained(mapping) ==
    \A i \in DOMAIN mapping.dispositions :
        LET d == mapping.dispositions[i]
        IN  /\ d.action # "intentionally_omitted"
            /\ \A j \in DOMAIN d.dest : d.span \in Named(mapping.sections, d.dest[j]).spans

RequiredSectionsPresent(text, waivers) ==
    \A id \in Required \ waivers : \E i \in DOMAIN text : text[i].k = "head" /\ text[i].id = <<id, 0>>

\* At least a quarter of the distinctive source wording survives.
SourceAnchorRetained(text) ==
    4 * Cardinality({s \in Spans : \E i \in DOMAIN text : text[i].k = "text" /\ text[i].id = <<s, 0>>})
        >= Cardinality(Spans)

BlockingGapsResolved(text, gaps) ==
    \A g \in ToSet(gaps) :
        g.blocking => ~\E i \in DOMAIN text : text[i].k = "gap" /\ text[i].id = <<"gap", g.id>>

FinalAuditPasses(text, mapping, fidelity, decisions, waivers) ==
    /\ ~Has(text, "ph")
    /\ \A i \in DOMAIN decisions : decisions[i].disp # "defer"
    /\ SourceAnchorRetained(text)
    /\ SourceSectionsRetained(mapping)
    /\ RequiredSectionsPresent(text, waivers)
    /\ ~fidelity.invalid /\ ~fidelity.unsupported
    /\ BlockingGapsResolved(text, mapping.gaps)
    /\ ~Has(text, "cand")
    /\ FigureReferencesValid(text)
    /\ FigureAppendixComplete(text)
=============================================================================
