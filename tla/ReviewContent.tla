---------------------------- MODULE ReviewContent ----------------------------
(***************************************************************************)
(* The questions of the review: those the deterministic review asks        *)
(* (build_review in core/review.py) and those that a provider's review,    *)
(* the mapping and the visual candidates add (merge_provider_review, and   *)
(* _analyze and _merge_visual_questions in core/runner.py).                *)
(*                                                                         *)
(* A source is a function from spans to                                    *)
(*   home      the title of the source section the span is in, "" for text *)
(*             under no heading                                            *)
(*   phs       its number of placeholders                                  *)
(*   conflict  whether it says CONFLICT                                    *)
(*   disputed  whether a claim in it contradicts one elsewhere             *)
(*   evidence  whether it has what a hard blocking criterion asks for      *)
(*   refs      the figure ids its prose mentions, in order                 *)
(*   captions  the figure ids that the captions of its figures mention     *)
(* A section title is the id of the template section it matches.           *)
(***************************************************************************)
EXTENDS Transformation

CONSTANTS
    Required,    \* the template sections the recipe requires
    HardBlockers \* the template sections with a hard blocking criterion

SpanText(source, span) ==
    <<Token("text", <<span, 0>>)>>
    \o [n \in 1..source[span].phs |-> Token("ph", <<span, n>>)]
    \o [n \in DOMAIN source[span].refs |-> Token("fig", <<source[span].refs[n], 0>>)]

SourcePlaceholders(source) ==
    LET text == FlattenSeq([i \in DOMAIN SpanOrder |-> SpanText(source, SpanOrder[i])])
    IN  Selection(text, {i \in DOMAIN text : text[i].k = "ph"})

ReviewQuestion(id, suggestion) ==
    [id |-> id, blocking |-> TRUE, section |-> NoSection, spans |-> {}, figs |-> {},
     suggestion |-> suggestion]

\* One question per template section that is asked about, in template order.
SectionQuestions(name, asked) ==
    LET indices == Selection([i \in DOMAIN SectionOrder |-> i],
                             {i \in DOMAIN SectionOrder : SectionOrder[i] \in asked})
    IN  [n \in DOMAIN indices |-> ReviewQuestion(<<name, indices[n]>>, TRUE)]

\* A conflict marker and contradictory values of two sections ask the same.
FindContextualConflicts(source) ==
    {s \in Spans : source[s].conflict \/ source[s].disputed}

\* Required sections without a source heading, the open points, a document
\* without headings, the placeholders in document order, and present sections
\* that lack the evidence of a hard blocker.
BuildReview(source) ==
    LET under(id) == {s \in Spans : source[s].home = id}
    IN  SectionQuestions("req", {id \in Required : under(id) = {}})
        \o (IF FindContextualConflicts(source) # {}
            THEN <<ReviewQuestion(<<"open", 1>>, TRUE)>> ELSE <<>>)
        \o (IF under("") = Spans THEN <<ReviewQuestion(<<"structure", 1>>, TRUE)>> ELSE <<>>)
        \o [n \in DOMAIN SourcePlaceholders(source) |-> ReviewQuestion(<<"ph", n>>, FALSE)]
        \o SectionQuestions("crit", {id \in HardBlockers :
            under(id) # {} /\ \A s \in under(id) : ~source[s].evidence})

-----------------------------------------------------------------------------
(* What others add *)

\* Mutant: a prefix is enough.
UniqueProviderIdPrefixed(id, seen) ==
    IF id \notin seen THEN id ELSE <<"llm", id>>

\* The id itself, else prefixed, else prefixed and numbered from 2.
UniqueProviderId(id, seen) ==
    LET prefixed == <<"llm", id>>
        numbered(k) == <<"llm", id, k>>
    IN  CASE id \notin seen -> id
          [] id \in seen /\ prefixed \notin seen -> prefixed
          [] OTHER -> numbered(CHOOSE k \in 2..(Cardinality(seen) + 2) :
                        numbered(k) \notin seen /\ \A j \in 2..(k - 1) : numbered(j) \in seen)

\* A question that cites something must cite something that exists; what it
\* cites besides is dropped.  The figures are known to the mapping only.
MergeProviderReview(base, candidate, figures) ==
    FoldLeft(LAMBDA questions, q :
                LET spans == q.spans \cap Spans
                    figs == q.figs \cap figures
                IN  IF q.spans \cup q.figs # {} /\ spans \cup figs = {} THEN questions
                    ELSE Append(questions,
                            [q EXCEPT !.id = UniqueProviderId(q.id, ToSet(Ids(questions))),
                                      !.spans = spans, !.figs = figs, !.section = NoSection]),
             base, candidate)

\* The macro review and the section batches of a review provider, in turn.
ProviderReview(review, candidates) ==
    FoldLeft(LAMBDA base, c :
                MergeProviderReview(base, [i \in DOMAIN c |-> PromotedQuestion(c[i])], {}),
             review, candidates)

\* Mapping questions whose id the review already uses are dropped, the others
\* merged; then one question per visual candidate whose question id is free.
MergedQuestions(review, mapping, figures) ==
    LET merged == MergeProviderReview(review,
            Selection(mapping.questions,
                      {i \in DOMAIN mapping.questions :
                          mapping.questions[i].id \notin ToSet(Ids(review))}), Figures)
        asked  == Selection(figures, {i \in DOMAIN figures : <<figures[i], 0>> \notin ToSet(Ids(merged))})
    IN  merged \o [i \in DOMAIN asked |->
            [ReviewQuestion(<<asked[i], 0>>, FALSE) EXCEPT !.figs = {asked[i]}]]
=============================================================================
