---------------------------- MODULE SourceFigures ----------------------------
(***************************************************************************)
(* The figures of a run: what a visual provider may say of them            *)
(* (VisualInterpreter in core/visuals.py), how they return to the final    *)
(* document (compose_figure_appendix in core/figures.py) and the checks of *)
(* the final audit on them (core/audit.py).                                *)
(*                                                                         *)
(* Three tokens are added to a text: "fig", a reference to a figure,       *)
(* "refs", the heading over the references that found no place, and        *)
(* "shot", the entry of a figure in the appendix, with the figure ids it   *)
(* mentions.                                                               *)
(***************************************************************************)
EXTENDS OfflineDraft

CONSTANTS
    FigureOrder,  \* the figures in the order they first occur in the source
    Leading       \* those that stand before the prose of their spans, not behind it

ASSUME FiguresAreOrdered ==
    /\ FigureOrder \in Seq(Figures) /\ IsInjective(FigureOrder) /\ ToSet(FigureOrder) = Figures
    /\ Leading \subseteq Figures

-----------------------------------------------------------------------------
(* What a provider says of a figure: a record [fig, digest, spans, kind,   *)
(* status, rows, columns, nodes, edges, mermaid], or NoResponse.  Limits   *)
(* are a record [figures, bytes, total, rows, columns, cells].             *)

NoResponse == [fig |-> "none"]

ResponseValid(f, r, limits) ==
    /\ r.fig = f
    /\ r.digest = f
    /\ r.spans \subseteq FigureSpans[f]
    /\ r.kind = "table" =>
        /\ r.rows \in 1..limits.rows
        /\ r.columns <= limits.columns /\ r.rows * r.columns <= limits.cells
    /\ r.kind = "process_diagram" =>
        /\ \A e \in r.edges : {e.from, e.to} \subseteq r.nodes
        /\ r.mermaid \/ r.nodes # {}

\* Whatever is converted is a candidate; "unsupported" stands unless the provider
\* does not know what it sees.
PromotedStatus(r) ==
    CASE r.kind = "unknown" -> "requires_review"
      [] r.kind # "unknown" /\ (r.kind = "decorative" \/ r.status = "unsupported") -> r.status
      [] OTHER -> "requires_review"

\* The figures, by their place in the order, that are within the limits: what a
\* larger one would have taken is left to those behind it.  A size is that of the
\* payload; too long a caption counts as too large a payload.
Shown(contextFits, sizes, limits) ==
    LET take(done, n) ==
            LET size == sizes[FigureOrder[n]]
            IN  IF /\ contextFits /\ n <= limits.figures /\ size <= limits.bytes
                   /\ done.bytes + size <= limits.total
                THEN [bytes |-> done.bytes + size, shown |-> done.shown \cup {n}] ELSE done
    IN  FoldLeft(take, [bytes |-> 0, shown |-> {}], [n \in DOMAIN FigureOrder |-> n]).shown

\* One result per figure, in order.  A figure beyond a limit, and one whose
\* response is missing or wrong, is left to the reviewer.
Interpret(contextFits, sizes, responses, limits) ==
    [n \in DOMAIN FigureOrder |->
        LET f == FigureOrder[n]
            answered == /\ n \in Shown(contextFits, sizes, limits)
                        /\ responses[f] # NoResponse
                        /\ ResponseValid(f, responses[f], limits)
        IN  [fig |-> f, status |-> IF answered THEN PromotedStatus(responses[f]) ELSE "requires_review"]]

\* The figures whose conversion the draft shows and the review asks about.
Candidates(results) ==
    LET kept == Selection(results, {i \in DOMAIN results : results[i].status # "unsupported"})
    IN  [n \in DOMAIN kept |-> kept[n].fig]

-----------------------------------------------------------------------------
(* The references and the appendix *)

IsHeading(t) == t.k \in {"head", "mark", "log", "refs"}

FirstSpan(f) == SpanOrder[CHOOSE i \in DOMAIN SpanOrder :
                    /\ SpanOrder[i] \in FigureSpans[f]
                    /\ \A j \in 1..(i - 1) : SpanOrder[j] \notin FigureSpans[f]]

\* The last prose before a figure at the i-th span, in the same section; anywhere
\* before it, if it is in none.
AnchorAt(source, f, i) ==
    LET home == source[SpanOrder[i]].home
        before == {j \in 1..(IF f \in Leading THEN i - 1 ELSE i) : home \in {source[SpanOrder[j]].home, ""}}
    IN  IF before = {} THEN <<>> ELSE SpanText(source, SpanOrder[Max(before)])

\* Of its occurrences, the first that has one.
AnchorText(source, f) ==
    LET places == {i \in DOMAIN SpanOrder :
                    SpanOrder[i] \in FigureSpans[f] /\ AnchorAt(source, f, i) # <<>>}
    IN  IF places = {} THEN <<>> ELSE AnchorAt(source, f, Min(places))

Places(text, part) ==
    {i \in 1..(Len(text) - Len(part) + 1) : SubSeq(text, i, i + Len(part) - 1) = part}

\* The document is titled by the first section of the source.
DocumentTitle(source) ==
    LET titled == {i \in DOMAIN SpanOrder : source[SpanOrder[i]].home # ""}
    IN  IF titled = {} THEN "" ELSE source[SpanOrder[Min(titled)]].home

\* The headings with the title of the section a figure comes from; the title of
\* the document, at 0, is the first.  What stands before the first section of a
\* source is in no section.
MatchingHeadings(text, source, f) ==
    LET home == source[FirstSpan(f)].home
    IN  (IF home = DocumentTitle(source) THEN {0} ELSE {})
        \cup {i \in DOMAIN text : text[i].k = "head" /\ text[i].id = <<home, 0>>}

\* Where the section that starts at heading i ends.
SectionEnd(text, i) ==
    CHOOSE j \in (i + 1)..(Len(text) + 1) :
        /\ j = Len(text) + 1 \/ IsHeading(text[j])
        /\ \A l \in (i + 1)..(j - 1) : ~IsHeading(text[l])

\* Where the reference goes: behind the anchor if the text has it exactly once,
\* else to the end of the section the figure came from; 0 if there is none.
ReferencePlace(text, source, f) ==
    LET anchor == AnchorText(source, f)
        places == Places(text, anchor)
        headings == MatchingHeadings(text, source, f)
    IN  IF anchor # <<>> /\ Cardinality(places) = 1
        THEN (CHOOSE i \in places : TRUE) + Len(anchor)
        ELSE IF headings # {}
             THEN SectionEnd(text, CHOOSE i \in headings : \A j \in headings : i <= j)
             ELSE 0

Reference(f) == Token("fig", <<f, 0>>)

Screenshot(source, f) ==
    [k |-> "shot", id |-> <<f, 0>>, mentions |-> {f} \cup source[FirstSpan(f)].captions]

\* The references of the source go; then every figure gets one, and an entry in
\* the appendix.
ComposeFigureAppendix(text, source) ==
    LET place(done, f) ==
            LET at == ReferencePlace(done.text, source, f)
            IN  IF at = 0 THEN [done EXCEPT !.unplaced = Append(@, Reference(f))]
                ELSE [done EXCEPT !.text = InsertAt(@, at, Reference(f))]
        placed == FoldLeft(place, [text |-> Selection(text, {i \in DOMAIN text : text[i].k # "fig"}),
                                   unplaced |-> <<>>], FigureOrder)
    IN  placed.text
        \o (IF placed.unplaced = <<>> THEN <<>> ELSE <<Token("refs", <<"refs", 0>>)>> \o placed.unplaced)
        \o [n \in DOMAIN FigureOrder |-> Screenshot(source, FigureOrder[n])]

-----------------------------------------------------------------------------
(* The checks of the final audit *)

\* The figure ids a token shows.
Mentions(t) ==
    CASE t.k = "fig" -> {t.id[1]}
      [] t.k = "shot" -> t.mentions
      [] OTHER -> {}

\* The figures mentioned are those of the source, each of them twice or more.
FigureReferencesValid(text) ==
    /\ UNION {Mentions(text[i]) : i \in DOMAIN text} = Figures
    /\ \A f \in Figures : Cardinality({i \in DOMAIN text : f \in Mentions(text[i])}) >= 2

FigureAppendixComplete(text) ==
    \A f \in Figures :
        Cardinality({i \in DOMAIN text : text[i].k = "shot" /\ text[i].id = <<f, 0>>}) = 1
=============================================================================
