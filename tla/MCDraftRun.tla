----------------------------- MODULE MCDraftRun -----------------------------
\* Three spans, a template of two sections of which the first is required, and
\* two figures.
EXTENDS DraftRunInvariant

MCSpanOrder == <<"s1", "s2", "s3">>

MCSectionOrder == <<"a", "b">>

MCFigureOrder == <<"f1", "f2">>

\* The first figure comes before all prose and occurs again at the end.
MCFigureSpans == [f1 |-> {"s1", "s3"}, f2 |-> {"s2"}]

Response(kind, status) ==
    [fig |-> "f1", digest |-> "f1", spans |-> {"s1"}, kind |-> kind, status |-> status,
     rows |-> 2, columns |-> 2, nodes |-> {"n"}, edges |-> {}, mermaid |-> FALSE]

\* None; dismissals, one of them of what the provider does not know; a
\* conversion; dismissals that are not valid.
MCVisualResponses ==
    {[f1 |-> r, f2 |-> s] :
        r \in {NoResponse, Response("chart", "unsupported"), Response("unknown", "unsupported"),
               Response("decorative", "extracted"), Response("ui_screenshot", "best_effort"),
               [Response("table", "unsupported") EXCEPT !.rows = 3],
               [Response("process_diagram", "unsupported") EXCEPT !.edges = {[from |-> "n", to |-> "m"]}],
               [Response("chart", "unsupported") EXCEPT !.spans = {"s9"}],
               [Response("chart", "unsupported") EXCEPT !.digest = "f9"]},
        s \in {NoResponse,
               [Response("chart", "unsupported") EXCEPT !.fig = "f2", !.digest = "f2", !.spans = {"s2"}]}}

\* Room for one figure, and for two small ones.
MCVisualLimits ==
    {[figures |-> n, bytes |-> 2, total |-> 3, rows |-> 2, columns |-> 2, cells |-> 4] : n \in {1, 2}}

Piece(home, phs, conflict) ==
    [home |-> home, phs |-> phs, conflict |-> conflict, disputed |-> FALSE, evidence |-> home = "a",
     refs |-> <<>>, captions |-> {}]

Plain(home) == Piece(home, 0, FALSE)

From(x, y, z) == [s1 |-> x, s2 |-> y, s3 |-> z]

\* Nothing open; one placeholder in either section; two in the optional one; two
\* partial sections; the required section missing, with and without a
\* placeholder; a conflict, with a placeholder; a heading the template lacks; no
\* heading; contradictory values, and a hard blocker without evidence; prose and
\* captions that mention figures, one of them unknown.
MCOfflineSources ==
    {From(Plain("a"), Plain("b"), Plain("b")),
     From(Piece("a", 1, FALSE), Plain("b"), Plain("b")),
     From(Plain("a"), Piece("b", 2, FALSE), Plain("b")),
     From(Piece("a", 1, FALSE), Plain("a"), Piece("b", 1, FALSE)),
     From(Plain("b"), Plain("b"), Plain("b")),
     From(Piece("b", 1, FALSE), Plain("b"), Plain("b")),
     From(Piece("a", 1, TRUE), Plain("b"), Plain("b")),
     From(Plain("other"), Plain("b"), Plain("b")),
     From(Plain(""), Plain(""), Plain("")),
     From([Plain("a") EXCEPT !.evidence = FALSE, !.disputed = TRUE],
          [Piece("b", 1, FALSE) EXCEPT !.disputed = TRUE], Plain("b")),
     From([Plain("a") EXCEPT !.refs = <<"f9", "f1">>], Plain("other"), Plain("other")),
     From([Plain("") EXCEPT !.captions = {"f2"}], Plain("a"), Plain("b")),
     From(Plain("b"), [Plain("a") EXCEPT !.captions = {"f9"}], Plain("a"))}

CandidateQuestion(id, spans, figs) ==
    [id |-> id, blocking |-> FALSE, section |-> "b", spans |-> spans, figs |-> figs,
     suggestion |-> "supported"]

\* No review provider; one whose questions take the ids of others, in two batches,
\* and cite spans and figures that do not exist; one that takes the id of a
\* renamed question and that of a visual question.
MCReviewCandidates ==
    {<<>>,
     <<<<CandidateQuestion(<<"ph", 1>>, {"s1", "s9"}, {}),
         CandidateQuestion(<<"map", 1>>, {"s9"}, {})>>,
       <<CandidateQuestion(<<"ph", 1>>, {"s2"}, {}), CandidateQuestion(<<"ph", 2>>, {}, {"f1"})>>>>,
     <<<<CandidateQuestion(<<"llm", <<"ph", 1>>>>, {}, {}), CandidateQuestion(<<"f1", 0>>, {"s1"}, {})>>>>}

MCLiveSources == {From(Piece("a", 1, FALSE), Plain("b"), Plain("b"))}

Section(id, status, spans, gaps) ==
    [id |-> id, status |-> status, spans |-> spans, figs |-> {}, gaps |-> gaps, text |-> <<>>]

Placed(span, id) == [span |-> span, action |-> "placed", dest |-> <<id>>]

GapAt(id, section, kind, question) ==
    [id |-> id, section |-> section, kind |-> kind, blocking |-> TRUE, question |-> question]

Ask(n, blocking, suggestion) ==
    [id |-> <<"map", n>>, blocking |-> blocking, section |-> NoSection, spans |-> {"s1"},
     figs |-> {}, suggestion |-> suggestion]

Whole ==
    [sections |-> <<Section("a", "populated", {"s1"}, {}), Section("b", "populated", {"s2", "s3"}, {})>>,
     dispositions |-> <<Placed("s1", "a"), Placed("s2", "b"), Placed("s3", "b")>>,
     gaps |-> <<>>, questions |-> <<>>,
     process |-> [nodes |-> <<[id |-> "n", section |-> "a"]>>,
                  edges |-> {[from |-> "n", to |-> "b", spans |-> {"s1"}]}],
     cited |-> [spans |-> {}, sections |-> {}, questions |-> {}]]

\* A question of its own; a gap in a section, in no section, in two sections,
\* with and without a question; a span in both sections, in a section that does
\* not cite it, and left out.
Accepted ==
    LET partial == [Whole EXCEPT !.sections[1].status = "partial", !.sections[1].gaps = {7},
                                 !.gaps = <<GapAt(7, "a", "ambiguous", <<"map", 1>>)>>,
                                 !.questions = <<Ask(1, TRUE, "guidance")>>]
    IN  {Whole, partial,
         [Whole EXCEPT !.questions = <<Ask(1, FALSE, "unsafe")>>],
         [partial EXCEPT !.sections[1].status = "populated", !.sections[1].gaps = {}],
         [partial EXCEPT !.sections[2].gaps = {7}],
         [partial EXCEPT !.gaps[1].question = NoQuestion, !.questions = <<>>],
         [partial EXCEPT !.sections[1].status = "conflicting", !.gaps[1].kind = "conflicting"],
         [Whole EXCEPT !.sections[2].spans = {"s1", "s2", "s3"},
                       !.dispositions[1] = [span |-> "s1", action |-> "duplicated", dest |-> <<"a", "b">>]],
         [Whole EXCEPT !.sections[2].spans = {"s3"}],
         [Whole EXCEPT !.sections[2].spans = {"s3"},
                       !.dispositions[2] = [span |-> "s2", action |-> "intentionally_omitted", dest |-> <<>>]]}

\* A span without a disposition and one of no known span; a section left out and
\* one repeated; a section that is partial for no gap, or conflicts without saying
\* so; a gap, a question, a span, a section and
\* a node that do not exist; a question asked twice.
Rejected ==
    {[Whole EXCEPT !.dispositions = <<Placed("s1", "a"), Placed("s2", "b")>>],
     [Whole EXCEPT !.dispositions = @ \o <<Placed("s9", "a")>>],
     [Whole EXCEPT !.dispositions[1].dest = <<"a", "b">>],
     [Whole EXCEPT !.sections = <<@[1]>>],
     [Whole EXCEPT !.sections[2].id = "a"],
     [Whole EXCEPT !.sections[1].status = "partial"],
     [Whole EXCEPT !.sections[1].gaps = {1}, !.gaps = <<GapAt(1, "a", "conflicting", NoQuestion)>>],
     [Whole EXCEPT !.sections[1].gaps = {3}],
     [Whole EXCEPT !.gaps = <<GapAt(1, "a", "missing", <<"map", 9>>)>>],
     [Whole EXCEPT !.cited.spans = {"s9"}],
     [Whole EXCEPT !.process.nodes[1].section = "c"],
     [Whole EXCEPT !.process.edges = {[from |-> "m", to |-> "b", spans |-> {}]}],
     [Whole EXCEPT !.questions = <<Ask(1, TRUE, "none"), Ask(1, TRUE, "none")>>]}

MCLiveMappings == Accepted \cup Rejected

MCLiveReports ==
    {OfflineAudit, [OfflineAudit EXCEPT !.status = "fail"], [OfflineAudit EXCEPT !.unsupported = TRUE]}
=============================================================================
