---------------------------- MODULE MCSealedBundle ----------------------------
(* Runs and processes for the model checker. *)
EXTENDS SealedBundle, TLC

CONSTANTS i1, i2

MCIndexers == {i1, i2}

Symmetry == Permutations(MCIndexers)

MCLower == [Control |-> "control", CONTROL |-> "control", Risk |-> "risk"]

Section(id, mentions, cue) ==
    [id |-> id, title |-> id, spans |-> {id}, mentions |-> mentions, cue |-> cue]

Requirement(id, hooks, required, isStep) ==
    [id |-> id, title |-> id, hooks |-> hooks, required |-> required, step |-> isStep]

NoRecipe == [requirements |-> <<>>, types |-> {}]

Plain == [review |-> [sections |-> <<Section("s1", {"s2"}, "sequence"), Section("s2", {}, "")>>,
                      added |-> {}, applicable |-> FALSE],
          recipe |-> NoRecipe, mapping |-> NoMapping, text |-> "plain", passes |-> TRUE]

With(hooks, types) ==
    [Plain EXCEPT !.recipe = [requirements |-> <<Requirement("s1", hooks, TRUE, FALSE)>>, types |-> types]]

\* A process whose first step has no section and whose last one is a section.
Process(types) ==
    [Plain EXCEPT !.review.applicable = TRUE,
                  !.recipe = [requirements |->
                        <<Requirement("s3", <<"Decision">>, TRUE, TRUE),
                          Requirement("s2", <<"ProcessStep", "Risk">>, TRUE, TRUE),
                          Requirement("s1", <<"Risk">>, FALSE, FALSE)>>, types |-> types]]

\* Runs with several hooks, the same hook in two cases, types that the recipe does
\* not know, processes, an edge added by a provider, a failed check of the audit,
\* and a mapping with a target of its own and a dropped section.
MCRuns == {
    Plain,
    With(<<"Control", "Risk">>, {}),
    With(<<"Risk", "Control", "CONTROL">>, {}),
    With(<<"Control", "CONTROL">>, {}),
    With(<<"Control", "Risk", "CONTROL">>, {"Risk"}),
    With(<<"Risk", "Control", "CONTROL">>, {"Risk", "Control", "Section"}),
    Process({}),
    Process({"Section", "Risk"}),
    [Plain EXCEPT !.review.applicable = TRUE],
    [Plain EXCEPT !.review.added = {[from |-> <<"s2", "">>, to |-> <<"s1", "">>, type |-> "branch"],
                                    [from |-> <<"s2", "">>, to |-> <<"s9", "">>, type |-> "branch"]}],
    [Plain EXCEPT !.passes = FALSE],
    [Plain EXCEPT !.mapping = [targets |-> {[id |-> "t1", spans |-> {"s1"}], [id |-> "t2", spans |-> {}]},
                               dispositions |-> {[span |-> "s2", dest |-> {}]}]]}

\* A later run, and one whose review differs and whose document does not.
MCOthers == {[With(<<"Risk", "Control">>, {}) EXCEPT !.text = "later"], With(<<"Risk">>, {})}
=============================================================================
