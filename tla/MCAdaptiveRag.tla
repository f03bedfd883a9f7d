----------------------------- MODULE MCAdaptiveRag -----------------------------
\* Two documents: the first has four chunks, of which the first is larger than a
\* batch; the second has one.  The focused agent sees three of the chunks.
EXTENDS AdaptiveRag

MCCatalog == <<"d1", "d2">>

MCChunksOf == [d1 |-> <<"a1", "a2", "a3", "a4">>, d2 |-> <<"b1">>]

MCTextSize == [c \in {"a1", "a2", "a3", "a4", "b1"} |-> IF c = "a1" THEN 4 ELSE 1]

MCSize == [c \in {"a1", "a2", "a3"} |-> IF c = "a1" THEN 2 ELSE 1]

MCContent ==
    {[key |-> "k", statement |-> "s1"], [key |-> "k", statement |-> "s2"], [key |-> "", statement |-> "s1"]}

\* No run option, a document named twice, and one that is not in the catalog.
MCSelections == {<<>>, <<"d2", "d1", "d2">>, <<"d1", "d3">>}

=============================================================================
