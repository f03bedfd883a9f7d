------------------------------ MODULE AdaptiveRag ------------------------------
(***************************************************************************)
(* One question to the adaptive answerer (AdaptiveRagAnswerer.answer, as   *)
(* `rag ask` and every turn of `rag chat` call it): a deterministic plan   *)
(* sends it to the focused agent or to the corpus map.  An exception of    *)
(* either is not handled here: it ends the command, or the conversation.   *)
(***************************************************************************)
EXTENDS RagAnswer, CorpusAnswer

CONSTANTS
    Selections      \* the run options that a user may give, <<>> for none

ASSUME SelectionsAssumption == \A runs \in Selections: runs \in Seq(ToSet(runs))

VARIABLES
    plan            \* the QueryPlan

vars == <<plan, ragVars, corpusVars>>

NoPlan == [scope |-> "none", coverage |-> "none"]

Init ==
    /\ plan = NoPlan
    /\ RagInit
    /\ CorpusInit

\* plan_query; cue says whether the words of the question speak of the corpus.
PlanScope(scope, mode, cue) ==
    IF mode = "exhaustive" \/ scope = "corpus" \/ (scope = "auto" /\ cue)
      THEN "corpus" ELSE "focused"

PlanCoverage(scope, mode, cue) ==
    IF PlanScope(scope, mode, cue) = "corpus" THEN mode ELSE "retrieval"

Ask ==
    \E scope \in {"auto", "focused", "corpus"}, mode \in {"retrieval", "exhaustive"}, cue \in BOOLEAN:
        /\ plan = NoPlan
        /\ plan' = [scope |-> PlanScope(scope, mode, cue), coverage |-> PlanCoverage(scope, mode, cue)]
        /\ UNCHANGED <<ragVars, corpusVars>>

Route ==
    /\ plan # NoPlan
    /\ \/ /\ plan.scope = "focused"
          /\ AskFocused
          /\ UNCHANGED corpusVars
       \/ /\ plan.scope = "corpus"
          /\ \E runs \in Selections: AskCorpus(runs, plan.coverage)
          /\ UNCHANGED ragVars
    /\ UNCHANGED plan

Focused == RagNext /\ UNCHANGED <<plan, corpusVars>>

Corpus == CorpusNext /\ UNCHANGED <<plan, ragVars>>

Next == Ask \/ Route \/ Focused \/ Corpus

\* The agent goes on as long as it can: calls of the provider time out and the
\* tools do not wait for one another.
Spec == Init /\ [][Next]_vars /\ WF_vars(Focused)

-----------------------------------------------------------------------------
TypeOK ==
    /\ plan.scope \in {"none", "focused", "corpus"}
    /\ RagTypeOK
    /\ CorpusTypeOK

\* A focused question always ends, and unless a call of the model or of a tool
\* failed it ends with a result: a model that only calls tools, or never finds the
\* form of its answer, is stopped in the middle of its work, which answer tells
\* from a failure and reports as insufficient.
QuestionEnds ==
    phase = "model" ~> phase \in {"answered", "insufficient"} \/ (phase = "raised" /\ seen.failed)

=============================================================================
