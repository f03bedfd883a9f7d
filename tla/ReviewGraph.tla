------------------------------ MODULE ReviewGraph ------------------------------
(***************************************************************************)
(* The graphs of a document: the flow that the review infers from what the *)
(* sections say and the one it proposes after the recipe (build_flow_graph *)
(* and build_proposed_flow in core/review.py), the semantic graph that the *)
(* final stage exports (semantic_graph in core/rewrite.py) and what the    *)
(* final audit asks of it (core/audit.py).                                 *)
(*                                                                         *)
(* A section is [id, title, spans, mentions, cue]: the titles of sections  *)
(* that its text holds, and how it leads on, "" if it does not.  A recipe  *)
(* is [requirements, types]: a sequence of [id, title, hooks, required,    *)
(* step], in their order, and the node types it allows; without a recipe   *)
(* both are empty.  A node is named by a pair.                             *)
(***************************************************************************)
EXTENDS Integers, SequencesExt

CONSTANT Lower  \* the lower case form of an ontology type

SectionNode(section) == <<section.id, "">>

HookNode(section, hook) == <<section.id, Lower[hook]>>

ProposedNode(requirement) == <<"proposed", requirement.id>>

AllowsNodeType(recipe, type) == recipe.types = {} \/ type \in recipe.types \cup {"section"}

-----------------------------------------------------------------------------
(* The flow *)

\* Sections refer to those whose title they hold, and lead on to the next one
\* where they have a cue.  An edge needs evidence.
InferredFlow(sections) ==
    UNION {{[from |-> SectionNode(sections[i]), to |-> SectionNode(sections[j]), type |-> "reference"] :
                j \in {k \in DOMAIN sections \ {i} : sections[k].title \in sections[i].mentions}} :
            i \in {k \in DOMAIN sections : sections[k].spans # {}}}
    \cup {[from |-> SectionNode(sections[i]), to |-> SectionNode(sections[i + 1]), type |-> sections[i].cue] :
            i \in {k \in DOMAIN sections : k < Len(sections) /\ sections[k].cue # "" /\ sections[k].spans # {}}}

\* Providers add edges between sections only.
ReviewFlow(review) ==
    InferredFlow(review.sections)
    \cup {e \in review.added :
            \A n \in {e.from, e.to} : \E i \in DOMAIN review.sections : n = SectionNode(review.sections[i])}

ProcessRequirements(recipe) ==
    LET required == SelectSeq(recipe.requirements, LAMBDA q : q.required)
        steps == SelectSeq(required, LAMBDA q : q.step)
    IN  IF steps # <<>> THEN steps
        ELSE SubSeq(required, 1, IF Len(required) < 8 THEN Len(required) ELSE 8)

Matching(sections, requirement) == {i \in DOMAIN sections : sections[i].title = requirement.title}

\* The node of a required step is the first section with its heading.
StepNode(sections, requirement) ==
    LET found == Matching(sections, requirement)
    IN  IF found = {} THEN ProposedNode(requirement)
        ELSE SectionNode(sections[CHOOSE i \in found : \A j \in found : i <= j])

StepType(requirement) ==
    CASE "Decision" \in ToSet(requirement.hooks) -> "Decision"
      [] ToSet(requirement.hooks) \cap {"ProcessStep", "Trigger"} # {}
            /\ "Decision" \notin ToSet(requirement.hooks) -> "ProcessStep"
      [] OTHER -> "Section"

ProposedNodes(review, recipe) ==
    CASE ~review.applicable -> <<>>
      [] review.applicable /\ recipe.requirements = <<>> ->
            [i \in DOMAIN review.sections |->
                [id |-> SectionNode(review.sections[i]), type |-> "Section"]]
      [] OTHER ->
            LET steps == ProcessRequirements(recipe)
            IN  [i \in DOMAIN steps |->
                    [id |-> StepNode(review.sections, steps[i]), type |-> StepType(steps[i])]]

\* The steps in their order, and the inferred edges between them.
ProposedFlow(review, recipe) ==
    LET nodes == ProposedNodes(review, recipe)
        ids == {nodes[i].id : i \in DOMAIN nodes}
        inferred == {e \in InferredFlow(review.sections) : {e.from, e.to} \subseteq ids}
    IN  IF ~review.applicable \/ recipe.requirements = <<>> THEN inferred
        ELSE inferred \cup {[from |-> nodes[i].id, to |-> nodes[i + 1].id, type |-> "sequence"] :
                                i \in {k \in DOMAIN nodes : k < Len(nodes)}}

-----------------------------------------------------------------------------
(* The semantic graph *)

\* The hooks of the first requirement with the heading of the section.
Hooks(section, recipe) ==
    LET found == {i \in DOMAIN recipe.requirements : recipe.requirements[i].title = section.title}
    IN  IF found = {} THEN <<>>
        ELSE recipe.requirements[CHOOSE i \in found : \A j \in found : i <= j].hooks

\* The hooks of a section that get a node of their own.
ExportedHooks(section, recipe) ==
    SelectSeq(SubSeq(Hooks(section, recipe), 2, Len(Hooks(section, recipe))),
              LAMBDA h : AllowsNodeType(recipe, h))

SectionNodes(section, recipe) ==
    LET hooks == Hooks(section, recipe)
        exported == ExportedHooks(section, recipe)
        primary == IF hooks # <<>> /\ AllowsNodeType(recipe, hooks[1]) THEN hooks[1] ELSE "Section"
    IN  <<[id |-> SectionNode(section), type |-> primary]>>
        \o [i \in DOMAIN exported |-> [id |-> HookNode(section, exported[i]), type |-> exported[i]]]

\* Mutant: proposed nodes are exported without a look at the sections.
AddProposedBlindly(nodes, proposed, recipe) == nodes \o proposed

\* A proposed node that is no section is exported after them.
AddProposed(nodes, proposed, recipe) ==
    FoldLeft(LAMBDA all, n :
                IF \E i \in DOMAIN all : all[i].id = n.id THEN all
                ELSE Append(all, [n EXCEPT !.type =
                        IF AllowsNodeType(recipe, n.type) THEN n.type ELSE "Section"]),
             nodes, proposed)

\* The proposed edges stand for the inferred ones where there are any.
SemanticGraph(review, recipe) ==
    LET sections == FlattenSeq([i \in DOMAIN review.sections |-> SectionNodes(review.sections[i], recipe)])
        hookEdges == UNION {{[from |-> SectionNode(s), to |-> HookNode(s, h), type |-> "contains"] :
                                h \in ToSet(ExportedHooks(s, recipe))} : s \in ToSet(review.sections)}
        proposed == ProposedFlow(review, recipe)
    IN  [nodes |-> AddProposed(sections, ProposedNodes(review, recipe), recipe),
         edges |-> hookEdges \cup (IF proposed # {} THEN proposed ELSE ReviewFlow(review))]

NodeIds(graph) == [i \in DOMAIN graph.nodes |-> graph.nodes[i].id]

-----------------------------------------------------------------------------
(* Two checks of the final audit *)

SemanticReferencesValid(graph) ==
    \A e \in graph.edges : {e.from, e.to} \subseteq ToSet(NodeIds(graph))

GraphTypesValid(graph, recipe) ==
    \A i \in DOMAIN graph.nodes : AllowsNodeType(recipe, graph.nodes[i].type)
=============================================================================
