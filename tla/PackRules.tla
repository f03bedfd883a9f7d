------------------------------ MODULE PackRules ------------------------------
(***************************************************************************)
(* What a reference pack must be to be loaded (ReferencePackValidator in   *)
(* references/loader.py), how its context sources rank, and the recipe     *)
(* that core/recipes.py makes of its files.                                *)
(*                                                                         *)
(* A manifest is [kind, formed, type, order, same, entries, roles,         *)
(* sources, conflicts, pack, own]: formed says that its plain fields have  *)
(* their form, type is the document type it supports, entries are [path,   *)
(* sha256], roles names the path of every file with a purpose, pack and    *)
(* own are the two digests it states.  Requirements are [kind, sections,   *)
(* tables] with sections [id, heading, class, criteria] and tables [id,    *)
(* section, columns, criteria]; a rubric is [kind, type, criteria,         *)
(* dimensions, mappings], of which dimensions holds the criteria that are  *)
(* nested.  A template is [kind, front, pieces], pieces [form, heading].   *)
(* A file that is not YAML of its kind has another kind.  The limits of    *)
(* _safe_yaml_load (size, depth, nodes, aliases), which the reads that     *)
(* make the recipe do not repeat, are left out: every file is within them. *)
(***************************************************************************)
EXTENDS Naturals, Sequences, SequencesExt

CONSTANT Id \* the identifiers of the form _ID_RE

Level == {"reviewer_steering", "regulation", "policy", "standard", "template", "style_guide", "source"}

NeededLevel == {"policy", "standard", "template", "style_guide", "source"}

Role == {"context", "example", "template", "requirements", "rubric", "common",
         "entity_types", "relationship_types", "id_patterns", "controlled_terms"}

Resolution == {"higher_precedence_wins", "surface_both"}

Layer == {"authoritative", "governed", "extracted", "retrieval"}

Fields(list, field) == [i \in DOMAIN list |-> list[i][field]]

Injective(list) == \A i, j \in DOMAIN list : list[i] = list[j] => i = j

-----------------------------------------------------------------------------
(* The manifest *)

Listed(m) == ToSet(Fields(m.entries, "path"))

ManifestValid(m, paths) ==
    /\ m.kind = "manifest" /\ m.formed
    /\ Injective(m.order) /\ NeededLevel \subseteq ToSet(m.order) /\ ToSet(m.order) \subseteq Level
    /\ m.same = "error"
    /\ m.entries # <<>> /\ Listed(m) \subseteq paths /\ Injective(Fields(m.entries, "path"))

\* The digests of the list of files and of everything but the two digests.
PackDigest(m) == {<<e.path, e.sha256>> : e \in ToSet(m.entries)}

ManifestDigest(m) == [f \in DOMAIN m \ {"pack", "own"} |-> m[f]]

DigestsAgree(m) == m.pack = PackDigest(m) /\ m.own = ManifestDigest(m)

ReferencesValid(m) ==
    /\ \A r \in Role \ {"rubric"} : r \in DOMAIN m.roles /\ m.roles[r] \in Listed(m)
    /\ \A r \in DOMAIN m.roles : m.roles[r] \in Listed(m)
    /\ Injective(Fields(m.sources, "id"))
    /\ \A s \in ToSet(m.sources) : s.id \in Id /\ s.path \in Listed(m) /\ s.kind \in Level
    /\ \A c \in m.conflicts :
        /\ c.resolution \in Resolution
        /\ {c.left, c.right} \subseteq ToSet(Fields(m.sources, "id"))

-----------------------------------------------------------------------------
(* Context sources.  A selector and a context are [values, dates], values a *)
(* function of attributes; the date 0 is none, and a context has one date.  *)

EmptyContext == [values |-> [a \in {} |-> {}], on |-> 0]

ValuesOf(context, attribute) ==
    IF attribute \in DOMAIN context.values THEN context.values[attribute] ELSE {}

SelectorMatches(selector, context) ==
    /\ \A a \in DOMAIN selector.values :
        IF a = "tags" THEN selector.values[a] \subseteq ValuesOf(context, a)
        ELSE selector.values[a] \cap ValuesOf(context, a) # {}
    /\ context.on = 0 \/ selector.from = 0 \/ selector.from <= context.on
    /\ context.on = 0 \/ selector.to = 0 \/ context.on <= selector.to

Rank(m, kind) == CHOOSE i \in DOMAIN m.order : m.order[i] = kind

Resolved(m, context) ==
    {s \in ToSet(m.sources) : SelectorMatches(s.selector, context) /\ s.kind \in ToSet(m.order)}

\* Two sources that both apply and rank alike cannot be in conflict.
PrecedenceErrors(m, context) ==
    {c \in m.conflicts : \E left, right \in Resolved(m, context) :
        /\ left.id = c.left /\ right.id = c.right
        /\ Rank(m, left.kind) = Rank(m, right.kind) \/ c.resolution \notin Resolution}

-----------------------------------------------------------------------------
(* Templates *)

\* A heading counts also inside of a comment.
Headings(template) == ToSet(Fields(template.pieces, "heading")) \ {""}

\* Closed comments go, placeholders become text, stray braces are escaped.
Rendered(template) ==
    SelectSeq([i \in DOMAIN template.pieces |->
                 LET p == template.pieces[i] IN
                 IF p.form \in {"placeholder", "braces"} THEN [p EXCEPT !.form = "text"] ELSE p],
              LAMBDA p : p.form \notin {"comment", "authoring"})

RenderingLeaks(template) ==
    \E p \in ToSet(Rendered(template)) : p.form \in {"openComment", "bareAuthoring", "placeholder", "braces"}

TemplateValid(requirements, template) ==
    LET sections == requirements.sections
        tables == requirements.tables
    IN  /\ sections # <<>> /\ template.front
        /\ Injective(Fields(sections, "id")) /\ Injective(Fields(tables, "id"))
        /\ \A s \in ToSet(sections) : s.id \in Id /\ s.heading \in Headings(template) /\ s.criteria # <<>>
        /\ \A t \in ToSet(tables) :
            /\ t.id \in Id /\ t.section \in ToSet(Fields(sections, "id"))
            /\ t.columns /\ t.criteria # <<>>
        /\ \E p \in ToSet(template.pieces) : p.form \in {"authoring", "bareAuthoring"}

-----------------------------------------------------------------------------
(* The ontology and the rubrics *)

\* Relationships are [id, layer, source, target].
RelationshipsValid(relationships, entities) ==
    /\ Injective(Fields(relationships.items, "id"))
    /\ \A r \in ToSet(relationships.items) :
        /\ r.id # "RELATED_TO" /\ r.layer \in Layer
        /\ r.source \cup r.target \subseteq ToSet(entities.ids)

OntologyValid(entities, relationships, patterns) ==
    /\ Injective(entities.ids)
    /\ RelationshipsValid(relationships, entities)
    /\ patterns.types \subseteq ToSet(entities.ids)

CriterionIds(rubric) == ToSet(rubric.criteria) \cup rubric.dimensions

Requirements(requirements) == ToSet(requirements.sections) \cup ToSet(requirements.tables)

\* Mutant: what the requirements themselves cite is not looked up.
MappedCriteria(requirements, rubric) == UNION {ToSet(q.criteria) : q \in ToSet(rubric.mappings)}

CitedCriteria(requirements, rubric) ==
    UNION {ToSet(q.criteria) : q \in Requirements(requirements) \cup ToSet(rubric.mappings)}

\* The rubric of the type is searched together with the common one.
RubricsValid(m, common, rubric, requirements) ==
    LET known == CriterionIds(common) \cup CriterionIds(rubric)
        ids == {q.id : q \in Requirements(requirements)}
        mapped == {q.id : q \in ToSet(rubric.mappings)}
    IN  /\ CriterionIds(common) # {} /\ Injective(common.criteria) /\ Injective(rubric.criteria)
        /\ rubric.type = m.type
        /\ CitedCriteria(requirements, rubric) \subseteq known
        /\ mapped = ids

-----------------------------------------------------------------------------
(* The recipe *)

\* The first mapping of a requirement counts; without criteria there, its own.
MappingOf(recipe, id) ==
    LET i == CHOOSE i \in DOMAIN recipe.mappings :
                /\ recipe.mappings[i].id = id
                /\ \A j \in 1 .. i - 1 : recipe.mappings[j].id # id
    IN  IF id \in ToSet(Fields(recipe.mappings, "id")) THEN recipe.mappings[i].criteria ELSE <<>>

CriteriaFor(recipe, requirement) ==
    LET mapped == MappingOf(recipe, requirement.id)
    IN  IF mapped # <<>> THEN mapped ELSE requirement.criteria

\* Criteria nested in dimensions and the common rubric are not in the recipe.
Recipe(m, requirements, rubric, entities, relationships, template) ==
    [id |-> <<m.type>>, pack |-> m.pack,
     sections |-> requirements.sections, tables |-> requirements.tables,
     criteria |-> rubric.criteria, mappings |-> rubric.mappings,
     entities |-> entities.ids, relationships |-> Fields(relationships.items, "id"),
     template |-> template]
=============================================================================
