---------------------------- MODULE ReferencePack ----------------------------
(***************************************************************************)
(* Runners that load a reference pack from a directory that may change     *)
(* while they read it, and the run that one of them starts and the others  *)
(* resume.                                                                 *)
(*                                                                         *)
(* A load reads the manifest, checks the digest of every file, lists the   *)
(* directory, and then reads the files again for the checks of their       *)
(* content, the manifest once more, and what the recipe is made of a third *)
(* time, without looking at the digests again.  A file is one of a few     *)
(* variants; a digest is the variant it was taken of.  The first error     *)
(* ends a load here; the code collects all of them and then refuses.       *)
(***************************************************************************)
EXTENDS PackRules

CONSTANTS
    Runners,    \* processes that build a CoreRunner
    Starter,    \* the one that starts the run
    Path,       \* the paths of the directory
    Content,    \* path -> variant -> content
    Packs,      \* the packs that may be there at first: path -> variant
    Others,     \* the packs whose files may replace them
    Type,       \* the document type the runners are asked for
    MaxChanges  \* bound on the changes to the directory

ASSUME BoundsAssumption == MaxChanges \in Nat /\ Starter \in Runners

\* A variant is not the absence of a file; what is parsed as a list is a sequence.
ASSUME ContentAssumption ==
    /\ "manifest" \in Path
    /\ \A path \in Path : \A v \in DOMAIN Content[path] :
        LET c == Content[path][v] IN
        /\ v # "none" /\ c.kind # "none"
        /\ c.kind = "manifest" => Len(c.entries) \in Nat /\ DOMAIN c.entries = 1 .. Len(c.entries)
        /\ c.kind = "rubric" => Len(c.mappings) \in Nat /\ DOMAIN c.mappings = 1 .. Len(c.mappings)
    /\ \A pack \in Packs \cup Others :
        DOMAIN pack = Path /\ \A path \in Path : pack[path] \in DOMAIN Content[path] \cup {"none"}

VARIABLES
    files,      \* path -> variant, or None
    changes,    \* changes of the directory so far
    step,       \* runner -> where its load is
    manifest,   \* runner -> the manifest it goes by
    data,       \* runner -> what it has read: role -> content
    quiet,      \* runner -> has nothing changed during its load?
    recipe,     \* runner -> its recipe
    record,     \* the run record: [id, digest]
    resumed     \* the runners whose resume was let through

packVars == <<files, changes>>
loadVars == <<step, manifest, data, quiet, recipe>>
runVars == <<record, resumed>>
vars == <<packVars, loadVars, runVars>>

None == "none"

Nothing == [kind |-> None]

\* The digest of a runner without a pack is all zeros.
NoRecipe == [id |-> <<>>, pack |-> {}]

NoRecord == [id |-> <<>>, digest |-> Nothing]

At(path) == IF files[path] = None THEN Nothing ELSE Content[path][files[path]]

Init ==
    /\ files \in Packs
    /\ changes = 0
    /\ step = [l \in Runners |-> <<"idle", 0>>]
    /\ manifest = [l \in Runners |-> Nothing]
    /\ data = [l \in Runners |-> <<>>]
    /\ quiet = [l \in Runners |-> TRUE]
    /\ recipe = [l \in Runners |-> NoRecipe]
    /\ record = NoRecord
    /\ resumed = {}

-----------------------------------------------------------------------------
(* The directory changes *)

Loading(l) == step[l][1] \notin {"idle", "ready", "refused", "done"}

Change(changed) ==
    /\ changes < MaxChanges
    /\ changed # files
    /\ files' = changed
    /\ changes' = changes + 1
    /\ quiet' = [l \in Runners |-> quiet[l] /\ ~Loading(l)]
    /\ UNCHANGED <<step, manifest, data, recipe, runVars>>

ReplacePack == \E p \in Others : Change(p)

\* One file becomes that of another pack, or goes.
ReplaceFile ==
    \E path \in Path : \E v \in {None} \cup {p[path] : p \in Others} :
        Change([files EXCEPT ![path] = v])

-----------------------------------------------------------------------------
(* A load.  A step is a pair of a stage and a position. *)

Goto(l, stage, at) == step' = [step EXCEPT ![l] = <<stage, at>>]

Refuse(l) ==
    /\ Goto(l, "refused", 0)
    /\ manifest' = [manifest EXCEPT ![l] = Nothing]
    /\ data' = [data EXCEPT ![l] = <<>>]

Keep(l, role, content) ==
    data' = [data EXCEPT ![l] = [r \in DOMAIN data[l] \cup {role} |->
                                    IF r = role THEN content ELSE data[l][r]]]

\* ReferencePackValidator.report
ReadManifest(l) ==
    /\ step[l][1] = "idle"
    /\ l = Starter \/ record # NoRecord
    /\ IF ManifestValid(At("manifest"), Path)
       THEN /\ manifest' = [manifest EXCEPT ![l] = At("manifest")]
            /\ Goto(l, "digests", 1)
            /\ UNCHANGED data
       ELSE Refuse(l)
    /\ UNCHANGED <<packVars, quiet, recipe, runVars>>

CheckDigest(l) ==
    /\ step[l][1] = "digests"
    /\ LET at == step[l][2]
           entry == manifest[l].entries[at]
       IN  IF files[entry.path] = None \/ files[entry.path] # entry.sha256 THEN Refuse(l)
           ELSE /\ IF at < Len(manifest[l].entries) THEN Goto(l, "digests", at + 1) ELSE Goto(l, "listing", 0)
                /\ UNCHANGED <<manifest, data>>
    /\ UNCHANGED <<packVars, quiet, recipe, runVars>>

Discovered == {p \in Path \ {"manifest"} : files[p] # None}

CheckListing(l) ==
    /\ step[l][1] = "listing"
    /\ IF Discovered \subseteq Listed(manifest[l]) /\ DigestsAgree(manifest[l]) /\ ReferencesValid(manifest[l])
       THEN Goto(l, "templates", 1) /\ UNCHANGED <<manifest, data>>
       ELSE Refuse(l)
    /\ UNCHANGED <<packVars, quiet, recipe, runVars>>

RoleAt(l, role) == At(manifest[l].roles[role])

\* Without one of the three files the checks are passed over: the digests have
\* been checked, so that it must have gone since.
CheckTemplates(l) ==
    /\ step[l][1] = "templates"
    /\ LET at == step[l][2]
           template == RoleAt(l, "template")
           next == IF at < 4 THEN Goto(l, "templates", at + 1) ELSE Goto(l, "ontology", 1)
       IN  \/ /\ at = 1
              /\ \E r \in {"template", "requirements", "example"} : RoleAt(l, r) = Nothing
              /\ Goto(l, "ontology", 1)
              /\ UNCHANGED <<manifest, data>>
           \/ /\ at = 1
              /\ \A r \in {"template", "requirements", "example"} : RoleAt(l, r) # Nothing
              /\ IF RoleAt(l, "requirements").kind = "requirements"
                 THEN next /\ Keep(l, "requirements", RoleAt(l, "requirements")) /\ UNCHANGED manifest
                 ELSE Refuse(l)
           \/ /\ at = 2
              /\ IF template.kind = "template" /\ TemplateValid(data[l]["requirements"], template)
                 THEN next /\ UNCHANGED <<manifest, data>>
                 ELSE Refuse(l)
           \/ /\ at \in 3 .. 4
              /\ IF template.kind = "template" /\ ~RenderingLeaks(template)
                 THEN next /\ UNCHANGED <<manifest, data>>
                 ELSE Refuse(l)
    /\ UNCHANGED <<packVars, quiet, recipe, runVars>>

OntologyRoles == <<"entity_types", "relationship_types", "id_patterns", "controlled_terms">>

CheckOntology(l) ==
    /\ step[l][1] = "ontology"
    /\ LET at == step[l][2]
           role == OntologyRoles[at]
           content == RoleAt(l, role)
       IN  \/ content.kind # role /\ Refuse(l)
           \/ /\ content.kind = role /\ at < 4
              /\ Keep(l, role, content) /\ Goto(l, "ontology", at + 1) /\ UNCHANGED manifest
           \/ /\ content.kind = role /\ at = 4
              /\ IF OntologyValid(data[l]["entity_types"], data[l]["relationship_types"], data[l]["id_patterns"])
                 THEN Goto(l, "rubrics", 1) /\ UNCHANGED <<manifest, data>>
                 ELSE Refuse(l)
    /\ UNCHANGED <<packVars, quiet, recipe, runVars>>

RubricRoles == <<"common", "rubric", "requirements">>

KindOf(role) == IF role = "common" THEN "rubric" ELSE role

\* The last check resolves the context sources without a context.
CheckRubrics(l) ==
    /\ step[l][1] = "rubrics"
    /\ LET at == step[l][2]
           role == RubricRoles[at]
           content == IF role \in DOMAIN manifest[l].roles THEN RoleAt(l, role) ELSE Nothing
       IN  \/ content.kind # KindOf(role) /\ Refuse(l)
           \/ /\ content.kind = KindOf(role) /\ at < 3
              /\ Keep(l, role, content) /\ Goto(l, "rubrics", at + 1) /\ UNCHANGED manifest
           \/ /\ content.kind = KindOf(role) /\ at = 3
              /\ IF /\ RubricsValid(manifest[l], data[l]["common"], data[l]["rubric"], content)
                    /\ PrecedenceErrors(manifest[l], EmptyContext) = {}
                 THEN /\ data' = [data EXCEPT ![l] = <<>>]
                      /\ Goto(l, "reload", 0)
                      /\ UNCHANGED manifest
                 ELSE Refuse(l)
    /\ UNCHANGED <<packVars, quiet, recipe, runVars>>

\* The manifest is read again, and nothing of it is checked but the type.
Reload(l) ==
    /\ step[l][1] = "reload"
    /\ IF At("manifest").kind = "manifest" /\ At("manifest").type = Type
       THEN /\ manifest' = [manifest EXCEPT ![l] = At("manifest")]
            /\ Goto(l, "compile", 1)
            /\ UNCHANGED data
       ELSE Refuse(l)
    /\ UNCHANGED <<packVars, quiet, recipe, runVars>>

RecipeRoles == <<"requirements", "rubric", "entity_types", "relationship_types", "template">>

\* A path must be listed in the manifest read last.
Resolves(l, role) ==
    /\ role \in DOMAIN manifest[l].roles /\ manifest[l].roles[role] \in Listed(manifest[l])
    /\ RoleAt(l, role).kind = role

\* The two lists of types are left empty by a manifest without their paths.
Optional == {"entity_types", "relationship_types"}

NoTypes == [entity_types |-> [kind |-> "entity_types", ids |-> <<>>],
            relationship_types |-> [kind |-> "relationship_types", items |-> <<>>]]

Skips(l, role) == role \in Optional \ DOMAIN manifest[l].roles

\* load_recipe
Compile(l) ==
    /\ step[l][1] = "compile"
    /\ LET m == manifest[l]
           at == step[l][2]
           role == RecipeRoles[at]
       IN  \/ ~Skips(l, role) /\ ~Resolves(l, role) /\ Refuse(l) /\ UNCHANGED recipe
           \/ /\ Skips(l, role)
              /\ Keep(l, role, NoTypes[role]) /\ Goto(l, "compile", at + 1)
              /\ UNCHANGED <<manifest, recipe>>
           \/ /\ Resolves(l, role) /\ at < 5
              /\ Keep(l, role, RoleAt(l, role)) /\ Goto(l, "compile", at + 1)
              /\ UNCHANGED <<manifest, recipe>>
           \/ /\ Resolves(l, role) /\ at = 5
              /\ recipe' = [recipe EXCEPT ![l] =
                    Recipe(m, data[l]["requirements"], data[l]["rubric"], data[l]["entity_types"],
                           data[l]["relationship_types"], RoleAt(l, role))]
              /\ manifest' = [manifest EXCEPT ![l] = Nothing]
              /\ data' = [data EXCEPT ![l] = <<>>]
              /\ Goto(l, "ready", 0)
    /\ UNCHANGED <<packVars, quiet, runVars>>

\* A runner without a pack has no recipe.
BuildWithoutPack(l) ==
    /\ step[l][1] = "idle"
    /\ l = Starter \/ record # NoRecord
    /\ Goto(l, "ready", 0)
    /\ UNCHANGED <<packVars, manifest, data, quiet, recipe, runVars>>

-----------------------------------------------------------------------------
(* The run *)

\* Mutant: the digest of the pack and the name of the recipe stand for the recipe.
PackDigestOnly(r) == [id |-> r.id, pack |-> r.pack]

RecipeDigest(r) == r

Start(l) ==
    /\ l = Starter /\ step[l][1] = "ready"
    /\ record' = [id |-> recipe[l].id, digest |-> RecipeDigest(recipe[l])]
    /\ Goto(l, "done", 0)
    /\ UNCHANGED <<packVars, manifest, data, quiet, recipe, resumed>>

\* Without a recipe the name recorded is compared with itself.
SameRecipe(r) ==
    /\ r # NoRecipe => r.id = record.id
    /\ RecipeDigest(r) = record.digest

Resume(l) ==
    /\ l # Starter /\ step[l][1] = "ready"
    /\ resumed' = IF SameRecipe(recipe[l]) THEN resumed \cup {l} ELSE resumed
    /\ Goto(l, "done", 0)
    /\ UNCHANGED <<packVars, manifest, data, quiet, recipe, record>>

Next ==
    \/ ReplacePack
    \/ ReplaceFile
    \/ \E l \in Runners :
        \/ ReadManifest(l)
        \/ CheckDigest(l)
        \/ CheckListing(l)
        \/ CheckTemplates(l)
        \/ CheckOntology(l)
        \/ CheckRubrics(l)
        \/ Reload(l)
        \/ Compile(l)
        \/ BuildWithoutPack(l)
        \/ Start(l)
        \/ Resume(l)

Spec == Init /\ [][Next]_vars

-----------------------------------------------------------------------------
(* Properties *)

\* What review and draft rely on in a recipe: requirements have names of their
\* own, which make the ids of their questions; a section has its place in the
\* template and criteria to be assessed by, all of which the pack defines; a table
\* has a section.
Usable(r, criteria) ==
    LET sections == ToSet(r.sections) IN
    /\ \A i, j \in DOMAIN r.sections : r.sections[i].id = r.sections[j].id => i = j
    /\ \A s \in sections : s.heading \in Headings(r.template) /\ CriteriaFor(r, s) # <<>>
    /\ \A q \in sections \cup ToSet(r.tables) : ToSet(CriteriaFor(r, q)) \subseteq criteria
    /\ \A t \in ToSet(r.tables) : \E s \in sections : t.section = s.id

\* A pack that stays as it is while it is loaded gives a usable recipe, whatever
\* was wrong with the pack, and no two of its sources that always apply are in
\* conflict on one level of its order of precedence: load_recipe reads every file
\* again after its checks, and what the checks found must be true of what it reads.
LoadedRecipeIsUsable ==
    [][\A l \in Runners : recipe'[l] # recipe[l] /\ quiet[l] =>
        /\ Usable(recipe'[l], CriterionIds(RoleAt(l, "common")) \cup CriterionIds(RoleAt(l, "rubric")))
        /\ \A s, t \in {u \in ToSet(manifest[l].sources) : DOMAIN u.selector.values = {}} :
            s.kind = t.kind /\ s.kind \in ToSet(manifest[l].order) => \A c \in manifest[l].conflicts : ~(c.left = s.id /\ c.right = t.id)]_vars

\* The criteria of the rubrics among the files that a pack digest names.
CriteriaOf(pack) ==
    UNION {CriterionIds(Content[f[1]][f[2]]) : f \in {g \in pack : Content[g[1]][g[2]].kind = "rubric"}}

\* A runner may start a run by a recipe that it has read from files of two packs.
\* No runner that loads a pack which stays as it is goes on with such a run: if it
\* is let through, then the review it resumes was made by a usable recipe.
ResumedReviewIsSound ==
    \A l \in resumed : quiet[l] /\ recipe[l] # NoRecipe =>
        Usable(recipe[Starter], CriteriaOf(recipe[l].pack))
=============================================================================
