-------------------------- MODULE ReferencePackProofs --------------------------
(***************************************************************************)
(* What a pack that stays as it is promises to the runners that load it,   *)
(* for every pack, every number of runners and every change.               *)
(*                                                                         *)
(* The argument: while nothing changes, what a load has checked is true of *)
(* the files as they are, step by step, so that the recipe it compiles is  *)
(* usable; a runner loads once; and a resume that is let through has the   *)
(* recipe that the run was started by.                                     *)
(***************************************************************************)
EXTENDS ReferencePack, WellFoundedInduction, TLAPS

FilesInv ==
    /\ DOMAIN files = Path
    /\ \A path \in Path : files[path] \in DOMAIN Content[path] \cup {None}
    /\ changes \in 0 .. MaxChanges

Checking == {"digests", "listing", "templates", "ontology", "rubrics", "reload", "compile"}

Stage == Checking \cup {"idle", "ready", "refused", "done"}

Holds(l, role) == role \in DOMAIN data[l] /\ data[l][role] = RoleAt(l, role)

\* The files with criteria are what they should be, and agree.
RubricsChecked(l) ==
    /\ "rubric" \in DOMAIN manifest[l].roles
    /\ RoleAt(l, "common").kind = "rubric" /\ RoleAt(l, "rubric").kind = "rubric"
    /\ RubricsValid(manifest[l], RoleAt(l, "common"), RoleAt(l, "rubric"), RoleAt(l, "requirements"))
    /\ PrecedenceErrors(manifest[l], EmptyContext) = {}

\* What a load that is at a stage has found is true of the files as they are.
Found(l, stage, at) ==
    LET m == manifest[l] IN
    /\ m = At("manifest") /\ ManifestValid(m, Path)
    /\ \A k \in 1 .. Len(m.entries) : (stage = "digests" => k < at) =>
            files[m.entries[k].path] = m.entries[k].sha256 /\ m.entries[k].sha256 # None
    /\ stage \notin {"digests", "listing"} => DigestsAgree(m) /\ ReferencesValid(m)
    /\ stage = "templates" => at \in 1 .. 4 /\ (at = 2 => Holds(l, "requirements"))
    /\ (stage = "templates" /\ at > 2) \/ stage \in {"ontology", "rubrics", "reload", "compile"} =>
            TemplateValid(RoleAt(l, "requirements"), RoleAt(l, "template"))
    /\ stage = "rubrics" =>
        /\ at \in 1 .. 3
        /\ at > 1 => Holds(l, "common") /\ RoleAt(l, "common").kind = "rubric"
        /\ at > 2 => Holds(l, "rubric") /\ RoleAt(l, "rubric").kind = "rubric"
                     /\ "rubric" \in DOMAIN m.roles
    /\ stage \in {"reload", "compile"} => RubricsChecked(l)
    /\ stage = "compile" =>
        at \in 1 .. 5 /\ \A k \in 1 .. 5 : k < at => Holds(l, RecipeRoles[k])

QuietInv(l) == quiet[l] /\ Loading(l) => Found(l, step[l][1], step[l][2])

\* A runner has a recipe only when its load is over, and then a usable one.
RecipeInv(l) ==
    /\ step[l] = <<step[l][1], step[l][2]>> /\ step[l][1] \in Stage /\ step[l][2] \in Nat
    /\ step[l][1] \notin {"ready", "done"} => recipe[l] = NoRecipe
    /\ quiet[l] /\ recipe[l] # NoRecipe => Usable(recipe[l], CriteriaOf(recipe[l].pack))

\* The record is that of the starter, and who was let through has its recipe.
RunInv ==
    /\ step[Starter][1] = "done" => record.digest = recipe[Starter]
    /\ step[Starter][1] # "done" => record = NoRecord
    /\ \A l \in Runners \ {Starter} : step[l][1] # "idle" => step[Starter][1] = "done"
    /\ resumed \subseteq Runners
    /\ \A l \in resumed : step[l][1] = "done" /\ recipe[l] = recipe[Starter]

IInv ==
    /\ FilesInv
    /\ DOMAIN step = Runners /\ DOMAIN manifest = Runners /\ DOMAIN data = Runners
    /\ DOMAIN quiet = Runners /\ DOMAIN recipe = Runners
    /\ \A l \in Runners : QuietInv(l) /\ RecipeInv(l)
    /\ RunInv

-----------------------------------------------------------------------------
(* The operators *)

\* A set of numbers that is not empty has a least one.
LEMMA LeastNumber ==
    ASSUME NEW S \in SUBSET Nat, NEW n \in S
    PROVE  \E k \in S : \A j \in S : k <= j
<1>1. \E k \in S : \A j \in S : ~(<<j, k>> \in OpToRel(<, Nat))
  BY NatLessThanWellFounded, WFMin, Zenon
<1>2. ASSUME NEW j \in Nat, NEW k \in Nat, ~(<<j, k>> \in OpToRel(<, Nat))
      PROVE  ~(j < k)
  BY <1>2, Zenon DEF OpToRel
<1>3. \E k \in S : \A j \in S : ~(j < k)
  BY <1>1, <1>2, Zenon
<1> QED BY <1>3

IsList(list) == Len(list) \in Nat /\ DOMAIN list = 1 .. Len(list)

\* The first mapping of a requirement counts, and is one of the rubric.
LEMMA MappingIsListed ==
    ASSUME NEW r, IsList(r.mappings), NEW id
    PROVE  \/ MappingOf(r, id) = <<>>
           \/ \E i \in DOMAIN r.mappings : MappingOf(r, id) = r.mappings[i].criteria
<1> DEFINE list == r.mappings
           its == {i \in DOMAIN list : list[i].id = id}
           First(i) == list[i].id = id /\ \A j \in 1 .. i - 1 : list[j].id # id
<1>1. CASE id \in ToSet(Fields(list, "id"))
  <2>1. PICK n \in DOMAIN list : list[n].id = id
    BY <1>1 DEF ToSet, Fields
  <2>2. its \in SUBSET Nat /\ n \in its
    BY <2>1 DEF IsList
  <2>3. PICK k \in its : \A j \in its : k <= j
    <3> HIDE DEF its
    <3> QED BY <2>2, LeastNumber
  <2>4. \A j \in 1 .. k - 1 : j \in DOMAIN list /\ ~(k <= j)
    BY <2>2, <2>3 DEF IsList
  <2>5. k \in DOMAIN list /\ First(k)
    BY <2>3, <2>4
  <2>6. PICK i \in DOMAIN list : i = (CHOOSE j \in DOMAIN list : First(j))
    <3> HIDE DEF First
    <3> QED BY <2>5
  <2>7. MappingOf(r, id) = list[i].criteria
    BY <1>1, <2>6 DEF MappingOf
  <2> QED BY <2>7
<1>2. CASE id \notin ToSet(Fields(list, "id"))
  BY <1>2 DEF MappingOf
<1> QED BY <1>1, <1>2

\* The criteria of a requirement are some, and known, when its own and the mapped
\* ones are.
LEMMA CriteriaAreCited ==
    ASSUME NEW r, IsList(r.mappings), NEW q, NEW known,
           ToSet(q.criteria) \subseteq known,
           \A i \in DOMAIN r.mappings : ToSet(r.mappings[i].criteria) \subseteq known
    PROVE  /\ ToSet(CriteriaFor(r, q)) \subseteq known
           /\ q.criteria # <<>> => CriteriaFor(r, q) # <<>>
<1>1. CASE MappingOf(r, q.id) = <<>>
  BY <1>1 DEF CriteriaFor
<1>2. CASE MappingOf(r, q.id) # <<>>
  <2>1. PICK i \in DOMAIN r.mappings : MappingOf(r, q.id) = r.mappings[i].criteria
    BY <1>2, MappingIsListed
  <2> QED BY <1>2, <2>1 DEF CriteriaFor
<1> QED BY <1>1, <1>2

\* What the checks of the templates and the rubrics found makes a recipe usable.
LEMMA CheckedRecipeIsUsable ==
    ASSUME NEW m, NEW req, NEW rub, NEW com, NEW ent, NEW rel, NEW tpl, NEW known,
           TemplateValid(req, tpl), RubricsValid(m, com, rub, req), IsList(rub.mappings),
           CriterionIds(com) \cup CriterionIds(rub) \subseteq known
    PROVE  Usable(Recipe(m, req, rub, ent, rel, tpl), known)
<1> DEFINE r == Recipe(m, req, rub, ent, rel, tpl)
<1>1. /\ r.sections = req.sections /\ r.tables = req.tables
      /\ r.mappings = rub.mappings /\ r.template = tpl
  BY DEF Recipe
<1> HIDE DEF r
<1>2. CitedCriteria(req, rub) \subseteq known
  BY DEF RubricsValid
<1>3. \A i \in DOMAIN r.mappings : ToSet(r.mappings[i].criteria) \subseteq known
  BY <1>1, <1>2 DEF CitedCriteria, ToSet
<1>4. \A q \in ToSet(r.sections) \cup ToSet(r.tables) : ToSet(q.criteria) \subseteq known
  BY <1>1, <1>2 DEF CitedCriteria, Requirements
<1>5. \A i, j \in DOMAIN r.sections : r.sections[i].id = r.sections[j].id => i = j
  BY <1>1 DEF TemplateValid, Injective, Fields
<1>6. \A s \in ToSet(r.sections) : s.heading \in Headings(r.template) /\ s.criteria # <<>>
  BY <1>1 DEF TemplateValid
<1>7. \A t \in ToSet(r.tables) : \E s \in ToSet(r.sections) : t.section = s.id
  BY <1>1 DEF TemplateValid, Fields, ToSet
<1>8. \A q \in ToSet(r.sections) \cup ToSet(r.tables) :
        /\ ToSet(CriteriaFor(r, q)) \subseteq known
        /\ q.criteria # <<>> => CriteriaFor(r, q) # <<>>
  BY <1>1, <1>3, <1>4, CriteriaAreCited
<1> QED BY <1>5, <1>6, <1>7, <1>8 DEF Usable, r

\* Two sources that always apply and rank alike are in no conflict.
LEMMA NoConflictLeft ==
    ASSUME NEW m, PrecedenceErrors(m, EmptyContext) = {},
           NEW s \in ToSet(m.sources), NEW t \in ToSet(m.sources),
           DOMAIN s.selector.values = {}, DOMAIN t.selector.values = {},
           s.kind = t.kind, s.kind \in ToSet(m.order), NEW c \in m.conflicts
    PROVE  ~(c.left = s.id /\ c.right = t.id)
<1>1. EmptyContext.on = 0
  BY DEF EmptyContext
<1>2. s \in Resolved(m, EmptyContext) /\ t \in Resolved(m, EmptyContext)
  BY <1>1 DEF Resolved, SelectorMatches
<1> QED BY <1>2 DEF PrecedenceErrors

\* A file that the manifest names a role for is there while nothing changes.
LEMMA RoleIsThere ==
    ASSUME IInv, NEW l \in Runners, quiet[l], Loading(l),
           step[l][1] \notin {"digests", "listing"}, NEW role \in DOMAIN manifest[l].roles
    PROVE  LET path == manifest[l].roles[role] IN
           /\ path \in Path /\ files[path] # None
           /\ RoleAt(l, role) = Content[path][files[path]]
           /\ <<path, files[path]>> \in manifest[l].pack
           /\ RoleAt(l, role) # Nothing
<1> DEFINE m == manifest[l]
           path == m.roles[role]
<1>1. /\ m = At("manifest") /\ ManifestValid(m, Path)
      /\ \A k \in 1 .. Len(m.entries) :
            files[m.entries[k].path] = m.entries[k].sha256 /\ m.entries[k].sha256 # None
      /\ DigestsAgree(m) /\ ReferencesValid(m)
  BY DEF IInv, QuietInv, Found
<1>2. IsList(m.entries)
  <2>1. m.kind = "manifest"
    BY <1>1 DEF ManifestValid
  <2>2. files["manifest"] \in DOMAIN Content["manifest"]
    BY <1>1, <2>1, ContentAssumption DEF IInv, FilesInv, At, Nothing, None
  <2>3. m = Content["manifest"][files["manifest"]]
    BY <1>1, <2>2, ContentAssumption DEF At, None
  <2> QED BY <2>1, <2>2, <2>3, ContentAssumption DEF IsList
<1>3. path \in Listed(m) /\ path \in Path
  BY <1>1 DEF ReferencesValid, ManifestValid
<1>4. PICK k \in 1 .. Len(m.entries) : m.entries[k].path = path
  BY <1>2, <1>3 DEF Listed, Fields, ToSet, IsList
<1>5. files[path] # None /\ files[path] = m.entries[k].sha256
  BY <1>1, <1>4
<1>6. <<path, files[path]>> \in m.pack
  BY <1>1, <1>2, <1>4, <1>5 DEF DigestsAgree, PackDigest, ToSet, IsList
<1>7. RoleAt(l, role) = Content[path][files[path]]
  BY <1>5 DEF RoleAt, At
<1>8. files[path] \in DOMAIN Content[path]
  BY <1>3, <1>5 DEF IInv, FilesInv
<1>9. RoleAt(l, role) # Nothing
  BY <1>3, <1>7, <1>8, ContentAssumption DEF Nothing, None
<1> QED BY <1>3, <1>5, <1>6, <1>7, <1>9

\* The rubrics that were checked are among the files of the pack digest.
LEMMA CheckedCriteriaAreNamed ==
    ASSUME IInv, NEW l \in Runners, quiet[l], step[l][1] = "compile"
    PROVE  /\ CriterionIds(RoleAt(l, "common")) \cup CriterionIds(RoleAt(l, "rubric"))
                \subseteq CriteriaOf(manifest[l].pack)
           /\ IsList(RoleAt(l, "rubric").mappings)
<1>1. Loading(l)
  BY DEF Loading
<1>2. RubricsChecked(l) /\ ReferencesValid(manifest[l])
  BY <1>1 DEF IInv, QuietInv, Found
<1>3. ASSUME NEW role \in {"common", "rubric"}
      PROVE  /\ role \in DOMAIN manifest[l].roles
             /\ RoleAt(l, role).kind = "rubric"
  BY <1>2, <1>3 DEF RubricsChecked, ReferencesValid, Role
<1>4. ASSUME NEW role \in {"common", "rubric"}
      PROVE  CriterionIds(RoleAt(l, role)) \subseteq CriteriaOf(manifest[l].pack)
  <2> DEFINE path == manifest[l].roles[role]
             named == <<path, files[path]>>
  <2>1. RoleAt(l, role) = Content[path][files[path]] /\ named \in manifest[l].pack
    BY <1>1, <1>3, RoleIsThere
  <2>2. named \in {g \in manifest[l].pack : Content[g[1]][g[2]].kind = "rubric"}
    BY <1>3, <2>1
  <2>3. CriterionIds(Content[named[1]][named[2]]) \subseteq CriteriaOf(manifest[l].pack)
    BY <2>2 DEF CriteriaOf
  <2> QED BY <2>1, <2>3
<1>5. IsList(RoleAt(l, "rubric").mappings)
  <2> DEFINE path == manifest[l].roles["rubric"]
  <2>1. /\ path \in Path /\ files[path] # None
        /\ RoleAt(l, "rubric") = Content[path][files[path]]
    BY <1>1, <1>3, RoleIsThere
  <2>2. files[path] \in DOMAIN Content[path]
    BY <2>1 DEF IInv, FilesInv
  <2> QED BY <1>3, <2>1, <2>2, ContentAssumption DEF IsList
<1> QED BY <1>4, <1>5

-----------------------------------------------------------------------------
(* Frames *)

\* A change ends what the loads under way have found, and nothing else.
LEMMA ChangeKeeps ==
    ASSUME IInv, NEW changed, Change(changed), DOMAIN changed = Path,
           \A path \in Path : changed[path] \in DOMAIN Content[path] \cup {None}
    PROVE  IInv'
<1>1. /\ changes < MaxChanges /\ files' = changed /\ changes' = changes + 1
      /\ quiet' = [l \in Runners |-> quiet[l] /\ ~Loading(l)]
      /\ UNCHANGED <<step, manifest, data, recipe, record, resumed>>
  BY DEF Change, runVars
<1>2. FilesInv'
  BY <1>1, BoundsAssumption DEF IInv, FilesInv
<1>3. ASSUME NEW l \in Runners PROVE QuietInv(l)'
  <2>1. ~(quiet'[l] /\ Loading(l)')
    BY <1>1 DEF Loading
  <2> QED BY <2>1 DEF QuietInv
<1>4. ASSUME NEW l \in Runners PROVE RecipeInv(l)'
  <2>1. quiet'[l] => quiet[l]
    BY <1>1
  <2> QED BY <1>1, <2>1 DEF IInv, RecipeInv
<1>5. RunInv'
  BY <1>1 DEF IInv, RunInv
<1> QED BY <1>1, <1>2, <1>3, <1>4, <1>5 DEF IInv

\* A step of a runner leaves what the others have found alone.
OnlyMoves(l) ==
    /\ UNCHANGED <<files, changes, quiet>>
    /\ DOMAIN step' = Runners /\ DOMAIN manifest' = Runners
    /\ DOMAIN data' = Runners /\ DOMAIN recipe' = Runners
    /\ \A j \in Runners \ {l} :
        /\ step'[j] = step[j] /\ manifest'[j] = manifest[j]
        /\ data'[j] = data[j] /\ recipe'[j] = recipe[j]

\* What a load has found and made stays true while neither the load nor the files move.
LEMMA SameLoad ==
    ASSUME IInv, NEW j \in Runners, files' = files,
           step'[j] = step[j], manifest'[j] = manifest[j], data'[j] = data[j],
           recipe'[j] = recipe[j], quiet'[j] = quiet[j]
    PROVE  QuietInv(j)' /\ RecipeInv(j)'
<1>2. QuietInv(j) /\ RecipeInv(j)
  BY DEF IInv
<1>3. \A path : At(path)' = At(path)
  BY DEF At
<1>4. \A role : RoleAt(j, role)' = RoleAt(j, role)
  BY <1>3 DEF RoleAt
<1>5. \A role : Holds(j, role)' = Holds(j, role)
  BY <1>4 DEF Holds
<1>6. RubricsChecked(j)' = RubricsChecked(j)
  BY <1>4 DEF RubricsChecked
<1>7. QuietInv(j)'
  BY <1>2, <1>3, <1>4, <1>5, <1>6 DEF QuietInv, Found, Loading
<1>8. RecipeInv(j)'
  BY <1>2 DEF RecipeInv
<1> QED BY <1>7, <1>8

\* A step of one runner keeps what the others have found.
LEMMA OthersKeep ==
    ASSUME IInv, NEW l \in Runners, OnlyMoves(l), NEW j \in Runners \ {l}
    PROVE  QuietInv(j)' /\ RecipeInv(j)'
BY SameLoad DEF OnlyMoves

\* What a step of l must restore.
LEMMA StepAssemble ==
    ASSUME IInv, NEW l \in Runners, OnlyMoves(l), QuietInv(l)', RecipeInv(l)', RunInv'
    PROVE  IInv'
<1>1. \A j \in Runners : QuietInv(j)' /\ RecipeInv(j)'
  BY OthersKeep
<1>2. FilesInv' /\ DOMAIN quiet' = Runners
  BY DEF OnlyMoves, IInv, FilesInv
<1> QED BY <1>1, <1>2 DEF IInv, OnlyMoves

\* A load changes nothing of the run; only a resumed runner needs a run.
LEMMA LoadAssemble ==
    ASSUME IInv, NEW l \in Runners, OnlyMoves(l), UNCHANGED runVars,
           step[l][1] # "done", step'[l][1] # "done",
           step[l][1] # "idle" \/ l = Starter \/ record # NoRecord,
           QuietInv(l)', RecipeInv(l)'
    PROVE  IInv'
<1>1. \A j \in Runners \ {l} : step'[j] = step[j] /\ recipe'[j] = recipe[j]
  BY DEF OnlyMoves
<1>2. record' = record /\ resumed' = resumed
  BY DEF runVars
<1>3. \A j \in resumed : j # Starter => step[Starter][1] = "done"
  BY DEF IInv, RunInv
<1>4. l \notin resumed /\ (resumed # {} => l # Starter)
  BY <1>3 DEF IInv, RunInv
<1>5. (step[Starter][1] = "done") <=> (step'[Starter][1] = "done")
  BY <1>1, BoundsAssumption
<1>6. step'[Starter][1] = "done" => recipe'[Starter] = recipe[Starter]
  BY <1>1, <1>5, BoundsAssumption
<1>7. \A j \in Runners \ {Starter} : step'[j][1] # "idle" => step'[Starter][1] = "done"
  BY <1>1, <1>5 DEF IInv, RunInv
<1>8. \A j \in resumed : step'[j][1] = "done" /\ recipe'[j] = recipe'[Starter]
  BY <1>1, <1>4, BoundsAssumption DEF IInv, RunInv
<1>9. RunInv'
  BY <1>2, <1>5, <1>6, <1>7, <1>8 DEF IInv, RunInv
<1> QED BY <1>9, StepAssemble

\* What a check of a load must restore.
LEMMA CheckAssemble ==
    ASSUME IInv, NEW l \in Runners, UNCHANGED <<packVars, quiet, recipe, runVars>>,
           step[l][1] \in Checking \cup {"idle"},
           step[l][1] # "idle" \/ l = Starter \/ record # NoRecord,
           NEW s \in Checking \cup {"refused"}, NEW n \in Nat, Goto(l, s, n),
           DOMAIN manifest' = Runners, DOMAIN data' = Runners,
           \A j \in Runners \ {l} : manifest'[j] = manifest[j] /\ data'[j] = data[j],
           QuietInv(l)'
    PROVE  IInv'
<1>1. step' = [step EXCEPT ![l] = <<s, n>>] /\ step'[l] = <<s, n>>
  BY DEF Goto, IInv
<1>2. OnlyMoves(l)
  BY <1>1 DEF OnlyMoves, packVars, IInv
<1>3. RecipeInv(l)'
  BY <1>1 DEF IInv, RecipeInv, Checking, Stage
<1>4. step[l][1] # "done" /\ step'[l][1] # "done"
  BY <1>1 DEF Checking
<1> QED BY <1>2, <1>3, <1>4, LoadAssemble

\* A load that refuses has nothing to remember.
LEMMA RefuseKeeps ==
    ASSUME IInv, NEW l \in Runners, UNCHANGED <<packVars, quiet, recipe, runVars>>,
           step[l][1] \in Checking \cup {"idle"},
           step[l][1] # "idle" \/ l = Starter \/ record # NoRecord,
           Refuse(l)
    PROVE  IInv'
<1>1. /\ Goto(l, "refused", 0)
      /\ manifest' = [manifest EXCEPT ![l] = Nothing] /\ data' = [data EXCEPT ![l] = <<>>]
  BY DEF Refuse
<1>2. step'[l] = <<"refused", 0>>
  BY <1>1 DEF Goto, IInv
<1>3. QuietInv(l)'
  BY <1>2 DEF QuietInv, Loading
<1> QED BY <1>1, <1>3, CheckAssemble DEF IInv

\* What is said of files under a manifest depends on these two only.
LEMMA SameManifest ==
    ASSUME NEW l, files' = files, manifest'[l] = manifest[l]
    PROVE  /\ At("manifest")' = At("manifest")
           /\ \A role : RoleAt(l, role)' = RoleAt(l, role)
           /\ RubricsChecked(l)' = RubricsChecked(l)
<1>1. \A path : At(path)' = At(path)
  BY DEF At
<1>2. \A role : RoleAt(l, role)' = RoleAt(l, role)
  BY <1>1 DEF RoleAt
<1> QED BY <1>1, <1>2 DEF RubricsChecked

\* And so stays when neither changes.
LEMMA SameFiles ==
    ASSUME UNCHANGED <<packVars, manifest>>, NEW l
    PROVE  /\ At("manifest")' = At("manifest") /\ manifest'[l] = manifest[l]
           /\ \A role : RoleAt(l, role)' = RoleAt(l, role)
           /\ RubricsChecked(l)' = RubricsChecked(l)
BY SameManifest DEF packVars

\* A check that only moves on.
LEMMA PassAssemble ==
    ASSUME IInv, NEW l \in Runners, UNCHANGED <<packVars, quiet, recipe, runVars>>,
           UNCHANGED <<manifest, data>>, step[l][1] \in Checking,
           NEW s \in Checking, NEW n \in Nat, Goto(l, s, n),
           quiet[l] => Found(l, s, n)
    PROVE  IInv'
<1>1. step[l][1] # "idle"
  BY DEF Checking
<1>2. step'[l] = <<s, n>>
  BY DEF Goto, IInv
<1>3. \A role : Holds(l, role)' = Holds(l, role)
  BY SameFiles DEF Holds
<1>4. files' = files /\ manifest' = manifest /\ quiet' = quiet
  BY DEF packVars
<1>5. quiet[l] => Found(l, s, n)'
  BY <1>3, <1>4, SameFiles DEF Found
<1>6. QuietInv(l)'
  BY <1>2, <1>4, <1>5 DEF QuietInv
<1> QED BY <1>1, <1>6, CheckAssemble DEF IInv
-----------------------------------------------------------------------------
(* The steps of a load *)

\* What a load in a quiet directory has found.
LEMMA QuietLoad ==
    ASSUME IInv, NEW l \in Runners, quiet[l], step[l][1] \in Checking
    PROVE  /\ Loading(l) /\ step[l][2] \in Nat
           /\ manifest[l] = At("manifest") /\ ManifestValid(manifest[l], Path)
           /\ IsList(manifest[l].entries)
           /\ \A k \in 1 .. Len(manifest[l].entries) :
                (step[l][1] = "digests" => k < step[l][2]) =>
                    /\ files[manifest[l].entries[k].path] = manifest[l].entries[k].sha256
                    /\ manifest[l].entries[k].sha256 # None
           /\ step[l][1] \notin {"digests", "listing"} =>
                    DigestsAgree(manifest[l]) /\ ReferencesValid(manifest[l])
<1>1. Loading(l)
  BY DEF Loading, Checking
<1>2. /\ step[l][2] \in Nat
      /\ manifest[l] = At("manifest") /\ ManifestValid(manifest[l], Path)
      /\ \A k \in 1 .. Len(manifest[l].entries) :
                (step[l][1] = "digests" => k < step[l][2]) =>
                    /\ files[manifest[l].entries[k].path] = manifest[l].entries[k].sha256
                    /\ manifest[l].entries[k].sha256 # None
      /\ step[l][1] \notin {"digests", "listing"} =>
                DigestsAgree(manifest[l]) /\ ReferencesValid(manifest[l])
  BY <1>1 DEF IInv, QuietInv, Found, RecipeInv
<1>3. At("manifest").kind = "manifest"
  BY <1>2 DEF ManifestValid
<1>4. files["manifest"] \in DOMAIN Content["manifest"]
      /\ At("manifest") = Content["manifest"][files["manifest"]]
  BY <1>3, ContentAssumption DEF IInv, FilesInv, At, Nothing, None
<1>5. IsList(manifest[l].entries)
  BY <1>2, <1>3, <1>4, ContentAssumption DEF IsList
<1> QED BY <1>1, <1>2, <1>5

\* The manifest is read and checked.
LEMMA ReadManifestKeeps ==
    ASSUME IInv, NEW l \in Runners, ReadManifest(l)
    PROVE  IInv'
<1>1. /\ step[l][1] = "idle" /\ (l = Starter \/ record # NoRecord)
      /\ UNCHANGED <<packVars, quiet, recipe, runVars>>
  BY DEF ReadManifest
<1>2. CASE ManifestValid(At("manifest"), Path)
  <2>1. /\ manifest' = [manifest EXCEPT ![l] = At("manifest")]
        /\ Goto(l, "digests", 1) /\ data' = data
    BY <1>2 DEF ReadManifest
  <2>2. manifest'[l] = At("manifest") /\ step'[l] = <<"digests", 1>> /\ files' = files
    BY <1>1, <2>1 DEF IInv, Goto, packVars
  <2>3. At("manifest")' = At("manifest")
    BY <2>2 DEF At
  <2>4. QuietInv(l)'
    BY <1>2, <2>2, <2>3 DEF QuietInv, Found
  <2>5. "digests" \in Checking
    BY DEF Checking
  <2> QED BY <1>1, <2>1, <2>4, <2>5, CheckAssemble DEF IInv
<1>3. CASE ~ManifestValid(At("manifest"), Path)
  BY <1>1, <1>3, RefuseKeeps DEF ReadManifest
<1> QED BY <1>2, <1>3

\* The digest of one listed file is compared.
LEMMA CheckDigestKeeps ==
    ASSUME IInv, NEW l \in Runners, CheckDigest(l)
    PROVE  IInv'
<1> DEFINE m == manifest[l]
           entry == m.entries[step[l][2]]
<1>1. /\ step[l][1] = "digests" /\ step[l][1] \in Checking
      /\ UNCHANGED <<packVars, quiet, recipe, runVars>>
  BY DEF CheckDigest, Checking
<1>2. CASE files[entry.path] = None \/ files[entry.path] # entry.sha256
  BY <1>1, <1>2, RefuseKeeps DEF CheckDigest, Checking
<1>3. CASE ~(files[entry.path] = None \/ files[entry.path] # entry.sha256)
  <2>1. PICK n \in Nat : n = step[l][2]
    BY DEF IInv, RecipeInv
  <2>2. /\ UNCHANGED <<manifest, data>>
        /\ \/ n < Len(m.entries) /\ Goto(l, "digests", n + 1)
           \/ ~(n < Len(m.entries)) /\ Goto(l, "listing", 0)
    BY <1>3, <2>1 DEF CheckDigest
  <2>3. CASE n < Len(m.entries) /\ Goto(l, "digests", n + 1)
    <3>1. ASSUME quiet[l] PROVE Found(l, "digests", n + 1)
      <4>1. \A k \in 1 .. Len(m.entries) : k < n + 1 =>
                files[m.entries[k].path] = m.entries[k].sha256 /\ m.entries[k].sha256 # None
        <5> SUFFICES ASSUME NEW k \in 1 .. Len(m.entries), k < n + 1
                     PROVE  files[m.entries[k].path] = m.entries[k].sha256 /\ m.entries[k].sha256 # None
          OBVIOUS
        <5>1. CASE k = n
          BY <1>3, <2>1, <5>1
        <5>2. CASE k < n
          BY <1>1, <2>1, <3>1, <5>2, QuietLoad
        <5> QED BY <5>1, <5>2
      <4>2. m = At("manifest") /\ ManifestValid(m, Path)
        BY <1>1, <3>1, QuietLoad
      <4> QED BY <4>1, <4>2 DEF Found
    <3> QED BY <1>1, <2>2, <2>3, <3>1, PassAssemble DEF Checking
  <2>4. CASE ~(n < Len(m.entries)) /\ Goto(l, "listing", 0)
    <3>1. ASSUME quiet[l] PROVE Found(l, "listing", 0)
      <4>1. \A k \in 1 .. Len(m.entries) :
                files[m.entries[k].path] = m.entries[k].sha256 /\ m.entries[k].sha256 # None
        <5> SUFFICES ASSUME NEW k \in 1 .. Len(m.entries)
                     PROVE  files[m.entries[k].path] = m.entries[k].sha256 /\ m.entries[k].sha256 # None
          OBVIOUS
        <5>1. Len(m.entries) \in Nat
          BY <1>1, <3>1, QuietLoad DEF IsList
        <5>2. CASE k = n
          BY <1>3, <2>1, <5>2
        <5>3. CASE k < n
          BY <1>1, <2>1, <3>1, <5>3, QuietLoad
        <5> QED BY <2>4, <5>1, <5>2, <5>3
      <4>2. m = At("manifest") /\ ManifestValid(m, Path)
        BY <1>1, <3>1, QuietLoad
      <4> QED BY <4>1, <4>2 DEF Found
    <3> QED BY <1>1, <2>2, <2>4, <3>1, PassAssemble DEF Checking
  <2> QED BY <2>2, <2>3, <2>4
<1> QED BY <1>2, <1>3

\* The files of the directory are those listed, and the digest of the pack agrees.
LEMMA CheckListingKeeps ==
    ASSUME IInv, NEW l \in Runners, CheckListing(l)
    PROVE  IInv'
<1> DEFINE m == manifest[l]
           valid == Discovered \subseteq Listed(m) /\ DigestsAgree(m) /\ ReferencesValid(m)
<1>1. /\ step[l][1] = "listing" /\ step[l][1] \in Checking
      /\ UNCHANGED <<packVars, quiet, recipe, runVars>>
  BY DEF CheckListing, Checking
<1>2. CASE valid
  <2>1. Goto(l, "templates", 1) /\ UNCHANGED <<manifest, data>>
    BY <1>2 DEF CheckListing
  <2>2. ASSUME quiet[l] PROVE Found(l, "templates", 1)
    BY <1>1, <1>2, <2>2, QuietLoad DEF Found
  <2> QED BY <1>1, <2>1, <2>2, PassAssemble DEF Checking
<1>3. CASE ~valid
  BY <1>1, <1>3, RefuseKeeps DEF CheckListing, Checking
<1> QED BY <1>2, <1>3

\* What is kept is what the file of the role holds.
LEMMA KeptRole ==
    ASSUME IInv, NEW l \in Runners, UNCHANGED <<packVars, manifest>>, NEW role,
           Keep(l, role, RoleAt(l, role))
    PROVE  /\ Holds(l, role)'
           /\ \A r : r # role => Holds(l, r)' = Holds(l, r)
           /\ DOMAIN data' = Runners
           /\ \A j \in Runners \ {l} : data'[j] = data[j]
<1>1. data' = [data EXCEPT ![l] = [r \in DOMAIN data[l] \cup {role} |->
                    IF r = role THEN RoleAt(l, role) ELSE data[l][r]]]
  BY DEF Keep
<1>2. data'[l] = [r \in DOMAIN data[l] \cup {role} |->
                    IF r = role THEN RoleAt(l, role) ELSE data[l][r]]
  BY <1>1 DEF IInv
<1>3. \A r : RoleAt(l, r)' = RoleAt(l, r)
  BY SameFiles
<1>4. Holds(l, role)'
  BY <1>2, <1>3 DEF Holds
<1>5. ASSUME NEW r, r # role PROVE Holds(l, r)' = Holds(l, r)
  BY <1>2, <1>3, <1>5 DEF Holds
<1> QED BY <1>1, <1>4, <1>5 DEF IInv

\* A check that keeps what it read.
LEMMA KeepAssemble ==
    ASSUME IInv, NEW l \in Runners, UNCHANGED <<packVars, quiet, recipe, runVars>>,
           UNCHANGED manifest, NEW role, NEW content, Keep(l, role, content),
           step[l][1] \in Checking, NEW s \in Checking, NEW n \in Nat, Goto(l, s, n),
           quiet[l] => Found(l, s, n)'
    PROVE  IInv'
<1>1. step[l][1] # "idle"
  BY DEF Checking
<1>2. step'[l] = <<s, n>> /\ quiet' = quiet
  BY DEF Goto, IInv
<1>3. QuietInv(l)'
  BY <1>2 DEF QuietInv
<1>4. DOMAIN data' = Runners /\ \A j \in Runners \ {l} : data'[j] = data[j]
  BY DEF Keep, IInv
<1> QED BY <1>1, <1>3, <1>4, CheckAssemble DEF IInv

\* While nothing changes, the three files of a template are there.
LEMMA TemplateFilesAreThere ==
    ASSUME IInv, NEW l \in Runners, quiet[l], step[l][1] = "templates",
           NEW role \in {"template", "requirements", "example"}
    PROVE  RoleAt(l, role) # Nothing
<1>1. Loading(l)
  BY DEF Loading
<1>2. role \in DOMAIN manifest[l].roles
  BY QuietLoad DEF ReferencesValid, Role, Checking
<1> QED BY <1>1, <1>2, RoleIsThere

\* The requirements and the template are read and checked.
LEMMA CheckTemplatesKeeps ==
    ASSUME IInv, NEW l \in Runners, CheckTemplates(l)
    PROVE  IInv'
<1> DEFINE template == RoleAt(l, "template")
<1>0. PICK at \in Nat : at = step[l][2]
  BY DEF IInv, RecipeInv
<1>1. /\ step[l][1] = "templates" /\ step[l][1] \in Checking
      /\ {"templates", "ontology"} \subseteq Checking
      /\ UNCHANGED <<packVars, quiet, recipe, runVars>>
  BY DEF CheckTemplates, Checking
<1>2. \/ /\ at = 1
         /\ \E r \in {"template", "requirements", "example"} : RoleAt(l, r) = Nothing
         /\ Goto(l, "ontology", 1) /\ UNCHANGED <<manifest, data>>
      \/ /\ at = 1
         /\ Goto(l, "templates", at + 1) /\ Keep(l, "requirements", RoleAt(l, "requirements"))
         /\ UNCHANGED manifest
      \/ /\ at = 2 /\ TemplateValid(data[l]["requirements"], template)
         /\ Goto(l, "templates", at + 1) /\ UNCHANGED <<manifest, data>>
      \/ /\ at \in 3 .. 4
         /\ IF at < 4 THEN Goto(l, "templates", at + 1) ELSE Goto(l, "ontology", 1)
         /\ UNCHANGED <<manifest, data>>
      \/ Refuse(l)
  BY <1>0 DEF CheckTemplates
<1>3. CASE /\ at = 1
           /\ \E r \in {"template", "requirements", "example"} : RoleAt(l, r) = Nothing
           /\ Goto(l, "ontology", 1) /\ UNCHANGED <<manifest, data>>
  <2>1. ~quiet[l]
    BY <1>1, <1>3, TemplateFilesAreThere
  <2> QED BY <1>1, <1>3, <2>1, PassAssemble
<1>4. CASE /\ at = 1
           /\ Goto(l, "templates", at + 1) /\ Keep(l, "requirements", RoleAt(l, "requirements"))
           /\ UNCHANGED manifest
  <2>1. Holds(l, "requirements")' /\ files' = files
    BY <1>1, <1>4, KeptRole DEF packVars
  <2>2. ASSUME quiet[l] PROVE Found(l, "templates", 2)'
    BY <1>1, <1>4, <2>1, <2>2, QuietLoad, SameFiles DEF Found
  <2> QED BY <1>1, <1>4, <2>2, KeepAssemble
<1>5. CASE /\ at = 2 /\ TemplateValid(data[l]["requirements"], template)
           /\ Goto(l, "templates", at + 1) /\ UNCHANGED <<manifest, data>>
  <2>1. ASSUME quiet[l] PROVE Found(l, "templates", 3)
    <3>1. Found(l, "templates", 2)
      BY <1>0, <1>1, <1>5, <2>1, QuietLoad DEF IInv, QuietInv
    <3> QED BY <1>5, <3>1 DEF Found, Holds
  <2> QED BY <1>1, <1>5, <2>1, PassAssemble
<1>6. CASE /\ at \in 3 .. 4
           /\ IF at < 4 THEN Goto(l, "templates", at + 1) ELSE Goto(l, "ontology", 1)
           /\ UNCHANGED <<manifest, data>>
  <2>1. ASSUME quiet[l] PROVE Found(l, "templates", at) /\ at > 2
    BY <1>0, <1>1, <1>6, <2>1, QuietLoad DEF IInv, QuietInv
  <2>2. CASE at = 3
    <3>1. ASSUME quiet[l] PROVE Found(l, "templates", 4)
      BY <2>1, <2>2, <3>1 DEF Found
    <3> QED BY <1>1, <1>6, <2>2, <3>1, PassAssemble
  <2>3. CASE at = 4
    <3>1. ASSUME quiet[l] PROVE Found(l, "ontology", 1)
      BY <2>1, <2>3, <3>1 DEF Found
    <3> QED BY <1>1, <1>6, <2>3, <3>1, PassAssemble
  <2> QED BY <1>6, <2>2, <2>3
<1>7. CASE Refuse(l)
  BY <1>1, <1>7, RefuseKeeps DEF Checking
<1> QED BY <1>2, <1>3, <1>4, <1>5, <1>6, <1>7

\* The types of the ontology are read and checked.
LEMMA CheckOntologyKeeps ==
    ASSUME IInv, NEW l \in Runners, CheckOntology(l)
    PROVE  IInv'
<1>0. PICK at \in Nat : at = step[l][2]
  BY DEF IInv, RecipeInv
<1> DEFINE role == OntologyRoles[at]
<1>1. /\ step[l][1] = "ontology" /\ step[l][1] \in Checking
      /\ {"rubrics", "ontology"} \subseteq Checking
      /\ UNCHANGED <<packVars, quiet, recipe, runVars>>
  BY DEF CheckOntology, Checking
<1>2. \/ /\ Keep(l, role, RoleAt(l, role)) /\ Goto(l, "ontology", at + 1) /\ UNCHANGED manifest
      \/ Goto(l, "rubrics", 1) /\ UNCHANGED <<manifest, data>>
      \/ Refuse(l)
  BY <1>0 DEF CheckOntology
<1>3. quiet[l] => Found(l, "ontology", at)
  BY <1>0, <1>1, QuietLoad DEF IInv, QuietInv
<1>4. CASE Keep(l, role, RoleAt(l, role)) /\ Goto(l, "ontology", at + 1) /\ UNCHANGED manifest
  <2>1. files' = files
    BY <1>1 DEF packVars
  <2>2. ASSUME quiet[l] PROVE Found(l, "ontology", at + 1)'
    BY <1>1, <1>3, <1>4, <2>1, <2>2, SameFiles DEF Found
  <2> QED BY <1>1, <1>4, <2>2, KeepAssemble
<1>5. CASE Goto(l, "rubrics", 1) /\ UNCHANGED <<manifest, data>>
  <2>1. ASSUME quiet[l] PROVE Found(l, "rubrics", 1)
    BY <1>3, <2>1 DEF Found
  <2> QED BY <1>1, <1>5, <2>1, PassAssemble
<1>6. CASE Refuse(l)
  BY <1>1, <1>6, RefuseKeeps DEF Checking
<1> QED BY <1>2, <1>4, <1>5, <1>6

\* The rubrics are read and their criteria resolved.
LEMMA CheckRubricsKeeps ==
    ASSUME IInv, NEW l \in Runners, CheckRubrics(l)
    PROVE  IInv'
<1>0. PICK at \in Nat : at = step[l][2]
  BY DEF IInv, RecipeInv
<1> DEFINE role == RubricRoles[at]
           content == IF role \in DOMAIN manifest[l].roles THEN RoleAt(l, role) ELSE Nothing
<1>1. /\ step[l][1] = "rubrics" /\ step[l][1] \in Checking
      /\ {"rubrics", "reload"} \subseteq Checking
      /\ UNCHANGED <<packVars, quiet, recipe, runVars>>
  BY DEF CheckRubrics, Checking
<1>2. \/ /\ content.kind = KindOf(role) /\ at < 3
         /\ Keep(l, role, content) /\ Goto(l, "rubrics", at + 1) /\ UNCHANGED manifest
      \/ /\ content.kind = KindOf(role) /\ at = 3
         /\ RubricsValid(manifest[l], data[l]["common"], data[l]["rubric"], content)
         /\ PrecedenceErrors(manifest[l], EmptyContext) = {}
         /\ data' = [data EXCEPT ![l] = <<>>] /\ Goto(l, "reload", 0) /\ UNCHANGED manifest
      \/ Refuse(l)
  BY <1>0 DEF CheckRubrics
<1>3. quiet[l] => Found(l, "rubrics", at) /\ at \in 1 .. 3
  BY <1>0, <1>1, QuietLoad DEF IInv, QuietInv, Found
<1>4. ASSUME at \in 1 .. 3, content.kind = KindOf(role)
      PROVE  role \in DOMAIN manifest[l].roles /\ content = RoleAt(l, role)
  <2>1. KindOf(role) \in {"rubric", "requirements"}
    BY <1>4 DEF KindOf, RubricRoles
  <2> QED BY <1>4, <2>1 DEF Nothing, None
<1>5. CASE /\ content.kind = KindOf(role) /\ at < 3
           /\ Keep(l, role, content) /\ Goto(l, "rubrics", at + 1) /\ UNCHANGED manifest
  <2>1. ASSUME quiet[l] PROVE Found(l, "rubrics", at + 1)'
    <3>1. at \in 1 .. 2 /\ content = RoleAt(l, role) /\ role \in DOMAIN manifest[l].roles
      BY <1>3, <1>4, <1>5, <2>1
    <3>2. Holds(l, role)' /\ \A r : r # role => Holds(l, r)' = Holds(l, r)
      BY <1>1, <1>5, <3>1, KeptRole
    <3>3. RoleAt(l, role).kind = "rubric"
      BY <1>5, <3>1 DEF KindOf, RubricRoles
    <3>4. Found(l, "rubrics", at) /\ files' = files /\ manifest' = manifest
      BY <1>1, <1>3, <1>5, <2>1 DEF packVars
    <3>5. Found(l, "ontology", 1)'
      BY <1>1, <3>4, SameFiles DEF Found
    <3>6. CASE at = 1
      <4>1. Found(l, "rubrics", 2)'
        <5>1. role = "common"
          BY <3>6 DEF RubricRoles
        <5>2. Holds(l, "common")' /\ RoleAt(l, "common").kind = "rubric"
          BY <3>2, <3>3, <5>1
        <5>3. RoleAt(l, "common")' = RoleAt(l, "common")
          BY <1>1, <3>4, SameFiles
        <5> HIDE DEF role
        <5> QED BY <3>5, <5>2, <5>3 DEF Found
      <4> QED BY <3>6, <4>1
    <3>7. CASE at = 2
      <4>1. Found(l, "rubrics", 3)'
        <5>1. role = "rubric"
          BY <3>7 DEF RubricRoles
        <5>2. Holds(l, "common")'
          BY <3>2, <3>4, <3>6, <5>1 DEF Found
        <5>3. /\ Holds(l, "rubric")' /\ RoleAt(l, "rubric").kind = "rubric"
              /\ "rubric" \in DOMAIN manifest[l].roles
          BY <3>1, <3>2, <3>3, <5>1
        <5>4. RoleAt(l, "rubric")' = RoleAt(l, "rubric") /\ RoleAt(l, "common")' = RoleAt(l, "common")
          BY <1>1, <3>4, SameFiles
        <5>5. RoleAt(l, "common").kind = "rubric"
          BY <3>4, <3>7 DEF Found
        <5> HIDE DEF role
        <5> QED BY <3>4, <3>5, <5>2, <5>3, <5>4, <5>5 DEF Found
      <4> QED BY <3>7, <4>1
    <3> QED BY <3>1, <3>6, <3>7
  <2> QED BY <1>1, <1>5, <2>1, KeepAssemble
<1>6. CASE /\ content.kind = KindOf(role) /\ at = 3
           /\ RubricsValid(manifest[l], data[l]["common"], data[l]["rubric"], content)
           /\ PrecedenceErrors(manifest[l], EmptyContext) = {}
           /\ data' = [data EXCEPT ![l] = <<>>] /\ Goto(l, "reload", 0) /\ UNCHANGED manifest
  <2>1. ASSUME quiet[l] PROVE Found(l, "reload", 0)'
    <3>1. Found(l, "rubrics", 3) /\ content = RoleAt(l, role) /\ role = "requirements"
      BY <1>3, <1>4, <1>6, <2>1 DEF RubricRoles
    <3>2. RubricsChecked(l)
      BY <1>6, <3>1 DEF RubricsChecked, Found, Holds
    <3>3. files' = files /\ manifest' = manifest
      BY <1>1, <1>6 DEF packVars
    <3> QED BY <1>1, <3>1, <3>2, <3>3, SameFiles DEF Found
  <2>2. DOMAIN data' = Runners /\ \A j \in Runners \ {l} : data'[j] = data[j]
    BY <1>6 DEF IInv
  <2>3. step'[l] = <<"reload", 0>> /\ quiet' = quiet
    BY <1>1, <1>6 DEF Goto, IInv
  <2>4. QuietInv(l)'
    BY <2>1, <2>3 DEF QuietInv
  <2>5. step[l][1] # "idle" /\ Goto(l, "reload", 0) /\ manifest' = manifest
    BY <1>1, <1>6
  <2> QED BY <1>1, <2>2, <2>4, <2>5, CheckAssemble DEF IInv
<1>7. CASE Refuse(l)
  BY <1>1, <1>7, RefuseKeeps DEF Checking
<1> QED BY <1>2, <1>5, <1>6, <1>7

\* Read again, the manifest is the one that was checked.
LEMMA ReloadKeeps ==
    ASSUME IInv, NEW l \in Runners, Reload(l)
    PROVE  IInv'
<1>1. /\ step[l][1] = "reload" /\ step[l][1] \in Checking
      /\ UNCHANGED <<packVars, quiet, recipe, runVars>>
  BY DEF Reload, Checking
<1>2. \/ /\ manifest' = [manifest EXCEPT ![l] = At("manifest")]
         /\ Goto(l, "compile", 1) /\ UNCHANGED data
      \/ Refuse(l)
  BY DEF Reload
<1>3. CASE /\ manifest' = [manifest EXCEPT ![l] = At("manifest")]
           /\ Goto(l, "compile", 1) /\ UNCHANGED data
  <2>1. ASSUME quiet[l] PROVE Found(l, "compile", 1)'
    <3>1. Found(l, "reload", step[l][2])
      BY <1>1, <2>1, QuietLoad DEF IInv, QuietInv
    <3>2. manifest[l] = At("manifest")
      BY <1>1, <2>1, QuietLoad
    <3>3. manifest'[l] = manifest[l] /\ files' = files
      BY <1>1, <1>3, <3>2 DEF IInv, packVars
    <3>4. Found(l, "reload", 0)
      BY <3>1 DEF Found
    <3>5. RubricsChecked(l)' = RubricsChecked(l) /\ At("manifest")' = At("manifest")
          /\ \A role : RoleAt(l, role)' = RoleAt(l, role)
      BY <3>3, SameManifest
    <3>6. Found(l, "reload", 0)'
      BY <3>3, <3>4, <3>5 DEF Found
    <3>7. \A k \in 1 .. 5 : ~(k < 1)
      OBVIOUS
    <3> QED BY <3>6, <3>7 DEF Found
  <2>2. step'[l] = <<"compile", 1>> /\ quiet' = quiet
    BY <1>1, <1>3 DEF Goto, IInv
  <2>3. QuietInv(l)'
    BY <2>1, <2>2 DEF QuietInv
  <2>4. step[l][1] # "idle" /\ "compile" \in Checking /\ data' = data
    BY <1>1, <1>3 DEF Checking
  <2> QED BY <1>1, <1>3, <2>3, <2>4, CheckAssemble DEF IInv
<1>4. CASE Refuse(l)
  BY <1>1, <1>4, RefuseKeeps DEF Checking
<1> QED BY <1>2, <1>3, <1>4

\* The order in which load_recipe reads.
LEMMA RecipeRoleNames ==
    /\ RecipeRoles[1] = "requirements" /\ RecipeRoles[2] = "rubric"
    /\ RecipeRoles[3] = "entity_types" /\ RecipeRoles[4] = "relationship_types"
    /\ RecipeRoles[5] = "template"
BY DEF RecipeRoles

\* The recipe that the last step of a load makes.
Compiled(l) ==
    Recipe(manifest[l], data[l]["requirements"], data[l]["rubric"], data[l]["entity_types"],
           data[l]["relationship_types"], RoleAt(l, "template"))

\* The last reads give the recipe that was checked.
LEMMA CompiledIsUsable ==
    ASSUME IInv, NEW l \in Runners, quiet[l], step[l][1] = "compile", step[l][2] = 5,
           NEW known, CriterionIds(RoleAt(l, "common")) \cup CriterionIds(RoleAt(l, "rubric")) \subseteq known
    PROVE  Usable(Compiled(l), known)
<1>1. Loading(l)
  BY DEF Loading
<1>2. Found(l, "compile", 5)
  BY <1>1 DEF IInv, QuietInv
<1>3. TemplateValid(RoleAt(l, "requirements"), RoleAt(l, "template")) /\ RubricsChecked(l)
      /\ \A k \in 1 .. 5 : k < 5 => Holds(l, RecipeRoles[k])
  BY <1>2 DEF Found
<1>4. data[l]["requirements"] = RoleAt(l, "requirements") /\ data[l]["rubric"] = RoleAt(l, "rubric")
  <2>1. Holds(l, RecipeRoles[1]) /\ Holds(l, RecipeRoles[2])
    BY <1>3
  <2> QED BY <2>1, RecipeRoleNames DEF Holds
<1>5. IsList(RoleAt(l, "rubric").mappings)
  BY CheckedCriteriaAreNamed
<1>6. RubricsValid(manifest[l], RoleAt(l, "common"), RoleAt(l, "rubric"), RoleAt(l, "requirements"))
  BY <1>3 DEF RubricsChecked
<1> QED BY <1>3, <1>4, <1>5, <1>6, CheckedRecipeIsUsable DEF Compiled

\* One file is read for the recipe, or the recipe is made.
LEMMA CompileKeeps ==
    ASSUME IInv, NEW l \in Runners, Compile(l)
    PROVE  IInv'
<1>0. PICK at \in Nat : at = step[l][2]
  BY DEF IInv, RecipeInv
<1> DEFINE role == RecipeRoles[at]
<1>1. /\ step[l][1] = "compile" /\ step[l][1] \in Checking
      /\ UNCHANGED <<packVars, quiet, runVars>>
  BY DEF Compile, Checking
<1>2. \/ Refuse(l) /\ UNCHANGED recipe
      \/ /\ at < 5 /\ Keep(l, role, RoleAt(l, role)) /\ Goto(l, "compile", at + 1)
         /\ UNCHANGED <<manifest, recipe>>
      \/ /\ at = 5 /\ role = "template" /\ recipe' = [recipe EXCEPT ![l] = Compiled(l)]
         /\ manifest' = [manifest EXCEPT ![l] = Nothing] /\ data' = [data EXCEPT ![l] = <<>>]
         /\ Goto(l, "ready", 0)
      \/ /\ Skips(l, role) /\ Keep(l, role, NoTypes[role]) /\ Goto(l, "compile", at + 1)
         /\ UNCHANGED <<manifest, recipe>>
  BY <1>0, RecipeRoleNames DEF Compile, Compiled
<1>3. CASE Refuse(l) /\ UNCHANGED recipe
  BY <1>1, <1>3, RefuseKeeps DEF Checking
<1>4. CASE /\ at < 5 /\ Keep(l, role, RoleAt(l, role)) /\ Goto(l, "compile", at + 1)
           /\ UNCHANGED <<manifest, recipe>>
  <2>1. ASSUME quiet[l] PROVE Found(l, "compile", at + 1)'
    <3>1. Found(l, "compile", at)
      BY <1>0, <1>1, <2>1, QuietLoad DEF IInv, QuietInv
    <3>2. Found(l, "reload", 0)'
      <4>1. files' = files /\ manifest' = manifest
        BY <1>1, <1>4 DEF packVars
      <4> QED BY <1>1, <3>1, <4>1, SameFiles DEF Found
    <3>3. at \in 1 .. 4 /\ \A k \in 1 .. 5 : k < at => Holds(l, RecipeRoles[k])
      BY <1>4, <3>1 DEF Found
    <3>4. Holds(l, role)' /\ \A r : r # role => Holds(l, r)' = Holds(l, r)
      BY <1>1, <1>4, KeptRole
    <3>5. \A k \in 1 .. 5 : k < at + 1 => Holds(l, RecipeRoles[k])'
      <4> SUFFICES ASSUME NEW k \in 1 .. 5, k < at + 1 PROVE Holds(l, RecipeRoles[k])'
        OBVIOUS
      <4>1. CASE RecipeRoles[k] = role
        BY <3>4, <4>1
      <4>2. CASE RecipeRoles[k] # role
        <5>1. k < at
          BY <3>3, <4>2
        <5> QED BY <3>3, <3>4, <4>2, <5>1
      <4> QED BY <4>1, <4>2
    <3> HIDE DEF role
    <3> QED BY <3>2, <3>3, <3>5 DEF Found
  <2> QED BY <1>1, <1>4, <2>1, KeepAssemble
<1>5. CASE /\ at = 5 /\ role = "template" /\ recipe' = [recipe EXCEPT ![l] = Compiled(l)]
           /\ manifest' = [manifest EXCEPT ![l] = Nothing] /\ data' = [data EXCEPT ![l] = <<>>]
           /\ Goto(l, "ready", 0)
  <2>1. step' = [step EXCEPT ![l] = <<"ready", 0>>] /\ step'[l] = <<"ready", 0>>
        /\ recipe'[l] = Compiled(l)
    BY <1>5 DEF Goto, IInv
  <2>2. OnlyMoves(l)
    BY <1>1, <1>5, <2>1 DEF OnlyMoves, packVars, IInv
  <2>3. QuietInv(l)'
    BY <2>1 DEF QuietInv, Loading
  <2>4. ASSUME quiet[l] PROVE Usable(Compiled(l), CriteriaOf(Compiled(l).pack))
    <3>1. Compiled(l).pack = manifest[l].pack
      BY DEF Compiled, Recipe
    <3>2. CriterionIds(RoleAt(l, "common")) \cup CriterionIds(RoleAt(l, "rubric"))
            \subseteq CriteriaOf(manifest[l].pack)
      BY <1>1, <2>4, CheckedCriteriaAreNamed
    <3> QED BY <1>0, <1>1, <1>5, <2>4, <3>1, <3>2, CompiledIsUsable
  <2>5. RecipeInv(l)'
    <3>1. quiet'[l] = quiet[l]
      BY <1>1
    <3>2. CriteriaOf(recipe[l].pack)' = CriteriaOf(recipe'[l].pack)
      BY DEF CriteriaOf
    <3> QED BY <2>1, <2>4, <3>1, <3>2 DEF RecipeInv, Stage
  <2>6. step[l][1] # "done" /\ step'[l][1] # "done" /\ step[l][1] # "idle"
    BY <1>1, <2>1
  <2> QED BY <1>1, <2>2, <2>3, <2>5, <2>6, LoadAssemble
<1>6. CASE /\ Skips(l, role) /\ Keep(l, role, NoTypes[role]) /\ Goto(l, "compile", at + 1)
           /\ UNCHANGED <<manifest, recipe>>
  <2>1. ~quiet[l]
    <3> SUFFICES ASSUME quiet[l] PROVE FALSE
      OBVIOUS
    <3>1. Found(l, "compile", at)
      BY <1>0, <1>1, QuietLoad DEF IInv, QuietInv
    <3>2. Optional \subseteq DOMAIN manifest[l].roles
      BY <3>1 DEF Found, ReferencesValid, Role, Optional
    <3> QED BY <1>6, <3>2 DEF Skips
  <2> HIDE DEF role
  <2> QED BY <1>1, <1>6, <2>1, KeepAssemble
<1> QED BY <1>2, <1>3, <1>4, <1>5, <1>6

-----------------------------------------------------------------------------
(* The steps of a run *)

\* A runner is built without a pack.
LEMMA BuildWithoutPackKeeps ==
    ASSUME IInv, NEW l \in Runners, BuildWithoutPack(l)
    PROVE  IInv'
<1>1. /\ step[l][1] = "idle" /\ (l = Starter \/ record # NoRecord) /\ Goto(l, "ready", 0)
      /\ UNCHANGED <<packVars, manifest, data, quiet, recipe, runVars>>
  BY DEF BuildWithoutPack
<1>2. step' = [step EXCEPT ![l] = <<"ready", 0>>] /\ step'[l] = <<"ready", 0>>
  BY <1>1 DEF Goto, IInv
<1>3. OnlyMoves(l)
  BY <1>1, <1>2 DEF OnlyMoves, packVars, IInv
<1>4. QuietInv(l)' /\ RecipeInv(l)'
  BY <1>1, <1>2 DEF QuietInv, Loading, RecipeInv, Stage, IInv
<1> QED BY <1>1, <1>2, <1>3, <1>4, LoadAssemble

\* The run is started and its recipe recorded.
LEMMA StartKeeps ==
    ASSUME IInv, NEW l \in Runners, Start(l)
    PROVE  IInv'
<1>1. /\ l = Starter /\ step[l][1] = "ready"
      /\ record' = [id |-> recipe[l].id, digest |-> RecipeDigest(recipe[l])]
      /\ Goto(l, "done", 0)
      /\ UNCHANGED <<packVars, manifest, data, quiet, recipe, resumed>>
  BY DEF Start
<1>2. step' = [step EXCEPT ![l] = <<"done", 0>>] /\ step'[l] = <<"done", 0>>
  BY <1>1 DEF Goto, IInv
<1>3. OnlyMoves(l)
  BY <1>1, <1>2 DEF OnlyMoves, packVars, IInv
<1>4. QuietInv(l)'
  BY <1>2 DEF QuietInv, Loading
<1>5. RecipeInv(l)'
  BY <1>1, <1>2 DEF RecipeInv, Stage, IInv
<1>6. RunInv'
  BY <1>1, <1>2, <1>3 DEF RunInv, IInv, RecipeDigest, OnlyMoves
<1> QED BY <1>3, <1>4, <1>5, <1>6, StepAssemble

\* Whoever is let through has the recipe that the record names.
LEMMA ResumeKeeps ==
    ASSUME IInv, NEW l \in Runners, Resume(l)
    PROVE  IInv'
<1>1. /\ l # Starter /\ step[l][1] = "ready"
      /\ resumed' = IF SameRecipe(recipe[l]) THEN resumed \cup {l} ELSE resumed
      /\ Goto(l, "done", 0)
      /\ UNCHANGED <<packVars, manifest, data, quiet, recipe, record>>
  BY DEF Resume
<1>2. step' = [step EXCEPT ![l] = <<"done", 0>>] /\ step'[l] = <<"done", 0>>
  BY <1>1 DEF Goto, IInv
<1>3. OnlyMoves(l)
  BY <1>1, <1>2 DEF OnlyMoves, packVars, IInv
<1>4. QuietInv(l)'
  BY <1>2 DEF QuietInv, Loading
<1>5. RecipeInv(l)'
  BY <1>1, <1>2 DEF RecipeInv, Stage, IInv
<1>6. step[Starter][1] = "done" /\ step'[Starter] = step[Starter]
  BY <1>1, <1>3, BoundsAssumption DEF IInv, RunInv, OnlyMoves
<1>7. SameRecipe(recipe[l]) => recipe[l] = recipe[Starter]
  BY <1>6 DEF SameRecipe, RecipeDigest, IInv, RunInv
<1>8. \A j \in resumed' : j \in Runners /\ step'[j][1] = "done" /\ recipe'[j] = recipe'[Starter]
  BY <1>1, <1>2, <1>3, <1>7 DEF OnlyMoves, IInv, RunInv
<1>9. RunInv'
  BY <1>1, <1>6, <1>8 DEF RunInv, IInv
<1> QED BY <1>3, <1>4, <1>5, <1>9, StepAssemble

-----------------------------------------------------------------------------
(* The invariant *)

\* The invariant holds before anybody loads.
LEMMA InitHolds ==
    ASSUME Init
    PROVE  IInv
<1>1. FilesInv
  BY ContentAssumption, BoundsAssumption DEF Init, FilesInv, None
<1>2. ASSUME NEW l \in Runners PROVE QuietInv(l) /\ RecipeInv(l)
  <2>1. step[l] = <<"idle", 0>> /\ recipe[l] = NoRecipe
    BY DEF Init
  <2> QED BY <2>1 DEF QuietInv, Loading, RecipeInv, Stage
<1>3. RunInv
  BY BoundsAssumption DEF Init, RunInv
<1> QED BY <1>1, <1>2, <1>3 DEF Init, IInv

\* The directory is replaced by another pack.
LEMMA ReplacePackKeeps ==
    ASSUME IInv, ReplacePack
    PROVE  IInv'
BY ChangeKeeps, ContentAssumption DEF ReplacePack, None

\* One file of the directory changes.
LEMMA ReplaceFileKeeps ==
    ASSUME IInv, ReplaceFile
    PROVE  IInv'
<1>1. PICK path \in Path : \E v \in {None} \cup {p[path] : p \in Others} :
        Change([files EXCEPT ![path] = v])
  BY DEF ReplaceFile
<1>2. PICK v \in {None} \cup {p[path] : p \in Others} : Change([files EXCEPT ![path] = v])
  BY <1>1
<1>3. v \in DOMAIN Content[path] \cup {None}
  BY ContentAssumption DEF None
<1>4. DOMAIN [files EXCEPT ![path] = v] = Path
      /\ \A p \in Path : [files EXCEPT ![path] = v][p] \in DOMAIN Content[p] \cup {None}
  BY <1>3 DEF IInv, FilesInv
<1> QED BY <1>2, <1>4, ChangeKeeps

\* Every step keeps the invariant.
LEMMA StepKeeps ==
    ASSUME IInv, [Next]_vars
    PROVE  IInv'
<1>1. CASE UNCHANGED vars
  <2>1. UNCHANGED <<files, changes, step, manifest, data, quiet, recipe, record, resumed>>
    BY <1>1 DEF vars, packVars, loadVars, runVars
  <2>2. \A l \in Runners : QuietInv(l)' /\ RecipeInv(l)'
    BY <2>1, SameLoad
  <2> QED BY <2>1, <2>2 DEF IInv, FilesInv, RunInv
<1>2. CASE ReplacePack \/ ReplaceFile
  BY <1>2, ReplacePackKeeps, ReplaceFileKeeps
<1>3. ASSUME NEW l \in Runners,
             \/ ReadManifest(l) \/ CheckDigest(l) \/ CheckListing(l) \/ CheckTemplates(l)
             \/ CheckOntology(l) \/ CheckRubrics(l)
      PROVE  IInv'
  BY <1>3, ReadManifestKeeps, CheckDigestKeeps, CheckListingKeeps, CheckTemplatesKeeps,
     CheckOntologyKeeps, CheckRubricsKeeps
<1>4. ASSUME NEW l \in Runners,
             Reload(l) \/ Compile(l) \/ BuildWithoutPack(l) \/ Start(l) \/ Resume(l)
      PROVE  IInv'
  BY <1>4, ReloadKeeps, CompileKeeps, BuildWithoutPackKeeps, StartKeeps, ResumeKeeps
<1> QED BY <1>1, <1>2, <1>3, <1>4 DEF Next

\* Every load that nothing has disturbed holds what its checks have established, of
\* the files as they are; a runner has a recipe only when its load is over, and the
\* run record names that of the starter.
THEOREM PackInvariance == Spec => []IInv
<1>1. Init => IInv
  BY InitHolds
<1>2. IInv /\ [Next]_vars => IInv'
  BY StepKeeps
<1> QED BY <1>1, <1>2, PTL DEF Spec

\* CoreRunner._load_run_contract compares the digest of the recipe with the recorded
\* one, so that a run begun by a recipe mixed of two packs is resumed only by runners
\* that have the same mixture, and none of these loaded a pack at rest.
THEOREM ResumedIsSound == Spec => []ResumedReviewIsSound
<1>1. IInv => ResumedReviewIsSound
  <2> SUFFICES ASSUME IInv, NEW l \in resumed, quiet[l], recipe[l] # NoRecipe
               PROVE  Usable(recipe[Starter], CriteriaOf(recipe[l].pack))
    BY DEF ResumedReviewIsSound
  <2>1. l \in Runners /\ recipe[l] = recipe[Starter]
    BY DEF IInv, RunInv
  <2>2. Usable(recipe[l], CriteriaOf(recipe[l].pack))
    BY <2>1 DEF IInv, RecipeInv
  <2> QED BY <2>1, <2>2
<1> QED BY <1>1, PackInvariance, PTL

-----------------------------------------------------------------------------
(* The recipe of a load that nothing disturbed *)

\* Only the last step of a load gives a recipe.
LEMMA RecipeComesFromCompile ==
    ASSUME IInv, [Next]_vars, NEW l \in Runners, recipe'[l] # recipe[l]
    PROVE  step[l][1] = "compile" /\ step[l][2] = 5 /\ recipe'[l] = Compiled(l)
<1>1. recipe' # recipe
  OBVIOUS
<1>2. ~UNCHANGED vars
  BY <1>1 DEF vars, loadVars
<1>3. ~ReplacePack /\ ~ReplaceFile
  BY <1>1 DEF ReplacePack, ReplaceFile, Change
<1>4. ASSUME NEW j \in Runners,
             \/ ReadManifest(j) \/ CheckDigest(j) \/ CheckListing(j) \/ CheckTemplates(j)
             \/ CheckOntology(j) \/ CheckRubrics(j) \/ Reload(j)
             \/ BuildWithoutPack(j) \/ Start(j) \/ Resume(j)
      PROVE  FALSE
  BY <1>1, <1>4 DEF ReadManifest, CheckDigest, CheckListing, CheckTemplates, CheckOntology,
     CheckRubrics, Reload, BuildWithoutPack, Start, Resume
<1>5. PICK j \in Runners : Compile(j)
  BY <1>2, <1>3, <1>4 DEF Next
<1>6. step[j][1] = "compile" /\ step[j][2] = 5 /\ recipe' = [recipe EXCEPT ![j] = Compiled(j)]
  BY <1>1, <1>5, RecipeRoleNames DEF Compile, Compiled
<1>7. l = j
  BY <1>6 DEF IInv
<1> QED BY <1>6, <1>7 DEF IInv

\* ReferencePackLoader.load_recipe: the recipe made of a pack that stays as it is
\* while it is loaded is usable, and its sources that always apply are not in conflict.
THEOREM RecipeIsUsable == Spec => LoadedRecipeIsUsable
<1> DEFINE
      Good(l) == recipe'[l] # recipe[l] /\ quiet[l] =>
        /\ Usable(recipe'[l], CriterionIds(RoleAt(l, "common")) \cup CriterionIds(RoleAt(l, "rubric")))
        /\ \A s, t \in {u \in ToSet(manifest[l].sources) : DOMAIN u.selector.values = {}} :
            s.kind = t.kind /\ s.kind \in ToSet(manifest[l].order) =>
                \A c \in manifest[l].conflicts : ~(c.left = s.id /\ c.right = t.id)
<1>1. ASSUME IInv, [Next]_vars, NEW l \in Runners PROVE Good(l)
  <2> SUFFICES ASSUME recipe'[l] # recipe[l], quiet[l] PROVE
        /\ Usable(recipe'[l], CriterionIds(RoleAt(l, "common")) \cup CriterionIds(RoleAt(l, "rubric")))
        /\ \A s, t \in {u \in ToSet(manifest[l].sources) : DOMAIN u.selector.values = {}} :
            s.kind = t.kind /\ s.kind \in ToSet(manifest[l].order) =>
                \A c \in manifest[l].conflicts : ~(c.left = s.id /\ c.right = t.id)
    OBVIOUS
  <2>1. step[l][1] = "compile" /\ step[l][2] = 5 /\ recipe'[l] = Compiled(l)
    BY <1>1, RecipeComesFromCompile
  <2>2. Usable(recipe'[l], CriterionIds(RoleAt(l, "common")) \cup CriterionIds(RoleAt(l, "rubric")))
    BY <1>1, <2>1, CompiledIsUsable
  <2>3. RubricsChecked(l)
    BY <1>1, <2>1 DEF IInv, QuietInv, Loading, Found
  <2> QED BY <2>2, <2>3, NoConflictLeft DEF RubricsChecked
<1>2. IInv /\ [Next]_vars => [\A l \in Runners : Good(l)]_vars
  BY <1>1
<1>3. Spec => [][\A l \in Runners : Good(l)]_vars
  <2> HIDE DEF Good
  <2> QED BY <1>2, PackInvariance, PTL DEF Spec
<1> QED BY <1>3 DEF LoadedRecipeIsUsable
=============================================================================
