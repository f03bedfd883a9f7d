--------------------------- MODULE MCReferencePack ---------------------------
(* A sound pack, and packs of which one file differs, for the model checker. *)
EXTENDS ReferencePack

CONSTANTS r1, r2

MCRunners == {r1, r2}

Files == <<"context", "example", "template", "requirements", "rubric", "common", "entity_types",
           "relationship_types", "id_patterns", "controlled_terms">>

MCPath == ToSet(Files) \cup {"manifest", "stray"}

MCId == {"S1", "S2", "T1", "POL", "STD", "REG"}

Section(id, criteria) == [id |-> id, heading |-> id, class |-> "required", criteria |-> criteria]

Table(id, criteria) == [id |-> id, section |-> "S1", columns |-> TRUE, criteria |-> criteria]

Mapping(id, criteria) == [id |-> id, criteria |-> criteria]

Piece(form, heading) == [form |-> form, heading |-> heading]

Source(id, kind) ==
    [id |-> id, kind |-> kind, path |-> "context",
     selector |-> [values |-> [a \in {} |-> {}], from |-> 0, to |-> 2]]

Conflict(left, right) == [left |-> left, right |-> right, resolution |-> "higher_precedence_wins"]

Broken == [kind |-> "broken"]

BaseFile == [
    context |-> [kind |-> "context"],
    example |-> [kind |-> "example"],
    template |-> [kind |-> "template", front |-> TRUE,
                  pieces |-> <<Piece("authoring", ""), Piece("heading", "S1"), Piece("placeholder", ""),
                               Piece("comment", "S2")>>],
    requirements |-> [kind |-> "requirements", sections |-> <<Section("S1", <<"c1">>), Section("S2", <<"com">>)>>,
                      tables |-> <<Table("T1", <<"c1">>)>>],
    rubric |-> [kind |-> "rubric", type |-> "process", criteria |-> <<"c1">>, dimensions |-> {"c2"},
                mappings |-> <<Mapping("S1", <<"c1", "com">>), Mapping("S2", <<>>), Mapping("T1", <<"c2">>)>>],
    common |-> [kind |-> "rubric", type |-> "common", criteria |-> <<"com">>, dimensions |-> {},
                mappings |-> <<>>],
    entity_types |-> [kind |-> "entity_types", ids |-> <<"Risk", "Control">>],
    relationship_types |-> [kind |-> "relationship_types",
                            items |-> <<[id |-> "MITIGATES", layer |-> "governed",
                                         source |-> {"Control"}, target |-> {"Risk"}]>>],
    id_patterns |-> [kind |-> "id_patterns", types |-> {"Risk"}],
    controlled_terms |-> [kind |-> "controlled_terms"],
    stray |-> [kind |-> "stray"]]

\* Other contents of one file: <<path, variant, content>>.
Differing == {
    <<"requirements", "twoAlike", [BaseFile.requirements EXCEPT !.sections = <<Section("S1", <<"c1">>), Section("S1", <<"c1">>)>>]>>,
    <<"requirements", "unknownCriterion", [BaseFile.requirements EXCEPT !.sections[2].criteria = <<"c9">>]>>,
    <<"requirements", "noCriteria", [BaseFile.requirements EXCEPT !.sections[2].criteria = <<>>]>>,
    <<"requirements", "noHeading", [BaseFile.requirements EXCEPT !.sections[2].heading = "S3"]>>,
    <<"requirements", "noSection", [BaseFile.requirements EXCEPT !.tables[1].section = "S3"]>>,
    <<"requirements", "broken", Broken>>,
    <<"template", "noFront", [BaseFile.template EXCEPT !.front = FALSE]>>,
    <<"template", "noAuthoring", [BaseFile.template EXCEPT !.pieces = <<Piece("heading", "S1"), Piece("heading", "S2")>>]>>,
    <<"template", "openComment", [BaseFile.template EXCEPT !.pieces[4] = Piece("openComment", "S2")]>>,
    <<"template", "braces", [BaseFile.template EXCEPT !.pieces[3] = Piece("braces", "")]>>,
    <<"rubric", "otherType", [BaseFile.rubric EXCEPT !.type = "standard"]>>,
    <<"rubric", "unmapped", [BaseFile.rubric EXCEPT !.mappings = <<Mapping("S1", <<"c1">>), Mapping("T1", <<"c1">>)>>]>>,
    <<"rubric", "mappedTwice", [BaseFile.rubric EXCEPT !.mappings = @ \o <<Mapping("S1", <<"c2">>)>>]>>,
    <<"rubric", "unknownMapped", [BaseFile.rubric EXCEPT !.mappings[1].criteria = <<"c9">>]>>,
    <<"rubric", "fewerCriteria", [BaseFile.rubric EXCEPT !.dimensions = {}, !.mappings[3].criteria = <<"com">>]>>,
    <<"common", "empty", [BaseFile.common EXCEPT !.criteria = <<>>]>>,
    <<"common", "broken", Broken>>,
    <<"entity_types", "twice", [BaseFile.entity_types EXCEPT !.ids = <<"Risk", "Control", "Risk">>]>>,
    <<"relationship_types", "unknownType", [BaseFile.relationship_types EXCEPT !.items[1].target = {"Step"}]>>,
    <<"relationship_types", "generic", [BaseFile.relationship_types EXCEPT !.items[1].id = "RELATED_TO"]>>,
    <<"id_patterns", "unknownType", [BaseFile.id_patterns EXCEPT !.types = {"Step"}]>>}

\* A later version of the pack, with one section less, its heading and its mapping.
LaterFile == [
    template |-> [BaseFile.template EXCEPT !.pieces[4] = Piece("text", "")],
    requirements |-> [BaseFile.requirements EXCEPT !.sections = <<Section("S1", <<"c1">>)>>],
    rubric |-> [BaseFile.rubric EXCEPT !.mappings = <<Mapping("S1", <<"c1">>), Mapping("T1", <<"c1">>)>>]]

\* A pack whose manifest has the variant v of these paths in place of the first one.
Entries(paths, v) ==
    [i \in DOMAIN Files |-> [path |-> Files[i], sha256 |-> IF Files[i] \in paths THEN v ELSE "base"]]

Signed(m) == [m EXCEPT !.pack = PackDigest(m), !.own = ManifestDigest(m)]

Manifest(paths, v) == Signed([
    kind |-> "manifest", formed |-> TRUE, type |-> "process",
    order |-> <<"regulation", "policy", "standard", "template", "style_guide", "source">>, same |-> "error",
    entries |-> Entries(paths, v),
    roles |-> [r \in Role |-> r],
    sources |-> <<Source("POL", "policy"), Source("STD", "standard")>>,
    conflicts |-> {Conflict("POL", "STD")},
    pack |-> {}, own |-> <<>>])

Base == Manifest({}, "base")

Selected(m) == [m EXCEPT !.sources[2].kind = "policy",
                         !.sources[2].selector.values = [tags |-> {"records"}]]

\* Manifests of their own: signed anew, and with wrong digests.
Manifests == [
    base |-> Base,
    later |-> Manifest(DOMAIN LaterFile, "later"),
    notFormed |-> Signed([Base EXCEPT !.formed = FALSE]),
    noPolicy |-> Signed([Base EXCEPT !.order = <<"standard", "template", "style_guide", "source">>]),
    first |-> Signed([Base EXCEPT !.same = "first"]),
    equal |-> Signed([Base EXCEPT !.sources[2].kind = "policy"]),
    unranked |-> Signed([Base EXCEPT !.order = Tail(@), !.sources[1].kind = "regulation",
                                     !.sources[2].kind = "regulation"]),
    selected |-> Signed(Selected(Base)),
    dated |-> Signed([Selected(Base) EXCEPT !.sources[2].selector.values = [a \in {} |-> {}]]),
    unknownSource |-> Signed([Base EXCEPT !.conflicts = {Conflict("POL", "REG")}]),
    otherType |-> Signed([Base EXCEPT !.type = "standard"]),
    noRubric |-> Signed([Base EXCEPT !.roles = [r \in Role \ {"rubric"} |-> r]]),
    untyped |-> Signed([Base EXCEPT !.roles = [r \in Role \ Optional |-> r]]),
    unsigned |-> [Base EXCEPT !.sources[2].kind = "policy"],
    wrongPack |-> [Base EXCEPT !.pack = {}]]

NameOf(d) == d[1] \o d[2]

MCContent ==
    [p \in MCPath |->
        IF p = "manifest"
        THEN [v \in DOMAIN Manifests \cup {NameOf(d) : d \in Differing} |->
                IF v \in DOMAIN Manifests THEN Manifests[v]
                ELSE LET d == CHOOSE d \in Differing : NameOf(d) = v IN Manifest({d[1]}, d[2])]
        ELSE [v \in {"base"} \cup {d[2] : d \in {e \in Differing : e[1] = p}}
                           \cup (IF p \in DOMAIN LaterFile THEN {"later"} ELSE {}) |->
                IF v = "base" THEN BaseFile[p]
                ELSE IF v = "later" THEN LaterFile[p]
                ELSE (CHOOSE d \in Differing : d[1] = p /\ d[2] = v)[3]]]

Sound == [p \in MCPath |-> IF p = "stray" THEN None ELSE "base"]

WithFile(d) == [Sound EXCEPT ![d[1]] = d[2], !["manifest"] = NameOf(d)]

\* Every pack with one other file or manifest, one with a file that nobody lists, and one with a file whose
\* digest is another one.
MCPacks ==
    {WithFile(d) : d \in Differing} \cup {[Sound EXCEPT !["manifest"] = v] : v \in DOMAIN Manifests \ {"later"}}
        \cup {[Sound EXCEPT !["stray"] = "base"], [Sound EXCEPT !["rubric"] = "fewerCriteria"],
              [Sound EXCEPT !["example"] = None]}

Later == [p \in MCPath |-> IF p \in DOMAIN LaterFile \cup {"manifest"} THEN "later" ELSE Sound[p]]

\* A version whose manifest has no paths of types.
Untyped == [Sound EXCEPT !["manifest"] = "untyped"]

MCOthers == {Sound, Later, Untyped}
=============================================================================
