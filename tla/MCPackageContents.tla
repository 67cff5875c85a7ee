-------------------------- MODULE MCPackageContents --------------------------
(* PackageContents on small sources: one with everything a row can hold, one *)
(* with a group, one with footprints, sources that are refused, and plain    *)
(* ones of up to five rows in Hilbert order.                                 *)
EXTENDS PackageContents, PackageCheck

Classes == {"Building", "BuildingPart", "CityObjectGroup", "GenericCityObject",
            "SolitaryVegetationObject"}

TaxonomyDef ==
  [t \in Classes |->
     CASE t = "GenericCityObject" -> [class |-> "GenericOccupiedSpace", module |-> "Generics"]
       [] t = "CityObjectGroup" -> [class |-> t, module |-> "CityObjectGroup"]
       [] t = "SolitaryVegetationObject" -> [class |-> t, module |-> "Vegetation"]
       [] OTHER -> [class |-> t, module |-> "Building"]]

CoreFileDef ==
  ("Building" :> "building") @@ ("Vegetation" :> "vegetation")
  @@ ("Generics" :> "generics") @@ ("CityObjectGroup" :> "generics")

AbstractDef == <<"", "AbstractBuilding">> :> "Building"
SlugDef == ("Energy" :> "energy") @@ ("Building" :> "building") @@ ("Nameless" :> "")
FoldDef ==
  [w \in {"", "Heat", "heat", "kept", "ID", "id", "bbox", "year", "when", "note", "energy", "tag",
          "hidden", "children", "parents", "Wall", "Roof"} |->
     IF w = "ID" THEN "id" ELSE IF w = "Heat" THEN "heat" ELSE w]

\* The outline of the lowest face.
FootprintDef(wkb) ==
  LET ring == wkb[1].members[1][1][1]
  IN  Some([code |-> "MultiPolygon",
            members |-> << << << [v \in DOMAIN ring |-> <<ring[v][1], ring[v][2], 0>>] >> >> >>])

N(word) == Name(<<word>>)
Is(kind, val) == [kind |-> kind, val |-> val]
Nothing == <<>>

Energy == [name |-> "Energy", url |-> TRUE,
           adds |-> [k \in Kinds |-> CASE k = "attribute" -> {<<"heat">>}
                                       [] k = "object" -> {<<"Shed">>}
                                       [] OTHER -> {<<"Roof">>}],
           parents |-> <<"Shed">> :> AnyCityObject]
OwnBuilding == [Energy EXCEPT !.name = "Building"]

Source == [exts |-> {}, features |-> <<>>, templates |-> <<>>, templatePoints |-> <<>>,
           appearance |-> [materials |-> <<>>, textures |-> <<>>, uvs |-> <<>>],
           scale |-> 3, translate |-> <<10, 20, 1>>, swap |-> FALSE, crs |-> "known",
           lod0 |-> FALSE, tolerant |-> FALSE, hilbert |-> FALSE]

\* Definitions, as functions of their members.
Str(text) == Json("string", text)
Num(hundredths) == Json("number", hundredths)
Colour(list) == Json("list", [k \in DOMAIN list |-> Num(list[k])])
Definition(value) == [value |-> value, spelling |-> 1]
Respelt(d) == [d EXCEPT !.spelling = 2]

Red == Definition("name" :> Str("red") @@ "diffuseColor" :> Colour(<<100, 0, 0>>) @@ "x-own" :> Json("json", 1))
Green == Definition("name" :> Str("green") @@ "transparency" :> Num(50) @@ "isSmooth" :> Json("bool", TRUE))
Blue == Definition("name" :> Str("blue") @@ "shininess" :> Num(20))
Bricks == Definition("image" :> Str("bricks") @@ "type" :> Str("PNG") @@ "wrapMode" :> Str("wrap")
                     @@ "textureType" :> Str("typical") @@ "borderColor" :> Colour(<<0, 50, 100, 100>>))
Tiles == Definition("image" :> Str("tiles") @@ "x-own" :> Json("json", 2))

Object == [type |-> N("Building"), parents |-> None, children |-> None, roles |-> None,
           attributes |-> Nothing, geometries |-> <<>>, address |-> None, extent |-> None,
           others |-> Nothing]

FeatureOf(id, objects) ==
  [id |-> id, objects |-> objects, materials |-> <<>>, textures |-> <<>>, uvs |-> <<>>,
   vertices |-> <<<<0, 0, 0>>, <<2, 0, 0>>, <<2, 2, 0>>, <<0, 3, 1>>, <<0, 0, 0>>, <<9, 9, 9>>>>]

Plainly(type, lod, solids) ==
  [type |-> type, lod |-> lod, solids |-> solids, semantics |-> None,
   material |-> Nothing, texture |-> Nothing]

\* A surface of one ring, and its wrappings.
Sheet(ring) == <<ring>>
Flat(surfaces) == <<<<surfaces>>>>
Each(list) == Some(<<Some(<<Some(list)>>)>>)

\* Five faces: the second has no room for a triangle, the fourth loses a hole,
\* the last closes itself by index; two shells.
Walls ==
  [Plainly("Solid", <<2, 2>>,
     <<<<<<Sheet(<<1, 2, 3>>), Sheet(<<1, 2>>), Sheet(<<1, 3, 4>>)>>,
        <<<<<<1, 2, 3, 4>>, <<1, 2>>>>, Sheet(<<2, 3, 4, 2>>)>>>>>>)
   EXCEPT !.semantics = Some([surfaces |-> <<N("Wall"), PlusName(<<"Roof">>)>>,
            values |-> Some(<<Some(<<Some(<<Some(1), Some(1), Some(2)>>), Some(<<None, Some(2)>>)>>)>>)])]

\* Two solids, the first without material values.
Twins ==
  [Plainly("MultiSolid", <<3>>,
     <<<<<<Sheet(<<1, 2, 3>>), Sheet(<<2, 3, 4>>)>>>>,
       <<<<Sheet(<<1, 2>>), Sheet(<<1, 3, 4>>)>>>>>>)
   EXCEPT !.material = 1 :> [value |-> None,
            values |-> Some(Some(<<None, Some(<<Some(<<Some(1), Some(2)>>)>>)>>))]]

\* A face dropped, a ring that is not textured, a ring that closes itself.
Painted ==
  [Plainly("MultiSurface", <<1>>,
     Flat(<<Sheet(<<1, 2, 3, 1>>), Sheet(<<2, 3>>), <<<<1, 2, 3, 4>>, <<1, 2>>, <<1, 2, 4>>>>>>))
   EXCEPT !.material = 2 :> [value |-> Some(2), values |-> None],
          !.texture = 1 :> Some(<<<<<<
             <<Some([texture |-> 1, uvs |-> <<1, 2, 3, 1>>])>>,
             <<Some([texture |-> 2, uvs |-> <<1, 2>>])>>,
             <<None, None, Some([texture |-> 1, uvs |-> <<3, 2, 2>>])>>>>>>>>)]

Placed == [type |-> Instance, template |-> 2, point |-> 3, matrix |-> "affine"]

Rich ==
  [Source EXCEPT
     !.exts = {Energy}, !.swap = TRUE,
     !.templates = <<Plainly("MultiSurface", <<1>>, Flat(<<Sheet(<<1, 2, 3>>)>>)),
                     [Plainly("MultiSurface", <<2>>, Flat(<<Sheet(<<3, 2, 1>>)>>))
                        EXCEPT !.material = 1 :> [value |-> Some(1), values |-> None]]>>,
     !.templatePoints = <<<<0, 0, 0>>, <<1, 0, 0>>, <<0, 1, 1>>>>,
     !.appearance.materials = <<Green>>,
     !.features = <<
       [FeatureOf(1,
         1 :> [Object EXCEPT
            !.children = Some(<<2, 3>>),
            !.attributes = PlusName(<<"heat">>) :> Is("int", 5) @@ N("ID") :> Is("string", 11)
                           @@ Name(<<"", "bbox">>) :> Is("bool", TRUE),
            !.geometries = <<Painted, Plainly("MultiSurface", <<1, 0>>, Flat(<<Sheet(<<2, 3, 4>>)>>)), Walls>>]
         @@ 2 :> [Object EXCEPT
            !.type = PlusName(<<"Shed">>), !.parents = Some(<<1>>), !.children = Some(<<4>>),
            !.attributes = N("year") :> Is("float", 7) @@ N("when") :> Is("date", 1),
            !.geometries = <<Placed>>,
            !.address = Some(<<[postal |-> "locality" :> Is("string", 14) @@ "postcode" :> Is("int", 4) @@ "countryName" :> Is("string", 15),
                                location |-> Some(Plainly("MultiPoint", <<0>>, Flat(<<Sheet(<<2>>)>>)))],
                               [postal |-> "freeText" :> Is("date", 1), location |-> None],
                               [postal |-> "id" :> Is("string", 16), location |-> None]>>)]
         @@ 3 :> [Object EXCEPT
            !.type = N("BuildingPart"), !.parents = Some(<<1>>),
            !.attributes = N("year") :> Is("int", 8) @@ N("note") :> Is("bool", FALSE),
            !.extent = Some([lo |-> <<0, 0, 0>>, hi |-> <<30, 40, 9>>]),
            !.geometries = <<Walls, Twins, Plainly("MultiSurface", <<3, 0>>, Flat(<<Sheet(<<2, 3, 4>>)>>))>>]
         @@ 4 :> [Object EXCEPT
            !.type = N("BuildingPart"), !.parents = Some(<<2>>),
            !.attributes = N("when") :> Is("null", 0) @@ N("hidden") :> Is("string", 12) @@ N("note") :> Is("int", 6),
            !.others = N("hidden") :> Is("string", 13) @@ N("tag") :> Is("json", "d"),
            !.geometries = <<Plainly("MultiSurface", <<2>>, Flat(<<Sheet(<<2, 3, 6, 5>>)>>))>>])
        EXCEPT !.materials = <<Red, Respelt(Green)>>,
               !.textures = <<Bricks, Tiles>>,
               !.uvs = <<<<0, 0>>, <<1, 0>>, <<1, 1>>>>],
       [FeatureOf(5,
         5 :> [Object EXCEPT
            !.type = N("SolitaryVegetationObject"), !.attributes = N("when") :> Is("timestamp", 3),
            !.geometries = <<Placed, [Painted EXCEPT !.texture = Nothing]>>])
        EXCEPT !.materials = <<Blue, Respelt(Red)>>]>>]

\* A group of objects of other features, between them, and a feature of none.
Grouped ==
  [Source EXCEPT
     !.features = <<
       FeatureOf(1, 1 :> [Object EXCEPT !.type = N("GenericCityObject"),
                            !.geometries = <<Plainly("MultiSurface", <<2>>, Flat(<<Sheet(<<1, 2, 3>>)>>))>>]),
       FeatureOf(7, <<>>),
       FeatureOf(2, 2 :> [Object EXCEPT !.type = N("CityObjectGroup"), !.children = Some(<<3, 1>>),
                            !.roles = Some(<<Some("near"), Some("far")>>),
                            !.geometries = <<Plainly("MultiPoint", <<0>>, Flat(<<Sheet(<<1>>)>>)),
                                             Plainly("CompositeSolid", <<1>>, <<<<<<Sheet(<<1, 2, 3>>)>>>>>>)>>]),
       FeatureOf(3, 3 :> [Object EXCEPT !.type = N("GenericCityObject")])>>]

\* A group whose feature holds its members, between two other objects.
MembersInside ==
  [Source EXCEPT
     !.features = <<
       FeatureOf(1, 1 :> [Object EXCEPT !.type = N("GenericCityObject")]),
       FeatureOf(2, 2 :> [Object EXCEPT !.type = N("CityObjectGroup"), !.children = Some(<<3>>)]
                    @@ 3 :> [Object EXCEPT !.type = N("GenericCityObject")]),
       FeatureOf(4, 4 :> [Object EXCEPT !.type = N("GenericCityObject")])>>]

\* References out of range, tolerated or not.
Torn(tolerant) ==
  [Source EXCEPT
     !.tolerant = tolerant,
     !.features = <<[FeatureOf(1, 1 :> [Object EXCEPT !.geometries = <<Painted, Twins>>])
                       EXCEPT !.materials = <<Red>>,
                              !.textures = <<Bricks>>,
                              !.uvs = <<<<0, 0>>, <<1, 0>>>>]>>]

Footprints ==
  [Source EXCEPT
     !.lod0 = TRUE,
     !.features = <<FeatureOf(1, 1 :> [Object EXCEPT !.children = Some(<<2>>), !.geometries = <<[Walls EXCEPT !.semantics = None]>>]
                                 @@ 2 :> [Object EXCEPT !.type = N("BuildingPart"), !.parents = Some(<<1>>)])>>]

\* Texts that a cut takes for one another, numbers, and objects apart.
Readings ==
  LET at(id, text, number, corner) ==
        [Object EXCEPT
           !.attributes = (IF text = 0 THEN Nothing ELSE N("tag") :> Is("string", text))
                          @@ (IF number = 0 THEN Nothing ELSE N("year") :> Is("int", number)),
           !.extent = IF corner = 0 THEN None
                      ELSE Some([lo |-> <<corner, 0, 0>>, hi |-> <<corner + 2, 2, 2>>])]
      objects == <<at(1, 17, 3, 1), at(2, 12, 0, 3), at(3, 25, 0, 0), at(4, 0, 9, 9), at(5, 26, 4, 0)>>
  IN  [Source EXCEPT !.features = [k \in DOMAIN objects |-> FeatureOf(k, k :> objects[k])]]

RecipesDef == {[preset |-> p, bloom |-> b, json |-> FALSE] : p \in {"cityparquet", "parquet-defaults"}, b \in BOOLEAN}
WindowsDef ==
  {[lo |-> <<x, 0, 0>>, hi |-> <<x + w, 1, 1>>] : x \in {0, 3, 6, 12}, w \in {0, 3}}

\* A material, or a texture, that has no place in its sidecar.
Defined(materials, textures) ==
  [Source EXCEPT !.features = <<[FeatureOf(1, 1 :> [Object EXCEPT !.geometries =
     <<[Plainly("MultiSurface", <<2>>, Flat(<<Sheet(<<1, 2, 3>>)>>))
        EXCEPT !.material = IF materials = <<>> THEN Nothing ELSE 1 :> [value |-> Some(1), values |-> None],
               !.texture = IF textures = <<>> THEN Nothing
                           ELSE 1 :> Some(<<<<<<<<Some([texture |-> 1, uvs |-> <<1, 2, 3>>])>>>>>>>>)]>>])
     EXCEPT !.materials = materials, !.textures = textures, !.uvs = <<<<0, 0>>, <<1, 0>>, <<1, 1>>>>]>>]

Refusals == {
  Defined(<<Definition("diffuseColor" :> Colour(<<0, 0, 0, 50>>))>>, <<>>),
  Defined(<<Definition("shininess" :> Str("much"))>>, <<>>),
  Defined(<<>>, <<Definition("image" :> Str("a") @@ "wrapMode" :> Str("twice"))>>),
  Defined(<<>>, <<Definition("type" :> Str("PNG"))>>),
  Source,
  [Source EXCEPT !.features = <<FeatureOf(1, 1 :> [Object EXCEPT !.geometries =
                     <<Plainly("MultiSurface", <<2>>, Flat(<<Sheet(<<1, 2, 9>>)>>))>>])>>],
  [Source EXCEPT !.features = <<FeatureOf(1, 1 :> [Object EXCEPT !.type = PlusName(<<"Shed">>)])>>],
  [Source EXCEPT !.exts = {OwnBuilding},
                 !.features = <<FeatureOf(1, 1 :> [Object EXCEPT !.type = PlusName(<<"Shed">>)]),
                                FeatureOf(2, 2 :> [Object EXCEPT !.type = PlusName(<<"Shed">>)]),
                                FeatureOf(3, 3 :> Object)>>],
  [Source EXCEPT !.features = <<FeatureOf(1, 1 :> [Object EXCEPT !.geometries = <<[Placed EXCEPT !.matrix = "projective"]>>])>>]}

\* Features of so many rows each, the root's id the last, in Hilbert order.
Lined(sizes) ==
  [Source EXCEPT
     !.hilbert = TRUE,
     !.features = [k \in DOMAIN sizes |->
       LET root == 10 * k
       IN  FeatureOf(root, [id \in root - sizes[k] + 1 .. root |->
             IF id = root
             THEN [Object EXCEPT !.children = IF sizes[k] = 1 THEN None
                                              ELSE Some([c \in 1 .. sizes[k] - 1 |-> root - c])]
             ELSE [Object EXCEPT !.type = N("BuildingPart"), !.parents = Some(<<root>>)]])]]

SourcesDef ==
  {Rich, [Rich EXCEPT !.swap = FALSE, !.features = <<@[2], @[1]>>],
   Readings, Grouped, Torn(TRUE), Torn(FALSE), Footprints}
  \cup Refusals
  \cup {Lined(sizes) : sizes \in {<<1, 1, 1, 1, 1>>, <<2, 0, 1>>, <<1, 3>>}}

\* Packages as another program would have written them, from that of Rich.
ById(p, id, Change(_)) ==
  [p EXCEPT !.tables = [t \in DOMAIN @ |->
     [@[t] EXCEPT !.rows = [k \in DOMAIN @ |-> IF @[k].id = id THEN Change(@[k]) ELSE @[k]]]]]

InFooters(p, Change(_)) ==
  [p EXCEPT !.files = [f \in DOMAIN @ |-> IF f \in ReservedFiles THEN @[f] ELSE [@[f] EXCEPT !.city = Change(@)]]]

At22(row, Change(_)) == [row EXCEPT !.slots[<<2, 2>>] = Change(@)]

Lone(id) ==
  [id |-> id, feature |-> id, type |-> N("Building"), parents |-> None, children |-> None, roles |-> None,
   address |-> None, box |-> None, slots |-> <<>>, instance |-> None, others |-> <<>>, cells |-> <<>>]

With(p, file, Change(_)) ==
  [p EXCEPT !.tables = [t \in DOMAIN @ |-> IF @[t].file = file THEN [@[t] EXCEPT !.rows = Change(@)] ELSE @[t]]]

Unlisted(p, f) == [p EXCEPT !.item.assets = Restrict(@, DOMAIN @ \ {f})]

Unplaced(row) == [row EXCEPT !.instance = None]

EditNames ==
  {"rootLast", "apart", "another", "twice", "shells", "faces", "surfaces", "wkb", "code", "material", "template",
   "matrix", "box", "module", "member", "namespace", "sidecarIds", "twoLods", "noRoles", "unlisted", "image",
   "oneSided", "lostFile", "lostUnused", "reserved", "columns", "uv", "colour", "primary", "annotation", "undated"}

EditedDef(e, p) ==
  CASE e = "rootLast" -> With(p, "building", Reverse)
    [] e = "apart" -> With(p, "building", LAMBDA held : <<held[1], Lone(9)>> \o Tail(held))
    [] e = "another" -> With(p, "building", LAMBDA held : Append(held, Lone(9)))
    [] e = "twice" -> With(p, "building", LAMBDA held : Append(held, held[2]))
    [] e = "shells" -> ById(p, 3, LAMBDA row : At22(row, LAMBDA s : [s EXCEPT !.props.shells = Some(<<<<1, 1>>>>)]))
    [] e = "faces" -> ById(p, 3, LAMBDA row : At22(row, LAMBDA s : [s EXCEPT !.props.face_semantics = Some(<<Some(1)>>)]))
    [] e = "surfaces" -> ById(p, 3, LAMBDA row : At22(row, LAMBDA s : [s EXCEPT !.props.face_semantics = None]))
    [] e = "wkb" -> ById(p, 3, LAMBDA row : At22(row, LAMBDA s : [s EXCEPT !.wkb.members[1][1][1] = Tail(@)]))
    [] e = "code" -> ById(p, 3, LAMBDA row : At22(row, LAMBDA s : [s EXCEPT !.wkb.code = "MultiPolygon"]))
    [] e = "material" -> [p EXCEPT !.materials = Tail(@)]
    [] e = "template" -> ById(p, 5, LAMBDA row : [row EXCEPT !.instance[1].template = 7])
    [] e = "matrix" -> ById(p, 5, LAMBDA row : [row EXCEPT !.instance[1].matrix = "projective"])
    [] e = "box" -> ById(p, 1, LAMBDA row : [row EXCEPT !.box[1].hi = row.box[1].lo])
    [] e = "module" -> ById(p, 5, LAMBDA row : [row EXCEPT !.type = N("Building")])
    [] e = "member" -> ById(p, 3, LAMBDA row : [row EXCEPT !.others = N("note") :> Is("string", 13)])
    [] e = "namespace" -> InFooters(p, LAMBDA city : [city EXCEPT !.exts = {}])
    [] e = "sidecarIds" -> [p EXCEPT !.materials[2].id = p.materials[1].id]
    [] e = "twoLods" -> [p EXCEPT !.templates[1].slots = (<<2, 0>> :> p.templates[1].slots[<<1, 0>>]) @@ @]
    [] e = "noRoles" -> [p EXCEPT !.item.assets = [f \in DOMAIN @ |-> {"data"}]]
    [] e = "unlisted" -> Unlisted(Unlisted(p, "materials"), "textures")
    [] e = "image" -> [p EXCEPT !.textures[1].cells = "image_data" :> Json("json", 0)]
    [] e = "oneSided" -> ById(p, 1, LAMBDA row : [row EXCEPT !.children = Some(<<3>>)])
    [] e = "lostFile" -> [p EXCEPT !.files = Restrict(@, DOMAIN @ \ {"implicit_geometries"}), !.templates = <<>>]
    [] e = "lostUnused" -> [ById(ById(p, 2, Unplaced), 5, Unplaced)
                            EXCEPT !.files = Restrict(@, DOMAIN @ \ {"implicit_geometries"}), !.templates = <<>>]
    [] e = "reserved" -> InFooters(ById(p, 3, LAMBDA row : [row EXCEPT !.cells = (N("id") :> Some(Is("int", 1))) @@ @]),
                                   LAMBDA city : [city EXCEPT !.attributes = (N("id") :> "Int64") @@ @])
    [] e = "columns" -> [p EXCEPT !.files["building"].columns = Reverse(@)]
    [] e = "uv" -> ById(p, 1, LAMBDA row : [row EXCEPT !.slots[<<1, 0>>].texture[1][1][1] = Some([id |-> 1, uv |-> <<<<0, 0>>>>])])
    [] e = "colour" -> [p EXCEPT !.materials[1].cells = "diffuseColor" :> Colour(<<0, 0>>)]
    [] e = "primary" -> InFooters(p, LAMBDA city : [city EXCEPT !.primary = None, !.columns = <<>>])
    [] e = "annotation" -> InFooters(p, LAMBDA city : [city EXCEPT !.geo = {}, !.geoPrimary = None])
    [] e = "undated" -> [p EXCEPT !.item.dated = FALSE, !.item.extensions = {}]

EditsDef(s) == IF s = Rich THEN EditNames ELSE {}

GroupSources == {MembersInside}
-----------------------------------------------------------------------------
(* Properties of the check *)

\* A child whose declared extent its parent's box does not cover: the writer
\* joins the geometry below an object, not the extents.
KnownInvalid ==
  IF \E o \in Objects(src) : ObjectAt(src, o).extent # None THEN {<<"error", "value.bbox-subtree">>} ELSE {}

\* The writer keeps to the specification: the check finds no error in any
\* package that was written, but the known one.  Both read the same
\* specification apart from each other, so an error is one of them going wrong.
WrittenIsValid == stage = "written" /\ pkg.own => ~HasErrors(Problems(Package) \ KnownInvalid)

\* What is known to be valid and not exported.
KnownUnread ==
  \/ {<<"warning", "stac.file-not-an-asset">>, <<"warning", "stac.asset-missing-file">>} \cap Problems(Package) # {}
  \/ \E k \in DOMAIN pkg.textures : "image_data" \in DOMAIN pkg.textures[k].cells
  \/ LET all == ToSet(AllRows(Package))
     IN  \E child, parent \in all : parent.id \in Listed(child.parents) /\ child.id \notin Listed(parent.children)

\* No export fails on a package the check has passed, whoever wrote it: what
\* the export cannot read, the check has reported.  Three things are known to
\* be valid and not exported: an Item that does not list the files there are,
\* of which it warns, an image inside a row, and a child in another table that
\* its parent does not list.  None of them is in a package the writer wrote.
ValidReads ==
  stage = "exportRefused" => ~pkg.own /\ (HasErrors(Problems(Package) \ KnownInvalid) \/ KnownUnread)
=============================================================================
