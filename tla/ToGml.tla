-------------------------------- MODULE ToGml --------------------------------
(***************************************************************************)
(* A CityJSON feature as CityGML objects                                   *)
(* (lib/citygml-rs/crates/core/src/convert/cjseq/to_gml.rs).               *)
(*                                                                         *)
(* A feature is [id, objects, vertices, materials, textures, uvs], objects *)
(* by id, ids numbers; an object [type, parents, children, roles,          *)
(* attributes, geometries, addresses, extent].  A name is [plus, word], of *)
(* an extension if plus; attributes are a sequence of [name, value] in the *)
(* order of their names, a value [kind, val].  Of the kinds "null",        *)
(* "bool", "int", "float", "list", "map" and those of texts, val is the    *)
(* value, a sequence, or such attributes; of a geometry, solids, material  *)
(* and texture are as in FaceLists and Appearances, and semantics an       *)
(* optional [surfaces, values], a surface [type, parent, attributes].      *)
(*                                                                         *)
(* A context is [index, exts, lods, scale, translate]; an extension [name, *)
(* xmlns, classes, bases, surfaces, attributes], attributes a set of       *)
(* <<type, word>>, bases the definition each class specialises.            *)
(***************************************************************************)
EXTENDS GmlClasses, Functions

CONSTANTS
  XmlName,  \* XmlName[id]: the gml:id of an id that is not an XML name
  MaxDepth  \* how deep objects nest in a feature, and JSON in an attribute

ASSUME MaxDepthAssumption == MaxDepth \in Nat \ {0}

Nesting == INSTANCE FaceLists

\* gml:ids: of an object, and those made up by the conversion, which are
\* named here by the place of what they name rather than by a count.
IdOf(id) == <<"id", 0, id, 0, 0>>
Ncname(id) == IF id \in DOMAIN XmlName THEN XmlName[id] ELSE IdOf(id)
PolygonId(place, k) == <<"p", place[1], place[2], place[3], k>>
RingId(place, n) == <<"r", place[1], place[2], place[3], n>>
TemplateId(t) == <<"t", t, 0, 0, 0>>

Listing(ids) == IF ids = None THEN <<>> ELSE ids[1]

Group == Plain("CityObjectGroup")
IsGroup(f, id) == f.objects[id].type = Group
-----------------------------------------------------------------------------
(* Who is written inside whom *)

Lists(f, parent, id) == id \in ToSet(Listing(f.objects[parent].children))

Candidates(f, id) ==
  SelectSeq(Listing(f.objects[id].parents), LAMBDA p : p # id /\ p \in DOMAIN f.objects)

\* A parent that lists the object: one that is not a group if there is one,
\* else a group.
StructuralParent(f, id) ==
  LET listing == SelectSeq(Candidates(f, id), LAMBDA p : Lists(f, p, id))
      proper == SelectSeq(listing, LAMBDA p : ~IsGroup(f, p))
  IN  IF proper # <<>> THEN Some(proper[1]) ELSE IF listing # <<>> THEN Some(listing[1]) ELSE None

Unconfirmed(f) ==
  {id \in DOMAIN f.objects : /\ StructuralParent(f, id) = None
                             /\ \E p \in ToSet(Candidates(f, id)) : ~IsGroup(f, p)}

\* The feature's own object, then the others without a parent.
Roots(f) ==
  SelectSeq(<<f.id>>, LAMBDA id : id \in DOMAIN f.objects)
  \o SetToSortSeq({id \in DOMAIN f.objects : id # f.id /\ StructuralParent(f, id) = None}, <)

\* The children written inside an object.
Inner(f, id) == SelectSeq(Listing(f.objects[id].children),
                          LAMBDA c : c \in DOMAIN f.objects /\ StructuralParent(f, c) = Some(id))
-----------------------------------------------------------------------------
(* Extensions *)

\* The extension of a name: the first that declares it, or the only one.
OwnerOf(exts, declaring) ==
  IF declaring # <<>> THEN Some(declaring[1]) ELSE IF Len(exts) = 1 THEN Some(exts[1]) ELSE None

ClassOwner(exts, word) == OwnerOf(exts, SelectSeq(exts, LAMBDA e : word \in e.classes))
SurfaceOwner(exts, word) == OwnerOf(exts, SelectSeq(exts, LAMBDA e : word \in e.surfaces))

\* An attribute is looked for under its object's type first.
AttributeOwner(exts, type, word) ==
  LET typed == SelectSeq(exts, LAMBDA e : <<type, word>> \in e.attributes)
  IN  OwnerOf(exts, IF typed # <<>> THEN typed
                    ELSE SelectSeq(exts, LAMBDA e : \E pair \in e.attributes : pair[2] = word))

\* The namespace of a "+" name: none if it has no owner, or that no namespace.
Spaced(owner) == owner # None /\ owner[1].xmlns

\* The CityJSON type an extension's class specialises.
BaseType(exts, word) ==
  LET declaring == SelectSeq(exts, LAMBDA e : word \in DOMAIN e.bases)
      base == declaring[1].bases[word]
  IN  IF declaring = <<>> \/ base \in {"_AbstractCityObject", "_AbstractSurface"} THEN None
      ELSE Some(CASE base = "_AbstractBuilding" -> "Building"
                  [] base = "_AbstractTransportationComplex" -> "Road"
                  [] OTHER -> base)
-----------------------------------------------------------------------------
(* Classes *)

ValueOf(attributes, name) == SelectSeq(attributes, LAMBDA a : a.name = name)

Inside(co) ==
  LET found == ValueOf(co.attributes, Plain("relationToConstruction"))
  IN  found # <<>> /\ found[1].value = [kind |-> "word", val |-> "inside"]

\* The class of an object; none if this version of CityGML has none.
ClassOfObject(exts, co) ==
  IF co.type.plus
  THEN Some([name |-> QName(ClassOwner(exts, co.type.word)[1].name, co.type.word), implied |-> {}])
  ELSE ClassFor(co.type.word, Inside(co))

HasClass(exts, f, id) == ClassOfObject(exts, f.objects[id]) # None

\* The class whose properties and surfaces the object has: its own, or that an
\* extension's class specialises.
ContentClass(exts, type, class) ==
  IF ~type.plus THEN Some(class)
  ELSE LET base == BaseType(exts, type.word)
           known == IF base = None THEN None ELSE ClassFor(base[1], FALSE)
       IN  IF known = None THEN None ELSE Some(known[1].name)
-----------------------------------------------------------------------------
(* Attributes: [kind, ns, name, value, ...] with what the conversion notes  *)

Written(values, notes) == [values |-> values, notes |-> notes]

\* A scalar as a value of a property's kind; none if it does not fit.
FitScalar(kind, v) ==
  CASE kind = "Text" /\ v.kind \in TextKinds -> Some(v)
    [] kind = "Text" /\ v.kind \in {"int", "float"} -> Some(Valued("string", v.val))
    [] kind = "Date" /\ v.kind \in {"date", "midnight"} -> Some(Valued("date", v.val))
    [] kind = "DateTime" /\ v.kind \in {"date", "midnight"} -> Some(Valued("midnight", v.val))
    [] kind = "DateTime" /\ v.kind = "instant" -> Some(v)
    [] kind = "Year" /\ v.kind = "year" -> Some(v)
    [] kind = "Year" /\ v.kind = "int" /\ v.val >= 0 -> Some(Valued("year", v.val))
    [] kind = "Integer" /\ v.kind = "int" -> Some(v)
    [] kind = "Count" /\ v.kind = "int" /\ v.val >= 0 -> Some(v)
    [] kind = "Number" /\ v.kind \in {"int", "float"} -> Some(Valued("float", v.val))
    [] kind = "Boolean" /\ v.kind = "bool" -> Some(v)
    [] kind \in {"Terrain", "Water"} /\ v.kind = "word" /\ v.val \in Words(kind) -> Some(v)
    [] OTHER -> None

\* The values of a property that items give, each of which fits or not.
FitItems(p, items) ==
  LET all == [k \in DOMAIN items |-> items[k][1]]
  IN  IF \E k \in DOMAIN items : items[k] = None THEN None
      ELSE IF p.kind = "MeasureList" THEN Some(<<Valued("list", all)>>)
      ELSE IF p.many /\ items # <<>> THEN Some(all) ELSE None

\* The values of a property a JSON value gives, if it fits.
Fit(p, v) ==
  LET kind == IF p.kind = "MeasureList" /\ v.kind = "list" THEN "Number" ELSE p.kind
      items == IF v.kind = "list" THEN v.val ELSE <<v>>
      fits == [k \in DOMAIN items |-> FitScalar(kind, items[k])]
  IN  IF v.kind = "list" THEN FitItems(p, fits) ELSE IF fits[1] = None THEN None ELSE Some(fits[1])

NotFitting == "values that do not fit their property"

\* The attributes of a property a value fits or not, none with a note.
PropertyValues(p, v, fit) ==
  LET attribute(value) == [kind |-> "property", ns |-> p.ns, name |-> Plain(p.name), value |-> value]
  IN  IF fit = None THEN Written(None, <<NotFitting>>)
      ELSE Written(Some([k \in DOMAIN fit[1] |-> attribute(fit[1][k])]),
                   IF \/ p.kind = "Date" /\ v.kind = "midnight"
                      \/ p.kind = "DateTime" /\ v.kind = "date"
                   THEN <<"dates and their midnight">> ELSE <<>>)

\* The same, of a name that may have no property.
Fitted(property, v) ==
  IF property = None THEN Written(None, <<>>) ELSE PropertyValues(property[1], v, Fit(property[1], v))

RECURSIVE Generic(_, _)
\* A generic attribute for everything else: a list is one for each of its
\* items, an object a set.
Generic(name, v) ==
  LET one(value) == <<[kind |-> "generic", ns |-> "Generics", name |-> name, value |-> value]>>
      item(i) == IF i.kind = "list" THEN Written(<<>>, <<"arrays of arrays">>) ELSE Generic(name, i)
      all(items) == Written(FlattenSeq([k \in DOMAIN items |-> items[k].values]),
                            FlattenSeq([k \in DOMAIN items |-> items[k].notes]))
      set(members) == Written(one(Valued("set", members.values)), members.notes)
  IN  CASE v.kind = "null" -> Written(<<>>, <<"null">>)
        [] v.kind = "list" -> all([k \in DOMAIN v.val |-> item(v.val[k])])
        [] v.kind = "map" -> set(all([k \in DOMAIN v.val |-> Generic(v.val[k].name, v.val[k].value)]))
        [] OTHER -> Written(one(v), <<>>)

RECURSIVE XmlNodes(_, _)
\* The elements of an extension's own attribute: a list repeats the element,
\* the members of an object are its children.
XmlNodes(class, v) ==
  LET node(text, children) == <<[class |-> class, text |-> text, children |-> children]>>
  IN  CASE v.kind = "null" -> <<>>
        [] v.kind = "list" -> FlattenSeq([k \in DOMAIN v.val |-> XmlNodes(class, v.val[k])])
        [] v.kind = "map" ->
             node(None, FlattenSeq([k \in DOMAIN v.val |->
               XmlNodes(QName(class.ns, v.val[k].name.word), v.val[k].value)]))
        [] OTHER -> node(Some(v), <<>>)

\* One attribute of an object: a property that fits, an element of an
\* extension, or a generic attribute.
AttributeOf(exts, co, class, a, fitted) ==
  LET put(attributes, ade, notes) == [attributes |-> attributes, ade |-> ade, notes |-> notes]
      generic(one) == put(one.values, <<>>, fitted.notes \o one.notes)
  IN  IF ~a.name.plus /\ a.name.word \in class.implied THEN put(<<>>, <<>>, <<>>)
      ELSE IF a.value.kind = "null" THEN put(<<>>, <<>>, <<"null">>)
      ELSE IF a.name.plus
      THEN put(<<>>, XmlNodes(QName(AttributeOwner(exts, co.type, a.name.word)[1].name, a.name.word), a.value), <<>>)
      ELSE IF fitted.values # None THEN put(fitted.values[1], <<>>, fitted.notes)
      ELSE IF co.type.plus THEN put(<<>>, XmlNodes(QName(class.name.ns, a.name.word), a.value), fitted.notes)
      ELSE generic(Generic(a.name, a.value))

SurfaceAttribute(a, fitted) ==
  LET generic(one) == Written(one.values, fitted.notes \o one.notes)
  IN  IF a.value.kind = "null" THEN Written(<<>>, <<"null">>)
      ELSE IF a.name.plus THEN Written(<<>>, <<"extension attributes of surfaces">>)
      ELSE IF fitted.values # None THEN Written(fitted.values[1], fitted.notes)
      ELSE generic(Generic(a.name, a.value))
-----------------------------------------------------------------------------
(* Geometries: [lod, type, solids], solids of shells of faces              *)
(* [rings, id, ringIds, reversed, surface, groups]                         *)

PointAt(cx, f, index) == [k \in 1 .. 3 |-> f.vertices[index][k] * cx.scale + cx.translate[k]]

\* A face has an id if anything may refer to it.
Identified(g) == g.semantics # None \/ DOMAIN g.material # {} \/ DOMAIN g.texture # {}

FaceCount(g) == Len(FlatFaces(g.solids))

\* The surfaces of a geometry that have a class here, each with its place.
SurfaceClass(cx, type, owner) ==
  IF type.plus THEN LET ext == SurfaceOwner(cx.exts, type.word)
                    IN  IF Spaced(ext) THEN Some(QName(ext[1].name, type.word)) ELSE None
  ELSE SurfaceFor(type.word, owner)

\* Those surfaces, and what is noted of all.
Bounded(class, place, surfaces) ==
  LET lost == SelectSeq(class, LAMBDA c : c = None)
  IN  [place |-> place,
       surfaces |-> [n \in DOMAIN surfaces |-> [surfaces[n] EXCEPT !.attributes = FlattenSeq([i \in DOMAIN @ |-> @[i].values])]],
       notes |-> [k \in DOMAIN lost |-> "semantic surfaces without a class"]
                 \o FlattenSeq([n \in DOMAIN surfaces |->
                      FlattenSeq([i \in DOMAIN surfaces[n].attributes |-> surfaces[n].attributes[i].notes])])]

\* The attributes of a surface of a class.
SurfaceAttributes(attributes, class) ==
  [i \in DOMAIN attributes |->
     SurfaceAttribute(attributes[i], Fitted(PropertyFor(class, attributes[i].name.word), attributes[i].value))]

\* The surfaces declared, `class` giving the class of each.
GmlSurfaces(declared, class, before) ==
  LET kept == SelectSeq([k \in DOMAIN declared |-> k], LAMBDA k : class[k] # None)
      place == [k \in DOMAIN declared |->
                  IF class[k] = None THEN None
                  ELSE Some(before + (CHOOSE n \in DOMAIN kept : kept[n] = k))]
      surface(k, attributes) ==
        [class |-> class[k][1],
         parent |-> IF declared[k].parent = None THEN None ELSE place[declared[k].parent[1]],
         attributes |-> attributes]
  IN  Bounded(class, place, [n \in DOMAIN kept |->
        surface(kept[n], SurfaceAttributes(declared[kept[n]].attributes, class[kept[n]][1]))])

\* Values one after the other, as they are listed; a list that is null has one
\* null for each face of its solid or shell, if the geometry has that.
FlatValues(solids, values) ==
  LET nulls(faces) == [k \in DOMAIN faces |-> None]
      kth(seq, k) == IF k \in DOMAIN seq THEN seq[k] ELSE <<>>
      shell(opt, faces) == IF opt = None THEN nulls(faces) ELSE opt[1]
      solid(opt, shells) == IF opt = None THEN nulls(FlattenSeq(shells))
                            ELSE FlattenSeq([j \in DOMAIN opt[1] |-> shell(opt[1][j], kth(shells, j))])
  IN  IF values = None THEN nulls(FlatFaces(solids))
      ELSE FlattenSeq([i \in DOMAIN values[1] |-> solid(values[1][i], kth(solids, i))])

\* The material of each face: one for all, or one each.
MaterialOf(g, theme) ==
  IF g.material[theme].value # None THEN [k \in 1 .. FaceCount(g) |-> g.material[theme].value]
  ELSE IF g.material[theme].values = None THEN [k \in 1 .. FaceCount(g) |-> None]
  ELSE FlatValues(g.solids, g.material[theme].values[1])

\* The texture of each ring of each face; none for a theme without values.
TextureOf(g, theme) ==
  IF g.texture[theme] = None THEN [k \in 1 .. FaceCount(g) |-> <<>>]
  ELSE FlattenSeq(FlattenSeq(g.texture[theme][1]))

ThemesOf(map) == SetToSortSeq(DOMAIN map, <)

\* The rings that are given an id, in the order they are met: <<face, ring>>.
TexturedRings(g) ==
  LET met == FlattenSeq([t \in DOMAIN ThemesOf(g.texture) |->
               LET of == TextureOf(g, ThemesOf(g.texture)[t])
               IN  FlattenSeq([k \in DOMAIN of |->
                     LET rings == SelectSeq([r \in DOMAIN of[k] |-> r], LAMBDA r : of[k][r] # None)
                     IN  [n \in DOMAIN rings |-> <<k, rings[n]>>]])])
  IN  FoldLeft(LAMBDA seen, ring : IF Contains(seen, ring) THEN seen ELSE Append(seen, ring), <<>>, met)

\* The points of a geometry's indices.  A template has real coordinates, so
\* its context has no transform.
Placed(cx, f, g) ==
  LET ring(r) == [n \in DOMAIN r |-> PointAt(cx, f, r[n])]
      face(s) == [r \in DOMAIN s |-> ring(s[r])]
      shell(h) == [k \in DOMAIN h |-> face(h[k])]
      solid(d) == [j \in DOMAIN d |-> shell(d[j])]
  IN  [i \in DOMAIN g.solids |-> solid(g.solids[i])]

\* The surface declared for each face.
DeclaredOf(g) ==
  IF g.semantics = None \/ g.semantics[1].values = None THEN [k \in 1 .. FaceCount(g) |-> None]
  ELSE FlatValues(g.solids, g.semantics[1].values[1])

\* The surface of each face: its class's place among the object's.
SurfaceOf(g, place) ==
  LET flat == DeclaredOf(g)
  IN  [k \in DOMAIN flat |-> IF flat[k] # None /\ flat[k][1] \in DOMAIN place THEN place[flat[k][1]] ELSE None]

\* The semantic surfaces of a geometry.
SemanticOf(cx, g, owner, before) ==
  LET declared == IF g.semantics = None THEN <<>> ELSE g.semantics[1].surfaces
      without(notes) == [place |-> <<>>, surfaces |-> <<>>, notes |-> notes]
  IN  IF g.semantics = None THEN without(<<>>)
      ELSE IF g.type \in Nesting!Pointlike THEN without(<<"semantic surfaces of points and lines">>)
      ELSE IF owner = None THEN without([k \in DOMAIN declared |-> "semantic surfaces without a class"])
      ELSE GmlSurfaces(declared, [k \in DOMAIN declared |-> SurfaceClass(cx, declared[k].type, owner[1])], before)

\* One geometry at its place <<index, id, number>>, its faces with the ids and
\* the surfaces they have, its semantic surfaces after those the object has
\* already.
FacesWith(g, place, flat, textured, surface) ==
  LET ringId(k, r) == IF Contains(textured, <<k, r>>)
                      THEN Some(RingId(place, CHOOSE n \in DOMAIN textured : textured[n] = <<k, r>>)) ELSE None
      face(rings, k) ==
        [rings |-> rings,
         id |-> IF Identified(g) THEN Some(PolygonId(place, k)) ELSE None,
         ringIds |-> [r \in DOMAIN rings |-> ringId(k, r)],
         reversed |-> FALSE, surface |-> surface[k], groups |-> <<>>]
  IN  [k \in DOMAIN flat |-> face(flat[k], k)]

GeometryWith(cx, g, place, points, semantic) ==
  [geometry |->
     [lod |-> IF g.placed # None THEN cx.lods[g.placed[1][1]] ELSE g.lod,
      type |-> g.type, placed |-> g.placed,
      solids |-> Refaced(points, FacesWith(g, place, FlatFaces(points), TexturedRings(g), SurfaceOf(g, semantic.place)))],
   surfaces |-> semantic.surfaces,
   notes |-> semantic.notes]

GeometryOf(cx, f, g, place, owner, before) ==
  GeometryWith(cx, g, place, Placed(cx, f, g), SemanticOf(cx, g, owner, before))
-----------------------------------------------------------------------------
(* Appearance: an entry for each theme and palette index, in palette order *)

\* What a geometry colours: <<theme, index, polygon>>.
Coloured(g, place) ==
  LET one(t) == LET of == MaterialOf(g, t)
                IN  FlattenSeq([k \in DOMAIN of |->
                      IF of[k] = None THEN <<>> ELSE <<[theme |-> t, index |-> of[k][1], of |-> PolygonId(place, k)]>>])
  IN  FlattenSeq([t \in DOMAIN ThemesOf(g.material) |-> one(ThemesOf(g.material)[t])])

\* What a theme textures: <<theme, index, ring and its coordinates>>.
TexturedIn(f, theme, cells, place, rings) ==
  LET ring(cell, k, r) ==
        IF cell = None THEN <<>>
        ELSE <<[theme |-> theme, index |-> cell[1].texture,
                of |-> [ring |-> RingId(place, CHOOSE n \in DOMAIN rings : rings[n] = <<k, r>>),
                        uvs |-> [n \in DOMAIN cell[1].uvs |-> f.uvs[cell[1].uvs[n]]]]]>>
  IN  FlattenSeq([k \in DOMAIN cells |-> FlattenSeq([r \in DOMAIN cells[k] |-> ring(cells[k][r], k, r)])])

Textured(f, g, place) ==
  LET themes == ThemesOf(g.texture)
  IN  FlattenSeq([t \in DOMAIN themes |-> TexturedIn(f, themes[t], TextureOf(g, themes[t]), place, TexturedRings(g))])

\* One entry for each theme and index, in the order of the indices.
Entries(palette, uses) ==
  LET met == FoldLeft(LAMBDA seen, u : IF Contains(seen, <<u.theme, u.index>>) THEN seen
                                       ELSE Append(seen, <<u.theme, u.index>>), <<>>, uses)
      order == SetToSortSeq(DOMAIN met, LAMBDA a, b : \/ met[a][2] < met[b][2]
                                                      \/ met[a][2] = met[b][2] /\ a < b)
      entry(key) ==
        LET mine == SelectSeq(uses, LAMBDA u : <<u.theme, u.index>> = key)
        IN  [theme |-> key[1], definition |-> palette[key[2]], of |-> [n \in DOMAIN mine |-> mine[n].of]]
  IN  [n \in DOMAIN order |-> entry(met[order[n]])]

AppearanceOf(f, geometries, place) ==
  [materials |-> Entries(f.materials, FlattenSeq([n \in DOMAIN geometries |-> Coloured(geometries[n], Append(place, n))])),
   textures |-> Entries(f.textures, FlattenSeq([n \in DOMAIN geometries |-> Textured(f, geometries[n], Append(place, n))]))]
-----------------------------------------------------------------------------
(* Objects *)

\* The groups that refer to the object, after the parent it is inside.
GroupsOf(f, id) ==
  LET others == SelectSeq(Listing(f.objects[id].parents),
                          LAMBDA p : /\ StructuralParent(f, id) # Some(p)
                                     /\ p \in DOMAIN f.objects => IsGroup(f, p))
  IN  [n \in DOMAIN others |-> Ncname(others[n])]

\* An address: its postal members, and the points it is at.
AddressOf(cx, f, a) == [postal |-> a.postal, location |-> [n \in DOMAIN a.location |-> PointAt(cx, f, a.location[n])]]

\* Attributes and geometries put together.
AllContent(cx, f, id, class, attribute, geometry) ==
  LET co == f.objects[id]
  IN  [object |->
         [id |-> Some(Ncname(id)), class |-> class.name,
          attributes |-> FlattenSeq([k \in DOMAIN attribute |-> attribute[k].attributes]),
          ade |-> FlattenSeq([k \in DOMAIN attribute |-> attribute[k].ade]),
          addresses |-> [k \in DOMAIN co.addresses |-> AddressOf(cx, f, co.addresses[k])],
          extent |-> co.extent, geometries |-> geometry.geometries, surfaces |-> geometry.surfaces,
          appearance |-> AppearanceOf(f, co.geometries, <<cx.index, id>>),
          groups |-> GroupsOf(f, id)],
       notes |-> (IF id \in DOMAIN XmlName THEN <<"ids that are not XML names">> ELSE <<>>)
                 \o FlattenSeq([k \in DOMAIN attribute |-> attribute[k].notes]) \o geometry.notes]

\* An object's own content, before its children.
OwnAttributes(exts, co, class, owner) ==
  [k \in DOMAIN co.attributes |->
     AttributeOf(exts, co, class, co.attributes[k],
                 Fitted(PropertyFor(owner, co.attributes[k].name.word), co.attributes[k].value))]

OwnGeometries(cx, f, id, owner) ==
  LET put(done, one) == [geometries |-> Append(done.geometries, one.geometry),
                         surfaces |-> done.surfaces \o one.surfaces, notes |-> done.notes \o one.notes]
  IN  FoldLeft(LAMBDA done, g : put(done, GeometryOf(cx, f, g, <<cx.index, id, Len(done.geometries) + 1>>,
                                                     Some(owner), Len(done.surfaces))),
               [geometries |-> <<>>, surfaces |-> <<>>, notes |-> <<>>], f.objects[id].geometries)

\* The class that the properties and surfaces of an object are looked up in.
OwnerClass(content, class) == IF content = None THEN class.name ELSE content[1]

OwnContent(cx, f, id, class) ==
  LET co == f.objects[id]
      owner == OwnerClass(ContentClass(cx.exts, co.type, class.name), class)
  IN  AllContent(cx, f, id, class, OwnAttributes(cx.exts, co, class, owner), OwnGeometries(cx, f, id, owner))

\* Each child's objects, in the order of the children, and whether they are
\* the child itself.
Landed(built, c) == Len(FlattenSeq([n \in 1 .. c - 1 |-> built[n].objects]))

\* A group's members: the children it holds, those of a child without a class
\* in its place, and the others by their ids.
MembersOf(f, id, inner, built) ==
  LET children == Listing(f.objects[id].children)
      roles == f.objects[id].roles
      role(i) == IF i \in DOMAIN roles THEN roles[i] ELSE None
      member(i) ==
        LET c == CHOOSE n \in DOMAIN inner : inner[n] = children[i]
        IN  IF ~Contains(inner, children[i])
            THEN <<[child |-> None, id |-> Some(Ncname(children[i])), role |-> role(i)]>>
            ELSE [n \in DOMAIN built[c].objects |->
                   [child |-> Some(Landed(built, c) + n), id |-> None, role |-> role(i)]]
  IN  FlattenSeq([i \in DOMAIN children |-> member(i)])

\* What the object's links to its children lose.
LinkNotes(f, id, inner, built) ==
  LET children == Listing(f.objects[id].children)
  IN  IF IsGroup(f, id)
      THEN FlattenSeq([c \in DOMAIN inner |->
             IF built[c].own THEN <<>> ELSE <<"group members that have no class here">>])
      ELSE FlattenSeq([i \in DOMAIN children |->
             IF children[i] \in DOMAIN f.objects /\ ~Contains(inner, children[i])
             THEN <<"links to children another parent in their feature holds">> ELSE <<>>])

\* An object of its own content, with the children inside it.
Whole(f, id, inner, built, own) ==
  [objects |-> <<[children |-> FlattenSeq([c \in DOMAIN built |-> built[c].objects]),
                  members |-> IF IsGroup(f, id) THEN MembersOf(f, id, inner, built) ELSE <<>>] @@ own.object>>,
   own |-> TRUE,
   notes |-> FlattenSeq([c \in DOMAIN built |-> built[c].notes]) \o own.notes \o LinkNotes(f, id, inner, built)]

\* The same, or its children alone if it has no class.
Converted(cx, f, id, class, inner, built) ==
  IF class # None THEN Whole(f, id, inner, built, OwnContent(cx, f, id, class[1]))
  ELSE [objects |-> FlattenSeq([c \in DOMAIN built |-> built[c].objects]), own |-> FALSE,
        notes |-> <<"objects without a class">> \o FlattenSeq([c \in DOMAIN built |-> built[c].notes])]

RECURSIVE ObjectOf(_, _, _)
\* An object with what is inside it.
ObjectOf(cx, f, id) ==
  LET inner == Inner(f, id)
  IN  Converted(cx, f, id, ClassOfObject(cx.exts, f.objects[id]), inner, [c \in DOMAIN inner |-> ObjectOf(cx, f, inner[c])])

ToGml(cx, f) ==
  LET unconfirmed == SetToSortSeq(Unconfirmed(f), <)
      of(built) ==
        [objects |-> FlattenSeq([n \in DOMAIN built |-> built[n].objects]),
         notes |-> [n \in DOMAIN unconfirmed |-> "parent links their parent does not list"]
                   \o FlattenSeq([n \in DOMAIN built |-> built[n].notes])]
  IN  of([n \in DOMAIN Roots(f) |-> ObjectOf(cx, f, Roots(f)[n])])
-----------------------------------------------------------------------------
(* What is refused *)

\* The objects converted n levels inside those without a parent.
AtDepth(f, n) ==
  FoldLeft(LAMBDA level, k : UNION {ToSet(Inner(f, id)) : id \in level}, ToSet(Roots(f)), [k \in 1 .. n |-> k])

\* An object is inside itself, or too deep in others.
TooDeep(f) == AtDepth(f, Min({MaxDepth + 1, Cardinality(DOMAIN f.objects)})) # {}

RECURSIVE Levels(_, _)
\* How deep a value's JSON is followed: a generic attribute takes no list in a
\* list.
Levels(v, generic) ==
  LET inside(values) == IF values = <<>> THEN 0 ELSE 1 + Max({Levels(values[k], generic) : k \in DOMAIN values})
  IN  CASE v.kind = "list" -> inside(SelectSeq(v.val, LAMBDA i : ~(generic /\ i.kind = "list")))
        [] v.kind = "map" -> inside([k \in DOMAIN v.val |-> v.val[k].value])
        [] OTHER -> 0

\* Every index of the geometry is one of the feature's, and its semantics and
\* each theme have a value for each face.
Resolves(cx, f, g) ==
  LET faces == FlatFaces(g.solids)
      materials == UNION {ToSet(MaterialOf(g, t)) : t \in DOMAIN g.material}
      rings(t) == UNION {{<<k, r>> : r \in DOMAIN TextureOf(g, t)[k]} : k \in DOMAIN TextureOf(g, t)}
      fits(t, k, r) ==
        LET cell == TextureOf(g, t)[k][r]
        IN  cell # None => /\ r \in DOMAIN faces[k] /\ Len(cell[1].uvs) = Len(faces[k][r])
                           /\ ToSet(cell[1].uvs) \subseteq DOMAIN f.uvs
                           /\ cell[1].texture \in DOMAIN f.textures
      tagged == g.semantics # None /\ g.type \notin Nesting!Pointlike
  IN  /\ \A k \in DOMAIN faces : faces[k] # <<>> /\ \A r \in DOMAIN faces[k] : ToSet(faces[k][r]) \subseteq DOMAIN f.vertices
      /\ g.placed # None => g.placed[1][1] \in DOMAIN cx.lods
      /\ tagged => Len(DeclaredOf(g)) = Len(faces)
      /\ \A t \in DOMAIN g.material : Len(MaterialOf(g, t)) = Len(faces)
      /\ \A m \in materials : m # None => m[1] \in DOMAIN f.materials
      /\ \A t \in DOMAIN g.texture : /\ Len(TextureOf(g, t)) = Len(faces)
                                     /\ \A ring \in rings(t) : fits(t, ring[1], ring[2])

\* A "+" name has a namespace, and no value nests too deep.
AttributeConverts(exts, co, class, a) ==
  \/ ~a.name.plus /\ a.name.word \in class.implied
  \/ a.value.kind = "null"
  \/ /\ a.name.plus => Spaced(AttributeOwner(exts, co.type, a.name.word))
     /\ Levels(a.value, ~a.name.plus /\ ~co.type.plus) <= MaxDepth

\* The same of the surfaces that have a class.
SurfacesConvert(cx, g, owner) ==
  g.semantics # None /\ g.type \notin Nesting!Pointlike =>
    LET declared == g.semantics[1].surfaces
        nests(a) == ~a.name.plus => Levels(a.value, TRUE) <= MaxDepth
    IN  \A k \in DOMAIN declared :
          SurfaceClass(cx, declared[k].type, owner) # None => \A i \in DOMAIN declared[k].attributes : nests(declared[k].attributes[i])

\* What an object of a class has of its own.
ContentConverts(cx, f, co, class) ==
  LET owner == OwnerClass(ContentClass(cx.exts, co.type, class.name), class)
  IN  /\ \A k \in DOMAIN co.attributes : AttributeConverts(cx.exts, co, class, co.attributes[k])
      /\ \A n \in DOMAIN co.addresses : ToSet(co.addresses[n].location) \subseteq DOMAIN f.vertices
      /\ \A n \in DOMAIN co.geometries : Resolves(cx, f, co.geometries[n]) /\ SurfacesConvert(cx, co.geometries[n], owner)

\* Objects that are inside each other, and not in the feature's own, are never
\* come to.
Converts(cx, f) ==
  /\ ~TooDeep(f)
  /\ \A id \in UNION {AtDepth(f, n) : n \in 0 .. MaxDepth} :
       LET co == f.objects[id]
           class == ClassOfObject(cx.exts, co)
       IN  /\ co.type.plus => Spaced(ClassOwner(cx.exts, co.type.word))
           /\ class # None => ContentConverts(cx, f, co, class[1])
-----------------------------------------------------------------------------
(* The geometry templates of a document: its header's [templates,          *)
(* vertices, materials, textures, uvs]                                     *)

TemplateWith(header, t, one) ==
  [id |-> Some(TemplateId(t)), geometry |-> one.geometry,
   appearance |-> AppearanceOf(header, <<header.templates[t]>>, <<0, t>>), notes |-> one.notes]

TemplatesOf(header) ==
  LET cx == [scale |-> 1, translate |-> <<0, 0, 0>>, exts |-> <<>>, lods |-> <<>>]
  IN  [t \in DOMAIN header.templates |->
         TemplateWith(header, t, GeometryOf(cx, header, header.templates[t], <<0, t, 1>>, None, 0))]

TemplateLods(header) == [t \in DOMAIN header.templates |-> header.templates[t].lod]
=============================================================================
