------------------------------- MODULE FromGml -------------------------------
(***************************************************************************)
(* A CityGML object as a CityJSON feature                                  *)
(* (lib/citygml-rs/crates/core/src/convert/cjseq/mod.rs,                   *)
(* core/src/vocabulary/classes.rs).                                        *)
(*                                                                         *)
(* An object is as GmlAssembly gives it and GmlReader completes it, a      *)
(* feature as in ToGml, its ids gml:ids, its palettes' entries and its     *)
(* vertices each once.  A context is [index, scale, translate].            *)
(*                                                                         *)
(* Left out: the Extensions a document's applications are declared as and  *)
(* what their schemas say of a text's type, XML attributes, and the names  *)
(* that address fields, materials without one and texture formats get.     *)
(***************************************************************************)
EXTENDS GmlClasses, Functions

\* Each value once, where it is first met, and the place of a value.
Pool(values) == FoldLeft(LAMBDA seen, v : IF Contains(seen, v) THEN seen ELSE Append(seen, v), <<>>, values)
IndexIn(pool, v) == CHOOSE n \in DOMAIN pool : pool[n] = v
-----------------------------------------------------------------------------
(* Names *)

\* The CityJSON types of classes that stand for no type of their own.
Collapsed ==
  {<<"Building", "IntBuildingInstallation", "BuildingInstallation">>,
   <<"Bridge", "IntBridgeInstallation", "BridgeInstallation">>,
   <<"Tunnel", "IntTunnelInstallation", "TunnelInstallation">>,
   <<"Transportation", "Track", "Road">>, <<"Transportation", "TransportationComplex", "Road">>}

CityjsonType(class) ==
  LET own == {d[3] : d \in DefsOf(Classes, class)} \ {""}
      other == {d[3] : d \in DefsOf(Collapsed, class)}
  IN  IF own \cup other = {} THEN None ELSE Some(CHOOSE t \in own \cup other : TRUE)

IsModuleClass(class) == DefsOf(Classes, class) # {}

\* A class no CityGML module has is an extension's.
TypeOf(class) == IF IsModuleClass(class) THEN Plain(CityjsonType(class)[1]) ELSE Plus(class.local)

\* The id of an object that has none: a feature's own, or by its parent's.
RootId(o, index) == IF o.id # None THEN o.id[1] ELSE <<"root", index, 0, 0, 0>>
ChildId(parent, o, c) == IF o.children[c].id # None THEN o.children[c].id[1] ELSE <<"part", parent, c, 0, 0>>

RECURSIVE Emitted(_, _, _)
\* The objects of the feature, depth first: [object, id, parent].
Emitted(o, id, parent) ==
  << [object |-> o, id |-> id, parent |-> parent] >>
  \o FlattenSeq([c \in DOMAIN o.children |-> Emitted(o.children[c], ChildId(id, o, c), Some(id))])
-----------------------------------------------------------------------------
(* Attributes *)

\* A name given again makes a list of its values.
Accumulate(map, name, value) ==
  LET held(a) == IF a.value.kind = "list" THEN Append(a.value.val, value) ELSE <<a.value, value>>
  IN  IF \E k \in DOMAIN map : map[k].name = name
      THEN [k \in DOMAIN map |-> IF map[k].name = name THEN [map[k] EXCEPT !.value = Valued("list", held(map[k]))] ELSE map[k]]
      ELSE Append(map, [name |-> name, value |-> value])

RECURSIVE AttributesOf(_)
AttributesOf(attributes) ==
  LET json(v) == IF v.kind = "set" THEN Valued("map", AttributesOf(v.val)) ELSE v
  IN  FoldLeft(LAMBDA map, a : Accumulate(map, a.name, json(a.value)), <<>>, attributes)

\* A semantic surface's own members are no attributes.
SurfaceAttributesOf(attributes) ==
  SelectSeq(AttributesOf(attributes), LAMBDA a : a.name \notin {Plain("type"), Plain("parent"), Plain("children")})

RECURSIVE XmlJson(_)
\* An application's element as JSON; none if there is nothing of it but GML.
XmlJson(node) ==
  LET key(child) == Plain(IF child.class.ns = node.class.ns THEN child.class.local ELSE child.class.ns \o ":" \o child.class.local)
      kept == SelectSeq(node.children, LAMBDA child : XmlJson(child) # None)
      map == FoldLeft(LAMBDA acc, child : Accumulate(acc, key(child), XmlJson(child)[1]), <<>>, kept)
  IN  IF node.class.ns = "Gml" THEN None
      ELSE IF node.children = <<>> THEN IF node.text = None THEN Some(Valued("map", <<>>)) ELSE node.text
      ELSE IF kept = <<>> THEN None ELSE Some(Valued("map", map))

\* An extension's own class names its own properties without a plus.
AdeName(o, node) ==
  IF ~IsModuleClass(o.class) /\ node.class.ns = o.class.ns THEN Plain(node.class.local) ELSE Plus(node.class.local)

AdeNodes(o) == SelectSeq(o.ade, LAMBDA node : XmlJson(node) # None)

AllAttributes(o) ==
  FoldLeft(LAMBDA map, node : Accumulate(map, AdeName(o, node), XmlJson(node)[1]), AttributesOf(o.attributes), AdeNodes(o))

\* Two applications, or one and CityGML, give the object the same name.
Ambiguous(o) ==
  \E k \in DOMAIN AdeNodes(o) :
    LET node == AdeNodes(o)[k]
    IN  \/ \E m \in DOMAIN AttributesOf(o.attributes) : AttributesOf(o.attributes)[m].name = AdeName(o, node)
        \/ \E m \in DOMAIN AdeNodes(o) :
             AdeName(o, AdeNodes(o)[m]) = AdeName(o, node) /\ AdeNodes(o)[m].class.ns # node.class.ns
-----------------------------------------------------------------------------
(* Geometries *)

\* A face of a reversed surface is wound backwards.
Wound(face) == IF face.reversed THEN [r \in DOMAIN face.rings |-> Reverse(face.rings[r])] ELSE face.rings

PointsOfFaces(faces) == FlattenSeq([k \in DOMAIN faces |-> FlattenSeq(Wound(faces[k]))])

\* The points a geometry, then an address, is at, in the order they are met.
PointsOf(o) ==
  FlattenSeq([g \in DOMAIN o.geometries |-> PointsOfFaces(FlatFaces(o.geometries[g].solids))])
  \o FlattenSeq([k \in DOMAIN o.addresses |-> o.addresses[k].location])

\* A coordinate on the grid, the nearest.
Quantised(cx, point) ==
  [k \in 1 .. 3 |-> (2 * (point[k] - cx.translate[k]) + cx.scale) \div (2 * cx.scale)]

\* The surfaces a geometry's faces are of, and those these are in, in the
\* object's order.
UsedSurfaces(g, o) ==
  LET tagged == {f.surface[1] : f \in {x \in ToSet(FlatFaces(g.solids)) : x.surface # None}}
      parents(set) == {o.surfaces[s].parent[1] : s \in {x \in set : o.surfaces[x].parent # None}}
      all == FoldLeft(LAMBDA seen, s : seen \cup parents(seen), tagged, o.surfaces)
  IN  SetToSortSeq(all, <)

\* One value each for the faces of solids, nested like them.
NestedLike(solids, flat) ==
  LET of == Refaced(solids, flat)
  IN  Some([i \in DOMAIN of |-> Some([j \in DOMAIN of[i] |-> Some(of[i][j])])])

SemanticsOf(g, o) ==
  LET used == UsedSurfaces(g, o)
      at(index) == IF index = None THEN None ELSE Some(IndexIn(used, index[1]))
      surface(s) == [type |-> IF DefsOf(SurfaceDefs, s.class) = {} THEN Plus(s.class.local) ELSE Plain(s.class.local),
                     parent |-> at(s.parent), attributes |-> SurfaceAttributesOf(s.attributes)]
      faces == FlatFaces(g.solids)
  IN  IF used = <<>> THEN None
      ELSE Some([surfaces |-> [n \in DOMAIN used |-> surface(o.surfaces[used[n]])],
                 values |-> Some(NestedLike(g.solids, [k \in DOMAIN faces |-> at(faces[k].surface)]))])
-----------------------------------------------------------------------------
(* Appearance *)

ThemesIn(entries) == Pool([n \in DOMAIN entries |-> entries[n].theme])

\* The last material of a theme for an id.
MaterialFor(o, theme, id) ==
  LET for == SelectSeq(o.appearance.materials, LAMBDA m : m.theme = theme /\ Contains(m.of, id))
  IN  IF for = <<>> THEN None ELSE Some(Last(for).definition)

\* A face's own, or that of the innermost aggregate it is in that has one.
Colour(o, theme, face) ==
  LET ids == face.id \o face.groups
      coloured == SelectSeq(ids, LAMBDA id : MaterialFor(o, theme, id) # None)
  IN  IF coloured = <<>> THEN None ELSE MaterialFor(o, theme, coloured[1])

\* The last texture of a theme for a ring, with its coordinates.
TextureFor(o, theme, ring) ==
  LET for == FlattenSeq([n \in DOMAIN o.appearance.textures |->
               LET t == o.appearance.textures[n]
                   uses == IF t.theme = theme THEN SelectSeq(t.of, LAMBDA u : Some(u.ring) = ring) ELSE <<>>
               IN  [m \in DOMAIN uses |-> [definition |-> t.definition, uvs |-> uses[m].uvs]]])
  IN  IF for = <<>> THEN None ELSE Some(Last(for))

\* Mutant: the coordinates as they are.
TexturesUnturned(o, theme, face) ==
  LET cell(t) == IF t = None THEN None ELSE Some([definition |-> t[1].definition, uvs |-> t[1].uvs])
  IN  [r \in DOMAIN face.ringIds |-> cell(TextureFor(o, theme, face.ringIds[r]))]

\* Each ring's, the coordinates turned with the face.
Textures(o, theme, face) ==
  LET turned(t) == IF face.reversed THEN Reverse(t.uvs) ELSE t.uvs
      cell(t) == IF t = None THEN None ELSE Some([definition |-> t[1].definition, uvs |-> turned(t[1])])
  IN  [r \in DOMAIN face.ringIds |-> cell(TextureFor(o, theme, face.ringIds[r]))]

\* The themes that are of some face, or some ring, of a geometry.
Colouring(o, g) ==
  SelectSeq(ThemesIn(o.appearance.materials), LAMBDA t : \E f \in ToSet(FlatFaces(g.solids)) : Colour(o, t, f) # None)
Covering(o, g) ==
  SelectSeq(ThemesIn(o.appearance.textures),
            LAMBDA t : \E f \in ToSet(FlatFaces(g.solids)) : \E cell \in ToSet(Textures(o, t, f)) : cell # None)

\* The texture coordinates of an object, as its rings meet them.
UvsOf(o) ==
  LET cells(g, t) == LET faces == FlatFaces(g.solids)
                     IN  FlattenSeq([k \in DOMAIN faces |-> FlattenSeq(Textures(o, t, faces[k]))])
      uvs(g, t) == FlattenSeq([n \in DOMAIN cells(g, t) |-> cells(g, t)[n].uvs])
      all(g) == FlattenSeq([n \in DOMAIN Covering(o, g) |-> uvs(g, Covering(o, g)[n])])
  IN  FlattenSeq([n \in DOMAIN o.geometries |-> all(o.geometries[n])])

MaterialMember(o, g, palette) ==
  LET faces == FlatFaces(g.solids)
      index(c) == IF c = None THEN None ELSE Some(IndexIn(palette, c[1]))
  IN  [t \in ToSet(Colouring(o, g)) |->
         [value |-> None, values |-> Some(NestedLike(g.solids, [k \in DOMAIN faces |-> index(Colour(o, t, faces[k]))]))]]

TextureMember(o, g, palette, uvs) ==
  LET faces == FlatFaces(g.solids)
      ring(c) == IF c = None THEN None
                 ELSE Some([texture |-> IndexIn(palette, c[1].definition),
                            uvs |-> [n \in DOMAIN c[1].uvs |-> IndexIn(uvs, c[1].uvs[n])]])
      face(cells) == [r \in DOMAIN cells |-> ring(cells[r])]
  IN  [t \in ToSet(Covering(o, g)) |-> Some(Refaced(g.solids, [k \in DOMAIN faces |-> face(Textures(o, t, faces[k]))]))]
-----------------------------------------------------------------------------
(* The feature *)

Definitions(entries) == [n \in DOMAIN entries |-> entries[n].definition]

\* A geometry; `index` gives the vertex of a point.
GeometryMember(o, g, index, pools) ==
  LET ring(r) == [n \in DOMAIN r |-> index[r[n]]]
      faces == FlatFaces(g.solids)
      face(f) == [r \in DOMAIN Wound(f) |-> ring(Wound(f)[r])]
  IN  [lod |-> g.lod, type |-> g.type, placed |-> g.placed,
       solids |-> Refaced(g.solids, [k \in DOMAIN faces |-> face(faces[k])]),
       semantics |-> SemanticsOf(g, o),
       material |-> MaterialMember(o, g, pools.materials),
       texture |-> TextureMember(o, g, pools.textures, pools.uvs)]

\* The members a group only refers to; they could not refer to one without an id.
Referred(o) == IF o.id = None THEN <<>> ELSE SelectSeq(o.members, LAMBDA m : m.child = None)

\* The children inside the object, then those; a role for each if any has one.
ChildrenMember(emitted) ==
  LET o == emitted.object
  IN  [c \in DOMAIN o.children |-> ChildId(emitted.id, o, c)] \o [n \in DOMAIN Referred(o) |-> Referred(o)[n].id[1]]

RolesMember(o) ==
  LET held(c) == SelectSeq(o.members, LAMBDA m : m.child = Some(c))
      referred == Referred(o)
      all == [c \in DOMAIN o.children |-> IF held(c) = <<>> THEN None ELSE held(c)[1].role]
             \o [n \in DOMAIN referred |-> referred[n].role]
  IN  IF \A n \in DOMAIN all : all[n] = None THEN <<>> ELSE all

ObjectMember(emitted, index, pools) ==
  LET o == emitted.object
      children == ChildrenMember(emitted)
  IN  [type |-> TypeOf(o.class), parents |-> IF emitted.parent \o o.groups = <<>> THEN None ELSE Some(emitted.parent \o o.groups),
       children |-> IF children = <<>> THEN None ELSE Some(children), roles |-> RolesMember(o),
       attributes |-> AllAttributes(o), extent |-> o.extent,
       geometries |-> [n \in DOMAIN o.geometries |-> GeometryMember(o, o.geometries[n], index, pools)],
       addresses |-> [n \in DOMAIN o.addresses |->
         [postal |-> o.addresses[n].postal,
          location |-> [k \in DOMAIN o.addresses[n].location |-> index[o.addresses[n].location[k]]]]]]

\* Every object of the feature; the palettes and vertices they share.
FromGml(cx, root) ==
  LET emitted == Emitted(root, RootId(root, cx.index), None)
      all(of(_)) == FlattenSeq([n \in DOMAIN emitted |-> of(emitted[n].object)])
      points == all(PointsOf)
      grid == [n \in DOMAIN points |-> Quantised(cx, points[n])]
      vertices == Pool(grid)
      index == [p \in ToSet(points) |-> IndexIn(vertices, Quantised(cx, p))]
      pools == [materials |-> Pool(Definitions(all(LAMBDA o : o.appearance.materials))),
                textures |-> Pool(Definitions(all(LAMBDA o : o.appearance.textures))),
                uvs |-> Pool(all(UvsOf))]
      at(id) == CHOOSE n \in DOMAIN emitted : emitted[n].id = id
  IN  [id |-> emitted[1].id, vertices |-> vertices,
       objects |-> [id \in {emitted[n].id : n \in DOMAIN emitted} |-> ObjectMember(emitted[at(id)], index, pools)]]
      @@ pools

\* What is refused: an id twice, a class of no type, two attributes of a
\* name, a texture without coordinates.
FitsCityjson(cx, root) ==
  LET emitted == Emitted(root, RootId(root, cx.index), None)
      objects == {emitted[n].object : n \in DOMAIN emitted}
      typed(o) == IsModuleClass(o.class) => CityjsonType(o.class) # None
      textured(o) == \A g \in ToSet(o.geometries) : \A f \in ToSet(FlatFaces(g.solids)) : \A t \in ToSet(Covering(o, g)) :
                       \A cell \in ToSet(FlattenSeq(Textures(o, t, f))) : cell.uvs # <<>>
  IN  /\ \A m, n \in DOMAIN emitted : emitted[m].id = emitted[n].id => m = n
      /\ \A o \in objects : typed(o) /\ ~Ambiguous(o) /\ textured(o)

\* The relative geometries of a document as templates, in their own
\* coordinates and with palettes of their own.
TemplatesMember(templates) ==
  LET holder(t) == [geometries |-> <<t.geometry>>, appearance |-> t.appearance, surfaces |-> <<>>]
      all(of(_)) == FlattenSeq([n \in DOMAIN templates |-> of(holder(templates[n]))])
      vertices == Pool(all(LAMBDA o : PointsOfFaces(FlatFaces(o.geometries[1].solids))))
      pools == [materials |-> Pool(Definitions(all(LAMBDA o : o.appearance.materials))),
                textures |-> Pool(Definitions(all(LAMBDA o : o.appearance.textures))),
                uvs |-> Pool(all(UvsOf))]
      index == [p \in ToSet(vertices) |-> IndexIn(vertices, p)]
  IN  [templates |-> [n \in DOMAIN templates |-> GeometryMember(holder(templates[n]), templates[n].geometry, index, pools)],
       vertices |-> vertices] @@ pools
=============================================================================
