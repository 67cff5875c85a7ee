----------------------------- MODULE GmlDocument -----------------------------
(***************************************************************************)
(* Writing CityGML objects as a CityGML 2.0 document                       *)
(* (lib/citygml-rs/crates: core/src/write/document.rs, core/src/write/     *)
(* gml.rs, citygml2/src/writer/document.rs).                               *)
(*                                                                         *)
(* An element is [ns, name, lod, id, href, of, value, kids]: a geometry    *)
(* property's lod, -1 for the others; of, the value of the attribute that  *)
(* its name calls for (a role, an orientation, a generic attribute's name, *)
(* a theme); a ring is one element, its points closed.  A LoD is in tenths. *)
(*                                                                         *)
(* The document is [ids, next, templates, written, notes]: the gml:ids it  *)
(* has, the count of those it made up, the relative geometries and the ids *)
(* they are written with.  What an operation of it gives is [doc, out, up],*)
(* up the objects to be written after as objects of their own.             *)
(*                                                                         *)
(* The name of the coordinate system, the envelope of the model, and where *)
(* among an object's properties an application's own go are left out.      *)
(***************************************************************************)
EXTENDS GmlClasses

\* The CityGML class each class of an extension specialises, where it has one.
CONSTANT ContentOfClass

Node(ns, name, kids) ==
  [ns |-> ns, name |-> name, lod |-> -1, id |-> None, href |-> None, of |-> None, value |-> None, kids |-> kids]
Gml(name, kids) == Node("Gml", name, kids)
Leaf(ns, name, value) == [Node(ns, name, <<>>) EXCEPT !.value = Some(value)]
Reference(ns, name, id) == [Node(ns, name, <<>>) EXCEPT !.href = Some(id)]
Property(ns, what, kids) == [Node(ns, what[2], kids) EXCEPT !.lod = what[1]]

Note(doc, notes) == [doc EXCEPT !.notes = @ \o notes]
Times(n, note) == [k \in 1 .. n |-> note]

Gave(doc, out, up) == [out |-> out, up |-> up, doc |-> doc]
Then(acc, next) == Gave(next.doc, acc.out \o next.out, acc.up \o next.up)
-----------------------------------------------------------------------------
(* gml:ids *)

Fresh(doc) ==
  CHOOSE n \in doc.next + 1 .. doc.next + Cardinality(doc.ids) + 1 :
    /\ <<"w", 0, 0, 0, n>> \notin doc.ids
    /\ \A m \in doc.next + 1 .. n - 1 : <<"w", 0, 0, 0, m>> \in doc.ids

\* The document with an id no element has.
WithFresh(doc) ==
  [doc |-> [doc EXCEPT !.next = Fresh(doc), !.ids = @ \cup {<<"w", 0, 0, 0, Fresh(doc)>>}],
   id |-> Some(<<"w", 0, 0, 0, Fresh(doc)>>)]

\* The id, if no element has it yet.
Claim(doc, id) ==
  IF id = None THEN [doc |-> doc, id |-> None]
  ELSE IF id[1] \in doc.ids
  THEN [doc |-> Note(doc, <<"gml:ids that are not unique in the document">>), id |-> None]
  ELSE [doc |-> [doc EXCEPT !.ids = @ \cup {id[1]}], id |-> id]
-----------------------------------------------------------------------------
(* GML geometry *)

Closed(points) == IF points = <<>> THEN points ELSE Append(points, points[1])

RingElement(name, points, id) == [Leaf("Gml", name, Closed(points)) EXCEPT !.id = id]

PolygonElement(face) ==
  [Gml("Polygon", [r \in DOMAIN face.rings |->
     RingElement(IF r = 1 THEN "exterior" ELSE "interior", face.rings[r], face.ringIds[r])]) EXCEPT !.id = face.id]

Reversed(base) == [Gml("OrientableSurface", <<base>>) EXCEPT !.of = Some("-")]

\* A face as a surface member: its polygon or a reference to it.
MemberElement(face, refer) ==
  CASE ~face.reversed /\ refer -> Reference("Gml", "surfaceMember", face.id[1])
    [] ~face.reversed /\ ~refer -> Gml("surfaceMember", <<PolygonElement(face)>>)
    [] OTHER -> Gml("surfaceMember", <<Reversed(IF refer THEN Reference("Gml", "baseSurface", face.id[1])
                                                ELSE Gml("baseSurface", <<PolygonElement(face)>>))>>)

\* A face as a surface itself.
SurfaceElement(face) ==
  IF face.reversed THEN Reversed(Gml("baseSurface", <<PolygonElement(face)>>)) ELSE PolygonElement(face)

\* A face that has a tag is in a boundary surface, which a solid refers to.
SolidElement(shells) ==
  Gml("Solid", [j \in DOMAIN shells |->
    Gml(IF j = 1 THEN "exterior" ELSE "interior",
        <<Gml("CompositeSurface", [k \in DOMAIN shells[j] |-> MemberElement(shells[j][k], shells[j][k].tag # None)])>>)])

InlineSurfaces(name, faces) == Gml(name, [k \in DOMAIN faces |-> MemberElement(faces[k], FALSE)])

PointElement(p) == Leaf("Gml", "Point", p)

\* A point or a line is a face of one ring here.
ShapeElement(type, solids) ==
  LET faces == FlatFaces(solids)
  IN  CASE type = "MultiPoint" ->
             Gml(type, [k \in DOMAIN faces |-> Gml("pointMember", <<PointElement(faces[k].rings[1][1])>>)])
        [] type = "MultiLineString" ->
             Gml("MultiCurve", [k \in DOMAIN faces |-> Gml("curveMember", <<Leaf("Gml", "LineString", faces[k].rings[1])>>)])
        [] type \in {"MultiSurface", "CompositeSurface"} -> InlineSurfaces(type, faces)
        [] type = "Solid" -> SolidElement(solids[1])
        [] OTHER -> Gml(type, [i \in DOMAIN solids |-> Gml("solidMember", <<SolidElement(solids[i])>>)])

IsTriangle(face) == Len(face.rings) = 1 /\ Len(face.rings[1]) = 3 /\ ~face.reversed

Triangulated(faces, id) ==
  [Gml("TriangulatedSurface", [k \in DOMAIN faces |->
     Gml("Triangle", <<RingElement("exterior", faces[k].rings[1], None)>>)]) EXCEPT !.id = id]
-----------------------------------------------------------------------------
(* What a class holds *)

SurfaceShapes == {"MultiSurface", "CompositeSurface"}
SolidShapes == {"Solid", "CompositeSolid", "MultiSolid"}
TinProperty == <<-2, "tin">>

\* The class whose content the object has; the content.
ContentClassOf(class) ==
  IF class \in DOMAIN ContentOfClass THEN Some(ContentOfClass[class])
  ELSE IF DefsOf(Classes, class) # {} THEN Some(class) ELSE None

SlotsOf(class) == IF ContentClassOf(class) = None THEN <<>> ELSE ContentOf(Classes, ContentClassOf(class)[1])

\* The namespace of the object's own properties.
ModuleOf(class) == IF ContentClassOf(class) = None THEN class.ns ELSE ContentClassOf(class)[1].ns

IsExtensionClass(class) == ContentClassOf(class) = None
Has(slots, kind) == \E k \in DOMAIN slots : slots[k].slot = kind

\* The properties a shape may be written as at a LoD, best first.
ShapeCandidates(type, n) ==
  LET named == CASE type = "Instance" -> <<"ImplicitRepresentation">>
                 [] type \in {"Solid", "CompositeSolid"} -> <<"Solid", "Geometry">>
                 [] type = "MultiSolid" -> <<"MultiSolid", "Geometry">>
                 [] type = "MultiSurface" /\ n = 0 -> <<"FootPrint", "MultiSurface", "Geometry">>
                 [] type = "MultiSurface" /\ n # 0 -> <<"MultiSurface", "Geometry">>
                 [] type = "CompositeSurface" -> <<"Geometry", "MultiSurface">>
                 [] type = "MultiLineString" -> <<"MultiCurve", "Geometry", "Network">>
                 [] OTHER -> <<"Geometry">>
  IN  [k \in DOMAIN named |-> <<n, named[k]>>]

AsTin(g) == /\ g.type \in SurfaceShapes /\ FlatFaces(g.solids) # <<>>
            /\ \A k \in DOMAIN FlatFaces(g.solids) : IsTriangle(FlatFaces(g.solids)[k])

\* Surfaces at a LoD the class has no surface property for are written in its
\* boundary surfaces alone.
CandidatesOf(slots, extension, g, n) ==
  LET fits == SelectSeq(ShapeCandidates(g.type, n),
                        LAMBDA c : extension \/ \E k \in DOMAIN slots : slots[k].slot = "geometry" /\ slots[k].name = c)
  IN  IF Has(slots, "member") THEN IF g.type = "Instance" THEN <<>> ELSE << <<-1, "geometry">> >>
      ELSE IF Has(slots, "tin") THEN IF AsTin(g) THEN <<TinProperty>> ELSE <<>>
      ELSE IF g.type \in SurfaceShapes /\ fits = <<>> /\ Has(slots, "surfaces") THEN << <<n, "bounded">> >>
      ELSE fits

SurfaceContent(class) ==
  IF DefsOf(SurfaceDefs, class) = {} THEN Over(2, 4, "MultiSurface") ELSE ContentOf(SurfaceDefs, class)
SurfaceProperty(class) == (CHOOSE d \in DefsOf(SurfaceDefs, class) : TRUE)[3]

RECURSIVE SurfaceHolder(_, _, _, _)
\* The property a surface is written in: its owner's, or an opening of the
\* surface it is in.
SurfaceHolder(surfaces, s, slots, extension) ==
  LET class == surfaces[s].class
      foreign == DefsOf(SurfaceDefs, class) = {}
      holder == IF foreign THEN "boundedBy" ELSE SurfaceProperty(class)
      parent == surfaces[s].parent
  IN  IF ~foreign /\ extension THEN None
      ELSE IF parent = None
      THEN IF extension \/ HasSlot(slots, "surfaces", holder) THEN Some(holder) ELSE None
      ELSE IF /\ holder = "opening"
              /\ DefsOf(SurfaceDefs, surfaces[parent[1]].class) # {}
              /\ Has(SurfaceContent(surfaces[parent[1]].class), "opening")
              /\ SurfaceHolder(surfaces, parent[1], slots, extension) # None
           THEN Some(holder) ELSE None

\* Whether a boundary surface has faces at a LoD.
SurfaceHoldsLod(class, n) ==
  LET holds(content) == \E k \in DOMAIN content :
        content[k].slot = "geometry" /\ content[k].name \in {<<n, "MultiSurface">>, <<n, "Surface">>}
  IN  holds(SurfaceContent(class))
-----------------------------------------------------------------------------
(* The plan: where the geometries, faces and boundary surfaces go *)

WholeLod(lod) == lod \div 10

\* The property each geometry is written as: the best that none before it has.
PropertiesOf(o, slots, extension) ==
  LET chosen(acc, g) ==
        LET n == WholeLod(g.lod)
            fits == CandidatesOf(slots, extension, g, n)
            free == SelectSeq(fits, LAMBDA c : ~Contains(acc.property, Some(c)))
            whole == Times(IF g.lod % 10 = 0 THEN 0 ELSE 1, "geometries whose LoD is written as its whole number")
        IN  IF n > 4 THEN [property |-> Append(acc.property, None), notes |-> Append(acc.notes, "geometries at a LoD")]
            ELSE IF fits = <<>>
            THEN [property |-> Append(acc.property, None),
                  notes |-> acc.notes \o whole \o <<"geometries at a LoD their class has no property for">>]
            ELSE IF free = <<>>
            THEN [property |-> Append(acc.property, None),
                  notes |-> acc.notes \o whole \o <<"geometries at a LoD their object already has one of that kind at">>]
            ELSE [property |-> Append(acc.property, Some(free[1])), notes |-> acc.notes \o whole]
  IN  FoldLeft(chosen, [property |-> <<>>, notes |-> <<>>], o.geometries)

\* The boundary surface that writes a face.
TagOf(o, holder, n, face) ==
  IF /\ face.surface # None /\ holder[face.surface[1]] # None
     /\ SurfaceHoldsLod(o.surfaces[face.surface[1]].class, n) THEN face.surface ELSE None

\* A face with its boundary surface, its ids made unique.  One a solid refers
\* to has an id.
Tagged(doc, solid, face, tag) ==
  LET noted == Times(IF face.surface # None /\ tag = None THEN 1 ELSE 0,
                     "faces of boundary surfaces whose class has no geometry at their LoD")
      own == Claim(Note(doc, noted), face.id)
      polygon == IF tag # None /\ solid /\ own.id = None THEN WithFresh(own.doc) ELSE own
      rings == FoldLeft(LAMBDA acc, id : LET one == Claim(acc.doc, id)
                                         IN  [ids |-> Append(acc.ids, one.id), doc |-> one.doc],
                        [doc |-> polygon.doc, ids |-> <<>>], face.ringIds)
  IN  [doc |-> rings.doc,
       face |-> [rings |-> face.rings, reversed |-> face.reversed, id |-> polygon.id,
                 ringIds |-> rings.ids, tag |-> tag]]

\* All the faces of a planned geometry.
TaggedFaces(doc, o, holder, property, g) ==
  LET geometry == o.geometries[g]
      faces == IF property[g] = None \/ geometry.type \in {"MultiPoint", "MultiLineString", "Instance"} THEN <<>>
               ELSE FlatFaces(geometry.solids)
      put(done, one) == [faces |-> Append(done, one.face), doc |-> one.doc]
  IN  FoldLeft(LAMBDA acc, face : put(acc.faces, Tagged(acc.doc, geometry.type \in SolidShapes, face,
                                                        TagOf(o, holder, WholeLod(geometry.lod), face))),
               [doc |-> doc, faces |-> <<>>], faces)

IdsOf(faces) == {faces[k].id[1] : k \in {n \in DOMAIN faces : faces[n].id # None}}

\* <<ring, polygon>> of the rings that have an id, in polygons that have one.
RingsOf(faces) ==
  UNION {{<<faces[k].ringIds[r][1], faces[k].id[1]>> : r \in {m \in DOMAIN faces[k].ringIds : faces[k].ringIds[m] # None}}
         : k \in {n \in DOMAIN faces : faces[n].id # None}}

\* The triangles of a relief have no id in the document: a material that
\* colours all of them targets the surface.
TinMaterials(materials, faces, tin) ==
  LET triangles == IdsOf(faces)
      rest(m) == SelectSeq(m.of, LAMBDA t : t \notin triangles)
  IN  [k \in DOMAIN materials |->
        IF Cardinality({n \in DOMAIN faces : faces[n].id = None}) = 0 /\ triangles \subseteq ToSet(materials[k].of)
        THEN [materials[k] EXCEPT !.of = Append(rest(materials[k]), tin)] ELSE materials[k]]

\* The faces of all the geometries.
AllTagged(doc, o, holder, property) ==
  LET put(faces, one) == [faces |-> Append(faces, one.faces), doc |-> one.doc]
  IN  FoldLeft(LAMBDA acc, g : put(acc.faces, TaggedFaces(acc.doc, o, holder, property, g)),
               [doc |-> doc, faces |-> <<>>], [g \in DOMAIN o.geometries |-> g])

\* What is planned once the faces are tagged.
Planned(o, holder, property, tagged) ==
  LET all == FlattenSeq(tagged.faces)
      tins == SelectSeq([g \in DOMAIN property |-> g], LAMBDA g : property[g] = Some(TinProperty))
      triangles == tagged.faces[tins[1]]
      surface == WithFresh(tagged.doc)
      plain == [doc |-> tagged.doc, property |-> property, faces |-> tagged.faces, holder |-> holder,
                targets |-> IdsOf(all), rings |-> RingsOf(all), tin |-> None, materials |-> o.appearance.materials]
  IN  IF tins = <<>> THEN plain
      ELSE [plain EXCEPT !.doc = surface.doc, !.tin = surface.id,
                         !.targets = (@ \ IdsOf(triangles)) \cup {surface.id[1]},
                         !.rings = {pair \in @ : pair[2] \notin IdsOf(triangles)},
                         !.materials = TinMaterials(@, triangles, surface.id[1])]

PlanWith(doc, o, holder, chosen) ==
  Planned(o, holder, chosen.property, AllTagged(Note(doc, chosen.notes), o, holder, chosen.property))

Plan(doc, o, slots, extension) ==
  PlanWith(doc, o, [s \in DOMAIN o.surfaces |-> SurfaceHolder(o.surfaces, s, slots, extension)],
           PropertiesOf(o, slots, extension))

\* The surfaces in the openings of a surface.
Nested(o, plan, s) ==
  SelectSeq([c \in DOMAIN o.surfaces |-> c], LAMBDA c : plan.holder[c] # None /\ o.surfaces[c].parent = Some(s))

\* The faces of a surface at a LoD, in the geometries' order: <<geometry, face>>.
FacesOfSurface(o, plan, s, n) ==
  FlattenSeq([g \in DOMAIN o.geometries |->
    IF plan.property[g] = None \/ WholeLod(o.geometries[g].lod) # n THEN <<>>
    ELSE LET mine == SelectSeq(plan.faces[g], LAMBDA face : face.tag = Some(s))
         IN  [k \in DOMAIN mine |-> [face |-> mine[k], solid |-> o.geometries[g].type \in SolidShapes]]])

RECURSIVE HasFaces(_, _, _)
HasFaces(o, plan, s) ==
  \/ \E n \in 0 .. 4 : FacesOfSurface(o, plan, s, n) # <<>>
  \/ \E c \in ToSet(Nested(o, plan, s)) : HasFaces(o, plan, c)
-----------------------------------------------------------------------------
(* Geometry, as a property *)

\* The whole of a solid, referring to what a boundary surface holds; the
\* faces of a surface geometry that no boundary surface holds.
GeometryProperty(doc, o, ns, property, g, plan) ==
  LET geometry == o.geometries[g]
      untagged == SelectSeq(plan.faces[g], LAMBDA face : face.tag = None)
      composite == geometry.type = "CompositeSurface"
      same == composite /\ property[2] = "Geometry"
      faces == FlatFaces(geometry.solids)
      gave(notes, element) == Gave(Note(doc, notes), <<Property(ns, property, <<element>>)>>, <<>>)
  IN  CASE geometry.type \in SolidShapes -> gave(<<>>, ShapeElement(geometry.type, Refaced(geometry.solids, plan.faces[g])))
        [] geometry.type \in SurfaceShapes /\ untagged = <<>> -> Gave(doc, <<>>, <<>>)
        [] geometry.type \in SurfaceShapes /\ untagged # <<>> ->
             gave(Times(IF composite /\ ~same THEN 1 ELSE 0, "CompositeSurfaces written as MultiSurfaces"),
                  InlineSurfaces(IF same THEN "CompositeSurface" ELSE "MultiSurface", untagged))
        [] geometry.type = "MultiLineString" /\ property[2] = "Network" ->
             gave(<<>>, Gml("GeometricComplex",
                            [k \in DOMAIN faces |-> Gml("element", <<Leaf("Gml", "LineString", faces[k].rings[1])>>)]))
        [] OTHER -> gave(<<>>, ShapeElement(geometry.type, geometry.solids))

\* The relative geometry an implicit geometry places is inline the first time.
Implicit(doc, ns, property, geometry) ==
  LET t == geometry.placed[1][1]
      template == doc.templates[t]
      own == Claim(doc, template.id)
      named == IF own.id = None THEN WithFresh(own.doc) ELSE own
      untagged == [k \in DOMAIN FlatFaces(template.geometry.solids) |->
                    [tag |-> None] @@ FlatFaces(template.geometry.solids)[k]]
      shape == ShapeElement(template.geometry.type, Refaced(template.geometry.solids, untagged))
      relative == IF doc.written[t] # None THEN Reference("Core", "relativeGMLGeometry", doc.written[t][1])
                  ELSE Node("Core", "relativeGMLGeometry", <<[shape EXCEPT !.id = named.id]>>)
  IN  Gave(IF doc.written[t] # None THEN doc ELSE [named.doc EXCEPT !.written[t] = named.id],
           <<Property(ns, property,
               <<Node("Core", "ImplicitGeometry",
                   <<Leaf("Core", "transformationMatrix", geometry.placed[1][2]), relative,
                     Node("Core", "referencePoint", <<PointElement(FlatFaces(geometry.solids)[1].rings[1][1])>>)>>)>>)>>,
           <<>>)
-----------------------------------------------------------------------------
(* Attributes *)

Blank(value) == value.kind = "blank"
BlankNote == "attributes whose value is blank text"

\* The attributes of one name, as a property.
PropertyElements(doc, attributes, ns, name) ==
  LET mine == SelectSeq(attributes, LAMBDA a : a.kind = "property" /\ a.ns = ns /\ a.name.word = name)
      kept == SelectSeq(mine, LAMBDA a : ~Blank(a.value))
  IN  Gave(Note(doc, Times(Len(mine) - Len(kept), BlankNote)),
           [k \in DOMAIN kept |-> Leaf(ns, name, kept[k].value)], <<>>)

\* The common properties, the envelope before the creation date.
CommonElements(doc, attributes, extent) ==
  FoldLeft(LAMBDA acc, p :
             LET envelope == IF p.name = "creationDate" /\ extent # None THEN <<Leaf("Gml", "boundedBy", extent[1])>> ELSE <<>>
             IN  Then(Gave(acc.doc, acc.out \o envelope, acc.up), PropertyElements(acc.doc, attributes, p.ns, p.name)),
           Gave(doc, <<>>, <<>>), Common)

RECURSIVE WritesGeneric(_)
\* Whether a member of a set writes an element.
WritesGeneric(value) ==
  IF value.kind = "set" THEN \E k \in DOMAIN value.val : WritesGeneric(value.val[k].value) ELSE ~Blank(value)

GenericKind(value) ==
  CASE value.kind = "int" -> "intAttribute" [] value.kind = "float" -> "doubleAttribute" [] OTHER -> "stringAttribute"

RECURSIVE GenericElements(_, _, _)
GenericElements(doc, name, value) ==
  LET member(acc, a) == Then(acc, GenericElements(acc.doc, a.name, a.value))
      all == FoldLeft(member, Gave(doc, <<>>, <<>>), value.val)
      text == IF value.kind = "bool" THEN [kind |-> "word", val |-> IF value.val THEN "true" ELSE "false"] ELSE value
      boolean == Times(IF value.kind = "bool" THEN 1 ELSE 0, "generic attributes whose value is a boolean")
  IN  IF value.kind = "set"
      THEN IF ~WritesGeneric(value) THEN Gave(Note(doc, <<"generic attribute sets with no member to write">>), <<>>, <<>>)
           ELSE Gave(all.doc, <<[Node("Generics", "genericAttributeSet", all.out) EXCEPT !.of = Some(name)]>>, <<>>)
      ELSE IF Blank(value) THEN Gave(Note(doc, <<BlankNote>>), <<>>, <<>>)
      ELSE Gave(Note(doc, boolean), <<[Leaf("Generics", GenericKind(text), text) EXCEPT !.of = Some(name)]>>, <<>>)

Generics(doc, attributes) ==
  FoldLeft(LAMBDA acc, a : Then(acc, GenericElements(acc.doc, a.name, a.value)), Gave(doc, <<>>, <<>>),
           SelectSeq(attributes, LAMBDA a : a.kind = "generic"))
WithGenerics(acc, attributes) == Then(acc, Generics(acc.doc, attributes))

\* The property attributes no slot and no common property writes.
Unused(attributes, ns, slots) ==
  SelectSeq(attributes, LAMBDA a :
    /\ a.kind = "property"
    /\ \A k \in DOMAIN Common : Common[k].ns # a.ns \/ Common[k].name # a.name.word
    /\ ~(a.ns = ns /\ \E k \in DOMAIN slots : slots[k].slot = "value" /\ slots[k].name = a.name.word))

UnusedNote(attributes) == Times(Len(attributes), "attributes that name no property of their class")

RECURSIVE NodeElement(_)
\* An application's own element, as it is.
NodeElement(node) ==
  [Node(node.class.ns, node.class.local, [k \in DOMAIN node.children |-> NodeElement(node.children[k])])
     EXCEPT !.value = node.text]

AddressElement(ns, property, a) ==
  Node(ns, property,
    <<Node("Core", "Address",
        <<Leaf("Core", "xalAddress", a.postal)>>
        \o IF a.location = <<>> THEN <<>>
           ELSE <<Node("Core", "multiPoint",
                    <<Gml("MultiPoint", [k \in DOMAIN a.location |->
                        Gml("pointMember", <<PointElement(a.location[k])>>)])>>)>>)>>)
-----------------------------------------------------------------------------
(* Appearance *)

\* Mutant: a material on all the polygons it names.
MaterialElementAll(doc, m, targets) ==
  Gave(doc, <<[Node("App", "X3DMaterial", [k \in DOMAIN m.of |-> Reference("App", "target", m.of[k])])
                 EXCEPT !.value = Some(m.definition)]>>, <<>>)

\* A material on the polygons it names that are written.
MaterialElement(doc, m, targets) ==
  LET written == SelectSeq(m.of, LAMBDA t : t \in targets)
  IN  Gave(Note(doc, Times(IF Len(written) < Len(m.of) THEN 1 ELSE 0, "material targets the document does not write")),
           IF written = <<>> THEN <<>>
           ELSE <<[Node("App", "X3DMaterial", [k \in DOMAIN written |-> Reference("App", "target", written[k])])
                     EXCEPT !.value = Some(m.definition)]>>, <<>>)

\* A texture on the rings it names that are written, polygon by polygon.
TextureElement(doc, t, rings) ==
  LET written == SelectSeq(t.of, LAMBDA u : \E pair \in rings : pair[1] = u.ring)
      polygon(u) == (CHOOSE pair \in rings : pair[1] = u.ring)[2]
      polygons == FoldLeft(LAMBDA seen, u : IF Contains(seen, polygon(u)) THEN seen ELSE Append(seen, polygon(u)), <<>>, written)
      coordinates(u) == [Leaf("App", "textureCoordinates", Closed(u.uvs)) EXCEPT !.href = Some(u.ring)]
      target(p) == LET mine == SelectSeq(written, LAMBDA u : polygon(u) = p)
                   IN  [Node("App", "target", [n \in DOMAIN mine |-> coordinates(mine[n])]) EXCEPT !.href = Some(p)]
  IN  Gave(Note(doc, Times(Len(t.of) - Len(written), "texture coordinates of rings the document does not write")),
           IF written = <<>> THEN <<>>
           ELSE <<[Node("App", "ParameterizedTexture", [k \in DOMAIN polygons |-> target(polygons[k])])
                     EXCEPT !.value = Some(t.definition)]>>, <<>>)

\* Runs of one theme: the materials, then the textures.
AppearanceElements(doc, property, appearance, targets, rings) ==
  LET data == [k \in DOMAIN appearance.materials |-> <<"material", appearance.materials[k]>>]
              \o [k \in DOMAIN appearance.textures |-> <<"texture", appearance.textures[k]>>]
      theme(k) == data[k][2].theme
      starts == SelectSeq([k \in DOMAIN data |-> k], LAMBDA k : k = 1 \/ theme(k - 1) # theme(k))
      end(n) == IF n = Len(starts) THEN Len(data) ELSE starts[n + 1] - 1
      one(acc, d) == Then(acc, IF d[1] = "material" THEN MaterialElement(acc.doc, d[2], targets)
                               ELSE TextureElement(acc.doc, d[2], rings))
      run(acc, n) ==
        LET all == FoldLeft(one, Gave(acc.doc, <<>>, <<>>), SubSeq(data, starts[n], end(n)))
        IN  Then(acc, Gave(all.doc, <<[Node("App", property, all.out) EXCEPT !.of = Some(theme(starts[n]))]>>, <<>>))
  IN  FoldLeft(run, Gave(doc, <<>>, <<>>), [n \in DOMAIN starts |-> n])
-----------------------------------------------------------------------------
(* Boundary surfaces *)

\* The faces of a surface at one of its LoDs.
SurfaceMember(f) == IF f.solid THEN Gml("surfaceMember", <<PolygonElement(f.face)>>) ELSE MemberElement(f.face, FALSE)

SurfaceGeometry(ns, property, faces) ==
  Property(ns, property,
    <<IF property[2] # "MultiSurface" /\ Len(faces) = 1
      THEN IF faces[1].solid THEN PolygonElement(faces[1].face) ELSE SurfaceElement(faces[1].face)
      ELSE Gml(IF property[2] = "MultiSurface" THEN "MultiSurface" ELSE "CompositeSurface",
               [k \in DOMAIN faces |-> SurfaceMember(faces[k])])>>)

\* A boundary surface in its holder.
EndSurface(surface, ns, holder, unused, all) ==
  Gave(Note(all.doc, UnusedNote(unused)),
       <<Node(ns, holder, <<Node(surface.class.ns, surface.class.local, all.out)>>)>>, <<>>)

RECURSIVE BoundarySurfaceElement(_, _, _, _, _, _)
\* What one slot of a boundary surface writes; an opening, the surfaces in it.
SurfaceSlot(acc, o, s, own, slot, plan) ==
  LET held == slot.slot = "geometry" /\ slot.name[2] \in {"MultiSurface", "Surface"}
      faces == IF held THEN FacesOfSurface(o, plan, s, slot.name[1]) ELSE <<>>
      open == SelectSeq(Nested(o, plan, s), LAMBDA c : HasFaces(o, plan, c))
  IN  CASE slot.slot = "value" -> Then(acc, PropertyElements(acc.doc, o.surfaces[s].attributes, own, slot.name))
        [] faces # <<>> -> Then(acc, Gave(acc.doc, <<SurfaceGeometry(own, slot.name, faces)>>, <<>>))
        [] slot.slot = "opening" ->
             FoldLeft(LAMBDA a, c : Then(a, BoundarySurfaceElement(a.doc, o, c, own, "opening", plan)), acc, open)
        [] OTHER -> acc

SurfaceWith(doc, o, s, ns, holder, own, content, plan) ==
  LET attributes == o.surfaces[s].attributes
  IN  EndSurface(o.surfaces[s], ns, holder, Unused(attributes, own, content),
                 FoldLeft(LAMBDA acc, slot : SurfaceSlot(acc, o, s, own, slot, plan),
                          WithGenerics(CommonElements(doc, attributes, None), attributes), content))

\* One boundary surface, with the surfaces in its openings.
BoundarySurfaceElement(doc, o, s, ns, holder, plan) ==
  LET class == o.surfaces[s].class
  IN  SurfaceWith(doc, o, s, ns, holder, IF DefsOf(SurfaceDefs, class) = {} THEN ns ELSE class.ns, SurfaceContent(class), plan)

BoundarySurfaces(doc, o, ns, holder, plan) ==
  FoldLeft(LAMBDA acc, s : Then(acc, BoundarySurfaceElement(acc.doc, o, s, ns, holder, plan)), Gave(doc, <<>>, <<>>),
           SelectSeq([s \in DOMAIN o.surfaces |-> s],
                     LAMBDA s : /\ o.surfaces[s].parent = None /\ plan.holder[s] = Some(holder)
                                /\ HasFaces(o, plan, s)))
-----------------------------------------------------------------------------
(* Objects *)

UnheldNote == "objects their parent's class cannot hold"

\* Whether the object can be written at all, and what is noted if not.
Writable(o) ==
  /\ ContentClassOf(o.class) # None \/ o.class.ns \notin {d[1] : d \in Classes}
  /\ Has(SlotsOf(o.class), "tin") => \E g \in DOMAIN o.geometries : AsTin(o.geometries[g])

UnwritableNote(o) ==
  IF Has(SlotsOf(o.class), "tin") THEN "TIN reliefs without a surface of triangles" ELSE "objects of a class the version does not have"

\* The object is not written: its children are, as objects of their own.
Orphaned(doc, o) ==
  Gave(Note(doc, <<UnwritableNote(o)>> \o Times(Len(o.children), UnheldNote)), <<>>, o.children)

Nests(child, ns, classes) ==
  LET class == ContentClassOf(child.class) IN class # None /\ class[1].ns = ns /\ class[1].local \in classes

\* The geometry of the property, if one is planned there.
GeometryAt(doc, o, ns, property, plan) ==
  LET at == SelectSeq([g \in DOMAIN o.geometries |-> g], LAMBDA g : plan.property[g] = Some(property))
      geometry == o.geometries[at[1]]
  IN  IF at = <<>> THEN Gave(doc, <<>>, <<>>)
      ELSE IF geometry.type = "Instance" THEN Implicit(doc, ns, property, geometry)
      ELSE GeometryProperty(doc, o, ns, property, at[1], plan)

TinAt(o, plan) == SelectSeq([g \in DOMAIN o.geometries |-> g], LAMBDA g : plan.property[g] = Some(TinProperty))

\* The content of a class of an extension that specialises none of CityGML's:
\* what is planned, in the order the extension's schema has it, left out here.
\* Surfaces at a LoD held in boundary surfaces are noted.
WithSurfaces(acc, o, ns, plan) == Then(acc, BoundarySurfaces(acc.doc, o, ns, "boundedBy", plan))
ExtensionContent(doc, o, ns, plan) ==
  WithSurfaces(FoldLeft(LAMBDA acc, g : IF plan.property[g] = None THEN acc
                                        ELSE Then(acc, GeometryAt(acc.doc, o, ns, plan.property[g][1], plan)),
                        Gave(doc, <<>>, <<>>), [g \in DOMAIN o.geometries |-> g]), o, ns, plan)

\* The slots the object has anything for.
Filled(o, slots, plan) ==
  LET filled(slot) ==
        CASE slot.slot = "value" -> \E k \in DOMAIN o.attributes : o.attributes[k].name.word = slot.name
          [] slot.slot = "geometry" -> Contains(plan.property, Some(slot.name))
          [] slot.slot = "surfaces" -> Contains(plan.holder, Some(slot.name))
          [] slot.slot = "nest" -> o.children # <<>>
          [] slot.slot = "address" -> o.addresses # <<>>
          [] slot.slot = "member" -> o.members # <<>>
          [] OTHER -> TRUE
  IN  SelectSeq(slots, filled)

\* The content of every object, before what its class holds.
WithAppearance(acc, appearance, plan) ==
  Then(acc, AppearanceElements(acc.doc, "appearance", [appearance EXCEPT !.materials = plan.materials], plan.targets, plan.rings))
WithExtension(acc, o, ns, plan) ==
  IF IsExtensionClass(o.class) THEN Then(acc, ExtensionContent(acc.doc, o, ns, plan)) ELSE acc
BeforeSlots(doc, o, ns, plan) ==
  WithExtension(WithGenerics(WithAppearance(CommonElements(doc, o.attributes, o.extent), o.appearance, plan), o.attributes), o, ns, plan)

\* The object, and what it cannot hold: [left, all] are the children not
\* written yet and what is written.
EndObject(o, id, ns, slots, done) ==
  LET unheld == SetToSortSeq(done.left, <)
      notes == Times(IF o.addresses # <<>> /\ ~Has(slots, "address") THEN 1 ELSE 0, "addresses of objects whose class has none")
               \o UnusedNote(Unused(o.attributes, ns, slots)) \o Times(Len(unheld), UnheldNote)
      nodes == [k \in DOMAIN o.ade |-> NodeElement(o.ade[k])]
  IN  Gave(Note(done.all.doc, notes),
           <<[Node(o.class.ns, o.class.local, done.all.out \o nodes) EXCEPT !.id = id]>>,
           done.all.up \o [n \in DOMAIN unheld |-> o.children[unheld[n]]])

\* What is written of an object so far, and the children left.
Holding(acc, gave, left) == [left |-> left, all |-> Then(acc.all, gave)]
Keep(acc, gave) == Holding(acc, gave, acc.left)
Wrapped(one, e) == Gave(one.doc, <<[e EXCEPT !.kids = one.out]>>, one.up)

RECURSIVE ObjectElement(_, _)
\* A child, in a property.
Enclosed(acc, o, e, c) == Holding(acc, Wrapped(ObjectElement(acc.all.doc, o.children[c]), e), acc.left \ {c})

\* A group's member: a reference, or a child that is left.
GroupMember(acc, o, m) ==
  LET c == m.child[1]
      held == [Node("CityObjectGroup", "groupMember", <<>>) EXCEPT !.of = m.role]
  IN  IF m.child = None THEN Keep(acc, Gave(acc.all.doc, <<[held EXCEPT !.href = m.id]>>, <<>>))
      ELSE IF c \notin acc.left THEN acc
      ELSE IF ~Writable(o.children[c]) THEN Holding(acc, Orphaned(acc.all.doc, o.children[c]), acc.left \ {c})
      ELSE Enclosed(acc, o, held, c)

\* What one slot writes.
SlotContent(acc, o, slot, ns, plan) ==
  LET tin == TinAt(o, plan)
      leaf == Leaf("Relief", "lod", IF tin = <<>> THEN 1 ELSE WholeLod(o.geometries[tin[1]].lod))
      surface == Node("Relief", "tin", <<Triangulated(plan.faces[tin[1]], plan.tin)>>)
      addresses == [k \in DOMAIN o.addresses |-> AddressElement(ns, slot.name, o.addresses[k])]
  IN  CASE slot.slot = "value" -> Keep(acc, PropertyElements(acc.all.doc, o.attributes, ns, slot.name))
        [] slot.slot = "geometry" -> Keep(acc, GeometryAt(acc.all.doc, o, ns, slot.name, plan))
        [] slot.slot = "surfaces" -> Keep(acc, BoundarySurfaces(acc.all.doc, o, ns, slot.name, plan))
        [] slot.slot = "nest" ->
             FoldLeft(LAMBDA a, c : Enclosed(a, o, Node(ns, slot.name, <<>>), c), acc,
                      SetToSortSeq({c \in acc.left : Nests(o.children[c], ns, slot.of)}, <))
        [] slot.slot = "address" -> Keep(acc, Gave(acc.all.doc, addresses, <<>>))
        [] slot.slot = "member" -> FoldLeft(LAMBDA a, m : GroupMember(a, o, m), acc, o.members)
        [] slot.slot = "reliefLod" -> Keep(acc, Gave(acc.all.doc, <<leaf>>, <<>>))
        [] slot.slot = "tin" /\ tin # <<>> -> Keep(acc, Gave(acc.all.doc, <<surface>>, <<>>))
        [] OTHER -> acc

\* The object, its id claimed.
ObjectClaimed(o, slots, ns, plan, own) ==
  EndObject(o, own.id, ns, slots,
            FoldLeft(LAMBDA acc, slot : SlotContent(acc, o, slot, ns, plan),
                     [left |-> DOMAIN o.children, all |-> BeforeSlots(own.doc, o, ns, plan)], Filled(o, slots, plan)))

ObjectPlanned(o, slots, plan) == ObjectClaimed(o, slots, ModuleOf(o.class), plan, Claim(plan.doc, o.id))
ObjectSlots(doc, o, slots) == ObjectPlanned(o, slots, Plan(doc, o, slots, IsExtensionClass(o.class)))

\* One object, with what its class holds in the order of its slots.
ObjectElement(doc, o) == ObjectSlots(doc, o, SlotsOf(o.class))

\* The LoD of the feature a relief component is inside.
ReliefFeature(o, element) ==
  IF ~Has(SlotsOf(o.class), "tin") THEN element
  ELSE Node("Relief", "ReliefFeature",
         <<Leaf("Relief", "lod", IF o.geometries = <<>> THEN 1 ELSE WholeLod(o.geometries[1].lod)),
           Node("Relief", "reliefComponent", <<element>>)>>)

RECURSIVE TopLevel(_, _)
\* Objects, each followed by what it cannot hold, as members of the document.
TopLevel(doc, pending) ==
  LET o == pending[1]
      member(one) == IF Writable(o) THEN <<Node("Core", "cityObjectMember", <<ReliefFeature(o, one.out[1])>>)>> ELSE <<>>
      followed(members, rest) == [out |-> members \o rest.out, doc |-> rest.doc]
      after(one) == followed(member(one), TopLevel(one.doc, one.up \o Tail(pending)))
  IN  IF pending = <<>> THEN [doc |-> doc, out |-> <<>>]
      ELSE after(IF Writable(o) THEN ObjectElement(doc, o) ELSE Orphaned(doc, o))

EmptyDocument(templates) ==
  [ids |-> {}, next |-> 0, templates |-> templates, written |-> [t \in DOMAIN templates |-> None], notes |-> <<>>]

\* The end of the document: the appearance of the relative geometries written.
Finish(doc) ==
  LET faces(t) == FlatFaces(doc.templates[t].geometry.solids)
      one(acc, t) == IF doc.written[t] = None THEN acc
                     ELSE Then(acc, AppearanceElements(acc.doc, "appearanceMember", doc.templates[t].appearance,
                                      IdsOf(faces(t)), RingsOf(faces(t))))
      all == FoldLeft(one, Gave(doc, <<>>, <<>>), [t \in DOMAIN doc.templates |-> t])
  IN  [doc |-> all.doc, out |-> all.out]
=============================================================================
