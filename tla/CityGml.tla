------------------------------- MODULE CityGml -------------------------------
(***************************************************************************)
(* A CityJSON city written as CityGML 2.0 and read back                    *)
(* (lib/citygml-rs/crates: core/src/convert/cjseq/{to_gml,writer,mod}.rs,  *)
(* core/src/write, core/src/gml, citygml2/src/{writer,reader}).            *)
(*                                                                         *)
(* A city is [features, exts, scale, translate, header, document]: the     *)
(* features are written in any order; a document, if it has one, is        *)
(* another program's that says the same, and is read instead.              *)
(***************************************************************************)
EXTENDS GmlWriter, GmlReader, FromGml

CONSTANT Cities

VARIABLES
  city,
  stage,     \* "write", "read", "done", or "refused"
  todo,      \* the features not written yet
  writer,
  notes,     \* what the writer says it lost
  document,
  index,     \* of the document
  credit,    \* the references to aggregates it may still follow
  read       \* the features read, one of each top-level object

vars == <<city, stage, todo, writer, notes, document, index, credit, read>>

NoIndex == [appearance |-> [materials |-> <<>>, textures |-> <<>>], links |-> <<>>, templates |-> <<>>]

Init ==
  /\ city \in Cities
  /\ stage = IF city.document = None THEN "write" ELSE "read"
  /\ todo = DOMAIN city.features
  /\ writer = NewWriter(TemplatesOf(city.header))
  /\ notes = <<>>
  /\ document = IF city.document = None THEN <<>> ELSE city.document[1]
  /\ index = IF city.document = None THEN NoIndex ELSE IndexOf(city.document[1])
  /\ credit = 0 /\ read = <<>>

\* What a feature is converted with, as the n-th.
Context(n) ==
  [index |-> n, exts |-> city.exts, lods |-> TemplateLods(city.header), scale |-> city.scale, translate |-> city.translate]

Position == Cardinality(DOMAIN city.features) - Cardinality(todo) + 1

Write ==
  /\ stage = "write"
  /\ \E n \in todo : \E order \in SetToSeqs(DOMAIN city.features[n].objects) :
       /\ Converts(Context(Position), city.features[n])
       /\ writer' = WriteFeature(writer, Context(Position), city.features[n], order)
       /\ todo' = todo \ {n}
  /\ UNCHANGED <<city, stage, notes, document, index, credit, read>>

\* A feature that has no CityGML ends it.
RefuseFeature ==
  /\ stage = "write" /\ \E n \in todo : ~Converts(Context(Position), city.features[n])
  /\ stage' = "refused"
  /\ UNCHANGED <<city, todo, writer, notes, document, index, credit, read>>

Close ==
  /\ stage = "write" /\ todo = {}
  /\ stage' = "read"
  /\ \E ended \in {FinishWriter(writer)} :
       notes' = ended.notes /\ document' = ended.members /\ index' = IndexOf(ended.members)
  /\ UNCHANGED <<city, todo, writer, credit, read>>

Elements == Every(document, LAMBDA e : ObjectsIn(e, FALSE))

\* The n-th object of the document, with what it refers to.
ReadAs(n, b, root, left) ==
  LET context == [index |-> n, scale |-> city.scale, translate |-> city.translate]
  IN  IF ~Unresolvable(b) /\ left >= 0 /\ FitsCityjson(context, root)
      THEN /\ read' = Append(read, FromGml(context, root))
           /\ credit' = left
           /\ stage' = IF n = Len(Elements) THEN "done" ELSE stage
      ELSE stage' = "refused" /\ UNCHANGED <<read, credit>>

ReadNext ==
  LET n == Len(read) + 1
  IN  /\ stage = "read" /\ n \in DOMAIN Elements
      /\ \E b \in {Lent(ReadObject(Elements[n], index.templates), <<>>)} :
           ReadAs(n, b, Completed(index, Assembled(b)), credit + Granted(b) - Charged(b))
      /\ UNCHANGED <<city, todo, writer, notes, document, index>>

Next == Write \/ RefuseFeature \/ Close \/ ReadNext

Spec == Init /\ [][Next]_vars
-----------------------------------------------------------------------------
(* What an object means, however it is written: points and definitions     *)
(* for indices, one number for an integer and a float, one value for a     *)
(* list of one, surfaces of one kind in any order                          *)

RECURSIVE Canonical(_)
Canonical(v) ==
  CASE v.kind \in {"int", "float"} -> Valued("number", v.val)
    [] v.kind = "list" /\ Len(v.val) = 1 -> Canonical(v.val[1])
    [] v.kind = "list" /\ Len(v.val) # 1 -> Valued("list", [k \in DOMAIN v.val |-> Canonical(v.val[k])])
    [] v.kind = "map" -> Valued("map", {<<v.val[k].name, Canonical(v.val[k].value)>> : k \in DOMAIN v.val})
    [] OTHER -> v

AttributeMeaning(attributes) == {<<attributes[k].name, Canonical(attributes[k].value)>> : k \in DOMAIN attributes}

\* An installation is outside unless it says inside.
Inferred(co) ==
  LET relation == Plain("relationToConstruction")
  IN  IF co.type.plus \/ co.type.word \notin Installations \/ ValueOf(co.attributes, relation) # <<>> THEN {}
      ELSE {<<relation, Valued("word", "outside")>>}

RECURSIVE SurfaceMeaning(_, _)
SurfaceMeaning(surfaces, s) ==
  [type |-> surfaces[s].type, attributes |-> AttributeMeaning(surfaces[s].attributes),
   parent |-> IF surfaces[s].parent = None THEN None ELSE Some(SurfaceMeaning(surfaces, surfaces[s].parent[1]))]

\* The surface, the materials and the textures of each face of a geometry.
SurfaceAt(g, k) ==
  LET values == IF g.semantics = None \/ g.semantics[1].values = None THEN [n \in {k} |-> None]
                ELSE Nesting!Flatten(g.solids, g.semantics[1].values[1])
  IN  IF values[k] = None THEN None ELSE Some(SurfaceMeaning(g.semantics[1].surfaces, values[k][1]))

ColoursAt(f, g, k) ==
  LET material(t) == MaterialOf(g, t)[k]
      texture(t) == TextureOf(g, t)[k]
      painted(t) == {r \in DOMAIN texture(t) : texture(t)[r] # None}
      ring(c) == [definition |-> f.textures[c.texture], uvs |-> [n \in DOMAIN c.uvs |-> f.uvs[c.uvs[n]]]]
  IN  [materials |-> {<<t, f.materials[material(t)[1]]>> : t \in {x \in DOMAIN g.material : material(x) # None}},
       textures |-> UNION {{<<t, r, ring(texture(t)[r][1])>> : r \in painted(t)} : t \in DOMAIN g.texture}]

\* Faces in their shells for a solid, together otherwise; `of` gives what is
\* meant by the k-th face.
Shaped(g, of) == IF g.type \in SurfaceShapes THEN {of[k] : k \in DOMAIN of} ELSE Refaced(g.solids, of)

Untransformed == [scale |-> 1, translate |-> <<0, 0, 0>>]
Points(cx, f, g) == FlatFaces(Placed(cx, f, g))

GeometryMeaning(cx, f, g, header) ==
  LET faces == Points(cx, f, g)
      template == header.templates[g.placed[1][1]]
      placed == <<template.lod, Shaped(template, Points(Untransformed, header, template)), g.placed[1][2]>>
  IN  [lod |-> IF g.placed = None THEN g.lod ELSE template.lod, kind |-> KindOf(g.type),
       shape |-> Shaped(g, [k \in DOMAIN faces |-> [rings |-> faces[k], surface |-> SurfaceAt(g, k)]]),
       placed |-> IF g.placed = None THEN None ELSE Some(placed)]

ColourMeaning(cx, f, g, header) ==
  LET colours(at, of, h) == {<<Points(at, of, h)[k], ColoursAt(of, h, k)>> : k \in DOMAIN Points(at, of, h)}
  IN  IF g.placed = None THEN colours(cx, f, g) ELSE colours(Untransformed, header, header.templates[g.placed[1][1]])

\* What a feature says of one of its objects, `name` giving its gml:ids.
Said(cx, f, id, header, name(_)) ==
  LET co == f.objects[id]
      names(ids) == {name(x) : x \in ToSet(ids)}
      children == Listing(co.children)
      place(a) == [postal |-> a.postal, location |-> {PointAt(cx, f, a.location[n]) : n \in DOMAIN a.location}]
  IN  [type |-> co.type,
       links |-> [parents |-> names(Listing(co.parents)), children |-> names(children),
                  roles |-> {<<name(children[n]), co.roles[n]>> : n \in {m \in DOMAIN co.roles : co.roles[m] # None}}],
       attributes |-> AttributeMeaning(co.attributes) \cup Inferred(co),
       extent |-> co.extent,
       addresses |-> [n \in DOMAIN co.addresses |-> place(co.addresses[n])],
       geometries |-> {GeometryMeaning(cx, f, co.geometries[n], header) : n \in DOMAIN co.geometries},
       colours |-> {ColourMeaning(cx, f, co.geometries[n], header) : n \in DOMAIN co.geometries}]

Objects == UNION {{<<n, id>> : id \in DOMAIN city.features[n].objects} : n \in DOMAIN city.features}
Classed == {at \in Objects : HasClass(city.exts, city.features[at[1]], at[2])}
Original(at) == city.features[at[1]].objects[at[2]]
ReadIn(at) == {k \in DOMAIN read : Ncname(at[2]) \in DOMAIN read[k].objects}

\* The losses that excuse a difference in each respect.
Excuses ==
  [links |-> {OutsideNote, StrayNote, UnheldNote, "objects without a class", "group members that have no class here",
              "links to children another parent in their feature holds", "parent links their parent does not list",
              "TIN reliefs without a surface of triangles"},
   attributes |-> {"null", "arrays of arrays", "dates and their midnight", BlankNote, NotFitting, "generic attributes whose value is a boolean",
                   "generic attribute sets with no member to write", "attributes that name no property of their class"},
   addresses |-> {"addresses of objects whose class has none"},
   geometries |-> {"semantic surfaces without a class", "semantic surfaces of points and lines", "extension attributes of surfaces",
                   "geometries whose LoD is written as its whole number", "geometries at a LoD",
                   "geometries at a LoD their class has no property for",
                   "geometries at a LoD their object already has one of that kind at",
                   "faces of boundary surfaces whose class has no geometry at their LoD"},
   colours |-> {"material targets the document does not write", "texture coordinates of rings the document does not write",
                "gml:ids that are not unique in the document", "geometries at a LoD",
                "geometries at a LoD their class has no property for",
                "geometries at a LoD their object already has one of that kind at"}]

\* Lost or changed without a note: a MultiSolid, which no property read has;
\* the geometry of a group, which is not read; surfaces beside a solid of
\* their LoD, of which only the solid is read.
KnownLost(co) ==
  \/ co.type = Group /\ co.geometries # <<>>
  \/ \E m, n \in DOMAIN co.geometries :
       LET g == co.geometries[m]
           h == co.geometries[n]
       IN  g.type = "MultiSolid" \/ (g.type \in SurfaceShapes /\ h.type \in SolidShapes /\ g.lod = h.lod)

\* Kept: an installation is inside or outside, there is no third.
KnownChanged(co) ==
  LET found == ValueOf(co.attributes, Plain("relationToConstruction"))
  IN  found # <<>> /\ found[1].value.val \notin {"inside", "outside"}

\* Why an object may not be read at all: it is not written, or as a member of
\* the document though its class is read in another object only.
Unplaced == {"TIN reliefs without a surface of triangles", StrayNote, UnheldNote}

Same(aspect, at, k) ==
  LET header == TemplatesMember(index.templates)
  IN  Said(Context(0), city.features[at[1]], at[2], city.header, Ncname)[aspect]
        = Said(Context(0), read[k], Ncname(at[2]), header, LAMBDA id : id)[aspect]

\* A city that is written and read back, or read from another program's
\* document of it, is the same in every respect in which no loss was noted:
\* each object, its type, whom it is linked to and as what, its attributes,
\* addresses, geometries with their surfaces, and their appearance.
RoundTrips ==
  stage = "done" =>
    \A at \in Classed :
      /\ Cardinality(ReadIn(at)) <= 1
      /\ \A k \in ReadIn(at) :
           /\ read[k].objects[Ncname(at[2])].type = Original(at).type
           /\ Same("extent", at, k)
           /\ \A aspect \in DOMAIN Excuses :
                ToSet(notes) \cap Excuses[aspect] = {} =>
                  \/ Same(aspect, at, k)
                  \/ aspect \in {"geometries", "colours"} /\ KnownLost(Original(at))
                  \/ aspect = "attributes" /\ KnownChanged(Original(at))
      /\ ReadIn(at) = {} => ToSet(notes) \cap Unplaced # {}

RECURSIVE Within(_)
Within(e) == <<e>> \o Every(e.kids, Within)

\* In a document that is written, each gml:id is of one element, and every
\* reference but a group's is to an element of the document; a solid's is to a
\* polygon of the same member.
RefersWithin ==
  LET own == city.document = None
      all == Every(document, Within)
      ids(elements) == {e.id[1] : e \in {x \in ToSet(elements) : x.id # None}}
      refers(e, names) == {x.href[1] : x \in {y \in ToSet(Within(e)) : y.name \in names /\ y.href # None}}
      identified == SelectSeq(all, LAMBDA e : e.id # None)
  IN  own /\ stage \notin {"write", "refused"} =>
        /\ Cardinality(ids(all)) = Len(identified)
        /\ \A n \in DOMAIN document :
             /\ refers(document[n], {"target", "textureCoordinates", "relativeGMLGeometry"}) \subseteq ids(all)
             /\ refers(document[n], {"surfaceMember", "baseSurface"}) \subseteq
                  ids(SelectSeq(Within(document[n]), LAMBDA e : e.name = "Polygon"))

\* Each object that has a class is written, once, whatever order the features
\* come in and whatever of their links is lost.
WrittenOnce ==
  LET all == Every(document, Within)
  IN  city.document = None /\ stage \notin {"write", "refused"} =>
        \A at \in Classed :
          \/ Len(SelectSeq(all, LAMBDA e : e.id = Some(Ncname(at[2])))) = 1
          \/ "TIN reliefs without a surface of triangles" \in ToSet(notes)

\* A tree is held only for a child or a parent it waits for, what waits is of
\* trees that are held, so that no claim finds its tree gone, and nothing is
\* waited for that is free to be taken.
HeldForReason ==
  LET awaits(k) == {c \in DOMAIN writer.awaited : writer.awaited[c].tree = k}
      standing == UNION {ToSet(writer.strays[c]) : c \in DOMAIN writer.strays}
  IN  stage = "write" =>
        /\ \A k \in DOMAIN writer.held :
             /\ writer.held[k].awaiting = Cardinality(awaits(k))
             /\ writer.held[k].stray <=> k \in standing
             /\ writer.held[k].awaiting > 0 \/ writer.held[k].stray
        /\ \A c \in DOMAIN writer.awaited :
             /\ writer.awaited[c].tree \in DOMAIN writer.held
             /\ writer.awaited[c].parent \in ObjectIds(writer.held[writer.awaited[c].tree].object)
             /\ c \notin DOMAIN writer.strays \cup writer.gone
        /\ standing \subseteq DOMAIN writer.held
        /\ DOMAIN writer.proxies \subseteq DOMAIN writer.strays
=============================================================================
