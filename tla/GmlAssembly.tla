----------------------------- MODULE GmlAssembly -----------------------------
(***************************************************************************)
(* Reading GML surfaces and solids, and an object from what was read of    *)
(* its subtree: every reference between surfaces resolved, and one surface *)
(* or solid geometry at each LoD                                           *)
(* (lib/citygml-rs/crates/core/src/gml: read.rs, assemble.rs).             *)
(*                                                                         *)
(* An element is as in GmlDocument.  A polygon is [id, rings, ringIds,     *)
(* groups], groups the identified aggregates around it, innermost first; a *)
(* reference [reverse, xlink, polygon], xlink or polygon given.  A builder *)
(* keeps the solids [lod, type, solids], the surfaces that stand alone     *)
(* [lod, refs], the geometries without references, what the boundary       *)
(* surfaces hold [surface, lod, ref], the polygons and aggregates by their *)
(* gml:ids, and the boundary surface of each polygon's id.                 *)
(*                                                                         *)
(* Left out: elements without what their type requires, which are refused; *)
(* the warnings; and the arena that holds an aggregate's polygons, which   *)
(* are in its members here.                                                *)
(***************************************************************************)
EXTENDS GmlClasses, Functions

CONSTANT MaxXlinkDepth  \* how many aggregates lead from one into the next

ASSUME MaxXlinkDepthAssumption == MaxXlinkDepth \in Nat \ {0}

Unlinked(polygon) == [reverse |-> FALSE, xlink |-> None, polygon |-> Some(polygon)]
Linked(id, reverse) == [reverse |-> reverse, xlink |-> Some(id), polygon |-> None]

GmlKids(el, names) == SelectSeq(el.kids, LAMBDA e : e.ns = "Gml" /\ e.name \in names)

Every(seq, Op(_)) == FlattenSeq([k \in DOMAIN seq |-> Op(seq[k])])

-----------------------------------------------------------------------------
(* Points, rings, polygons *)

Positioned == {"LineString", "LineStringSegment", "exterior", "interior"}

RECURSIVE PointsIn(_)
\* Every coordinate inside an element: of a point, or the list of a line, a
\* segment of a curve or a ring.
PointsIn(el) ==
  IF el.ns = "Gml" /\ el.name = "Point" THEN el.value
  ELSE IF el.ns = "Gml" /\ el.name \in Positioned /\ el.value # None THEN el.value[1]
  ELSE Every(el.kids, PointsIn)

\* A line string, or a curve with its segments joined: a line without the
\* points that repeat where they join, of two points or more.
LineOf(el) ==
  LET points == PointsIn(el)
      line == FoldLeft(LAMBDA seen, p : IF seen # <<>> /\ Last(seen) = p THEN seen ELSE Append(seen, p), <<>>, points)
  IN  IF Len(line) >= 2 THEN <<line>> ELSE <<>>

RECURSIVE LinesIn(_)
LinesIn(el) ==
  IF el.ns = "Gml" /\ el.name \in {"LineString", "Curve"} THEN LineOf(el) ELSE Every(el.kids, LinesIn)

\* Without the closing point.
Opened(points) == IF Len(points) >= 2 /\ points[1] = Last(points) THEN Front(points) ELSE points

\* The last of several exteriors, and all the interiors.
PolygonOf(el, groups) ==
  LET rings == <<Last(GmlKids(el, {"exterior"}))>> \o GmlKids(el, {"interior"})
  IN  [id |-> el.id, rings |-> [r \in DOMAIN rings |-> Opened(rings[r].value[1])],
       ringIds |-> [r \in DOMAIN rings |-> rings[r].id], groups |-> groups]
-----------------------------------------------------------------------------
(* What a surface geometry holds: [found, members, aggregates] *)

RECURSIVE Harvest(_, _, _)
\* The polygons and links found; each identified aggregate with its members,
\* those in an identified aggregate inside it by that one's id.  A polygon is
\* found in its own orientation, a link in that of the surfaces around it.
Harvest(el, open, flip) ==
  LET gml == el.ns = "Gml"
      one(ref) == [found |-> <<ref>>, members |-> <<ref>>, aggregates |-> <<>>]
      identified == /\ gml /\ el.id # None
                    /\ el.name \in {"CompositeSurface", "MultiSurface", "TriangulatedSurface", "Tin"}
      flips == gml /\ el.name = "OrientableSurface" /\ el.of = Some("-")
      inside(e) == Harvest(e, IF identified THEN el.id \o open ELSE open, flip # flips)
      below == [k \in DOMAIN el.kids |-> inside(el.kids[k])]
      members == Every(below, LAMBDA h : h.members)
  IN  IF gml /\ el.name \in {"Polygon", "Triangle", "PolygonPatch"} THEN one(Unlinked(PolygonOf(el, open)))
      ELSE IF gml /\ el.name \in {"surfaceMember", "baseSurface"} /\ el.href # None THEN one(Linked(el.href[1], flip))
      ELSE [found |-> Every(below, LAMBDA h : h.found),
            members |-> IF identified THEN <<Linked(el.id[1], FALSE)>> ELSE members,
            aggregates |-> Every(below, LAMBDA h : h.aggregates)
                           \o IF identified THEN <<[id |-> el.id[1], members |-> members]>> ELSE <<>>]

\* What is inside a property: it is harvested from, and is itself no surface.
Collected(property) == Harvest([property EXCEPT !.name = ""], <<>>, FALSE)
IsPolygon(ref) == ref.polygon # None
OnlyPolygons(collected) == [collected EXCEPT !.found = SelectSeq(@, IsPolygon), !.aggregates = <<>>]
-----------------------------------------------------------------------------
(* Solids: [type, solids], solids of shells of references *)

RECURSIVE BaseOf(_)
\* The surface an orientable surface holds, flipped as often as it is minus.
BaseOf(el) ==
  LET base == Last(GmlKids(el, {"baseSurface"}))
      flip == el.of = Some("-")
      inner == Last(GmlKids(base, {"Polygon", "OrientableSurface"}))
      of == IF inner.name = "Polygon" THEN Unlinked(PolygonOf(inner, <<>>)) ELSE BaseOf(inner)
  IN  IF base.href # None THEN Linked(base.href[1], flip) ELSE [of EXCEPT !.reverse = @ # flip]

RECURSIVE ShellMembers(_)
ShellMembers(el) ==
  LET content(e) == CASE e.name = "Polygon" -> <<Unlinked(PolygonOf(e, <<>>))>>
                      [] e.name = "OrientableSurface" -> <<BaseOf(e)>>
                      [] OTHER -> ShellMembers(e)
      member(m) == IF m.href # None THEN <<Linked(m.href[1], FALSE)>>
                   ELSE Every(GmlKids(m, {"Polygon", "OrientableSurface", "CompositeSurface", "MultiSurface"}), content)
  IN  Every(GmlKids(el, {"surfaceMember"}), member)

ShellOf(el) ==
  LET held == GmlKids(el, {"Shell", "CompositeSurface", "Surface"})
  IN  IF held = <<>> THEN <<>> ELSE ShellMembers(Last(held))

SolidOf(el) ==
  LET exterior == GmlKids(el, {"exterior"})
      shells == (IF exterior = <<>> THEN <<>> ELSE <<Last(exterior)>>) \o GmlKids(el, {"interior"})
  IN  [j \in DOMAIN shells |-> ShellOf(shells[j])]

\* The solid a property holds, the last of several.
SolidIn(property) ==
  LET held == GmlKids(property, {"Solid", "CompositeSolid"})
      members == GmlKids(Last(held), {"solidMember"})
  IN  IF held = <<>> THEN None
      ELSE Some([type |-> Last(held).name,
                 solids |-> IF Last(held).name = "Solid" THEN <<SolidOf(Last(held))>>
                            ELSE [i \in DOMAIN members |-> SolidOf(Last(GmlKids(members[i], {"Solid"})))]])
-----------------------------------------------------------------------------
(* Builders *)

NewBuilder(id, class) ==
  [id |-> id, class |-> class, solids |-> <<>>, plain |-> <<>>, direct |-> <<>>, boundary |-> <<>>,
   polygons |-> <<>>, aggregates |-> <<>>, semantic |-> <<>>, parsed |-> 0, surfaces |-> <<>>, attributes |-> <<>>,
   ade |-> <<>>, addresses |-> <<>>, extent |-> None, children |-> <<>>, members |-> <<>>,
   appearance |-> [materials |-> <<>>, textures |-> <<>>]]

PolygonsIn(refs) == LET held == SelectSeq(refs, IsPolygon) IN [k \in DOMAIN held |-> held[k].polygon[1]]
Identify(f, polygons) ==
  FoldLeft(LAMBDA acc, p : IF p.id = None THEN acc ELSE (p.id[1] :> p) @@ acc, f, polygons)

\* Harvested geometry is counted, and may be referred to.
Register(b, collected) ==
  [b EXCEPT !.parsed = @ + Len(PolygonsIn(collected.found)),
            !.polygons = Identify(@, PolygonsIn(collected.found)),
            !.aggregates = FoldLeft(LAMBDA acc, a : (a.id :> a.members) @@ acc, @, collected.aggregates)]

HasLod(list, lod) == \E n \in DOMAIN list : list[n].lod = lod

AddSolid(b, lod, solid) == IF HasLod(b.solids, lod) THEN b ELSE [b EXCEPT !.solids = Append(@, [lod |-> lod] @@ solid)]

AddSurfaces(b, lod, collected) ==
  [Register(b, collected) EXCEPT
     !.plain = @ \o IF collected.found = <<>> THEN <<>> ELSE <<[lod |-> lod, refs |-> collected.found]>>]

\* A geometry without references, the first at its LoD.
AddDirect(b, lod, type, faces, placed) ==
  IF HasLod(b.direct, lod) \/ faces = <<>> THEN b
  ELSE [b EXCEPT !.direct = Append(@, [lod |-> lod, type |-> type, placed |-> placed, solids |-> << <<faces>> >>])]

\* A point or a line is a face of one ring.
Shapeless(ring) ==
  [rings |-> <<ring>>, id |-> None, ringIds |-> <<None>>, reversed |-> FALSE, surface |-> None, groups |-> <<>>]
AddPoints(b, lod, points) == AddDirect(b, lod, "MultiPoint", [n \in DOMAIN points |-> Shapeless(<<points[n]>>)], None)
AddLines(b, lod, lines) == AddDirect(b, lod, "MultiLineString", [n \in DOMAIN lines |-> Shapeless(lines[n])], None)
AddInstance(b, lod, placed, point) == AddDirect(b, lod, "Instance", <<Shapeless(<<point>>)>>, Some(placed))

PlainFace(polygon, reversed, surface) ==
  [rings |-> polygon.rings, id |-> polygon.id, ringIds |-> polygon.ringIds, reversed |-> reversed,
   surface |-> surface, groups |-> polygon.groups]

\* Only the aggregates of a TIN may be referred to.
AddTin(b, lod, collected) ==
  LET polygons == PolygonsIn(collected.found)
      kept == [Register(b, collected) EXCEPT !.polygons = b.polygons]
  IN  AddDirect(kept, lod, "CompositeSurface", [n \in DOMAIN polygons |-> PlainFace(polygons[n], FALSE, None)], None)

RefId(ref) == IF ref.xlink # None THEN ref.xlink ELSE ref.polygon[1].id

\* What a boundary surface holds at a LoD; what it refers to is of it too.
AddBoundary(b, surface, lod, collected) ==
  LET named == {RefId(collected.found[n]) : n \in DOMAIN collected.found} \ {None}
  IN  [Register(b, collected) EXCEPT
         !.semantic = [id \in {x[1] : x \in named} |-> surface] @@ @,
         !.boundary = @ \o [n \in DOMAIN collected.found |-> [surface |-> surface, lod |-> lod, ref |-> collected.found[n]]]]

AddPart(b, part) == [b EXCEPT !.children = Append(@, part)]

\* What the child has may be referred to from here; nothing of it is drawn.
AddChild(b, child) ==
  [b EXCEPT !.polygons = @ @@ child.polygons, !.aggregates = @ @@ child.aggregates, !.children = Append(@, child)]

AddOwned(b, child, isPart) == IF isPart THEN AddPart(b, child) ELSE AddChild(b, child)

AddMember(b, member, role) ==
  [b EXCEPT !.members = Append(@, [child |-> Some(Len(b.children) + 1), id |-> None, role |-> role]),
            !.children = Append(@, member)]

\* Once, and not to the group itself.
AddMemberRef(b, id, role) ==
  IF b.id = Some(id) \/ \E n \in DOMAIN b.members : b.members[n].id = Some(id) THEN b
  ELSE [b EXCEPT !.members = Append(@, [child |-> None, id |-> Some(id), role |-> role])]
-----------------------------------------------------------------------------
(* What a link stands for *)

IsAggregate(b, id) == id \in DOMAIN b.aggregates /\ id \notin DOMAIN b.polygons

LinksOf(refs) == {refs[n].xlink[1] : n \in {m \in DOMAIN refs : refs[m].xlink # None}}

\* An aggregate is reached again through its own members, or through more
\* aggregates than are followed.
Endless(b, id) ==
  LET below(ids) == {x \in UNION {LinksOf(b.aggregates[a]) : a \in ids} : IsAggregate(b, x)}
      steps == Min({MaxXlinkDepth, Cardinality(DOMAIN b.aggregates)})
  IN  FoldLeft(LAMBDA at, n : below(at), {id}, [n \in 1 .. steps |-> n]) # {}

RECURSIVE Expand(_, _)
\* A link to an aggregate as a reference to each of its polygons, in the
\* link's orientation.
Expand(b, ref) ==
  LET member(m) ==
        LET id == m.polygon[1].id
        IN  IF m.xlink # None THEN Expand(b, Linked(m.xlink[1], ref.reverse))
            ELSE IF id # None /\ id[1] \in DOMAIN b.polygons THEN <<Linked(id[1], ref.reverse)>>
            ELSE <<[m EXCEPT !.reverse = ref.reverse]>>
  IN  IF ref.xlink = None \/ ~IsAggregate(b, ref.xlink[1]) THEN <<ref>>
      ELSE Every(b.aggregates[ref.xlink[1]], member)

Resolved(b, ref) == ref.xlink = None \/ ref.xlink[1] \in DOMAIN b.polygons
PolygonAt(b, ref) == IF ref.xlink = None THEN ref.polygon[1] ELSE b.polygons[ref.xlink[1]]

\* The faces of a surface geometry's member, without what resolves to none.
FacesAt(b, entry) ==
  LET refs == SelectSeq(Expand(b, entry.ref), LAMBDA r : Resolved(b, r))
  IN  [n \in DOMAIN refs |-> PlainFace(PolygonAt(b, refs[n]), refs[n].reverse, entry.surface)]

\* A face of a solid is of the boundary surface that has its id.
SolidFaces(b, ref) ==
  LET refs == Expand(b, ref)
      surface(id) == IF id # None /\ id[1] \in DOMAIN b.semantic THEN Some(b.semantic[id[1]]) ELSE None
      face(r) == [PlainFace(PolygonAt(b, r), r.reverse, surface(RefId(r))) EXCEPT !.id = RefId(r)]
  IN  [n \in DOMAIN refs |-> face(refs[n])]
-----------------------------------------------------------------------------
(* The geometries of an object *)

\* None twice by id.
Once(entries) ==
  LET kept == SelectSeq([n \in DOMAIN entries |-> n],
                        LAMBDA n : \/ RefId(entries[n].ref) = None
                                   \/ \A m \in 1 .. n - 1 : RefId(entries[m].ref) # RefId(entries[n].ref))
  IN  [k \in DOMAIN kept |-> entries[kept[k]]]

PlainEntries(plain) == [n \in DOMAIN plain.refs |-> [surface |-> None, ref |-> plain.refs[n]]]

\* The polygons of boundary surfaces, then their links.
BoundaryInOrder(b) ==
  SelectSeq(b.boundary, LAMBDA e : IsPolygon(e.ref)) \o SelectSeq(b.boundary, LAMBDA e : ~IsPolygon(e.ref))

BoundaryEntries(b, lod) ==
  LET held == SelectSeq(BoundaryInOrder(b), LAMBDA e : e.lod = lod)
      plain == SelectSeq(b.plain, LAMBDA p : p.lod = lod)
  IN  Once([n \in DOMAIN held |-> [surface |-> Some(held[n].surface), ref |-> held[n].ref]] \o Every(plain, PlainEntries))

\* The surface geometries, each by its members: those that stand alone, at
\* the LoDs that have neither a solid nor boundary surfaces, then those of the
\* boundary surfaces at the LoDs that have no solid.
SurfaceLists(b) ==
  LET alone == SelectSeq(b.plain, LAMBDA p : ~HasLod(b.boundary, p.lod) /\ ~HasLod(b.solids, p.lod))
      bounded == FoldLeft(LAMBDA seen, e : IF Contains(seen, e.lod) \/ HasLod(b.solids, e.lod) THEN seen ELSE Append(seen, e.lod),
                          <<>>, BoundaryInOrder(b))
  IN  [n \in DOMAIN alone |-> [lod |-> alone[n].lod, entries |-> Once(PlainEntries(alone[n]))]]
      \o [n \in DOMAIN bounded |-> [lod |-> bounded[n], entries |-> BoundaryEntries(b, bounded[n])]]

\* Surfaces are one kind and solids one, whatever holds them.
KindOf(type) ==
  CASE type \in {"MultiSurface", "CompositeSurface"} -> "surfaces"
    [] type \in {"Solid", "CompositeSolid"} -> "solids"
    [] OTHER -> type

GeometriesOf(b) ==
  LET solid(s) == <<[lod |-> s.lod, type |-> s.type, placed |-> None,
                     solids |-> [i \in DOMAIN s.solids |-> [j \in DOMAIN s.solids[i] |->
                                  Every(s.solids[i][j], LAMBDA ref : SolidFaces(b, ref))]]]>>
      surfaces(list) ==
        LET faces == Every(list.entries, LAMBDA entry : FacesAt(b, entry))
        IN  IF faces = <<>> THEN <<>>
            ELSE <<[lod |-> list.lod, type |-> "MultiSurface", placed |-> None, solids |-> << <<faces>> >>]>>
      first == Every(b.solids, solid) \o Every(SurfaceLists(b), surfaces)
      beside(g) == \A n \in DOMAIN first : first[n].lod # g.lod \/ KindOf(first[n].type) # KindOf(g.type)
  IN  first \o SelectSeq(b.direct, beside)
-----------------------------------------------------------------------------
(* A whole object, with its children *)

SolidRefs(b) == Every(b.solids, LAMBDA s : FlatFaces(s.solids))

\* The links of an object, which it may take from those around it.
Needs(b) ==
  LET plain == Every(b.plain, LAMBDA p : p.refs)
      held == [n \in DOMAIN b.boundary |-> b.boundary[n].ref]
  IN  LinksOf(SolidRefs(b)) \cup LinksOf(plain) \cup LinksOf(held)
      \cup UNION {LinksOf(b.aggregates[a]) : a \in DOMAIN b.aggregates}

RECURSIVE Inherit(_, _, _)
\* What is needed and not the object's own, from the nearest that has it.
Inherit(b, pending, outer) ==
  LET id == CHOOSE x \in pending : TRUE
      rest == pending \ {id}
      has == SelectSeq(outer, LAMBDA t : id \in DOMAIN t.polygons \/ id \in DOMAIN t.aggregates)
  IN  IF pending = {} THEN b
      ELSE IF id \in DOMAIN b.polygons \/ id \in DOMAIN b.aggregates \/ has = <<>> THEN Inherit(b, rest, outer)
      ELSE IF id \in DOMAIN has[1].polygons
      THEN Inherit([b EXCEPT !.polygons = (id :> has[1].polygons[id]) @@ @], rest, outer)
      ELSE Inherit([b EXCEPT !.aggregates = (id :> has[1].aggregates[id]) @@ @],
                   rest \cup LinksOf(has[1].aggregates[id]), outer)

RECURSIVE Lent(_, _)
\* The object with children that have what they need of those around them.
Lent(b, outer) ==
  LET around == <<b>> \o outer
  IN  [b EXCEPT !.children = [c \in DOMAIN @ |-> Lent(Inherit(@[c], Needs(@[c]), around), around)]]

RECURSIVE Tree(_)
Tree(b) == <<b>> \o Every(b.children, Tree)

\* The polygons an object defines pay for four references each to the
\* aggregates of the document so far.  They are granted before the first of
\* its references is charged, and one that cannot be paid for ends the
\* document, so that what the whole object costs may be charged at once.
Granted(b) == 4 * FoldLeft(LAMBDA sum, one : sum + one.parsed, 0, Tree(b))

Followed(b) == SolidRefs(b) \o Every(SurfaceLists(b), LAMBDA list : [n \in DOMAIN list.entries |-> list.entries[n].ref])
Charged(b) ==
  LET links(one) == SelectSeq(Followed(one), LAMBDA r : r.xlink # None /\ IsAggregate(one, r.xlink[1]))
      cost(one) == FoldLeft(LAMBDA sum, r : sum + Len(Expand(one, r)), 0, links(one))
  IN  FoldLeft(LAMBDA sum, one : sum + cost(one), 0, Tree(b))

\* A chain of aggregates too long to follow, or a face of a solid that is nowhere.
Unresolvable(b) ==
  \E one \in ToSet(Tree(b)) :
    \/ \E id \in LinksOf(Followed(one)) : IsAggregate(one, id) /\ Endless(one, id)
    \/ \E ref \in ToSet(Every(SolidRefs(one), LAMBDA r : Expand(one, r))) : ~Resolved(one, ref)

RECURSIVE Assembled(_)
Assembled(b) ==
  [id |-> b.id, class |-> b.class, attributes |-> b.attributes, ade |-> b.ade, addresses |-> b.addresses,
   extent |-> b.extent, geometries |-> GeometriesOf(b), surfaces |-> b.surfaces, appearance |-> b.appearance,
   children |-> [c \in DOMAIN b.children |-> Assembled(b.children[c])], members |-> b.members, groups |-> <<>>]
=============================================================================
