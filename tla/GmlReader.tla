------------------------------ MODULE GmlReader ------------------------------
(***************************************************************************)
(* Reading a CityGML 2.0 document (lib/citygml-rs/crates: citygml2/src/    *)
(* reader/{mod,walker,attributes}.rs, core/src/reader/{geometry,templates, *)
(* appearance,text,node,document}.rs, core/src/model).                     *)
(*                                                                         *)
(* A document is the sequence of the elements its root holds, as in        *)
(* GmlDocument.  A first pass gives its index: the [materials, textures]   *)
(* of the whole model, the <<group, member>> links, and the templates      *)
(* [id, element, geometry, appearance], element the property each is in.   *)
(*                                                                         *)
(* Left out: the nesting limits, what is counted of members that are not   *)
(* read, and numbers and matrices that do not parse, which are refused.    *)
(***************************************************************************)
EXTENDS GmlAssembly

Modules == {d[1] : d \in Classes} \cup {"Core", "App"}
IsModule(ns) == ns \in Modules
IsAde(ns) == ns \notin Modules \cup {"Gml"}
-----------------------------------------------------------------------------
(* Attributes *)

\* The properties that are not text.
Typed ==
  {<<"Building", "measuredHeight", "Float">>, <<"Building", "storeysAboveGround", "Int">>,
   <<"Building", "storeysBelowGround", "Int">>, <<"Building", "storeyHeightsAboveGround", "FloatList">>,
   <<"Building", "storeyHeightsBelowGround", "FloatList">>, <<"Bridge", "isMovable", "Bool">>,
   <<"Vegetation", "height", "Float">>, <<"Vegetation", "trunkDiameter", "Float">>,
   <<"Vegetation", "crownDiameter", "Float">>, <<"Vegetation", "averageHeight", "Float">>}

PropertyType(ns, name) ==
  LET types == {t \in Typed : t[1] = ns /\ t[2] = name}
  IN  IF types = {} THEN "Str" ELSE (CHOOSE t \in types : TRUE)[3]

GenericTypes ==
  [stringAttribute |-> "Str", dateAttribute |-> "Str", uriAttribute |-> "Str",
   intAttribute |-> "Int", doubleAttribute |-> "Float", measureAttribute |-> "Float"]

AsText(v) == IF v.kind \in TextKinds THEN v ELSE Valued("string", v.val)

\* What is written as a value, of the type of its property.
ToValue(v, type) ==
  CASE type = "Float" /\ v.kind \in {"int", "float"} -> Valued("float", v.val)
    [] type = "Int" /\ v.kind = "int" -> v
    [] type = "Bool" /\ v.kind = "bool" -> v
    [] type = "FloatList" /\ v.kind = "list" -> v
    [] OTHER -> AsText(v)

\* Whether an element is nothing but text.
HoldsText(e) == e.kids = <<>> /\ e.value # None /\ e.value[1].kind # "blank"

\* The attribute of a text-only property; none of another.
LeafAttribute(e, type) ==
  IF HoldsText(e)
  THEN <<[kind |-> "property", ns |-> e.ns, name |-> Plain(e.name), value |-> ToValue(e.value[1], type)]>>
  ELSE <<>>

RECURSIVE GenericAttribute(_)
\* A generic attribute, or a set of them; one without a name is dropped.
GenericAttribute(e) ==
  LET attribute(value) == <<[kind |-> "generic", ns |-> "Generics", name |-> e.of[1], value |-> value]>>
      members == Every(SelectSeq(e.kids, LAMBDA k : k.ns = "Generics"), GenericAttribute)
  IN  IF e.of = None THEN <<>>
      ELSE IF e.name = "genericAttributeSet" THEN attribute(Valued("set", members))
      ELSE IF e.name \in DOMAIN GenericTypes /\ HoldsText(e) THEN attribute(ToValue(e.value[1], GenericTypes[e.name]))
      ELSE <<>>

IsGeneric(e) == e.ns = "Generics" /\ (e.name = "genericAttributeSet" \/ e.name \in DOMAIN GenericTypes)

\* Whether an installation is inside its construction: what its class says.
Relation ==
  [BuildingInstallation |-> "outside", IntBuildingInstallation |-> "inside",
   BridgeInstallation |-> "outside", IntBridgeInstallation |-> "inside",
   TunnelInstallation |-> "outside", IntTunnelInstallation |-> "inside"]
RelationOf(class) ==
  IF IsModule(class.ns) /\ class.local \in DOMAIN Relation
  THEN <<[kind |-> "property", ns |-> "Construction", name |-> Plain("relationToConstruction"),
          value |-> Valued("word", Relation[class.local])]>>
  ELSE <<>>

RECURSIVE NodeOf(_)
\* An application's own element, as it is.
NodeOf(e) ==
  [class |-> QName(e.ns, e.name), text |-> IF HoldsText(e) THEN Some(AsText(e.value[1])) ELSE None,
   children |-> [k \in DOMAIN e.kids |-> NodeOf(e.kids[k])]]

\* The leaves that hold text, and the points of the location.
AddressIn(e) ==
  LET parts == Every(SelectSeq(e.kids, LAMBDA k : k.name = "Address"), LAMBDA k : k.kids)
      postal == SelectSeq(parts, LAMBDA k : k.name = "xalAddress")
  IN  [postal |-> IF postal = <<>> THEN <<>> ELSE postal[1].value[1],
       location |-> Every(SelectSeq(parts, LAMBDA k : k.name = "multiPoint"), PointsIn)]
-----------------------------------------------------------------------------
(* Appearance *)

\* A material with the polygons it targets; a texture with the rings its
\* coordinates are of, each without its closing pair.
MaterialIn(theme, d) == [theme |-> theme, definition |-> d.value[1], of |-> [k \in DOMAIN d.kids |-> d.kids[k].href[1]]]

RingIn(c) == <<[ring |-> c.href[1], uvs |-> Opened(c.value[1])]>>

TextureIn(theme, d) ==
  [theme |-> theme, definition |-> d.value[1], of |-> Every(d.kids, LAMBDA target : Every(target.kids, RingIn))]

\* One appearance's materials and textures, of its theme.
AppearanceIn(e) ==
  LET data(name) == SelectSeq(e.kids, LAMBDA d : d.ns = "App" /\ d.name = name)
  IN  [materials |-> Every(data("X3DMaterial"), LAMBDA d : << MaterialIn(e.of[1], d) >>),
       textures |-> Every(data("ParameterizedTexture"), LAMBDA d : << TextureIn(e.of[1], d) >>)]

Beside(a, b) == [materials |-> a.materials \o b.materials, textures |-> a.textures \o b.textures]

\* What targets any of the ids, with those targets alone.
ScopedFor(model, ids, rings) ==
  LET held(list, keep(_)) == SelectSeq([n \in DOMAIN list |-> [list[n] EXCEPT !.of = SelectSeq(@, keep)]],
                                       LAMBDA entry : entry.of # <<>>)
  IN  [materials |-> held(model.materials, LAMBDA id : id \in ids),
       textures |-> held(model.textures, LAMBDA u : u.ring \in rings)]

FacesOf(geometries) == Every(geometries, LAMBDA g : FlatFaces(g.solids))

\* The ids a material may target: of the faces and the aggregates around them.
TargetableIds(geometries) ==
  UNION {ToSet(face.id) \cup ToSet(face.groups) : face \in ToSet(FacesOf(geometries))}
RingIds(geometries) == UNION {UNION {ToSet(id) : id \in ToSet(face.ringIds)} : face \in ToSet(FacesOf(geometries))}

ScopedTo(model, geometries) == ScopedFor(model, TargetableIds(geometries), RingIds(geometries))
-----------------------------------------------------------------------------
(* Geometry properties *)

Curves == {"LineString", "Curve", "MultiCurve", "CompositeCurve", "OrientableCurve"}

\* A property of any geometry: a solid first, then surfaces, without their
\* links, lines and points.
AddFirst(b, lod, solid, surfaces, lines, points) ==
  IF solid # None THEN AddSolid(b, lod, solid[1])
  ELSE IF surfaces.found # <<>> THEN AddSurfaces(b, lod, surfaces)
  ELSE IF lines # <<>> THEN AddLines(b, lod, lines)
  ELSE AddPoints(b, lod, points)

AddAnyGeometry(b, lod, e) ==
  AddFirst(b, lod, SolidIn(e),
           OnlyPolygons(Collected([e EXCEPT !.kids = GmlKids(e, {"MultiSurface", "CompositeSurface", "Polygon"})])),
           Every(GmlKids(e, Curves), LinesIn),
           Every(GmlKids(e, {"Point", "MultiPoint"}), PointsIn))

Identity == "identity"
PlaceOf(templates, is(_)) == SelectSeq([t \in DOMAIN templates |-> t], LAMBDA t : is(templates[t]))

\* An instance of a template of this document, at a reference point.
AddImplicit(b, lod, e, templates) ==
  LET parts == Every(SelectSeq(e.kids, LAMBDA k : k.name = "ImplicitGeometry"), LAMBDA k : k.kids)
      all(name) == SelectSeq(parts, LAMBDA k : k.ns = "Core" /\ k.name = name)
      relative == Last(all("relativeGMLGeometry"))
      at == IF all("relativeGMLGeometry") = <<>> THEN <<>>
            ELSE IF relative.href # None THEN PlaceOf(templates, LAMBDA t : t.id = relative.href)
            ELSE PlaceOf(templates, LAMBDA t : t.element = relative)
      points == Every(all("referencePoint"), PointsIn)
      matrix == IF all("transformationMatrix") = <<>> THEN Identity ELSE Last(all("transformationMatrix")).value[1]
  IN  IF at = <<>> \/ points = <<>> THEN b ELSE AddInstance(b, lod, <<at[1], matrix>>, points[1])

Read == {"Solid", "MultiSurface", "FootPrint", "RoofEdge", "Geometry", "ImplicitRepresentation", "MultiCurve", "Network"}
IsGeometryProperty(e) == e.lod >= 0 /\ e.name \in Read

\* A roof edge waits for the end of its object.
AddGeometryProperty(b, e, templates) ==
  LET lod == 10 * e.lod
  IN  CASE e.name = "Solid" -> AddSolid(b, lod, SolidIn(e)[1])
        [] e.name \in {"MultiSurface", "FootPrint"} -> AddSurfaces(b, lod, Collected(e))
        [] e.name = "RoofEdge" -> b
        [] e.name = "Geometry" -> AddAnyGeometry(b, lod, e)
        [] e.name = "ImplicitRepresentation" -> AddImplicit(b, lod, e, templates)
        [] OTHER -> AddLines(b, lod, Every(e.kids, LinesIn))
-----------------------------------------------------------------------------
(* Boundary surfaces *)

IsSurfaceProperty(e) == e.name \in {"boundedBy", "trafficArea", "auxiliaryTrafficArea"}
Nestable == SurfaceNames \cup {"Door", "Window"}

\* A boundary surface's own property: GML's name and description, a generic
\* attribute, one of the core or of its owner's module.
SurfaceLeaf(e, ns) ==
  CASE e.ns = "Gml" /\ e.name \in {"name", "description"} -> LeafAttribute(e, "Str")
    [] IsGeneric(e) -> GenericAttribute(e)
    [] IsModule(e.ns) /\ e.ns \in {ns, "Core"} -> LeafAttribute(e, PropertyType(e.ns, e.name))
    [] OTHER -> <<>>

RECURSIVE ReadSurface(_, _, _, _, _)
\* What a boundary surface, or an opening of one, holds; ns the module of its
\* owner, own the namespace of the surface.
ReadSurface(b, surface, e, ns, own) ==
  LET geometry(k) == k.lod >= 0 /\ k.name \in {"MultiSurface", "Geometry", "Surface"} /\ k.ns \in {ns, own}
      kid(acc, k) ==
        LET nested == [acc EXCEPT !.surfaces = Append(@, [class |-> QName(ns, k.name), parent |-> Some(surface), attributes |-> <<>>])]
        IN  CASE geometry(k) -> AddBoundary(acc, surface, 10 * k.lod, Collected(k))
              [] k.ns = ns /\ k.name \in Nestable -> ReadSurface(nested, Len(nested.surfaces), k, ns, ns)
              [] k.ns = ns /\ k.name = "opening" -> ReadSurface(acc, surface, k, ns, own)
              [] OTHER -> [acc EXCEPT !.surfaces[surface].attributes = @ \o SurfaceLeaf(k, ns)]
  IN  FoldLeft(kid, b, e.kids)

\* A property of boundary surfaces: of its own namespace, or an application's.
ReadSurfaces(b, e) ==
  LET kid(acc, k) ==
        LET one == [acc EXCEPT !.surfaces = Append(@, [class |-> QName(k.ns, k.name), parent |-> None, attributes |-> <<>>])]
        IN  IF k.ns = e.ns \/ IsAde(k.ns) THEN ReadSurface(one, Len(one.surfaces), k, e.ns, k.ns) ELSE acc
  IN  FoldLeft(kid, b, e.kids)
-----------------------------------------------------------------------------
(* Objects *)

TopLevelClasses ==
  {<<"Building", "Building">>, <<"Bridge", "Bridge">>, <<"Tunnel", "Tunnel">>, <<"WaterBody", "WaterBody">>,
   <<"LandUse", "LandUse">>, <<"CityFurniture", "CityFurniture">>,
   <<"Vegetation", "SolitaryVegetationObject">>, <<"Vegetation", "PlantCover">>,
   <<"Generics", "GenericCityObject">>, <<"CityObjectGroup", "CityObjectGroup">>,
   <<"Transportation", "Road">>, <<"Transportation", "Railway">>, <<"Transportation", "Track">>,
   <<"Transportation", "Square">>, <<"Transportation", "TransportationComplex">>, <<"Relief", "TINRelief">>}

Parts == {"BuildingPart", "BridgePart", "TunnelPart"}
NestedClasses ==
  {<<"Building", name>> : name \in {"BuildingPart", "BuildingInstallation", "IntBuildingInstallation", "Room", "BuildingFurniture"}}
  \cup {<<"Bridge", name>> : name \in {"BridgePart", "BridgeInstallation", "IntBridgeInstallation",
                                       "BridgeConstructionElement", "BridgeRoom", "BridgeFurniture"}}
  \cup {<<"Tunnel", name>> : name \in {"TunnelPart", "TunnelInstallation", "IntTunnelInstallation",
                                       "HollowSpace", "TunnelFurniture"}}

IsTopLevel(e) == <<e.ns, e.name>> \in TopLevelClasses
IsMember(e) == IsTopLevel(e) \/ <<e.ns, e.name>> \in NestedClasses \/ IsAde(e.ns)

\* The properties that hold objects.
NestingProperties ==
  LET nests(content) == {content[k].name : k \in {n \in DOMAIN content : content[n].slot = "nest"}}
  IN  UNION {nests(Contents[d[4]]) : d \in Classes}

Push(b, attributes) == [b EXCEPT !.attributes = @ \o attributes]

RECURSIVE ReadObject(_, _)
\* An object in a property of its owner: a part, another object, or, of a class
\* not read, the surfaces in it.
ReadNested(b, e, property, templates) ==
  LET inside == e.ns = property.ns /\ <<e.ns, e.name>> \in NestedClasses
  IN  IF ~inside /\ ~IsAde(e.ns) THEN Register(b, Collected(e))
      ELSE AddOwned(b, ReadObject(e, templates), inside /\ e.name \in Parts)

\* A group's member.
ReadMember(b, e, templates) ==
  IF e.href # None THEN AddMemberRef(b, e.href[1], e.of)
  ELSE FoldLeft(LAMBDA acc, k : AddMember(acc, ReadObject(k, templates), e.of), b, SelectSeq(e.kids, IsMember))

\* A property of a module of CityGML.
ReadProperty(b, e, templates) ==
  CASE IsGeometryProperty(e) -> AddGeometryProperty(b, e, templates)
    [] e.ns = "Relief" /\ e.name \in {"lod", "tin"} -> b
    [] IsSurfaceProperty(e) -> ReadSurfaces(b, e)
    [] e.name = "address" -> [b EXCEPT !.addresses = Append(@, AddressIn(e))]
    [] e.name \in NestingProperties -> FoldLeft(LAMBDA acc, k : ReadNested(acc, k, e, templates), b, e.kids)
    [] OTHER -> Push(b, LeafAttribute(e, PropertyType(e.ns, e.name)))

\* What is read of an object whose element is in a namespace.
ReadKid(b, e, ns, templates) ==
  LET own == IsAde(e.ns) /\ e.ns = ns
      known == IsGeometryProperty(e) \/ IsSurfaceProperty(e)
  IN  CASE e.ns = "App" /\ e.name = "appearance" -> [b EXCEPT !.appearance = Beside(@, AppearanceIn(e))]
        [] IsGeneric(e) -> Push(b, GenericAttribute(e))
        [] e.ns = "Gml" /\ e.name \in {"name", "description"} -> Push(b, LeafAttribute(e, "Str"))
        [] e.ns = "Gml" /\ e.name = "boundedBy" -> [b EXCEPT !.extent = e.value]
        [] e.ns = "Gml" /\ e.name \notin {"name", "description", "boundedBy"} -> b
        [] e.ns = "CityObjectGroup" /\ e.name = "groupMember" -> ReadMember(b, e, templates)
        [] IsAde(e.ns) /\ ~(own /\ known) -> [b EXCEPT !.ade = Append(@, NodeOf(e))]
        [] OTHER -> ReadProperty(b, e, templates)

\* The roof edge, where nothing else is at its LoD, and the TIN of a relief.
EndObjectRead(b, e) ==
  LET roof == SelectSeq(e.kids, LAMBDA k : k.lod >= 0 /\ k.name = "RoofEdge")
      relief(name) == SelectSeq(e.kids, LAMBDA k : k.ns = "Relief" /\ k.name = name)
      lod == IF relief("lod") = <<>> THEN 10 ELSE 10 * Last(relief("lod")).value[1]
      roofed == IF roof = <<>> \/ HasLod(b.plain, 10 * roof[1].lod) THEN b
                ELSE AddSurfaces(b, 10 * roof[1].lod, Collected(roof[1]))
      tinned == IF relief("tin") = <<>> THEN roofed ELSE AddTin(roofed, lod, Collected(Last(relief("tin"))))
  IN  Push(tinned, RelationOf(QName(e.ns, e.name)))

\* An object, from what its element holds in order.
ReadObject(e, templates) ==
  EndObjectRead(FoldLeft(LAMBDA b, k : ReadKid(b, k, e.ns, templates), NewBuilder(e.id, QName(e.ns, e.name)), e.kids), e)
-----------------------------------------------------------------------------
(* The document *)

RECURSIVE ObjectsIn(_, _)
\* The elements read as objects: the members, through the features that hold
\* others, and the top-level ones inside a member of a class not read.
ObjectsIn(e, member) ==
  LET below(inside) == Every(e.kids, LAMBDA k : ObjectsIn(k, inside))
  IN  IF e.name = "cityObjectMember" \/ (e.ns = "Relief" /\ e.name = "reliefComponent") THEN below(TRUE)
      ELSE IF IsTopLevel(e) \/ (member /\ IsAde(e.ns)) THEN <<e>>
      ELSE below(FALSE)

RECURSIVE RelativeIn(_, _)
\* The relative geometries written where they are placed, each with its LoD.
RelativeIn(e, lod) ==
  LET at == IF e.lod >= 0 /\ e.name = "ImplicitRepresentation" THEN Some(10 * e.lod) ELSE lod
  IN  IF e.ns = "Gml" THEN <<>>
      ELSE IF lod # None /\ e.ns = "Core" /\ e.name = "relativeGMLGeometry" /\ e.href = None
      THEN << [lod |-> lod[1], element |-> e] >>
      ELSE Every(e.kids, LAMBDA k : RelativeIn(k, at))

RECURSIVE LinksIn(_, _)
\* What each group refers to: <<group, member>>.
LinksIn(e, group) ==
  LET at == IF e.ns = "CityObjectGroup" /\ e.name = "CityObjectGroup" THEN e.id ELSE group
      own == IF e.name = "groupMember" /\ e.href # None /\ group # None /\ group # e.href
             THEN << <<group[1], e.href[1]>> >> ELSE <<>>
  IN  IF e.ns = "Gml" THEN <<>> ELSE own \o Every(e.kids, LAMBDA k : LinksIn(k, at))

RECURSIVE ModelAppearanceIn(_)
ModelAppearanceIn(e) ==
  IF e.ns = "Gml" THEN <<>>
  ELSE IF e.ns = "App" /\ e.name = "appearanceMember" THEN <<AppearanceIn(e)>>
  ELSE Every(e.kids, ModelAppearanceIn)

\* A relative geometry without a shape is no template.
TemplateIn(relative, model, id, geometries) ==
  IF geometries = <<>> THEN <<>>
  ELSE <<[id |-> id, element |-> relative.element, geometry |-> Last(geometries), appearance |-> ScopedTo(model, geometries)]>>

TemplateOf(relative, model) ==
  LET id == IF relative.element.kids = <<>> THEN None ELSE relative.element.kids[1].id
  IN  TemplateIn(relative, model, id,
        GeometriesOf(AddAnyGeometry(NewBuilder(id, QName("Core", "ImplicitGeometry")), relative.lod, relative.element)))

\* The first pass over a document.
IndexOf(document) ==
  LET model == FoldLeft(Beside, [materials |-> <<>>, textures |-> <<>>], Every(document, ModelAppearanceIn))
  IN  [appearance |-> model, links |-> Every(document, LAMBDA e : LinksIn(e, None)),
       templates |-> Every(Every(document, LAMBDA e : RelativeIn(e, None)), LAMBDA r : TemplateOf(r, model))]

\* The groups that refer to an object, each once.
GroupsAround(index, id) ==
  LET links == SelectSeq(index.links, LAMBDA link : Some(link[2]) = id)
  IN  FoldLeft(LAMBDA seen, link : IF Contains(seen, link[1]) THEN seen ELSE Append(seen, link[1]), <<>>, links)

RECURSIVE Completed(_, _)
\* The model's appearance ahead of the object's own, and the groups around it.
Completed(index, o) ==
  [o EXCEPT !.appearance = Beside(ScopedTo(index.appearance, o.geometries), @),
            !.groups = GroupsAround(index, o.id),
            !.children = [c \in DOMAIN @ |-> Completed(index, @[c])]]
=============================================================================
