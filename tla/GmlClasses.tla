------------------------------ MODULE GmlClasses ------------------------------
(***************************************************************************)
(* What CityGML 2.0 has a place for: the content of each class in the      *)
(* order of its schema, the boundary surfaces, and the CityJSON names they *)
(* are written for (lib/citygml-rs/crates/citygml2/src/writer/schema.rs).  *)
(*                                                                         *)
(* A class is [ns, local]; ns is a module, or the name of the extension    *)
(* whose namespace it is of.  A geometry property is <<lod, what>>         *)
(* ("lod2MultiSurface" is <<2, "MultiSurface">>), a group's <<-1,          *)
(* "geometry">>.  The places of an application's own properties are left   *)
(* out: nothing but their order depends on them.                           *)
(***************************************************************************)
EXTENDS Integers, Sequences, FiniteSets, SequencesExt

None == <<>>
Some(x) == <<x>>

QName(ns, local) == [ns |-> ns, local |-> local]

\* A name of CityJSON's, of an extension if it has a plus; a value.
Plain(word) == [plus |-> FALSE, word |-> word]
Plus(word) == [plus |-> TRUE, word |-> word]
Valued(kind, val) == [kind |-> kind, val |-> val]
TextKinds == {"string", "word", "blank", "date", "midnight", "instant", "year"}

\* An entry of a content model: its kind, its name, what a value is or which
\* classes it holds, and whether it repeats.
Slot(slot, name, of, many) == [slot |-> slot, name |-> name, of |-> of, many |-> many]

Value(name, kind) == Slot("value", name, kind, FALSE)
Values(name, kind) == Slot("value", name, kind, TRUE)
Geometry(lod, what) == Slot("geometry", <<lod, what>>, {}, FALSE)
Surfaces(name) == Slot("surfaces", name, {}, TRUE)
Nest(name, class) == Slot("nest", name, {class}, TRUE)
Address == Slot("address", "address", {}, TRUE)
Member == Slot("member", "groupMember", {}, TRUE)
Opening == Slot("opening", "opening", {}, TRUE)
ReliefLod == Slot("reliefLod", "lod", {}, FALSE)
Tin == Slot("tin", "tin", {}, FALSE)

\* The position of a face among all the faces of solids of shells.
NumberOf(solids, i, j, k) ==
  Len(FlattenSeq(FlattenSeq(SubSeq(solids, 1, i - 1)))) + Len(FlattenSeq(SubSeq(solids[i], 1, j - 1))) + k

\* Solids of shells with the faces of a flat list.
Refaced(solids, flat) ==
  [i \in DOMAIN solids |-> [j \in DOMAIN solids[i] |-> [k \in DOMAIN solids[i][j] |-> flat[NumberOf(solids, i, j, k)]]]]

FlatFaces(solids) == FlattenSeq(FlattenSeq(solids))

\* The geometry properties `what` of a LoD; a property of several LoDs.
At(lod, what) == [k \in DOMAIN what |-> Geometry(lod, what[k])]
Over(first, last, what) == [k \in 1 .. last - first + 1 |-> Geometry(first + k - 1, what)]

Cfu == <<Value("class", "Text"), Values("function", "Text"), Values("usage", "Text")>>
Built == <<Value("yearOfConstruction", "Year"), Value("yearOfDemolition", "Year")>>

\* The geometry of the outside of a building, bridge or tunnel.
Lod1Outside == At(1, <<"Solid", "MultiSurface", "TerrainIntersection">>)
Outside(lod) == At(lod, <<"Solid", "MultiSurface", "MultiCurve", "TerrainIntersection">>)
-----------------------------------------------------------------------------
(* The content models *)

AbstractBuilding ==
  Cfu \o Built
  \o <<Value("roofType", "Text"), Value("measuredHeight", "Number"),
       Value("storeysAboveGround", "Count"), Value("storeysBelowGround", "Count"),
       Value("storeyHeightsAboveGround", "MeasureList"), Value("storeyHeightsBelowGround", "MeasureList")>>
  \o At(0, <<"FootPrint", "RoofEdge">>) \o Lod1Outside \o Outside(2)
  \o <<Nest("outerBuildingInstallation", "BuildingInstallation"),
       Nest("interiorBuildingInstallation", "IntBuildingInstallation"), Surfaces("boundedBy")>>
  \o Outside(3) \o Outside(4)
  \o <<Nest("interiorRoom", "Room"), Nest("consistsOfBuildingPart", "BuildingPart"), Address>>

AbstractBridge ==
  Cfu \o Built \o <<Value("isMovable", "Boolean")>> \o Lod1Outside \o Outside(2)
  \o <<Nest("outerBridgeConstruction", "BridgeConstructionElement"),
       Nest("outerBridgeInstallation", "BridgeInstallation"),
       Nest("interiorBridgeInstallation", "IntBridgeInstallation"), Surfaces("boundedBy")>>
  \o Outside(3) \o Outside(4)
  \o <<Nest("interiorBridgeRoom", "BridgeRoom"), Nest("consistsOfBridgePart", "BridgePart"), Address>>

AbstractTunnel ==
  Cfu \o Built \o Lod1Outside \o Outside(2)
  \o <<Nest("outerTunnelInstallation", "TunnelInstallation"),
       Nest("interiorTunnelInstallation", "IntTunnelInstallation"), Surfaces("boundedBy")>>
  \o Outside(3) \o Outside(4)
  \o <<Nest("interiorHollowSpace", "HollowSpace"), Nest("consistsOfTunnelPart", "TunnelPart")>>

Installation ==
  Cfu \o Over(2, 4, "Geometry") \o Over(2, 4, "ImplicitRepresentation") \o <<Surfaces("boundedBy")>>

InteriorInstallation == Cfu \o At(4, <<"Geometry", "ImplicitRepresentation">>) \o <<Surfaces("boundedBy")>>

Furniture == Cfu \o At(4, <<"Geometry", "ImplicitRepresentation">>)

Room ==
  Cfu \o At(4, <<"Solid", "MultiSurface">>)
  \o <<Surfaces("boundedBy"), Nest("interiorFurniture", "BuildingFurniture"),
       Nest("roomInstallation", "IntBuildingInstallation")>>

BridgeRoom ==
  Cfu \o At(4, <<"Solid", "MultiSurface">>)
  \o <<Surfaces("boundedBy"), Nest("interiorFurniture", "BridgeFurniture"),
       Nest("bridgeRoomInstallation", "IntBridgeInstallation")>>

HollowSpace ==
  Cfu \o At(4, <<"Solid", "MultiSurface">>)
  \o <<Surfaces("boundedBy"), Nest("interiorFurniture", "TunnelFurniture"),
       Nest("hollowSpaceInstallation", "IntTunnelInstallation")>>

\* An object with a geometry of any kind at each LoD from the first on.
Anywhere(first) ==
  Over(first, 4, "Geometry") \o Over(first, 4, "TerrainIntersection") \o Over(first, 4, "ImplicitRepresentation")

BridgeConstructionElement == Cfu \o Anywhere(1) \o <<Surfaces("boundedBy")>>
CityFurniture == Cfu \o Anywhere(1)
GenericCityObject == Cfu \o Anywhere(0)

SolitaryVegetationObject ==
  Cfu \o <<Value("species", "Text"), Value("height", "Number"),
           Value("trunkDiameter", "Number"), Value("crownDiameter", "Number")>>
  \o Over(1, 4, "Geometry") \o Over(1, 4, "ImplicitRepresentation")

PlantCover == Cfu \o <<Value("averageHeight", "Number")>> \o Over(1, 4, "MultiSurface") \o Over(1, 4, "MultiSolid")

WaterBody ==
  Cfu \o At(0, <<"MultiCurve", "MultiSurface">>) \o At(1, <<"MultiCurve", "MultiSurface", "Solid">>)
  \o Over(2, 4, "Solid") \o <<Surfaces("boundedBy")>>

LandUse == Cfu \o Over(0, 4, "MultiSurface")

TransportationComplex ==
  Cfu \o <<Surfaces("trafficArea"), Surfaces("auxiliaryTrafficArea"), Geometry(0, "Network")>>
  \o Over(1, 4, "MultiSurface")

CityObjectGroup == Cfu \o <<Member, Geometry(-1, "geometry")>>
TinRelief == <<ReliefLod, Tin>>

BoundarySurface == Over(2, 4, "MultiSurface") \o <<Opening>>
OpeningContent == Over(3, 4, "MultiSurface") \o Over(3, 4, "ImplicitRepresentation")
Door == OpeningContent \o <<Address>>
WaterBoundarySurface == Over(2, 4, "Surface")
WaterSurface == WaterBoundarySurface \o <<Value("waterLevel", "Text")>>
TrafficArea == Cfu \o <<Value("surfaceMaterial", "Text")>> \o Over(2, 4, "MultiSurface")

\* The contents by their names.
Contents ==
  [AbstractBuilding |-> AbstractBuilding, AbstractBridge |-> AbstractBridge, AbstractTunnel |-> AbstractTunnel,
   Installation |-> Installation, InteriorInstallation |-> InteriorInstallation, Furniture |-> Furniture,
   Room |-> Room, BridgeRoom |-> BridgeRoom, HollowSpace |-> HollowSpace,
   BridgeConstructionElement |-> BridgeConstructionElement, CityFurniture |-> CityFurniture, GenericCityObject |-> GenericCityObject,
   SolitaryVegetationObject |-> SolitaryVegetationObject, PlantCover |-> PlantCover, WaterBody |-> WaterBody,
   LandUse |-> LandUse, TransportationComplex |-> TransportationComplex, CityObjectGroup |-> CityObjectGroup,
   TinRelief |-> TinRelief, BoundarySurface |-> BoundarySurface, OpeningContent |-> OpeningContent,
   Door |-> Door, WaterBoundarySurface |-> WaterBoundarySurface, WaterSurface |-> WaterSurface,
   TrafficArea |-> TrafficArea]
-----------------------------------------------------------------------------
(* The classes: <<module, class, CityJSON type or "", name of content>> *)

BuildingClasses ==
  {<<"Building", "Building", "Building", "AbstractBuilding">>,
   <<"Building", "BuildingPart", "BuildingPart", "AbstractBuilding">>,
   <<"Building", "BuildingInstallation", "BuildingInstallation", "Installation">>,
   <<"Building", "IntBuildingInstallation", "", "InteriorInstallation">>,
   <<"Building", "Room", "BuildingRoom", "Room">>,
   <<"Building", "BuildingFurniture", "BuildingFurniture", "Furniture">>}

BridgeClasses ==
  {<<"Bridge", "Bridge", "Bridge", "AbstractBridge">>,
   <<"Bridge", "BridgePart", "BridgePart", "AbstractBridge">>,
   <<"Bridge", "BridgeInstallation", "BridgeInstallation", "Installation">>,
   <<"Bridge", "IntBridgeInstallation", "", "InteriorInstallation">>,
   <<"Bridge", "BridgeConstructionElement", "BridgeConstructiveElement", "BridgeConstructionElement">>,
   <<"Bridge", "BridgeRoom", "BridgeRoom", "BridgeRoom">>,
   <<"Bridge", "BridgeFurniture", "BridgeFurniture", "Furniture">>}

TunnelClasses ==
  {<<"Tunnel", "Tunnel", "Tunnel", "AbstractTunnel">>,
   <<"Tunnel", "TunnelPart", "TunnelPart", "AbstractTunnel">>,
   <<"Tunnel", "TunnelInstallation", "TunnelInstallation", "Installation">>,
   <<"Tunnel", "IntTunnelInstallation", "", "InteriorInstallation">>,
   <<"Tunnel", "HollowSpace", "TunnelHollowSpace", "HollowSpace">>,
   <<"Tunnel", "TunnelFurniture", "TunnelFurniture", "Furniture">>}

NatureClasses ==
  {<<"WaterBody", "WaterBody", "WaterBody", "WaterBody">>,
   <<"LandUse", "LandUse", "LandUse", "LandUse">>,
   <<"CityFurniture", "CityFurniture", "CityFurniture", "CityFurniture">>,
   <<"Vegetation", "SolitaryVegetationObject", "SolitaryVegetationObject", "SolitaryVegetationObject">>,
   <<"Vegetation", "PlantCover", "PlantCover", "PlantCover">>,
   <<"Generics", "GenericCityObject", "GenericCityObject", "GenericCityObject">>,
   <<"CityObjectGroup", "CityObjectGroup", "CityObjectGroup", "CityObjectGroup">>}

TransportClasses ==
  {<<"Transportation", "Road", "Road", "TransportationComplex">>,
   <<"Transportation", "Railway", "Railway", "TransportationComplex">>,
   <<"Transportation", "Track", "", "TransportationComplex">>,
   <<"Transportation", "Square", "TransportSquare", "TransportationComplex">>,
   <<"Transportation", "TransportationComplex", "", "TransportationComplex">>,
   <<"Relief", "TINRelief", "TINRelief", "TinRelief">>}

Classes == BuildingClasses \cup BridgeClasses \cup TunnelClasses \cup NatureClasses \cup TransportClasses
-----------------------------------------------------------------------------
(* The boundary surfaces: <<module, class, property, name of content>> *)

SurfaceNames ==
  {"WallSurface", "RoofSurface", "GroundSurface", "ClosureSurface", "OuterCeilingSurface",
   "OuterFloorSurface", "CeilingSurface", "FloorSurface", "InteriorWallSurface"}

Bounding(module) == {<<module, name, "boundedBy", "BoundarySurface">> : name \in SurfaceNames}

BuildingSurfaces ==
  Bounding("Building")
  \cup {<<"Building", "Door", "opening", "Door">>, <<"Building", "Window", "opening", "OpeningContent">>}

BridgeSurfaces ==
  Bounding("Bridge")
  \cup {<<"Bridge", "Door", "opening", "Door">>, <<"Bridge", "Window", "opening", "OpeningContent">>}

TunnelSurfaces ==
  Bounding("Tunnel")
  \cup {<<"Tunnel", "Door", "opening", "OpeningContent">>, <<"Tunnel", "Window", "opening", "OpeningContent">>}

OtherSurfaces ==
  {<<"WaterBody", "WaterSurface", "boundedBy", "WaterSurface">>,
   <<"WaterBody", "WaterGroundSurface", "boundedBy", "WaterBoundarySurface">>,
   <<"WaterBody", "WaterClosureSurface", "boundedBy", "WaterBoundarySurface">>,
   <<"Transportation", "TrafficArea", "trafficArea", "TrafficArea">>,
   <<"Transportation", "AuxiliaryTrafficArea", "auxiliaryTrafficArea", "TrafficArea">>}

SurfaceDefs == BuildingSurfaces \cup BridgeSurfaces \cup TunnelSurfaces \cup OtherSurfaces
-----------------------------------------------------------------------------
(* Vocabulary2: what a CityJSON name is written as *)

DefsOf(defs, class) == {d \in defs : d[1] = class.ns /\ d[2] = class.local}
ContentOf(defs, class) == Contents[(CHOOSE d \in DefsOf(defs, class) : TRUE)[4]]

\* The content of a class of CityGML itself; none of an extension's.
ClassContent(class) == IF DefsOf(Classes, class) = {} THEN None ELSE Some(ContentOf(Classes, class))

Installations == {"BuildingInstallation", "BridgeInstallation", "TunnelInstallation"}

\* The class of a CityJSON type, and the attributes it stands for.
ClassFor(type, inside) ==
  LET defs == {d \in Classes : d[3] = type}
      def == CHOOSE d \in defs : TRUE
  IN  IF defs = {} THEN None
      ELSE IF type \in Installations
      THEN Some([name |-> QName(def[1], IF inside THEN "Int" \o def[2] ELSE def[2]),
                 implied |-> {"relationToConstruction"}])
      ELSE Some([name |-> QName(def[1], def[2]), implied |-> {}])

HasSlot(content, slot, name) == \E k \in DOMAIN content : content[k].slot = slot /\ (slot # "surfaces" \/ content[k].name = name)

\* Whether content has a property for a boundary surface; an opening belongs
\* in a surface of an object that has them.
HasSurface(content, defs) ==
  LET property == (CHOOSE d \in defs : TRUE)[3]
  IN  /\ content # None /\ defs # {}
      /\ HasSlot(content[1], "surfaces", IF property = "opening" THEN "boundedBy" ELSE property)

\* The class of a semantic surface of an owner.
SurfaceFor(type, owner) ==
  IF HasSurface(ClassContent(owner), DefsOf(SurfaceDefs, QName(owner.ns, type))) THEN Some(QName(owner.ns, type)) ELSE None

\* The properties every object has.
Common ==
  <<[ns |-> "Gml", name |-> "description", kind |-> "Text", many |-> FALSE],
    [ns |-> "Gml", name |-> "name", kind |-> "Text", many |-> TRUE],
    [ns |-> "Core", name |-> "creationDate", kind |-> "Date", many |-> FALSE],
    [ns |-> "Core", name |-> "terminationDate", kind |-> "Date", many |-> FALSE],
    [ns |-> "Core", name |-> "relativeToTerrain", kind |-> "Terrain", many |-> FALSE],
    [ns |-> "Core", name |-> "relativeToWater", kind |-> "Water", many |-> FALSE]>>

\* The words of an enumeration.
Words(kind) ==
  IF kind = "Terrain"
  THEN {"entirelyAboveTerrain", "substantiallyAboveTerrain", "substantiallyAboveAndBelowTerrain",
        "substantiallyBelowTerrain", "entirelyBelowTerrain"}
  ELSE {"entirelyAboveWaterSurface", "substantiallyAboveWaterSurface",
        "substantiallyAboveAndBelowWaterSurface", "substantiallyBelowWaterSurface",
        "entirelyBelowWaterSurface", "temporarilyAboveAndBelowWaterSurface"}

\* The content of a class or a boundary surface of CityGML itself.
AnyContent(defs) == IF defs = {} THEN <<>> ELSE Contents[(CHOOSE d \in defs : TRUE)[4]]

PropertyAmong(ns, common, own) ==
  IF common # <<>> THEN Some(common[1])
  ELSE IF own = <<>> THEN None
  ELSE Some([ns |-> ns, name |-> own[1].name, kind |-> own[1].of, many |-> own[1].many])

\* The property of an attribute's name, of a class or a boundary surface.
PropertyFor(class, name) ==
  PropertyAmong(class.ns, SelectSeq(Common, LAMBDA p : p.name = name),
                SelectSeq(AnyContent(DefsOf(Classes, class) \cup DefsOf(SurfaceDefs, class)),
                          LAMBDA s : s.slot = "value" /\ s.name = name))
=============================================================================
