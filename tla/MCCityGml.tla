------------------------------ MODULE MCCityGml ------------------------------
(***************************************************************************)
(* Small cities for CityGml.                                               *)
(***************************************************************************)
EXTENDS CityGml

N(word) == Plain(word)
Attr(word, kind, val) == [name |-> Plain(word), value |-> Valued(kind, val)]
PlusAttr(word, kind, val) == [name |-> Plus(word), value |-> Valued(kind, val)]

Object(type, parents, children) ==
  [type |-> Plain(type), parents |-> IF parents = <<>> THEN None ELSE Some(parents),
   children |-> IF children = <<>> THEN None ELSE Some(children), roles |-> <<>>, attributes |-> <<>>, geometries |-> <<>>, addresses |-> <<>>, extent |-> None]
Shape(lod, type, solids) ==
  [lod |-> lod, type |-> type, solids |-> solids, placed |-> None, semantics |-> None, material |-> <<>>, texture |-> <<>>]
SurfaceType(type, parent, attributes) == [type |-> Plain(type), parent |-> parent, attributes |-> attributes]

\* One value each for the faces of one shell.
PerFace(of) == Some(<<Some(<<Some(of)>>)>>)
Tags(tags) == [k \in DOMAIN tags |-> IF tags[k] = 0 THEN None ELSE Some(tags[k])]
Semantic(g, surfaces, tags) == [g EXCEPT !.semantics = Some([surfaces |-> surfaces, values |-> Some(PerFace(Tags(tags)))])]
Painted(g, theme, colours) == [g EXCEPT !.material = (theme :> [value |-> None, values |-> Some(PerFace(Tags(colours)))]) @@ @]

Vertices == << <<0, 0, 0>>, <<2, 0, 0>>, <<0, 2, 0>>, <<0, 0, 2>>, <<1, 1, 0>> >>
Tetra == << << << <<1, 3, 2>> >>, << <<1, 2, 4>> >>, << <<2, 3, 4>> >>, << <<1, 4, 3>> >> >> >>
Triangle == << << << <<1, 2, 3>> >> >> >>
Two == << << << <<1, 2, 3>> >>, << <<1, 2, 4>> >> >> >>

Feature(id, objects) ==
  [id |-> id, objects |-> objects, vertices |-> Vertices, materials |-> <<>>, textures |-> <<>>, uvs |-> <<>>]
NoHeader == [templates |-> <<>>, vertices |-> <<>>, materials |-> <<>>, textures |-> <<>>, uvs |-> <<>>]
City(features) ==
  [features |-> features, exts |-> <<>>, scale |-> 1, translate |-> <<0, 0, 0>>, header |-> NoHeader, document |-> None]
-----------------------------------------------------------------------------
(* A house with surfaces, an opening, materials, a texture, and a part; a  *)
(* group around the two *)

HouseSolid ==
  LET solid == Semantic(Shape(20, "Solid", << Tetra >>),
                        <<SurfaceType("GroundSurface", None, <<>>),
                          SurfaceType("WallSurface", None, <<Attr("colour", "string", 1)>>),
                          SurfaceType("RoofSurface", None, <<>>)>>, <<1, 2, 2, 3>>)
      ring(n) == Some([texture |-> n, uvs |-> <<1, 2, 3>>])
  IN  [Painted(Painted(solid, 1, <<1, 1, 0, 2>>), 2, <<0, 0, 2, 0>>)
         EXCEPT !.texture = (1 :> Some(<< << << <<ring(1)>>, <<None>>, <<ring(1)>>, <<None>> >> >> >>))]

Windowed ==
  Semantic(Shape(30, "MultiSurface", << << << << <<1, 2, 3>>, <<1, 5, 3>> >>, << <<1, 2, 4>> >>, << <<2, 3, 4>> >> >> >> >>),
           <<SurfaceType("Window", Some(2), <<>>), SurfaceType("WallSurface", None, <<>>)>>, <<2, 1, 2>>)

House ==
  [Feature(1,
     (1 :> [Object("Building", <<>>, <<2>>) EXCEPT
              !.attributes = <<Attr("class", "string", 7), Attr("measuredHeight", "int", 9), Attr("nested", "map", <<Attr("a", "int", 1)>>),
                               Attr("storeysAboveGround", "int", 2)>>,
              !.geometries = <<HouseSolid, Windowed>>,
              !.addresses = << [postal |-> 5, location |-> <<5>>] >>,
              !.extent = Some("box")])
     @@ (2 :> [Object("BuildingPart", <<1>>, <<>>) EXCEPT !.geometries = <<Shape(10, "MultiSurface", << Two >>)>>]))
   EXCEPT !.materials = <<"red", "blue">>, !.textures = <<"brick">>, !.uvs = << <<0, 0>>, <<1, 0>>, <<0, 1>> >>]

Grouped == [House EXCEPT !.objects[1].parents = Some(<<3>>)]
GroupOf(members, roles) ==
  Feature(3, (3 :> [Object("CityObjectGroup", <<>>, members) EXCEPT !.roles = roles]))

HouseCity == City(<<Grouped, GroupOf(<<1>>, << Some("main") >>)>>)
-----------------------------------------------------------------------------
(* Parts in features of their own *)

Inside1(relation) == <<Attr("relationToConstruction", "word", relation)>>
ScatteredCity ==
  City(<<Feature(1, (1 :> Object("Building", <<>>, <<2, 3>>))),
         Feature(2, (2 :> [Object("BuildingPart", <<1>>, <<4>>) EXCEPT !.geometries = <<Shape(10, "MultiSurface", << Triangle >>)>>])),
         Feature(3, (3 :> [Object("BuildingInstallation", <<1>>, <<>>) EXCEPT !.attributes = Inside1("inside")])),
         Feature(4, (4 :> Object("BuildingInstallation", <<2>>, <<>>)))>>)

\* A unit has no class: its rooms take its place in the building, and what it
\* has itself is not looked at.
ClasslessCity ==
  City(<<Feature(1, (1 :> Object("Building", <<>>, <<2>>))),
         Feature(2, (2 :> [Object("BuildingUnit", <<1>>, <<3, 4>>) EXCEPT !.attributes = <<PlusAttr("loud", "string", 5)>>]) @@ (3 :> Object("BuildingRoom", <<2>>, <<>>))),
         Feature(4, (4 :> Object("BuildingRoom", <<2>>, <<>>)))>>)

\* A parent that never comes, and a child that another feature names too.
OrphanCity ==
  City(<<Feature(2, (2 :> Object("BuildingPart", <<1>>, <<5>>))),
         Feature(3, (3 :> Object("Building", <<>>, <<4>>))),
         Feature(6, (6 :> Object("Building", <<>>, <<4>>))),
         Feature(4, (4 :> Object("BuildingPart", <<3>>, <<>>)))>>)

-----------------------------------------------------------------------------
(* Instances of one sign, an extension, reliefs, roads, water *)

\* A sign of two faces, the second red.
SignHeader ==
  [templates |-> <<Painted(Shape(20, "MultiSurface", << Two >>), 1, <<0, 1>>)>>,
   vertices |-> << <<0, 0, 0>>, <<1, 0, 0>>, <<0, 1, 0>>, <<0, 0, 1>> >>, materials |-> <<"red">>, textures |-> <<>>, uvs |-> <<>>]
SignAt(vertex, matrix) == [Shape(20, "Instance", << << << << <<vertex>> >> >> >> >>) EXCEPT !.placed = Some(<<1, matrix>>)]

Noise ==
  [name |-> "noise", xmlns |-> TRUE, classes |-> {"Barrier", "QuietHouse"},
   bases |-> ("QuietHouse" :> "_AbstractBuilding" @@ "Barrier" :> "_AbstractCityObject"),
   surfaces |-> {"Panel"}, attributes |-> {<<Plain("Building"), "loud">>, <<Plain("CityFurniture"), "loud">>}]
Extended(type) == [Object("", <<>>, <<>>) EXCEPT !.type = Plus(type)]

SignCity ==
  [City(<<Feature(1, (1 :> [Object("CityFurniture", <<>>, <<>>) EXCEPT !.geometries = <<SignAt(2, "here")>>])),
          Feature(2, (2 :> [Object("CityFurniture", <<>>, <<>>) EXCEPT !.geometries = <<SignAt(3, "there")>>, !.attributes = <<PlusAttr("loud", "string", 5)>>])),
          Feature(5, (5 :> [Extended("QuietHouse") EXCEPT
                              !.attributes = <<Attr("measuredHeight", "float", 3), Attr("windows", "string", 2)>>,
                              !.geometries = <<Semantic(Shape(20, "MultiSurface", << Two >>),
                                                 <<[SurfaceType("Panel", None, <<>>) EXCEPT !.type = Plus("Panel")], SurfaceType("RoofSurface", None, <<>>)>>, <<1, 2>>)>>]))>>)
     EXCEPT !.header = SignHeader, !.exts = <<Noise>>, !.scale = 2, !.translate = <<5, -5, 0>>]

Line == << << << << <<1, 2, 3>> >>, << <<3, 4>> >> >> >> >>
Pointed == << << << << <<1>> >>, << <<4>> >> >> >> >>

Relief ==
  [Feature(1, (1 :> [Object("TINRelief", <<>>, <<>>) EXCEPT !.geometries = <<Painted(Shape(20, "CompositeSurface", << Two >>), 1, <<1, 1>>)>>]))
     EXCEPT !.materials = <<"green">>]
Street ==
  Feature(2, (2 :> [Object("Road", <<>>, <<>>) EXCEPT
                      !.geometries = <<Semantic(Shape(20, "MultiSurface", << Two >>),
                                         <<SurfaceType("AuxiliaryTrafficArea", None, <<>>), SurfaceType("TrafficArea", None, <<Attr("surfaceMaterial", "string", 4)>>)>>, <<2, 1>>)>>]))
Lake ==
  Feature(3, (3 :> [Object("WaterBody", <<>>, <<>>) EXCEPT
                      !.attributes = <<Attr("names", "list", <<Valued("string", 1), Valued("string", 2)>>), Attr("terminationDate", "date", 8)>>,
                      !.geometries = <<Semantic(Shape(20, "Solid", << Tetra >>),
                                         <<SurfaceType("WaterSurface", None, <<Attr("waterLevel", "string", 3)>>), SurfaceType("WaterGroundSurface", None, <<>>)>>,
                                         <<2, 2, 0, 1>>)>>]))
Statue ==
  Feature(4, (4 :> [Object("GenericCityObject", <<>>, <<>>) EXCEPT
                      !.attributes = <<Attr("heights", "list", <<Valued("float", 1), Valued("float", 2)>>)>>,
                      !.geometries = <<Shape(10, "MultiLineString", Line), Shape(20, "MultiPoint", Pointed)>>]))
LandCity == City(<<Relief, Street, Lake, Statue>>)

\* Solids of more than one solid, a LoD twice, an opening in a solid, values
\* that no property takes, a wall of a shape that has none.
Crowded ==
  [Feature(1, (1 :> [Object("Building", <<>>, <<>>) EXCEPT
                      !.attributes = <<Attr("listed", "bool", TRUE), Attr("name", "list", <<Valued("string", 1), Valued("blank", 0)>>),
                                       Attr("yearOfConstruction", "int", -1)>>,
                      !.geometries = <<Shape(10, "MultiSolid", << Tetra, Tetra >>), Shape(22, "MultiSurface", << Two >>),
                                       Painted(Shape(20, "MultiSurface", << Triangle >>), 1, <<1>>), Shape(40, "CompositeSolid", << Tetra >>)>>]))
     EXCEPT !.materials = <<"red">>]
Bench ==
  Feature(2, (2 :> [Object("CityFurniture", <<>>, <<>>) EXCEPT
                      !.geometries = <<Semantic(Shape(10, "MultiSurface", << Two >>), <<SurfaceType("WallSurface", None, <<>>)>>, <<1, 0>>)>>]))
Own == Feature(3, (3 :> Object("BuildingPart", <<4>>, <<4>>)) @@ (4 :> Object("BuildingPart", <<3>>, <<3>>)))
LossyCity == City(<<Crowded, Bench>>)

\* Parts in parts in parts, deeper than is followed, and one less.
Stacked(n) ==
  Feature(11, [id \in 11 .. 10 + n |-> IF id = 11 THEN Object("Building", <<>>, <<12>>)
                                       ELSE Object("BuildingPart", <<id - 1>>, IF id = 10 + n THEN <<>> ELSE <<id + 1>>)])

\* Attributes that nest as deep, and semantics of one face for two.
Members(n) == FoldLeft(LAMBDA v, k : Valued("map", <<[name |-> Plain("a"), value |-> v]>>), Valued("int", 1), [k \in 1 .. n |-> k])
Described(n) == Feature(1, (1 :> [Object("Building", <<>>, <<>>) EXCEPT !.attributes = <<[name |-> Plain("nested"), value |-> Members(n)]>>]))
HalfTagged ==
  Feature(1, (1 :> [Object("Building", <<>>, <<>>) EXCEPT
                      !.geometries = <<Semantic(Shape(20, "MultiSurface", << Two >>), <<SurfaceType("WallSurface", None, <<>>)>>, <<1>>)>>]))
NestedCities == {City(<<Bench, f>>) : f \in {Stacked(MaxDepth + 1), Described(MaxDepth)}}
RefusedCities == {City(<<Bench, f>>) : f \in {Own, Stacked(MaxDepth + 2), Described(MaxDepth + 1), HalfTagged}}

-----------------------------------------------------------------------------
(* Documents of other programs                                             *)

P(points) == [n \in DOMAIN points |-> Vertices[points[n]]]
GmlId(n) == <<"of another", 0, 0, 0, n>>
Poly(id, ring, points) ==
  [Gml("Polygon", <<RingElement("exterior", P(points), ring)>>) EXCEPT !.id = id]
Surfaced(kids) == Gml("MultiSurface", kids)
Inline(polygon) == Gml("surfaceMember", <<polygon>>)
Wall(name, id, kids) ==
  Node("Building", "boundedBy", <<Node("Building", name, <<Property("Building", <<2, "MultiSurface">>, <<[Surfaced(kids) EXCEPT !.id = id]>>)>>)>>)
Material(theme, definition, ids) ==
  [Node("App", "appearanceMember",
     <<[Node("App", "X3DMaterial", [n \in DOMAIN ids |-> Reference("App", "target", ids[n])]) EXCEPT !.value = Some(definition)]>>)
     EXCEPT !.of = Some(theme)]

\* A solid of a polygon, an aggregate of two, and a surface turned over; a
\* roof edge; a room that shares a wall of its building; a group.
SharedWalls ==
  LET solid == Gml("Solid", <<Gml("exterior", <<Gml("CompositeSurface",
                 <<Inline(Poly(None, None, <<1, 3, 2>>)), Reference("Gml", "surfaceMember", GmlId(1)),
                   Inline(Reversed(Reference("Gml", "baseSurface", GmlId(4))))>>)>>)>>)
      walls == <<Inline(Poly(Some(GmlId(2)), None, <<1, 2, 4>>)), Inline(Poly(Some(GmlId(3)), None, <<2, 3, 4>>))>>
      inside == [Node("Building", "Room",
                      <<Property("Building", <<4, "MultiSurface">>, <<Surfaced(<<Reference("Gml", "surfaceMember", GmlId(2))>>)>>)>>)
                   EXCEPT !.id = Some(Ncname(2))]
      texture == [Node("App", "ParameterizedTexture",
                    <<[Node("App", "target", <<[Leaf("App", "textureCoordinates", << <<3, 3>>, <<4, 4>>, <<1, 1>>, <<3, 3>> >>) EXCEPT !.href = Some(GmlId(5))]>>)
                         EXCEPT !.href = Some(GmlId(4))]>>) EXCEPT !.value = Some("slate")]
      building == [Node("Building", "Building",
                     <<[Node("App", "appearance", <<texture>>) EXCEPT !.of = Some(1)],
                       Property("Building", <<2, "Solid">>, <<solid>>),
                       Property("Building", <<0, "RoofEdge">>, <<Surfaced(<<Inline(Poly(None, None, <<1, 2, 3>>))>>)>>),
                       Wall("WallSurface", Some(GmlId(1)), walls),
                       Wall("RoofSurface", None, <<Inline(Poly(Some(GmlId(4)), Some(GmlId(5)), <<3, 4, 1>>))>>),
                       Node("Building", "interiorRoom", <<inside>>)>>)
                     EXCEPT !.id = Some(Ncname(1))]
      group == [Node("CityObjectGroup", "CityObjectGroup",
                  <<[Node("CityObjectGroup", "groupMember", <<>>) EXCEPT !.href = Some(Ncname(1)), !.of = Some("main")]>>)
                  EXCEPT !.id = Some(Ncname(3))]
      member(e) == Node("Core", "cityObjectMember", <<e>>)
  IN  <<member(building), Material(1, "red", <<GmlId(1)>>), member(group), Material(1, "blue", <<GmlId(4)>>)>>

SharedWallsCity ==
  LET solid == Painted(Semantic(Shape(20, "Solid", << Tetra >>),
                                <<SurfaceType("WallSurface", None, <<>>), SurfaceType("RoofSurface", None, <<>>)>>, <<0, 1, 1, 2>>),
                       1, <<0, 1, 1, 2>>)
      slate == Some([texture |-> 1, uvs |-> <<1, 2, 3>>])
      textured == [solid EXCEPT !.texture = (1 :> Some(<< << << <<None>>, <<None>>, <<None>>, <<slate>> >> >> >>))]
      shared == Painted(Shape(40, "MultiSurface", << << << << <<1, 2, 4>> >> >> >> >>), 1, <<1>>)
      house == [Feature(1, (1 :> [Object("Building", <<3>>, <<2>>) EXCEPT !.geometries = <<textured, Shape(0, "MultiSurface", << Triangle >>)>>])
                           @@ (2 :> [Object("BuildingRoom", <<1>>, <<>>) EXCEPT !.geometries = <<shared>>]))
                  EXCEPT !.materials = <<"red", "blue">>, !.textures = <<"slate">>, !.uvs = << <<1, 1>>, <<4, 4>>, <<3, 3>> >>]
  IN  [City(<<house, GroupOf(<<1>>, <<Some("main")>>)>>) EXCEPT !.document = Some(SharedWalls)]

\* A solid that refers to a polygon that is nowhere.
Nowhere ==
  LET solid == Gml("Solid", <<Gml("exterior", <<Gml("CompositeSurface", <<Reference("Gml", "surfaceMember", GmlId(9))>>)>>)>>)
      building(n, kids) == [Node("Building", "Building", kids) EXCEPT !.id = Some(Ncname(n))]
  IN  [City(<<Feature(1, (1 :> Object("Building", <<>>, <<>>))), Feature(2, (2 :> Object("Building", <<>>, <<>>)))>>)
         EXCEPT !.document = Some(<<Node("Core", "cityObjectMember", <<building(1, <<>>)>>),
                                    Node("Core", "cityObjectMember", <<building(2, <<Property("Building", <<1, "Solid">>, <<solid>>)>>)>>)>>)]

\* A solid of an aggregate of an aggregate ..., n of them, the last of the same
\* polygon so many times.
Chained(n, times) ==
  LET last == <<Inline(Poly(Some(GmlId(9)), None, <<1, 2, 3>>))>> \o [k \in 1 .. times - 1 |-> Reference("Gml", "surfaceMember", GmlId(9))]
      chain == [k \in 1 .. n |-> [Surfaced(IF k = n THEN last ELSE <<Reference("Gml", "surfaceMember", GmlId(k + 1))>>) EXCEPT !.id = Some(GmlId(k))]]
      solid == Gml("Solid", <<Gml("exterior", <<Gml("CompositeSurface", <<Reference("Gml", "surfaceMember", GmlId(1))>>)>>)>>)
      walls == [k \in 1 .. n |-> Node("Building", "boundedBy", <<Node("Building", "WallSurface",
                                    <<Property("Building", <<2, "MultiSurface">>, <<chain[k]>>)>>)>>)]
      wall == SurfaceType("WallSurface", None, <<>>)
      faces == [k \in 1 .. times |-> << <<1, 2, 3>> >>]
      house == [Object("Building", <<>>, <<>>) EXCEPT
                  !.geometries = <<Semantic(Shape(20, "Solid", << << faces >> >>), <<wall>>, [k \in 1 .. times |-> 1])>>]
  IN  [City(<<Feature(1, (1 :> house))>>) EXCEPT
         !.document = Some(<<Node("Core", "cityObjectMember",
                               <<[Node("Building", "Building", <<Property("Building", <<2, "Solid">>, <<solid>>)>> \o walls)
                                    EXCEPT !.id = Some(Ncname(1))]>>)>>)]

\* As long as is followed, and one more; a polygon as often as one pays for,
\* and once more.
ChainedCities == {Chained(MaxXlinkDepth, 1), Chained(MaxXlinkDepth + 1, 1), Chained(1, 4), Chained(1, 5)}

MCCities == {HouseCity, ScatteredCity, ClasslessCity, OrphanCity, SignCity, LandCity, LossyCity, SharedWallsCity, Nowhere}
            \cup NestedCities \cup RefusedCities \cup ChainedCities
MCXmlName == [x \in {} |-> <<>>]
MCContentOfClass == (QName("noise", "QuietHouse") :> QName("Building", "Building"))
=============================================================================
