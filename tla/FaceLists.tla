------------------------------ MODULE FaceLists ------------------------------
(***************************************************************************)
(* Geometries, their flat list of faces, and their stored form             *)
(* (lib/cityparquet-rs/crates/core/src: faces.rs, wkb_write.rs,            *)
(* wkb_read.rs, geometry_properties.rs, encode.rs, export.rs).             *)
(*                                                                         *)
(* A geometry's boundaries are `solids`: solids of shells of surfaces of   *)
(* rings of vertex indices.  A type with fewer levels has one solid and    *)
(* one shell, and a point or a line is a surface of one ring.  An optional *)
(* value is a sequence of length at most one.                              *)
(***************************************************************************)
EXTENDS Integers, Sequences, FiniteSets, SequencesExt

None == <<>>
Some(x) == <<x>>

\* The k-th entry of an optional list of optional entries.
Get(opt, k) == IF opt # None /\ k \in DOMAIN opt[1] THEN opt[1][k] ELSE None

Pointlike == {"MultiPoint", "MultiLineString"}
SurfaceTypes == {"MultiSurface", "CompositeSurface"}
SolidTypes == {"Solid", "MultiSolid", "CompositeSolid"}

WkbCode(type) ==
  CASE type \in SurfaceTypes -> "MultiPolygon"
    [] type = "Solid" -> "PolyhedralSurface"
    [] type \in {"MultiSolid", "CompositeSolid"} -> "GeometryCollection"
    [] OTHER -> type
-----------------------------------------------------------------------------
(* Flat lists *)

Faces(solids) == FlattenSeq(FlattenSeq(solids))

\* One entry per face of values nested like the boundaries; a list that is
\* null, short or missing gives null entries.
Flatten(solids, values) ==
  FlattenSeq([i \in DOMAIN solids |->
    FlattenSeq([j \in DOMAIN solids[i] |->
      [k \in DOMAIN solids[i][j] |-> Get(Get(Get(values, i), j), k)]])])
-----------------------------------------------------------------------------
(* Degenerate rings *)

\* The ring without the vertices that close it; none if less than a triangle
\* is left.
NormaliseRing(ring) ==
  LET len == CHOOSE n \in 0 .. Len(ring) :
               /\ n <= 3 \/ ring[n] # ring[1]
               /\ \A m \in n + 1 .. Len(ring) : m > 3 /\ ring[m] = ring[1]
  IN  IF len < 3 THEN None ELSE Some(SubSeq(ring, 1, len))

\* A surface loses its degenerate holes, and is lost with its exterior.
NormaliseSurface(surface) ==
  IF surface = <<>> \/ NormaliseRing(surface[1]) = None THEN None
  ELSE Some(FlattenSeq([r \in DOMAIN surface |-> NormaliseRing(surface[r])]))

Normalise(type, surface) ==
  IF type \in Pointlike THEN Some(surface) ELSE NormaliseSurface(surface)

\* The positions of the faces that are not stored.
Dropped(g) == {p \in DOMAIN Faces(g.solids) : Normalise(g.type, Faces(g.solids)[p]) = None}

KeptOf(flat, dropped) ==
  FlattenSeq([p \in DOMAIN flat |-> IF p \in dropped THEN <<>> ELSE <<flat[p]>>])
-----------------------------------------------------------------------------
(* Well-known binary: the shells are gone, the rings are closed. *)

\* `at` gives the point of an index.
ClosedRing(type, ring, at) ==
  LET points == [i \in DOMAIN ring |-> at[ring[i]]]
  IN  IF type \in Pointlike THEN points ELSE Append(points, points[1])

\* The stored polygon of a surface, as a list of at most one.
PolygonOf(type, surface, at) ==
  LET closed(rings) == [r \in DOMAIN rings |-> ClosedRing(type, rings[r], at)]
      kept == Normalise(type, surface)
  IN  [n \in DOMAIN kept |-> closed(kept[n])]

\* The surfaces of a solid, shell after shell.
MemberOf(type, solid, at) ==
  LET flat == FlattenSeq(solid)
  IN  FlattenSeq([k \in DOMAIN flat |-> PolygonOf(type, flat[k], at)])

\* The points of stored members.
PointsOf(members) == FlattenSeq(FlattenSeq(FlattenSeq(members)))

\* Nothing is stored of an instance, and of a geometry without a coordinate.
AsWkb(type, members) ==
  IF type = "GeometryInstance" \/ PointsOf(members) = <<>> THEN None
  ELSE Some([code |-> WkbCode(type), members |-> members])

ToWkb(g, at) == AsWkb(g.type, [i \in DOMAIN g.solids |-> MemberOf(g.type, g.solids[i], at)])

Coordinates(wkb) == PointsOf(wkb.members)

WellFormedRing(ring) == Len(ring) >= 4 /\ ring[1] = ring[Len(ring)]

WkbOk(wkb) ==
  wkb.code \notin Pointlike =>
    \A i \in DOMAIN wkb.members : \A k \in DOMAIN wkb.members[i] :
      /\ wkb.members[i][k] # <<>>
      /\ \A r \in DOMAIN wkb.members[i][k] : WellFormedRing(wkb.members[i][k][r])

\* The faces of each member, rings open again.
FromWkb(wkb) ==
  [i \in DOMAIN wkb.members |-> [k \in DOMAIN wkb.members[i] |->
     [r \in DOMAIN wkb.members[i][k] |->
        LET ring == wkb.members[i][k][r]
        IN  IF wkb.code \in Pointlike THEN ring ELSE SubSeq(ring, 1, Len(ring) - 1)]]]
-----------------------------------------------------------------------------
(* Boxes: [lo, hi] of points <<x, y, z>>; none for no point. *)

BoxOf(points) ==
  IF points = <<>> THEN None
  ELSE LET axis(k) == {points[i][k] : i \in DOMAIN points}
           least(S) == CHOOSE a \in S : \A b \in S : a <= b
           most(S) == CHOOSE a \in S : \A b \in S : b <= a
       IN  Some([lo |-> [k \in 1 .. 3 |-> least(axis(k))],
                 hi |-> [k \in 1 .. 3 |-> most(axis(k))]])

UnionBox(a, b) ==
  IF a = None THEN b ELSE IF b = None THEN a
  ELSE BoxOf(<<a[1].lo, a[1].hi, b[1].lo, b[1].hi>>)

Covers(box, p) == \A k \in 1 .. 3 : box.lo[k] <= p[k] /\ p[k] <= box.hi[k]
-----------------------------------------------------------------------------
(* The column geometry_properties: what the binary cannot hold. *)

\* Faces stored of each shell, for the solid types.
ShellCounts(g, dropped) ==
  LET before(i, j) == Len(FlattenSeq(FlattenSeq(SubSeq(g.solids, 1, i - 1))))
                      + Len(FlattenSeq(SubSeq(g.solids[i], 1, j - 1)))
      stored(i, j) == {p \in before(i, j) + 1 .. before(i, j) + Len(g.solids[i][j]) : p \notin dropped}
  IN  IF g.type \notin SolidTypes THEN None
      ELSE Some([i \in DOMAIN g.solids |->
             [j \in DOMAIN g.solids[i] |-> Cardinality(stored(i, j))]])

CmType(type) == IF type = "MultiLineString" THEN "MultiCurve" ELSE type
CityJsonType(cm) == IF cm = "MultiCurve" THEN "MultiLineString" ELSE cm

\* `semantics` is none or [surfaces, values]; `surfaces` are their stored types.
Properties(g, dropped, surfaces) ==
  LET s == g.semantics IN
  [type |-> CmType(g.type),
   surfaces |-> IF s = None THEN None
                ELSE Some(surfaces),
   face_semantics |-> IF s = None THEN None
                      ELSE Some(KeptOf(Flatten(g.solids, s[1].values), dropped)),
   shells |-> ShellCounts(g, dropped)]
-----------------------------------------------------------------------------
(* Nesting flat lists again *)

SumOf(counts) == FoldLeft(LAMBDA a, b : a + b, 0, counts)

\* The counts must account for every entry of the list.
CountsFit(flat, counts) == SumOf(counts) = Len(flat)

Partitioned(flat, counts) ==
  [j \in DOMAIN counts |->
    LET from == SumOf(SubSeq(counts, 1, j - 1))
    IN  SubSeq(flat, from + 1, from + counts[j])]

\* Whether the stored shells agree with the members they describe.
ShellsFit(type, members, shells) ==
  type \in SolidTypes /\ shells # None =>
    /\ type = "Solid" => Len(shells[1]) = 1
    /\ Len(shells[1]) >= Len(members)
    /\ \A i \in DOMAIN members : CountsFit(members[i], shells[1][i])

Solids(type, members, shells) ==
  IF type \notin SolidTypes \/ shells = None THEN [i \in DOMAIN members |-> <<members[i]>>]
  ELSE [i \in DOMAIN members |-> Partitioned(members[i], shells[1][i])]

\* A per-face list can be nested: a MultiSolid needs its shells, and they
\* must use up the list.
Nestable(type, flat, shells) ==
  type \in SolidTypes =>
    /\ shells = None => type = "Solid"
    /\ shells # None => CountsFit(flat, FlattenSeq(shells[1]))

Nest(type, flat, shells) ==
  IF type \notin SolidTypes \/ shells = None THEN <<<<flat>>>>
  ELSE LET perSolid == Partitioned(flat, [i \in DOMAIN shells[1] |-> SumOf(shells[1][i])])
       IN  [i \in DOMAIN shells[1] |-> Partitioned(perSolid[i], shells[1][i])]

\* The same with every list present, as Flatten reads it.
NestSome(type, flat, shells) ==
  LET nested == Nest(type, flat, shells)
  IN  [i \in DOMAIN nested |-> Some([j \in DOMAIN nested[i] |-> Some(nested[i][j])])]
=============================================================================
