------------------------------ MODULE Comparison ------------------------------
(***************************************************************************)
(* What it means for two datasets to be the same                           *)
(* (lib/cityparquet-rs/crates/core/src/compare.rs): the comparison that    *)
(* the command "compare" makes, with no exclusions chosen.                 *)
(*                                                                         *)
(* A side is a source (CityRows), its coordinates those of its own         *)
(* transform: the axes are not swapped here.  Instances are geometries     *)
(* without a LoD.                                                          *)
(***************************************************************************)
EXTENDS CityExport

World(side, vertices, index) ==
  [k \in 1 .. 3 |-> vertices[index][k] * side.scale + side.translate[k]]
-----------------------------------------------------------------------------
(* Degenerate rings, told by coordinates here *)

\* Everything at the end that repeats the first point goes.
Stripped(points) ==
  LET len == CHOOSE n \in 0 .. Len(points) :
               /\ n < 2 \/ points[n] # points[1]
               /\ \A m \in n + 1 .. Len(points) : m >= 2 /\ points[m] = points[1]
  IN  SubSeq(points, 1, len)

ComparedRing(points) ==
  LET ring == Stripped(points)
  IN  IF Cardinality(ToSet(ring)) < 3 THEN None ELSE Some(ring)

\* A surface with its exterior; one without rings stays.
ComparedSurface(rings) ==
  IF rings # <<>> /\ ComparedRing(rings[1]) = None THEN None
  ELSE Some(FlattenSeq([r \in DOMAIN rings |-> ComparedRing(rings[r])]))

\* `at` gives the point of an index.
Points(g, at) ==
  [i \in DOMAIN g.solids |-> [j \in DOMAIN g.solids[i] |-> [k \in DOMAIN g.solids[i][j] |->
    [r \in DOMAIN g.solids[i][j][k] |-> [v \in DOMAIN g.solids[i][j][k][r] |->
      at[g.solids[i][j][k][r][v]]]]]]]

\* The boundaries that count: solids of shells of surfaces of rings of points.
Tree(g, at) ==
  LET points == Points(g, at)
      surface(s) == IF g.type \in Pointlike THEN Some(s) ELSE ComparedSurface(s)
  IN  [i \in DOMAIN points |-> [j \in DOMAIN points[i] |->
         FlattenSeq([k \in DOMAIN points[i][j] |-> surface(points[i][j][k])])]]

ComparedDropped(g, at) ==
  LET faces == Faces(Points(g, at))
  IN  IF g.type \in Pointlike THEN {} ELSE {p \in DOMAIN faces : ComparedSurface(faces[p]) = None}

TreeEmpty(tree) == FlattenSeq(FlattenSeq(FlattenSeq(FlattenSeq(tree)))) = <<>>
-----------------------------------------------------------------------------
(* Normal forms *)

NormSemantics(g, dropped) ==
  IF g.semantics = None THEN None
  ELSE Some([surfaces |-> g.semantics[1].surfaces,
             faces |-> KeptOf(Flatten(g.solids, g.semantics[1].values), dropped)])

\* Definitions in the place of indices; `own` is [materials, textures, uvs].
NormMaterial(g, dropped, own) ==
  [t \in DOMAIN g.material |->
    LET faces == StoredMaterials(g, t, dropped)
    IN  [p \in DOMAIN faces |-> IF faces[p] = None THEN None ELSE Some(own.materials[faces[p][1]].value)]]

\* No more coordinates than the ring has vertices.
NormTexture(g, dropped, own) ==
  [t \in DOMAIN g.texture |->
    LET faces == StoredTextures(g, t, dropped) IN
    [p \in DOMAIN faces |-> [r \in DOMAIN faces[p] |->
      LET ring == faces[p][r] IN
      IF ring.texture = None THEN None
      ELSE LET uvs == ring.texture[1].uvs
               n == IF Len(uvs) < ring.vertices THEN Len(uvs) ELSE ring.vertices
           IN  Some([value |-> own.textures[ring.texture[1].texture].value,
                     uv |-> [k \in 1 .. n |-> own.uvs[uvs[k]]]])]]]

Norm(g, own, at) ==
  LET dropped == ComparedDropped(g, at)
  IN  [type |-> g.type, tree |-> Tree(g, at), semantics |-> NormSemantics(g, dropped),
       material |-> NormMaterial(g, dropped, own), texture |-> NormTexture(g, dropped, own)]

\* The geometries of an object that count: the first of each LoD that is not
\* empty.
ComparedGeometries(co, at) ==
  LET real == {k \in Geometries(co) : ~TreeEmpty(Tree(co.geometries[k], at))}
  IN  {k \in real : \A j \in real : j < k => LodOf(co.geometries[j].lod) # LodOf(co.geometries[k].lod)}

\* The template an instance names, with its own normal form.
NormInstance(side, f, co) ==
  IF Instances(co) = {} THEN None
  ELSE LET g == co.geometries[CHOOSE k \in Instances(co) : \A j \in Instances(co) : k <= j]
           template == side.templates[g.template]
       IN  Some([point |-> World(side, f.vertices, g.point), matrix |-> g.matrix,
                 lod |-> LodOf(template.lod),
                 template |-> Norm(template, side.appearance, side.templatePoints)])

NormAddress(side, f, co) ==
  IF co.address = None THEN <<>>
  ELSE [k \in DOMAIN co.address[1] |->
    LET entry == co.address[1][k] IN
    [postal |-> PostalFields(entry.postal),
     points |-> IF entry.location = None THEN None
                ELSE LET at == Faces(entry.location[1].solids)[1][1]
                     IN  IF \A v \in DOMAIN at : at[v] \in DOMAIN f.vertices
                         THEN Some([v \in DOMAIN at |-> World(side, f.vertices, at[v])]) ELSE None]]

\* A group's roles by child; a child without one, or a role without a child,
\* has its place.
NormRoles(co) ==
  LET children == IF co.children = None THEN <<>> ELSE co.children[1]
      roles == IF co.roles = None THEN <<>> ELSE co.roles[1]
  IN  IF co.type # Name(<<"CityObjectGroup">>) THEN {}
      ELSE {<<IF k \in DOMAIN children THEN children[k] ELSE -k, Get(co.roles, k)>> :
              k \in DOMAIN children \cup DOMAIN roles}

\* null is no attribute.
Present(attributes) == {n \in DOMAIN attributes : attributes[n].kind # "null"}
-----------------------------------------------------------------------------
(* compare_object *)

Apart(a, b) == IF a < b THEN b - a ELSE a - b
Near(p, q, tolerance) == \A k \in 1 .. 3 : Apart(p[k], q[k]) <= tolerance
RingMatches(a, b, tolerance) == DOMAIN a = DOMAIN b /\ \A v \in DOMAIN a : Near(a[v], b[v], tolerance)

\* The same nesting, and every point near its counterpart.
TreeMatches(a, b, tolerance) ==
  /\ DOMAIN a = DOMAIN b
  /\ \A i \in DOMAIN a :
       /\ DOMAIN a[i] = DOMAIN b[i]
       /\ \A j \in DOMAIN a[i] :
            /\ DOMAIN a[i][j] = DOMAIN b[i][j]
            /\ \A k \in DOMAIN a[i][j] :
                 /\ DOMAIN a[i][j][k] = DOMAIN b[i][j][k]
                 /\ \A r \in DOMAIN a[i][j][k] : RingMatches(a[i][j][k][r], b[i][j][k][r], tolerance)

SameNorm(a, b, tolerance) ==
  /\ a.type = b.type /\ a.semantics = b.semantics
  /\ a.material = b.material /\ a.texture = b.texture
  /\ TreeMatches(a.tree, b.tree, tolerance)

SameInstance(a, b, tolerance) ==
  /\ (a = None) <=> (b = None)
  /\ a # None =>
       /\ Near(a[1].point, b[1].point, tolerance)
       /\ a[1].matrix = b[1].matrix /\ a[1].lod = b[1].lod
       /\ SameNorm(a[1].template, b[1].template, 0)

SameAddress(a, b, tolerance) ==
  /\ Len(a) = Len(b)
  /\ \A k \in DOMAIN a :
       /\ a[k].postal = b[k].postal
       /\ (a[k].points = None) <=> (b[k].points = None)
       /\ a[k].points # None => RingMatches(a[k].points[1], b[k].points[1], tolerance)

Listed(ids) == UNION {ToSet(list) : list \in ToSet(ids)}

SameObject(sa, fa, a, sb, fb, b, tolerance) ==
  LET atA == [i \in DOMAIN fa.vertices |-> World(sa, fa.vertices, i)]
      atB == [i \in DOMAIN fb.vertices |-> World(sb, fb.vertices, i)]
      inA == ComparedGeometries(a, atA)
      inB == ComparedGeometries(b, atB)
      lods(co, ks) == {LodOf(co.geometries[k].lod) : k \in ks}
  IN  /\ a.type = b.type
      /\ Listed(a.parents) = Listed(b.parents) /\ Listed(a.children) = Listed(b.children)
      /\ NormRoles(a) = NormRoles(b)
      /\ Present(a.attributes) = Present(b.attributes)
      /\ \A n \in Present(a.attributes) : SameValue(a.attributes[n], b.attributes[n])
      /\ a.others = b.others
      /\ SameAddress(NormAddress(sa, fa, a), NormAddress(sb, fb, b), tolerance)
      /\ lods(a, inA) = lods(b, inB)
      /\ \A j \in inA, k \in inB :
           LodOf(a.geometries[j].lod) = LodOf(b.geometries[k].lod) =>
             SameNorm(Norm(a.geometries[j], fa, atA), Norm(b.geometries[k], fb, atB), tolerance)
      /\ SameInstance(NormInstance(sa, fa, a), NormInstance(sb, fb, b), tolerance)

\* The larger of the two scales.
Tolerance(sa, sb) == IF sa.scale < sb.scale THEN sb.scale ELSE sa.scale
=============================================================================
