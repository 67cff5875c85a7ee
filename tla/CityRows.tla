------------------------------ MODULE CityRows -------------------------------
(***************************************************************************)
(* From a CityJSON source to the rows and tables of a package              *)
(* (lib/cityparquet-rs/crates/core/src: scan.rs, encode.rs, address.rs,    *)
(* order.rs, package.rs).                                                  *)
(*                                                                         *)
(* A source is                                                             *)
(*   exts, features, templates, templatePoints, appearance (materials,     *)
(*   textures, uvs), defaults, scale, translate, swap (latitude first),    *)
(*   crs ("none", "known" or "unresolved"), lod0, tolerant, hilbert;       *)
(* a feature [id, objects, vertices, materials, textures, uvs], objects by *)
(* id; an object [type, parents, children, roles, attributes, geometries,  *)
(* address, extent, others].  Ids are numbers, in the order of the texts.  *)
(* An address is [postal, location]: its members by name, their values     *)
(* as in Attributes, and an optional MultiPoint.                           *)
(***************************************************************************)
EXTENDS CityNames, Attributes, Appearances, Functions, Order

CONSTANT Footprint(_)  \* the footprint synthesised from a geometry; none if empty

Instance == "GeometryInstance"
-----------------------------------------------------------------------------
(* Coordinates *)

\* The axes of the CRS to longitude first, and back.
Ordered(swap, p) == IF swap THEN <<p[2], p[1], p[3]>> ELSE p

\* The vertex of a quantised index.
Coord(src, vertices, index) ==
  Ordered(src.swap, [k \in 1 .. 3 |-> vertices[index][k] * src.scale + src.translate[k]])

\* The indices of the rings that are kept.
KeptIndices(g) ==
  UNION {UNION {ToSet(ring) : ring \in ToSet(Normalise(g.type, Faces(g.solids)[p])[1])} :
           p \in DOMAIN Faces(g.solids) \ Dropped(g)}

IndicesFit(g, vertices) == KeptIndices(g) \subseteq DOMAIN vertices

Wkb(src, f, g) == ToWkb(g, [i \in DOMAIN f.vertices |-> Coord(src, f.vertices, i)])

\* The box of a geometry's stored coordinates, and of all those of an object.
GeometryBox(src, f, g) ==
  LET wkb == Wkb(src, f, g) IN IF wkb = None THEN None ELSE BoxOf(Coordinates(wkb[1]))

OwnBox(src, f, co) ==
  FoldLeft(UnionBox, None, [k \in DOMAIN co.geometries |-> GeometryBox(src, f, co.geometries[k])])

\* Rings and surfaces a geometry loses, as counted.
DroppedRings(g) ==
  IF g.type \in Pointlike THEN 0
  ELSE LET rings == FlattenSeq(Faces(g.solids))
       IN  Cardinality({r \in DOMAIN rings : NormaliseRing(rings[r]) = None})
-----------------------------------------------------------------------------
(* scan: one pass over every object *)

Objects(src) ==
  UNION {{<<f, id>> : id \in DOMAIN src.features[f].objects} : f \in DOMAIN src.features}

ObjectAt(src, o) == src.features[o[1]].objects[o[2]]

KeyOf(src, o) == SourceKey(src.exts, ObjectAt(src, o).type)

Geometries(co) == {k \in DOMAIN co.geometries : co.geometries[k].type # Instance}

\* What makes the scan refuse the source: a bad declaration, an id met twice,
\* a name without an owner, a type without a module, a LoD or a vertex index
\* that is not one.
ScanOk(src) ==
  /\ DeclarationsOk(src.exts)
  /\ \A f, g \in DOMAIN src.features :
       f # g => DOMAIN src.features[f].objects \cap DOMAIN src.features[g].objects = {}
  /\ \A o \in Objects(src) :
       LET co == ObjectAt(src, o) IN
       /\ Encodable(src.exts, co.type, "object")
       /\ KeyOf(src, o) # NoKey
       /\ \A n \in DOMAIN co.attributes : Encodable(src.exts, n, "attribute")
       /\ \A k \in Geometries(co) :
            /\ ValidLod(co.geometries[k].lod)
            /\ IndicesFit(co.geometries[k], src.features[o[1]].vertices)

\* The column type of an attribute: every value of the dataset counts.
ColumnType(src, column) ==
  LET holders == {o \in Objects(src) : \E n \in DOMAIN ObjectAt(src, o).attributes :
                    StoredAttribute(src.exts, n) = column}
      value(o) == LET attributes == ObjectAt(src, o).attributes
                  IN  attributes[CHOOSE n \in DOMAIN attributes : StoredAttribute(src.exts, n) = column]
      seen == SetToSeq(holders)
  IN  FinishType(FoldLeft(LAMBDA t, o : Observe(t, value(o)), <<>>, seen))

Columns(src) ==
  UNION {{StoredAttribute(src.exts, n) : n \in DOMAIN ObjectAt(src, o).attributes} : o \in Objects(src)}

\* The LoDs and the geometry types of a module, what the writer will skip
\* included.
ModuleGeo(src, key) ==
  LET found == UNION {{<<LodOf(ObjectAt(src, o).geometries[k].lod),
                         WkbCode(ObjectAt(src, o).geometries[k].type)>> :
                         k \in Geometries(ObjectAt(src, o))} :
                      o \in {o \in Objects(src) : KeyOf(src, o) = key}}
  IN  [lod \in {e[1] : e \in found} |-> {e[2] : e \in {e \in found : e[1] = lod}}]

Crs(src) ==
  IF src.crs = "known" THEN "known"
  ELSE IF \E o \in Objects(src) : ObjectAt(src, o).geometries # <<>> THEN "unknown"
  ELSE "absent"

\* The column of synthesised footprints is added to the modules that have
\* geometry, unless the dataset has a footprint of its own.
WithLod0(src, geo) ==
  IF ~src.lod0 \/ \E key \in DOMAIN geo : \E lod \in DOMAIN geo[key] : lod[1] = 0 THEN geo
  ELSE [key \in DOMAIN geo |-> IF DOMAIN geo[key] = {} THEN geo[key]
                               ELSE (Lod0 :> {"MultiPolygon"}) @@ geo[key]]

Scan(src) ==
  LET keys == {KeyOf(src, o) : o \in Objects(src)}
      geo == WithLod0(src, [key \in keys |-> ModuleGeo(src, key)])
  IN  [attributes |-> [c \in Columns(src) |-> ColumnType(src, c)],
       geo |-> geo,
       lods |-> UNION {DOMAIN geo[key] : key \in keys},
       crs |-> Crs(src)]
-----------------------------------------------------------------------------
(* push_object: one object to one row *)

\* Mutant: all by id.
RowIdsPlain(f) == Ranked(DOMAIN f.objects, <)

\* The rows of a feature: its root first, the others by id.
RowIds(f) == Ranked(DOMAIN f.objects, LAMBDA a, b : b # f.id /\ (a = f.id \/ a < b))

\* Every index is in range: the scan has seen the source.
Written(src, f, co) == {k \in Geometries(co) : Wkb(src, f, co.geometries[k]) # None}

\* Mutant: a later geometry replaces an earlier one of the same LoD.
SlotsLast(src, f, co) ==
  {k \in Written(src, f, co) : \A j \in Written(src, f, co) :
     k < j => LodOf(co.geometries[j].lod) # LodOf(co.geometries[k].lod)}

\* Of some geometries of an object the first of each LoD.
FirstOfLod(co, ks) ==
  {k \in ks : \A j \in ks : j < k => LodOf(co.geometries[j].lod) # LodOf(co.geometries[k].lod)}

\* The geometries that are stored.
Slots(src, f, co) == FirstOfLod(co, Written(src, f, co))

\* Where a footprint is made from: the lowest LoD above 0 with surfaces.
FootprintSource(co) ==
  LET able == {k \in Geometries(co) : /\ co.geometries[k].type \in SurfaceTypes \cup SolidTypes
                                      /\ co.geometries[k].lod[1] # 0}
  IN  {k \in able : \A j \in able :
         LET a == LodOf(co.geometries[j].lod) b == LodOf(co.geometries[k].lod)
         IN  LowerLod(b, a) \/ (a = b /\ k <= j)}

Synthesised(src, f, co) ==
  IF src.lod0 /\ \A k \in Slots(src, f, co) : LodOf(co.geometries[k].lod) # Lod0
  THEN UNION {ToSet(Footprint(Wkb(src, f, co.geometries[k]))) : k \in FootprintSource(co)}
  ELSE {}

\* Mutant: only the children's own geometry counts.
BelowShort(f, id) ==
  {id} \cup (UNION {ToSet(c) : c \in ToSet(f.objects[id].children)} \cap DOMAIN f.objects)

\* The objects below one, itself included, as far as its feature holds them.
Below(f, id) ==
  LET next(S) == S \cup UNION {UNION {ToSet(c) : c \in ToSet(f.objects[i].children)} : i \in S}
      reach[n \in 0 .. Cardinality(DOMAIN f.objects)] ==
        IF n = 0 THEN {id} ELSE next(reach[n - 1]) \cap DOMAIN f.objects
  IN  reach[Cardinality(DOMAIN f.objects)]

RowBox(src, f, id) ==
  LET own == {OwnBox(src, f, f.objects[i]) : i \in Below(f, id)}
             \cup {BoxOf(Coordinates(w)) : w \in Synthesised(src, f, f.objects[id])}
      extent == f.objects[id].extent
      ordered == IF extent = None THEN None
                 ELSE Some([lo |-> Ordered(src.swap, extent[1].lo), hi |-> Ordered(src.swap, extent[1].hi)])
  IN  UnionBox(FoldLeft(UnionBox, None, SetToSeq(own)), ordered)

\* A group's roles: one text per child.
RolesOk(co) ==
  co.type = Name(<<"CityObjectGroup">>) /\ co.roles # None =>
    /\ Len(co.roles[1]) = (IF co.children = None THEN 0 ELSE Len(co.children[1]))
    /\ \A k \in DOMAIN co.roles[1] : co.roles[1][k] # None

StoredRoles(co) == IF co.type = Name(<<"CityObjectGroup">>) THEN co.roles ELSE None

\* The first instance is kept, and its matrix must be affine.
Instances(co) == {k \in DOMAIN co.geometries : co.geometries[k].type = Instance}

StoredInstance(src, f, co) ==
  IF Instances(co) = {} THEN None
  ELSE LET g == co.geometries[CHOOSE k \in Instances(co) : \A j \in Instances(co) : k <= j]
       IN  Some([template |-> g.template, point |-> Coord(src, f.vertices, g.point), matrix |-> g.matrix])

InstanceOk(f, co) ==
  Instances(co) # {} =>
    LET g == co.geometries[CHOOSE k \in Instances(co) : \A j \in Instances(co) : k <= j]
    IN  g.point \in DOMAIN f.vertices /\ g.matrix # "projective"

\* The members of an address that have a column.  Any other, and one of these
\* that is not a text, is dropped, and no count says so.
PostalMembers ==
  {"thoroughfareName", "thoroughfareNumber", "postBox", "postcode", "locality",
   "administrativeArea", "country", "freeText"}

PostalFields(members) ==
  Restrict(members, {n \in PostalMembers \cap DOMAIN members : members[n].kind \in Accepts("String")})

\* An address keeps its place though nothing of it is kept; a location is
\* stored when it is a point that can be written.
StoredAddress(src, f, co) ==
  IF co.address = None THEN None
  ELSE Some([k \in DOMAIN co.address[1] |->
         LET entry == co.address[1][k] IN
         [postal |-> PostalFields(entry.postal),
          location |-> IF entry.location = None \/ ~IndicesFit(entry.location[1], f.vertices) THEN None
                       ELSE Wkb(src, f, entry.location[1])]])

\* Members the schema has no column for, without those an attribute hides.
Collides(co, n) == n \in DOMAIN co.attributes /\ co.attributes[n].kind # "null"
StoredOthers(co) == Restrict(co.others, {n \in DOMAIN co.others : ~Collides(co, n)})

\* The cells of the attribute columns.
Cells(src, scan, co) ==
  [c \in DOMAIN scan.attributes |->
    LET names == {n \in DOMAIN co.attributes : StoredAttribute(src.exts, n) = c}
    IN  IF names = {} THEN <<>> ELSE Cell(scan.attributes[c], co.attributes[CHOOSE n \in names : TRUE])]

EncodeSurface(exts, s) ==
  IF s = None THEN <<>> ELSE [k \in DOMAIN s[1].surfaces |-> EncodeName(exts, s[1].surfaces[k], "surface")]

\* The stored form of a geometry: its column of the row.
Slot(src, f, g, defs) ==
  LET dropped == Dropped(g) IN
  [wkb |-> Wkb(src, f, g)[1],
   props |-> Properties(g, dropped, EncodeSurface(src.exts, g.semantics)),
   material |-> MaterialCell(g, dropped, f.materials, defs.materials),
   texture |-> TextureCell(g, dropped, f.textures, f.uvs, defs.textures)]

FootprintSlot(wkb) ==
  [wkb |-> wkb, props |-> [type |-> "MultiSurface", surfaces |-> None, face_semantics |-> None, shells |-> None],
   material |-> <<>>, texture |-> <<>>]

SlotsOk(src, f, co) ==
  \A k \in Slots(src, f, co) :
    LET g == co.geometries[k]
        s == g.semantics
    IN  /\ MaterialsFit(g, Dropped(g), f.materials, src.tolerant)
        /\ TexturesFit(g, Dropped(g), f.textures, f.uvs, src.tolerant)
        /\ s # None => \A j \in DOMAIN s[1].surfaces : Encodable(src.exts, s[1].surfaces[j], "surface")

\* The definitions in use after an object, in the order of their ids.
DefsAfter(src, f, co, defs) ==
  FoldLeft(LAMBDA d, k :
             LET g == co.geometries[k] IN
             [materials |-> Interned(d.materials, MaterialDefs(g, Dropped(g), f.materials)),
              textures |-> Interned(d.textures, TextureDefs(g, Dropped(g), f.textures))],
           defs, SetToSortSeq(Slots(src, f, co), <))

\* `defs` are those after the object.
ObjectOk(src, f, id, defs) ==
  LET co == f.objects[id]
  IN  /\ RolesOk(co) /\ InstanceOk(f, co) /\ SlotsOk(src, f, co)
      /\ \A k \in Slots(src, f, co) :
           LET slot == Slot(src, f, co.geometries[k], defs)
           IN  CellsWellFormed(slot.material, slot.texture)

\* A footprint is stored only where the table has a column for it.
EncodedRow(src, scan, f, id, defs) ==
  LET co == f.objects[id]
      slots == Slots(src, f, co)
      at(lod) == {k \in slots : LodOf(co.geometries[k].lod) = lod}
      prints == Synthesised(src, f, co)
      lods == {LodOf(co.geometries[k].lod) : k \in slots} \cup (IF prints = {} THEN {} ELSE {Lod0})
  IN  [id |-> id, feature |-> f.id, type |-> StoredType(src.exts, co.type),
       parents |-> co.parents, children |-> co.children, roles |-> StoredRoles(co),
       address |-> StoredAddress(src, f, co), box |-> RowBox(src, f, id),
       slots |-> [lod \in lods \cap scan.lods |->
                    IF at(lod) = {} THEN FootprintSlot(CHOOSE w \in prints : TRUE)
                    ELSE Slot(src, f, co.geometries[CHOOSE k \in at(lod) : TRUE], defs)],
       instance |-> StoredInstance(src, f, co),
       others |-> StoredOthers(co),
       cells |-> Cells(src, scan, co)]

\* What the report says was left out of an object.
NoLoss == [sameLod |-> 0, coerced |-> 0, rings |-> 0, surfaces |-> 0, collided |-> 0, badRefs |-> 0]

Loss(src, scan, f, id) ==
  LET co == f.objects[id]
      slots == Slots(src, f, co)
      sum(Count(_)) == SumOf([i \in 1 .. Cardinality(slots) |->
                         Count(co.geometries[SetToSortSeq(slots, <)[i]])])
  IN  [sameLod |-> Cardinality(Written(src, f, co)) - Cardinality(slots),
       coerced |-> Cardinality({n \in DOMAIN co.attributes :
                      Coerced(scan.attributes[StoredAttribute(src.exts, n)], co.attributes[n])}),
       rings |-> sum(DroppedRings),
       surfaces |-> sum(LAMBDA g : Cardinality(Dropped(g))),
       collided |-> Cardinality({n \in DOMAIN co.others : Collides(co, n)}),
       badRefs |-> sum(LAMBDA g : InvalidRefs(g, Dropped(g), f.materials, f.textures, f.uvs))]

Plus(a, b) == [k \in DOMAIN a |-> a[k] + b[k]]
-----------------------------------------------------------------------------
(* Templates *)

TemplateWkb(src, g) == ToWkb(g, src.templatePoints)

TemplatesOk(src) ==
  \A t \in DOMAIN src.templates :
    LET g == src.templates[t] IN
    /\ IndicesFit(g, src.templatePoints)
    /\ TemplateWkb(src, g) # None
    /\ MaterialsFit(g, Dropped(g), src.appearance.materials, src.tolerant)
    /\ TexturesFit(g, Dropped(g), src.appearance.textures, src.appearance.uvs, src.tolerant)
    /\ ValidLod(g.lod)

\* The definitions of the templates come after those of the objects.
TemplateDefs(src, defs) ==
  FoldLeft(LAMBDA d, g :
             [materials |-> Interned(d.materials, MaterialDefs(g, Dropped(g), src.appearance.materials)),
              textures |-> Interned(d.textures, TextureDefs(g, Dropped(g), src.appearance.textures))],
           defs, src.templates)

\* The rows of implicit_geometries; the id is the position in the source.
TemplateRows(src, defs) ==
  [t \in DOMAIN src.templates |->
    LET g == src.templates[t] IN
    [lod |-> LodOf(g.lod), wkb |-> TemplateWkb(src, g)[1],
     props |-> Properties(g, Dropped(g), EncodeSurface(src.exts, g.semantics)),
     material |-> MaterialCell(g, Dropped(g), src.appearance.materials, defs.materials),
     texture |-> TextureCell(g, Dropped(g), src.appearance.textures, src.appearance.uvs, defs.textures)]]
-----------------------------------------------------------------------------
(* TableWriters: a table per module.  A table is [file, key, rows]; `key` is *)
(* the module that opened it.                                                *)

ReservedFiles == {"materials", "textures", "implicit_geometries"}
CoreFiles == {CoreFile[m] : m \in DOMAIN CoreFile}

TableOf(tables, file) == {t \in DOMAIN tables : tables[t].file = file}

\* Mutant: an extension may use the name of a core module's table.
RefusedLess(tables, key) == FileOf(key) \in ReservedFiles

\* A module whose table would be a sidecar's, another module's, or, for an
\* extension's own, one of the core's.
Refused(tables, key) ==
  \/ FileOf(key) \in ReservedFiles
  \/ key.space # "" /\ key.space \in CoreFiles
  \/ \E t \in TableOf(tables, FileOf(key)) :
       tables[t].key # key /\ ~(tables[t].key.core # "" /\ key.core # "")

\* The columns of a table: the LoDs of all modules it holds.
FileLods(scan, file) ==
  UNION {DOMAIN scan.geo[key] : key \in {k \in DOMAIN scan.geo : FileOf(k) = file}}

Projected(scan, file, row) == [row EXCEPT !.slots = Restrict(@, DOMAIN @ \cap FileLods(scan, file))]

\* The module of each row of a batch.
KeysOf(exts, batch) == [i \in DOMAIN batch |-> RowKey(exts, batch[i].type)]

BatchRefused(exts, tables, batch) ==
  LET keys == ToSet(KeysOf(exts, batch)) IN
  \/ \E key \in keys : key = NoKey \/ Refused(tables, key)
  \/ \E j, k \in keys : j # k /\ FileOf(j) = FileOf(k) /\ ~(j.core # "" /\ k.core # "")

\* A batch's rows for a file, module by module in the order of their first
\* rows.
RowsFor(exts, scan, batch, file) ==
  LET keys == KeysOf(exts, batch)
      first(i) == CHOOSE j \in DOMAIN batch : keys[j] = keys[i] /\ \A k \in 1 .. j - 1 : keys[k] # keys[i]
      places == Ranked({<<first(i), i>> : i \in {i \in DOMAIN batch : FileOf(keys[i]) = file}}, Before)
  IN  [n \in DOMAIN places |-> Projected(scan, file, batch[places[n][2]])]

\* The rows that open a table: the first ones for a file there is not.
Opening(exts, tables, batch) ==
  LET keys == KeysOf(exts, batch)
  IN  {i \in DOMAIN batch : /\ TableOf(tables, FileOf(keys[i])) = {}
                            /\ \A k \in 1 .. i - 1 : FileOf(keys[k]) # FileOf(keys[i])}

WriteBatchOf(exts, scan, tables, batch) ==
  LET opening == Ranked(Opening(exts, tables, batch), <)
      opened(key) == [file |-> FileOf(key), key |-> key, rows |-> RowsFor(exts, scan, batch, FileOf(key))]
  IN  [t \in DOMAIN tables |-> [tables[t] EXCEPT !.rows = @ \o RowsFor(exts, scan, batch, tables[t].file)]]
      \o [n \in DOMAIN opening |-> opened(KeysOf(exts, batch)[opening[n]])]
-----------------------------------------------------------------------------
(* Footers *)

Legal(types) == types \cap {"PolyhedralSurface", "GeometryCollection"} = {}

HighestLod(lods) == CHOOSE l \in lods : \A m \in lods : m = l \/ LowerLod(m, l)

\* city: the types of each column and the primary one; geo: the columns
\* GeoParquet knows, a footprint as primary one if there is one.
Footer(scan, file) ==
  LET keys == {k \in DOMAIN scan.geo : FileOf(k) = file}
      columns == [lod \in FileLods(scan, file) |->
                    UNION {scan.geo[k][lod] : k \in {k \in keys : lod \in DOMAIN scan.geo[k]}}]
      legal == {lod \in DOMAIN columns : Legal(columns[lod])}
      zero == {lod \in legal : lod[1] = 0}
  IN  [columns |-> columns,
       primary |-> IF DOMAIN columns = {} THEN None ELSE Some(HighestLod(DOMAIN columns)),
       geo |-> legal,
       geoPrimary |-> IF legal = {} THEN None ELSE Some(HighestLod(IF zero # {} THEN zero ELSE legal)),
       attributes |-> scan.attributes,
       crs |-> scan.crs]
=============================================================================
