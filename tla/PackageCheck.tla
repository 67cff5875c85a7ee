----------------------------- MODULE PackageCheck -----------------------------
(***************************************************************************)
(* The check of a package against the specification                        *)
(* (lib/cityparquet-rs/crates/core/src/validate): what it reports, each    *)
(* problem a severity and a code.                                          *)
(*                                                                         *)
(* A package is [files, tables, materials, textures, templates, item]:     *)
(* files as in PackageForm, the rows of the object tables and of the       *)
(* sidecars, the STAC item.                                                *)
(***************************************************************************)
EXTENDS PackageItem

When(cond, severity, code) == IF cond THEN {<<severity, code>>} ELSE {}
Error(cond, code) == When(cond, "error", code)
Warning(cond, code) == When(cond, "warning", code)

TableFiles(package) == DOMAIN package.files \ ReservedFiles
-----------------------------------------------------------------------------
(* Types of columns *)

LeafOf(type) ==
  CASE type.physical = "BYTE_ARRAY" /\ type.logical = "String" -> "Varchar"
    [] type.physical = "BYTE_ARRAY" /\ type.logical = "Json" -> "Json"
    [] type.physical = "BYTE_ARRAY" /\ type.logical = "" -> "Blob"
    [] type.physical = "INT32" /\ type.logical = "" -> "Int"
    [] type.physical = "INT64" /\ type.logical = "" -> "Bigint"
    [] type.physical = "DOUBLE" -> "Double"
    [] type.physical = "BOOLEAN" -> "Boolean"
    [] OTHER -> "none"

FieldNamed(fields, name) == {k \in DOMAIN fields : fields[k].name = name}
NamesOf(fields) == {fields[k].name : k \in DOMAIN fields}

RECURSIVE TypeProblems(_, _)
TypeProblems(want, got) ==
  LET wrong == Error(TRUE, "column.logical-type")
      fits == /\ got.type.physical = "GROUP" /\ got.type.logical = want.type.logical
              /\ want.type.logical # "" => Len(got.type.fields) = Len(want.type.fields)
      fields == want.type.fields
  IN  Warning(~want.nullable /\ got.nullable, "column.nullability")
      \cup CASE want.type.physical # "GROUP" ->
                  IF LeafOf(got.type) = LeafOf(want.type) THEN {}
                  ELSE IF LeafOf(want.type) = "Json" /\ LeafOf(got.type) = "Varchar"
                       THEN Error(TRUE, "column.json-type") ELSE wrong
             [] ~fits -> wrong
             [] want.type.logical # "" ->
                  UNION {TypeProblems(fields[k], got.type.fields[k]) : k \in DOMAIN fields}
             [] OTHER ->
                  UNION {UNION {TypeProblems(fields[k], got.type.fields[j]) :
                                  j \in FieldNamed(got.type.fields, fields[k].name)} : k \in DOMAIN fields}
                  \cup Error(NamesOf(fields) \ NamesOf(got.type.fields) # {}, "column.logical-type")
                  \cup Warning(NamesOf(got.type.fields) \ NamesOf(fields) # {}, "column.unknown-field")

\* Which columns must be there, and of which type.
FixedProblems(expected, columns) ==
  UNION {IF FieldNamed(columns, e.name) = {} THEN Error(TRUE, "column.missing")
         ELSE UNION {TypeProblems(e, columns[k]) : k \in FieldNamed(columns, e.name)} : e \in ToSet(expected)}

\* Types an attribute should have: the others are warned of.
AttributeProblems(type) ==
  Warning(/\ LeafOf(type) \notin {"Boolean", "Bigint", "Double", "Varchar", "Json"}
          /\ <<type.physical, type.logical>> \notin {<<"INT32", "Date">>, <<"INT64", "Timestamp">>}
          /\ type # ListOf(Utf8, TRUE), "attribute.type")
-----------------------------------------------------------------------------
(* The columns of a LoD *)

LodWords == {"lod" \o ToString(d) : d \in Digit}

\* The prefix of a column that looks like one of a LoD, and what follows it.
LodPrefixOf(n) ==
  {p \in LodPrefixes : /\ ~n.plus /\ Len(n.words) > Len(p) /\ SubSeq(n.words, 1, Len(p)) = p
                       /\ n.words[Len(p) + 1] \in LodWords}

LodsNamed(n) == {<<p, lod>> \in LodPrefixOf(n) \X (Digit \X Digit) : n = LodColumn(p, lod)}

\* Every quartet found, the attributes left aside: prefix and LoD.
LodColumns(columns, attributes) ==
  UNION {LodsNamed(columns[k].name) : k \in {k \in DOMAIN columns : columns[k].name \notin attributes}}

GeometryLods(columns, attributes) ==
  {e[2] : e \in {e \in LodColumns(columns, attributes) : e[1] = <<"geometry">>}}

ColumnOf(columns, prefix, lod) ==
  columns[CHOOSE k \in DOMAIN columns : columns[k].name = LodColumn(prefix, lod)]

Annotation(columns, lod) == ColumnOf(columns, <<"geometry">>, lod).crs

LodTypes(lod) == LET q == Quartet(lod, FALSE, "absent") IN [k \in 2 .. 4 |-> q[k]]

LodProblems(columns, attributes) ==
  LET found == LodColumns(columns, attributes)
      lods == {e[2] : e \in found}
      others == {columns[k].name : k \in DOMAIN columns} \ attributes
  IN  Error(\E n \in others : n.words \in LodPrefixes, "column.unsuffixed-geometry")
      \cup Error(\E n \in others : LodPrefixOf(n) # {} /\ LodsNamed(n) = {}, "column.lod-suffix")
      \cup Error({e[1] : e \in found} # {} /\ \E lod \in lods : {e[1] : e \in {e \in found : e[2] = lod}} # LodPrefixes,
                 "column.lod-companion")
      \cup UNION {UNION {UNION {TypeProblems(LodTypes(lod)[t], columns[k]) :
                          k \in FieldNamed(columns, LodTypes(lod)[t].name)} : t \in 2 .. 4} : lod \in lods}
      \cup Error(\E lod \in GeometryLods(columns, attributes) :
                   ColumnOf(columns, <<"geometry">>, lod).type.physical # "BYTE_ARRAY", "column.logical-type")

\* The order of the columns: fixed ones around the quartets, attributes last.
Rank(n) ==
  LET before(k) == {i \in DOMAIN k : k[i].name = n} IN
  IF before(BeforeLods) # {} THEN <<CHOOSE i \in before(BeforeLods) : TRUE, 0, 0>>
  ELSE IF before(AfterLods) # {} THEN <<20 + (CHOOSE i \in before(AfterLods) : TRUE), 0, 0>>
  ELSE IF LodsNamed(n) = {} THEN None
  ELSE LET e == CHOOSE e \in LodsNamed(n) : TRUE
           quartet == Quartet(e[2], FALSE, "absent")
       IN  <<10, 10 * e[2][1] + e[2][2], CHOOSE i \in DOMAIN quartet : quartet[i].name = n>>

Precedes(a, b) ==
  a[1] < b[1] \/ (a[1] = b[1] /\ (a[2] < b[2] \/ (a[2] = b[2] /\ a[3] < b[3])))

OrderProblems(columns, attributes) ==
  LET ranked == SelectSeq(columns, LAMBDA c : c.name \notin attributes /\ Rank(c.name) # None)
  IN  Warning(\/ \E i, k \in DOMAIN columns : i < k /\ columns[i].name \in attributes
                    /\ columns[k].name \notin attributes /\ Rank(columns[k].name) # None
              \/ \E i \in 1 .. Len(ranked) - 1 : Precedes(Rank(ranked[i + 1].name), Rank(ranked[i].name)),
              "column.order")
-----------------------------------------------------------------------------
(* Cells of a geometry: `ids` are those of the sidecars *)

Polygonal(wkb) == wkb.code \notin Pointlike
SolidFamily(wkb) == wkb.code \in {"PolyhedralSurface", "GeometryCollection"}
WkbFaces(wkb) == FlattenSeq(wkb.members)

PropertyProblems(wkb, props) ==
  LET faces == props.face_semantics
      shells == props.shells
      partition == /\ Len(shells[1]) = Len(wkb.members)
                   /\ \A i \in DOMAIN wkb.members : SumOf(shells[1][i]) = Len(wkb.members[i])
  IN  Error(WkbCode(CityJsonType(props.type)) # wkb.code, "value.properties-type")
      \cup Error((props.surfaces = None) # (faces = None), "value.semantics-null-together")
      \cup Error(faces # None /\ \/ Polygonal(wkb) /\ Len(faces[1]) # Len(WkbFaces(wkb))
                                 \/ /\ props.surfaces # None
                                    /\ \E k \in DOMAIN faces[1] : faces[1][k] # None
                                         /\ faces[1][k][1] \notin DOMAIN props.surfaces[1],
                 "value.face-semantics")
      \cup Error(\/ (shells = None) = SolidFamily(wkb)
                 \/ shells # None /\ SolidFamily(wkb) /\ ~partition, "value.shells")

\* Mutant: the ids are not looked up.
MaterialProblemsCounted(wkb, cell, ids) ==
  Error(\E t \in DOMAIN cell : Polygonal(wkb) /\ Len(cell[t]) # Len(WkbFaces(wkb)), "value.material")

MaterialProblems(wkb, cell, ids) ==
  Error(\E t \in DOMAIN cell :
          \/ Polygonal(wkb) /\ Len(cell[t]) # Len(WkbFaces(wkb))
          \/ \E k \in DOMAIN cell[t] : cell[t][k] # None /\ cell[t][k][1] \notin ids,
        "value.material")

\* An entry per ring of each face, a coordinate per point but the last.
TextureProblems(wkb, cell, ids) ==
  LET faces == WkbFaces(wkb) IN
  Error(\E t \in DOMAIN cell :
          \/ Polygonal(wkb) /\ Len(cell[t]) # Len(faces)
          \/ \E k \in DOMAIN cell[t] \cap DOMAIN faces :
               \/ Len(cell[t][k]) # Len(faces[k])
               \/ \E r \in DOMAIN cell[t][k] \cap DOMAIN faces[k] : cell[t][k][r] # None
                    /\ \/ cell[t][k][r][1].id \notin ids
                       \/ Len(cell[t][k][r][1].uv) + 1 # Len(faces[k][r]),
        "value.texture")

CellProblems(slot, ids) ==
  IF ~WkbOk(slot.wkb) THEN Error(TRUE, "value.wkb")
  ELSE PropertyProblems(slot.wkb, slot.props)
       \cup MaterialProblems(slot.wkb, slot.material, ids.materials)
       \cup TextureProblems(slot.wkb, slot.texture, ids.textures)

Readable(row) == {lod \in DOMAIN row.slots : WkbOk(row.slots[lod].wkb)}
-----------------------------------------------------------------------------
(* Rows of an object table *)

BoxWithin(outer, inner) == Covers(outer, inner.lo) /\ Covers(outer, inner.hi)

BoxProblems(row) ==
  LET extent == FoldLeft(UnionBox, None,
                  [k \in DOMAIN SetToSeq(Readable(row)) |->
                     BoxOf(Coordinates(row.slots[SetToSeq(Readable(row))[k]].wkb))])
  IN  Error(\/ row.box # None /\ \E k \in 1 .. 3 : row.box[1].lo[k] > row.box[1].hi[k]
            \/ row.box # None /\ extent # None /\ ~BoxWithin(row.box[1], extent[1])
            \/ row.box = None /\ extent # None, "value.bbox")

\* A core class belongs to its module's file; any other type needs a declared
\* namespace.
VerdictProblems(exts, file, type) ==
  LET classes == {t \in DOMAIN Taxonomy : type = Name(<<ClassOf(t)>>)} IN
  IF classes # {}
  THEN Error(CoreFile[Taxonomy[CHOOSE t \in classes : TRUE].module] # file, "package.object-type-module")
  ELSE Error(~IsExtensionName(exts, type), "package.unknown-object-type")

ImplicitProblems(row, ids) ==
  Error(row.instance # None /\ (row.instance[1].template \notin ids \/ row.instance[1].matrix = "projective"),
        "value.implicit-geometry")

LocationProblems(row) ==
  Error(row.address # None /\ \E k \in DOMAIN row.address[1] :
          LET at == row.address[1][k].location IN at # None /\ at[1].code # "MultiPoint",
        "value.address-location")

\* A member of `other` that the row has as an attribute.
OtherProblems(row, attributes) ==
  Error(\E n \in attributes : /\ Restorable(n) /\ RestoreName(n) \in DOMAIN row.others
                              /\ n \in DOMAIN row.cells /\ row.cells[n] # <<>>,
        "value.other-collision")

RoleProblems(row) ==
  Error(row.roles # None /\ Len(row.roles[1]) # (IF row.children = None THEN 0 ELSE Len(row.children[1])),
        "value.children-roles")

RowProblems(city, file, row, ids) ==
  VerdictProblems(city.exts, file, row.type) \cup RoleProblems(row)
  \cup OtherProblems(row, DOMAIN city.attributes) \cup BoxProblems(row)
  \cup ImplicitProblems(row, ids.templates) \cup LocationProblems(row)
  \cup UNION {CellProblems(row.slots[lod], ids) : lod \in DOMAIN row.slots}

\* A feature's rows stand together, its root the first of them.
FamilyProblems(rows) ==
  LET starts == {k \in DOMAIN rows : k = 1 \/ rows[k - 1].feature # rows[k].feature}
  IN  Error(\E j, k \in starts : j < k /\ rows[j].feature = rows[k].feature, "value.feature-contiguity")
      \cup Warning(\E k \in DOMAIN rows : k \notin starts /\ rows[k].id = rows[k].feature, "value.feature-root-order")
-----------------------------------------------------------------------------
(* The footer of an object table *)

\* What the rows of a table hold in the column of a LoD.
CodesAt(rows, lod) ==
  {rows[i].slots[lod].wkb.code : i \in {i \in DOMAIN rows : lod \in Readable(rows[i])}}

HasCoordinates(rows) ==
  \E i \in DOMAIN rows :
    \/ rows[i].box # None \/ rows[i].instance # None \/ Readable(rows[i]) # {}
    \/ rows[i].address # None /\ \E k \in DOMAIN rows[i].address[1] : rows[i].address[1][k].location # None

CityProblems(city, lods, rows) ==
  Error(IF city.primary = None THEN lods # {} ELSE city.primary[1] \notin lods, "footer.primary-column")
  \cup Error(city.crs = "absent" /\ (lods # {} \/ HasCoordinates(rows)), "footer.crs-missing")
  \cup Error(DOMAIN city.columns # lods, "footer.columns")
  \cup Error(\E lod \in DOMAIN city.columns \cap lods : ~(CodesAt(rows, lod) \subseteq city.columns[lod]),
             "footer.geometry-types")
  \cup Warning(\E lod \in DOMAIN city.columns \cap lods :
                 CodesAt(rows, lod) # {} /\ ~(city.columns[lod] \subseteq CodesAt(rows, lod)), "footer.geometry-types")

\* A CRS stated by an annotation must be the file's.
AnnotationCrsOk(annotation, crs) ==
  annotation # None => (annotation[1] = "known") = (crs = "known")

GeoProblems(city, columns, lods, rows) ==
  LET illegal(lod) == LET codes == CodesAt(rows, lod) IN
        IF codes # {} THEN ~Legal(codes)
        ELSE lod \in DOMAIN city.columns /\ "PolyhedralSurface" \in city.columns[lod]
  IN  Error(city.geoPrimary # None /\ city.geoPrimary[1] \notin city.geo, "geo.primary-column")
      \cup Error(~(city.geo \subseteq lods), "geo.column-unknown")
      \cup Error(\E lod \in lods : (lod \in city.geo) # (Annotation(columns, lod) # None), "geo.annotation")
      \cup Error(\E lod \in lods : ~AnnotationCrsOk(Annotation(columns, lod), city.crs), "geo.annotation-crs")
      \cup Error(\E lod \in lods : IF lod \in city.geo THEN illegal(lod)
                                   ELSE CodesAt(rows, lod) # {} /\ Legal(CodesAt(rows, lod)), "geo.declaration")

AttributeListProblems(city, columns) ==
  LET names == NamesOf(columns)
      known(n) == \/ n \in DOMAIN city.attributes \/ n.words \in LodPrefixes \/ LodPrefixOf(n) # {}
                  \/ n \in NamesOf(BeforeLods) \cup NamesOf(AfterLods)
  IN  Error(\E n \in DOMAIN city.attributes : ~n.plus /\ Reserved(n.words), "attribute.reserved-name")
      \cup Error(~(DOMAIN city.attributes \subseteq names) \/ \E n \in names : ~known(n), "footer.attributes")
      \cup UNION {AttributeProblems(columns[k].type) :
                    k \in {k \in DOMAIN columns : columns[k].name \in DOMAIN city.attributes}}

TableProblems(package, t, ids) ==
  LET file == package.tables[t].file
      rows == package.tables[t].rows
      city == package.files[file].city
      columns == package.files[file].columns
      lods == GeometryLods(columns, DOMAIN city.attributes)
  IN  FixedProblems(BeforeLods \o AfterLods, columns)
      \cup LodProblems(columns, DOMAIN city.attributes)
      \cup AttributeListProblems(city, columns)
      \cup OrderProblems(columns, DOMAIN city.attributes)
      \cup UNION {RowProblems(city, file, rows[i], ids) : i \in DOMAIN rows}
      \cup FamilyProblems(rows)
      \cup CityProblems(city, lods, rows) \cup GeoProblems(city, columns, lods, rows)
-----------------------------------------------------------------------------
(* Across the tables *)

AllRows(package) == FlattenSeq([t \in DOMAIN package.tables |-> package.tables[t].rows])

\* The rows by id, the first of each.
Hierarchy(rows) ==
  [id \in {rows[k].id : k \in DOMAIN rows} |->
     rows[CHOOSE k \in DOMAIN rows : rows[k].id = id /\ \A j \in 1 .. k - 1 : rows[j].id # id]]

IsGroup(row) == row.type = Name(<<"CityObjectGroup">>)
FirstParent(row) == IF row.parents = None THEN None ELSE IF row.parents[1] = <<>> THEN None ELSE Some(Head(row.parents[1]))

\* The chain of first parents, stopped below the group a feature is grouped
\* by; none if it does not end.
RootOf(h, id) ==
  LET step[at \in DOMAIN h, seen \in SUBSET DOMAIN h] ==
        LET parent == FirstParent(h[at]) IN
        CASE parent = None -> Some(at)
          [] parent # None /\ parent[1] \notin DOMAIN h -> None
          [] parent # None /\ parent[1] \in DOMAIN h /\ IsGroup(h[parent[1]]) /\ h[at].feature = at -> Some(at)
          [] OTHER -> IF parent[1] \in seen THEN None ELSE step[parent[1], seen \cup {parent[1]}]
  IN  step[id, {}]

Mentioned(ids) == UNION {ToSet(list) : list \in ToSet(ids)}
Named(row) == Mentioned(row.parents) \cup Mentioned(row.children)

HierarchyProblems(rows) ==
  LET h == Hierarchy(rows) IN
  Error(Cardinality(DOMAIN h) # Len(rows), "value.duplicate-id")
  \cup Error(\E id \in DOMAIN h : RootOf(h, id) # None /\ RootOf(h, id) # Some(h[id].feature), "value.feature-id")
  \cup Warning(\E id \in DOMAIN h : ~(Named(h[id]) \subseteq DOMAIN h), "value.dangling-reference")
  \cup Error(\E id \in DOMAIN h : h[id].box # None /\
               \E p \in Mentioned(h[id].parents) \cap DOMAIN h :
                 /\ ~(IsGroup(h[p]) /\ h[p].feature # h[id].feature)
                 /\ h[p].box = None \/ ~BoxWithin(h[p].box[1], h[id].box[1]),
             "value.bbox-subtree")
-----------------------------------------------------------------------------
(* Sidecars *)

ColourProblems(columns, row) ==
  Error(\E c \in DOMAIN row.cells : /\ c \in DOMAIN columns /\ columns[c].kind = "list"
                                    /\ ~IsColour(row.cells[c].val, columns[c].length),
        "value.colour")

DefinitionProblems(columns, rows) ==
  Error(~UniqueIds(rows), "value.duplicate-id")
  \cup UNION {ColourProblems(columns, rows[k]) : k \in DOMAIN rows}

TextureRowProblems(row) ==
  Error({"image_uri", "image_data"} \cap DOMAIN row.cells = {}, "value.texture-image")
  \cup Error(\/ "wrapMode" \in DOMAIN row.cells /\ row.cells["wrapMode"].val \notin WrapModes
             \/ "textureType" \in DOMAIN row.cells /\ row.cells["textureType"].val \notin TextureTypes,
             "value.enumeration")

TemplateProblems(package, ids) ==
  LET rows == package.templates IN
  Error(~UniqueIds(rows), "value.duplicate-id")
  \cup Error(\E t \in DOMAIN rows : Cardinality(DOMAIN rows[t].slots) # 1, "value.implicit-row")
  \cup UNION {UNION {CellProblems(rows[t].slots[lod], ids) : lod \in DOMAIN rows[t].slots} : t \in DOMAIN rows}

SidecarProblems(package, file) ==
  LET columns == package.files[file].columns
      city == package.files[file].city
      expected == CASE file = "materials" -> MaterialsSchema
                    [] file = "textures" -> TexturesSchema
                    [] file = "implicit_geometries" -> ImplicitSchema(<<>>)
      lods == IF file = "implicit_geometries" THEN GeometryLods(columns, {}) ELSE {}
      known(n) == n \in NamesOf(expected) \/ (file = "implicit_geometries" /\ (n.words \in LodPrefixes \/ LodPrefixOf(n) # {}))
  IN  Warning(DOMAIN city.attributes # {} \/ city.primary # None \/ DOMAIN city.columns # {}, "footer.sidecar-fields")
      \cup Warning(file = "implicit_geometries" /\ city.crs # "absent", "footer.sidecar-crs")
      \cup FixedProblems(expected, columns)
      \cup (IF file = "implicit_geometries" THEN LodProblems(columns, {}) ELSE {})
      \cup Error(\E lod \in lods : Annotation(columns, lod) # None, "geo.annotation")
      \cup Warning(\E n \in NamesOf(columns) : ~known(n), "column.unknown")

SidecarIds(package) ==
  [materials |-> Ids(package.materials), textures |-> Ids(package.textures), templates |-> Ids(package.templates)]
-----------------------------------------------------------------------------
(* validate_package *)

\* A table file is a core module's, or of a namespace its footer declares.
LayoutProblems(package) ==
  Error(TableFiles(package) = {}, "package.no-object-table")
  \cup Error(\E f \in TableFiles(package) \ CoreFiles : f \notin Namespaces(package.files[f].city.exts),
             "package.object-table-name")

NamespaceProblems(package) ==
  LET declared == {<<Slug[e.name], e>> : e \in UNION {package.files[f].city.exts : f \in DOMAIN package.files}}
  IN  Error(\E a, b \in declared : a[1] = b[1] /\ a # b, "extension.inconsistent")

Problems(package) ==
  LET ids == SidecarIds(package) IN
  LayoutProblems(package) \cup NamespaceProblems(package)
  \cup ItemProblems(package.item, DOMAIN package.files)
  \cup UNION {SidecarProblems(package, f) : f \in DOMAIN package.files \cap ReservedFiles}
  \cup DefinitionProblems(MaterialColumns, package.materials)
  \cup DefinitionProblems(TextureColumns, package.textures)
  \cup UNION {TextureRowProblems(package.textures[k]) : k \in DOMAIN package.textures}
  \cup TemplateProblems(package, ids)
  \cup UNION {TableProblems(package, t, ids) : t \in DOMAIN package.tables}
  \cup HierarchyProblems(AllRows(package))

HasErrors(problems) == \E p \in problems : p[1] = "error"
=============================================================================
