----------------------------- MODULE PackageItem -----------------------------
(***************************************************************************)
(* The STAC Item of a package: derived from its files, checked, and read   *)
(* as the list of its files (lib/cityparquet-rs/crates/core/src: stac,     *)
(* validate/stac.rs).                                                      *)
(*                                                                         *)
(* An Item is [extensions, dated, version, box, assets, properties]: an    *)
(* asset per file with its roles; whether it has an instant; the extent,   *)
(* here in the CRS the source has, none if the package claims no place.    *)
(***************************************************************************)
EXTENDS PackageForm

ObjectRoles == {"data", "cityparquet-objects"}
SidecarRoles == {"data", "cityparquet-sidecar"}

City3dType(type) ==
  CASE type = "Boolean" -> "Boolean"
    [] type \in {"Int64", "Float64"} -> "Number"
    [] type \in {"Date", "Timestamp"} -> "Date"
    [] type = "String" -> "String"
    [] type = "StringList" -> "Array"
    [] type = "Json" -> "Object"

\* The LoDs of a file's geometry columns.
GeometryColumnLods(columns) ==
  {lod \in Digit \X Digit : \E k \in DOMAIN columns : columns[k].name = LodColumn(<<"geometry">>, lod)}

\* The types of a file's attributes.
ColumnAttributes(file) ==
  LET type(n) == file.columns[CHOOSE k \in DOMAIN file.columns : file.columns[k].name = n].type
      known(n) == {a \in AttributeTypes : AttributeType(a) = type(n)}
  IN  [n \in {n \in DOMAIN file.city.attributes : known(n) # {}} |-> City3dType(CHOOSE a \in known(n) : TRUE)]

\* A stored class in the words of the source.
SourceWord(n) ==
  LET back == {t \in DOMAIN Taxonomy : n = Name(<<ClassOf(t)>>)}
  IN  IF back # {} THEN Name(<<CHOOSE t \in back : TRUE>>) ELSE n

HasSemantics(row) ==
  \E lod \in DOMAIN row.slots : row.slots[lod].props.surfaces # None \/ row.slots[lod].props.face_semantics # None

\* Mutant: the first table speaks for all.
DescribedByOne(files, tables) ==
  [lods |-> GeometryColumnLods(files[tables[1].file].columns),
   attributes |-> ColumnAttributes(files[tables[1].file]),
   types |-> {SourceWord(tables[1].rows[i].type) : i \in DOMAIN tables[1].rows},
   objects |-> SumOf([t \in DOMAIN tables |-> Len(tables[t].rows)]),
   semantics |-> \E t \in DOMAIN tables : \E i \in DOMAIN tables[t].rows : HasSemantics(tables[t].rows[i]),
   materials |-> "materials" \in DOMAIN files, textures |-> "textures" \in DOMAIN files]

\* The union over all tables; an attribute has the type of the first table.
Described(files, tables) ==
  [lods |-> UNION {GeometryColumnLods(files[tables[t].file].columns) : t \in DOMAIN tables},
   attributes |-> FoldLeft(LAMBDA known, table : known @@ ColumnAttributes(files[table.file]), <<>>, tables),
   types |-> UNION {{SourceWord(tables[t].rows[i].type) : i \in DOMAIN tables[t].rows} : t \in DOMAIN tables},
   objects |-> SumOf([t \in DOMAIN tables |-> Len(tables[t].rows)]),
   semantics |-> \E t \in DOMAIN tables : \E i \in DOMAIN tables[t].rows : HasSemantics(tables[t].rows[i]),
   materials |-> "materials" \in DOMAIN files, textures |-> "textures" \in DOMAIN files]

\* The union of the boxes, from the statistics of the row groups.
PackageBox(tables) ==
  LET rows == FlattenSeq([t \in DOMAIN tables |-> tables[t].rows])
  IN  FoldLeft(UnionBox, None, [i \in DOMAIN rows |-> rows[i].box])

\* An Item claims no place when the package says it does not know its CRS.
ItemBox(crs, swap, tables) ==
  LET box == PackageBox(tables)
  IN  IF crs = "unknown" \/ box = None THEN None
      ELSE Some([lo |-> Ordered(swap, box[1].lo), hi |-> Ordered(swap, box[1].hi)])

Item(crs, swap, files, tables) ==
  [extensions |-> {"city3d", "file"}, dated |-> TRUE,
   box |-> ItemBox(crs, swap, tables),
   assets |-> [f \in DOMAIN files |-> IF f \in ReservedFiles THEN SidecarRoles ELSE ObjectRoles],
   properties |-> Described(files, tables)]
-----------------------------------------------------------------------------
(* Read as a list of files *)

WithRole(item, role) == {f \in DOMAIN item.assets : role \in item.assets[f]}

\* A package without roles is read by the names of its files.
Unmarked(item) ==
  WithRole(item, "cityparquet-objects") \cup WithRole(item, "cityparquet-sidecar") = {}

ListedTables(item) ==
  IF Unmarked(item) THEN DOMAIN item.assets \ ReservedFiles ELSE WithRole(item, "cityparquet-objects")

ListedSidecars(item) ==
  IF Unmarked(item) THEN DOMAIN item.assets \cap ReservedFiles
  ELSE WithRole(item, "cityparquet-sidecar") \ WithRole(item, "cityparquet-objects")
-----------------------------------------------------------------------------
(* check_stac: problems are [severity, code] *)

ItemErrors(item) ==
  (IF item.dated THEN {} ELSE {"stac.datetime"})
  \cup (IF "city3d" \in item.extensions THEN {} ELSE {"stac.city3d-extension"})
  \cup (IF \E f \in DOMAIN item.assets :
             \/ item.assets[f] \cap {"cityparquet-objects", "cityparquet-sidecar"} = {}
             \/ "data" \notin item.assets[f]
        THEN {"stac.asset-role"} ELSE {})
  \cup (IF \/ \E f \in WithRole(item, "cityparquet-objects") : f \in ReservedFiles
           \/ \E f \in WithRole(item, "cityparquet-sidecar") : f \notin ReservedFiles
        THEN {"stac.asset-role-mismatch"} ELSE {})

ItemWarnings(item, files) ==
  (IF "file" \in item.extensions THEN {} ELSE {"stac.file-extension"})
  \cup (IF "table" \in item.extensions THEN {"stac.table-extension"} ELSE {})
  \cup (IF DOMAIN item.assets \subseteq files THEN {} ELSE {"stac.asset-missing-file"})
  \cup (IF files \subseteq DOMAIN item.assets THEN {} ELSE {"stac.file-not-an-asset"})

ItemProblems(item, files) ==
  ({"error"} \X ItemErrors(item)) \cup ({"warning"} \X ItemWarnings(item, files))
=============================================================================
