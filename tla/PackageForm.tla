----------------------------- MODULE PackageForm ------------------------------
(***************************************************************************)
(* The columns and footers of a package's files                            *)
(* (lib/cityparquet-rs/crates/schema/src: model.rs, sidecar_schemas.rs,    *)
(* metadata.rs; crates/core/src: scan.rs, package.rs, sidecar.rs).         *)
(*                                                                         *)
(* A column is [name, type, nullable, crs], crs the annotation of a        *)
(* geometry, none if it has none.  A type is a Parquet leaf, physical and  *)
(* logical, or a group: a struct, a list of its one field, a map of two.   *)
(***************************************************************************)
EXTENDS CityRows

TypeOf(physical, logical, fields) == [physical |-> physical, logical |-> logical, fields |-> fields]

Utf8 == TypeOf("BYTE_ARRAY", "String", <<>>)
JsonText == TypeOf("BYTE_ARRAY", "Json", <<>>)
Binary == TypeOf("BYTE_ARRAY", "", <<>>)
Int32 == TypeOf("INT32", "", <<>>)
Int64 == TypeOf("INT64", "", <<>>)
Double == TypeOf("DOUBLE", "", <<>>)
Boolean == TypeOf("BOOLEAN", "", <<>>)

Column(name, type, nullable) == [name |-> name, type |-> type, nullable |-> nullable, crs |-> None]

Struct(fields) == TypeOf("GROUP", "", fields)
ListOf(type, nullable) == TypeOf("GROUP", "List", <<Column("item", type, nullable)>>)
Optional(names, type) == [k \in DOMAIN names |-> Column(names[k], type, TRUE)]

\* The key and the value of an entry are never null.
MapOf(value) == TypeOf("GROUP", "Map", <<Column("key", Utf8, FALSE), Column("value", value, FALSE)>>)

BboxType ==
  LET names == <<"xmin", "ymin", "zmin", "xmax", "ymax", "zmax">>
  IN  Struct([k \in DOMAIN names |-> Column(names[k], Double, FALSE)])

ImplicitType ==
  Struct(<<Column("id", Int64, TRUE), Column("point", Binary, TRUE),
           Column("transformationMatrix", ListOf(Double, FALSE), TRUE)>>)

AddressType ==
  ListOf(Struct(Optional(<<"street", "house_number", "po_box", "zip_code", "city", "state",
                           "country", "free_text">>, Utf8)
                \o <<Column("location", Binary, TRUE)>>), TRUE)

PropertiesType ==
  Struct(<<Column("type", Utf8, FALSE), Column("surfaces", JsonText, TRUE),
           Column("face_semantics", ListOf(Int32, TRUE), TRUE),
           Column("shells", ListOf(ListOf(Int32, FALSE), FALSE), TRUE)>>)

\* Per theme and face an id; per theme, face and ring an id and coordinates.
MaterialType == MapOf(ListOf(Int64, TRUE))

TextureType ==
  LET uv == ListOf(ListOf(Double, FALSE), FALSE)
      ring == Struct(<<Column("id", Int64, TRUE), Column("uv", uv, TRUE)>>)
  IN  MapOf(ListOf(ListOf(ring, FALSE), FALSE))

\* The type of an attribute column.
AttributeType(type) ==
  CASE type = "Boolean" -> Boolean
    [] type = "Int64" -> Int64
    [] type = "Float64" -> Double
    [] type = "Date" -> TypeOf("INT32", "Date", <<>>)
    [] type = "Timestamp" -> TypeOf("INT64", "Timestamp", <<>>)
    [] type = "String" -> Utf8
    [] type = "StringList" -> ListOf(Utf8, TRUE)
    [] type = "Json" -> JsonText
-----------------------------------------------------------------------------
(* to_arrow_schema *)

LodColumn(prefix, lod) == Name(prefix \o LodSuffix(lod))

\* The columns of a LoD stand together; the geometry is annotated, with its
\* CRS, where GeoParquet allows it.
Quartet(lod, annotated, crs) ==
  <<[Column(LodColumn(<<"geometry">>, lod), Binary, TRUE) EXCEPT !.crs = IF annotated THEN Some(crs) ELSE None],
    Column(LodColumn(<<"geometry", "properties">>, lod), PropertiesType, TRUE),
    Column(LodColumn(<<"material">>, lod), MaterialType, TRUE),
    Column(LodColumn(<<"texture">>, lod), TextureType, TRUE)>>

BeforeLods ==
  <<Column(Name(<<"id">>), Utf8, FALSE),
    Column(Name(<<"feature", "id">>), Utf8, FALSE),
    Column(Name(<<"object", "type">>), Utf8, FALSE),
    Column(Name(<<"parents">>), ListOf(Utf8, TRUE), TRUE),
    Column(Name(<<"children">>), ListOf(Utf8, TRUE), TRUE),
    Column(Name(<<"children", "roles">>), ListOf(Utf8, TRUE), TRUE),
    Column(Name(<<"address">>), AddressType, TRUE),
    Column(Name(<<"bbox">>), BboxType, TRUE)>>

AfterLods ==
  <<Column(Name(<<"implicit", "geometry">>), ImplicitType, TRUE),
    Column(Name(<<"other">>), JsonText, TRUE)>>

LodSeq(lods) == SetToSortSeq(lods, LowerLod)

\* No attribute has the name of a column of the format.
SchemaOk(attributes) == \A n \in DOMAIN attributes : n.plus \/ ~Reserved(n.words)

ObjectColumns(lods, annotated, crs, attributes) ==
  LET quartets == [k \in DOMAIN LodSeq(lods) |-> Quartet(LodSeq(lods)[k], LodSeq(lods)[k] \in annotated, crs)]
      names == SetToSeq(DOMAIN attributes)
  IN  BeforeLods \o FlattenSeq(quartets) \o AfterLods
      \o [k \in DOMAIN names |-> Column(names[k], AttributeType(attributes[names[k]]), TRUE)]

\* Mutant: every column may be annotated.
AnnotatedAll(scan) == scan.lods

\* The columns that hold no type GeoParquet forbids, whatever the module.
AnnotatedLods(scan) ==
  {lod \in scan.lods : \A key \in DOMAIN scan.geo : lod \in DOMAIN scan.geo[key] => Legal(scan.geo[key][lod])}

\* A table has the columns of its own LoDs out of the dataset's.
TableColumns(scan, file) ==
  ObjectColumns(FileLods(scan, file), AnnotatedLods(scan) \cap FileLods(scan, file), scan.crs, scan.attributes)
-----------------------------------------------------------------------------
(* The sidecars *)

SidecarColumns(names, last) ==
  <<Column(Name(<<"id">>), Int64, FALSE)>> \o names \o last

ColorType == ListOf(Double, FALSE)

MaterialsSchema ==
  SidecarColumns(
    <<Column(Name(<<"name">>), Utf8, TRUE), Column(Name(<<"ambientIntensity">>), Double, TRUE),
      Column(Name(<<"diffuseColor">>), ColorType, TRUE), Column(Name(<<"specularColor">>), ColorType, TRUE),
      Column(Name(<<"emissiveColor">>), ColorType, TRUE), Column(Name(<<"transparency">>), Double, TRUE),
      Column(Name(<<"shininess">>), Double, TRUE), Column(Name(<<"isSmooth">>), Boolean, TRUE)>>,
    <<Column(Name(<<"other">>), JsonText, TRUE)>>)

TexturesSchema ==
  SidecarColumns(
    <<Column(Name(<<"image", "uri">>), Utf8, TRUE), Column(Name(<<"image", "data">>), Binary, TRUE),
      Column(Name(<<"image", "type">>), Utf8, TRUE), Column(Name(<<"wrapMode">>), Utf8, TRUE),
      Column(Name(<<"textureType">>), Utf8, TRUE), Column(Name(<<"borderColor">>), ColorType, TRUE)>>,
    <<Column(Name(<<"other">>), JsonText, TRUE)>>)

\* Local coordinates: no geometry is annotated.
ImplicitSchema(rows) ==
  LET lods == LodSeq(UNION {DOMAIN rows[t].slots : t \in DOMAIN rows})
  IN  SidecarColumns(<<Column(Name(<<"name">>), Utf8, TRUE)>>,
                     FlattenSeq([k \in DOMAIN lods |-> Quartet(lods[k], FALSE, "absent")]))
-----------------------------------------------------------------------------
(* The files of a package: [columns, city]; a sidecar's `city` is no more    *)
(* than a version.                                                           *)

NoFooter ==
  [columns |-> <<>>, primary |-> None, geo |-> {}, geoPrimary |-> None, attributes |-> <<>>, crs |-> "absent",
   exts |-> {}]

TableFile(scan, exts, file) ==
  [columns |-> TableColumns(scan, file), city |-> [exts |-> exts] @@ Footer(scan, file)]

SidecarFile(columns) == [columns |-> columns, city |-> NoFooter]

\* A sidecar without rows is not written.
SidecarFiles(materials, textures, implicit) ==
  [f \in (IF materials = <<>> THEN {} ELSE {"materials"}) \cup (IF textures = <<>> THEN {} ELSE {"textures"})
         \cup (IF implicit = <<>> THEN {} ELSE {"implicit_geometries"}) |->
     SidecarFile(CASE f = "materials" -> MaterialsSchema
                   [] f = "textures" -> TexturesSchema
                   [] f = "implicit_geometries" -> ImplicitSchema(implicit))]

PackageFiles(scan, exts, tables, materials, textures, implicit) ==
  LET sidecars == SidecarFiles(materials, textures, implicit)
  IN  [f \in DOMAIN sidecars \cup {tables[t].file : t \in DOMAIN tables} |->
         IF f \in DOMAIN sidecars THEN sidecars[f] ELSE TableFile(scan, exts, f)]
=============================================================================
