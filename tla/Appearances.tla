----------------------------- MODULE Appearances -----------------------------
(***************************************************************************)
(* Materials and textures: from a feature's own lists to the ids of the    *)
(* sidecar files and back (lib/cityparquet-rs/crates/core/src:             *)
(* appearance.rs, appearance_columns.rs, faces.rs, encode.rs, export.rs,   *)
(* sidecar.rs).                                                            *)
(*                                                                         *)
(* A definition is [value, spelling]: two spellings of one JSON value are  *)
(* one definition.  Themes are numbers, in the order of their names.  Ids  *)
(* and indices count from 1; 0 and indices past a list are the ones out of *)
(* range.  A geometry's material maps a theme to [values, value], both     *)
(* optional, values a nesting of optional indices that may be null itself; *)
(* its texture maps a theme to an optional nesting of faces of rings, a    *)
(* ring none or [texture, uvs].                                            *)
(***************************************************************************)
EXTENDS FaceLists, Functions

\* The definitions with those of refs that are new appended.
Interned(defs, refs) ==
  FoldLeft(LAMBDA known, d : IF \E k \in DOMAIN known : known[k].value = d.value
                             THEN known ELSE Append(known, d), defs, refs)

IdOf(defs, d) == CHOOSE k \in DOMAIN defs : defs[k].value = d.value /\ \A j \in 1 .. k - 1 : defs[j].value # d.value

Themes(map) == SetToSortSeq(DOMAIN map, <)

InRange(defs, index) == index \in DOMAIN defs
-----------------------------------------------------------------------------
(* From a geometry to a cell of the material column *)

\* A theme without values or value.
Missing(theme) == theme.values = None /\ theme.value = None

\* The local index of each face of a theme.
FaceMaterials(g, theme) ==
  IF theme.values # None THEN Flatten(g.solids, theme.values[1])
  ELSE [k \in DOMAIN Faces(g.solids) |-> theme.value]

StoredMaterials(g, theme, dropped) == KeptOf(FaceMaterials(g, g.material[theme]), dropped)

\* Every local index used, theme by theme.
MaterialRefs(g, dropped) ==
  FlattenSeq(FlattenSeq([t \in DOMAIN Themes(g.material) |-> StoredMaterials(g, Themes(g.material)[t], dropped)]))

MaterialsFit(g, dropped, defs, tolerant) ==
  /\ \A t \in DOMAIN g.material : ~Missing(g.material[t])
  /\ \A k \in DOMAIN MaterialRefs(g, dropped) :
       tolerant \/ InRange(defs, MaterialRefs(g, dropped)[k])

\* The definitions the geometry adds.
MaterialDefs(g, dropped, defs) ==
  LET used == SelectSeq(MaterialRefs(g, dropped), LAMBDA i : InRange(defs, i))
  IN  [k \in DOMAIN used |-> defs[used[k]]]

\* The ids, per theme and face; none for an index out of range.
MaterialCell(g, dropped, defs, materials) ==
  [t \in DOMAIN g.material |->
    LET local == StoredMaterials(g, t, dropped)
    IN  [k \in DOMAIN local |-> IF local[k] # None /\ InRange(defs, local[k][1])
                                THEN Some(IdOf(materials, defs[local[k][1]])) ELSE None]]
-----------------------------------------------------------------------------
(* From a geometry to a cell of the texture column *)

Entry(list, k) == IF k \in DOMAIN list THEN list[k] ELSE <<>>

\* The rings of each face of a theme; a face that is not mentioned has none.
FaceTextures(g, theme) ==
  FlattenSeq([i \in DOMAIN g.solids |->
    FlattenSeq([j \in DOMAIN g.solids[i] |->
      [k \in DOMAIN g.solids[i][j] |-> Entry(Entry(Entry(theme[1], i), j), k)]])])

\* Mutant: the entries of dropped rings are not skipped.
RingTexturesShifted(surface, entries) ==
  LET rings == SelectSeq(surface, LAMBDA ring : NormaliseRing(ring) # None)
  IN  [r \in DOMAIN rings |->
         [vertices |-> Len(NormaliseRing(rings[r])[1]), texture |-> Entry(entries, r)]]

\* The texture of a face's stored rings, each with the number of its distinct
\* vertices: a ring that is dropped takes its entry with it.
RingTextures(surface, entries) ==
  FlattenSeq([r \in DOMAIN surface |->
    LET ring == NormaliseRing(surface[r])
    IN  IF ring = None THEN <<>>
        ELSE <<[vertices |-> Len(ring[1]), texture |-> Entry(entries, r)]>>])

\* Per stored face of a theme, its rings.
StoredTextures(g, theme, dropped) ==
  LET faces == Faces(g.solids)
      entries == FaceTextures(g, g.texture[theme])
  IN  KeptOf([p \in DOMAIN faces |-> RingTextures(faces[p], entries[p])], dropped)

Textured(ring, defs) == ring.texture # None /\ InRange(defs, ring.texture[1].texture)

\* Enough texture coordinates, all of them in range.
UvFits(ring, uvs) ==
  /\ Len(ring.texture[1].uvs) >= ring.vertices
  /\ \A k \in 1 .. ring.vertices : InRange(uvs, ring.texture[1].uvs[k])

AllRings(g, dropped) ==
  FlattenSeq(FlattenSeq([t \in DOMAIN Themes(g.texture) |->
    StoredTextures(g, Themes(g.texture)[t], dropped)]))

TexturesFit(g, dropped, defs, uvs, tolerant) ==
  /\ \A t \in DOMAIN g.texture : g.texture[t] # None
  /\ LET rings == AllRings(g, dropped) IN
     \A k \in DOMAIN rings :
       rings[k].texture # None /\ ~tolerant =>
         InRange(defs, rings[k].texture[1].texture) /\ UvFits(rings[k], uvs)

\* A texture is interned before its coordinates are looked at.
TextureDefs(g, dropped, defs) ==
  LET used == SelectSeq(AllRings(g, dropped), LAMBDA ring : Textured(ring, defs))
  IN  [k \in DOMAIN used |-> defs[used[k].texture[1].texture]]

\* Per theme, face and ring none, or the id and the coordinates themselves.
TextureCell(g, dropped, defs, uvs, textures) ==
  [t \in DOMAIN g.texture |->
    LET faces == StoredTextures(g, t, dropped) IN
    [p \in DOMAIN faces |-> [r \in DOMAIN faces[p] |->
      LET ring == faces[p][r] IN
      IF Textured(ring, defs) /\ UvFits(ring, uvs)
      THEN Some([id |-> IdOf(textures, defs[ring.texture[1].texture]),
                 uv |-> [k \in 1 .. ring.vertices |-> uvs[ring.texture[1].uvs[k]]]])
      ELSE None]]]

\* References of tolerated geometries that were dropped.
InvalidRefs(g, dropped, localMaterials, localTextures, uvs) ==
  LET materials == SelectSeq(MaterialRefs(g, dropped), LAMBDA i : ~InRange(localMaterials, i))
      rings == SelectSeq(AllRings(g, dropped), LAMBDA ring :
                 ring.texture # None /\ ~(Textured(ring, localTextures) /\ UvFits(ring, uvs)))
  IN  Len(materials) + Len(rings)

\* What a cell must be to be written and read: entries in every theme, rings
\* in every face, coordinates with every id.
CellsWellFormed(material, texture) ==
  /\ \A t \in DOMAIN material : material[t] # <<>>
  /\ \A t \in DOMAIN texture :
       /\ texture[t] # <<>>
       /\ \A p \in DOMAIN texture[t] :
            /\ texture[t][p] # <<>>
            /\ \A r \in DOMAIN texture[t][p] : texture[t][p][r] # None => texture[t][p][r][1].uv # <<>>
-----------------------------------------------------------------------------
(* Back to a feature's own lists: ids localised in the order they are met. *)

Localised(known, ids) ==
  FoldLeft(LAMBDA seen, id : IF id \in ToSet(seen) THEN seen ELSE Append(seen, id), known, ids)

PlaceIn(known, x) == CHOOSE k \in DOMAIN known : known[k] = x

MaterialIds(cell) ==
  FlattenSeq(FlattenSeq([t \in DOMAIN Themes(cell) |-> cell[Themes(cell)[t]]]))

CellRings(cell) ==
  FlattenSeq(FlattenSeq(FlattenSeq([t \in DOMAIN Themes(cell) |-> cell[Themes(cell)[t]]])))

TextureIds(cell) == [k \in DOMAIN CellRings(cell) |-> CellRings(cell)[k].id]
CellUvs(cell) == FlattenSeq([k \in DOMAIN CellRings(cell) |-> CellRings(cell)[k].uv])

\* A cell whose list cannot be nested by the shells.
CellsNest(type, material, texture, shells) ==
  /\ \A t \in DOMAIN material : Nestable(type, material[t], shells)
  /\ \A t \in DOMAIN texture : Nestable(type, texture[t], shells)

\* The material member: values, nested, of positions in the feature's list.
LocalMaterial(type, cell, shells, materials) ==
  [t \in DOMAIN cell |->
    [value |-> None,
     values |-> Some(Some(NestSome(type,
       [k \in DOMAIN cell[t] |-> IF cell[t][k] = None THEN None
                                 ELSE Some(PlaceIn(materials, cell[t][k][1]))], shells)))]]

LocalTexture(type, cell, shells, textures, uvs) ==
  [t \in DOMAIN cell |->
    Some(Nest(type,
      [p \in DOMAIN cell[t] |-> [r \in DOMAIN cell[t][p] |->
         LET ring == cell[t][p][r] IN
         IF ring = None THEN None
         ELSE Some([texture |-> PlaceIn(textures, ring[1].id),
                    uvs |-> [k \in DOMAIN ring[1].uv |-> PlaceIn(uvs, ring[1].uv[k])]])]],
      shells))]
-----------------------------------------------------------------------------
(* The rows of materials, textures and implicit_geometries, written and    *)
(* read back (sidecar.rs).  A definition is a function from its members to *)
(* [kind, val], the kinds JSON's: null, string, number, bool, list (a      *)
(* sequence of values), json.  Numbers are hundredths.  A row is [id,      *)
(* cells, other]: a cell per column that is not null, and the members      *)
(* without a column.                                                       *)

Json(kind, val) == [kind |-> kind, val |-> val]

\* The columns of a definition: its kind, its member, how long a list is.
MaterialColumns ==
  [c \in {"name", "ambientIntensity", "diffuseColor", "specularColor", "emissiveColor",
          "transparency", "shininess", "isSmooth"} |->
     [member |-> c, length |-> 3,
      kind |-> CASE c = "name" -> "string"
                 [] c = "isSmooth" -> "bool"
                 [] c \in {"diffuseColor", "specularColor", "emissiveColor"} -> "list"
                 [] OTHER -> "number"]]

TextureColumns ==
  [c \in {"image_uri", "image_type", "wrapMode", "textureType", "borderColor"} |->
     [member |-> CASE c = "image_uri" -> "image" [] c = "image_type" -> "type" [] OTHER -> c,
      length |-> 4,
      kind |-> IF c = "borderColor" THEN "list" ELSE "string"]]

WrapModes == {"none", "wrap", "mirror", "clamp", "border"}
TextureTypes == {"unknown", "specific", "typical"}

Held(def, member) == member \in DOMAIN def /\ def[member].kind # "null"

\* So many numbers from 0 to 1.
IsColour(list, length) ==
  /\ Len(list) = length
  /\ \A k \in DOMAIN list : list[k].kind = "number" /\ list[k].val \in 0 .. 100

CellFits(column, v) ==
  /\ v.kind = column.kind
  /\ column.kind = "list" => IsColour(v.val, column.length)

CellsFit(columns, def) ==
  \A c \in DOMAIN columns : Held(def, columns[c].member) => CellFits(columns[c], def[columns[c].member])

Stored(columns, def) ==
  [c \in {c \in DOMAIN columns : Held(def, columns[c].member)} |-> def[columns[c].member]]

\* Members with a column of their own are not repeated.
OtherMembers(columns, def) ==
  Restrict(def, DOMAIN def \ {columns[c].member : c \in DOMAIN columns})

DefinitionRow(columns, defs, k) ==
  [id |-> k, cells |-> Stored(columns, defs[k].value), other |-> OtherMembers(columns, defs[k].value)]

\* write_materials: refused when a member does not fit its column.
MaterialsWritten(defs) == \A k \in DOMAIN defs : CellsFit(MaterialColumns, defs[k].value)
MaterialRows(defs) == [k \in DOMAIN defs |-> DefinitionRow(MaterialColumns, defs, k)]

\* write_textures: a texture needs its image, and two members are enumerated.
TexturesWritten(defs) ==
  \A k \in DOMAIN defs : LET def == defs[k].value IN
    /\ "image" \in DOMAIN def /\ def["image"].kind = "string"
    /\ CellsFit(TextureColumns, def)
    /\ Held(def, "wrapMode") => def["wrapMode"].val \in WrapModes
    /\ Held(def, "textureType") => def["textureType"].val \in TextureTypes
TextureRows(defs) == [k \in DOMAIN defs |-> DefinitionRow(TextureColumns, defs, k)]

\* write_implicit_geometries: a row fills the columns of its own LoD.
ImplicitRows(templates) ==
  [t \in DOMAIN templates |->
    [id |-> t,
     slots |-> templates[t].lod :> [k \in DOMAIN templates[t] \ {"lod"} |-> templates[t][k]]]]
-----------------------------------------------------------------------------
(* Reading back *)

UniqueIds(rows) == \A j, k \in DOMAIN rows : rows[j].id = rows[k].id => j = k

\* Definitions read: unique ids, and no image in the row itself.
MaterialsRead(rows) == UniqueIds(rows)
TexturesRead(rows) == UniqueIds(rows) /\ \A k \in DOMAIN rows : "image_data" \notin DOMAIN rows[k].cells

\* The members of the columns, and over them those of `other`.
ReadDefinition(columns, row) ==
  [value |-> row.other @@
     [m \in {columns[c].member : c \in DOMAIN row.cells} |->
        row.cells[CHOOSE c \in DOMAIN row.cells : columns[c].member = m]],
   spelling |-> 0]

\* Looked up by id, not by position.
Ids(rows) == {rows[k].id : k \in DOMAIN rows}
RowOf(rows, id) == rows[CHOOSE k \in DOMAIN rows : rows[k].id = id]

ReadMaterials(rows) == [id \in Ids(rows) |-> ReadDefinition(MaterialColumns, RowOf(rows, id))]
ReadTextures(rows) == [id \in Ids(rows) |-> ReadDefinition(TextureColumns, RowOf(rows, id))]

\* Templates read: unique ids, one LoD each.
ImplicitRead(rows) ==
  UniqueIds(rows) /\ \A t \in DOMAIN rows : Cardinality(DOMAIN rows[t].slots) = 1

ReadTemplates(rows) ==
  [t \in DOMAIN rows |->
    LET lod == CHOOSE l \in DOMAIN rows[t].slots : TRUE
    IN  [lod |-> lod] @@ rows[t].slots[lod]]
=============================================================================
