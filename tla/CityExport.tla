----------------------------- MODULE CityExport ------------------------------
(***************************************************************************)
(* From the rows of a package back to CityJSON features                    *)
(* (lib/cityparquet-rs/crates/core/src: decode.rs, family.rs, export.rs).  *)
(*                                                                         *)
(* An exported feature has the form of a source's, its vertices quantised  *)
(* to the scale of the CRS.                                                *)
(***************************************************************************)
EXTENDS CityRows

CONSTANT ExportScale  \* synthesize_transform's scale, in units of the world

\* n / d rounded half away from zero.
Rounded(n, d) == IF n >= 0 THEN (2 * n + d) \div (2 * d) ELSE -((2 * (-n) + d) \div (2 * d))

Quantised(p, translate) == [k \in 1 .. 3 |-> Rounded(p[k] - translate[k], ExportScale)]

\* The least corner of the package, in the axes of the CRS.
Translate(swap, tables) ==
  LET rows == FlattenSeq([t \in DOMAIN tables |-> tables[t].rows])
      box == FoldLeft(UnionBox, None, [i \in DOMAIN rows |-> rows[i].box])
  IN  IF box = None THEN <<0, 0, 0>> ELSE Ordered(swap, box[1].lo)
-----------------------------------------------------------------------------
(* Families: rows of one feature are gathered as the tables are read; a      *)
(* feature whose children are not all there waits for other tables.          *)

NoFamily == [current |-> None, parked |-> <<>>, order |-> <<>>, closed |-> {}, done |-> {}]

\* The root is there, and every child any row names.
Complete(key, rows) ==
  LET ids == {rows[k].id : k \in DOMAIN rows}
  IN  /\ key \in ids
      /\ \A k \in DOMAIN rows : UNION {ToSet(c) : c \in ToSet(rows[k].children)} \subseteq ids

\* close_run: what is complete is emitted, the rest parked.
Closes(fam) == fam.current # None /\ Complete(fam.current[1].key, fam.current[1].rows)

CloseRun(fam) ==
  IF fam.current = None THEN fam
  ELSE LET key == fam.current[1].key
           after == [fam EXCEPT !.current = None, !.closed = @ \cup {key}]
       IN  IF Closes(fam) THEN [after EXCEPT !.done = @ \cup {key}]
           ELSE [after EXCEPT !.parked = [k \in DOMAIN @ \cup {key} |->
                                            IF k = key THEN fam.current[1].rows ELSE @[k]],
                              !.order = IF key \in ToSet(@) THEN @ ELSE Append(@, key)]

Continues(fam, row) == fam.current # None /\ fam.current[1].key = row.feature

\* A feature seen again in the same table, or after it was complete.
PushRefused(fam, row) ==
  /\ ~Continues(fam, row)
  /\ row.feature \in CloseRun(fam).closed \cup CloseRun(fam).done

PushRow(fam, row) ==
  IF Continues(fam, row) THEN [fam EXCEPT !.current = Some([fam.current[1] EXCEPT !.rows = Append(@, row)])]
  ELSE LET after == CloseRun(fam)
           waiting == IF row.feature \in DOMAIN after.parked THEN after.parked[row.feature] ELSE <<>>
       IN  [after EXCEPT !.current = Some([key |-> row.feature, rows |-> Append(waiting, row)]),
                         !.parked = Restrict(@, DOMAIN @ \ {row.feature})]

EndOfTable(fam) == [CloseRun(fam) EXCEPT !.closed = {}]

\* Mutant: what is not complete is given up.
LeftoverNone(fam) == <<>>

\* What is still parked at the end is emitted as it is, in the order it was
\* first parked.
Leftover(fam) ==
  LET left == {k \in DOMAIN fam.order : fam.order[k] \in DOMAIN fam.parked}
  IN  [n \in 1 .. Cardinality(left) |-> fam.order[Ranked(left, <)[n]]]
-----------------------------------------------------------------------------
(* decode_batch *)

Filled(row) == {c \in DOMAIN row.cells : row.cells[c] # <<>>}

\* Attributes of the columns, and the members of `other` beside them.
DecodedAttributes(footer, row) ==
  [n \in {RestoreName(c) : c \in Filled(row)} |->
    LET c == CHOOSE c \in Filled(row) : RestoreName(c) = n
    IN  CellValue(footer.attributes[c], row.cells[c][1])] @@ row.others

RowDecodes(footer, row) ==
  /\ \A c \in DOMAIN row.cells : Restorable(c)
  /\ {RestoreName(c) : c \in Filled(row)} \cap DOMAIN row.others = {}
  /\ \A lod \in DOMAIN row.slots : WkbOk(row.slots[lod].wkb)
  /\ row.instance # None => row.instance[1].matrix # "projective"

SlotType(slot) == CityJsonType(slot.props.type)

\* What makes a stored geometry unreadable: shells that do not add up to its
\* faces, or a list per face that does not nest.
SlotReads(slot) ==
  LET type == SlotType(slot)
      shells == slot.props.shells
      faces == slot.props.face_semantics
  IN  /\ slot.wkb.code = WkbCode(type)
      /\ ShellsFit(type, slot.wkb.members, shells)
      /\ slot.props.surfaces # None => Nestable(type, IF faces = None THEN <<>> ELSE faces[1], shells)
      /\ CellsNest(type, slot.material, slot.texture, shells)

LodsInOrder(row) == SetToSortSeq(DOMAIN row.slots, LowerLod)

SlotAt(row, k) == row.slots[LodsInOrder(row)[k]]
-----------------------------------------------------------------------------
(* FeatureBuilder::build: what the feature's own lists will hold, in the     *)
(* order the rows, their columns and their addresses are met.                *)

FlatMap(rows, Of(_)) == FlattenSeq([i \in DOMAIN rows |-> Of(rows[i])])

SlotsOf(row) == [k \in DOMAIN LodsInOrder(row) |-> SlotAt(row, k)]

\* The points of a row: its geometries, its instance, its addresses.
RowPoints(row) ==
  FlatMap(SlotsOf(row), LAMBDA s : Coordinates(s.wkb))
  \o (IF row.instance = None THEN <<>> ELSE <<row.instance[1].point>>)
  \o (IF row.address = None THEN <<>>
      ELSE FlatMap(row.address[1], LAMBDA a :
             IF a.location = None THEN <<>> ELSE Coordinates(a.location[1])))

Place(swap, translate, p) == Quantised(Ordered(swap, p), translate)

BuiltVertices(swap, translate, rows) ==
  Localised(<<>>, FlatMap(rows, LAMBDA row :
    [k \in DOMAIN RowPoints(row) |-> Place(swap, translate, RowPoints(row)[k])]))

BuiltMaterials(rows) ==
  Localised(<<>>, FlatMap(rows, LAMBDA row : FlatMap(SlotsOf(row), LAMBDA s : MaterialIds(s.material))))

BuiltTextures(rows) ==
  Localised(<<>>, FlatMap(rows, LAMBDA row : FlatMap(SlotsOf(row), LAMBDA s : TextureIds(s.texture))))

BuiltUvs(rows) ==
  Localised(<<>>, FlatMap(rows, LAMBDA row : FlatMap(SlotsOf(row), LAMBDA s : CellUvs(s.texture))))

\* Every id a row holds has its definition in the sidecars.
IdsKnown(pkg, slot) ==
  /\ ToSet(MaterialIds(slot.material)) \subseteq DOMAIN pkg.materials
  /\ ToSet(TextureIds(slot.texture)) \subseteq DOMAIN pkg.textures

\* Rebuilt boundaries: indices into the feature's vertices, `at` their place.
Boundaries(slot, vertices, at) ==
  LET members == FromWkb(slot.wkb)
      indexed == [i \in DOMAIN members |-> [k \in DOMAIN members[i] |-> [r \in DOMAIN members[i][k] |->
                    [v \in DOMAIN members[i][k][r] |-> PlaceIn(vertices, at[members[i][k][r][v]])]]]]
  IN  Solids(SlotType(slot), indexed, slot.props.shells)

BuiltGeometry(exts, lod, slot, built, at) ==
  LET type == SlotType(slot)
      props == slot.props
      faces == IF props.face_semantics = None THEN <<>> ELSE props.face_semantics[1]
  IN  [type |-> type, lod |-> lod, solids |-> Boundaries(slot, built.vertices, at),
       semantics |-> IF props.surfaces = None THEN None
                     ELSE Some([surfaces |-> [k \in DOMAIN props.surfaces[1] |-> DecodeName(exts, props.surfaces[1][k])],
                                values |-> Some(NestSome(type, faces, props.shells))]),
       material |-> LocalMaterial(type, slot.material, props.shells, built.materials),
       texture |-> LocalTexture(type, slot.texture, props.shells, built.textures, built.uvs)]

OneRing(ring) == << << << <<ring>> >> >> >>

BuiltAddress(row, built, at) ==
  IF row.address = None THEN None
  ELSE Some([k \in DOMAIN row.address[1] |->
         LET entry == row.address[1][k] IN
         [postal |-> entry.postal,
          location |-> IF entry.location = None THEN None
                       ELSE Some([type |-> "MultiPoint",
                                  solids |-> OneRing(
                                    [v \in DOMAIN Coordinates(entry.location[1]) |->
                                      PlaceIn(built.vertices, at[Coordinates(entry.location[1])[v]])])])]])

\* An instance comes back when the package has templates.
BuiltObject(pkg, footer, row, built, at) ==
  LET attributes == DecodedAttributes(footer, row)
      decoded == {DecodeName(pkg.exts, n) : n \in DOMAIN attributes}
  IN  [type |-> ExportedType(pkg.exts, row.type),
       parents |-> row.parents, children |-> row.children, roles |-> row.roles,
       attributes |-> [n \in decoded |->
          attributes[CHOOSE m \in DOMAIN attributes : DecodeName(pkg.exts, m) = n]],
       geometries |-> [k \in DOMAIN LodsInOrder(row) |->
          BuiltGeometry(pkg.exts, LodsInOrder(row)[k], SlotAt(row, k), built, at)]
          \o (IF row.instance = None \/ pkg.templates = <<>> THEN <<>>
              ELSE <<[type |-> Instance, template |-> row.instance[1].template,
                      point |-> PlaceIn(built.vertices, at[row.instance[1].point]),
                      matrix |-> row.instance[1].matrix]>>),
       address |-> BuiltAddress(row, built, at),
       extent |-> IF row.box = None THEN None
                  ELSE Some([lo |-> Ordered(pkg.swap, row.box[1].lo), hi |-> Ordered(pkg.swap, row.box[1].hi)]),
       others |-> <<>>]

\* The rows of a feature can be built: every geometry and every reference.
BuildOk(pkg, rows) ==
  \A i \in DOMAIN rows :
    /\ RowDecodes(pkg.footer, rows[i])
    /\ \A lod \in DOMAIN rows[i].slots :
         SlotReads(rows[i].slots[lod]) /\ (pkg.restore => IdsKnown(pkg, rows[i].slots[lod]))
    /\ rows[i].instance # None /\ pkg.templates # <<>> =>
         rows[i].instance[1].template \in DOMAIN pkg.templates

\* Without sidecars of appearance nothing of it is restored.
Built(pkg, key, rows) ==
  LET plain(row) == IF pkg.restore THEN row
                    ELSE [row EXCEPT !.slots = [lod \in DOMAIN row.slots |->
                            [row.slots[lod] EXCEPT !.material = <<>>, !.texture = <<>>]]]
      read == [i \in DOMAIN rows |-> plain(rows[i])]
      at == [p \in ToSet(FlatMap(read, RowPoints)) |-> Place(pkg.swap, pkg.translate, p)]
      built == [vertices |-> BuiltVertices(pkg.swap, pkg.translate, read),
                materials |-> BuiltMaterials(read),
                textures |-> BuiltTextures(read),
                uvs |-> BuiltUvs(read)]
  IN  [id |-> key,
       objects |-> [id \in {read[i].id : i \in DOMAIN read} |->
          BuiltObject(pkg, pkg.footer, read[CHOOSE i \in DOMAIN read : read[i].id = id], built, at)],
       vertices |-> built.vertices,
       materials |-> [k \in DOMAIN built.materials |-> pkg.materials[built.materials[k]]],
       textures |-> [k \in DOMAIN built.textures |-> pkg.textures[built.textures[k]]],
       uvs |-> built.uvs]

\* Appearance of stored geometries that is left out of the export.
AppearanceDropped(pkg, rows) ==
  IF pkg.restore THEN 0
  ELSE Len(FlatMap(rows, LAMBDA row : SelectSeq(SlotsOf(row), LAMBDA s :
         DOMAIN s.material # {} \/ DOMAIN s.texture # {})))
-----------------------------------------------------------------------------
(* rebuild_templates: positions as they are in the file, their own vertices *)
(* unquantised, one appearance for all of them.                              *)

BuiltTemplates(pkg) ==
  LET rows == pkg.templates
      built == [vertices |-> Localised(<<>>, FlatMap(rows, LAMBDA t : Coordinates(t.wkb))),
                materials |-> Localised(<<>>, FlatMap(rows, LAMBDA t : MaterialIds(t.material))),
                textures |-> Localised(<<>>, FlatMap(rows, LAMBDA t : TextureIds(t.texture))),
                uvs |-> Localised(<<>>, FlatMap(rows, LAMBDA t : CellUvs(t.texture)))]
  IN  [templates |-> [t \in DOMAIN rows |->
                        BuiltGeometry(pkg.exts, rows[t].lod, rows[t], built, [p \in ToSet(built.vertices) |-> p])],
       templatePoints |-> built.vertices,
       materials |-> [k \in DOMAIN built.materials |-> pkg.materials[built.materials[k]]],
       textures |-> [k \in DOMAIN built.textures |-> pkg.textures[built.textures[k]]],
       uvs |-> built.uvs]

TemplatesRead(pkg) ==
  \A t \in DOMAIN pkg.templates :
    WkbOk(pkg.templates[t].wkb) /\ SlotReads(pkg.templates[t]) /\ IdsKnown(pkg, pkg.templates[t])
=============================================================================
