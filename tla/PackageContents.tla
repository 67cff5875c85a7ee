--------------------------- MODULE PackageContents ---------------------------
(***************************************************************************)
(* What a package holds: a source is scanned, its objects are encoded row  *)
(* by row, the rows put in order and written to the table of their module, *)
(* and the package is checked and exported again, as written or as some    *)
(* other program would have written it                                     *)
(* (lib/cityparquet-rs/crates/core/src: package.rs, encode.rs, sort.rs,    *)
(* export.rs, family.rs).                                                  *)
(*                                                                         *)
(* CityRows and CityExport say what a row and a feature are made of,       *)
(* ExternalSort how rows are ordered.  The thread between encoder and      *)
(* writer is PackageWriter's: a batch is written here when it is sent.     *)
(***************************************************************************)
EXTENDS Comparison, Queries

CONSTANTS
  Sources,    \* the sources that may be converted
  Key,        \* Hilbert keys
  Weight,     \* the memory a batch may take
  Budget,     \* buffered memory above which the sort spills
  BatchSize,  \* rows per batch
  RunBatch,   \* rows per batch of a spilled run, at most
  Edits(_),   \* what other programs change in the package of a source
  Edited(_, _)  \* Edited(e, p): the package p with the change e

\* The ids of objects are texts, compared as such: numbers stand for them.
ASSUME ConstantsAssumption ==
  /\ Key \subseteq Nat
  /\ Weight \subseteq Nat
  /\ Budget \in Nat
  /\ {BatchSize, RunBatch, ExportScale} \subseteq Nat \ {0}
  /\ \A s \in Sources :
       /\ s.features \in Seq(ToSet(s.features))
       /\ \A f \in ToSet(s.features) : DOMAIN f.objects \subseteq Nat /\ IsFiniteSet(DOMAIN f.objects)

VARIABLES
  src,       \* the source
  stage,     \* scan, encode, sort, finish, written, export, exported;
             \* or refused, failed, exportRefused
  scan,      \* what the scan found
  encoder,   \* the next object, the batch being built, the appearance so far
  rows,      \* every row encoded, in source order
  loss,      \* what the report says was left out
  tables,    \* the object tables
  taken,     \* sorted batches written
  pkg,       \* the finished package, but for its tables; `own` if unchanged
  reader,    \* the export: tables left, the one being read, families, output
  phase, pushed, buffered, weight, runs, cursors, heap, sources, sourceOf, drawn, out  \* ExternalSort

Sort == INSTANCE ExternalSort

sort == <<phase, pushed, buffered, weight, runs, cursors, heap, sources, sourceOf, drawn, out>>
vars == <<src, stage, scan, encoder, rows, loss, tables, taken, pkg, reader, sort>>

NoScan == [attributes |-> <<>>, geo |-> <<>>, lods |-> {}, crs |-> "absent"]
NoItem == [extensions |-> {}, dated |-> FALSE, box |-> None, assets |-> <<>>, properties |-> <<>>]
NoPackage == [own |-> TRUE, swap |-> FALSE, files |-> <<>>, materials |-> <<>>, textures |-> <<>>,
              templates |-> <<>>, item |-> NoItem]
NoView == [exts |-> {}, swap |-> FALSE, translate |-> <<0, 0, 0>>, restore |-> FALSE,
           materials |-> <<>>, textures |-> <<>>, templates |-> <<>>]

Init ==
  /\ src \in Sources
  /\ stage = "scan"
  /\ scan = NoScan
  /\ encoder = [feature |-> 1, row |-> 1, key |-> 0, batch |-> <<>>, keys |-> <<>>,
                defs |-> [materials |-> <<>>, textures |-> <<>>]]
  /\ rows = <<>> /\ loss = NoLoss /\ tables = <<>> /\ taken = 0
  /\ pkg = NoPackage
  /\ reader = [left |-> {}, table |-> 0, row |-> 1, fam |-> NoFamily, output |-> <<>>, view |-> NoView]
  /\ Sort!Init
-----------------------------------------------------------------------------
(* convert_source: scan, encode, write *)

ScanSource ==
  /\ stage = "scan"
  /\ IF ScanOk(src) /\ SchemaOk(Scan(src).attributes) THEN stage' = "encode" /\ scan' = Scan(src)
     ELSE stage' = "refused" /\ UNCHANGED scan
  /\ UNCHANGED <<src, encoder, rows, loss, tables, taken, pkg, reader, sort>>

Exhausted == encoder.feature > Len(src.features)
Feature == src.features[encoder.feature]
BatchDue == Len(encoder.batch) = BatchSize \/ (Exhausted /\ encoder.batch # <<>>)

\* A feature without objects has no rows.
PassFeature ==
  /\ stage = "encode"
  /\ ~BatchDue /\ ~Exhausted
  /\ DOMAIN Feature.objects = {}
  /\ encoder' = [encoder EXCEPT !.feature = @ + 1]
  /\ UNCHANGED <<src, stage, scan, rows, loss, tables, taken, pkg, reader, sort>>

\* The next object is encoded; a feature's Hilbert key is computed with its
\* first one.
EncodeObject ==
  /\ stage = "encode"
  /\ ~BatchDue /\ ~Exhausted
  /\ DOMAIN Feature.objects # {}
  /\ LET f == Feature
         id == RowIds(f)[encoder.row]
         defs == DefsAfter(src, f, f.objects[id], encoder.defs)
         row == EncodedRow(src, scan, f, id, defs)
         last == encoder.row = Cardinality(DOMAIN f.objects)
     IN  IF ~ObjectOk(src, f, id, defs)
         THEN stage' = "refused" /\ UNCHANGED <<encoder, rows, loss>>
         ELSE /\ \E key \in IF encoder.row = 1 /\ src.hilbert THEN Key ELSE {encoder.key} :
                   encoder' = [feature |-> IF last THEN encoder.feature + 1 ELSE encoder.feature,
                               row |-> IF last THEN 1 ELSE encoder.row + 1,
                               key |-> key,
                               batch |-> Append(encoder.batch, row),
                               keys |-> Append(encoder.keys, key),
                               defs |-> defs]
              /\ rows' = Append(rows, row)
              /\ loss' = Plus(loss, Loss(src, scan, f, id))
              /\ UNCHANGED stage
  /\ UNCHANGED <<src, scan, tables, taken, pkg, reader, sort>>

\* One batch to the tables; a module that is refused ends the conversion.
WriteBatch(batch) ==
  IF BatchRefused(src.exts, tables, batch)
  THEN stage' = "refused" /\ UNCHANGED tables
  ELSE tables' = WriteBatchOf(src.exts, scan, tables, batch) /\ UNCHANGED stage

EmptyBatch == encoder' = [encoder EXCEPT !.batch = <<>>, !.keys = <<>>]

SendBatch ==
  /\ stage = "encode"
  /\ BatchDue /\ ~src.hilbert
  /\ WriteBatch(encoder.batch)
  /\ EmptyBatch
  /\ UNCHANGED <<src, scan, rows, loss, taken, pkg, reader, sort>>

SortBatch ==
  /\ stage = "encode"
  /\ BatchDue /\ src.hilbert
  /\ \E w \in Weight : Sort!PushBatch(encoder.keys, w)
  /\ EmptyBatch
  /\ UNCHANGED <<src, stage, scan, rows, loss, tables, taken, pkg, reader>>

EncodingEnds ==
  /\ stage = "encode"
  /\ Exhausted /\ ~BatchDue
  /\ stage' = IF src.hilbert THEN "sort" ELSE "finish"
  /\ UNCHANGED <<src, scan, encoder, rows, loss, tables, taken, pkg, reader, sort>>

\* The sorter works only for the batch asked for.
SortWorks ==
  /\ stage = "sort"
  /\ taken = Len(out)
  /\ Sort!Work
  /\ UNCHANGED <<src, stage, scan, encoder, rows, loss, tables, taken, pkg, reader>>

\* The batch does not fit into memory, and cannot be spilled.
SortBatchFails ==
  /\ stage = "encode"
  /\ BatchDue /\ src.hilbert
  /\ \E w \in Weight : Sort!PushFails(encoder.keys, w)
  /\ stage' = "failed"
  /\ EmptyBatch
  /\ UNCHANGED <<src, scan, rows, loss, tables, taken, pkg, reader>>

SortFails ==
  /\ stage = "sort"
  /\ taken = Len(out)
  /\ Sort!Fail
  /\ stage' = "failed"
  /\ UNCHANGED <<src, scan, encoder, rows, loss, tables, taken, pkg, reader>>

SendSorted ==
  /\ stage = "sort"
  /\ taken < Len(out)
  /\ taken' = taken + 1
  /\ WriteBatch([k \in DOMAIN out[taken + 1] |-> rows[out[taken + 1][k][2]]])
  /\ UNCHANGED <<src, scan, encoder, rows, loss, pkg, reader, sort>>

SortingEnds ==
  /\ stage = "sort"
  /\ taken = Len(out) /\ phase = "done"
  /\ stage' = "finish"
  /\ UNCHANGED <<src, scan, encoder, rows, loss, tables, taken, pkg, reader, sort>>

\* The templates, the sidecars of what was used, the footers and the Item.
FinishPackage ==
  /\ stage = "finish"
  /\ LET defs == TemplateDefs(src, encoder.defs)
         files == PackageFiles(scan, src.exts, tables, MaterialRows(defs.materials), TextureRows(defs.textures),
                               ImplicitRows(TemplateRows(src, defs)))
     IN  IF ~TemplatesOk(src) \/ tables = <<>> \/ ~MaterialsWritten(defs.materials) \/ ~TexturesWritten(defs.textures)
         THEN stage' = "refused" /\ UNCHANGED pkg
         ELSE /\ pkg' = [own |-> TRUE, swap |-> src.swap, files |-> files,
                         materials |-> MaterialRows(defs.materials), textures |-> TextureRows(defs.textures),
                         templates |-> ImplicitRows(TemplateRows(src, defs)),
                         item |-> Item(scan.crs, src.swap, files, tables)]
              /\ stage' = "written"
  /\ UNCHANGED <<src, scan, encoder, rows, loss, tables, taken, reader, sort>>

Package == [tables |-> tables] @@ pkg

\* The same city as another program, right or wrong, would have written it.
Edit ==
  /\ stage = "written" /\ pkg.own
  /\ \E e \in Edits(src) :
       LET p == Edited(e, Package) IN
       /\ tables' = p.tables
       /\ pkg' = [k \in DOMAIN pkg |-> IF k = "own" THEN FALSE ELSE p[k]]
  /\ UNCHANGED <<src, stage, scan, encoder, rows, loss, taken, reader, sort>>
-----------------------------------------------------------------------------
(* export *)

FooterOf(t) == pkg.files[tables[t].file].city

Opened == {t \in DOMAIN tables : tables[t].file \in ListedTables(pkg.item)}

\* The files the Item lists, opened; what is said of the whole package is
\* read from the first table.  Definitions are looked for if either file of
\* them is listed, templates if theirs is.
View ==
  LET listed == ListedSidecars(pkg.item)
      restore == {"materials", "textures"} \cap listed # {}
      first == CHOOSE t \in Opened : \A u \in Opened : t <= u
  IN  [exts |-> FooterOf(first).exts, swap |-> pkg.swap,
       translate |-> Translate(pkg.swap, [k \in 1 .. Cardinality(Opened) |-> tables[SetToSortSeq(Opened, <)[k]]]),
       restore |-> restore,
       materials |-> IF restore THEN ReadMaterials(pkg.materials) ELSE <<>>,
       textures |-> IF restore THEN ReadTextures(pkg.textures) ELSE <<>>,
       templates |-> IF "implicit_geometries" \in listed THEN ReadTemplates(pkg.templates) ELSE <<>>]

Opens ==
  LET listed == ListedSidecars(pkg.item) IN
  /\ ListedTables(pkg.item) # {} /\ ListedTables(pkg.item) \subseteq {tables[t].file : t \in DOMAIN tables}
  /\ {"materials", "textures"} \cap listed # {} => MaterialsRead(pkg.materials) /\ TexturesRead(pkg.textures)
  /\ "implicit_geometries" \in listed => "implicit_geometries" \in DOMAIN pkg.files /\ ImplicitRead(pkg.templates)

\* A package has as many CityJSON versions as its tables say: one here.
StartExport ==
  /\ stage = "written"
  /\ IF Opens /\ TemplatesRead(View)
     THEN stage' = "export" /\ reader' = [reader EXCEPT !.left = Opened, !.view = View]
     ELSE stage' = "exportRefused" /\ UNCHANGED reader
  /\ UNCHANGED <<src, scan, encoder, rows, loss, tables, taken, pkg, sort>>

\* The tables are read one after another, in the order they are listed.
OpenTable ==
  /\ stage = "export"
  /\ reader.table = 0
  /\ \E t \in reader.left : reader' = [reader EXCEPT !.table = t, !.row = 1, !.left = @ \ {t}]
  /\ UNCHANGED <<src, stage, scan, encoder, rows, loss, tables, taken, pkg, sort>>

PackageAt(t) == [footer |-> FooterOf(t)] @@ reader.view

\* A feature's rows become a feature of the output.
Emitted(t, key, members) == Append(reader.output, Built(PackageAt(t), key, members))

\* close_run on the way to the next row or table.
Emits(t) ==
  IF Closes(reader.fam) THEN Emitted(t, reader.fam.current[1].key, reader.fam.current[1].rows)
  ELSE reader.output

ReadRow ==
  /\ stage = "export" /\ reader.table # 0
  /\ reader.row <= Len(tables[reader.table].rows)
  /\ LET row == tables[reader.table].rows[reader.row]
         fam == PushRow(reader.fam, row)
     IN  IF PushRefused(reader.fam, row) \/ ~BuildOk(PackageAt(reader.table), <<row>>)
         THEN stage' = "exportRefused" /\ UNCHANGED reader
         ELSE /\ reader' = [reader EXCEPT !.row = @ + 1, !.fam = fam,
                                          !.output = IF Continues(reader.fam, row) THEN @
                                                     ELSE Emits(reader.table)]
              /\ UNCHANGED stage
  /\ UNCHANGED <<src, scan, encoder, rows, loss, tables, taken, pkg, sort>>

EndTable ==
  /\ stage = "export" /\ reader.table # 0
  /\ reader.row > Len(tables[reader.table].rows)
  /\ reader' = [reader EXCEPT !.table = 0, !.fam = EndOfTable(@), !.output = Emits(reader.table)]
  /\ UNCHANGED <<src, stage, scan, encoder, rows, loss, tables, taken, pkg, sort>>

\* What was never complete is emitted as it is.
ExportEnds ==
  /\ stage = "export" /\ reader.table = 0 /\ reader.left = {}
  /\ stage' = "exported"
  /\ LET last == Leftover(reader.fam) IN
     reader' = [reader EXCEPT !.output = @ \o [k \in DOMAIN last |->
                  Built(PackageAt(1), last[k], reader.fam.parked[last[k]])]]
  /\ UNCHANGED <<src, scan, encoder, rows, loss, tables, taken, pkg, sort>>

Next ==
  \/ ScanSource \/ PassFeature \/ EncodeObject \/ SendBatch \/ SortBatch \/ EncodingEnds
  \/ SortBatchFails \/ SortWorks \/ SortFails \/ SendSorted \/ SortingEnds \/ FinishPackage \/ Edit
  \/ StartExport \/ OpenTable \/ ReadRow \/ EndTable \/ ExportEnds

Spec == Init /\ [][Next]_vars
-----------------------------------------------------------------------------
(* Properties of the tables *)

\* "Each family's rows are contiguous in every object table, root row first"
\* (lib/cityparquet-rs/README.md:63): between two rows of a feature there are
\* only rows of it, and its root comes before the others.
FamiliesContiguous ==
  pkg.own => \A t \in DOMAIN tables : LET held == tables[t].rows IN
    \A i, k \in DOMAIN held : i < k /\ held[i].feature = held[k].feature =>
      /\ held[k].id # held[k].feature
      /\ \A j \in i .. k : held[j].feature = held[i].feature

\* A table file has one owner: the core, or one extension; never a sidecar's
\* name; and every row is in the file a reader derives from its type.
OneClaim ==
  pkg.own =>
  /\ \A t \in DOMAIN tables :
       /\ tables[t].file \notin ReservedFiles
       /\ LET owners == {IF key.core # "" THEN "" ELSE key.space :
                            key \in {RowKey(src.exts, tables[t].rows[i].type) : i \in DOMAIN tables[t].rows}}
          IN  /\ Cardinality(owners) = 1
              /\ owners # {""} => tables[t].file \notin CoreFiles
       /\ \A i \in DOMAIN tables[t].rows :
            FileOf(RowKey(src.exts, tables[t].rows[i].type)) = tables[t].file
  /\ \A t, u \in DOMAIN tables : tables[t].file = tables[u].file => t = u

\* A row's box covers the stored coordinates of the object and of everything
\* below it, in whatever table and batch those are: a reader prunes by it.
\* What is below an object is in every set that holds it and, with an object,
\* the object's children.
IsBelow(f, top, id) ==
  \A S \in SUBSET DOMAIN f.objects :
    top \in S /\ (\A i \in S : Listed(f.objects[i].children) \cap DOMAIN f.objects \subseteq S) => id \in S

BoxCovers ==
  \A r, s \in ToSet(rows) :
    r.feature = s.feature /\ IsBelow(src.features[CHOOSE k \in DOMAIN src.features :
                                                   src.features[k].id = r.feature], r.id, s.id) =>
      \A lod \in DOMAIN s.slots : \A p \in ToSet(Coordinates(s.slots[lod].wkb)) : Covers(r.box[1], p)
-----------------------------------------------------------------------------
(* Properties of queries *)

\* How a column may have been written: by this writer, or without anything to
\* prune by; texts in its statistics cut or not.
StylesOf(t, column, type) ==
  LET types == FooterOf(t).attributes
      written == {WriterProperties(r, BloomAttributes(tables[t].rows, types), column, type) : r \in Recipes}
  IN  {style @@ [cut |-> cut] : style \in written \cup {[statistics |-> FALSE, filter |-> FALSE]}, cut \in BOOLEAN}

\* The predicates on a column: equalities and intervals.
Predicates(asked) ==
  {Equals(text, v) : text \in BOOLEAN, v \in asked}
  \cup {[text |-> FALSE, lo |-> lo, hi |-> hi] : lo, hi \in {None} \cup {Some(v) : v \in asked}}

\* In a table: by an identifier, by an attribute, in a box.
TableReads ==
  stage = "written" => \A t \in DOMAIN tables : \A size \in RowGroupSizes :
    LET held == tables[t].rows
        groups == RowGroups(held, size)
        types == FooterOf(t).attributes
    IN
    /\ \A column \in {IdColumn, FeatureColumn}, style \in StylesOf(t, IdColumn, "String"),
          declared \in Declared, remote \in BOOLEAN :
         \A v \in Distinct(Values(held, column)) \cup Asked :
           EqLookup(groups, column, v, style, declared, remote).rows = Selected(held, column, Equals(TRUE, v))
    /\ \A column \in {c \in DOMAIN types : types[c] \in {"String", "Int64", "Float64"}} :
       \A style \in StylesOf(t, column, types[column]) :
         /\ \A pred \in Predicates(Distinct(Values(held, column)) \cup Asked), declared \in Declared :
              LET answer == AttrFilterIds(groups, column, types[column], pred, style, declared, TRUE)
                  found == Selected(held, column, pred)
              IN  IF answer = None THEN pred.text # (types[column] = "String")
                  ELSE answer[1].ids = [k \in DOMAIN found |-> found[k].id]
         /\ types[column] # "String" =>
              AttrStats(groups, column, types[column], style)
              = AttrStats(<<held>>, column, types[column], [style EXCEPT !.statistics = FALSE])
    /\ \A window \in Windows, known \in BOOLEAN :
         LET found == BoxQuery(groups, known, window)
             scan0 == SelectSeq(held, LAMBDA row : RowMeets(row, window))
         IN  /\ found.ids = [k \in DOMAIN scan0 |-> scan0[k].id]
             /\ \A k \in DOMAIN scan0 : found.walked[k] = None <=> DOMAIN scan0[k].slots = {}

\* In a package: a feature's rows are all found, and the lookups of all
\* features visit what a full read visits.
PackageReads ==
  stage = "written" /\ pkg.own => \A size \in RowGroupSizes :
    LET groups == [t \in DOMAIN tables |-> RowGroups(tables[t].rows, size)]
        found == [k \in DOMAIN src.features |->
                    PackageFeatureLookup(groups, src.features[k].id,
                                         [statistics |-> TRUE, filter |-> TRUE, cut |-> TRUE])]
    IN  /\ \A k \in DOMAIN found :
             /\ {row.id : row \in ToSet(found[k])} = DOMAIN src.features[k].objects
             /\ Len(found[k]) = Cardinality(DOMAIN src.features[k].objects)
        /\ Visit(FlattenSeq(found)) = Visit(FlattenSeq([t \in DOMAIN tables |-> tables[t].rows]))

\* A read that passes over row groups finds what a read of all rows finds, and
\* in their order, whatever the groups and their filters and statistics, from
\* a file or from a store.
PruningKeepsRows == TableReads /\ PackageReads

-----------------------------------------------------------------------------
(* Properties of the export *)

\* The rows of a feature, spread over tables that are read in any order, come
\* out as one feature, once: every object of the source is in the feature of
\* its own, and nothing else is there.
ExportedOnce ==
  stage = "exported" /\ pkg.own =>
  /\ \A j, k \in DOMAIN reader.output : reader.output[j].id = reader.output[k].id => j = k
  /\ \A k \in DOMAIN reader.output : DOMAIN reader.output[k].objects # {}
  /\ UNION {{<<b.id, id>> : id \in DOMAIN b.objects} : b \in ToSet(reader.output)}
       = UNION {{<<f.id, id>> : id \in DOMAIN f.objects} : f \in ToSet(src.features)}

Exported(f) == reader.output[CHOOSE k \in DOMAIN reader.output : reader.output[k].id = f.id]

\* The other side of the comparison.
ExportSide ==
  LET built == BuiltTemplates(reader.view)
  IN  [scale |-> ExportScale, translate |-> reader.view.translate,
       templates |-> built.templates, templatePoints |-> built.templatePoints,
       appearance |-> built]

\* Members without a column come back as attributes, by design; an object that
\* has some, or lost something the report counts, need not compare equal.
Whole(f, id) ==
  LET lost == Loss(src, scan, f, id)
  IN  /\ DOMAIN f.objects[id].others = {}
      /\ lost.coerced + lost.badRefs = 0
      /\ Synthesised(src, f, f.objects[id]) = {}

\* Convert and export are inverses: the comparison finds every other object
\* what it was, within the larger of the two scales.  Like the code's own it
\* looks at no member of an address that has no column.
RoundTrip ==
  stage = "exported" /\ pkg.own =>
    \A f \in ToSet(src.features) : \A id \in DOMAIN f.objects : Whole(f, id) =>
      SameObject(src, f, f.objects[id], ExportSide, Exported(f), Exported(f).objects[id],
                 Tolerance(src, ExportSide))

\* The positions of a geometry's surfaces in the nesting, in order.
Positions(g) ==
  LET all == UNION {UNION {{<<i, j, k>> : k \in DOMAIN g.solids[i][j]} : j \in DOMAIN g.solids[i]} :
                    i \in DOMAIN g.solids}
  IN  SetToSortSeq(all, LAMBDA a, b : a[1] < b[1] \/ (a[1] = b[1] /\ (a[2] < b[2] \/ (a[2] = b[2] /\ a[3] < b[3]))))

SurfaceAt(g, at) == g.solids[at[1]][at[2]][at[3]]

\* What is said of the surface at a position: its semantic surface, its
\* material per theme, and per theme the texture of each ring with room for
\* a triangle.
SaidAt(g, own, at) ==
  LET entry(values) == Get(Get(Get(values, at[1]), at[2]), at[3])
      semantic == IF g.semantics = None THEN None ELSE entry(g.semantics[1].values)
      material(theme) == IF theme.values # None THEN entry(theme.values[1]) ELSE theme.value
      rings == SelectSeq([r \in DOMAIN SurfaceAt(g, at) |-> r], LAMBDA r : Len(SurfaceAt(g, at)[r]) >= 3)
      texture(theme, r) ==
        LET listed == Entry(Entry(Entry(theme[1], at[1]), at[2]), at[3])
        IN  IF \/ Entry(listed, r) = None
               \/ ~InRange(own.textures, listed[r][1].texture)
               \/ ~UvFits([vertices |-> Len(NormaliseRing(SurfaceAt(g, at)[r])[1]), texture |-> listed[r]], own.uvs)
            THEN None
            ELSE Some(own.textures[listed[r][1].texture].value)
  IN  [semantic |-> IF semantic = None THEN None ELSE Some(g.semantics[1].surfaces[semantic[1]]),
       material |-> [t \in {t \in DOMAIN g.material : material(g.material[t]) # None
                              /\ InRange(own.materials, material(g.material[t])[1])} |->
                       own.materials[material(g.material[t])[1]].value],
       texture |-> [t \in DOMAIN g.texture |-> [k \in DOMAIN rings |-> texture(g.texture[t], rings[k])]]]

\* Whatever surfaces are dropped, each of the others keeps what is said of it:
\* positions shift in every flat list alike.
SurfacesKeepMeaning ==
  stage = "exported" /\ pkg.own =>
    \A f \in ToSet(src.features) : \A id \in DOMAIN f.objects :
      \A h \in DOMAIN Exported(f).objects[id].geometries :
        LET to == Exported(f).objects[id].geometries[h]
            same == {k \in Geometries(f.objects[id]) :
                       to.type # Instance /\ LodOf(f.objects[id].geometries[k].lod) = to.lod}
        IN  same # {} =>
            \E k \in same :
              LET from == f.objects[id].geometries[k]
                  kept == SelectSeq(Positions(from), LAMBDA at :
                            from.type \in Pointlike \/
                            (SurfaceAt(from, at) # <<>> /\ Len(SurfaceAt(from, at)[1]) >= 3))
              IN  /\ Len(kept) = Len(Positions(to))
                  /\ \A p \in DOMAIN kept :
                       SaidAt(from, f, kept[p]) = SaidAt(to, Exported(f), Positions(to)[p])

\* What is missing in the export has been counted: attributes, members and
\* geometries of a LoD met before; and no attribute is lost but a date among
\* instants.  An address member without a column is dropped and not counted,
\* as address.rs says.
LossIsCounted ==
  stage = "exported" /\ pkg.own =>
    LET objects == Objects(src)
        from(o) == ObjectAt(src, o)
        to(o) == Exported(src.features[o[1]]).objects[o[2]]
        total(Count(_)) == SumOf([k \in 1 .. Cardinality(objects) |-> Count(SetToSeq(objects)[k])])
        stored(o) == {k \in DOMAIN to(o).geometries :
                        /\ to(o).geometries[k].type # Instance
                        /\ \E j \in Geometries(from(o)) :
                             LodOf(from(o).geometries[j].lod) = to(o).geometries[k].lod}
        members(o) == Cardinality(Present(from(o).attributes)) + Cardinality(DOMAIN from(o).others)
        solid(o) == {k \in Geometries(from(o)) :
                       \E p \in ToSet(Positions(from(o).geometries[k])) :
                         LET s == SurfaceAt(from(o).geometries[k], p)
                         IN  s # <<>> /\ (from(o).geometries[k].type \in Pointlike \/ Len(s[1]) >= 3)}
    IN  /\ loss.coerced + loss.collided
             = total(members) - total(LAMBDA o : Cardinality(DOMAIN to(o).attributes))
        /\ \A o \in objects : \A n \in Present(from(o).attributes) \ DOMAIN to(o).attributes :
             /\ from(o).attributes[n].kind = "date"
             /\ \E p \in objects : n \in Present(from(p).attributes) /\ from(p).attributes[n].kind = "timestamp"
        /\ loss.sameLod = total(LAMBDA o : Cardinality(solid(o))) - total(LAMBDA o : Cardinality(stored(o)))
-----------------------------------------------------------------------------
(* Properties of the Item *)

\* The Item tells what the package holds, over all its tables: every type,
\* LoD and attribute the stored rows have, and how many objects there are; and
\* a reader of one file finds the LoDs and the attributes of its rows, of the
\* types their cells were written with.
ItemTells ==
  stage = "written" /\ pkg.own =>
    LET told == pkg.item.properties IN
    /\ told.objects = Cardinality(Objects(src))
    /\ \A row \in ToSet(rows) :
         /\ SourceWord(row.type) \in told.types
         /\ DOMAIN row.slots \subseteq told.lods
         /\ Filled(row) \subseteq DOMAIN told.attributes
         /\ HasSemantics(row) => told.semantics
    /\ \A t \in DOMAIN tables : LET file == pkg.files[tables[t].file] IN
         /\ SchemaReads(file)
         /\ \A row \in ToSet(tables[t].rows) :
              /\ DOMAIN row.slots \subseteq ReadLods(file)
              /\ \A n \in Filled(row) : ReadTypes(file)[n] = scan.attributes[n]
-----------------------------------------------------------------------------
(* Properties of the order *)

\* Whatever was spilled and wherever the runs were cut, the sorted batches are
\* the beginning of the stable order of all rows, and a sort that ends without
\* an error has yielded every row.
YieldsReference == Sort!YieldsReference /\ Sort!YieldsEverything
=============================================================================
