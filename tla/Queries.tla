------------------------------- MODULE Queries --------------------------------
(***************************************************************************)
(* Queries on the object tables of a package, which read only the row      *)
(* groups their metadata do not rule out                                   *)
(* (lib/cityparquet-rs/crates/core/src: recipe.rs, reader.rs, query.rs,    *)
(* query_async.rs, query_core.rs, visit.rs).                               *)
(*                                                                         *)
(* Texts are numbers, in the order of the texts.  A predicate is           *)
(* [text, lo, hi]: equality with a text, or an interval of numbers whose   *)
(* bounds may be absent.                                                   *)
(***************************************************************************)
EXTENDS PackageItem

CONSTANTS
  Recipes,        \* the recipes a table may be written with
  RowGroupSizes,  \* rows per row group
  Declared,       \* the sets of row groups whose filter has a known length
  Asked,          \* the values a query asks for, besides those that are held
  Windows         \* the boxes a query asks for

IdColumn == Name(<<"id">>)
FeatureColumn == Name(<<"feature", "id">>)

IsText(type) == type \in {"String", "Json"}
IsNumber(type) == type \in {"Int64", "Float64"}

Equals(text, v) == [text |-> text, lo |-> Some(v), hi |-> Some(v)]
Satisfies(v, pred) == (pred.lo = None \/ pred.lo[1] <= v) /\ (pred.hi = None \/ v <= pred.hi[1])

\* A text is only compared with a text, a number with numbers.
TypeRule(type, pred) == IF pred.text THEN IsText(type) ELSE IsNumber(type)

\* The values of a column, absent where null; an object without extent has
\* no box.
Values(rows, column) ==
  [i \in DOMAIN rows |->
     CASE column = IdColumn -> Some(rows[i].id)
       [] column = FeatureColumn -> Some(rows[i].feature)
       [] OTHER -> LET cell == IF column \in DOMAIN rows[i].cells THEN rows[i].cells[column] ELSE None
                   IN  IF cell = None THEN None ELSE Some(cell[1].val)]

Distinct(values) == {values[i][1] : i \in {i \in DOMAIN values : values[i] # None}}
-----------------------------------------------------------------------------
(* The schema a reader makes of a file *)

\* The LoDs: the geometry columns, but for attributes of such a name.
ReadLods(file) ==
  {lod \in Digit \X Digit : LodColumn(<<"geometry">>, lod)
                           \in {file.columns[k].name : k \in DOMAIN file.columns} \ DOMAIN file.city.attributes}

\* The attributes: those the footer lists, of the type of their column.
ReadTypes(file) ==
  LET column(n) == file.columns[CHOOSE k \in DOMAIN file.columns : file.columns[k].name = n]
  IN  [n \in DOMAIN file.city.attributes |-> CHOOSE a \in AttributeTypes : AttributeType(a) = column(n).type]

\* Every listed attribute is there and has one of the types.
SchemaReads(file) ==
  \A n \in DOMAIN file.city.attributes : \E k \in DOMAIN file.columns :
    file.columns[k].name = n /\ \E a \in AttributeTypes : AttributeType(a) = file.columns[k].type
-----------------------------------------------------------------------------
(* The metadata of a chunk: what a writer leaves to prune by *)

Presets == {"cityparquet", "parquet-defaults", "no-dictionary", "no-bss", "no-delta", "snappy"}

\* The filters and statistics of a column: identifiers and texts of many
\* values have a filter, JSON has no statistics unless asked for.
WriterProperties(recipe, bloomed, column, type) ==
  [statistics |-> recipe.preset = "parquet-defaults" \/ recipe.json \/ type # "Json",
   filter |-> /\ recipe.preset # "parquet-defaults" /\ recipe.bloom
              /\ column \in {IdColumn, FeatureColumn} \/ (type = "String" /\ column \in bloomed)]

\* The texts that get a filter: a fifth of their values are distinct.
BloomAttributes(rows, types) ==
  {c \in DOMAIN types : /\ types[c] = "String"
                        /\ Distinct(Values(rows, c)) # {}
                        /\ 5 * Cardinality(Distinct(Values(rows, c)))
                             >= Cardinality({i \in DOMAIN rows : Values(rows, c)[i] # None})}

\* A long text is cut in the statistics; a cut one sorts at or below it.
Prefix(v) == v - (v % 10)

\* A filter tells residues apart: what it holds may collide.
Hash(v) == v % 4

\* style: statistics, filter; cut, whether texts are; declared, whether the
\* length of the filter is known.
Chunk(values, text, style) ==
  LET held == Distinct(values)
      short(v) == IF text /\ style.cut THEN Prefix(v) ELSE v
  IN  [rows |-> Len(values),
       nulls |-> Cardinality({i \in DOMAIN values : values[i] = None}),
       statistics |-> style.statistics,
       range |-> IF held = {} THEN None ELSE Some(<<short(Min(held)), short(Max(held))>>),
       exact |-> ~(text /\ style.cut),
       filter |-> IF style.filter THEN Some({Hash(v) : v \in held}) ELSE None]

\* A chunk a query knows nothing of is kept; one of nulls is not.
\* Mutant: the greatest text is trusted, cut or not.
MayMatchTrusting(chunk, pred) ==
  \/ ~chunk.statistics
  \/ /\ chunk.nulls # chunk.rows
     /\ chunk.range = None \/ ((pred.lo = None \/ pred.lo[1] <= chunk.range[1][2])
                               /\ (pred.hi = None \/ chunk.range[1][1] <= pred.hi[1]))

\* A cut least text is still a bound; a cut greatest one is not.
MayMatch(chunk, pred) ==
  \/ ~chunk.statistics
  \/ /\ chunk.nulls # chunk.rows
     /\ \/ chunk.range = None
        \/ /\ pred.lo = None \/ ~chunk.exact \/ pred.lo[1] <= chunk.range[1][2]
           /\ pred.hi = None \/ chunk.range[1][1] <= pred.hi[1]

StatisticsKeep(chunks, pred) == {g \in DOMAIN chunks : MayMatch(chunks[g], pred)}
\* A table is flushed every so many rows.
RowGroups(rows, size) ==
  [g \in 1 .. (Len(rows) + size - 1) \div size |->
     SubSeq(rows, (g - 1) * size + 1, Min({g * size, Len(rows)}))]
-----------------------------------------------------------------------------
(* Filters *)

\* The groups with a filter and those without, in order.
BloomTargets(chunks) ==
  LET all == [g \in DOMAIN chunks |-> g]
  IN  [with |-> SelectSeq(all, LAMBDA g : chunks[g].filter # None),
       without |-> {g \in DOMAIN chunks : chunks[g].filter = None}]

Verdict(chunk, v) == Hash(v) \in chunk.filter[1]

\* One filter after another, from a file.
VerdictsSync(chunks, targets, declared, v) ==
  [k \in DOMAIN targets |-> Verdict(chunks[targets[k]], v)]

\* From a store: the filters of known length in one call, each put back in its
\* place, the others one by one.
VerdictsAsync(chunks, targets, declared, v) ==
  LET ranged == SelectSeq([k \in DOMAIN targets |-> k], LAMBDA k : targets[k] \in declared)
      fetched == [i \in DOMAIN ranged |-> chunks[targets[ranged[i]]]]
      filter(k) == IF \E i \in DOMAIN ranged : ranged[i] = k
                   THEN fetched[CHOOSE i \in DOMAIN ranged : ranged[i] = k]
                   ELSE chunks[targets[k]]
  IN  [k \in DOMAIN targets |-> Verdict(filter(k), v)]

\* Groups without filter are kept.
FromVerdicts(chunks, targets, verdicts) ==
  [keep |-> targets.without \cup {targets.with[k] : k \in {k \in DOMAIN targets.with : verdicts[k]}},
   total |-> Len(chunks),
   pruned |-> Cardinality({k \in DOMAIN targets.with : ~verdicts[k]})]

Unpruned(chunks) == [keep |-> DOMAIN chunks, total |-> Len(chunks), pruned |-> 0]

\* A filter is asked only for a text's equality with a text.
Probe(type, pred) == IF pred.text /\ type = "String" THEN pred.lo ELSE None

\* The filters first, then the statistics of what they kept.
PruneRowGroups(chunks, probe, pred, declared, remote) ==
  LET targets == BloomTargets(chunks)
      verdicts == IF remote THEN VerdictsAsync(chunks, targets.with, declared, probe[1])
                  ELSE VerdictsSync(chunks, targets.with, declared, probe[1])
      prune == IF probe = None THEN Unpruned(chunks) ELSE FromVerdicts(chunks, targets, verdicts)
      keep == prune.keep \cap StatisticsKeep(chunks, pred)
  IN  [keep |-> keep,
       stats |-> [total |-> prune.total, bloom |-> prune.pruned,
                  statistics |-> prune.total - prune.pruned - Cardinality(keep)]]
-----------------------------------------------------------------------------
(* Queries on a table: `groups` are its rows in row groups *)

Chunks(groups, column, type, style) == [g \in DOMAIN groups |-> Chunk(Values(groups[g], column), IsText(type), style)]

\* The rows of some groups.
RowsOf(groups, keep) ==
  FoldLeft(LAMBDA found, g : IF g \in keep THEN found \o groups[g] ELSE found, <<>>,
           [g \in DOMAIN groups |-> g])

Selected(rows, column, pred) ==
  LET values == Values(rows, column)
      matches == SelectSeq([i \in DOMAIN rows |-> i], LAMBDA i : values[i] # None /\ Satisfies(values[i][1], pred))
  IN  [k \in DOMAIN matches |-> rows[matches[k]]]

\* Rows whose identifier is a text, and what the filters did.
EqLookup(groups, column, text, style, declared, remote) ==
  LET pred == Equals(TRUE, text)
      prune == PruneRowGroups(Chunks(groups, column, "String", style), Some(text), pred, declared, remote)
  IN  [rows |-> Selected(RowsOf(groups, prune.keep), column, pred), stats |-> prune.stats]

\* The first match ends the read.
IdLookup(groups, id, style, declared, remote) ==
  LET found == EqLookup(groups, IdColumn, id, style, declared, remote).rows
  IN  IF found = <<>> THEN None ELSE Some(found[1])

\* A feature may span groups: all are read.
FeatureLookup(groups, id, style, declared, remote) ==
  EqLookup(groups, FeatureColumn, id, style, declared, remote)

\* A feature's rows of all tables, one table after another.
PackageFeatureLookup(tablesGroups, id, style) ==
  FlattenSeq([t \in DOMAIN tablesGroups |-> FeatureLookup(tablesGroups[t], id, style, {}, FALSE).rows])

\* The ids of the rows that satisfy a predicate; none if it cannot be asked.
AttrFilterIds(groups, column, type, pred, style, declared, remote) ==
  IF ~TypeRule(type, pred) THEN None
  ELSE LET prune == PruneRowGroups(Chunks(groups, column, type, style), Probe(type, pred), pred, declared, remote)
           found == Selected(RowsOf(groups, prune.keep), column, pred)
       IN  Some([ids |-> [k \in DOMAIN found |-> found[k].id], stats |-> prune.stats])

\* The range of a column from its statistics, if every chunk has one.
FastRange(chunks) ==
  IF \E g \in DOMAIN chunks : ~chunks[g].statistics \/ chunks[g].range = None THEN None
  ELSE Some(<<Min({chunks[g].range[1][1] : g \in DOMAIN chunks}), Max({chunks[g].range[1][2] : g \in DOMAIN chunks})>>)

AttrStats(groups, column, type, style) ==
  LET values == SelectSeq(Values(RowsOf(groups, DOMAIN groups), column), LAMBDA v : v # None)
      fast == FastRange(Chunks(groups, column, type, style))
      held == Distinct(values)
  IN  [range |-> IF fast # None THEN fast ELSE IF held = {} THEN None ELSE Some(<<Min(held), Max(held)>>),
       sum |-> SumOf([k \in DOMAIN values |-> values[k][1]]),
       count |-> Len(values)]
-----------------------------------------------------------------------------
(* Boxes *)

Meets(box, query) == \A k \in 1 .. 3 : query.lo[k] <= box.hi[k] /\ box.lo[k] <= query.hi[k]

\* The six statistics of a group's boxes; none if the file has none or no row
\* a box.
GroupBox(group, known) ==
  IF known THEN FoldLeft(UnionBox, None, [i \in DOMAIN group |-> group[i].box]) ELSE None

\* A group without statistics is kept.
BoxRowGroups(groups, known, query) ==
  {g \in DOMAIN groups : GroupBox(groups[g], known) = None \/ Meets(GroupBox(groups[g], known)[1], query)}

RowMeets(row, query) == row.box # None /\ Meets(row.box[1], query)

\* The geometry of a row's highest LoD.
Walked(row) == IF DOMAIN row.slots = {} THEN None ELSE Some(row.slots[HighestLod(DOMAIN row.slots)].wkb)

\* The rows whose box meets the query, and the groups that were read.
BoxQuery(groups, known, query) ==
  LET touched == BoxRowGroups(groups, known, query)
      found == SelectSeq(RowsOf(groups, touched), LAMBDA row : RowMeets(row, query))
  IN  [ids |-> [k \in DOMAIN found |-> found[k].id],
       walked |-> [k \in DOMAIN found |-> Walked(found[k])],
       total |-> Len(groups), touched |-> Cardinality(touched)]
-----------------------------------------------------------------------------
(* What a visit of a row reads: the values of its columns.  Templates are not *)
(* among the reserved columns, so an instance counts as an attribute.        *)

NoVisit == [objects |-> 0, geometries |-> 0, lod0 |-> 0, attributes |-> 0, surfaces |-> 0]

VisitRow(row) ==
  [objects |-> 1,
   geometries |-> Cardinality(DOMAIN row.slots),
   lod0 |-> Cardinality({lod \in DOMAIN row.slots : lod[1] = 0}),
   attributes |-> Cardinality({c \in DOMAIN row.cells : row.cells[c] # None}) + Cardinality(DOMAIN row.others)
                  + Len(row.instance),
   surfaces |-> SumOf([k \in 1 .. Cardinality(DOMAIN row.slots) |->
                  LET s == row.slots[SetToSortSeq(DOMAIN row.slots, LowerLod)[k]].props.surfaces
                  IN  IF s = None THEN 0 ELSE Len(s[1])])]

Visit(rows) ==
  FoldLeft(LAMBDA totals, row : [k \in DOMAIN totals |-> totals[k] + VisitRow(row)[k]], NoVisit, rows)
=============================================================================
