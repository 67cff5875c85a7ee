# CityParquet, specified in TLA+

This directory holds a formal model of the CityParquet repository: the
conversion that replaces a package on disk and the two threads that write it;
what a package holds, from the city objects of a source through rows, tables,
sidecars and the STAC Item to the check, the queries and the export; the
conversion to CityGML 2.0 and back; the partitioned conversion; the catalogue
driver's lock and ledger; the CityLake service; and the hosted MCP server's
engine pool with the statements that share an engine. TLC checks each model on
a small instance; TLAPS proves the main safety properties of every component
whose state outlives a step, and for what a package holds that a conversion and
an export together lose no object and invent none, for every value of the
constants.

Every definition is written from the source and `PROJECT.json` (`map`) names the
lines it stands for. Paths below are relative to the repository; `core/` is
`lib/cityparquet-rs/crates/core/src/`, `schema/` is
`lib/cityparquet-rs/crates/schema/src/`, `gml/` is `lib/citygml-rs/crates/`,
`driver/` is `scripts/catalog2cityparquet/src/catalog2cityparquet/`, `lake/` is
`lib/citylake/src/`, `mcp/` is `ai/mcp/src/`.

    tlc -workers 2 -config PackageWriter.cfg PackageWriter   # one run
    tlapm PackageWriterProofs.tla                            # one proof module

## 1. The system

CityParquet stores a 3D city model as a *package*: a directory with one Parquet
table per module, up to three sidecar files and a `metadata.json`, which is a
STAC Item and the sign that the package is there. The repository has the
library and CLI that write and read packages, a CityGML library, a driver that
converts whole catalogues, a service that keeps many datasets in one DuckDB
catalog, a hosted MCP server for agents, and a read benchmark.

### 1.1 Components

| Component | State it keeps | Operations | What makes it correct | Modules |
|---|---|---|---|---|
| Package writer: commit (`core/package.rs`) | output directory, hidden scratch directory | write, purge, rename, abandon | a reader finds a whole package or none; the old one goes only when the new one is complete | `PackageCommit` |
| Package writer: threads (`core/package.rs`) | a bounded channel, two threads | gather, stream, send, receive, write, join | order kept, success means complete, no deadlock | `WritePipeline` |
| Names and attribute types (`schema/`) | none | escape, namespace, classify, infer, promote | every name comes back; a type of row is in one file | `CityNames`, `Attributes` |
| Encoding (`core/scan.rs`, `encode.rs`, `faces.rs`, `wkb_write.rs`) | the batch being built, appearance ids | scan, encode an object | what a row loses is counted; what is said of a face stays with it | `FaceLists`, `Appearances`, `CityRows` |
| Table routing (`core/package.rs`) | the claims on table files | write a batch | one owner per file; a feature's rows together, root first | `CityRows`, `PackageContents` |
| External sort (`core/sort.rs`) | buffer, run files, cursors, heap, drawn positions | push, spill, finish, next batch | the stable sort, wherever it spills | `ExternalSort` |
| Sidecars, footers, Item (`core/sidecar.rs`, `schema/model.rs`, `metadata.rs`, `core/stac/`) | none | write, read | the Item tells what the tables hold | `Appearances`, `PackageForm`, `PackageItem` |
| Validation (`core/validate/`) | none | check a package | the writer's packages pass; what passes can be exported | `PackageCheck` |
| Queries (`core/query_core.rs`, `query.rs`, `visit.rs`, `reader.rs`) | none | look up, filter, box, visit | pruning loses no row | `Queries` |
| Export and comparison (`core/decode.rs`, `family.rs`, `export.rs`, `compare.rs`) | the families not yet complete | read a row, end a table | each feature once, and what it was | `CityExport`, `Comparison` |
| CityGML 2.0 (`gml/`) | trees held for a child or a parent, ids, notes | write a feature, close, read an object | what is read back is what was written, but for losses that are noted | `CityGml` and nine modules |
| Partitioned conversion (`core/partition.rs`) | labels, union-find, the parent directory | ready check, scan, purge, assign, repair, write | references stay inside one package; a conversion replaces all of the earlier one | `Partition` |
| Run lock (`driver/__main__.py`) | two lock files | acquire, reclaim, sweep, release | one live run per directory, stale locks reclaimed | `RunLock` |
| Catalogue items (`driver/__main__.py`, `convert.py`, `ledger.py`) | packages, JSONL ledger, thread pool | check, fetch, convert, stamp, record, roll up | successes kept, losses disclosed, resumption converges | `CatalogItems` |
| CityLake (`lake/core/db`) | one DuckDB session, the attached catalog | create, ingest, update, delete, merge, vacuum, drop, export, ... | a call owns the session it finds; each operation whole or undone and answered truly | `CityLakeService` |
| MCP engine pool (`mcp/pool.ts`) | engines, counters, queue | use, close, builds, timers | at most `size` engines, no engine serves two requests, no lost wake-up | `EnginePool` |
| MCP statements (`mcp/serialise.ts`, `tools/query.ts`, `tools/describe.ts`) | a queue of tasks, a timer per statement | ask, begin, run, interrupt, answer | a timer stops the statement it was set for | `StatementGate` |

The rest of the repository is listed in `PROJECT.json` with a reason each
(section 8).

### 1.2 How they interact

- The CLI's `convert` runs the write pipeline, whose encoder runs the external
  sort; when the pipeline returns without an error the commit swaps the
  package in. `PackageWriter` composes commit and threads; `PackageContents`
  composes scan, encoder, sort, table routing, sidecars, Item, check, queries
  and export. A partitioned conversion does all this once per label.
- A CityGML document is read into CityJSON features before they are encoded,
  and an export may write one; `CityGml` composes writer and reader.
- The catalogue driver takes the run locks, then converts item by item with
  the CLI as a child process, stamps the package, and appends to the ledger.
  `CatalogItems!Convert` is `PackageCommit` seen from outside: replaced whole,
  left as it was, or absent after a failed swap.
- CityLake reads and writes packages through DuckDB. Its handlers are
  asynchronous, the connection is one, and a mutex orders the calls.
- The MCP server leases one DuckDB engine per request from its pool; the tool
  calls a client pipelines into that request share the engine's connection.
  `McpServer` composes the two.

### 1.3 What is hard here

Crashes between file operations (commit, partition, ledger, stamp, create);
a check and an act on a file that another process changes in between (locks);
an error on one of two threads while the other is blocked; flat lists of
faces, materials and textures that shift together when a face is dropped;
features whose rows are spread over tables that are written module by module
and read in any order; a writer and a checker that read one specification
apart from each other; statistics that are cut or missing; parents and children
that arrive in any order; a statement that fails inside nested scopes of one
shared session; builds, timers, aborts and shutdown in any order; a timer that
fires when the next statement already runs. `PROJECT.json` lists them as
`hazards` at their lines, with the properties that would catch each.

## 2. The modules

| Module | Role |
|---|---|
| `PackageStore` | abstract: what a reader of an output directory may see |
| `PackageCommit` | the directory protocol; implements `PackageStore`, proved |
| `WritePipeline` | two threads and a channel; safety and absence of deadlock proved |
| `PackageWriter`, `PackageWriterProofs` | the two composed; implements `PackageCommit`, proved; the proofs of both |
| `CityNames`, `Attributes` | names, classes, modules, attribute types |
| `FaceLists`, `Appearances` | nested and flat faces, WKB, materials and textures, and their sidecars |
| `Order` | what it is to be sorted |
| `CityRows` | source to rows and tables |
| `CityExport`, `Comparison` | rows to features; when two datasets are the same |
| `PackageForm`, `PackageItem`, `PackageCheck` | columns and footers, the STAC Item, every check of `validate` |
| `Queries` | the reads that prune |
| `ExternalSort`, `ExternalSortProofs` | spill and merge; that they are the stable sort, proved |
| `PackageContents`, `MCPackageContents`, `PackageContentsProofs` | all of these as one conversion, check and export; order, ownership of tables and completeness proved |
| `GmlClasses` | what CityGML 2.0 has a place for |
| `ToGml`, `GmlDocument`, `GmlWriter` | features to objects, objects to elements, features in any order |
| `GmlAssembly`, `GmlReader`, `FromGml` | elements to surfaces, to an object with its references resolved, to features |
| `CityGml`, `MCCityGml` | a city written and read back |
| `Partition`, `MCPartition`, `PartitionProofs` | labels, union-find step by step, package directories; all its safety properties proved |
| `RunLock`, `MCRunLock`, `RunLockProofs` | lock files of concurrent driver runs; the race that breaks exclusion proved to be the only one |
| `CatalogItems` | items, stamps and ledger over successive runs, with proofs |
| `LakeCatalog` | abstract: each operation changes the catalog once and as a whole |
| `CityLakeService`, `MCCityLake`, `CityLakeProofs` | the session and the scripts of statements; implements `LakeCatalog`; refinement and safety proved |
| `EnginePool` | the pool |
| `StatementGate` | the statements that share an engine |
| `McpServer`, `McpServerProofs` | the pool and the statements of one request; implements `EnginePool`; safety of both proved |

Definitions whose comment begins with "Mutant:" are wrong variants of the
definition that follows them. No specification uses them; they are there so
that every property can be shown to fail when the code has a plausible bug.

## 3. Module by module

### 3.1 PackageCommit (`core/package.rs` 46-370, 1365-1481)

State: `out` and `tmp` give, per file name, the run whose file lies in the
output and in the scratch directory; `Absent` and `Partial` (opened, no footer)
are no run. `pc` is the place in `convert`: `scan`, then `encode`, `sidecar`,
`manifest` (writing into the scratch directory), then `retire`, `purge`, `move`,
`tidy` (`commit_package`). `pending` and `parts` are the package that is
complete in the scratch directory.

- `Begin`: the entry check; a directory with entries needs `overwrite`.
- `MakeScratch`: after the scan, a leftover scratch directory is removed first.
  `PrepareFails` is an error in doing so, which leaves what it has not removed.
- `OpenTable`, `WriteSidecar`, `FinishTables`, `WriteManifest`: tables are open
  until `finish`; the manifest is written last.
- `NoObjects`, `WriteFails`: an error before the commit removes the scratch
  directory, best effort (`Abandon` leaves any rest of it).
- `PurgeManifest`, `PurgeFile`, `PurgeDone`, `MoveFile`, `Tidy`: manifest first
  out, manifest last in. `CommitFails` cleans nothing up.
- `Crash`: between any two file operations.

Abstracted: file contents are the run that wrote them; `fsync` and power loss
are not modelled, a kill is. One converter per directory at a time is assumed:
`convert` itself takes no lock.

### 3.2 WritePipeline (`core/package.rs` 1040-1115)

The encoder (caller) and the writer thread, each with its end of a
`sync_channel(2)`. `Gather`/`Stream`/`Send`/`SendRefused`/`EncoderFails`/
`DropSender`/`Join` on one side, `Receive`/`Write`/`WriterFails`/`DropReceiver`/
`SourceClosed` on the other. The writer's error and the drop of its receiver
are two steps, since the encoder may be blocked or run in between.

Observation, not a finding: when both threads fail, the encoder's error is
returned even if the writer's came first.

### 3.3 PackageWriter

`convert_source_impl` with both: `StartThreads` is `MakeScratch`, `Encode` and
`WriteBatch` are steps of the threads, `OpenForBatch` opens a table when its first
row arrives, `AfterThreads` writes sidecars and closes the tables once both
threads ended well, `WriteError` is an error of either. Every step is one of
`PackageCommit` or leaves the directory alone.

Run `package_writer` (two tables, one sidecar, up to four batches through a
channel of one, Hilbert order, three runs, every starting directory):
`PublishedIsWhole`, `RemainderRecoverable`, `OkMeansComplete`, `ReplacesWhole`
(the refinement of `PackageStore`), `RetryConverges`. Four batches exceed the
channel plus one in each hand, so every blocking combination occurs. Three runs
are enough for the longest story the code has: a package, an interrupted
replacement, and the run that meets the rest of it. The last run meets no
fault, so that `RetryConverges` asks what happens once faults stop, a deadlock
of the threads included. Fairness: the operating system schedules both
threads, a live process goes on, and a caller that finds no package retries
with `overwrite`, as the driver does.

### 3.4 PackageContents and the modules it composes

One source is scanned, its objects encoded one at a time into batches, the rows
sorted (Hilbert) or not, each batch split over the tables of its modules, and
the package finished; then it is checked, queried, and exported, tables in any
order, as written or after one of 31 changes another program might have made.

- `CityNames` and `Attributes` (`schema/reserved.rs`, `extensions.rs`,
  `types.rs`, `attributes.rs`): a name is the sequence of its words; the tables
  of classes are constants, of which the instance takes five.
- `FaceLists` and `Appearances` (`core/faces.rs`, `wkb_write.rs`, `wkb_read.rs`,
  `appearance.rs`, `appearance_columns.rs`, `sidecar.rs`): nested boundaries and their flat
  list, rings that close themselves or are too short, shells that are dropped,
  and what stays attached to which face. Coordinates are integers.
- `CityRows` (`core/scan.rs`, `encode.rs`, and of `package.rs` the table
  writers): `EncodedRow` is a row with every column,
  `Loss` what the report says was left out, `BatchRefused` and `WriteBatchOf`
  the claims on files and the order modules are written in.
- `ExternalSort`: a row is its Hilbert key and its ordinal. `PushBatch` buffers
  and spills over the budget; the merge draws *positions* into a list of
  batches, and `sourceOf` caches a run's place in that list, valid only for the
  batch loaded and only until the next output batch. That cache is what the
  model is for. `Order` says what sorted means, without recursion.
- `PackageForm`, `PackageItem`, `PackageCheck` (`schema/model.rs`, `metadata.rs`,
  `core/stac/`, `core/validate/`): `Problems` is the set of (severity, code)
  that `validate` reports.
- `CityExport`, `Comparison` (`core/decode.rs`, `family.rs`, `export.rs`,
  `compare.rs`): `PushRow`, `EndOfTable` and `Leftover` gather the rows of a
  feature over several tables; `SameObject` is the command `compare`.
- `Queries` (`core/query_core.rs`, `query.rs`, `visit.rs`, `reader.rs`): row groups,
  filters and statistics as a writer leaves them, cut or missing, and every
  read that passes over row groups by them.

Run `contents` (19 sources: two with everything a row can hold, one of them
with the axes swapped, a group, footprints, references out of range tolerated
or not, nine that are refused, texts and numbers for the queries, and up to five
rows in Hilbert order with free keys and weights, a feature without objects
among them; batches of two):

- `FamiliesContiguous`, `OneClaim`, `BoxCovers`: what the tables must be.
- `ExportedOnce`: an export of a package as written gives back each feature that
  has objects, once, with exactly its own objects.
- `RoundTrip`, `SurfacesKeepMeaning`, `LossIsCounted`: and what it gives back is
  what it was; what is missing has been counted.
- `WrittenIsValid`, `ValidReads`, `ItemTells`: writer, checker and exporter read
  one specification apart from each other, and agree.
- `PruningKeepsRows`: every lookup equals a read of all rows.
- `YieldsReference`: the sort is the stable sort, and complete.

The sources are as small as lets the cases meet: two features of up to
four rows in three tables, with a dropped face, a duplicate LoD, an attribute
of two types, a name that must be escaped, an extension, instances. Five rows
give up to five runs, several batches per run and an output batch that spans
two loads of one run.

`KnownInvalid` and `KnownUnread` name what the checker and the writer, or the
checker and the exporter, are known to disagree on (section 5); nothing that a
writer wrote and nobody changed is among the latter. They stand in
`MCPackageContents`, with the two properties that use them, since `PackageCheck`
recurses and `PackageContents` is proved about.

Observation: `sort.rs:36-41` counts one batch per run as the memory of a merge.
The list of sources (line 314) keeps a clone of every run batch the current
output batch draws from, so an output batch may hold several batches of one
run.

### 3.5 CityGml and the modules it composes (`gml/core/src/convert/cjseq`, `gml/core/src/write`, `gml/core/src/gml`, `gml/citygml2`)

A city's features are written in any order (`Write`), then what is still held is
closed (`Close`), and the document is read back object by object (`ReadNext`);
or another program's document that says the same is read instead.

- `GmlClasses`: the content of each class in the order of its schema, and the
  CityJSON names written for it.
- `ToGml`: a CityJSON object as an object of the model, with a note for each
  thing that has no place.
- `GmlDocument`: objects to elements: which geometry property takes which
  geometry, boundary surfaces and openings, gml:ids, appearance targets,
  relative geometries.
- `GmlWriter`: the trees that wait for a child or a parent in another feature.
  A hash map's order is chosen by the step.
- `GmlAssembly`: polygons, aggregates, orientable surfaces and
  links read, and every link resolved when the object's subtree has been read.
- `GmlReader`, `FromGml`: a first pass for appearances, group links and
  templates, then each object as a feature.

The code refuses a city nested deeper than 128 levels, and a chain of links
longer than 64; the constants `MaxDepth` and `MaxXlinkDepth` stand for these
limits and are 2 in the run, so that both are met. `ToGml` refuses what the code
refuses when it gets there: an attribute of an object without a class is never
looked at, and semantics or material values must be as many as the faces.
`GmlAssembly` charges what a link copies to the object's budget at once, not node
by node: a budget that is exceeded refuses the object either way.

Run `citygml` (nineteen cities: a house with an opening, textures and a group; parts
in features of their own; a class that CityGML lacks, whose rooms move up;
parents that never come and children claimed twice; instances and an extension;
relief, road, water and generic; everything that is lost; refused features, and
beside each one like it that is not: as deep as is allowed and one level deeper,
values as many as the faces and one fewer, names without a namespace; documents
of other programs, with shared walls, reversed surfaces, a link to nowhere, and
aggregates that lead through others, as far as is allowed and one further, or
copy a polygon as often as the budget pays for and once more):
`RoundTrips` (in each respect the same unless a loss was noted that excuses it),
`RefersWithin` (ids are unique and references resolve), `WrittenOnce`,
`HeldForReason`. All orders of the features are explored; four
features are enough for a tree of depth two whose every level comes separately.

### 3.6 Partition (`core/partition.rs`)

One conversion: load and merge headers, ready check (which packages are in the
way), scan, purge, assign labels, union-find over references, regroup, one
package per label. `find` is modelled turn by turn with its path halving,
`union` by size. Labels are the ranks of directory names. `disk[n]` says which
conversion wrote package `n` and whether it is whole. `PartitionAssumption` asks
for as many labels as features (`N =< MaxLabel + 1`), since a spec may give each
its own; references start at features and end at one or nowhere.

Run `partition` (four features, every way up to three references can join
them in either direction, dangling and self references, three kinds of spec,
two conversions in a row): `RepairIsLeast` (the labels after the repair are the
least change that keeps references inside one package) and `ReplacesOrKeeps` (a
conversion that is refused leaves every package as it was, one that finishes
leaves its own and no other). Four features give trees of depth two, which is
where path halving does anything, and two components that meet. Linkage is
stated without the union-find: two features are joined when no set closed under
the references separates them.

That the set of packages is not replaced atomically is documented in the code
and so is not a property; object ids are unique after `Scan`.

### 3.7 RunLock (`driver/__main__.py`)

Each run is a process and each file operation one step: exclusive create, read
the owner, `kill(pid, 0)`, unlink, recreate, write the owner. A run takes the
output directory's lock, then the working directory's unless it is the same.
`Probe` may report a dead owner alive (its pid was reused). `ClearByHand` is the
operator of the error message, who acts only when no run is alive.

`revoked` is a history variable: the directories where `Unlink` removed a file
other than the one whose owner had been judged.

Run `run_lock` (three runs on two hosts, started at any time, each killable
anywhere; the output directory of one is the working directory of another and
the other way round, so they meet the two locks in opposite orders):
`OneHolderUnlessRevoked`, `SweepsOnlyAbandoned`, `AllEnd`. The code does not keep
the slower of two runs from unlinking the faster one's new lock (`run_lock_race`,
section 5); what these properties say is that this is the only way two live runs
get one directory or a sweep meets a live run's download: in every directory
where it has not happened the locks exclude, whatever else the runs do.
Fairness: a started process runs, downloads end, a collection has finitely many
items (strong fairness of `Report`).

Not covered: `release_lock` reads and then unlinks; with an operator who clears
a lock by hand *while* a run is alive the unlink could hit a newer lock.

### 3.8 CatalogItems (`driver/__main__.py`, `convert.py`, `ledger.py`)

Successive runs over the items of a collection. A run submits its items to a
thread pool; starting a thread may fail, and then what is left is handled
serially after the pool has drained (`FallBack`). Per item: `Check` (skip
existing, then the bundle rule), `Fetch`, `Convert` (a converter stopped at its
timeout may have replaced the package already), `StampOpen`/`StampWrite`
(truncate, then write), `RecordOutcome`. The ledger is its complete lines and
what follows the last newline; an append can be cut short, and the next one
continues the torn line. `said` is the last outcome whose record was written in
full, with its newline or without: a reader takes both for the item's last word.

Run `catalog` (an item and a duplicate bundle, two threads, three runs, the
last without faults): `LossIsDisclosed`, `ConvertedStays`, `SuccessKept`,
`ResumeConverges`. `ConvertedStays` and `SuccessKept` are about runs that use
`--skip-existing`, as every resumption does. Two items suffice: items interact
only through the pool, which two threads fill, and the ledger's tail, which
takes two appends. Fairness: downloads and conversions end, the operator
resumes.

An item that a killed run finished before recording it never gets a ledger
line: later runs skip it as converted. No property claims otherwise.

### 3.9 CityLakeService (`lake/core/db`)

Requests share one connection. An operation is a script of statements
(`Script`); `with_search_path` and `in_transaction` are scopes on the call's
stack, left innermost first by their own cleanups. A delete takes the objects
that an id or a predicate picks (`Picks`) and what they cascade to; `read` stands
for the operations that leave the catalog as it is: listing, description, query,
export of a module and compaction. Any statement can fail, a
task can panic, the process can be killed. `lake` is what is committed, `work`
what the session sees. A dataset is its rows, the rows edited, whether derived
state is fresh, its declared reference system and its building table.

Run `citylake` (two requests, each any of thirteen operations on two datasets,
five sources, one kill): `OwnsItsSession`, `GuardIsOn`, `AnswersTruly`, `Atomic`
(the refinement of `LakeCatalog`), `AllAnswered`. Two requests are enough for
one to inherit what another left in the session, which is the only way requests
affect each other besides the catalog. Fairness is weak on "some request takes
a step": a task that holds the connection runs, and one of those waiting takes
a free one; with finitely many requests all are served.

`GuardIsOn` excepts what `create_dataset_impl` leaves when it is killed, panics
or cannot drop what it had built: the rows are committed before the empty seed
table is dropped and the footer with the reference system is written, so such a
dataset is addressable without the guard against mixing reference systems.

`ServiceAssumption` gives the constants their types (what a package or an existing
dataset holds is what some source holds; a source holds objects, and the parts
of an object and what a predicate picks are objects) and says that `Absent` is no
schema.

Assumptions, external to the code: a failed COMMIT ends the transaction without
effect; ROLLBACK ends it always; DuckDB refuses a second BEGIN. An error after
the last commit (`recount`, `describe`) is reported although the effect stands,
and `AnswersTruly` says exactly that. A probe schema whose drop failed stays in
memory until the process ends and makes the next probe of that name fail.

### 3.10 EnginePool (`mcp/pool.ts`)

One action per stretch the event loop runs between two awaits. `building` and
`leased` are the code's counters, kept beside the engines themselves (`stage`)
so that the properties can compare them. `Refill` is part of each action whose
code calls it: `Retry`, `Wait`, `Release`. A build that settles hands its engine
to the first waiter, stocks it, or closes it after the shutdown; a failed build
sets a timer. `EndTask` begins to close the engine and `Release` frees the slot
once it is closed. Engine names are recycled; pending retry timers are "some"
or "none"; a client may be gone at any time. A build that fails is counted until
it settles and not after: an instance that `duckdb.ts:95-139` had created by then
is dropped without being closed, and is the garbage collector's. It is no engine
of the pool, and `EnginesBounded` does not count it; nor do the pool's counters,
though the comment on them, `pool.ts:56-58`, speaks of every engine that exists. `close()` of the code may return
while a leased task still runs, as its comment says; `AllSettles` therefore asks
for the end of both.

### 3.11 StatementGate and McpServer (`mcp/serialise.ts`, `tools/query.ts`, `tools/describe.ts`, `http-app.ts`)

A client may pipeline tool calls into one request, and they share the
connection of the engine it leased. `serialiser` is a chain of promises, here
the `queue`; a call is refused before it has a task (`Refused`), or queued,
purging secrets, running a statement, or answered.
A statement runs outside the event loop: that it ended (`Ends`) and that the
event loop learns it (`Purged`, `Returns`, `ReadReturns`) are two steps, and a
timer may fire in between (`Fires`), which interrupts whatever the connection
runs. `hit` records by whose timers a call's statement was interrupted.

`McpServer` follows one request of the pool into its calls: they step only while
the request uses its engine, and its task ends only when all are answered.

Run `mcp_server` (three requests, size two, three names, two places to wait; one
request pipelines a query of two statements and a describe): `EnginesBounded`,
`Isolated`, `NoSlotForgotten`, `InterruptsItsOwn`, `AllSettles`. Three names for
two engines let an engine too many show; three requests fill engines and
queue. Two calls are enough for one to run where the other's timer is set; two
statements for a timer to outlive its statement. Fairness: builds, tasks and
closes end and timers fire; the event loop goes on; reads of footers and
interrupted statements end. A statement that is not interrupted may run for
ever, which is what its timer is for.

Observation: a statement that failed by itself just before its timer fired is
answered as "timed out".

## 4. Runs

| Run | Asks | Distinct states |
|---|---|---|
| `package_writer` | Is a directory ever half a package, is an interrupted swap recoverable, is a published package complete, does retrying converge? | 284,463 |
| `contents` | Do writer, checker, queries and export agree on what a package holds? | 30,184 |
| `citygml` | Is what is read back what was written, in any order? | 447 |
| `partition` | Are references kept together and earlier packages replaced? | 216,851 |
| `run_lock` | Do the locks exclude, with stale locks and kills? | 51,672 |
| `catalog` | Does resumption keep what was achieved, and finish? | 417,114 |
| `citylake` | Is the session never left to a stranger, is every operation whole or undone? | 239,276 |
| `mcp_server` | Bound, isolation, no lost wake-up, timers stop their own, everyone answered | 72,512 |
| `run_lock_race`, `catalog_tail`, `catalog_stamp`, `contents_groups` | the four findings | |

Every run sets `CHECK_DEADLOCK FALSE`, because each of these systems rightly
stops: all runs made, all requests answered, the pool closed. That it does not
stop too early is what the liveness properties say, and for the pipeline the
theorem `ThreadsNoDeadlock`. The states of `citygml` are few because a step converts a
whole feature; what varies is the order.

## 5. Findings

Each of these is a run in which TLC violates a statement the repository makes of
itself; `PROJECT.json` quotes it.

1. `run_lock_race`: two runs that meet the same stale lock both judge its dead
   holder; the slower unlinks by name the lock the faster has just made, and
   both hold the directory. A holder that ends between the read and the probe
   of a second run of its host has the same effect: a third run, of any host,
   takes the free lock, and the second unlinks that.
2. `catalog_tail`: an append that fails or is killed halfway leaves a line
   without a newline; the next record, of the same run or of a resumed one, is
   written whole, continues that line and is lost with it.
3. `catalog_stamp`: a kill between conversion and stamp leaves a package that
   parses, so every resumed run skips it and it stays unstamped.
4. `contents_groups`: two modules share `generics.parquet`, and a batch is
   written module by module; a group whose feature holds a generic object,
   beside another generic object, comes out in pieces that the export refuses.

The passing runs of these modules state what remains true all the same:
`LossIsDisclosed` (a lost record is counted as an unreadable line),
`ConvertedStays`, `OneHolderUnlessRevoked`, and `FamiliesContiguous` of every
other source.

Other differences met while modelling. The models do what the code does; where
a property had to except one, its exception is named.

Between writer and checker, or checker and exporter (`KnownInvalid`,
`KnownUnread`):
- A child's declared `geographicalExtent` larger than its geometry: the parent's
  box joins only geometries (`encode.rs:187`), the checker reports
  `value.bbox-subtree` on the writer's own package.
- An Item that lists a missing file or omits an existing one, `image_data` inside
  a texture row, and a child its parent does not list are valid, the first
  with a warning, and cannot be exported.
- A sidecar on disk that the Item does not list is only a warning, but a
  template with a material then makes the export fail.
- The `geo` annotation of a column is decided for the dataset (`scan.rs:443`),
  the footer per file (`scan.rs:756`): a file without that LoD fails
  `geo.annotation`.

In encoding and export:
- An object's member `<ns>_x` and an attribute `+x` collide; members with a
  namespace's prefix come back as extension attributes.
- `generate_lod0` on a source that has a LoD 0.x but not 0 adds no column: its
  footprints are synthesised, counted and lost.
- The footer lists the types of geometries the encoder skips as duplicates of a
  LoD; geometries without coordinates and second instances are skipped
  uncounted; null members of definitions are lost.
- Dates in a column that also has instants become null, and are counted.
- Members of an address other than the eight of `address.rs:43`, and those eight
  when they are not texts, are dropped and counted nowhere, as its comment
  accepts; `RoundTrip`, like `compare`, looks at the eight only.
- `compare` takes a textured ring closed by a distinct index of equal
  coordinates for a difference, and keeps an empty surface the writer drops.
- `visit.rs:130` reserves "template" where the column is "implicit_geometry".
- A String attribute named like `geometry_lod3` is taken for a geometry column by
  `query_core.rs:818`; `AttrStats` says "min <= max whenever count > 0", which a
  column of NaN refutes. Neither is modelled.

In CityGML, without a note of the loss (`KnownLost`, `KnownChanged`):
- A MultiSolid is written, and the reader skips it; surfaces beside a solid at
  one LoD are written, and only the solid is read; a group's geometry is
  written, and never read. `citygml2/writer/document.rs:1` says "the document
  reads back as the model it was written from".
- Surfaces without semantics at a LoD that a class holds only in boundary
  surfaces are neither written nor counted; nor are surfaces without a face,
  objects in a cycle of parents (never visited, so not even refused), and
  one-sided group references.
- A CompositeSurface comes back as a MultiSurface; an array of one value as the
  value; an int in a number property as a float, a number in a text property as
  text; a `relationToConstruction` other than "inside" as "outside".
- A part written on its own because its parent never came is not read back; a
  child that a second parent names after it came is awaited in vain; a polygon
  inline under a reversed OrientableSurface in a boundary surface is read
  unreversed; a solid that refers to an aggregate whose polygons have no
  gml:ids reads those faces without their boundary surface.

## 6. Proofs

All theorems hold for every value of the constants under the modules' named
assumptions, which TLC evaluates in every run of that module.

**PackageWriterProofs**, first part: `PackageCommit` (any tables, sidecars, number
of runs; assumes only that file names are distinct). `PublishedIsWhole` alone is not inductive: that the
renames end with a whole package needs what the scratch directory holds. The
invariant `IInv` adds `WritingInv` (the scratch directory holds this run's files
only), `RunInv` (nothing in the output is newer than the run), `StagedInv` (the
staged package is complete in the two directories and the manifest moves last)
and `SwapInv` (how far the swap has come). From it: `TypeCorrect`,
`ManifestMeansWhole`, `SwapRecoverable`, and `Implements`, every step is a step
of `PackageStore` or a stutter.

**PackageWriterProofs**, second part: `WritePipeline` (any number of batches and
capacity, both orders). `InFlight` says that what is written, held, in the
channel and being sent is 1, 2, 3, ... without a gap while the receiver lives;
`Ends` and `Causes` tie the channel's ends and the first error to where the
threads are. From it: `ThreadsTypeCorrect`, `ThreadsInOrder`,
`ThreadsOkIsComplete`, `ThreadsBounded` (at most capacity plus two batches are in
memory), and `ThreadsNoDeadlock`: until there is a result one of the threads can
move. Termination itself stays with TLC.

**PackageWriterProofs**, third part: `PackageWriter` composes the two. `FilesStep`: a step of the whole is a
step of `PackageCommit` or leaves its variables alone, hence `WriterCommits`, and
with it `WriterPublishesWhole`, `WriterRecoverable` and `WriterImplements` are
cited, not proved again. In the other direction a step of a thread is a step of
`WritePipeline`; `ThreadsInv` keeps that module's invariant while the threads are
up and remembers `result = "ok"` from their end to the end of the swap, which
gives `StagedIsComplete`.

**RunLockProofs** (any runs, hosts and directories; nothing is assumed of when the
runs start or which directories they share). `LocksExclude` and `SweepsAreSafe`
say of every interleaving that two live runs hold one directory, or a sweep meets
a live run's download, only where a lock other than the one judged was unlinked.
Neither is inductive: `ClaimsAreFiles` ties a live run's claims, in the directories
without such an unlink, to lock files of its own; `JudgedDead` says that a holder
judged dead is dead for good, so that an unlink that meets the lock it was meant
for takes nobody's claim away, and `WritersStarted` that it had been started;
`WorkClaimed` that whoever sweeps holds the working directory.

**CatalogItems**. `ConvertedIsKept` and `SuccessIsKept` assume that every run
skips what exists. `KeptInv`: an item the ledger calls converted, or that is about
to be recorded so, has its stamped package, and is at no step that could change
it. `LossAlwaysDisclosed` assumes nothing: `LedgerInv` relates the complete
lines, the tail and the last outcome recorded of each item; the lemma
`LatestAppended` says what a roll-up makes of one line more, `PartialAppendKeeps`
that an append cut short anywhere keeps the invariant.

**McpServerProofs**, first part: `EnginePool` (any finite set of engines, any
requests, size and queue).
The code bounds engines by its counters, so the bound on engines needs
`Counts`: `building` and `leased` are the cardinalities of the engines being
built and of those held, and in an open pool stock, builds and leases are all
the engines there are. `Shelf` and `Queue` say that stock and queue have no
duplicates, `Leases` that a request has an engine exactly while it uses or
releases it and that nobody else was given it. `Refilled` is the lemma about
`refill`; each action has a lemma of its own. From it: `TypeCorrect` (no counter
below zero), `Bounded`, `Isolation`, `NoLostWakeup`.

**McpServerProofs**, second part: `StatementGate` and `McpServer` (any calls,
statements and pool).
`InterruptsItsOwn` needs `Queued` (the queue lists the calls that have a task,
each once, and only its first has begun) and `InTheirTurn` (only a begun call
runs anything or has a timer). `ServerPools`: every behaviour of the server is
one of the pool, whose theorems then hold of it. `Served` adds that calls are
under way only while the request uses its engine, from which
`TimersKeepTheirTurn`.

**PartitionProofs** (any number of features, any references in any order, any specs
and number of conversions). `AllOrNothing` follows from `DiskInv`: until the
scan has succeeded the disk is as it was found, then no package is left, and
while packages are written those there are this conversion's, whole, and not
among the pending. For `RepairCorrect` the code's own arrays are not
enough: `RepairInv` says that there are a `top` and a `rank` which make them
forests. `top[i]` is the root of i's tree, `rank` falls on the way to it, so that
path halving and union by size can be seen to close no cycle; two features have
one root exactly when the references seen so far link them, and the repair's
least labels are least over what `top` joins. The way from a feature to its root
is defined by recursion in `Partition`; `RootIsTop` shows that it ends there, since
a longer one would visit a feature twice. Induction goes by the least number at
which a claim fails (`StepByStep`).

**CityLakeProofs** (any requests, datasets, objects and sources, under
`ServiceAssumption`). None of the properties is inductive: what an answer says
depends on what has been done since the call began. `IInv` adds
- `Turns`: one request at a time has the connection, which is outside
  transactions when nobody has it, unless a panic has left it poisoned;
- `InScope`: the session is as the call's stack of scopes says, and while nothing
  has failed the stack is as the place in the script says (`ScopesAt`);
- `InHand`: what the session sees differs from what the call found exactly by the
  statements before its place (`Reached`, statement by statement for a create in
  `MadeFrom`); inside `built` what is committed is half a create (`Half`); after a
  failure the lake is as found, or done, or an unfinished create's.

TLC checked `IInv` first, on the configuration of run `citylake`; each action has
a lemma that it keeps it (`Inductive` combines them). From it: `TypeCorrect`,
`SessionOwned`, `Guarded` and `TruthTold`, the last with the lemma `Told`: an
operation that has reached its end has made of the catalog what `Outcome` says.
`Implements` is the refinement: `View` is the lake without the dataset that is being
created, so a create of three transactions is one step of `LakeCatalog`, its last;
`DoneIsNext` and `CutIsNext` map a commit and a create cut short to that module's
actions, and `StepIsNext` every other step to a stutter.

**ExternalSortProofs** (any keys, weights, budget, batch sizes and number of
rows). `Sorted` is the order the rows have by key and then by arrival; the
lemmas on `Ranked` show that a finite set has one such order, which every
increasing sequence of its members equals. The invariant is in terms of that
order: `RunsAre` says that the runs spilled so far are ascending and hold all
that was pushed before the buffer, each row once, and `AreBatches` that what is
put out is cut from the beginning of the order. While runs are merged,
`MergeIs` adds that each run's cursor stands behind exactly those of its rows
that have been drawn (`PassedAre`), that the rows drawn are the next of the order
(`AreDrawn`), and that `sourceOf`, the cache of a run's place in the list of
batches, points to the load of the run it was cached for (`AreSources`), so that a
cursor in a later load is seen not to be meant: that is what makes the positions
right when a batch of output spans two loads of one run. The least of the heads
is then the next of the order, wherever the runs were cut.

**PackageContentsProofs** (any sources, tables of classes, edits by other programs
and parameters of the sort; `ConstantsAssumption`: ids of objects are numbers that
stand for texts, a feature has finitely many objects, and the sizes are
positive).
- `SortIsStable`: `Feeding` says that the rows encoded are those pushed and those
  of the batch being built, so that the theorem about the sorter becomes one
  about the conversion.
- `TablesHaveOneOwner`: `Claims`, every table has the rows of types its name or its
  extension stands for (`TableIs`), and two tables never the same file. It goes
  by the writing of one batch, module by module (`TablesAre` is kept by each).
- `ExportIsExact`, which no run states, holds of every package whose tables are
  sequences of rows that have ids (`Legible`), whoever wrote it: an export that is
  not refused gives each feature once, with the objects of its rows and no
  others. `Gathering`: what has been read is put out, is being read, or is parked
  for a table to come, and never two of these; `Closed` and `Gained` are the
  lemmas about the end of a run of rows and about one row more.
- `ObjectsSurvive` joins them: `Coding` (the rows are those of the objects before the
  next one) and `Keeping` (a row is in a table, in the batch being built, or in a
  sorted batch yet to come, and at the end all are in tables the Item lists)
  take every object of the source to a row of a table, and `ExportIsExact` from
  there to the output. Rows are written without being lost because a batch is
  divided by file, each row's file is among those opened, and the sort puts out
  every row pushed.

Only model-checked, and why:
- Liveness: `RetryConverges`, `AllEnd`, `ResumeConverges`, `AllAnswered`, `AllSettles`,
  and everything about `ENABLED`.
- What one object is after a round trip: `RoundTrip`, `SurfacesKeepMeaning`,
  `LossIsCounted`, `BoxCovers`, and the reads in `PruningKeepsRows`. They compare
  nested data (boundaries in shells in solids, their flat lists, semantics and
  textures) whose conversion is defined over the depth and length of that data.
  That it is right for every input is an induction over data, whose theorems
  take an operator as a parameter, which no prover here can instantiate.
  Induction over numbers is within reach, as `PartitionProofs` and
  `ExternalSortProofs` show by least counterexamples.
- `WrittenIsValid` and `ValidReads` reach `PackageCheck`, and all properties of
  `CityGml` its reader and writer, which are recursive operators; a module that
  reaches one cannot be proved about. `ItemTells` compares the Item with the
  footers, whose contents are such data.
- `FamiliesContiguous` is false in general, as `contents_groups` shows, and holds of
  the other sources because none of them brings two modules of one file
  together: it is a statement about instances.
- The expected violations, which are traces.

## 7. What could come next

- Lemmas about the operators of the contents that need no recursion (flat and
  nested faces, boxes, pruning), towards `RoundTrip` and `PruningKeepsRows`.
- Two converters over one directory, which a driver killed while its child runs
  can bring about (`convert.py:118`, the hazard no property covers).
- The header in `Comparison` and in the export; CityGML 3.0, with the tables of
  its schema in place of those in `GmlClasses`.

## 8. Not modelled

Whole components:
- Merging inputs (`core/merge.rs`, `inputs.rs`), the Hilbert index
  (`core/order.rs`), LoD 0 synthesis (`core/lod0.rs`) and the 3DBAG converter:
  floating-point arithmetic and geometry, outside TLC's integers. The models
  begin after the merge, take keys as given, and take footprints as a constant.
- Lookup of reference systems (`schema/crs.rs`) and FlatCityBuf (`core/fcb.rs`): a
  table, and a conversion for measurements.
- The command line, HTTP routing of CityLake and of the MCP server, the web
  application: argument parsing and dispatch to the operations that are modelled.
- CityGML 3.0 and the scan of a document for its reference system and
  extensions: the conversion of section 3.5 with another schema's tables.
- The 3DCityDB reader: it streams features from a PostgreSQL schema, whose
  ordering and isolation are the server's.
- Discovery, download, aggregation and publishing of catalogues: HTTP, ZIP and
  URL handling. What a stop in the middle of an aggregation leaves
  (`aggregate.py:186`) depends on the order in which city3dstac, a program
  outside the repository, writes its two files.
- The read benchmark: its result is a measurement.
- The MCP server's tools apart from how their statements run: SQL text, caps on
  rows and cells, network policy.

Within the modelled parts: `fsync` and power loss; concurrent converters on one
directory; network behaviour beyond "fails or not"; the contents of messages;
names as strings, coordinates other than small integers, NaN; Parquet's
encodings; placement of an application's own properties and XML text in
CityGML.
