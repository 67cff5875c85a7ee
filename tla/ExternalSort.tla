---------------------------- MODULE ExternalSort -----------------------------
(***************************************************************************)
(* The external merge sort behind the Hilbert row order:                   *)
(* lib/cityparquet-rs/crates/core/src/sort.rs.                             *)
(*                                                                         *)
(* A row is a pair <<key, ordinal>>: its feature's Hilbert key and its     *)
(* position in the source order.  Arrow memory is abstracted to a weight   *)
(* per batch, chosen freely by PackageContents, which pushes the batches,  *)
(* and where a run is cut into batches (by row count and bytes in the      *)
(* code) is any cut that respects RunBatch.                                *)
(***************************************************************************)
EXTENDS Order, Sequences, FiniteSetsExt, SequencesExt

CONSTANTS
  Budget,     \* buffered memory above which the buffer is spilled
  BatchSize,  \* rows per output batch
  RunBatch    \* rows per batch of a run file, at most

VARIABLES
  phase,     \* push, memory, merge, done or failed
  pushed,    \* every row pushed, in source order
  buffered,  \* the rows not spilled yet, a suffix of pushed
  weight,    \* their memory
  runs,      \* the runs: each a sequence of batches of rows
  cursors,   \* the read position in each run
  heap,      \* the rows at the cursors, with their run
  sources,   \* the run batches the next output batch draws from
  sourceOf,  \* per run, its current batch's place in sources
  drawn,     \* the rows drawn from them, as positions
  out        \* the batches yielded

vars == <<phase, pushed, buffered, weight, runs, cursors, heap, sources, sourceOf, drawn, out>>
input == <<pushed, buffered, weight, runs>>
merge == <<cursors, heap, sources, sourceOf, drawn>>

NoSource == [generation |-> 0, index |-> 0]

Init ==
  /\ phase = "push"
  /\ pushed = <<>> /\ buffered = <<>> /\ weight = 0 /\ runs = <<>>
  /\ cursors = <<>> /\ heap = {} /\ sources = <<>> /\ sourceOf = <<>> /\ drawn = <<>>
  /\ out = <<>>
-----------------------------------------------------------------------------
\* Rows in key order, ties in source order.
Sorted(rows) == Ranked(ToSet(rows), Before)

\* rows cut after the positions in cuts.
Cut(rows, cuts) ==
  LET ends == Ranked(cuts \cup {Len(rows)}, <)
  IN  [b \in DOMAIN ends |->
         SubSeq(rows, IF b = 1 THEN 1 ELSE ends[b - 1] + 1, ends[b])]

\* The runs that spilling rows may append.
Spilled(rows) ==
  {run \in {Cut(Sorted(rows), cuts) : cuts \in SUBSET (1 .. Len(rows) - 1)} :
     \A b \in DOMAIN run : Len(run[b]) =< RunBatch}

\* The rows of a source batch, numbered on.
Keyed(keys) == [i \in DOMAIN keys |-> <<keys[i], Len(pushed) + i>>]

\* A source batch is buffered; over the budget the whole buffer is spilled.
PushBatch(keys, w) ==
  /\ phase = "push"
  /\ pushed' = pushed \o Keyed(keys)
  /\ IF weight + w > Budget
     THEN /\ \E run \in Spilled(buffered \o Keyed(keys)) : runs' = Append(runs, run)
          /\ buffered' = <<>>
          /\ weight' = 0
     ELSE /\ buffered' = buffered \o Keyed(keys)
          /\ weight' = weight + w
          /\ UNCHANGED runs
  /\ UNCHANGED <<phase, merge, out>>

\* The run cannot be written: its rows are still in the buffer.
PushFails(keys, w) ==
  /\ phase = "push"
  /\ weight + w > Budget
  /\ phase' = "failed"
  /\ pushed' = pushed \o Keyed(keys)
  /\ buffered' = buffered \o Keyed(keys)
  /\ weight' = weight + w
  /\ UNCHANGED <<runs, merge, out>>

\* Everything fits: the buffer is sorted in memory.
FinishInMemory ==
  /\ phase = "push"
  /\ runs = <<>>
  /\ phase' = "memory"
  /\ UNCHANGED <<input, merge, out>>

\* The rest is spilled, every run is opened and its first row put on the heap.
FinishMerge ==
  /\ phase = "push"
  /\ runs # <<>>
  /\ IF buffered = <<>> THEN UNCHANGED runs
     ELSE \E run \in Spilled(buffered) : runs' = Append(runs, run)
  /\ buffered' = <<>>
  /\ weight' = 0
  /\ cursors' = [r \in DOMAIN runs' |-> [generation |-> 1, row |-> 1]]
  /\ heap' = {<<runs'[r][1][1], r>> : r \in DOMAIN runs'}
  /\ sourceOf' = [r \in DOMAIN runs' |-> NoSource]
  /\ phase' = "merge"
  /\ UNCHANGED <<pushed, sources, drawn, out>>

\* The next output batch of an in-memory sort.
NextFromMemory ==
  /\ phase = "memory"
  /\ LET next == BatchSize * Len(out)
     IN  IF next >= Len(buffered)
         THEN phase' = "done" /\ UNCHANGED out
         ELSE /\ out' = Append(out, SubSeq(Sorted(buffered), next + 1,
                                           Min({next + BatchSize, Len(buffered)})))
              /\ UNCHANGED phase
  /\ UNCHANGED <<input, merge>>
-----------------------------------------------------------------------------
(* Merge::next_batch *)

\* The last row of its run's batch: to go on, the next batch is read.
AtBatchEnd(r, c) == c.row >= Len(runs[r][c.generation])

\* The next position in run r, past the last batch when the run is at its end.
Advanced(r) ==
  LET c == cursors[r]
  IN  IF AtBatchEnd(r, c)
      THEN [generation |-> c.generation + 1, row |-> 1]
      ELSE [c EXCEPT !.row = @ + 1]

\* The row at a cursor, if any.
At(r, c) ==
  IF c.generation > Len(runs[r]) THEN {} ELSE {<<runs[r][c.generation][c.row], r>>}

Least == CHOOSE e \in heap : \A f \in heap : f = e \/ Before(e[1], f[1])

\* Mutant: a run's place in sources outlives its batch.
CurrentStale(r) == sourceOf[r].index # 0

\* The run's batch is in sources already, and is still the one loaded.
Current(r) == sourceOf[r].index # 0 /\ sourceOf[r].generation = cursors[r].generation

\* The least row is drawn by position, and its cursor advances.
Draw ==
  /\ phase = "merge"
  /\ Len(drawn) < BatchSize
  /\ heap # {}
  /\ LET r == Least[2]
         c == cursors[r]
         index == IF Current(r) THEN sourceOf[r].index ELSE Len(sources) + 1
     IN  /\ sources' = IF Current(r) THEN sources ELSE Append(sources, <<r, c.generation>>)
         /\ sourceOf' = [sourceOf EXCEPT ![r] = [generation |-> c.generation, index |-> index]]
         /\ drawn' = Append(drawn, <<index, c.row>>)
         /\ cursors' = [cursors EXCEPT ![r] = Advanced(r)]
         /\ heap' = (heap \ {Least}) \cup At(r, Advanced(r))
  /\ UNCHANGED <<phase, input, out>>

\* interleave_record_batch: the rows at the positions drawn.
Interleaved ==
  [k \in DOMAIN drawn |->
     LET s == sources[drawn[k][1]] IN runs[s[1]][s[2]][drawn[k][2]]]

\* The output batch is full, or the runs are exhausted.
Yield ==
  /\ phase = "merge"
  /\ drawn # <<>>
  /\ Len(drawn) = BatchSize \/ heap = {}
  /\ out' = Append(out, Interleaved)
  /\ sources' = <<>> /\ drawn' = <<>>
  /\ sourceOf' = [r \in DOMAIN runs |-> NoSource]
  /\ UNCHANGED <<phase, input, cursors, heap>>

EndMerge ==
  /\ phase = "merge"
  /\ drawn = <<>>
  /\ heap = {}
  /\ phase' = "done"
  /\ UNCHANGED <<input, merge, out>>

\* The last run cannot be written, or one of them opened and begun.
FinishFails ==
  /\ phase = "push" /\ runs # <<>>
  /\ phase' = "failed"
  /\ UNCHANGED <<input, merge, out>>

\* The next batch of the run drawn from cannot be read.
DrawFails ==
  /\ phase = "merge" /\ Len(drawn) < BatchSize /\ heap # {}
  /\ AtBatchEnd(Least[2], cursors[Least[2]])
  /\ phase' = "failed"
  /\ UNCHANGED <<input, merge, out>>

\* The rows of an output batch cannot be brought together.
InterleaveFails ==
  /\ \/ phase = "memory" /\ BatchSize * Len(out) < Len(buffered)
     \/ phase = "merge" /\ drawn # <<>> /\ (Len(drawn) = BatchSize \/ heap = {})
  /\ phase' = "failed"
  /\ UNCHANGED <<input, merge, out>>

\* What ends the sort with an error, once everything has been pushed.
Fail == FinishFails \/ DrawFails \/ InterleaveFails

\* From the last batch to the last sorted one.
Work == FinishInMemory \/ FinishMerge \/ NextFromMemory \/ Draw \/ Yield \/ EndMerge
-----------------------------------------------------------------------------
(* Properties *)

\* What the sort promises: the stable order of all rows by key, in batches of
\* BatchSize, the last one shorter, "so a spilled sort and an in-memory one
\* write identical tables".
Reference ==
  LET rows == Sorted(pushed)
  IN  [b \in 1 .. (Len(rows) + BatchSize - 1) \div BatchSize |->
         SubSeq(rows, (b - 1) * BatchSize + 1, Min({b * BatchSize, Len(rows)}))]

\* Whatever was spilled and wherever the runs were cut, what has been yielded
\* is the beginning of that.
YieldsReference ==
  out # <<>> => Len(out) =< Len(Reference) /\ out = SubSeq(Reference, 1, Len(out))

\* A sort that ends without an error has yielded every row.
YieldsEverything ==
  phase = "done" /\ pushed # <<>> => Len(out) = Len(Reference)
=============================================================================
