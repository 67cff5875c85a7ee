----------------------------- MODULE Partition -----------------------------
(***************************************************************************)
(* A partitioned conversion: the merged features are scanned, given labels *)
(* (count, features or box), features that reference each other are pulled *)
(* onto one label by a union-find, and every label becomes a package in a  *)
(* directory of its own, after the packages of an earlier conversion were  *)
(* removed.  Conversions into one directory follow each other; each can    *)
(* fail or be killed.  One package's own commit is PackageCommit.          *)
(***************************************************************************)
EXTENDS Integers, FiniteSets, FiniteSetsExt

CONSTANTS
  N,        \* the number of merged features
  Inputs,   \* the references a dataset may have: sets of pairs of features
  Specs,    \* the partition specs asked for
  MaxLabel, \* the highest label
  MaxRuns   \* how many conversions follow each other

Features == 0..(N - 1)
Nowhere == -1   \* where a reference leads whose object is not in the dataset

\* Labels are the ranks of the directory names; a box label is a cell's, and
\* box_none sorts before every cell.
Labels == 0..MaxLabel
Foreign == MaxLabel + 1  \* a directory that only looks like a partition
Names == Labels \cup {Foreign}

ASSUME PartitionAssumption ==
  /\ N \in Nat \ {0} /\ MaxLabel \in Nat /\ N =< MaxLabel + 1 /\ MaxRuns \in Nat
  /\ Inputs \subseteq SUBSET (Features \X (Features \cup {Nowhere}))
  /\ \A s \in Specs : \/ s.kind \in {"count", "features"} /\ s.n \in Nat
                      \/ s.kind = "box" /\ s.cell \in [Features -> Labels]

VARIABLES
  pc,         \* "idle", a phase of the conversion, or how it ended
  run,        \* the conversions begun so far
  overwrite,  \* whether this one may replace packages
  disk,       \* disk[n]: the run that wrote package n and whether it is whole
  stale,      \* the packages to remove once the scan has succeeded
  spec,       \* how this one partitions
  refs,       \* the references between its features
  todo,       \* those repair_reference_locality has yet to look at
  edge,       \* the reference it is at
  a, b,       \* the two cursors of union
  parent, size, \* the union-find
  label,      \* label[i]: the package feature i goes to
  moved, unresolvable, \* what the repair reports
  pending,    \* the labels whose package is yet to be written
  before      \* history: disk as this conversion found it

forest == <<todo, edge, a, b, parent, size>>
repair == <<label, moved, unresolvable, pending>>
vars == <<pc, run, overwrite, disk, stale, spec, refs, forest, repair, before>>

NoDir == [by |-> 0, whole |-> FALSE]
ForeignDir == [by |-> 0, whole |-> TRUE]
NoEdge == <<0, 0>>
NoSpec == [kind |-> "none"]
Alone == [i \in Features |-> i]
Ones == [i \in Features |-> 1]

\* assign_partitions: i * n / total for a count, i / m for a size.
Assigned(s) ==
  [i \in Features |->
    CASE s.kind = "count"    -> (i * Max({1, Min({s.n, N})})) \div N
      [] s.kind = "features" -> i \div Max({1, s.n})
      [] OTHER               -> s.cell[i]]

PartitionDirs == {n \in Labels : disk[n] # NoDir}

\* The locals of a conversion go when it returns.
Forget ==
  /\ stale' = {} /\ spec' = NoSpec /\ refs' = {}
  /\ todo' = {} /\ edge' = NoEdge /\ a' = 0 /\ b' = 0 /\ parent' = Alone /\ size' = Ones
  /\ label' = [i \in Features |-> 0] /\ moved' = 0 /\ unresolvable' = 0 /\ pending' = {}

Init ==
  /\ pc = "idle" /\ run = 0 /\ overwrite = FALSE
  /\ disk = [n \in Names |-> IF n = Foreign THEN ForeignDir ELSE NoDir]
  /\ stale = {} /\ spec = NoSpec /\ refs = {}
  /\ todo = {} /\ edge = NoEdge /\ a = 0 /\ b = 0 /\ parent = Alone /\ size = Ones
  /\ label = [i \in Features |-> 0] /\ moved = 0 /\ unresolvable = 0 /\ pending = {}
  /\ before = disk

Goto(p) == pc' = p

\* The --crs is usable, the headers merge and the features can be read.
Load(ow) ==
  /\ pc \in {"idle", "done", "rejected", "failed"}
  /\ run < MaxRuns
  /\ Forget
  /\ run' = run + 1
  /\ overwrite' = ow
  /\ before' = disk
  /\ Goto("ready") \/ Goto("rejected")
  /\ UNCHANGED disk

\* Mutant: each package is left to replace its own predecessor.
EnsureReadyKeeps ==
  /\ pc = "ready"
  /\ IF PartitionDirs # {} /\ ~overwrite THEN Goto("rejected") ELSE Goto("scan")
  /\ UNCHANGED <<run, overwrite, disk, stale, spec, refs, forest, repair, before>>

\* ensure_parent_ready.
EnsureReady ==
  /\ pc = "ready"
  /\ IF PartitionDirs # {} /\ ~overwrite
       THEN Goto("rejected") /\ UNCHANGED stale
       ELSE Goto("scan") /\ stale' = PartitionDirs
  /\ UNCHANGED <<run, overwrite, disk, spec, refs, forest, repair, before>>

\* One scan of the whole merged dataset; it refuses a repeated object id.
Scan ==
  /\ pc = "scan"
  /\ Goto("purge") \/ Goto("rejected")
  /\ UNCHANGED <<run, overwrite, disk, stale, spec, refs, forest, repair, before>>

Purge ==
  /\ pc = "purge"
  /\ \E n \in stale :
       /\ disk' = [disk EXCEPT ![n] = NoDir]
       /\ stale' = stale \ {n}
  /\ UNCHANGED <<pc, run, overwrite, spec, refs, forest, repair, before>>

\* remove_dir_all stops half-way.
PurgeFails ==
  /\ pc = "purge"
  /\ \E n \in stale : disk' \in {disk, [disk EXCEPT ![n].whole = FALSE]}
  /\ Goto("failed")
  /\ UNCHANGED <<run, overwrite, stale, spec, refs, forest, repair, before>>

Assign ==
  /\ pc = "purge"
  /\ stale = {}
  /\ spec' \in Specs
  /\ refs' \in Inputs
  /\ label' = Assigned(spec')
  /\ todo' = refs'
  /\ Goto("refs")
  /\ UNCHANGED <<run, overwrite, disk, stale, edge, a, b, parent, size, moved, unresolvable,
                 pending, before>>

\* The features in order, the references of one in any order.
NextRef ==
  /\ pc = "refs"
  /\ \E e \in todo :
       /\ \A f \in todo : e[1] =< f[1]
       /\ todo' = todo \ {e}
       /\ CASE e[2] = Nowhere -> /\ unresolvable' = unresolvable + 1
                                 /\ UNCHANGED <<pc, edge, a, b>>
            [] e[2] = e[1]    -> UNCHANGED <<pc, edge, a, b, unresolvable>>
            [] OTHER          -> /\ edge' = e /\ a' = e[1] /\ b' = e[2]
                                 /\ Goto("find_a")
                                 /\ UNCHANGED unresolvable
  /\ UNCHANGED <<run, overwrite, disk, stale, spec, refs, parent, size, label, moved, pending, before>>

\* A turn of the loop of find, halving the path; or its end.
FindA ==
  /\ pc = "find_a"
  /\ IF parent[a] = a
       THEN Goto("find_b") /\ UNCHANGED <<a, parent>>
       ELSE /\ parent' = [parent EXCEPT ![a] = parent[parent[a]]]
            /\ a' = parent[parent[a]]
            /\ UNCHANGED pc
  /\ UNCHANGED <<run, overwrite, disk, stale, spec, refs, todo, edge, b, size, repair, before>>

FindB ==
  /\ pc = "find_b"
  /\ IF parent[b] = b
       THEN Goto("link") /\ UNCHANGED <<b, parent>>
       ELSE /\ parent' = [parent EXCEPT ![b] = parent[parent[b]]]
            /\ b' = parent[parent[b]]
            /\ UNCHANGED pc
  /\ UNCHANGED <<run, overwrite, disk, stale, spec, refs, todo, edge, a, size, repair, before>>

\* The smaller tree goes under the root of the larger.
Link ==
  /\ pc = "link"
  /\ LET top == IF size[a] < size[b] THEN b ELSE a
         sub == IF size[a] < size[b] THEN a ELSE b
     IN IF a = b THEN UNCHANGED <<parent, size>>
        ELSE /\ parent' = [parent EXCEPT ![sub] = top]
             /\ size' = [size EXCEPT ![top] = @ + size[sub]]
  /\ edge' = NoEdge /\ a' = 0 /\ b' = 0
  /\ Goto("refs")
  /\ UNCHANGED <<run, overwrite, disk, stale, spec, refs, todo, repair, before>>

\* Climb(i)[k]: k steps up from i; N steps lead to the root.
Climb(i) ==
  LET up[k \in 0..N] == IF k = 0 THEN i ELSE parent[up[k - 1]]
  IN up
Root == [i \in Features |-> Climb(i)[N]]

\* Mutant: each component adopts the label of its root.
RegroupAtRoot ==
  /\ pc = "refs"
  /\ todo = {}
  /\ LET target == [i \in Features |-> label[Root[i]]]
     IN /\ label' = target
        /\ moved' = Cardinality({i \in Features : target[i] # label[i]})
        /\ pending' = {target[i] : i \in Features}
  /\ Goto("write")
  /\ UNCHANGED <<run, overwrite, disk, stale, spec, refs, forest, unresolvable, before>>

\* Each component adopts the first label among its members.
Regroup ==
  /\ pc = "refs"
  /\ todo = {}
  /\ LET root == Root
         target == [i \in Features |-> Min({label[j] : j \in {k \in Features : root[k] = root[i]}})]
     IN /\ label' = target
        /\ moved' = Cardinality({i \in Features : target[i] # label[i]})
        /\ pending' = {target[i] : i \in Features}
  /\ Goto("write")
  /\ UNCHANGED <<run, overwrite, disk, stale, spec, refs, forest, unresolvable, before>>

\* The packages are written one after the other, in label order.
Write ==
  /\ pc = "write"
  /\ pending # {}
  /\ disk' = [disk EXCEPT ![Min(pending)] = [by |-> run, whole |-> TRUE]]
  /\ pending' = pending \ {Min(pending)}
  /\ UNCHANGED <<pc, run, overwrite, stale, spec, refs, forest, label, moved, unresolvable, before>>

WriteFails ==
  /\ pc = "write"
  /\ pending # {}
  /\ disk' \in {disk, [disk EXCEPT ![Min(pending)] = [by |-> run, whole |-> FALSE]]}
  /\ Goto("failed")
  /\ UNCHANGED <<run, overwrite, stale, spec, refs, forest, repair, before>>

Report ==
  /\ pc = "write"
  /\ pending = {}
  /\ Goto("done")
  /\ UNCHANGED <<run, overwrite, disk, stale, spec, refs, forest, repair, before>>

\* The process is killed, in the middle of a package too.
Kill ==
  /\ pc \notin {"idle", "done", "rejected", "failed"}
  /\ Forget
  /\ disk' \in {disk} \cup (IF pc = "write" /\ pending # {}
                              THEN {[disk EXCEPT ![Min(pending)] = [by |-> run, whole |-> FALSE]]} ELSE {})
                      \cup {[disk EXCEPT ![n].whole = FALSE] : n \in IF pc = "purge" THEN stale ELSE {}}
  /\ Goto("failed")
  /\ UNCHANGED <<run, overwrite, before>>

Convert ==
  \/ EnsureReady \/ Scan \/ Purge \/ PurgeFails \/ Assign
  \/ NextRef \/ FindA \/ FindB \/ Link \/ Regroup
  \/ Write \/ WriteFails \/ Report

Next == (\E ow \in BOOLEAN : Load(ow)) \/ Convert \/ Kill

Spec == Init /\ [][Next]_vars
-----------------------------------------------------------------------------
\* i and j are joined by the references e, in either direction: every set that
\* the references do not leave has both or neither.
Linked(e, i, j) ==
  \A s \in SUBSET Features :
    (\A r \in e : r[2] # Nowhere => (r[1] \in s <=> r[2] \in s)) => (i \in s <=> j \in s)

\* Every feature goes to the first label its references' component was given,
\* so that a reference that can be resolved is resolved within one package,
\* and nothing else moves (partition.rs: repair_reference_locality).
RepairIsLeast ==
  pc \in {"write", "done"} =>
    LET was == Assigned(spec)
    IN /\ \A i \in Features : label[i] = Min({was[j] : j \in {k \in Features : Linked(refs, i, k)}})
       /\ moved = Cardinality({i \in Features : label[i] # was[i]})
       /\ unresolvable = Cardinality({r \in refs : r[2] = Nowhere})

\* A conversion replaces all of the earlier one or nothing.  One that succeeds
\* leaves the partitions it assigned, whole, and no package of an earlier one,
\* whatever earlier ones left behind; one that is refused - unusable --crs,
\* inputs that do not merge, bad features, packages in the way - leaves the
\* directory as it found it.  None touches a directory that is not a
\* partition's (partition.rs: convert_partitioned, ensure_parent_ready,
\* is_partition_dir_name).
ReplacesOrKeeps ==
  /\ pc = "done" =>
       /\ PartitionDirs = {label[i] : i \in Features}
       /\ \A n \in PartitionDirs : disk[n] = [by |-> run, whole |-> TRUE]
  /\ pc = "rejected" => disk = before
  /\ disk[Foreign] = ForeignDir
=============================================================================
