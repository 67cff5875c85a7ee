---------------------------- MODULE PackageCommit ----------------------------
(***************************************************************************)
(* One CityParquet output directory and the runs of `convert` over it, one *)
(* run at a time: lib/cityparquet-rs/crates/core/src/package.rs.           *)
(*                                                                         *)
(* A run writes its tables, its sidecars and `metadata.json` into the      *)
(* hidden scratch directory `.cityparquet-tmp`; `commit_package` then      *)
(* removes the old package from the output directory, `metadata.json`      *)
(* first, and renames the new files into place, `metadata.json` last.      *)
(* The contents of a file are abstracted to the run that wrote it.         *)
(*                                                                         *)
(* Any file operation may fail and the process may be killed between any   *)
(* two of them.  The bound MaxRuns caps the runs; the last of them meets   *)
(* no fault, so that PackageWriter can ask what happens once faults stop.  *)
(***************************************************************************)
EXTENDS Integers, FiniteSets

CONSTANTS
  Tables,    \* the table files a by-type layout may open
  Sidecars,  \* materials, textures and implicit geometries
  Manifest,  \* metadata.json
  MaxRuns    \* bound: the number of runs of `convert`

ASSUME NamesAssumption ==
  /\ Tables \cap Sidecars = {}
  /\ Manifest \notin Tables \cup Sidecars

ASSUME MaxRunsAssumption == MaxRuns \in Nat

VARIABLES
  out,      \* out[f]: the run whose file f lies in the output directory
  tmp,      \* tmp[f]: the run whose file f lies in the scratch directory
  scratch,  \* whether the scratch directory exists
  pc,       \* where the running `convert` is; "idle" when none runs
  run,      \* the number of the last run started
  pending,  \* the last run that wrote a whole package and has not published
  parts     \* the files that run's package consists of

vars == <<out, tmp, scratch, pc, run, pending, parts>>

DataFile == Tables \cup Sidecars
Name == DataFile \cup {Manifest}

Absent == -1   \* no such file
Partial == -2  \* a table file opened and not yet closed with its footer

Writing == {"encode", "sidecar", "manifest"}
Swapping == {"retire", "purge", "move", "tidy"}

TypeOK ==
  /\ out \in [Name -> 0 .. MaxRuns \cup {Absent}]
  /\ tmp \in [Name -> 1 .. MaxRuns \cup {Absent, Partial}]
  /\ scratch \in BOOLEAN
  /\ pc \in {"idle", "scan"} \cup Writing \cup Swapping
  /\ run \in 0 .. MaxRuns
  /\ pending \in 1 .. MaxRuns \cup {Absent}
  /\ parts \in SUBSET Name

\* The directory is empty, holds stray tables, or a whole package from
\* before the first run (run 0).
Init ==
  /\ \E S \in SUBSET Name :
       /\ Manifest \in S => S \cap Tables # {}
       /\ out = [f \in Name |-> IF f \in S THEN 0 ELSE Absent]
  /\ tmp = [f \in Name |-> Absent]
  /\ scratch = FALSE
  /\ pc = "idle"
  /\ run = 0
  /\ pending = Absent
  /\ parts = {}
-----------------------------------------------------------------------------
\* Removing a directory removes its files one by one; a removal that fails or
\* is cut short leaves an arbitrary rest of them.
RemoveScratch(kept) ==
  /\ tmp' = [f \in Name |-> IF f \in kept THEN tmp[f] ELSE Absent]
  /\ pending' = Absent

\* Mutant: a leftover scratch directory refuses every run.
BeginWithoutScratch(overwrite) ==
  /\ pc = "idle"
  /\ run < MaxRuns
  /\ ~scratch
  /\ pc' = "scan"
  /\ run' = run + 1
  /\ UNCHANGED <<out, tmp, scratch, pending, parts>>

\* Entry check: a directory with anything in it, the scratch directory
\* included, is refused unless `overwrite` is set.
HasEntries == scratch \/ \E f \in Name : out[f] # Absent

Begin(overwrite) ==
  /\ pc = "idle"
  /\ run < MaxRuns
  /\ HasEntries => overwrite
  /\ pc' = "scan"
  /\ run' = run + 1
  /\ UNCHANGED <<out, tmp, scratch, pending, parts>>

\* Mutant: the old package is purged before the new one is encoded.
MakeScratchAfterPurge ==
  /\ pc = "scan"
  /\ RemoveScratch({})
  /\ out' = [f \in Name |-> Absent]
  /\ scratch' = TRUE
  /\ pc' = "encode"
  /\ UNCHANGED <<run, parts>>

\* The scan succeeded: a leftover scratch directory goes, with whatever it
\* holds, and a fresh one is made.
MakeScratch ==
  /\ pc = "scan"
  /\ RemoveScratch({})
  /\ scratch' = TRUE
  /\ pc' = "encode"
  /\ UNCHANGED <<out, run, parts>>

\* A table is opened when the first row of its module arrives.
OpenTable(f) ==
  /\ pc = "encode"
  /\ f \in Tables
  /\ tmp[f] = Absent
  /\ tmp' = [tmp EXCEPT ![f] = Partial]
  /\ UNCHANGED <<out, scratch, pc, run, pending, parts>>

Opened == {f \in Tables : tmp[f] = Partial}

\* Sidecars are written after the encode, while the tables are still open.
WriteSidecar(f) ==
  /\ pc \in {"encode", "sidecar"}
  /\ f \in Sidecars
  /\ tmp[f] = Absent
  /\ tmp' = [tmp EXCEPT ![f] = run]
  /\ pc' = "sidecar"
  /\ UNCHANGED <<out, scratch, run, pending, parts>>

\* `finish` closes every table; no table at all is an error (NoObjects).
FinishTables ==
  /\ pc \in {"encode", "sidecar"}
  /\ Opened # {}
  /\ tmp' = [f \in Name |-> IF f \in Opened THEN run ELSE tmp[f]]
  /\ pc' = "manifest"
  /\ UNCHANGED <<out, scratch, run, pending, parts>>

\* `metadata.json` names exactly the files written and is written last.
WriteManifest ==
  /\ pc = "manifest"
  /\ tmp' = [tmp EXCEPT ![Manifest] = run]
  /\ pending' = run
  /\ parts' = {f \in DataFile : tmp[f] # Absent} \cup {Manifest}
  /\ pc' = "retire"
  /\ UNCHANGED <<out, scratch, run>>

\* `write_package` returned an error: the scratch directory is removed, best
\* effort, and the output directory is left as it is.
Abandon ==
  /\ \E kept \in SUBSET {f \in Name : tmp[f] # Absent} :
       /\ RemoveScratch(kept)
       /\ scratch' \in {TRUE, kept # {}}
  /\ pc' = "idle"
  /\ UNCHANGED <<out, run, parts>>

NoObjects ==
  /\ pc \in {"encode", "sidecar"}
  /\ Opened = {}
  /\ Abandon

WriteFails ==
  /\ pc \in Writing
  /\ run < MaxRuns
  /\ Abandon
-----------------------------------------------------------------------------
(* commit_package *)

\* The purge begins with the manifest ...
PurgeManifest ==
  /\ pc = "retire"
  /\ out' = [out EXCEPT ![Manifest] = Absent]
  /\ pc' = "purge"
  /\ UNCHANGED <<tmp, scratch, run, pending, parts>>

\* Mutant: the purge knows the tables only, as before sidecars existed.
PurgeDoneAfterTables ==
  /\ pc = "purge"
  /\ \A f \in Tables : out[f] = Absent
  /\ pc' = "move"
  /\ UNCHANGED <<out, tmp, scratch, run, pending, parts>>

\* ... and goes on with every *.parquet file, in directory order.
PurgeFile(f) ==
  /\ pc = "purge"
  /\ f \in DataFile
  /\ out[f] # Absent
  /\ out' = [out EXCEPT ![f] = Absent]
  /\ UNCHANGED <<tmp, scratch, pc, run, pending, parts>>

PurgeDone ==
  /\ pc = "purge"
  /\ \A f \in DataFile : out[f] = Absent
  /\ pc' = "move"
  /\ UNCHANGED <<out, tmp, scratch, run, pending, parts>>

Unmoved == {f \in parts : tmp[f] # Absent}

\* The renames: tables, then sidecars, then the manifest.
Movable(f) ==
  /\ f \in Unmoved
  /\ f \in Sidecars => Unmoved \cap Tables = {}
  /\ f = Manifest => Unmoved = {Manifest}

MoveFile(f) ==
  /\ pc = "move"
  /\ Movable(f)
  /\ out' = [out EXCEPT ![f] = tmp[f]]
  /\ tmp' = [tmp EXCEPT ![f] = Absent]
  /\ IF f = Manifest
     THEN pc' = "tidy" /\ pending' = Absent
     ELSE UNCHANGED <<pc, pending>>
  /\ UNCHANGED <<scratch, run, parts>>

\* The empty scratch directory is removed, best effort.
Tidy ==
  /\ pc = "tidy"
  /\ scratch' \in BOOLEAN
  /\ pc' = "idle"
  /\ UNCHANGED <<out, tmp, run, pending, parts>>

\* Mutant: a failed commit is cleaned up like a failed write.
CommitFailsAndCleans ==
  /\ pc \in {"retire", "purge", "move"}
  /\ run < MaxRuns
  /\ tmp' = [f \in Name |-> Absent]
  /\ scratch' = FALSE
  /\ pc' = "idle"
  /\ UNCHANGED <<out, run, pending, parts>>

\* An error of the purge or of a rename: nothing is cleaned up.
CommitFails ==
  /\ pc \in {"retire", "purge", "move"}
  /\ run < MaxRuns
  /\ pc' = "idle"
  /\ UNCHANGED <<out, tmp, scratch, run, pending, parts>>
-----------------------------------------------------------------------------
\* The scan fails, or removing a leftover scratch directory does, or, that one
\* gone, making a fresh one.
PrepareFails ==
  /\ pc = "scan"
  /\ run < MaxRuns
  /\ \/ UNCHANGED <<tmp, scratch, pending>>
     \/ \E kept \in SUBSET {f \in Name : tmp[f] # Absent} :
          /\ RemoveScratch(kept)
          /\ scratch' \in {scratch, kept # {}}
  /\ pc' = "idle"
  /\ UNCHANGED <<out, run, parts>>

\* The process is killed between two file operations.
Crash ==
  /\ pc # "idle"
  /\ run < MaxRuns
  /\ pc' = "idle"
  /\ UNCHANGED <<out, tmp, scratch, run, pending, parts>>

Fault == WriteFails \/ CommitFails \/ PrepareFails \/ Crash

\* The steps of a run that meets no fault.
Step ==
  \/ MakeScratch \/ FinishTables \/ NoObjects \/ WriteManifest
  \/ PurgeManifest \/ PurgeDone \/ Tidy
  \/ \E f \in Name :
       OpenTable(f) \/ WriteSidecar(f) \/ PurgeFile(f) \/ MoveFile(f)

Next == Step \/ Fault \/ \E overwrite \in BOOLEAN : Begin(overwrite)

Spec == Init /\ [][Next]_vars

-----------------------------------------------------------------------------
(* Properties *)

\* A directory with a metadata.json holds one whole package: every file in it
\* was written by the run that wrote the manifest, no file of an older package
\* is left beside them, and at least one table is among them.  This is what
\* lets the catalogue driver skip an output by its manifest alone.
PublishedIsWhole ==
  out[Manifest] # Absent =>
    /\ \A f \in Name : out[f] \in {Absent, out[Manifest]}
    /\ \E f \in Tables : out[f] # Absent

\* From the moment a run has written its package until it is published, or a
\* later run clears the scratch directory, each of its files lies complete in
\* the scratch directory or in the output directory: an interrupted swap can
\* be finished by hand, as commit_package's error says.
RemainderRecoverable ==
  pending # Absent =>
    \A f \in parts : tmp[f] = pending \/ out[f] = pending

\* The package on disk, as a reader of the directory sees it, and the package
\* staged to replace it.
Store == INSTANCE PackageStore WITH
  visible <- IF out[Manifest] = Absent THEN [gen |-> -1, files |-> {}]
             ELSE [gen |-> out[Manifest],
                   files |-> {f \in Name : out[f] # Absent}],
  staged  <- IF pending = Absent THEN [gen |-> -1, files |-> {}]
             ELSE [gen |-> pending, files |-> parts]

\* Every run, crash and retry taken together behaves like a store that
\* replaces packages whole and retires the old one only when the new one is
\* complete.
ReplacesWhole == Store!Spec
=============================================================================
