------------------------- MODULE PackageWriterProofs -------------------------
(***************************************************************************)
(* Proofs about PackageCommit and PackageWriter, for any tables, sidecars, *)
(* batches and number of runs.  Of the directory: a manifest means one     *)
(* whole package, an interrupted swap is recoverable, and the whole        *)
(* implements PackageStore.  Of `convert`: its two threads may run under   *)
(* PackageCommit without disturbing it, so that all of that holds of it,   *)
(* and no cut-off table is ever staged.                                    *)
(***************************************************************************)
EXTENDS PackageWriter, TLAPS

-----------------------------------------------------------------------------
(* The directory.                                                           *)

\* While a package is being written the scratch directory holds nothing but
\* this run's files, no manifest among them, and nothing is staged.
WritingInv ==
  pc \in Writing =>
    /\ pending = Absent
    /\ tmp[Manifest] = Absent
    /\ \A f \in Name : tmp[f] \in {Absent, Partial, run}
    /\ \A f \in Sidecars : tmp[f] # Partial
    /\ pc = "manifest" => /\ \A f \in Name : tmp[f] # Partial
                          /\ \E f \in Tables : tmp[f] = run

\* No file of the output directory is newer than the last run, and a run that
\* has not started to rename has put none there.
RunInv ==
  /\ \A f \in Name : out[f] =< run
  /\ pending =< run
  /\ pc # "idle" => run >= 1
  /\ pc \in {"scan", "retire", "purge"} \cup Writing =>
       \A f \in Name : out[f] # run

\* A staged package has a manifest and a table, and each of its files lies,
\* finished, in one of the two directories; the scratch directory holds
\* nothing else, and keeps the manifest to the end.
StagedInv ==
  pending # Absent =>
    /\ Manifest \in parts
    /\ parts \cap Tables # {}
    /\ tmp[Manifest] = pending
    /\ \A f \in Name : tmp[f] # Absent => f \in parts /\ tmp[f] = pending
    /\ \A f \in parts : tmp[f] = pending \/ out[f] = pending

\* How far the swap has come.
SwapInv ==
  /\ pc \in {"retire", "purge", "move"} => pending = run
  /\ pc \in {"purge", "move"} => out[Manifest] = Absent
  /\ pc = "move" => \A f \in Name : out[f] # Absent => f \in parts /\ out[f] = run

IInv ==
  /\ TypeOK
  /\ WritingInv
  /\ RunInv
  /\ StagedInv
  /\ SwapInv
  /\ PublishedIsWhole

LEMMA InitIInv == Init => IInv
<1> SUFFICES ASSUME Init PROVE IInv
  OBVIOUS
<1> USE NamesAssumption, MaxRunsAssumption DEF Init, Name, DataFile, Absent, Partial
<1>1. PICK S \in SUBSET Name :
         /\ Manifest \in S => S \cap Tables # {}
         /\ out = [f \in Name |-> IF f \in S THEN 0 ELSE -1]
  OBVIOUS
<1>2. TypeOK
  <2>1. out \in [Name -> 0 .. MaxRuns \cup {-1}]
    BY <1>1
  <2>2. tmp \in [Name -> 1 .. MaxRuns \cup {-1, -2}]
    OBVIOUS
  <2>3. run \in 0 .. MaxRuns /\ pending \in 1 .. MaxRuns \cup {-1}
    OBVIOUS
  <2>4. pc \in {"idle", "scan"} \cup Writing \cup Swapping
    OBVIOUS
  <2>5. QED
    BY <2>1, <2>2, <2>3, <2>4 DEF TypeOK
<1>3. WritingInv /\ RunInv /\ StagedInv /\ SwapInv
  BY <1>1 DEF WritingInv, RunInv, StagedInv, SwapInv, Writing
<1>4. PublishedIsWhole
  BY <1>1 DEF PublishedIsWhole
<1>5. QED
  BY <1>2, <1>3, <1>4 DEF IInv

LEMMA NextIInv == IInv /\ [Next]_vars => IInv'
<1> SUFFICES ASSUME IInv, [Next]_vars PROVE IInv'
  OBVIOUS
<1> USE NamesAssumption, MaxRunsAssumption
    DEF IInv, TypeOK, WritingInv, RunInv, StagedInv, SwapInv, PublishedIsWhole,
        Name, DataFile, Absent, Partial, Writing, Swapping
<1>1. ASSUME NEW overwrite \in BOOLEAN, Begin(overwrite) PROVE IInv'
  BY <1>1 DEF Begin
<1>2. CASE MakeScratch
  BY <1>2 DEF MakeScratch, RemoveScratch
<1>3. ASSUME NEW f \in Name, OpenTable(f) PROVE IInv'
  BY <1>3 DEF OpenTable
<1>4. ASSUME NEW f \in Name, WriteSidecar(f) PROVE IInv'
  <2>1. TypeOK'
    BY <1>4 DEF WriteSidecar
  <2>2. WritingInv'
    BY <1>4 DEF WriteSidecar
  <2>3. RunInv'
    BY <1>4 DEF WriteSidecar
  <2>4. StagedInv'
    BY <1>4 DEF WriteSidecar
  <2>5. SwapInv'
    BY <1>4 DEF WriteSidecar
  <2>6. PublishedIsWhole'
    BY <1>4 DEF WriteSidecar
  <2>7. QED
    BY <2>1, <2>2, <2>3, <2>4, <2>5, <2>6 DEF IInv
<1>5. CASE FinishTables
  <2>1. TypeOK'
    BY <1>5 DEF FinishTables, Opened
  <2>2. WritingInv'
    BY <1>5 DEF FinishTables, Opened
  <2>3. RunInv'
    BY <1>5 DEF FinishTables, Opened
  <2>4. StagedInv'
    BY <1>5 DEF FinishTables, Opened
  <2>5. SwapInv'
    BY <1>5 DEF FinishTables, Opened
  <2>6. PublishedIsWhole'
    BY <1>5 DEF FinishTables, Opened
  <2>7. QED
    BY <2>1, <2>2, <2>3, <2>4, <2>5, <2>6 DEF IInv
<1>6. CASE WriteManifest
  BY <1>6 DEF WriteManifest
<1>7. CASE NoObjects \/ WriteFails
  <2>1. TypeOK'
    BY <1>7 DEF NoObjects, WriteFails, Abandon, RemoveScratch
  <2>2. WritingInv'
    BY <1>7 DEF NoObjects, WriteFails, Abandon, RemoveScratch
  <2>3. RunInv'
    <3>1. pc' = "idle" /\ pending' = -1 /\ UNCHANGED <<out, run>>
      BY <1>7 DEF NoObjects, WriteFails, Abandon, RemoveScratch
    <3>2. QED
      BY <3>1
  <2>4. StagedInv'
    BY <1>7 DEF NoObjects, WriteFails, Abandon, RemoveScratch
  <2>5. SwapInv'
    BY <1>7 DEF NoObjects, WriteFails, Abandon, RemoveScratch
  <2>6. PublishedIsWhole'
    BY <1>7 DEF NoObjects, WriteFails, Abandon, RemoveScratch
  <2>7. QED
    BY <2>1, <2>2, <2>3, <2>4, <2>5, <2>6 DEF IInv
<1>8. CASE PurgeManifest
  BY <1>8 DEF PurgeManifest
<1>9. ASSUME NEW f \in Name, PurgeFile(f) PROVE IInv'
  <2>1. TypeOK'
    BY <1>9 DEF PurgeFile
  <2>2. WritingInv'
    BY <1>9 DEF PurgeFile
  <2>3. RunInv'
    BY <1>9 DEF PurgeFile
  <2>4. StagedInv'
    BY <1>9 DEF PurgeFile
  <2>5. SwapInv'
    BY <1>9 DEF PurgeFile
  <2>6. PublishedIsWhole'
    BY <1>9 DEF PurgeFile
  <2>7. QED
    BY <2>1, <2>2, <2>3, <2>4, <2>5, <2>6 DEF IInv
<1>10. CASE PurgeDone
  BY <1>10 DEF PurgeDone
<1>11. ASSUME NEW f \in Name, MoveFile(f) PROVE IInv'
  BY <1>11 DEF MoveFile, Movable, Unmoved
<1>12. CASE Tidy
  BY <1>12 DEF Tidy
<1>13. CASE CommitFails \/ Crash
  BY <1>13 DEF CommitFails, Crash
<1>14. CASE PrepareFails
  <2>1. scratch' \in BOOLEAN
    BY <1>14 DEF PrepareFails, TypeOK
  <2>2. CASE UNCHANGED <<tmp, pending>>
    BY <1>14, <2>1, <2>2 DEF PrepareFails
  <2>3. CASE \E kept \in SUBSET {f \in Name : tmp[f] # Absent} : RemoveScratch(kept)
    BY <1>14, <2>1, <2>3 DEF PrepareFails, RemoveScratch
  <2> QED
    BY <1>14, <2>2, <2>3 DEF PrepareFails
<1>15. CASE UNCHANGED vars
  BY <1>15 DEF vars
<1>16. QED
  BY <1>1, <1>2, <1>3, <1>4, <1>5, <1>6, <1>7, <1>8, <1>9, <1>10, <1>11,
     <1>12, <1>13, <1>14, <1>15 DEF Next, Step, Fault

\* IInv is inductive: it holds of every reachable state.
THEOREM Invariance == Spec => []IInv
  BY InitIInv, NextIInv, PTL DEF Spec

\* Every variable keeps its type, whatever fails and wherever a run is killed.
THEOREM TypeCorrect == Spec => []TypeOK
<1>1. IInv => TypeOK
  BY DEF IInv
<1>2. QED
  BY <1>1, Invariance, PTL

\* A directory that shows a metadata.json shows the whole package it belongs
\* to and nothing of any other (convert_source_impl and commit_package).
THEOREM ManifestMeansWhole == Spec => []PublishedIsWhole
<1>1. IInv => PublishedIsWhole
  BY DEF IInv
<1>2. QED
  BY <1>1, Invariance, PTL

\* commit_package's error tells the truth: the files not yet in the output
\* directory are in the scratch directory, and finished.
THEOREM SwapRecoverable == Spec => []RemainderRecoverable
<1>1. IInv => RemainderRecoverable
  BY DEF IInv, StagedInv, RemainderRecoverable
<1>2. QED
  BY <1>1, Invariance, PTL
-----------------------------------------------------------------------------
LEMMA InitStore == Init => Store!Init
<1> SUFFICES ASSUME Init PROVE Store!Init
  OBVIOUS
<1>1. out[Manifest] \in {0, -1} /\ pending = -1
  BY DEF Init, Name, Absent
<1>2. QED
  BY <1>1 DEF Store!Init, Store!Package, Store!NoPackage, Absent

LEMMA NextStore == IInv /\ [Next]_vars => [Store!Next]_(Store!svars)
<1> SUFFICES ASSUME IInv, [Next]_vars PROVE [Store!Next]_(Store!svars)
  OBVIOUS
<1> USE NamesAssumption, MaxRunsAssumption
    DEF Name, DataFile, Absent, Partial, Writing
<1>1. ASSUME UNCHANGED <<out, pending, parts>> PROVE UNCHANGED Store!svars
  BY <1>1 DEF Store!svars
<1>2. ASSUME UNCHANGED <<out, parts>>, pending' = Absent
      PROVE Store!Discard
  BY <1>2 DEF Store!Discard, Store!NoPackage
<1>3. CASE \E overwrite \in BOOLEAN : Begin(overwrite)
  BY <1>1, <1>3 DEF Begin
<1>4. CASE MakeScratch
  BY <1>2, <1>4 DEF MakeScratch, RemoveScratch, Store!Next
<1>5. CASE \E f \in Name : OpenTable(f) \/ WriteSidecar(f)
  BY <1>1, <1>5 DEF OpenTable, WriteSidecar
<1>6. CASE FinishTables \/ PurgeDone \/ Tidy \/ CommitFails \/ Crash
  BY <1>1, <1>6 DEF FinishTables, PurgeDone, Tidy, CommitFails, Crash
<1>7. CASE WriteManifest
  <2>1. pending = Absent /\ out[Manifest] # run /\ UNCHANGED out
    BY <1>7 DEF IInv, WritingInv, RunInv, WriteManifest
  <2>2. pending' = run /\ run \in Nat /\ parts' \in SUBSET Name
    BY <1>7 DEF IInv, TypeOK, WriteManifest
  <2>3. QED
    BY <2>1, <2>2 DEF Store!Stage, Store!NoPackage, Store!Package, Store!Next
<1>8. CASE NoObjects \/ WriteFails
  BY <1>2, <1>8 DEF NoObjects, WriteFails, Abandon, RemoveScratch, Store!Next
<1>9. CASE PurgeManifest
  <2>1. pending \in Nat
    BY <1>9 DEF IInv, TypeOK, SwapInv, PurgeManifest
  <2>2. QED
    BY <1>9, <2>1 DEF IInv, TypeOK, PurgeManifest, Store!Retire,
       Store!NoPackage, Store!Next
<1>10. CASE \E f \in Name : PurgeFile(f)
  <2>1. out[Manifest] = Absent /\ out'[Manifest] = Absent
    BY <1>10 DEF IInv, TypeOK, SwapInv, PurgeFile
  <2>2. QED
    BY <1>10, <2>1 DEF PurgeFile, Store!svars
<1>11. ASSUME NEW f \in DataFile, MoveFile(f) PROVE UNCHANGED Store!svars
  <2>1. out[Manifest] = Absent /\ out'[Manifest] = Absent
    BY <1>11 DEF IInv, TypeOK, SwapInv, MoveFile
  <2>2. UNCHANGED <<pending, parts>>
    BY <1>11 DEF MoveFile
  <2>3. QED
    BY <2>1, <2>2 DEF Store!svars
<1>12. CASE MoveFile(Manifest)
  <2>1. pending = run /\ run \in Nat /\ pending' = Absent /\ parts' = parts
    BY <1>12 DEF IInv, TypeOK, SwapInv, MoveFile
  <2>2. out[Manifest] = Absent /\ out'[Manifest] = run
    BY <1>12, <2>1 DEF IInv, TypeOK, SwapInv, StagedInv, MoveFile
  <2>3. {f \in Name : out'[f] # Absent} = parts
    <3>1. \A f \in Name : out[f] # Absent => f \in parts
      BY <1>12 DEF IInv, SwapInv, MoveFile
    <3>2. \A f \in parts \ {Manifest} : tmp[f] = Absent
      BY <1>12 DEF MoveFile, Movable, Unmoved
    <3>3. \A f \in parts \ {Manifest} : out[f] = run
      BY <2>1, <3>2 DEF IInv, StagedInv
    <3>4. Manifest \in parts /\ parts \in SUBSET Name
      BY <2>1 DEF IInv, TypeOK, StagedInv
    <3>5. out' = [out EXCEPT ![Manifest] = tmp[Manifest]]
      BY <1>12 DEF MoveFile
    <3>6. QED
      BY <2>1, <2>2, <3>1, <3>3, <3>4, <3>5 DEF IInv, TypeOK
  <2>4. QED
    BY <2>1, <2>2, <2>3 DEF Store!Publish, Store!NoPackage, Store!Next
<1>13. CASE PrepareFails
  BY <1>1, <1>2, <1>13 DEF PrepareFails, RemoveScratch, Store!Next
<1>14. CASE UNCHANGED vars
  BY <1>1, <1>14 DEF vars
<1>15. QED
  BY <1>3, <1>4, <1>5, <1>6, <1>7, <1>8, <1>9, <1>10, <1>11, <1>12, <1>13,
     <1>14 DEF Next, Step, Fault

\* Whatever fails, crashes or is retried, the directory behaves like a store
\* that replaces packages whole and gives the old one up only for a finished
\* successor: PackageCommit implements PackageStore.
THEOREM Implements == Spec => ReplacesWhole
  BY InitStore, NextStore, Invariance, PTL DEF Spec, Store!Spec, ReplacesWhole
-----------------------------------------------------------------------------
(* The two threads under it.                                                *)

\* The batches written and the one the writer holds.
Taken == Len(written) + IF wr \in {"write", "failing"} THEN 1 ELSE 0

\* While the receiver lives, the batches written, held, in the channel and
\* waiting to be sent are 1, 2, ... up to the last one streamed.
InFlight ==
  receiver =>
    /\ wr \in {"write", "failing"} => hand = Taken
    /\ \A k \in 1 .. Len(chan) : chan[k] = Taken + k
    /\ streamed = Taken + Len(chan) + IF enc = "send" THEN 1 ELSE 0
    /\ Len(chan) =< Capacity

\* The ends of the channel tell where the threads are.
Ends ==
  /\ receiver <=> wr # "failed"
  /\ ~sender => enc \in {"failed", "finished", "end"}
  /\ wr = "done" => ~sender /\ chan = <<>>

\* Only a refused send ends the stream early; what ended a thread is known.
Causes ==
  /\ streamed =< total
  /\ enc = "finished" /\ receiver => streamed = total
  /\ enc = "failed" \/ wr \in {"failing", "failed"} => first # "none"
  /\ enc # "end" /\ first # "none" => enc = "failed" \/ wr \in {"failing", "failed"}
  /\ enc = "end" => result # "none" /\ wr \in {"failed", "done"}
  /\ enc # "end" => result = "none"

ThreadsIInv == P!TypeOK /\ P!OrderKept /\ InFlight /\ Ends /\ Causes /\ P!OkMeansComplete

\* The initial states satisfy the inductive invariant.
LEMMA ThreadsInit == P!Init => ThreadsIInv
<1> USE ConstantsAssumption
<1> SUFFICES ASSUME P!Init PROVE ThreadsIInv
  OBVIOUS
<1>1. P!TypeOK
  BY DEF P!Init, P!TypeOK, P!Batch, P!Who
<1>2. P!OrderKept /\ InFlight
  BY DEF P!Init, P!OrderKept, InFlight, Taken
<1>3. Ends /\ Causes /\ P!OkMeansComplete
  BY DEF P!Init, P!Batch, Ends, Causes, P!OkMeansComplete
<1> QED
  BY <1>1, <1>2, <1>3 DEF ThreadsIInv

\* Every step of either thread preserves it.
LEMMA ThreadsNext == ThreadsIInv /\ [P!Next]_P!vars => ThreadsIInv'
<1> USE ConstantsAssumption
<1> SUFFICES ASSUME ThreadsIInv, [P!Next]_P!vars PROVE ThreadsIInv'
  OBVIOUS
<1> USE DEF ThreadsIInv
<1>0. total' = total
  BY DEF P!Next, P!vars
<1> USE <1>0
<1>1. CASE P!Gather
  <2>1. P!TypeOK'
    BY <1>1 DEF P!Gather, P!writer, P!TypeOK
  <2>2. P!OrderKept' /\ InFlight'
    BY <1>1 DEF P!Gather, P!writer, P!TypeOK, P!OrderKept, InFlight, Taken
  <2>3. Ends' /\ Causes' /\ P!OkMeansComplete'
    BY <1>1 DEF P!Gather, P!writer, Ends, Causes, P!OkMeansComplete
  <2> QED
    BY <2>1, <2>2, <2>3
<1>2. CASE P!Stream
  <2>1. P!TypeOK'
    BY <1>2 DEF P!Stream, P!writer, P!TypeOK
  <2>2. P!OrderKept' /\ Taken' = Taken /\ Taken \in Nat
    BY <1>2 DEF P!Stream, P!writer, P!TypeOK, P!OrderKept, Taken
  <2>4. InFlight'
    BY <1>2, <2>2 DEF P!Stream, P!writer, P!TypeOK, InFlight
  <2>3. Ends' /\ Causes' /\ P!OkMeansComplete'
    BY <1>2 DEF P!Stream, P!writer, P!TypeOK, Ends, Causes, P!OkMeansComplete
  <2> QED
    BY <2>1, <2>2, <2>3, <2>4
<1>3. CASE P!EncoderFails
  BY <1>3 DEF P!EncoderFails, P!Blame, P!writer, P!TypeOK, P!OrderKept, InFlight, Taken, Ends, Causes, P!OkMeansComplete, P!Batch, P!Who
<1>4. CASE P!Send
  <2>1. streamed \in P!Batch
    BY <1>4 DEF P!Send, P!TypeOK, InFlight, Taken, P!Batch, Ends
  <2>2. P!TypeOK' /\ P!OrderKept' /\ Ends' /\ Causes' /\ P!OkMeansComplete'
    BY <1>4, <2>1 DEF P!Send, P!writer, P!TypeOK, P!OrderKept, Ends, Causes, P!OkMeansComplete, P!Batch, P!Who
  <2>3. Taken' = Taken /\ Taken \in Nat
    BY <1>4 DEF P!Send, P!writer, Taken, P!TypeOK
  <2>4. receiver /\ chan' = Append(chan, streamed) /\ streamed = Taken + Len(chan) + 1
    BY <1>4 DEF P!Send, InFlight
  <2>5. Len(chan') = Len(chan) + 1 /\ chan'[Len(chan) + 1] = streamed
    BY <2>4, <2>1 DEF P!TypeOK
  <2>6. \A k \in 1 .. Len(chan) : chan'[k] = chan[k]
    BY <2>4, <2>1 DEF P!TypeOK
  <2>7. \A k \in 1 .. Len(chan') : chan'[k] = Taken' + k
    <3> SUFFICES ASSUME NEW k \in 1 .. Len(chan') PROVE chan'[k] = Taken' + k
      OBVIOUS
    <3>1. CASE k = Len(chan) + 1
      BY <3>1, <2>3, <2>4, <2>5 DEF P!TypeOK
    <3>2. CASE k # Len(chan) + 1
      <4>1. k \in 1 .. Len(chan)
        BY <3>2, <2>5 DEF P!TypeOK
      <4>2. chan[k] = Taken + k
        BY <4>1, <2>4 DEF InFlight
      <4> QED
        BY <4>1, <4>2, <2>6, <2>3
    <3> QED
      BY <3>1, <3>2
  <2>8. (wr \in {"write", "failing"} => hand = Taken)'
    BY <1>4, <2>3 DEF P!Send, P!writer, InFlight
  <2>9. streamed' = Taken' + Len(chan') + (IF enc' = "send" THEN 1 ELSE 0) /\ Len(chan') =< Capacity
    BY <1>4, <2>3, <2>4, <2>5 DEF P!Send, P!TypeOK
  <2>10. InFlight'
    BY <2>7, <2>8, <2>9 DEF InFlight
  <2> QED
    BY <2>2, <2>10
<1>5. CASE P!SendRefused
  BY <1>5 DEF P!SendRefused, P!writer, P!TypeOK, P!OrderKept, InFlight, Taken, Ends, Causes, P!OkMeansComplete, P!Batch, P!Who
<1>6. CASE P!DropSender
  BY <1>6 DEF P!DropSender, P!writer, P!TypeOK, P!OrderKept, InFlight, Taken, Ends, Causes, P!OkMeansComplete, P!Batch, P!Who
<1>7. CASE P!Join
  <2>1. P!TypeOK' /\ P!OrderKept' /\ InFlight' /\ Ends' /\ Causes'
    BY <1>7 DEF P!Join, P!writer, P!TypeOK, P!OrderKept, InFlight, Taken, Ends, Causes, P!Batch, P!Who
  <2>2. P!OkMeansComplete'
    <3> SUFFICES ASSUME result' = "ok" PROVE Len(written) = total /\ first = "none"
      BY <1>7 DEF P!Join, P!writer, P!OkMeansComplete
    <3>1. enc = "finished" /\ wr = "done"
      BY <1>7 DEF P!Join
    <3>2. receiver /\ chan = <<>>
      BY <3>1 DEF Ends
    <3>3. streamed = total /\ first = "none"
      BY <3>1, <3>2 DEF Causes
    <3> QED
      BY <3>1, <3>2, <3>3 DEF InFlight, Taken, P!TypeOK
  <2> QED
    BY <2>1, <2>2
<1>8. CASE P!Receive
  <2>1. Head(chan) \in P!Batch /\ Tail(chan) \in Seq(P!Batch) /\ Len(Tail(chan)) = Len(chan) - 1
    BY <1>8 DEF P!Receive, P!TypeOK
  <2>2. P!TypeOK' /\ P!OrderKept' /\ Ends' /\ Causes' /\ P!OkMeansComplete'
    BY <1>8, <2>1 DEF P!Receive, P!encoder, P!TypeOK, P!OrderKept, Ends, Causes, P!OkMeansComplete, P!Batch, P!Who
  <2>3. InFlight'
    BY <1>8, <2>1 DEF P!Receive, P!encoder, P!TypeOK, InFlight, Taken, P!Batch, Ends
  <2> QED
    BY <2>2, <2>3
<1>9. CASE P!SourceClosed
  BY <1>9 DEF P!SourceClosed, P!encoder, P!TypeOK, P!OrderKept, InFlight, Taken, Ends, Causes, P!OkMeansComplete, P!Batch, P!Who
<1>10. CASE P!Write
  <2>1. receiver /\ hand = Len(written) + 1
    BY <1>10 DEF P!Write, Ends, InFlight, Taken
  <2>2. hand \in P!Batch
    BY <2>1 DEF P!TypeOK, P!Batch
  <2>3. P!TypeOK' /\ Ends' /\ Causes'
    BY <1>10, <2>2 DEF P!Write, P!encoder, P!TypeOK, Ends, Causes, P!Batch, P!Who
  <2>4. P!OrderKept'
    BY <1>10, <2>1 DEF P!Write, P!TypeOK, P!OrderKept
  <2>5. InFlight'
    BY <1>10, <2>1, <2>2 DEF P!Write, P!encoder, P!TypeOK, InFlight, Taken, P!Batch
  <2>6. P!OkMeansComplete'
    BY <1>10 DEF P!Write, Causes, P!OkMeansComplete
  <2> QED
    BY <2>3, <2>4, <2>5, <2>6
<1>11. CASE P!WriterFails
  BY <1>11 DEF P!WriterFails, P!Blame, P!encoder, P!TypeOK, P!OrderKept, InFlight, Taken, Ends, Causes, P!OkMeansComplete, P!Batch, P!Who
<1>12. CASE P!DropReceiver
  <2>0. chan' \in Seq(P!Batch)
    BY <1>12 DEF P!DropReceiver
  <2>1. P!TypeOK'
    BY <1>12, <2>0 DEF P!DropReceiver, P!encoder, P!TypeOK
  <2>2. P!OrderKept' /\ InFlight'
    BY <1>12 DEF P!DropReceiver, P!OrderKept, InFlight
  <2>3. Ends' /\ Causes' /\ P!OkMeansComplete'
    BY <1>12 DEF P!DropReceiver, P!encoder, Ends, Causes, P!OkMeansComplete
  <2> QED
    BY <2>1, <2>2, <2>3
<1>13. CASE UNCHANGED P!vars
  BY <1>13 DEF P!vars, P!encoder, P!writer, P!TypeOK, P!OrderKept, InFlight, Taken, Ends, Causes, P!OkMeansComplete
<1> QED
  BY <1>1, <1>2, <1>3, <1>4, <1>5, <1>6, <1>7, <1>8, <1>9, <1>10, <1>11, <1>12, <1>13
     DEF P!Next, P!EncoderStep, P!WriterStep

\* The inductive invariant holds in every reachable state.
THEOREM ThreadsInvariance == P!Spec => []ThreadsIInv
  BY ThreadsInit, ThreadsNext, PTL DEF P!Spec

\* The variables keep their types.
THEOREM ThreadsTypeCorrect == P!Spec => []P!TypeOK
<1>1. ThreadsIInv => P!TypeOK
  BY DEF ThreadsIInv
<1> QED
  BY ThreadsInvariance, <1>1, PTL

\* The batches reach the tables in encoding order, each once.
THEOREM ThreadsInOrder == P!Spec => []P!OrderKept
<1>1. ThreadsIInv => P!OrderKept
  BY DEF ThreadsIInv
<1> QED
  BY ThreadsInvariance, <1>1, PTL

\* write_package never takes a failed or truncated table for a complete one.
THEOREM ThreadsOkIsComplete == P!Spec => []P!OkMeansComplete
<1>1. ThreadsIInv => P!OkMeansComplete
  BY DEF ThreadsIInv
<1> QED
  BY ThreadsInvariance, <1>1, PTL

\* Overlapping costs at most the batches in the channel, the one in each
\* thread's hands and no more: the encoder never runs away from a slow writer.
BoundedAhead ==
  receiver => streamed - Len(written) =< Capacity + 2

\* The encoder is ahead of the writer by the channel and two batches at most.
THEOREM ThreadsBounded == P!Spec => []BoundedAhead
<1>1. ThreadsIInv => BoundedAhead
  <2> SUFFICES ASSUME ThreadsIInv, receiver PROVE streamed - Len(written) =< Capacity + 2
    BY DEF BoundedAhead
  <2>1. Len(written) \in Nat /\ Len(chan) \in Nat /\ Capacity \in Nat
    BY ConstantsAssumption DEF ThreadsIInv, P!TypeOK
  <2>2. Len(chan) =< Capacity /\ streamed = Taken + Len(chan) + IF enc = "send" THEN 1 ELSE 0
    BY DEF ThreadsIInv, InFlight
  <2>3. Taken =< Len(written) + 1 /\ Taken \in Nat
    BY <2>1 DEF Taken
  <2>4. streamed =< Taken + Len(chan) + 1
    BY <2>1, <2>2, <2>3
  <2> QED
    BY <2>1, <2>2, <2>3, <2>4
<1> QED
  BY ThreadsInvariance, <1>1, PTL

\* Neither thread waits for the other in vain: in every reachable state before
\* the return some thread has a step to take (its guard, spelled out).
CanMove ==
  \/ enc \in {"gather", "stream"}
  \/ enc = "send" /\ (~receiver \/ Len(chan) < Capacity)
  \/ enc \in {"failed", "finished"} /\ (sender \/ wr \in {"failed", "done"})
  \/ wr \in {"write", "failing"}
  \/ wr = "receive" /\ (chan # <<>> \/ ~sender)

THEOREM ThreadsNoDeadlock == P!Spec => [](result = "none" => CanMove)
<1>1. ThreadsIInv => (result = "none" => CanMove)
  <2> SUFFICES ASSUME ThreadsIInv, result = "none", ~CanMove PROVE FALSE
    OBVIOUS
  <2>1. enc \in {"send", "failed", "finished"}
    BY DEF ThreadsIInv, P!TypeOK, Causes, CanMove
  <2>2. CASE enc = "send"
    <3>1. receiver /\ Len(chan) >= Capacity
      BY <2>2, ConstantsAssumption DEF CanMove, ThreadsIInv, P!TypeOK
    <3>2. chan # <<>>
      BY <3>1, ConstantsAssumption
    <3>3. wr \in {"receive", "done"}
      BY <3>1 DEF CanMove, ThreadsIInv, P!TypeOK, Ends
    <3> QED
      BY <3>2, <3>3 DEF CanMove, ThreadsIInv, Ends
  <2>3. CASE enc \in {"failed", "finished"}
    BY <2>3 DEF CanMove, ThreadsIInv, P!TypeOK
  <2> QED
    BY <2>1, <2>2, <2>3
<1> QED
  BY ThreadsInvariance, <1>1, PTL
-----------------------------------------------------------------------------
(* The threads as `convert` runs them.                                     *)

\* The threads' invariant of WritePipelineProofs holds from the moment they
\* are started until the process is done with their outcome; what follows them
\* is reached with their success only.
ThreadsInv ==
  /\ NoThreads \/ ThreadsIInv
  /\ pc \in Writing \cup Swapping => ThreadsIInv
  /\ pc \in {"sidecar", "manifest"} \cup Swapping => result = "ok"

\* The threads of the first run have not started.
LEMMA InitThreads == WriterInit => ThreadsInv
  BY DEF WriterInit, Init, ThreadsInv, Writing, Swapping

\* A step of a thread is one of WritePipeline.
LEMMA ThreadStep == Encode \/ WriteBatch => P!Next
<1>1. Encode => P!Next
  BY DEF Encode, P!Next, P!EncoderStep, P!Gather, P!Gather, P!Stream, P!Stream,
     P!Send, P!Send, P!SendRefused, P!SendRefused, P!DropSender, P!DropSender,
     P!Join, P!Join, P!EncoderFails, P!EncoderFails, P!Blame, P!Blame,
     P!writer, P!writer
<1>2. WriteBatch => P!Next
  BY DEF WriteBatch, P!Next, P!WriterStep, P!Receive, P!Receive, P!SourceClosed,
     P!SourceClosed, P!DropReceiver, P!DropReceiver, P!Write, P!Write,
     P!WriterFails, P!WriterFails, P!Blame, P!Blame, P!encoder, P!encoder
<1> QED
  BY <1>1, <1>2

\* Who leaves the threads alone keeps their invariant.
LEMMA ThreadsKept == ThreadsIInv /\ UNCHANGED threads => ThreadsIInv'
<1>1. UNCHANGED threads => UNCHANGED P!vars
  BY DEF threads, P!vars, P!encoder, P!writer
<1> QED
  BY <1>1, ThreadsNext, ConstantsAssumption

\* Nothing but their end comes after the threads of a run have ended.
LEMMA NextThreads == ThreadsInv /\ [WriterNext]_all => ThreadsInv'
<1> SUFFICES ASSUME ThreadsInv, [WriterNext]_all PROVE ThreadsInv'
  OBVIOUS
<1> USE DEF Writing, Swapping
<1>1. CASE StartThreads
  <2>1. P!Init'
    BY <1>1 DEF StartThreads, P!Init
  <2>2. (P!Init => ThreadsIInv)'
    BY ThreadsInit, ConstantsAssumption, PTL
  <2> QED
    BY <1>1, <2>1, <2>2 DEF StartThreads, MakeScratch, ThreadsInv
<1>2. CASE Encode \/ WriteBatch
  <2>1. pc = "encode" /\ pc' = pc
    BY <1>2 DEF Encode, WriteBatch, files
  <2>2. ThreadsIInv'
    BY <1>2, <2>1, ThreadStep, ThreadsNext, ConstantsAssumption DEF ThreadsInv
  <2> QED
    BY <2>1, <2>2 DEF ThreadsInv
<1>3. ASSUME UNCHANGED threads, pc \in Writing \cup Swapping,
             pc' \in {"sidecar", "manifest"} \cup Swapping => result = "ok"
      PROVE ThreadsInv'
  <2>1. ThreadsIInv' /\ result' = result
    BY <1>3, ThreadsKept DEF ThreadsInv, threads
  <2> QED
    BY <1>3, <2>1 DEF ThreadsInv
<1>4. CASE OpenForBatch
  BY <1>3, <1>4 DEF OpenForBatch, OpenTable
<1>5. CASE AfterThreads
  BY <1>3, <1>5 DEF AfterThreads, WriteSidecar, FinishTables, NoObjects, Abandon, ThreadsInv
<1>6. CASE Commit
  BY <1>3, <1>6 DEF Commit, WriteManifest, PurgeManifest, PurgeDone, Tidy, PurgeFile, MoveFile, ThreadsInv
<1>7. ASSUME EndThreads, pc' \in {"idle", "scan"} PROVE ThreadsInv'
  BY <1>7 DEF EndThreads, NoThreads, ThreadsInv
<1>8. CASE WriteError
  BY <1>7, <1>8 DEF WriteError, WriteFails, Abandon
<1>9. CASE Killed
  BY <1>7, <1>9 DEF Killed, Crash, PrepareFails, CommitFails
<1>10. CASE \E overwrite \in BOOLEAN : WriterStart(overwrite)
  BY <1>7, <1>10 DEF WriterStart, Begin
<1>11. CASE UNCHANGED all
  <2>1. UNCHANGED threads /\ pc' = pc /\ result' = result
    BY <1>11 DEF all, files, threads
  <2>2. NoThreads => NoThreads'
    BY <2>1 DEF threads, NoThreads
  <2>3. ThreadsIInv => ThreadsIInv'
    BY <2>1, ThreadsKept
  <2> QED
    BY <2>1, <2>2, <2>3 DEF ThreadsInv
<1> QED
  BY <1>1, <1>2, <1>4, <1>5, <1>6, <1>8, <1>9, <1>10, <1>11 DEF WriterNext

\* What the threads wrote is complete whenever a package is staged or swapped
\* in, whatever fails, and wherever a run is killed.
THEOREM StagedIsComplete == WriterSpec => []OkMeansComplete
<1>1. ThreadsInv => OkMeansComplete
  <2> SUFFICES ASSUME ThreadsInv PROVE OkMeansComplete
    OBVIOUS
  <2>1. CASE NoThreads /\ ~ThreadsIInv
    BY <2>1 DEF NoThreads, ThreadsInv, OkMeansComplete, P!OrderKept, P!OkMeansComplete, Writing, Swapping
  <2>2. CASE ThreadsIInv
    <3>1. P!OrderKept /\ P!OkMeansComplete
      BY <2>2 DEF ThreadsIInv, P!OrderKept, P!OkMeansComplete, P!OrderKept, P!OkMeansComplete
    <3> QED
      BY <3>1 DEF ThreadsInv, OkMeansComplete, P!OkMeansComplete
  <2> QED
    BY <2>1, <2>2 DEF ThreadsInv
<1> QED
  BY <1>1, InitThreads, NextThreads, PTL DEF WriterSpec
-----------------------------------------------------------------------------
\* A step of the whole is a step of the directory, or leaves it alone.
LEMMA FilesStep == [WriterNext]_all => [Next]_vars
<1> SUFFICES ASSUME [WriterNext]_all PROVE [Next]_vars
  OBVIOUS
<1>1. CASE StartThreads
  BY <1>1 DEF StartThreads, Next, Step
<1>2. CASE Encode \/ WriteBatch \/ UNCHANGED all
  BY <1>2 DEF Encode, WriteBatch, all, files, vars
<1>3. CASE OpenForBatch
  BY <1>3 DEF OpenForBatch, Next, Step, Name, DataFile
<1>4. CASE AfterThreads
  BY <1>4 DEF AfterThreads, Next, Step, Name, DataFile
<1>5. CASE Commit
  BY <1>5 DEF Commit, Next, Step
<1>6. CASE WriteError \/ Killed
  BY <1>6 DEF WriteError, Killed, Next, Fault
<1>7. CASE \E overwrite \in BOOLEAN : WriterStart(overwrite)
  BY <1>7 DEF WriterStart, Next
<1> QED
  BY <1>1, <1>2, <1>3, <1>4, <1>5, <1>6, <1>7 DEF WriterNext

\* `convert` with its two threads implements the protocol of the directory.
THEOREM WriterCommits == WriterSpec => Spec
<1>1. WriterInit => Init
  BY DEF WriterInit
<1> QED
  BY <1>1, FilesStep, PTL DEF WriterSpec, Spec

\* A metadata.json beside files written by two threads means one whole package.
THEOREM WriterPublishesWhole == WriterSpec => []PublishedIsWhole
  BY WriterCommits, ManifestMeansWhole, PTL

\* An interrupted swap can be finished by hand, whatever the threads did.
THEOREM WriterRecoverable == WriterSpec => []RemainderRecoverable
  BY WriterCommits, SwapRecoverable, PTL

\* The whole of `convert` replaces packages whole: it implements PackageStore.
THEOREM WriterImplements == WriterSpec => ReplacesWhole
  BY WriterCommits, Implements, PTL
=============================================================================
