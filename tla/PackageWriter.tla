---------------------------- MODULE PackageWriter ----------------------------
(***************************************************************************)
(* `convert` as a whole: PackageCommit's files and the two threads of      *)
(* WritePipeline that fill the tables, in                                  *)
(* lib/cityparquet-rs/crates/core/src/package.rs.                          *)
(*                                                                         *)
(* The writer thread opens tables for the batch it holds; the sidecars and *)
(* the footers follow only once both threads have ended without an error;  *)
(* a kill ends the threads with the process.  A source may be empty, but   *)
(* the last run's is not, and it meets no fault.                           *)
(***************************************************************************)
EXTENDS PackageCommit, Sequences

CONSTANTS Batches, Capacity, Hilbert  \* see WritePipeline

ASSUME ConstantsAssumption ==
  /\ Batches \in Nat
  /\ Capacity \in Nat \ {0}
  /\ Hilbert \in BOOLEAN

VARIABLES total, enc, gathered, streamed, sender, chan, receiver, wr, hand,
          written, first, result

P == INSTANCE WritePipeline

files == <<out, tmp, scratch, pc, run, pending, parts>>
threads == <<total, enc, gathered, streamed, sender, chan, receiver, wr, hand,
             written, first, result>>
all == <<files, threads>>

NoThreads ==
  /\ enc = "end" /\ gathered = 0 /\ streamed = 0 /\ sender = FALSE
  /\ chan = <<>> /\ receiver = FALSE /\ wr = "done" /\ hand = 0
  /\ written = <<>> /\ first = "none" /\ result = "none" /\ total = 0

WriterInit == Init /\ NoThreads

\* The threads end with the process, or with the return of `convert`.
EndThreads ==
  /\ enc' = "end" /\ gathered' = 0 /\ streamed' = 0 /\ sender' = FALSE
  /\ chan' = <<>> /\ receiver' = FALSE /\ wr' = "done" /\ hand' = 0
  /\ written' = <<>> /\ first' = "none" /\ result' = "none" /\ total' = 0

\* write_package sets out: a channel, the writer thread, the encoder.
StartThreads ==
  /\ MakeScratch
  /\ total' \in 0 .. Batches
  /\ run = MaxRuns => total' > 0
  /\ enc' = IF Hilbert THEN "gather" ELSE "stream"
  /\ gathered' = 0 /\ streamed' = 0 /\ sender' = TRUE
  /\ chan' = <<>> /\ receiver' = TRUE /\ wr' = "receive" /\ hand' = 0
  /\ written' = <<>> /\ first' = "none" /\ result' = "none"

Encode ==
  /\ pc = "encode"
  /\ \/ P!Gather \/ P!Stream \/ P!Send \/ P!SendRefused \/ P!DropSender
     \/ P!Join
     \/ P!EncoderFails /\ run < MaxRuns
  /\ UNCHANGED <<files, total>>

\* write_batch opens the table of a module when its first row arrives.
OpenForBatch ==
  /\ wr = "write"
  /\ \E f \in Tables : OpenTable(f)
  /\ UNCHANGED threads

\* A batch has rows, so at least one table is open when it is written.
WriteBatch ==
  /\ pc = "encode"
  /\ \/ P!Receive \/ P!SourceClosed \/ P!DropReceiver
     \/ P!Write /\ Opened # {}
     \/ P!WriterFails /\ run < MaxRuns
  /\ UNCHANGED <<files, total>>

\* Mutant: the sidecars are written while the threads still run.
SidecarsEarly ==
  /\ pc = "encode" => result # "writer" /\ result # "encoder"
  /\ \/ \E f \in Sidecars : WriteSidecar(f)
     \/ FinishTables
     \/ NoObjects
  /\ UNCHANGED threads

\* What follows the threads' scope starts only after both ended well.
AfterThreads ==
  /\ pc = "encode" => result = "ok"
  /\ \/ \E f \in Sidecars : WriteSidecar(f)
     \/ FinishTables
     \/ NoObjects
  /\ UNCHANGED threads

Commit ==
  /\ \/ WriteManifest \/ PurgeManifest \/ PurgeDone \/ Tidy
     \/ \E f \in Name : PurgeFile(f) \/ MoveFile(f)
  /\ UNCHANGED threads

\* An error of either thread, or of what follows them, is write_package's.
WriteError ==
  /\ pc = "encode" => result # "none"
  /\ WriteFails
  /\ EndThreads

WriterStart(overwrite) ==
  /\ Begin(overwrite)
  /\ EndThreads

Killed ==
  /\ \/ Crash \/ PrepareFails \/ CommitFails
  /\ EndThreads

WriterNext ==
  \/ StartThreads \/ Encode \/ OpenForBatch \/ WriteBatch \/ AfterThreads
  \/ Commit \/ WriteError \/ Killed
  \/ \E overwrite \in BOOLEAN : WriterStart(overwrite)

WriterSpec == WriterInit /\ [][WriterNext]_all

\* Both threads are scheduled; the rest as in PackageCommit.
FairWriterSpec ==
  /\ WriterSpec
  /\ WF_all(Encode)
  /\ WF_all(WriteBatch \/ OpenForBatch)
  /\ WF_all(StartThreads \/ AfterThreads \/ Commit \/ (result # "ok" /\ WriteError))
  /\ WF_all(out[Manifest] = Absent /\ WriterStart(TRUE))
-----------------------------------------------------------------------------
(* Properties *)

\* A package is staged, retires the old one and is renamed into place only
\* with every batch of its source written, in the order they were encoded,
\* none twice, and with no error of either thread.
OkMeansComplete ==
  /\ P!OrderKept
  /\ P!OkMeansComplete
  /\ pc \in {"sidecar", "manifest"} \cup Swapping =>
       Len(written) = total /\ first = "none"

\* Neither thread waits for ever for the other, and once faults stop, retrying
\* with `overwrite` leaves a package for good, whatever an earlier crash or
\* error left in the two directories.
RetryConverges == <>[](pc = "idle" /\ out[Manifest] # Absent)
=============================================================================
