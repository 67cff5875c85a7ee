---------------------------- MODULE WritePipeline ----------------------------
(***************************************************************************)
(* The two threads that write the tables of one package: write_package in  *)
(* lib/cityparquet-rs/crates/core/src/package.rs.  The encoder (the        *)
(* caller's thread) sends record batches through a bounded channel to the  *)
(* writer thread; either may fail, and the caller joins the writer before  *)
(* it returns.                                                             *)
(*                                                                         *)
(* A batch is its number in the order in which it is to be written.  With  *)
(* Hilbert the encoder first gathers every batch in the external sorter    *)
(* (ExternalSort) and then streams as many sorted ones.                    *)
(***************************************************************************)
EXTENDS Integers, Sequences

CONSTANTS
  Batches,   \* bound: the most batches a source gives
  Capacity,  \* the bound of the channel (2 in the code)
  Hilbert    \* TRUE: RowOrder::Hilbert

VARIABLES
  total,     \* the number of batches the source gives
  enc,       \* where the encoder is
  gathered,  \* batches pushed into the sorter
  streamed,  \* batches encoded (or merged) for sending
  sender,    \* whether the encoder still has its end of the channel
  chan,      \* the batches in the channel
  receiver,  \* whether the writer still has its end
  wr,        \* where the writer is
  hand,      \* the batch the writer took last
  written,   \* the batches written, in order
  first,     \* whose error came first
  result     \* what write_package makes of the two threads

encoder == <<enc, gathered, streamed, sender>>
writer == <<receiver, wr, hand, written>>
vars == <<total, encoder, chan, writer, first, result>>

Batch == 1 .. Batches
Who == {"none", "encoder", "writer"}

TypeOK ==
  /\ total \in 0 .. Batches
  /\ enc \in {"gather", "stream", "send", "failed", "finished", "end"}
  /\ gathered \in 0 .. Batches
  /\ streamed \in 0 .. Batches
  /\ sender \in BOOLEAN
  /\ chan \in Seq(Batch)
  /\ receiver \in BOOLEAN
  /\ wr \in {"receive", "write", "failing", "failed", "done"}
  /\ hand \in 0 .. Batches
  /\ written \in Seq(Batch)
  /\ first \in Who
  /\ result \in Who \cup {"ok"}

Init ==
  /\ total \in 0 .. Batches
  /\ enc = IF Hilbert THEN "gather" ELSE "stream"
  /\ gathered = 0
  /\ streamed = 0
  /\ sender = TRUE
  /\ chan = <<>>
  /\ receiver = TRUE
  /\ wr = "receive"
  /\ hand = 0
  /\ written = <<>>
  /\ first = "none"
  /\ result = "none"
-----------------------------------------------------------------------------
(* The encoder *)

Blame(who) == first' = IF first = "none" THEN who ELSE first

\* sorter.push for every batch, then sorter.finish.
Gather ==
  /\ enc = "gather"
  /\ IF gathered < total
     THEN gathered' = gathered + 1 /\ UNCHANGED enc
     ELSE enc' = "stream" /\ UNCHANGED gathered
  /\ UNCHANGED <<streamed, sender, chan, writer, first, result>>

\* The next batch of the source, or of the sorted stream.
Stream ==
  /\ enc = "stream"
  /\ IF streamed < total
     THEN enc' = "send" /\ streamed' = streamed + 1
     ELSE enc' = "finished" /\ UNCHANGED streamed
  /\ UNCHANGED <<gathered, sender, chan, writer, first, result>>

\* Encoding, spilling or merging fails: the closure returns its error.
EncoderFails ==
  /\ enc \in {"gather", "stream"}
  /\ enc' = "failed"
  /\ Blame("encoder")
  /\ UNCHANGED <<gathered, streamed, sender, chan, writer, result>>

\* send blocks while the channel is full.
Send ==
  /\ enc = "send"
  /\ receiver
  /\ Len(chan) < Capacity
  /\ chan' = Append(chan, streamed)
  /\ enc' = "stream"
  /\ UNCHANGED <<gathered, streamed, sender, writer, first, result>>

\* send fails once the receiver is gone, also when it was blocked: the loop
\* is left, without an error of its own.
SendRefused ==
  /\ enc = "send"
  /\ ~receiver
  /\ enc' = "finished"
  /\ UNCHANGED <<gathered, streamed, sender, chan, writer, first, result>>

\* The closure has returned: drop(sender).
DropSender ==
  /\ enc \in {"failed", "finished"}
  /\ sender
  /\ sender' = FALSE
  /\ UNCHANGED <<enc, gathered, streamed, chan, writer, first, result>>

\* writer.join(), and then the encoder's error before the writer's.
Join ==
  /\ enc \in {"failed", "finished"}
  /\ ~sender
  /\ wr \in {"failed", "done"}
  /\ enc' = "end"
  /\ result' = IF enc = "failed" THEN "encoder"
               ELSE IF wr = "failed" THEN "writer" ELSE "ok"
  /\ UNCHANGED <<gathered, streamed, sender, chan, writer, first>>
-----------------------------------------------------------------------------
(* The writer *)

Receive ==
  /\ wr = "receive"
  /\ chan # <<>>
  /\ hand' = Head(chan)
  /\ chan' = Tail(chan)
  /\ wr' = "write"
  /\ UNCHANGED <<encoder, receiver, written, first, result>>

\* The channel is empty and has no sender: the loop ends.
SourceClosed ==
  /\ wr = "receive"
  /\ chan = <<>>
  /\ ~sender
  /\ wr' = "done"
  /\ UNCHANGED <<encoder, chan, receiver, hand, written, first, result>>

\* write_batch.
Write ==
  /\ wr = "write"
  /\ written' = Append(written, hand)
  /\ wr' = "receive"
  /\ UNCHANGED <<encoder, chan, receiver, hand, first, result>>

WriterFails ==
  /\ wr = "write"
  /\ wr' = "failing"
  /\ Blame("writer")
  /\ UNCHANGED <<encoder, chan, receiver, hand, written, result>>

\* The closure returns the error and drops the receiver with what it holds.
DropReceiver ==
  /\ wr = "failing"
  /\ wr' = "failed"
  /\ receiver' = FALSE
  /\ chan' = <<>>
  /\ UNCHANGED <<encoder, hand, written, first, result>>

EncoderStep ==
  Gather \/ Stream \/ EncoderFails \/ Send \/ SendRefused \/ DropSender \/ Join
WriterStep ==
  Receive \/ SourceClosed \/ Write \/ WriterFails \/ DropReceiver

Next == (EncoderStep \/ WriterStep) /\ UNCHANGED total

Spec == Init /\ [][Next]_vars

-----------------------------------------------------------------------------
(* Properties *)

\* The batches reach the tables in the order they were encoded, none twice
\* and none left out, whatever the interleaving of the two threads.
OrderKept == \A k \in DOMAIN written : written[k] = k

\* write_package goes on only with complete tables, and a failure of either
\* thread is never taken for success.
OkMeansComplete == result = "ok" => Len(written) = total /\ first = "none"
=============================================================================
