----------------------------- MODULE CatalogItems -----------------------------
(***************************************************************************)
(* The items of one collection through successive runs of the catalogue    *)
(* driver: handle and process_item (__main__.py), stamp (convert.py) and   *)
(* the JSONL ledger with its roll-up (ledger.py), all under                *)
(* scripts/catalog2cityparquet/src/catalog2cityparquet/.                   *)
(*                                                                         *)
(* Runs follow one another (RunLock); within a run the items are handed to *)
(* a thread pool, and what a pool that breaks leaves is handled serially.  *)
(* A run may be killed at any step and resumed by the next.  Abstracted:   *)
(* the order of the queue, the payload, the reasons (only the status      *)
(* matters here), and the package, of which only metadata.json is kept.    *)
(* The last run allowed (MaxRuns) meets no fault but a broken pool, so     *)
(* that the model asks what a resumed run makes of what earlier ones left. *)
(***************************************************************************)
EXTENDS Naturals, Sequences, FiniteSets, TLAPS

CONSTANTS
  Item,        \* the items of the collection
  Bundles,     \* those is_duplicate_bundle skips
  SkipOption,  \* the values --skip-existing may have in a run
  NameOption,  \* the sets of item ids a run may be given; {}: none given
  Jobs,        \* --jobs, the threads of the pool
  TornWrites,  \* TRUE: an append may stop after part of its line
  MaxRuns,     \* bound: the number of runs
  Nothing      \* no record

ASSUME ConstantsAssumption ==
  /\ Bundles \subseteq Item
  /\ SkipOption \subseteq BOOLEAN /\ SkipOption # {}
  /\ {} \in NameOption /\ NameOption \subseteq SUBSET Item
  /\ Jobs \in Nat \ {0}
  /\ TornWrites \in BOOLEAN
  /\ MaxRuns \in Nat

VARIABLES
  run,      \* the number of runs started
  up,       \* whether a run is executing
  skip,     \* its --skip-existing
  named,    \* the item ids it was given
  pool,     \* how its items are being handed out
  queued,   \* the items submitted to the pool
  threads,  \* the number of threads the pool has started
  step,     \* step[i]: where item i is in this run
  outcome,  \* outcome[i]: the status about to be recorded for i
  meta,     \* meta[i]: the metadata.json in i's package directory
  ledger,   \* the complete lines of the collection's JSONL file
  tail,     \* what follows the last newline
  said      \* said[i]: the status of the last record of i to reach the file whole

pools == <<pool, queued, threads>>
vars == <<run, up, skip, named, pools, step, outcome, meta, ledger, tail, said>>

Status == {"converted", "failed", "skipped", "environment"}
Record == [item : Item, status : Status]
Junk == [item |-> Nothing, status |-> Nothing]  \* a line that does not parse
Empty == <<>>                                   \* no bytes after the newline
Part == <<Junk>>                                \* part of a record
Whole(r) == <<r>>                               \* a record without its newline

\* The file is absent or not JSON, the converter's, or stamped by the driver.
Meta == {"none", "torn", "converted", "stamped"}

Active == {"check", "fetch", "convert", "stamp", "write", "record"}

Init ==
  /\ run = 0
  /\ up = FALSE
  /\ skip = TRUE
  /\ named = {}
  /\ pool = "serial" /\ queued = {} /\ threads = 0
  /\ step = [i \in Item |-> "done"]
  /\ outcome = [i \in Item |-> Nothing]
  /\ meta = [i \in Item |-> "none"]
  /\ ledger = <<>>
  /\ tail = Empty
  /\ said = [i \in Item |-> Nothing]
-----------------------------------------------------------------------------
MayFail == run < MaxRuns

Goto(i, place) == step' = [step EXCEPT ![i] = place]

\* The item is settled with a status, still to be recorded.
Settle(i, status) ==
  /\ Goto(i, "record")
  /\ outcome' = [outcome EXCEPT ![i] = status]

StartRun ==
  /\ ~up
  /\ run < MaxRuns
  /\ run' = run + 1
  /\ up' = TRUE
  /\ skip' \in SkipOption
  /\ named' \in IF run' = MaxRuns THEN {{}} ELSE NameOption
  /\ step' = [i \in Item |-> IF named' = {} \/ i \in named' THEN "todo" ELSE "done"]
  /\ pool' = (IF Jobs = 1 THEN "serial" ELSE "submit")
  /\ queued' = {}
  /\ threads' = 0
  /\ outcome' = [i \in Item |-> Nothing]
  /\ UNCHANGED <<meta, ledger, tail, said>>

-----------------------------------------------------------------------------
(* The thread pool *)

Waiting == {i \in Item : step[i] = "todo"}
Busy == {i \in Item : step[i] \in Active}

\* An item is queued, and a thread started for it unless one is idle.
Submit(i) ==
  /\ up
  /\ pool = "submit"
  /\ i \in Waiting \ queued
  /\ queued' = queued \cup {i}
  /\ \/ threads < Jobs /\ threads' = threads + 1 /\ UNCHANGED pool
     \/ (threads = Jobs \/ Cardinality(Busy) < threads) /\ UNCHANGED <<threads, pool>>
     \/ threads < Jobs /\ pool' = "broken" /\ UNCHANGED threads
  /\ UNCHANGED <<run, up, skip, named, step, outcome, meta, ledger, tail, said>>

\* Everything is submitted: the pool is drained.
Submitted ==
  /\ up
  /\ pool = "submit"
  /\ Waiting \subseteq queued
  /\ pool' = "drain"
  /\ UNCHANGED <<run, up, skip, named, queued, threads, step, outcome, meta, ledger, tail, said>>

\* A thread could not be started.  The pool's shutdown waits for the threads
\* it has, which empty the queue; then every item is gone through again.
FallBack ==
  /\ up
  /\ pool = "broken"
  /\ Busy = {} /\ (threads > 0 => queued \cap Waiting = {})
  /\ pool' = "serial"
  /\ UNCHANGED <<run, up, skip, named, queued, threads, step, outcome, meta, ledger, tail, said>>

\* handle_once: an item that was claimed before is left alone.
Take(i) ==
  /\ up
  /\ step[i] = "todo"
  /\ IF pool = "serial" THEN Busy = {} ELSE i \in queued /\ Cardinality(Busy) < threads
  /\ Goto(i, "check")
  /\ UNCHANGED <<run, up, skip, named, pools, outcome, meta, ledger, tail, said>>
-----------------------------------------------------------------------------
(* One item *)

\* Mutant: a metadata.json is enough, whatever is in it.
AlreadyConvertedIfPresent(i) == meta[i] # "none"

\* metadata.json parses and is a STAC Item.
AlreadyConverted(i) == meta[i] \in {"converted", "stamped"}

\* A bundle is skipped unless the run asked for items by name.
Duplicate(i) == named = {} /\ i \in Bundles

\* Mutant: the bundle rule comes before --skip-existing.
CheckBundleFirst(i) ==
  /\ up
  /\ step[i] = "check"
  /\ IF Duplicate(i) THEN Settle(i, "skipped")
     ELSE /\ Goto(i, IF skip /\ AlreadyConverted(i) THEN "done" ELSE "fetch")
          /\ UNCHANGED outcome
  /\ UNCHANGED <<run, up, skip, named, pools, meta, ledger, tail, said>>

\* An item converted before ends without a record; that rule comes first.
Check(i) ==
  /\ up
  /\ step[i] = "check"
  /\ IF ~(skip /\ AlreadyConverted(i)) /\ Duplicate(i) THEN Settle(i, "skipped")
     ELSE /\ Goto(i, IF skip /\ AlreadyConverted(i) THEN "done" ELSE "fetch")
          /\ UNCHANGED outcome
  /\ UNCHANGED <<run, up, skip, named, pools, meta, ledger, tail, said>>

\* Download and normalise: an error is the data's or this machine's.
Fetch(i) ==
  /\ up
  /\ step[i] = "fetch"
  /\ \/ Goto(i, "convert") /\ UNCHANGED outcome
     \/ MayFail /\ \E s \in {"failed", "environment"} : Settle(i, s)
  /\ UNCHANGED <<run, up, skip, named, pools, meta, ledger, tail, said>>

\* The converter, with --overwrite: it replaces the package whole, fails and
\* leaves it, or fails in the swap and leaves none (PackageCommit).  Stopped at
\* the timeout it may have replaced the package already.
Convert(i) ==
  /\ up
  /\ step[i] = "convert"
  /\ \/ /\ meta' = [meta EXCEPT ![i] = "converted"]
        /\ Goto(i, "stamp")
        /\ UNCHANGED outcome
     \/ /\ MayFail
        /\ \E left \in {meta[i], "none", "converted"} : meta' = [meta EXCEPT ![i] = left]
        /\ \E s \in {"failed", "environment"} : Settle(i, s)
  /\ UNCHANGED <<run, up, skip, named, pools, ledger, tail, said>>

\* Mutant: the outcome is settled before the stamp is written.
StampOpenSettles(i) ==
  /\ up
  /\ step[i] = "stamp"
  /\ meta' = [meta EXCEPT ![i] = "torn"]
  /\ Settle(i, "converted")
  /\ UNCHANGED <<run, up, skip, named, pools, ledger, tail, said>>
\* write_text opens metadata.json and truncates it ...
StampOpen(i) ==
  /\ up
  /\ step[i] = "stamp"
  /\ \/ /\ meta' = [meta EXCEPT ![i] = "torn"]
        /\ Goto(i, "write")
        /\ UNCHANGED outcome
     \/ /\ MayFail
        /\ \E s \in {"failed", "environment"} : Settle(i, s)
        /\ UNCHANGED meta
  /\ UNCHANGED <<run, up, skip, named, pools, ledger, tail, said>>

\* ... and then writes the document with its links.
StampWrite(i) ==
  /\ up
  /\ step[i] = "write"
  /\ \/ /\ meta' = [meta EXCEPT ![i] = "stamped"]
        /\ Settle(i, "converted")
     \/ /\ MayFail
        /\ \E s \in {"failed", "environment"} : Settle(i, s)
        /\ UNCHANGED meta
  /\ UNCHANGED <<run, up, skip, named, pools, ledger, tail, said>>
-----------------------------------------------------------------------------
(* The ledger *)

Line(i) == [item |-> i, status |-> outcome[i]]

\* A line appended after a torn one continues it: neither can be read.
Appended(r) == Append(ledger, IF tail = Empty THEN r ELSE Junk)

\* Ledger.record, under its lock.
RecordOutcome(i) ==
  /\ up
  /\ step[i] = "record"
  /\ ledger' = Appended(Line(i))
  /\ tail' = Empty
  /\ said' = [said EXCEPT ![i] = outcome[i]]
  /\ Goto(i, "done")
  /\ UNCHANGED <<run, up, skip, named, pools, outcome, meta>>

\* What an append that does not complete may leave behind: nothing, part of
\* the record, or all of it but the newline; a reader takes that for a record.
PartialAppend(i) ==
  \/ UNCHANGED <<tail, said>>
  \/ /\ TornWrites
     /\ tail' = Part
     /\ UNCHANGED said
  \/ /\ TornWrites
     /\ tail = Empty
     /\ tail' = Whole(Line(i))
     /\ said' = [said EXCEPT ![i] = outcome[i]]

\* _record_safely: a line that cannot be written is reported and given up.
RecordFails(i) ==
  /\ up
  /\ MayFail
  /\ step[i] = "record"
  /\ PartialAppend(i)
  /\ Goto(i, "done")
  /\ UNCHANGED <<run, up, skip, named, pools, outcome, meta, ledger>>

EndRun ==
  /\ up
  /\ pool \in {"drain", "serial"}
  /\ \A i \in Item : step[i] = "done"
  /\ up' = FALSE
  /\ UNCHANGED <<run, skip, named, pools, step, outcome, meta, ledger, tail, said>>

\* The process is killed: between two steps, or inside an append.
Kill ==
  /\ up
  /\ MayFail
  /\ up' = FALSE
  /\ \/ UNCHANGED <<tail, said>>
     \/ \E i \in Item : step[i] = "record" /\ PartialAppend(i)
  /\ UNCHANGED <<run, skip, named, pools, step, outcome, meta, ledger>>

Progress ==
  \/ StartRun \/ Submitted \/ FallBack \/ EndRun
  \/ \E i \in Item :
       \/ Submit(i) \/ Take(i) \/ Check(i) \/ Fetch(i) \/ Convert(i)
       \/ StampOpen(i) \/ StampWrite(i) \/ RecordOutcome(i)

Next == Progress \/ Kill \/ \E i \in Item : RecordFails(i)

Spec == Init /\ [][Next]_vars

\* The driver's timeouts end every download and conversion, and an operator
\* resumes a run that was killed.
FairSpec == Spec /\ WF_vars(Progress)
-----------------------------------------------------------------------------
(* roll_up *)

\* The lines a reader of the file sees; the last one may lack its newline.
Lines == ledger \o tail

\* Mutant: only the end of the file is expected to be torn.
UnreadableAtEnd == {k \in DOMAIN Lines : Lines[k] = Junk /\ k = Len(Lines)}

Unreadable == {k \in DOMAIN Lines : Lines[k] = Junk}

\* The last record of an item wins.
RollUp(i) ==
  LET mine == {k \in DOMAIN Lines : Lines[k].item = i}
  IN  IF mine = {} THEN Nothing
      ELSE Lines[CHOOSE k \in mine : \A n \in mine : n =< k].status
-----------------------------------------------------------------------------
(* Properties *)

Resting == ~up /\ run > 0 /\ \A i \in Item : step[i] = "done"

\* roll_up: "the last line for an item is that item's current state", that is
\* of the last of its records that reached the file whole.  A record that meets
\* a torn line is lost with it, and so is one that stood there whole but for its
\* newline.
LastRecordWins == \A i \in Item : RollUp(i) = said[i]

\* When the roll-up does miss or misstate the last outcome of an item, it says
\* so: it counts an unreadable line.
LossIsDisclosed ==
  \A i \in Item : RollUp(i) # said[i] => Unreadable # {}

\* While every run skips what exists, an item the ledger calls converted keeps
\* its stamped package through all later runs, kills and failures.
ConvertedStays == \A i \in Item : said[i] = "converted" => meta[i] = "stamped"

\* Nor is that success ever taken back: a bundle converted by name is not
\* recorded as skipped by a later run (the rules' order in handle).
SuccessKept ==
  [][\A i \in Item : said[i] = "converted" => said'[i] = "converted"]_vars

\* An item is skipped as finished only when a run has finished it: converted
\* and stamped (already_converted).
SkippedIsFinished ==
  \A i \in Item : up /\ step[i] = "check" /\ skip /\ AlreadyConverted(i) =>
    meta[i] = "stamped"

\* A run that meets no fault but a broken pool is reached and ends, and then every item of the
\* collection has a package that parses, whatever earlier runs left of it (a
\* kill inside the stamp included); the bundles are skipped.
ResumeConverges ==
  <>[](Resting /\ \A i \in Item \ Bundles : meta[i] \in {"converted", "stamped"})
-----------------------------------------------------------------------------
(* Proofs: when every run skips what exists, for any items, bundles, number  *)
(* of threads and runs, and any faults.                                      *)

\* A converted item is never again fetched, converted, stamped or recorded.
KeptInv ==
  /\ skip = TRUE
  /\ step \in [Item -> Active \cup {"todo", "done"}]
  /\ outcome \in [Item -> Status \cup {Nothing}]
  /\ meta \in [Item -> Meta]
  /\ said \in [Item -> Status \cup {Nothing}]
  /\ \A i \in Item : said[i] = "converted" /\ up => step[i] \in {"todo", "check", "done"}
  /\ \A i \in Item : said[i] = "converted" \/ (step[i] = "record" /\ outcome[i] = "converted") =>
       meta[i] = "stamped"

\* Every step of a run that skips keeps what was converted, and its record.
LEMMA NextKept ==
  ASSUME SkipOption = {TRUE}, Nothing \notin Status
  PROVE  KeptInv /\ [Next]_vars =>
           KeptInv' /\ \A i \in Item : said[i] = "converted" => said'[i] = "converted"
<1> SUFFICES ASSUME KeptInv, [Next]_vars
             PROVE  KeptInv' /\ \A i \in Item : said[i] = "converted" => said'[i] = "converted"
  OBVIOUS
<1> USE DEF KeptInv, Active, Status, Meta, Goto, Settle, pools
<1>1. CASE StartRun
  BY <1>1 DEF StartRun
<1>2. ASSUME NEW i \in Item, Submit(i) \/ Take(i) PROVE KeptInv' /\ said' = said
  BY <1>2 DEF Submit, Take
<1>3. ASSUME NEW i \in Item, Check(i) PROVE KeptInv' /\ said' = said
  BY <1>3 DEF Check, AlreadyConverted
<1>4. ASSUME NEW i \in Item, Fetch(i) PROVE KeptInv' /\ said' = said
  BY <1>4 DEF Fetch
<1>5. ASSUME NEW i \in Item, Convert(i) PROVE KeptInv' /\ said' = said
  BY <1>5 DEF Convert
<1>6. ASSUME NEW i \in Item, StampOpen(i) PROVE KeptInv' /\ said' = said
  BY <1>6 DEF StampOpen
<1>7. ASSUME NEW i \in Item, StampWrite(i) PROVE KeptInv' /\ said' = said
  BY <1>7 DEF StampWrite
<1>8. ASSUME NEW i \in Item, RecordOutcome(i)
      PROVE  KeptInv' /\ \A j \in Item : said[j] = "converted" => said'[j] = "converted"
  BY <1>8 DEF RecordOutcome
<1>9. ASSUME NEW i \in Item, RecordFails(i)
      PROVE  KeptInv' /\ \A j \in Item : said[j] = "converted" => said'[j] = "converted"
  BY <1>9 DEF RecordFails, PartialAppend
<1>10. CASE Submitted \/ FallBack \/ EndRun
  BY <1>10 DEF Submitted, FallBack, EndRun
<1>11. CASE Kill
  BY <1>11 DEF Kill, PartialAppend
<1>12. CASE UNCHANGED vars
  BY <1>12 DEF vars
<1> QED
  BY <1>1, <1>2, <1>3, <1>4, <1>5, <1>6, <1>7, <1>8, <1>9, <1>10, <1>11, <1>12 DEF Next, Progress

\* An item the ledger calls converted keeps its stamped package.
THEOREM ConvertedIsKept ==
  ASSUME SkipOption = {TRUE}, Nothing \notin Status
  PROVE  Spec => []ConvertedStays
<1>1. Init => KeptInv
  BY DEF Init, KeptInv, Active, Status, Meta
<1>2. KeptInv => ConvertedStays
  BY DEF KeptInv, ConvertedStays
<1> QED
  BY <1>1, <1>2, NextKept, PTL DEF Spec

\* And no later run records anything else of it.
THEOREM SuccessIsKept ==
  ASSUME SkipOption = {TRUE}, Nothing \notin Status
  PROVE  Spec => SuccessKept
<1>1. Init => KeptInv
  BY DEF Init, KeptInv, Active, Status, Meta
<1>2. KeptInv /\ [Next]_vars => [\A i \in Item : said[i] = "converted" => said'[i] = "converted"]_vars
  BY NextKept
<1> QED
  BY <1>1, <1>2, NextKept, PTL DEF Spec, SuccessKept
-----------------------------------------------------------------------------
(* The ledger, for any items and any number of lines, torn or whole.         *)

Mine(s, i) == {k \in DOMAIN s : s[k].item = i}
IsLatest(s, i, k) == k \in Mine(s, i) /\ \A n \in Mine(s, i) : n =< k
Latest(s, i) ==
  IF Mine(s, i) = {} THEN Nothing
  ELSE s[CHOOSE k \in Mine(s, i) : \A n \in Mine(s, i) : n =< k].status
HasLatest(s, i) == Mine(s, i) # {} => \E k \in Mine(s, i) : IsLatest(s, i, k)

\* A line that is appended is the last of its item and of no other.
LEMMA LatestAppended ==
  ASSUME NEW S, NEW s \in Seq(S), NEW r \in S, NEW i, HasLatest(s, i)
  PROVE  /\ HasLatest(Append(s, r), i)
         /\ Latest(Append(s, r), i) = IF r.item = i THEN r.status ELSE Latest(s, i)
<1> DEFINE t == Append(s, r)
           last == Len(s) + 1
<1>1. /\ Len(s) \in Nat /\ DOMAIN s = 1 .. Len(s) /\ DOMAIN t = 1 .. last
      /\ t[last] = r /\ \A k \in 1 .. Len(s) : t[k] = s[k]
  OBVIOUS
<1> HIDE DEF t
<1>2. CASE r.item = i
  <2>1. last \in Mine(t, i) /\ \A n \in Mine(t, i) : n =< last
    BY <1>1, <1>2 DEF Mine
  <2>2. \A k \in Mine(t, i) : (\A n \in Mine(t, i) : n =< k) => k = last
    BY <1>1, <2>1 DEF Mine
  <2>3. (CHOOSE k \in Mine(t, i) : \A n \in Mine(t, i) : n =< k) = last
    BY <2>1, <2>2
  <2>4. Latest(t, i) = r.status
    BY <1>1, <2>1, <2>3 DEF Latest
  <2>5. HasLatest(t, i)
    BY <2>1 DEF HasLatest, IsLatest
  <2> QED
    BY <1>2, <2>4, <2>5 DEF t
<1>3. CASE r.item # i
  <2>1. Mine(t, i) = Mine(s, i)
    BY <1>1, <1>3 DEF Mine
  <2>2. HasLatest(t, i)
    BY <2>1 DEF HasLatest, IsLatest
  <2>3. Latest(t, i) = Latest(s, i)
    <3>1. CASE Mine(s, i) = {}
      BY <2>1, <3>1 DEF Latest
    <3>2. CASE Mine(s, i) # {}
      <4> DEFINE k0 == CHOOSE k \in Mine(s, i) : \A n \in Mine(s, i) : n =< k
      <4>1. k0 \in Mine(s, i)
        BY <3>2 DEF HasLatest, IsLatest
      <4>2. t[k0] = s[k0]
        BY <1>1, <4>1 DEF Mine
      <4> QED
        BY <2>1, <3>2, <4>2 DEF Latest
    <3> QED
      BY <3>1, <3>2
  <2> QED
    BY <1>3, <2>2, <2>3 DEF t
<1> QED
  BY <1>2, <1>3

\* While every line can be read, the last line of each item is what it said.
LedgerInv ==
  /\ ledger \in Seq(Record \cup {Junk})
  /\ tail \in {Empty, Part} \cup {Whole(r) : r \in Record}
  /\ said \in [Item -> Status \cup {Nothing}]
  /\ outcome \in [Item -> Status \cup {Nothing}]
  /\ \A i \in Item : step[i] = "record" => outcome[i] \in Status
  /\ step \in [Item -> Active \cup {"todo", "done"}]
  /\ \A i \in Item : HasLatest(ledger, i)
  /\ Unreadable = {} => \A i \in Item : Latest(Lines, i) = said[i]

\* Lines are the ledger's and at most one more, which keeps the others' places.
LEMMA ReadTail ==
  ASSUME NEW S, NEW s \in Seq(S), NEW r \in S
  PROVE  /\ s \o <<r>> = Append(s, r)
         /\ \A k \in DOMAIN s : k \in DOMAIN Append(s, r) /\ Append(s, r)[k] = s[k]
         /\ \E k \in DOMAIN Append(s, r) : Append(s, r)[k] = r
<1>1. s \o <<r>> = Append(s, r)
  OBVIOUS
<1>2. Len(s) + 1 \in DOMAIN Append(s, r) /\ Append(s, r)[Len(s) + 1] = r
  OBVIOUS
<1> QED
  BY <1>1, <1>2

\* A line put after a file that ends in a newline keeps the invariant.
LEMMA PutLine ==
  ASSUME LedgerInv, NEW i \in Item, step[i] = "record", tail = Empty,
         Lines' = Append(ledger, Line(i)), said' = [said EXCEPT ![i] = outcome[i]]
  PROVE  /\ Line(i) \in Record
         /\ \A j \in Item : HasLatest(Append(ledger, Line(i)), j)
         /\ said' \in [Item -> Status \cup {Nothing}]
         /\ Unreadable' = {} => \A j \in Item : Latest(Lines', j) = said'[j]
<1>1. outcome[i] \in Status /\ Line(i) \in Record /\ Line(i).item = i /\ Line(i).status = outcome[i]
  BY DEF LedgerInv, Line, Record
<1>2. \A j \in Item : /\ HasLatest(Append(ledger, Line(i)), j)
                     /\ Latest(Lines', j) = IF j = i THEN outcome[i] ELSE Latest(ledger, j)
  BY <1>1, LatestAppended DEF LedgerInv
<1>3. Lines = ledger
  BY DEF Lines, Empty, LedgerInv
<1>4. Unreadable' = {} => Unreadable = {}
  BY <1>1, <1>3, ReadTail DEF Unreadable, LedgerInv
<1>5. Unreadable' = {} => \A j \in Item : Latest(Lines', j) = said'[j]
  BY <1>2, <1>3, <1>4 DEF LedgerInv
<1> QED
  BY <1>1, <1>2, <1>5 DEF LedgerInv

\* An append that stops half-way keeps it.
LEMMA PartialAppendKeeps ==
  ASSUME LedgerInv, NEW i \in Item, step[i] = "record", PartialAppend(i), ledger' = ledger
  PROVE  /\ tail' \in {Empty, Part} \cup {Whole(r) : r \in Record}
         /\ said' \in [Item -> Status \cup {Nothing}]
         /\ Unreadable' = {} => \A j \in Item : Latest(Lines', j) = said'[j]
<1>1. CASE UNCHANGED <<tail, said>>
  BY <1>1 DEF LedgerInv, Unreadable, Lines
<1>2. CASE tail' = Part /\ said' = said
  <2>1. Lines' = Append(ledger, Junk)
    BY <1>2, ReadTail DEF Lines, Part, LedgerInv
  <2>2. Unreadable' # {}
    BY <2>1, ReadTail DEF Unreadable, LedgerInv
  <2> QED
    BY <1>2, <2>2 DEF LedgerInv
<1>3. CASE tail = Empty /\ tail' = Whole(Line(i)) /\ said' = [said EXCEPT ![i] = outcome[i]]
  <2>1. Line(i) \in Record
    BY DEF LedgerInv, Line, Record
  <2>2. Lines' = Append(ledger, Line(i))
    BY <1>3, <2>1, ReadTail DEF Lines, Whole, LedgerInv
  <2> QED
    BY <1>3, <2>1, <2>2, PutLine
<1> QED
  BY <1>1, <1>2, <1>3 DEF PartialAppend

\* Every step of a run keeps it; only an append changes the file.
LEMMA NextLedger == LedgerInv /\ [Next]_vars => LedgerInv'
<1> SUFFICES ASSUME LedgerInv, [Next]_vars PROVE LedgerInv'
  OBVIOUS
<1>1. ASSUME ledger' = ledger, said' = said, tail' = tail,
             outcome' \in [Item -> Status \cup {Nothing}],
             step' \in [Item -> Active \cup {"todo", "done"}],
             \A i \in Item : step'[i] = "record" => outcome'[i] \in Status
      PROVE  LedgerInv'
  BY <1>1 DEF LedgerInv, Unreadable, Lines
<1>2. CASE StartRun
  BY <1>1, <1>2 DEF StartRun, LedgerInv
<1>3. ASSUME NEW i \in Item, Submit(i) \/ Take(i) PROVE LedgerInv'
  BY <1>1, <1>3 DEF Submit, Take, Goto, Active, LedgerInv
<1>4. ASSUME NEW i \in Item, Check(i) \/ Fetch(i) PROVE LedgerInv'
  BY <1>1, <1>4 DEF Check, Fetch, Goto, Settle, Active, Status, LedgerInv
<1>5. ASSUME NEW i \in Item, Convert(i) PROVE LedgerInv'
  BY <1>1, <1>5 DEF Convert, Goto, Settle, Active, Status, LedgerInv
<1>6. ASSUME NEW i \in Item, StampOpen(i) \/ StampWrite(i) PROVE LedgerInv'
  BY <1>1, <1>6 DEF StampOpen, StampWrite, Goto, Settle, Active, Status, LedgerInv
<1>7. ASSUME NEW i \in Item, RecordFails(i) PROVE LedgerInv'
  <2>1. step[i] = "record" /\ PartialAppend(i) /\ ledger' = ledger /\ outcome' = outcome
    BY <1>7 DEF RecordFails
  <2>2. step' \in [Item -> Active \cup {"todo", "done"}] /\ \A j \in Item : step'[j] = "record" => step[j] = "record"
    BY <1>7 DEF RecordFails, Goto, LedgerInv
  <2> QED
    BY <2>1, <2>2, PartialAppendKeeps DEF LedgerInv
<1>8. CASE Kill
  <2>1. ledger' = ledger /\ outcome' = outcome /\ step' = step
    BY <1>8 DEF Kill
  <2>2. CASE UNCHANGED <<tail, said>>
    BY <1>1, <2>1, <2>2 DEF LedgerInv
  <2>3. ASSUME NEW i \in Item, step[i] = "record", PartialAppend(i) PROVE LedgerInv'
    BY <2>1, <2>3, PartialAppendKeeps DEF LedgerInv
  <2> QED
    BY <1>8, <2>2, <2>3 DEF Kill
<1>9. CASE Submitted \/ FallBack \/ EndRun \/ UNCHANGED vars
  BY <1>1, <1>9 DEF Submitted, FallBack, EndRun, vars, LedgerInv
<1>10. ASSUME NEW i \in Item, RecordOutcome(i) PROVE LedgerInv'
  <2>1. /\ step[i] = "record" /\ tail' = Empty /\ outcome' = outcome
        /\ said' = [said EXCEPT ![i] = outcome[i]]
    BY <1>10 DEF RecordOutcome
  <2>2. step' \in [Item -> Active \cup {"todo", "done"}] /\ \A j \in Item : step'[j] = "record" => step[j] = "record"
    BY <1>10 DEF RecordOutcome, Goto, LedgerInv
  <2>3. outcome[i] \in Status /\ Line(i) \in Record
    BY <2>1 DEF LedgerInv, Line, Record
  <2>4. CASE tail = Empty
    <3>1. ledger' = Append(ledger, Line(i)) /\ ledger' \in Seq(Record \cup {Junk})
      BY <1>10, <2>3, <2>4 DEF RecordOutcome, Appended, LedgerInv
    <3>2. Lines' = Append(ledger, Line(i))
      BY <2>1, <3>1 DEF Lines, Empty
    <3> QED
      BY <2>1, <2>2, <2>4, <3>1, <3>2, PutLine DEF LedgerInv
  <2>5. CASE tail # Empty
    <3>1. ledger' = Append(ledger, Junk) /\ ledger' \in Seq(Record \cup {Junk})
      BY <1>10, <2>5 DEF RecordOutcome, Appended, LedgerInv
    <3>2. Lines' = Append(ledger, Junk)
      BY <2>1, <3>1 DEF Lines, Empty
    <3>3. Unreadable' # {}
      BY <3>2, ReadTail DEF Unreadable, LedgerInv
    <3>4. \A j \in Item : HasLatest(ledger', j)
      BY <3>1, LatestAppended DEF LedgerInv
    <3>5. said' \in [Item -> Status \cup {Nothing}]
      BY <2>1, <2>3 DEF LedgerInv
    <3> QED
      BY <2>1, <2>2, <3>1, <3>3, <3>4, <3>5 DEF LedgerInv
  <2> QED
    BY <2>4, <2>5
<1> QED
  BY <1>2, <1>3, <1>4, <1>5, <1>6, <1>7, <1>8, <1>9, <1>10 DEF Next, Progress

\* A roll-up that misstates an item's last outcome has counted an unreadable
\* line.
THEOREM LossAlwaysDisclosed == Spec => []LossIsDisclosed
<1>1. Init => LedgerInv
  <2> SUFFICES ASSUME Init PROVE LedgerInv
    OBVIOUS
  <2>1. ledger = <<>> /\ Lines = <<>>
    BY DEF Init, Lines, Empty
  <2>2. \A i \in Item : Mine(<<>>, i) = {}
    BY DEF Mine
  <2> QED
    BY <2>1, <2>2 DEF Init, LedgerInv, HasLatest, Latest, Active
<1>2. LedgerInv => LossIsDisclosed
  BY DEF LedgerInv, LossIsDisclosed, RollUp, Latest, Mine
<1> QED
  BY <1>1, <1>2, NextLedger, PTL DEF Spec
=============================================================================
