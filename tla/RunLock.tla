------------------------------- MODULE RunLock -------------------------------
(***************************************************************************)
(* The lock files by which runs of the catalogue driver keep out of each   *)
(* other's output and working directories: acquire_lock, release_lock,     *)
(* sweep_work_root and the frame of run() in                               *)
(* scripts/catalog2cityparquet/src/catalog2cityparquet/__main__.py.        *)
(*                                                                         *)
(* A run is one process; each file operation is one step.  A lock file is  *)
(* identified by the run that created it: a run creates at most one in a   *)
(* directory.  The pid a dead run leaves in its lock may since belong to   *)
(* another process, in which case the run looks alive.                     *)
(***************************************************************************)
EXTENDS Naturals, FiniteSets

CONSTANTS
  Run,        \* the runs (processes) started
  Dir,        \* the directories that can hold a lock
  Out,        \* Out[r]: the output directory of run r
  Work,       \* Work[r]: its working directory, possibly the same one
  Host,       \* Host[r]: the host run r is started on
  Aggregate,  \* the runs that may be given --aggregate-only
  NoRun       \* no run

ASSUME ConstantsAssumption ==
  /\ Out \in [Run -> Dir]
  /\ Work \in [Run -> Dir]
  /\ Aggregate \subseteq Run
  /\ NoRun \notin Run

VARIABLES
  path,         \* path[d]: the run that created the lock file now in d
  written,      \* the <<r, d>> such that r has written its owner into d's lock
  pc,           \* pc[r]: where run r is
  at,           \* at[r]: the directory whose lock r is acquiring or releasing
  seen,         \* seen[r]: the owner r has read from a lock in its way
  claims,       \* claims[r]: the directories on r's exit stack
  downloading,  \* the runs with an item in a working directory of theirs
  revoked       \* history: the directories where a file was unlinked that is
                \* not the one whose owner had been judged

vars == <<path, written, pc, at, seen, claims, downloading, revoked>>

Acquiring == {"create", "read", "probe", "unlink", "recreate", "write"}
Holding == {"next", "sweep", "items", "report"}
Releasing == {"release", "check", "drop"}

Init ==
  /\ path = [d \in Dir |-> NoRun]
  /\ written = {}
  /\ pc = [r \in Run |-> "off"]
  /\ at = Out
  /\ seen = [r \in Run |-> NoRun]
  /\ claims = [r \in Run |-> {}]
  /\ downloading = {}
  /\ revoked = {}
-----------------------------------------------------------------------------
Alive(r) == pc[r] \notin {"off", "gone", "dead"}

Goto(r, place) == pc' = [pc EXCEPT ![r] = place]

\* The owner a lock file names; NoRun when there is no file, when its creator
\* has not written it yet, or never did.
Owner(d) == IF <<path[d], d>> \in written THEN path[d] ELSE NoRun

Start(r) ==
  /\ pc[r] = "off"
  /\ Goto(r, "create")
  /\ UNCHANGED <<path, written, at, seen, claims, downloading, revoked>>

\* Exclusive creation: the file must not exist.
Create(r) ==
  /\ pc[r] = "create"
  /\ IF path[at[r]] = NoRun
     THEN path' = [path EXCEPT ![at[r]] = r] /\ Goto(r, "write")
     ELSE Goto(r, "read") /\ UNCHANGED path
  /\ UNCHANGED <<written, at, seen, claims, downloading, revoked>>

\* LockBusy or OSError: the run ends, and releases what it holds already.
GiveUp(r) == Goto(r, "release")

\* Mutant: a busy lock is waited for.
ReadOwnerWaits(r) ==
  /\ pc[r] = "read"
  /\ LET q == Owner(at[r])
     IN  IF q = NoRun \/ Host[q] # Host[r]
         THEN UNCHANGED <<pc, seen>>
         ELSE Goto(r, "probe") /\ seen' = [seen EXCEPT ![r] = q]
  /\ UNCHANGED <<path, written, at, claims, downloading, revoked>>

\* A lock that is gone, empty or from another host counts as held.
ReadOwner(r) ==
  /\ pc[r] = "read"
  /\ LET q == Owner(at[r])
     IN  IF q = NoRun \/ Host[q] # Host[r]
         THEN GiveUp(r) /\ UNCHANGED seen
         ELSE Goto(r, "probe") /\ seen' = [seen EXCEPT ![r] = q]
  /\ UNCHANGED <<path, written, at, claims, downloading, revoked>>

\* Mutant: the owner is taken for dead without asking.
ProbeNothing(r) ==
  /\ pc[r] = "probe"
  /\ Goto(r, "unlink")
  /\ UNCHANGED <<path, written, at, seen, claims, downloading, revoked>>

\* kill(pid, 0) on the pid read: it is taken for alive when it is, or when
\* another process has the pid by now; the pid of a run on another host says
\* nothing here.
Probe(r) ==
  /\ pc[r] = "probe"
  /\ \/ GiveUp(r)
     \/ /\ Alive(seen[r]) => Host[seen[r]] # Host[r]
        /\ Goto(r, "unlink")
  /\ UNCHANGED <<path, written, at, seen, claims, downloading, revoked>>

\* "The holder is gone; its claim is not": unlink by name.
Unlink(r) ==
  /\ pc[r] = "unlink"
  /\ path' = [path EXCEPT ![at[r]] = NoRun]
  /\ revoked' = revoked \cup (IF path[at[r]] \in {NoRun, seen[r]} THEN {} ELSE {at[r]})
  /\ Goto(r, "recreate")
  /\ UNCHANGED <<written, at, seen, claims, downloading>>

Recreate(r) ==
  /\ pc[r] = "recreate"
  /\ IF path[at[r]] = NoRun
     THEN path' = [path EXCEPT ![at[r]] = r] /\ Goto(r, "write")
     ELSE GiveUp(r) /\ UNCHANGED path
  /\ UNCHANGED <<written, at, seen, claims, downloading, revoked>>

\* The owner goes into the file this run opened, wherever that file is now.
WriteOwner(r) ==
  /\ pc[r] = "write"
  /\ written' = written \cup {<<r, at[r]>>}
  /\ claims' = [claims EXCEPT ![r] = @ \cup {at[r]}]
  /\ Goto(r, "next")
  /\ UNCHANGED <<path, at, seen, downloading, revoked>>

\* The disk is full: an OSError that leaves the empty file behind.
WriteFails(r) ==
  /\ pc[r] = "write"
  /\ GiveUp(r)
  /\ UNCHANGED <<path, written, at, seen, claims, downloading, revoked>>
-----------------------------------------------------------------------------
\* Mutant: the working directory is used without its lock.
NextLockOutOnly(r) ==
  /\ pc[r] = "next"
  /\ Goto(r, "sweep")
  /\ UNCHANGED <<path, written, at, seen, claims, downloading, revoked>>

\* After a lock: the working directory's, unless it is the output directory;
\* --aggregate-only goes straight to the report.
NextLock(r) ==
  /\ pc[r] = "next"
  /\ \/ /\ r \in Aggregate
        /\ Goto(r, "report")
        /\ UNCHANGED at
     \/ /\ Work[r] \in claims[r]
        /\ Goto(r, "sweep")
        /\ UNCHANGED at
     \/ /\ Work[r] \notin claims[r]
        /\ Goto(r, "create")
        /\ at' = [at EXCEPT ![r] = Work[r]]
  /\ UNCHANGED <<path, written, seen, claims, downloading, revoked>>

\* The catalogue root is unreachable or resolves no collection.
NoCollections(r) ==
  /\ pc[r] = "next"
  /\ at[r] = Out[r]
  /\ GiveUp(r)
  /\ UNCHANGED <<path, written, at, seen, claims, downloading, revoked>>

\* Every item directory found in the working directory is deleted.
Sweep(r) ==
  /\ pc[r] = "sweep"
  /\ downloading' = {q \in downloading : Work[q] # Work[r]}
  /\ Goto(r, "items")
  /\ UNCHANGED <<path, written, at, seen, claims, revoked>>

BeginItem(r) ==
  /\ pc[r] = "items"
  /\ downloading' = downloading \cup {r}
  /\ UNCHANGED <<path, written, pc, at, seen, claims, revoked>>

EndItem(r) ==
  /\ pc[r] = "items"
  /\ downloading' = downloading \ {r}
  /\ UNCHANGED <<path, written, pc, at, seen, claims, revoked>>

\* All collections attempted: aggregate_all and print_summary.
Report(r) ==
  /\ pc[r] = "items"
  /\ r \notin downloading
  /\ Goto(r, "report")
  /\ UNCHANGED <<path, written, at, seen, claims, downloading, revoked>>

End(r) ==
  /\ pc[r] = "report"
  /\ Goto(r, "release")
  /\ UNCHANGED <<path, written, at, seen, claims, downloading, revoked>>
-----------------------------------------------------------------------------
\* The exit stack unwinds: the lock taken last is released first.
Unwind(r) ==
  /\ pc[r] = "release"
  /\ IF claims[r] = {}
     THEN Goto(r, "gone") /\ UNCHANGED at
     ELSE /\ Goto(r, "check")
          /\ at' = [at EXCEPT ![r] =
                      IF Work[r] \in claims[r] THEN Work[r] ELSE Out[r]]
  /\ UNCHANGED <<path, written, seen, claims, downloading, revoked>>

\* The lock is read again: if its contents are not this run's it stays.
CheckOwner(r) ==
  /\ pc[r] = "check"
  /\ IF Owner(at[r]) = r
     THEN Goto(r, "drop") /\ UNCHANGED claims
     ELSE Goto(r, "release") /\ claims' = [claims EXCEPT ![r] = @ \ {at[r]}]
  /\ UNCHANGED <<path, written, at, seen, downloading, revoked>>

Drop(r) ==
  /\ pc[r] = "drop"
  /\ path' = [path EXCEPT ![at[r]] = NoRun]
  /\ claims' = [claims EXCEPT ![r] = @ \ {at[r]}]
  /\ Goto(r, "release")
  /\ UNCHANGED <<written, at, seen, downloading, revoked>>
-----------------------------------------------------------------------------
\* A kill: the locks and the item directories stay behind.
Kill(r) ==
  /\ Alive(r)
  /\ Goto(r, "dead")
  /\ UNCHANGED <<path, written, at, seen, claims, downloading, revoked>>

\* An operator clears a lock by hand, as the busy message says: once no run
\* is active.
ClearByHand(d) ==
  /\ path[d] # NoRun
  /\ \A r \in Run : ~Alive(r)
  /\ path' = [path EXCEPT ![d] = NoRun]
  /\ UNCHANGED <<written, pc, at, seen, claims, downloading, revoked>>

Step(r) ==
  \/ Create(r) \/ ReadOwner(r) \/ Probe(r) \/ Unlink(r) \/ Recreate(r)
  \/ WriteOwner(r) \/ WriteFails(r) \/ NextLock(r) \/ NoCollections(r)
  \/ Sweep(r) \/ Report(r) \/ End(r) \/ Unwind(r) \/ CheckOwner(r) \/ Drop(r)

Next ==
  \/ \E r \in Run : Start(r) \/ Step(r) \/ BeginItem(r) \/ EndItem(r) \/ Kill(r)
  \/ \E d \in Dir : ClearByHand(d)

Spec == Init /\ [][Next]_vars

\* A started process runs; a download ends (the driver's timeouts) and a
\* collection has finitely many items, so `items` is left at last.
FairSpec ==
  /\ Spec
  /\ \A r \in Run : WF_vars(Step(r)) /\ SF_vars(Report(r)) /\ WF_vars(EndItem(r))
-----------------------------------------------------------------------------
(* Properties *)

\* r has d's lock and has not begun to give it up.
Holds(r, d) == Alive(r) /\ d \in claims[r] /\ pc[r] \notin Releasing

\* At most one live run holds a directory: the README's "refuses to start if
\* another live run holds either".
OneHolder ==
  \A d \in Dir : \A r, q \in Run : Holds(r, d) /\ Holds(q, d) => r = q

\* Whatever runs start together, on whatever hosts, the locks exclude, except
\* in a directory where acquire_lock has unlinked another file than the one it
\* had read the dead owner from: that stale unlink is the only way in.
OneHolderUnlessRevoked ==
  \A d \in Dir \ revoked : \A r, q \in Run : Holds(r, d) /\ Holds(q, d) => r = q

\* What a sweep deletes is certainly abandoned (sweep_work_root): when a run
\* is about to sweep, every item directory in its working directory belongs to
\* a run that is dead, with that same exception.
SweepsOnlyAbandoned ==
  \A r \in Run : pc[r] = "sweep" /\ Work[r] \notin revoked =>
    \A q \in downloading : Work[q] = Work[r] => ~Alive(q)

\* No run waits for another: whoever starts ends, however the two locks of
\* several runs interlace.
AllEnd == \A r \in Run : Alive(r) ~> ~Alive(r)
=============================================================================
