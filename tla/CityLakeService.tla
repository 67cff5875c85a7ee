-------------------------- MODULE CityLakeService --------------------------
(***************************************************************************)
(* The CityLake service: requests that share one DuckDB connection behind  *)
(* a mutex, each an operation that is a script of statements.  A statement *)
(* can fail, a task can panic and the process can be killed at any of      *)
(* them.  with_search_path and in_transaction are the scopes "path" and    *)
(* "txn" of a call; a failed call leaves its scopes innermost first, each  *)
(* by its own cleanup, as the nested closures of the code do.              *)
(***************************************************************************)
EXTENDS Integers, Sequences, SequencesExt

CONSTANTS
  Requests,   \* the requests, each one operation
  NoCall,     \* what a request is doing while it holds no connection
  Datasets, Absent, Objects, Buildings, Parts, Sources, Holds, CrsOf, NoCrs,
  Existing,   \* the sources of the datasets a lake may hold when the service starts
  Packages,   \* the sources that are package directories
  Picks,      \* the sets of objects an id or a predicate may pick
  MaxKills    \* how often the process is killed

VARIABLES
  status,     \* status[r]: "waiting" for the connection, "running" or "done"
  call,       \* call[r]: the operation r runs and how far it is
  poisoned,   \* a task has panicked with the connection locked
  lake,       \* what the attached catalog holds, committed
  work,       \* what the connection sees: lake, or its open transaction
  txn,        \* the connection is inside a transaction
  path,       \* the catalog bare names resolve in
  probes,     \* the CRS probe schemas, as <<catalog, dataset>>
  unfinished, \* history: datasets whose create was cut short
  kills

session == <<lake, work, txn, path, probes>>
vars == <<status, call, poisoned, session, unfinished, kills>>

\* A dataset's schema.  declared is history: what its first source declares.
\* building: LakeCatalog's, and the states of the seed inside a create.
Table == {"none", "bare", "empty", "filled", "dangling"}
Schema == [rows : SUBSET Objects, edited : SUBSET Objects, fresh : BOOLEAN,
           crs : {CrsOf[s] : s \in Sources} \cup {NoCrs},
           declared : {CrsOf[s] : s \in Sources} \cup {NoCrs}, building : Table]

\* Absent is no schema, whole or as LakeCatalog shows it.
ASSUME ServiceAssumption ==
  /\ Packages \subseteq Sources /\ Existing \subseteq Sources
  /\ Picks \subseteq SUBSET Objects
  /\ Holds \in [Sources -> SUBSET Objects]
  /\ Parts \in [Objects -> SUBSET Objects]
  /\ Absent \notin Schema
  /\ Absent \notin [rows : SUBSET Objects, edited : SUBSET Objects,
                    crs : {CrsOf[s] : s \in Sources} \cup {NoCrs}, building : Table]
  /\ MaxKills \in Nat

\* The file a create or an ingest reads, the object an update names, the objects
\* a delete's id or predicate picks.  A listing, a description, a query, the
\* export of a module and a compaction, which rewrites files and no rows, are
\* "read".
Operation ==
  [kind : {"create"}, d : Datasets, s : Sources \ Packages]
    \cup [kind : {"import"}, d : Datasets, s : Packages]
    \cup [kind : {"ingest"}, d : Datasets, s : Sources \ Packages]
    \cup [kind : {"update", "touch"}, d : Datasets, o : Objects]
    \cup [kind : {"delete"}, d : Datasets, picked : Picks]
    \cup [kind : {"merge"}, d : Datasets, e : Datasets]
    \cup [kind : {"vacuum", "reconcile", "drop", "write", "validate", "read"}, d : Datasets]

Script ==
  [create    |-> <<"absent", "begin", "create_schema", "seed", "set", "init", "insert", "reset",
                   "commit", "count_seed", "begin", "drop_seed", "unregister", "commit",
                   "crs", "make_probe", "run_probe", "drop_probe", "footer", "built", "describe">>,
   import    |-> <<"absent", "begin", "set", "read_package", "reset", "commit", "describe">>,
   ingest    |-> <<"present", "count", "begin", "set", "insert", "reset", "commit", "recount">>,
   update    |-> <<"present", "find", "begin", "update", "set", "reconcile", "reset", "commit">>,
   touch     |-> <<"present", "find">>,
   delete    |-> <<"present", "count", "begin", "set", "delete", "reset", "commit", "recount">>,
   reconcile |-> <<"present", "begin", "set", "reconcile", "reset", "commit">>,
   vacuum    |-> <<"present", "begin", "set", "orphans", "vacuum", "reset", "commit">>,
   merge     |-> <<"present", "begin", "set", "merge", "reset", "commit">>,
   drop      |-> <<"present", "drop">>,
   write     |-> <<"present", "crs_of", "set", "write", "reset">>,
   validate  |-> <<"present", "set", "validate", "reset">>,
   read      |-> <<"present", "query">>]

\* The statements that have an action of their own.
Control == {"begin", "commit", "set", "reset", "count_seed", "crs",
            "make_probe", "run_probe", "drop_probe", "built", "end"}

\* Those whose failure only ends the body; the others' have actions of their own.
Fallible == {"begin", "set", "count_seed", "crs", "make_probe", "run_probe"}

Running(r) == status[r] = "running"
Op(r) == call[r].op
Steps(r) == Script[Op(r).kind]
AtEnd(r) == call[r].at > Len(Steps(r))
Now(r) == IF AtEnd(r) THEN "end" ELSE Steps(r)[call[r].at]
At(r, s) == Running(r) /\ ~call[r].failed /\ Now(r) = s
Inside(r, scope) == Contains(call[r].scopes, scope)
Unwinding(r, scope) == Running(r) /\ call[r].failed /\ call[r].scopes # <<>>
                         /\ Head(call[r].scopes) = scope

Move(r, at, scopes) == call' = [call EXCEPT ![r].at = at, ![r].scopes = scopes]
Forward(r) == Move(r, call[r].at + 1, call[r].scopes)
Enter(r, scope) == Move(r, call[r].at + 1, <<scope>> \o call[r].scopes)
Leave(r) == Move(r, call[r].at + 1, Tail(call[r].scopes))
Goto(r, s) == Move(r, CHOOSE i \in 1..Len(Steps(r)) : Steps(r)[i] = s, call[r].scopes)
Error(r, scopes) == call' = [call EXCEPT ![r].failed = TRUE, ![r].scopes = scopes]

\* A statement outside a transaction commits at once.
Put(v) == work' = v /\ lake' = IF txn THEN lake ELSE v

Bare(s) == [rows |-> {}, edited |-> {}, fresh |-> TRUE, crs |-> NoCrs,
            declared |-> CrsOf[s], building |-> "none"]
TableFor(rows, before) == IF rows \cap Buildings # {} THEN "filled" ELSE before

\* The statement finds what it needs: otherwise it is refused.
Accepts(s, op) ==
  CASE s = "absent"   -> work[op.d] = Absent
    [] s = "present"  -> work[op.d] # Absent /\ (op.kind = "merge" => work[op.e] # Absent)
    [] s = "find"     -> op.o \in work[op.d].rows
    [] s = "insert"   -> /\ work[op.d].rows \cap Holds[op.s] = {}
                         /\ work[op.d].crs \in {NoCrs, CrsOf[op.s]}
    [] s = "merge"    -> /\ work[op.d].rows \cap work[op.e].rows = {}
                         /\ work[op.d].crs \in {NoCrs, work[op.e].crs}
    [] OTHER          -> TRUE

Added(rows, edited, c) ==
  [c EXCEPT !.rows = @ \cup rows, !.edited = @ \cup edited, !.building = TableFor(rows, @)]

Loaded(s) == [Added(Holds[s], {}, Bare(s)) EXCEPT !.crs = CrsOf[s]]
Gone(picked, c) == (picked \cap c.rows) \cup UNION {Parts[o] : o \in picked \cap c.rows}

\* What the statement makes of the dataset's schema c.
Effect(s, op, c) ==
  CASE s = "create_schema" -> Bare(op.s)
    [] s = "read_package"  -> Loaded(op.s)
    [] s = "seed"          -> [c EXCEPT !.building = "bare"]
    [] s = "init"          -> [c EXCEPT !.building = "empty"]
    [] s = "insert"        -> Added(Holds[op.s], {}, c)
    [] s = "drop_seed"     -> [c EXCEPT !.building = "dangling"]
    [] s = "unregister"    -> [c EXCEPT !.building = "none"]
    [] s = "footer"        -> [c EXCEPT !.crs = CrsOf[op.s]]
    [] s = "update"        -> [c EXCEPT !.edited = @ \cup {op.o}, !.fresh = FALSE]
    [] s = "delete"        -> [c EXCEPT !.rows = @ \ Gone(op.picked, c), !.edited = @ \ Gone(op.picked, c)]
    [] s = "reconcile"     -> [c EXCEPT !.fresh = TRUE]
    [] s = "merge"         -> Added(work[op.e].rows, work[op.e].edited, c)
    [] s = "drop"          -> Absent
    [] OTHER               -> c
-----------------------------------------------------------------------------
Init ==
  /\ status = [r \in Requests |-> "waiting"]
  /\ call = [r \in Requests |-> NoCall]
  /\ poisoned = FALSE
  /\ lake \in [Datasets -> {Loaded(s) : s \in Existing} \cup {Absent}]
  /\ work = lake
  /\ txn = FALSE
  /\ path = "memory"
  /\ probes = {}
  /\ unfinished = {}
  /\ kills = 0

\* Mutant: the poison of the lock is ignored.
AcquireAnyway(r, op) ==
  /\ status[r] = "waiting"
  /\ \A q \in Requests : ~Running(q)
  /\ status' = [status EXCEPT ![r] = "running"]
  /\ call' = [call EXCEPT ![r] = [op |-> op, at |-> 1, scopes |-> <<>>, failed |-> FALSE,
                                  start |-> lake]]
  /\ UNCHANGED <<poisoned, session, unfinished, kills>>

\* The blocking task of a request takes the connection.  What it will do was
\* decided by its client long before, and matters from here on.
Acquire(r, op) ==
  /\ status[r] = "waiting"
  /\ ~poisoned
  /\ \A q \in Requests : ~Running(q)
  /\ status' = [status EXCEPT ![r] = "running"]
  /\ call' = [call EXCEPT ![r] = [op |-> op, at |-> 1, scopes |-> <<>>, failed |-> FALSE,
                                  start |-> lake]]
  /\ UNCHANGED <<poisoned, session, unfinished, kills>>

\* Mutant: a poisoned lock is waited for.
RefusePoisonedWaits(r) == FALSE /\ status[r] = "waiting" /\ UNCHANGED vars

\* A poisoned lock answers every later operation with an error.
RefusePoisoned(r) ==
  /\ status[r] = "waiting"
  /\ poisoned
  /\ status' = [status EXCEPT ![r] = "done"]
  /\ UNCHANGED <<call, poisoned, session, unfinished, kills>>

\* An ordinary statement, with the answer it needs.
Statement(r) ==
  /\ Running(r) /\ ~call[r].failed
  /\ Now(r) \notin Control
  /\ Accepts(Now(r), Op(r))
  /\ Put([work EXCEPT ![Op(r).d] = Effect(Now(r), Op(r), @)])
  /\ Forward(r)
  /\ unfinished' = IF Now(r) = "drop" THEN unfinished \ {Op(r).d} ELSE unfinished
  /\ UNCHANGED <<status, poisoned, txn, path, probes, kills>>

\* A statement is refused, or the disk, the source or the connection fails it.
Fails(r) ==
  /\ Running(r) /\ ~call[r].failed
  /\ Now(r) \notin Control \ Fallible
  /\ Error(r, call[r].scopes)
  /\ UNCHANGED <<status, poisoned, session, unfinished, kills>>

\* DuckDB has no transactions within transactions.
Begin(r) ==
  /\ At(r, "begin")
  /\ ~txn
  /\ txn' = TRUE
  /\ Enter(r, "txn")
  /\ UNCHANGED <<status, poisoned, lake, work, path, probes, unfinished, kills>>

\* Mutant: a create has nothing to unwind after its first commit.
CommitForGood(r) ==
  /\ At(r, "commit")
  /\ lake' = work
  /\ txn' = FALSE
  /\ Leave(r)
  /\ UNCHANGED <<status, poisoned, work, path, probes, unfinished, kills>>

\* The first commit of a create enters the part that is unwound by a DROP.
Commit(r) ==
  /\ At(r, "commit")
  /\ lake' = work
  /\ txn' = FALSE
  /\ IF Op(r).kind = "create" /\ ~Inside(r, "built")
       THEN Move(r, call[r].at + 1, <<"built">>) ELSE Leave(r)
  /\ UNCHANGED <<status, poisoned, work, path, probes, unfinished, kills>>

\* Mutant: the result of COMMIT is not looked at.
CommitFailsQuietly(r) ==
  /\ At(r, "commit")
  /\ work' = lake
  /\ txn' = FALSE
  /\ Leave(r)
  /\ UNCHANGED <<status, poisoned, lake, path, probes, unfinished, kills>>

\* A transaction whose COMMIT fails is over, and its effects are gone.
CommitFails(r) ==
  /\ At(r, "commit")
  /\ work' = lake
  /\ txn' = FALSE
  /\ Error(r, Tail(call[r].scopes))
  /\ UNCHANGED <<status, poisoned, lake, path, probes, unfinished, kills>>

SetPath(r) ==
  /\ At(r, "set")
  /\ path' = "lake"
  /\ Enter(r, "path")
  /\ UNCHANGED <<status, poisoned, lake, work, txn, probes, unfinished, kills>>

ResetPath(r) ==
  /\ At(r, "reset")
  /\ path' = "memory"
  /\ Leave(r)
  /\ UNCHANGED <<status, poisoned, lake, work, txn, probes, unfinished, kills>>

\* The path stays set; the body's success turns into an error.
ResetFails(r) ==
  /\ At(r, "reset")
  /\ Error(r, Tail(call[r].scopes))
  /\ UNCHANGED <<status, poisoned, session, unfinished, kills>>

\* The seed table of a source without buildings is to be dropped.
CountSeed(r) ==
  /\ At(r, "count_seed")
  /\ IF work[Op(r).d].rows \cap Buildings = {} THEN Forward(r) ELSE Goto(r, "crs")
  /\ UNCHANGED <<status, poisoned, session, unfinished, kills>>

\* A source that declares no reference system leaves the footer alone.
ReadCrs(r) ==
  /\ At(r, "crs")
  /\ IF CrsOf[Op(r).s] = NoCrs THEN Goto(r, "built") ELSE Forward(r)
  /\ UNCHANGED <<status, poisoned, session, unfinished, kills>>

\* The probe takes a row of a table that has one, under a bare schema name.
MakeProbe(r) ==
  /\ At(r, "make_probe")
  /\ work[Op(r).d].rows # {}
  /\ <<path, Op(r).d>> \notin probes
  /\ probes' = probes \cup {<<path, Op(r).d>>}
  /\ Enter(r, "probe")
  /\ UNCHANGED <<status, poisoned, lake, work, txn, path, unfinished, kills>>

RunProbe(r) ==
  /\ At(r, "run_probe")
  /\ Forward(r)
  /\ UNCHANGED <<status, poisoned, session, unfinished, kills>>

\* The probe is dropped whatever became of it; that a drop fails is only logged.
DropProbe(r) ==
  /\ \/ At(r, "drop_probe") /\ Leave(r)
     \/ Unwinding(r, "probe") /\ Error(r, Tail(call[r].scopes))
  /\ probes' \in {probes, probes \ {<<path, Op(r).d>>}}
  /\ UNCHANGED <<status, poisoned, lake, work, txn, path, unfinished, kills>>

\* Nothing is left to unwind by a DROP.
Built(r) ==
  /\ At(r, "built")
  /\ Leave(r)
  /\ UNCHANGED <<status, poisoned, session, unfinished, kills>>

\* The path is reset after a failed body too; that this fails is only logged.
UnwindPath(r) ==
  /\ Unwinding(r, "path")
  /\ path' \in {path, "memory"}
  /\ Error(r, Tail(call[r].scopes))
  /\ UNCHANGED <<status, poisoned, lake, work, txn, probes, unfinished, kills>>

\* ROLLBACK, which ends the transaction even where it reports an error.
UnwindTxn(r) ==
  /\ Unwinding(r, "txn")
  /\ work' = lake
  /\ txn' = FALSE
  /\ Error(r, Tail(call[r].scopes))
  /\ UNCHANGED <<status, poisoned, lake, path, probes, unfinished, kills>>

\* Mutant: a create that fails after its ingest just returns the error.
UnwindBuiltKeeps(r) ==
  /\ Unwinding(r, "built")
  /\ Error(r, Tail(call[r].scopes))
  /\ UNCHANGED <<status, poisoned, session, unfinished, kills>>

\* DROP SCHEMA of a dataset whose ingest was committed already.
UnwindBuilt(r) ==
  /\ Unwinding(r, "built")
  /\ Put([work EXCEPT ![Op(r).d] = Absent])
  /\ Error(r, Tail(call[r].scopes))
  /\ UNCHANGED <<status, poisoned, txn, path, probes, unfinished, kills>>

\* That DROP fails, which is only logged.
UnwindBuiltFails(r) ==
  /\ Unwinding(r, "built")
  /\ unfinished' = unfinished \cup {Op(r).d}
  /\ Error(r, Tail(call[r].scopes))
  /\ UNCHANGED <<status, poisoned, session, kills>>

Finished(r) == Running(r) /\ (call[r].failed \/ AtEnd(r)) /\ call[r].scopes = <<>>

\* The closure returns: the connection is free and the client has its answer.
Answer(r) ==
  /\ Finished(r)
  /\ status' = [status EXCEPT ![r] = "done"]
  /\ call' = [call EXCEPT ![r] = NoCall]
  /\ UNCHANGED <<poisoned, session, unfinished, kills>>

\* The datasets of creates that end here with their ingest committed.
CutShort(rs) == {Op(r).d : r \in {q \in rs : Running(q) /\ Inside(q, "built")}}

\* A panic unwinds past ROLLBACK and RESET and poisons the lock.
Panic(r) ==
  /\ Running(r)
  /\ ~Finished(r)
  /\ poisoned' = TRUE
  /\ unfinished' = unfinished \cup CutShort({r})
  /\ status' = [status EXCEPT ![r] = "done"]
  /\ call' = [call EXCEPT ![r] = NoCall]
  /\ UNCHANGED <<session, kills>>

\* The process is killed and started again: the catalog keeps what was
\* committed.  Waiting clients send their requests to the new process.
Kill ==
  /\ kills < MaxKills
  /\ kills' = kills + 1
  /\ poisoned' = FALSE
  /\ unfinished' = unfinished \cup CutShort(Requests)
  /\ status' = [r \in Requests |-> IF Running(r) THEN "done" ELSE status[r]]
  /\ call' = [r \in Requests |-> NoCall]
  /\ work' = lake
  /\ txn' = FALSE
  /\ path' = "memory"
  /\ probes' = {p \in probes : p[1] = "lake"}
  /\ UNCHANGED lake

Step(r) ==
  \/ \E op \in Operation : Acquire(r, op)
  \/ RefusePoisoned(r)
  \/ Statement(r) \/ Fails(r)
  \/ Begin(r) \/ Commit(r) \/ CommitFails(r)
  \/ SetPath(r) \/ ResetPath(r) \/ ResetFails(r)
  \/ CountSeed(r) \/ ReadCrs(r)
  \/ MakeProbe(r) \/ RunProbe(r) \/ DropProbe(r) \/ Built(r)
  \/ UnwindPath(r) \/ UnwindTxn(r) \/ UnwindBuilt(r) \/ UnwindBuiltFails(r)
  \/ Answer(r)

Next == Kill \/ \E r \in Requests : Step(r) \/ Panic(r)

Spec == Init /\ [][Next]_vars

\* The task that holds the connection goes on, and a free connection is taken
\* by one of those that wait, whichever.
FairSpec == Spec /\ WF_vars(\E r \in Requests : Step(r))
-----------------------------------------------------------------------------
\* No statement runs in a transaction its own call did not begin, and a bare
\* name a call qualifies by the search path resolves in the lake, while the
\* probe schema of a create is one of the in-memory catalog (service.rs:
\* in_transaction, with_search_path, the poisoned lock; dataset.rs:
\* mint_crs_footer).
OwnsItsSession ==
  \A r \in Requests : Running(r) =>
    /\ txn <=> Inside(r, "txn")
    /\ Inside(r, "path") => path = "lake"
    /\ ~txn => work = lake
    /\ \A p \in probes : p[1] = "memory"

Sound(c) == c.building \notin {"bare", "empty", "dangling"} /\ (c.declared # NoCrs => c.crs = c.declared)

Building(d) == \E r \in Requests : Running(r) /\ Inside(r, "built") /\ Op(r).d = d

\* What was committed has its derived state re-derived: an update and its
\* reconcile, and the two halves of dropping the seed, are one (mutate.rs:
\* update_object_impl; dataset.rs: drop_empty_seed).
Derived(c) == c.fresh /\ c.building # "dangling"

\* A dataset others can address has its derived state, no empty seed table and,
\* when its source declares a reference system, the footer that turns the CRS
\* guard on; only a create that was killed, panicked or failed to drop what it
\* had built may lack the last two (dataset.rs: create_dataset_impl).
GuardIsOn ==
  \A d \in Datasets : lake[d] # Absent =>
    /\ Derived(lake[d])
    /\ Building(d) \/ d \in unfinished \/ Sound(lake[d])

Shown(v) ==
  [d \in Datasets |-> IF v[d] = Absent THEN Absent
                      ELSE [rows |-> v[d].rows, edited |-> v[d].edited, crs |-> v[d].crs,
                            building |-> v[d].building]]

Catalog == INSTANCE LakeCatalog WITH lake <- Shown([d \in Datasets |-> IF Building(d) THEN Absent ELSE lake[d]])

\* What an operation makes of the catalog when all of it is done.
Outcome(op, v) ==
  CASE op.kind \in {"create", "import"} -> Catalog!Created(v, op.d, op.s)
    [] op.kind = "ingest" -> Catalog!Ingested(v, op.d, op.s)
    [] op.kind = "merge"  -> Catalog!Merged(v, op.d, op.e)
    [] op.kind = "update" -> Catalog!Updated(v, op.d, op.o)
    [] op.kind = "delete" -> Catalog!Deleted(v, op.d, op.picked)
    [] op.kind = "drop"   -> Catalog!Dropped(v, op.d)
    [] OTHER              -> v

\* The answer of a finished call says what happened: a success has all of the
\* operation's effect; an error has none, unless the failure was in counting or
\* describing what had been committed, or the create could not be undone.
AnswersTruly ==
  \A r \in Requests : Finished(r) =>
    LET before == Shown(call[r].start)
        after == Shown(lake)
        late == Now(r) \in {"recount", "describe"}
    IN IF ~call[r].failed THEN after = Outcome(Op(r), before)
       ELSE \/ after = before
            \/ late /\ after = Outcome(Op(r), before)
            \/ Op(r).kind = "create" /\ Op(r).d \in unfinished

\* Requests change the catalog one at a time, each once and as a whole.
Atomic == Catalog!Spec

\* Every request is answered, also after a panic has poisoned the connection.
AllAnswered == \A r \in Requests : <>(status[r] = "done")
=============================================================================
