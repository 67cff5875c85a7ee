---------------------------- MODULE EnginePool -----------------------------
(***************************************************************************)
(* The pool of single-use DuckDB engines behind the hosted MCP server.  A  *)
(* request leases an engine nobody has used, and the engine is closed      *)
(* after it.  One action is what the event loop runs between two awaits: a *)
(* build settling, an engine closed, a request arriving or giving up, a    *)
(* task ending, a retry timer, and the shutdown.                           *)
(***************************************************************************)
EXTENDS Integers, Sequences, FiniteSets, SequencesExt

CONSTANTS
  Requests,    \* the requests that ask for an engine, each once
  Engines,     \* names for engines: one is free again when its engine is gone
  NoEngine,    \* what a request holds that holds no engine
  Size,        \* how many engines may exist at once
  MaxWaiting   \* how many requests may wait for one

ASSUME SizeAssumption == Size \in Nat
ASSUME WaitingAssumption == MaxWaiting \in Nat
ASSUME EnginesAssumption == IsFiniteSet(Engines) /\ NoEngine \notin Engines

VARIABLES
  stage,     \* stage[e]: how far the engine e is
  ready,     \* the engines that wait for a request
  building,  \* the code's counter of builds under way
  leased,    \* the code's counter of engines handed out
  waiters,   \* the requests that wait for an engine
  req,       \* req[r]: how far the request r is
  lease,     \* lease[r]: the engine r was given
  users,     \* history: the requests that the engine e was given to
  retry,     \* a timer is set that will call refill
  closing    \* the pool is "open", "closing" or "closed"

vars == <<stage, ready, building, leased, waiters, req, lease, users, retry, closing>>

Stage == {"none", "building", "ready", "leased", "closing"}
Open == closing = "open"
Alive == {e \in Engines : stage[e] # "none"}

\* refill, after the caller's own changes: as many builds are begun as the
\* counters leave slots.  st, rd, b and l are what the caller makes of stage,
\* ready, building and leased.
Refill(st, rd, b, l) ==
  LET free == IF Open /\ Len(rd) + b + l < Size THEN Size - Len(rd) - b - l ELSE 0
  IN /\ building' = b + free
     /\ \E new \in SUBSET {e \in Engines : st[e] = "none"} :
          /\ Cardinality(new) = free
          /\ stage' = [e \in Engines |-> IF e \in new THEN "building" ELSE st[e]]

\* r is given e.
Give(r, e) ==
  /\ leased' = leased + 1
  /\ req' = [req EXCEPT ![r] = "using"]
  /\ lease' = [lease EXCEPT ![r] = e]
  /\ users' = [users EXCEPT ![e] = @ \cup {r}]

Init ==
  /\ \E new \in SUBSET Engines :
       /\ Cardinality(new) = Size
       /\ stage = [e \in Engines |-> IF e \in new THEN "building" ELSE "none"]
  /\ ready = <<>>
  /\ building = Size
  /\ leased = 0
  /\ waiters = <<>>
  /\ req = [r \in Requests |-> "new"]
  /\ lease = [r \in Requests |-> NoEngine]
  /\ users = [e \in Engines |-> {}]
  /\ retry = FALSE
  /\ closing = "open"
-----------------------------------------------------------------------------
(* A build settles *)

\* The request that has waited longest gets the new engine.
HandOver(e) ==
  /\ stage[e] = "building"
  /\ Open
  /\ waiters # <<>>
  /\ building' = building - 1
  /\ stage' = [stage EXCEPT ![e] = "leased"]
  /\ waiters' = Tail(waiters)
  /\ Give(Head(waiters), e)
  /\ UNCHANGED <<ready, retry, closing>>

Stock(e) ==
  /\ stage[e] = "building"
  /\ Open
  /\ waiters = <<>>
  /\ building' = building - 1
  /\ stage' = [stage EXCEPT ![e] = "ready"]
  /\ ready' = Append(ready, e)
  /\ UNCHANGED <<leased, waiters, req, lease, users, retry, closing>>

\* An engine that is finished after the shutdown is closed at once.
BuiltLate(e) ==
  /\ stage[e] = "building"
  /\ ~Open
  /\ building' = building - 1
  /\ stage' = [stage EXCEPT ![e] = "closing"]
  /\ UNCHANGED <<ready, leased, waiters, req, lease, users, retry, closing>>

\* Mutant: a failed build is only logged.
BuildFailsForgets(e) ==
  /\ stage[e] = "building"
  /\ building' = building - 1
  /\ stage' = [stage EXCEPT ![e] = "none"]
  /\ UNCHANGED <<ready, leased, waiters, req, lease, users, retry, closing>>

\* The DuckDB instance that a build had made when a later step of it failed is
\* dropped and not closed (duckdb.ts): it is the garbage collector's from here,
\* no engine of the pool's, and is not counted by it.
BuildFails(e) ==
  /\ stage[e] = "building"
  /\ building' = building - 1
  /\ stage' = [stage EXCEPT ![e] = "none"]
  /\ retry' = (retry \/ Open)
  /\ UNCHANGED <<ready, leased, waiters, req, lease, users, closing>>

\* One of the timers that failed builds have set; others may still be set.
Retry ==
  /\ retry
  /\ retry' \in BOOLEAN
  /\ Refill(stage, ready, building, leased)
  /\ UNCHANGED <<ready, leased, waiters, req, lease, users, closing>>
-----------------------------------------------------------------------------
(* A request *)

Take(r) ==
  /\ req[r] = "new"
  /\ Open
  /\ ready # <<>>
  /\ ready' = Tail(ready)
  /\ stage' = [stage EXCEPT ![Head(ready)] = "leased"]
  /\ Give(r, Head(ready))
  /\ UNCHANGED <<building, waiters, retry, closing>>

Wait(r) ==
  /\ req[r] = "new"
  /\ Open
  /\ ready = <<>>
  /\ Len(waiters) < MaxWaiting
  /\ waiters' = Append(waiters, r)
  /\ req' = [req EXCEPT ![r] = "waiting"]
  /\ Refill(stage, ready, building, leased)
  /\ UNCHANGED <<ready, leased, lease, users, retry, closing>>

\* The queue is full, the pool is closed, or, which may be at any time, the
\* client has gone already.
Refuse(r) ==
  /\ req[r] = "new"
  /\ req' = [req EXCEPT ![r] = "done"]
  /\ UNCHANGED <<stage, ready, building, leased, waiters, lease, users, retry, closing>>

\* Mutant: nothing is set that ends the wait.
GiveUpNever(r) ==
  /\ req[r] = "gone"
  /\ UNCHANGED vars

\* maxWaitMs is over, or the client has gone.
GiveUp(r) ==
  /\ \E i \in DOMAIN waiters : waiters[i] = r /\ waiters' = RemoveAt(waiters, i)
  /\ req' = [req EXCEPT ![r] = "done"]
  /\ UNCHANGED <<stage, ready, building, leased, lease, users, retry, closing>>

\* Mutant: the engine goes back to the stock.
EndTaskReuses(r) ==
  /\ req[r] = "using"
  /\ req' = [req EXCEPT ![r] = "done"]
  /\ leased' = leased - 1
  /\ stage' = [stage EXCEPT ![lease[r]] = "ready"]
  /\ ready' = Append(ready, lease[r])
  /\ UNCHANGED <<building, waiters, lease, users, retry, closing>>

\* Mutant: the slot is free as soon as the engine begins to close.
EndTaskFreesSlot(r) ==
  /\ req[r] = "using"
  /\ req' = [req EXCEPT ![r] = "done"]
  /\ lease' = [lease EXCEPT ![r] = NoEngine]
  /\ leased' = leased - 1
  /\ Refill([stage EXCEPT ![lease[r]] = "closing"], ready, building, leased - 1)
  /\ UNCHANGED <<ready, waiters, users, retry, closing>>

\* The task returns or throws: release begins to close the engine.
EndTask(r) ==
  /\ req[r] = "using"
  /\ req' = [req EXCEPT ![r] = "releasing"]
  /\ stage' = [stage EXCEPT ![lease[r]] = "closing"]
  /\ UNCHANGED <<ready, building, leased, waiters, lease, users, retry, closing>>

\* The engine is closed, or its close has failed: only now the slot is free.
Release(r) ==
  /\ req[r] = "releasing"
  /\ req' = [req EXCEPT ![r] = "done"]
  /\ lease' = [lease EXCEPT ![r] = NoEngine]
  /\ users' = [users EXCEPT ![lease[r]] = {}]
  /\ leased' = leased - 1
  /\ Refill([stage EXCEPT ![lease[r]] = "none"], ready, building, leased - 1)
  /\ UNCHANGED <<ready, waiters, retry, closing>>
-----------------------------------------------------------------------------
(* The shutdown *)

\* Whoever waits is refused, and the engines in stock are closed.
Close ==
  /\ Open
  /\ closing' = "closing"
  /\ req' = [r \in Requests |-> IF req[r] = "waiting" THEN "done" ELSE req[r]]
  /\ waiters' = <<>>
  /\ stage' = [e \in Engines |-> IF stage[e] = "ready" THEN "closing" ELSE stage[e]]
  /\ ready' = <<>>
  /\ UNCHANGED <<building, leased, lease, users, retry>>

\* An engine that no request ever had has been closed.
Disposed(e) ==
  /\ stage[e] = "closing"
  /\ \A r \in Requests : lease[r] # e
  /\ stage' = [stage EXCEPT ![e] = "none"]
  /\ UNCHANGED <<ready, building, leased, waiters, req, lease, users, retry, closing>>

\* close returns when no build and no disposal is under way.
Closed ==
  /\ closing = "closing"
  /\ \A e \in Engines : stage[e] \notin {"building", "closing"}
  /\ closing' = "closed"
  /\ UNCHANGED <<stage, ready, building, leased, waiters, req, lease, users, retry>>

Settles(e) == HandOver(e) \/ Stock(e) \/ BuiltLate(e) \/ BuildFails(e)

Next ==
  \/ \E e \in Engines : Settles(e) \/ Disposed(e)
  \/ \E r \in Requests : Take(r) \/ Wait(r) \/ Refuse(r) \/ GiveUp(r) \/ EndTask(r) \/ Release(r)
  \/ Retry \/ Close \/ Closed

Spec == Init /\ [][Next]_vars

\* Builds, tasks and closes end, timers fire and the event loop goes on.
FairSpec ==
  /\ Spec
  /\ \A e \in Engines : WF_vars(Settles(e)) /\ WF_vars(Disposed(e))
  /\ \A r \in Requests : WF_vars(GiveUp(r)) /\ WF_vars(EndTask(r)) /\ WF_vars(Release(r))
  /\ WF_vars(Closed)
-----------------------------------------------------------------------------
TypeOK ==
  /\ stage \in [Engines -> Stage]
  /\ ready \in Seq(Engines)
  /\ building \in Nat /\ leased \in Nat
  /\ waiters \in Seq(Requests) /\ Len(waiters) =< MaxWaiting
  /\ req \in [Requests -> {"new", "waiting", "using", "releasing", "done"}]
  /\ lease \in [Requests -> Engines \cup {NoEngine}]
  /\ users \in [Engines -> SUBSET Requests]
  /\ retry \in BOOLEAN
  /\ closing \in {"open", "closing", "closed"}

\* "Every engine that exists or is being made counts against size": also those
\* still closing, and whatever the order in which builds, tasks and closes
\* settle (pool.ts: refill, release, close).  It says nothing of what a failed
\* build leaves to the garbage collector.
EnginesBounded == Cardinality(Alive) =< Size

\* "An engine no other request has touched, for the duration of task": until
\* its request is done it is neither given to another nor closed under it.
Isolated ==
  \A r \in Requests : req[r] = "using" => stage[lease[r]] = "leased" /\ users[lease[r]] = {r}

\* No wake-up is lost: an engine in stock means that nobody waits, and a slot
\* without an engine has a timer that will build one, so that the pool comes
\* back from any number of failed builds without another request (pool.ts:
\* refill, acquire).
NoSlotForgotten ==
  Open => /\ ready = <<>> \/ waiters = <<>>
          /\ Len(ready) + building + leased = Size \/ retry

\* Who asks is answered, whatever becomes of the builds, and after the shutdown
\* no engine is left (pool.ts: acquire, use, close).
AllSettles ==
  /\ \A r \in Requests : req[r] # "new" ~> req[r] = "done"
  /\ ~Open ~> closing = "closed" /\ Alive = {}
=============================================================================
