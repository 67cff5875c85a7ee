-------------------------- MODULE McpServerProofs --------------------------
(***************************************************************************)
(* Proofs about EnginePool, for any finite set of engine names, any set of *)
(* requests, any size of the pool and any length of the queue; and about   *)
(* McpServer, for any calls: what is proved of the pool holds of the       *)
(* server, and no timer stops a statement but its own.                     *)
(***************************************************************************)
EXTENDS McpServer, FiniteSetTheorems, TLAPS

-----------------------------------------------------------------------------
(* The pool.                                                                *)

Building == {e \in Engines : stage[e] = "building"}
Held == {e \in Engines : \E r \in Requests : lease[r] = e}

\* The counters of the code count the builds under way and the engines handed
\* out, those still closing included; while the pool is open every engine is
\* counted by them or in stock.
Counts ==
  /\ building = Cardinality(Building)
  /\ leased = Cardinality(Held)
  /\ Open => /\ Cardinality(Alive) = Len(ready) + building + leased
             /\ Len(ready) + building + leased =< Size
  /\ EnginesBounded

\* The stock holds engines that are ready, each once.
Shelf ==
  /\ \A i \in DOMAIN ready : stage[ready[i]] = "ready"
  /\ \A i, j \in DOMAIN ready : ready[i] = ready[j] => i = j

\* Who has an engine, and that nobody else has it.
Leases ==
  /\ \A r \in Requests : lease[r] # NoEngine <=> req[r] \in {"using", "releasing"}
  /\ \A r \in Requests : req[r] = "using" => stage[lease[r]] = "leased"
  /\ \A r \in Requests : req[r] = "releasing" => stage[lease[r]] = "closing"
  /\ \A r, q \in Requests : lease[r] = lease[q] /\ lease[r] # NoEngine => r = q
  /\ \A e \in Engines : users[e] = {r \in Requests : lease[r] = e}
  /\ Open => \A e \in Engines : stage[e] = "closing" => e \in Held

\* The queue holds requests that wait, each once.
Queue ==
  /\ \A i \in DOMAIN waiters : req[waiters[i]] = "waiting"
  /\ \A i, j \in DOMAIN waiters : waiters[i] = waiters[j] => i = j

IInv == TypeOK /\ Counts /\ Shelf /\ Leases /\ Queue /\ NoSlotForgotten
-----------------------------------------------------------------------------
\* Every set of engines is finite.
LEMMA Finite ==
  ASSUME NEW S \in SUBSET Engines
  PROVE  IsFiniteSet(S) /\ Cardinality(S) \in Nat
BY EnginesAssumption, FS_Subset, FS_CardinalityType

\* What refill does to the engines: as many as it adds to the counter go from
\* no stage to "building", and an open pool with room for them is filled.
LEMMA Refilled ==
  ASSUME NEW st \in [Engines -> Stage], NEW n \in Nat, NEW b \in Int, NEW l \in Int, NEW rd,
         Len(rd) = n, Refill(st, rd, b, l), Open => n + b + l =< Size,
         stage \in [Engines -> Stage]
  PROVE  /\ stage' \in [Engines -> Stage]
         /\ \A e \in Engines : stage'[e] = st[e] \/ (st[e] = "none" /\ stage'[e] = "building")
         /\ building' \in Int
         /\ building' - b \in Nat
         /\ Open => n + building' + l = Size
         /\ ~Open => building' = b
         /\ Cardinality(Building') = Cardinality({e \in Engines : st[e] = "building"}) + (building' - b)
         /\ Cardinality(Alive') = Cardinality({e \in Engines : st[e] # "none"}) + (building' - b)
<1> DEFINE free == IF Open /\ Len(rd) + b + l < Size THEN Size - Len(rd) - b - l ELSE 0
<1>1. PICK new \in SUBSET {e \in Engines : st[e] = "none"} :
        Cardinality(new) = free /\ stage' = [e \in Engines |-> IF e \in new THEN "building" ELSE st[e]]
  BY DEF Refill
<1>2. building' = b + free /\ free \in Nat
  BY SizeAssumption DEF Refill
<1>3. /\ Building' = {e \in Engines : st[e] = "building"} \cup new
      /\ {e \in Engines : st[e] = "building"} \cap new = {}
  BY <1>1 DEF Building
<1>4. /\ Alive' = {e \in Engines : st[e] # "none"} \cup new
      /\ {e \in Engines : st[e] # "none"} \cap new = {}
  BY <1>1 DEF Alive
<1>5. new \in SUBSET Engines
  OBVIOUS
<1>6. \A S, T \in SUBSET Engines :
        S \cap T = {} => Cardinality(S \cup T) = Cardinality(S) + Cardinality(T)
  <2> SUFFICES ASSUME NEW S \in SUBSET Engines, NEW T \in SUBSET Engines, S \cap T = {}
               PROVE  Cardinality(S \cup T) = Cardinality(S) + Cardinality(T)
    OBVIOUS
  <2>1. Cardinality(S \cup T) = Cardinality(S) + Cardinality(T) - Cardinality(S \cap T)
    BY Finite, FS_Union
  <2> QED
    BY <2>1, Finite, FS_EmptySet
<1>7. {e \in Engines : st[e] = "building"} \in SUBSET Engines
      /\ {e \in Engines : st[e] # "none"} \in SUBSET Engines
  OBVIOUS
<1>8. /\ Cardinality(Building') = Cardinality({e \in Engines : st[e] = "building"}) + Cardinality(new)
      /\ Cardinality(Alive') = Cardinality({e \in Engines : st[e] # "none"}) + Cardinality(new)
  BY <1>3, <1>4, <1>5, <1>6, <1>7
<1>9. /\ stage' \in [Engines -> Stage]
      /\ \A e \in Engines : stage'[e] = st[e] \/ (st[e] = "none" /\ stage'[e] = "building")
  <2>1. \A e \in Engines : stage'[e] = IF e \in new THEN "building" ELSE st[e]
    BY <1>1
  <2>2. stage' \in [Engines -> Stage]
    BY <1>1 DEF Stage
  <2> QED
    BY <2>1, <2>2
<1>10. (Open => n + building' + l = Size) /\ (~Open => building' = b)
  BY <1>2, SizeAssumption
<1> HIDE DEF free
<1>11. building' \in Int /\ building' - b = free /\ free \in Nat
  BY <1>2
<1> QED
  BY <1>1, <1>8, <1>9, <1>10, <1>11

\* The initial states satisfy the inductive invariant.
LEMMA InitHolds == Init => IInv
<1> SUFFICES ASSUME Init PROVE IInv
  OBVIOUS
<1> USE SizeAssumption, WaitingAssumption, EnginesAssumption
<1>1. PICK new \in SUBSET Engines :
        /\ Cardinality(new) = Size
        /\ stage = [e \in Engines |-> IF e \in new THEN "building" ELSE "none"]
  BY DEF Init
<1>2. TypeOK
  <2>1. stage \in [Engines -> Stage]
    BY <1>1 DEF Stage
  <2>2. /\ req \in [Requests -> {"new", "waiting", "using", "releasing", "done"}]
        /\ lease \in [Requests -> Engines \cup {NoEngine}]
        /\ users \in [Engines -> SUBSET Requests]
    BY DEF Init
  <2>3. /\ ready \in Seq(Engines) /\ waiters \in Seq(Requests) /\ Len(waiters) =< MaxWaiting
        /\ building \in Nat /\ leased \in Nat
    BY DEF Init
  <2>4. retry \in BOOLEAN /\ closing \in {"open", "closing", "closed"}
    BY DEF Init
  <2> QED
    BY <2>1, <2>2, <2>3, <2>4 DEF TypeOK
<1>3. Building = new /\ Alive = new /\ Held = {}
  BY <1>1 DEF Init, Building, Alive, Held
<1>4. Counts
  BY <1>1, <1>3, FS_EmptySet DEF Init, Counts, EnginesBounded
<1>5. Shelf /\ Queue
  BY DEF Init, Shelf, Queue
<1>6. Leases
  BY <1>1 DEF Init, Leases
<1>7. NoSlotForgotten
  BY DEF Init, NoSlotForgotten
<1> QED
  BY <1>2, <1>4, <1>5, <1>6, <1>7 DEF IInv

\* One engine more or less in a set of engines.
LEMMA OneMore ==
  ASSUME NEW S \in SUBSET Engines, NEW e \in Engines
  PROVE  /\ e \notin S => Cardinality(S \cup {e}) = Cardinality(S) + 1
         /\ e \in S => Cardinality(S \ {e}) = Cardinality(S) - 1
BY Finite, FS_AddElement, FS_RemoveElement

\* The sets that are counted are sets of engines.
LEMMA Counted ==
  /\ Building \in SUBSET Engines /\ Held \in SUBSET Engines /\ Alive \in SUBSET Engines
  /\ Cardinality(Building) \in Nat /\ Cardinality(Held) \in Nat /\ Cardinality(Alive) \in Nat
BY Finite DEF Building, Held, Alive

\* The counters never go below zero.
LEMMA CountersAreNat == Counts' => building' \in Nat /\ leased' \in Nat
<1>1. Building' \in SUBSET Engines /\ Held' \in SUBSET Engines
  BY DEF Building, Held
<1> QED
  BY <1>1, Finite DEF Counts

\* A step that leaves the engines of those who have one alone.
LEMMA LeasesKept ==
  ASSUME IInv, lease' = lease, users' = users,
         \A f \in Held : stage'[f] = stage[f],
         \A r \in Requests : req'[r] = req[r] \/ {req[r], req'[r]} \cap {"using", "releasing"} = {},
         Open' => Open /\ \A f \in Engines : stage'[f] = "closing" => stage[f] = "closing"
  PROVE  Leases'
<1>1. \A r \in Requests : lease[r] # NoEngine => lease[r] \in Held /\ stage'[lease[r]] = stage[lease[r]]
  BY DEF IInv, TypeOK, Held
<1>2. \A r \in Requests : req'[r] \in {"using", "releasing"} <=> req[r] \in {"using", "releasing"}
  OBVIOUS
<1>3. \A r \in Requests : req'[r] \in {"using", "releasing"} => req'[r] = req[r]
  OBVIOUS
<1>4. Held' = Held
  BY DEF Held
<1> QED
  BY <1>1, <1>2, <1>3, <1>4 DEF IInv, Leases

\* An engine whose build is under way, or that is in stock, is nobody's.
LEMMA NotHeld ==
  ASSUME IInv, NEW e \in Engines, stage[e] \notin {"leased", "closing"}
  PROVE  e \notin Held /\ \A r \in Requests : lease[r] # e
BY EnginesAssumption DEF IInv, Held, Leases

\* A build settles.
LEMMA HandOverHolds ==
  ASSUME IInv, NEW e \in Engines, HandOver(e)
  PROVE  IInv'
<1> USE EnginesAssumption, SizeAssumption, WaitingAssumption
<1> DEFINE r == Head(waiters)
<1>1. /\ r \in Requests /\ r = waiters[1] /\ 1 \in DOMAIN waiters /\ req[r] = "waiting"
      /\ lease[r] = NoEngine
  BY DEF IInv, HandOver, TypeOK, Queue, Leases
<1>2. \A q \in Requests : lease[q] # e
  BY DEF IInv, HandOver, Leases
<1>3. /\ Building' = Building \ {e} /\ e \in Building
      /\ Held' = Held \cup {e} /\ e \notin Held
      /\ Alive' = Alive
  <2>1. Building' = Building \ {e} /\ e \in Building /\ Alive' = Alive
    BY DEF IInv, HandOver, Building, Alive, TypeOK
  <2>2. Held' = Held \cup {e} /\ e \notin Held
    BY <1>1, <1>2 DEF IInv, HandOver, Give, Held, TypeOK
  <2> QED
    BY <2>1, <2>2
<1>4. Counts'
  <2>1. /\ Cardinality(Building') = Cardinality(Building) - 1
        /\ Cardinality(Held') = Cardinality(Held) + 1
        /\ Cardinality(Alive') = Cardinality(Alive)
    BY <1>3, Counted, OneMore
  <2>2. /\ building' = building - 1 /\ leased' = leased + 1 /\ ready' = ready /\ Open /\ Open'
        /\ building \in Nat /\ leased \in Nat /\ Len(ready) \in Nat
    BY DEF IInv, HandOver, Give, Open, TypeOK
  <2> QED
    BY <2>1, <2>2, Counted DEF IInv, Counts, EnginesBounded
<1>5. TypeOK'
  <2>1. building' \in Nat /\ leased' \in Nat
    BY <1>4, CountersAreNat
  <2>2. waiters' \in Seq(Requests) /\ Len(waiters') =< MaxWaiting
    BY DEF IInv, HandOver, TypeOK
  <2> QED
    BY <1>1, <2>1, <2>2 DEF IInv, HandOver, Give, TypeOK, Stage
<1>6. Shelf'
  BY DEF IInv, HandOver, Shelf, TypeOK
<1>7. Queue'
  BY <1>1 DEF IInv, HandOver, Give, Queue, TypeOK
<1>8. Leases'
  <2>1. \A q \in Requests : q # r => lease'[q] = lease[q] /\ req'[q] = req[q]
    BY <1>1 DEF IInv, HandOver, Give, TypeOK
  <2>2. lease'[r] = e /\ req'[r] = "using" /\ stage'[e] = "leased"
    BY <1>1 DEF IInv, HandOver, Give, TypeOK
  <2>3. \A f \in Engines : f # e => stage'[f] = stage[f] /\ users'[f] = users[f]
    BY DEF IInv, HandOver, Give, TypeOK
  <2>4. users'[e] = {r} /\ \A q \in Requests : lease'[q] = e <=> q = r
    BY <1>1, <1>2, <2>1, <2>2 DEF IInv, HandOver, Give, TypeOK, Leases
  <2>5. \A q \in Requests : lease[q] \in Engines \cup {NoEngine}
    BY DEF IInv, TypeOK
  <2> QED
    BY <1>1, <1>2, <1>3, <2>1, <2>2, <2>3, <2>4, <2>5 DEF IInv, Leases, HandOver, Open, Held
<1>9. NoSlotForgotten'
  BY DEF IInv, HandOver, Give, NoSlotForgotten, Open, TypeOK
<1> QED
  BY <1>4, <1>5, <1>6, <1>7, <1>8, <1>9 DEF IInv

LEMMA StockHolds ==
  ASSUME IInv, NEW e \in Engines, Stock(e)
  PROVE  IInv'
<1>1. /\ Building' = Building \ {e} /\ e \in Building
      /\ Held' = Held /\ e \notin Held
      /\ Alive' = Alive
  BY NotHeld DEF IInv, Stock, Building, Held, Alive, TypeOK
<1>2. Counts'
  <2>1. Cardinality(Building') = Cardinality(Building) - 1
    BY <1>1, Counted, OneMore
  <2>2. /\ building' = building - 1 /\ leased' = leased /\ Len(ready') = Len(ready) + 1 /\ Open /\ Open'
        /\ building \in Nat /\ leased \in Nat /\ Len(ready) \in Nat
    BY DEF IInv, Stock, Open, TypeOK
  <2> QED
    BY <1>1, <2>1, <2>2, Counted, SizeAssumption DEF IInv, Counts, EnginesBounded
<1>3. TypeOK'
  BY <1>2, CountersAreNat DEF IInv, Stock, TypeOK, Stage
<1>4. Shelf'
  <2>1. \A i \in DOMAIN ready : ready[i] # e /\ ready[i] \in Engines
    BY DEF IInv, Stock, Shelf, TypeOK
  <2> QED
    BY <2>1 DEF IInv, Stock, Shelf, TypeOK
<1>5. Leases'
  BY <1>1, LeasesKept DEF IInv, Stock, TypeOK, Open, Held
<1>6. Queue' /\ NoSlotForgotten'
  BY DEF IInv, Stock, Queue, NoSlotForgotten, TypeOK, Open
<1> QED
  BY <1>2, <1>3, <1>4, <1>5, <1>6 DEF IInv

LEMMA BuiltLateHolds ==
  ASSUME IInv, NEW e \in Engines, BuiltLate(e)
  PROVE  IInv'
<1>1. /\ Building' = Building \ {e} /\ e \in Building
      /\ Held' = Held /\ e \notin Held
      /\ Alive' = Alive /\ ~Open'
  BY NotHeld DEF IInv, BuiltLate, Building, Held, Alive, TypeOK, Open
<1>2. Counts'
  <2>1. Cardinality(Building') = Cardinality(Building) - 1
    BY <1>1, Counted, OneMore
  <2> QED
    BY <1>1, <2>1, Counted, SizeAssumption DEF IInv, BuiltLate, TypeOK, Counts, EnginesBounded
<1>3. TypeOK'
  BY <1>2, CountersAreNat DEF IInv, BuiltLate, TypeOK, Stage
<1>4. Shelf'
  <2>1. \A i \in DOMAIN ready : ready[i] # e /\ ready[i] \in Engines
    BY DEF IInv, BuiltLate, Shelf, TypeOK
  <2> QED
    BY <2>1 DEF IInv, BuiltLate, Shelf, TypeOK
<1>5. Leases'
  BY <1>1, LeasesKept DEF IInv, BuiltLate, TypeOK, Held
<1>6. Queue' /\ NoSlotForgotten'
  BY <1>1 DEF IInv, BuiltLate, Queue, NoSlotForgotten
<1> QED
  BY <1>2, <1>3, <1>4, <1>5, <1>6 DEF IInv

LEMMA BuildFailsHolds ==
  ASSUME IInv, NEW e \in Engines, BuildFails(e)
  PROVE  IInv'
<1>1. /\ Building' = Building \ {e} /\ e \in Building
      /\ Held' = Held /\ e \notin Held
      /\ Alive' = Alive \ {e} /\ e \in Alive
  BY NotHeld DEF IInv, BuildFails, Building, Held, Alive, TypeOK
<1>2. Counts'
  <2>1. /\ Cardinality(Building') = Cardinality(Building) - 1
        /\ Cardinality(Alive') = Cardinality(Alive) - 1
    BY <1>1, Counted, OneMore
  <2>2. /\ building' = building - 1 /\ leased' = leased /\ ready' = ready /\ Open' = Open
        /\ building \in Nat /\ leased \in Nat /\ Len(ready) \in Nat
    BY DEF IInv, BuildFails, Open, TypeOK
  <2> QED
    BY <1>1, <2>1, <2>2, Counted, SizeAssumption DEF IInv, Counts, EnginesBounded
<1>3. TypeOK'
  BY <1>2, CountersAreNat DEF IInv, BuildFails, TypeOK, Stage, Open
<1>4. Shelf'
  <2>1. \A i \in DOMAIN ready : ready[i] # e /\ ready[i] \in Engines
    BY DEF IInv, BuildFails, Shelf, TypeOK
  <2> QED
    BY <2>1 DEF IInv, BuildFails, Shelf, TypeOK
<1>5. Leases'
  BY <1>1, LeasesKept DEF IInv, BuildFails, TypeOK, Open, Held
<1>6. Queue' /\ NoSlotForgotten'
  BY DEF IInv, BuildFails, Queue, NoSlotForgotten, Open, TypeOK
<1> QED
  BY <1>2, <1>3, <1>4, <1>5, <1>6 DEF IInv

\* A step that calls refill and otherwise only lets requests go, or queues one.
LEMMA RefillHolds ==
  ASSUME IInv, Refill(stage, ready, building, leased),
         UNCHANGED <<ready, leased, lease, users, closing>>
  PROVE  /\ Counts' /\ Shelf'
         /\ stage' \in [Engines -> Stage] /\ building' \in Nat /\ leased' \in Nat
         /\ Open' => Open /\ Len(ready') + building' + leased' = Size
         /\ \A f \in Held : stage'[f] = stage[f]
         /\ \A f \in Engines : stage'[f] = "closing" => stage[f] = "closing"
<1>1. /\ Len(ready) \in Nat /\ building \in Nat /\ leased \in Nat /\ stage \in [Engines -> Stage]
      /\ (Open => Len(ready) + building + leased =< Size)
      /\ building \in Int /\ leased \in Int
  BY DEF IInv, TypeOK, Counts
<1>2. /\ stage' \in [Engines -> Stage]
      /\ \A e \in Engines : stage'[e] = stage[e] \/ (stage[e] = "none" /\ stage'[e] = "building")
      /\ building' \in Int
      /\ building' - building \in Nat
      /\ Open => Len(ready) + building' + leased = Size
      /\ ~Open => building' = building
      /\ Cardinality(Building') = Cardinality({e \in Engines : stage[e] = "building"}) + (building' - building)
      /\ Cardinality(Alive') = Cardinality({e \in Engines : stage[e] # "none"}) + (building' - building)
  BY <1>1, Refilled
<1>3. /\ Cardinality(Building') = Cardinality(Building) + (building' - building)
      /\ Cardinality(Alive') = Cardinality(Alive) + (building' - building)
  BY <1>2 DEF Building, Alive
<1>4. Held' = Held /\ (Open' <=> Open)
  BY DEF Held, Open
<1>5. Counts'
  <2>1. /\ building = Cardinality(Building) /\ leased = Cardinality(Held)
        /\ Cardinality(Alive) =< Size
        /\ Open => Cardinality(Alive) = Len(ready) + building + leased
    BY DEF IInv, Counts, EnginesBounded
  <2>2. ready' = ready /\ leased' = leased
    OBVIOUS
  <2>3. building' = Cardinality(Building') /\ leased' = Cardinality(Held')
    BY <1>1, <1>2, <1>3, <1>4, <2>1, <2>2
  <2>4. Cardinality(Alive) \in Nat
    BY Counted
  <2>5. CASE Open
    <3>1. Cardinality(Alive') = Len(ready) + building' + leased
      BY <1>1, <1>2, <1>3, <2>1, <2>4, <2>5
    <3>2. Len(ready) + building' + leased = Size
      BY <1>2, <2>5
    <3>3. Cardinality(Alive') = Len(ready') + building' + leased' /\ Cardinality(Alive') = Size
      BY <2>2, <3>1, <3>2
    <3>4. Cardinality(Alive') =< Size /\ Len(ready') + building' + leased' =< Size
      BY <3>3, SizeAssumption
    <3> QED
      BY <2>3, <3>3, <3>4 DEF Counts, EnginesBounded
  <2>6. CASE ~Open
    <3>1. Cardinality(Alive') = Cardinality(Alive)
      BY <1>1, <1>2, <1>3, <2>4, <2>6
    <3> QED
      BY <1>4, <2>1, <2>3, <2>6, <3>1 DEF Counts, EnginesBounded
  <2> QED
    BY <2>5, <2>6
<1>6. building' \in Nat /\ leased' \in Nat
  BY <1>5, CountersAreNat
<1>7. Shelf'
  <2>1. \A i \in DOMAIN ready : ready[i] \in Engines /\ stage'[ready[i]] = stage[ready[i]]
    BY <1>2 DEF IInv, TypeOK, Shelf
  <2> QED
    BY <2>1 DEF IInv, Shelf
<1>8. \A f \in Held : stage'[f] = stage[f]
  BY <1>2, NotHeld DEF Held
<1> QED
  BY <1>2, <1>4, <1>5, <1>6, <1>7, <1>8

LEMMA RetryHolds ==
  ASSUME IInv, Retry
  PROVE  IInv'
<1>1. /\ Counts' /\ Shelf'
      /\ stage' \in [Engines -> Stage] /\ building' \in Nat /\ leased' \in Nat
      /\ Open' => Open /\ Len(ready') + building' + leased' = Size
      /\ \A f \in Held : stage'[f] = stage[f]
      /\ \A f \in Engines : stage'[f] = "closing" => stage[f] = "closing"
  BY RefillHolds DEF Retry
<1>2. TypeOK'
  BY <1>1 DEF IInv, Retry, TypeOK
<1>3. Leases'
  BY <1>1, LeasesKept DEF Retry
<1>4. Queue' /\ NoSlotForgotten'
  BY <1>1 DEF IInv, Retry, Queue, NoSlotForgotten
<1> QED
  BY <1>1, <1>2, <1>3, <1>4 DEF IInv

\* A request asks, is given up, or has its engine closed.
LEMMA TakeHolds ==
  ASSUME IInv, NEW r \in Requests, Take(r)
  PROVE  IInv'
<1> USE EnginesAssumption, SizeAssumption
<1> DEFINE e == Head(ready)
<1>1. /\ e \in Engines /\ e = ready[1] /\ 1 \in DOMAIN ready /\ stage[e] = "ready"
      /\ lease[r] = NoEngine
  BY DEF IInv, Take, TypeOK, Shelf, Leases
<1>2. e \notin Held /\ \A q \in Requests : lease[q] # e
  BY <1>1, NotHeld
<1>3. /\ Building' = Building
      /\ Held' = Held \cup {e}
      /\ Alive' = Alive
  <2>1. Building' = Building /\ Alive' = Alive
    BY <1>1 DEF IInv, Take, Building, Alive, TypeOK
  <2>2. Held' = Held \cup {e}
    BY <1>1, <1>2 DEF IInv, Take, Give, Held, TypeOK
  <2> QED
    BY <2>1, <2>2
<1>4. Counts'
  <2>1. Cardinality(Held') = Cardinality(Held) + 1
    BY <1>1, <1>2, <1>3, Counted, OneMore
  <2>2. /\ building' = building /\ leased' = leased + 1 /\ Len(ready') = Len(ready) - 1 /\ Open /\ Open'
        /\ building \in Nat /\ leased \in Nat /\ Len(ready) \in Nat
    BY DEF IInv, Take, Give, Open, TypeOK
  <2>3. /\ building = Cardinality(Building) /\ leased = Cardinality(Held)
        /\ Cardinality(Alive) =< Size /\ Len(ready) + building + leased =< Size
        /\ Cardinality(Alive) = Len(ready) + building + leased
    BY <2>2 DEF IInv, Counts, EnginesBounded
  <2>4. Cardinality(Building') = Cardinality(Building) /\ Cardinality(Alive') = Cardinality(Alive)
    BY <1>3
  <2>5. Len(ready') + building' + leased' = Len(ready) + building + leased
    BY <2>2
  <2>6. building' = Cardinality(Building') /\ leased' = Cardinality(Held')
    BY <2>1, <2>2, <2>3, <2>4
  <2> QED
    BY <2>3, <2>4, <2>5, <2>6 DEF Counts, EnginesBounded
<1>5. TypeOK'
  BY <1>1, <1>4, CountersAreNat DEF IInv, Take, Give, TypeOK, Stage
<1>6. Shelf'
  <2>1. /\ \A i \in DOMAIN ready' : ready'[i] = ready[i + 1] /\ i + 1 \in DOMAIN ready /\ i \in Nat \ {0}
        /\ \A i \in DOMAIN ready' : ready[i + 1] \in Engines
    BY DEF IInv, Take, TypeOK
  <2>2. \A i \in DOMAIN ready' : ready'[i] # e
    BY <1>1, <2>1 DEF IInv, Shelf
  <2>3. \A f \in Engines : f # e => stage'[f] = stage[f]
    BY DEF IInv, Take, TypeOK
  <2>4. \A i \in DOMAIN ready' : stage'[ready'[i]] = "ready"
    BY <2>1, <2>2, <2>3 DEF IInv, Shelf
  <2>5. \A i, j \in DOMAIN ready' : ready'[i] = ready'[j] => i = j
    BY <2>1 DEF IInv, Shelf
  <2> QED
    BY <2>4, <2>5 DEF Shelf
<1>7. Queue'
  BY DEF IInv, Take, Give, Queue, TypeOK
<1>8. Leases'
  <2>1. \A q \in Requests : q # r => lease'[q] = lease[q] /\ req'[q] = req[q]
    BY DEF IInv, Take, Give, TypeOK
  <2>2. lease'[r] = e /\ req'[r] = "using" /\ stage'[e] = "leased"
    BY <1>1 DEF IInv, Take, Give, TypeOK
  <2>3. \A f \in Engines : f # e => stage'[f] = stage[f] /\ users'[f] = users[f]
    BY DEF IInv, Take, Give, TypeOK
  <2>4. users'[e] = {r} /\ \A q \in Requests : lease'[q] = e <=> q = r
    BY <1>1, <1>2, <2>1, <2>2 DEF IInv, Take, Give, TypeOK, Leases
  <2>5. \A q \in Requests : lease[q] \in Engines \cup {NoEngine}
    BY DEF IInv, TypeOK
  <2> QED
    BY <1>1, <1>2, <1>3, <2>1, <2>2, <2>3, <2>4, <2>5 DEF IInv, Leases, Take, Open, Held
<1>9. NoSlotForgotten'
  <2>1. waiters' = waiters /\ waiters = <<>> /\ retry' = retry
    BY DEF IInv, Take, NoSlotForgotten
  <2>2. Len(ready) + building + leased = Size \/ retry
    BY DEF IInv, Take, NoSlotForgotten
  <2>3. /\ building' = building /\ leased' = leased + 1 /\ Len(ready') = Len(ready) - 1
        /\ building \in Nat /\ leased \in Nat /\ Len(ready) \in Nat
    BY DEF IInv, Take, Give, TypeOK
  <2>4. Len(ready') + building' + leased' = Len(ready) + building + leased
    BY <2>3
  <2> QED
    BY <2>1, <2>2, <2>4 DEF NoSlotForgotten
<1> QED
  BY <1>4, <1>5, <1>6, <1>7, <1>8, <1>9 DEF IInv

LEMMA WaitHolds ==
  ASSUME IInv, NEW r \in Requests, Wait(r)
  PROVE  IInv'
<1>1. /\ Counts' /\ Shelf'
      /\ stage' \in [Engines -> Stage] /\ building' \in Nat /\ leased' \in Nat
      /\ Open' => Open /\ Len(ready') + building' + leased' = Size
      /\ \A f \in Held : stage'[f] = stage[f]
      /\ \A f \in Engines : stage'[f] = "closing" => stage[f] = "closing"
  BY RefillHolds DEF Wait
<1>2. TypeOK'
  BY <1>1, WaitingAssumption DEF IInv, Wait, TypeOK
<1>3. Leases'
  BY <1>1, LeasesKept DEF IInv, TypeOK, Wait
<1>4. Queue'
  <2>1. \A i \in DOMAIN waiters : waiters[i] # r /\ waiters[i] \in Requests
    BY DEF IInv, Wait, Queue, TypeOK
  <2> QED
    BY <2>1 DEF IInv, Wait, Queue, TypeOK
<1>5. NoSlotForgotten'
  BY <1>1 DEF IInv, Wait, NoSlotForgotten
<1> QED
  BY <1>1, <1>2, <1>3, <1>4, <1>5 DEF IInv

LEMMA RefuseHolds ==
  ASSUME IInv, NEW r \in Requests, Refuse(r)
  PROVE  IInv'
<1>1. Counts' /\ Shelf' /\ NoSlotForgotten'
  BY DEF IInv, Refuse, Counts, EnginesBounded, Building, Held, Alive, Shelf, NoSlotForgotten, Open
<1>2. TypeOK' /\ Queue'
  BY DEF IInv, Refuse, TypeOK, Queue
<1>3. Leases'
  BY LeasesKept DEF IInv, Refuse, TypeOK, Open
<1> QED
  BY <1>1, <1>2, <1>3 DEF IInv
\* A queue that loses one entry.
LEMMA Removed ==
  ASSUME NEW S, NEW s \in Seq(S), NEW i \in DOMAIN s
  PROVE  /\ RemoveAt(s, i) \in Seq(S) /\ Len(RemoveAt(s, i)) = Len(s) - 1
         /\ \A j \in DOMAIN RemoveAt(s, i) :
              /\ j \in Nat \ {0} /\ j < Len(s)
              /\ RemoveAt(s, i)[j] = IF j < i THEN s[j] ELSE s[j + 1]
<1> DEFINE a == SubSeq(s, 1, i - 1)
<1> DEFINE b == SubSeq(s, i + 1, Len(s))
<1>1. i \in Nat /\ 1 =< i /\ i =< Len(s) /\ Len(s) \in Nat
  OBVIOUS
<1>2. /\ a \in Seq(S) /\ Len(a) = i - 1
      /\ \A j \in 1 .. i - 1 : a[j] = s[j]
  BY <1>1
<1>3. /\ b \in Seq(S) /\ Len(b) = Len(s) - i
      /\ \A j \in 1 .. Len(s) - i : b[j] = s[i + j]
  BY <1>1
<1> HIDE DEF a, b
<1>4. a \o b \in Seq(S) /\ Len(a \o b) = Len(s) - 1
  BY <1>1, <1>2, <1>3
<1>5. \A j \in 1 .. Len(s) - 1 : (a \o b)[j] = IF j < i THEN s[j] ELSE s[j + 1]
  BY <1>1, <1>2, <1>3
<1>6. RemoveAt(s, i) = a \o b
  BY DEF RemoveAt, a, b
<1>7. DOMAIN (a \o b) = 1 .. Len(s) - 1
  BY <1>4
<1>8. \A j \in DOMAIN (a \o b) : j \in Nat \ {0} /\ j < Len(s)
  BY <1>1, <1>7
<1> QED
  BY <1>4, <1>5, <1>6, <1>7, <1>8

LEMMA GiveUpHolds ==
  ASSUME IInv, NEW r \in Requests, GiveUp(r)
  PROVE  IInv'
<1>1. PICK i \in DOMAIN waiters : waiters[i] = r /\ waiters' = RemoveAt(waiters, i)
  BY DEF GiveUp
<1>2. waiters \in Seq(Requests) /\ Len(waiters) \in Nat /\ Len(waiters) =< MaxWaiting
  BY DEF IInv, TypeOK
<1>3. /\ waiters' \in Seq(Requests) /\ Len(waiters') = Len(waiters) - 1
      /\ \A j \in DOMAIN waiters' :
           /\ j \in Nat \ {0} /\ j < Len(waiters)
           /\ waiters'[j] = IF j < i THEN waiters[j] ELSE waiters[j + 1]
  BY <1>1, <1>2, Removed
<1>4. req[r] = "waiting" /\ i \in Nat /\ i =< Len(waiters)
  BY <1>1, <1>2 DEF IInv, Queue
<1>5. Counts' /\ Shelf'
  BY DEF IInv, GiveUp, Counts, EnginesBounded, Building, Held, Alive, Shelf, Open
<1>6. NoSlotForgotten'
  <2>1. waiters # <<>>
    BY <1>1, <1>2
  <2> QED
    BY <2>1 DEF IInv, GiveUp, NoSlotForgotten, Open
<1>7. TypeOK'
  <2>1. Len(waiters') =< MaxWaiting
    BY <1>2, <1>3, WaitingAssumption
  <2> QED
    BY <1>3, <2>1 DEF IInv, GiveUp, TypeOK
<1>8. Queue'
  <2>1. \A j, k \in DOMAIN waiters : waiters[j] = waiters[k] => j = k
    BY DEF IInv, Queue
  <2>2. \A j \in DOMAIN waiters' : \E k \in DOMAIN waiters :
          k # i /\ waiters'[j] = waiters[k] /\ k = IF j < i THEN j ELSE j + 1
    BY <1>2, <1>3, <1>4
  <2>3. \A j \in DOMAIN waiters' : waiters'[j] # r /\ req[waiters'[j]] = "waiting"
    BY <1>1, <2>1, <2>2 DEF IInv, Queue
  <2>4. \A j, k \in DOMAIN waiters' : waiters'[j] = waiters'[k] => j = k
    BY <1>3, <1>4, <2>1, <2>2
  <2>5. \A q \in Requests : q # r => req'[q] = req[q]
    BY DEF IInv, GiveUp, TypeOK
  <2>6. \A j \in DOMAIN waiters' : waiters'[j] \in Requests
    BY <1>3
  <2> QED
    BY <2>3, <2>4, <2>5, <2>6 DEF Queue
<1>9. Leases'
  BY <1>4, LeasesKept DEF IInv, GiveUp, TypeOK, Open
<1> QED
  BY <1>5, <1>6, <1>7, <1>8, <1>9 DEF IInv

LEMMA EndTaskHolds ==
  ASSUME IInv, NEW r \in Requests, EndTask(r)
  PROVE  IInv'
<1> USE EnginesAssumption
<1> DEFINE e == lease[r]
<1>1. e \in Engines /\ stage[e] = "leased" /\ \A q \in Requests : q # r => lease[q] # e
  BY DEF IInv, EndTask, TypeOK, Leases
<1>2. \A f \in Engines : f # e => stage'[f] = stage[f]
  BY DEF IInv, EndTask, TypeOK
<1>3. stage'[e] = "closing"
  BY <1>1 DEF IInv, EndTask, TypeOK
<1>4. Building' = Building /\ Held' = Held /\ Alive' = Alive
  BY <1>1, <1>2, <1>3 DEF EndTask, Building, Held, Alive
<1>5. Counts' /\ NoSlotForgotten'
  BY <1>4 DEF IInv, EndTask, Counts, EnginesBounded, NoSlotForgotten, Open
<1>6. TypeOK'
  BY <1>1 DEF IInv, EndTask, TypeOK, Stage
<1>7. Shelf'
  <2>1. \A i \in DOMAIN ready : ready[i] # e /\ ready[i] \in Engines
    BY <1>1 DEF IInv, Shelf, TypeOK
  <2> QED
    BY <1>2, <2>1 DEF IInv, EndTask, Shelf
<1>8. Queue'
  BY DEF IInv, EndTask, Queue, TypeOK
<1>9. Leases'
  <2>1. \A q \in Requests : q # r => req'[q] = req[q] /\ (lease[q] # NoEngine => stage'[lease[q]] = stage[lease[q]])
    BY <1>1, <1>2 DEF IInv, EndTask, TypeOK
  <2>2. req'[r] = "releasing" /\ e \in Held
    BY <1>1 DEF IInv, EndTask, TypeOK, Held
  <2> QED
    BY <1>1, <1>2, <1>3, <1>4, <2>1, <2>2 DEF IInv, EndTask, Leases, Open
<1> QED
  BY <1>5, <1>6, <1>7, <1>8, <1>9 DEF IInv
\* The engine that was closed makes room for a new one.
LEMMA ReleaseHolds ==
  ASSUME IInv, NEW r \in Requests, Release(r)
  PROVE  IInv'
<1> USE EnginesAssumption
<1> DEFINE e == lease[r]
<1>1. /\ e \in Engines /\ stage[e] = "closing" /\ e \in Held
      /\ \A q \in Requests : q # r => lease[q] # e
  BY DEF IInv, Release, TypeOK, Leases, Held
<1>a. PICK st \in [Engines -> Stage] : st = [stage EXCEPT ![e] = "none"]
  BY <1>1 DEF IInv, TypeOK, Stage
<1>2. /\ st \in [Engines -> Stage] /\ st[e] = "none"
      /\ \A f \in Engines : f # e => st[f] = stage[f]
  BY <1>1, <1>a DEF IInv, TypeOK, Stage
<1>3. /\ {f \in Engines : st[f] = "building"} = Building
      /\ {f \in Engines : st[f] # "none"} = Alive \ {e}
      /\ e \in Alive /\ Held' = Held \ {e}
  <2>1. {f \in Engines : st[f] = "building"} = Building /\ {f \in Engines : st[f] # "none"} = Alive \ {e}
    BY <1>1, <1>2 DEF Building, Alive
  <2>2. e \in Alive
    BY <1>1 DEF Alive
  <2>3. \A q \in Requests : lease'[q] = IF q = r THEN NoEngine ELSE lease[q]
    BY DEF IInv, TypeOK, Release
  <2>4. Held' = Held \ {e}
    BY <1>1, <2>3 DEF Held
  <2> QED
    BY <2>1, <2>2, <2>4
<1>b. PICK l \in Int : l = leased - 1
  BY DEF IInv, TypeOK
<1>4. /\ Len(ready) \in Nat /\ building \in Nat /\ leased \in Nat
      /\ building \in Int
      /\ stage \in [Engines -> Stage]
      /\ (Open => Len(ready) + building + leased =< Size)
      /\ building = Cardinality(Building) /\ leased = Cardinality(Held)
      /\ Cardinality(Alive) =< Size
      /\ Open => Cardinality(Alive) = Len(ready) + building + leased
  BY DEF IInv, TypeOK, Counts, EnginesBounded
<1>5. Refill(st, ready, building, l)
  BY <1>a, <1>b DEF Release
<1>6. Open => Len(ready) + building + l =< Size
  BY <1>b, <1>4, SizeAssumption
<1>7. /\ stage' \in [Engines -> Stage]
      /\ \A f \in Engines : stage'[f] = st[f] \/ (st[f] = "none" /\ stage'[f] = "building")
      /\ building' \in Int
      /\ building' - building \in Nat
      /\ Open => Len(ready) + building' + l = Size
      /\ ~Open => building' = building
      /\ Cardinality(Building') = Cardinality({f \in Engines : st[f] = "building"}) + (building' - building)
      /\ Cardinality(Alive') = Cardinality({f \in Engines : st[f] # "none"}) + (building' - building)
  <2>1. stage \in [Engines -> Stage] /\ Len(ready) \in Nat /\ building \in Int /\ l \in Int
    BY <1>4
  <2> QED
    BY <1>5, <1>6, <2>1, Refilled
<1>8. /\ Cardinality(Building') = Cardinality(Building) + (building' - building)
      /\ Cardinality(Alive') = Cardinality(Alive) - 1 + (building' - building)
      /\ Cardinality(Held') = Cardinality(Held) - 1
  <2>1. Cardinality(Alive \ {e}) = Cardinality(Alive) - 1 /\ Cardinality(Held \ {e}) = Cardinality(Held) - 1
    BY <1>1, <1>3, Counted, OneMore
  <2>2. /\ Cardinality(Building') = Cardinality(Building) + (building' - building)
        /\ Cardinality(Alive') = Cardinality(Alive \ {e}) + (building' - building)
    BY <1>3, <1>7
  <2> QED
    BY <1>3, <2>1, <2>2
<1>9. ready' = ready /\ leased' = l /\ (Open' <=> Open)
  BY <1>b DEF Release, Open
<1>10. Counts'
  <2>1. building' = Cardinality(Building') /\ leased' = Cardinality(Held')
    BY <1>b, <1>4, <1>7, <1>8, <1>9
  <2>2. Cardinality(Alive) \in Nat
    BY Counted
  <2>3. CASE Open
    <3>1. Cardinality(Alive') = Len(ready) + building' + l
      <4>1. /\ Cardinality(Alive) = Len(ready) + building + leased
            /\ Len(ready) \in Nat /\ building \in Nat /\ leased \in Nat
        BY <1>4, <2>3
      <4>2. building' \in Int
        BY <1>7
      <4> QED
        BY <1>b, <1>8, <4>1, <4>2
    <3>2. Cardinality(Alive') = Len(ready') + building' + leased' /\ Cardinality(Alive') = Size
      BY <1>7, <1>9, <2>3, <3>1
    <3>3. Cardinality(Alive') =< Size /\ Len(ready') + building' + leased' =< Size
      BY <3>2, SizeAssumption
    <3> QED
      BY <2>1, <3>2, <3>3 DEF Counts, EnginesBounded
  <2>4. CASE ~Open
    <3>1. Cardinality(Alive') = Cardinality(Alive) - 1
      BY <1>4, <1>7, <1>8, <2>2, <2>4
    <3>2. Cardinality(Alive') =< Size
      BY <1>4, <2>2, <3>1, SizeAssumption
    <3> QED
      BY <1>9, <2>1, <2>4, <3>2 DEF Counts, EnginesBounded
  <2> QED
    BY <2>3, <2>4
<1>11. TypeOK'
  <2>1. building' \in Nat /\ leased' \in Nat
    BY <1>10, CountersAreNat
  <2>2. lease' \in [Requests -> Engines \cup {NoEngine}] /\ users' \in [Engines -> SUBSET Requests]
        /\ req' \in [Requests -> {"new", "waiting", "using", "releasing", "done"}]
    BY DEF IInv, TypeOK, Release
  <2> QED
    BY <1>7, <2>1, <2>2 DEF IInv, TypeOK, Release
<1>12. \A f \in Engines : f # e /\ stage[f] # "none" => stage'[f] = stage[f]
  BY <1>2, <1>7
<1>13. Shelf'
  <2>1. \A i \in DOMAIN ready : ready[i] # e /\ ready[i] \in Engines /\ stage[ready[i]] = "ready"
    BY <1>1 DEF IInv, Shelf, TypeOK
  <2> QED
    BY <1>9, <1>12, <2>1 DEF IInv, Shelf
<1>14. Queue'
  <2>1. \A q \in Requests : req[q] = "waiting" => req'[q] = "waiting"
    BY DEF IInv, TypeOK, Release
  <2>2. \A i \in DOMAIN waiters : waiters[i] \in Requests
    BY DEF IInv, TypeOK
  <2> QED
    BY <2>1, <2>2 DEF IInv, Release, Queue
<1>15. Leases'
  <2>1. /\ \A q \in Requests : q # r => lease'[q] = lease[q] /\ req'[q] = req[q]
        /\ lease'[r] = NoEngine /\ req'[r] = "done"
    BY DEF IInv, TypeOK, Release
  <2>2. /\ \A f \in Engines : f # e => users'[f] = users[f]
        /\ users'[e] = {}
    BY <1>1 DEF IInv, TypeOK, Release
  <2>3. \A q \in Requests : q # r /\ lease[q] # NoEngine =>
          lease[q] \in Engines /\ lease[q] # e /\ stage[lease[q]] \in {"leased", "closing"}
    BY <1>1 DEF IInv, TypeOK, Leases
  <2>4. \A q \in Requests : q # r /\ lease[q] # NoEngine => stage'[lease[q]] = stage[lease[q]]
    BY <1>12, <2>3
  <2>5. /\ \A q \in Requests : lease'[q] # NoEngine <=> req'[q] \in {"using", "releasing"}
        /\ \A q \in Requests : req'[q] = "using" => stage'[lease'[q]] = "leased"
        /\ \A q \in Requests : req'[q] = "releasing" => stage'[lease'[q]] = "closing"
        /\ \A p, q \in Requests : lease'[p] = lease'[q] /\ lease'[p] # NoEngine => p = q
    BY <2>1, <2>4 DEF IInv, Leases
  <2>6. \A f \in Engines : users'[f] = {q \in Requests : lease'[q] = f}
    BY <1>1, <2>1, <2>2 DEF IInv, Leases
  <2>7. Open' => \A f \in Engines : stage'[f] = "closing" => f \in Held'
    BY <1>2, <1>3, <1>7, <1>9 DEF IInv, Leases
  <2> QED
    BY <2>5, <2>6, <2>7 DEF Leases
<1>16. NoSlotForgotten'
  BY <1>7, <1>9 DEF IInv, Release, NoSlotForgotten
<1> QED
  BY <1>10, <1>11, <1>13, <1>14, <1>15, <1>16 DEF IInv

\* The shutdown.
LEMMA CloseHolds ==
  ASSUME IInv, Close
  PROVE  IInv'
<1> USE EnginesAssumption, WaitingAssumption
<1>1. /\ stage' \in [Engines -> Stage]
      /\ \A e \in Engines : stage'[e] = IF stage[e] = "ready" THEN "closing" ELSE stage[e]
  BY DEF IInv, Close, TypeOK, Stage
<1>2. Building' = Building /\ Alive' = Alive /\ Held' = Held /\ ~Open'
  BY <1>1 DEF Close, Building, Alive, Held, Open
<1>3. Counts'
  BY <1>2 DEF IInv, Counts, EnginesBounded, Close
<1>4. \A r \in Requests : req'[r] = IF req[r] = "waiting" THEN "done" ELSE req[r]
  BY DEF Close
<1>5. TypeOK'
  <2>1. req' \in [Requests -> {"new", "waiting", "using", "releasing", "done"}]
    BY DEF IInv, Close, TypeOK
  <2>2. /\ ready' \in Seq(Engines) /\ waiters' \in Seq(Requests) /\ Len(waiters') =< MaxWaiting
        /\ closing' \in {"open", "closing", "closed"}
    BY DEF Close
  <2> QED
    BY <1>1, <2>1, <2>2 DEF IInv, Close, TypeOK
<1>6. Shelf' /\ Queue' /\ NoSlotForgotten'
  BY <1>2 DEF Close, Shelf, Queue, NoSlotForgotten
<1>7. \A f \in Held : stage'[f] = stage[f]
  BY <1>1, NotHeld DEF Held
<1>8. Leases'
  BY <1>2, <1>4, <1>7, LeasesKept DEF IInv, Close, TypeOK
<1> QED
  BY <1>3, <1>5, <1>6, <1>8 DEF IInv

LEMMA DisposedHolds ==
  ASSUME IInv, NEW e \in Engines, Disposed(e)
  PROVE  IInv'
<1>1. e \notin Held /\ ~Open /\ ~Open'
  BY DEF IInv, Disposed, Held, Leases, Open
<1>2. \A f \in Engines : f # e => stage'[f] = stage[f]
  BY DEF IInv, Disposed, TypeOK
<1>3. stage'[e] = "none" /\ stage' \in [Engines -> Stage]
  BY DEF IInv, Disposed, TypeOK, Stage
<1>4. Building' = Building /\ Held' = Held /\ Alive' = Alive \ {e} /\ e \in Alive
  BY <1>2, <1>3 DEF Disposed, Building, Held, Alive
<1>5. Counts'
  <2>1. Cardinality(Alive') = Cardinality(Alive) - 1
    BY <1>4, Counted, OneMore
  <2>2. Cardinality(Alive') =< Size
    BY <2>1, Counted, SizeAssumption DEF IInv, Counts, EnginesBounded
  <2> QED
    BY <1>1, <1>4, <2>2 DEF IInv, Disposed, Counts, EnginesBounded
<1>6. TypeOK'
  BY <1>3 DEF IInv, Disposed, TypeOK
<1>7. Shelf'
  <2>1. \A i \in DOMAIN ready : ready[i] # e /\ ready[i] \in Engines
    BY DEF IInv, Disposed, Shelf, TypeOK
  <2> QED
    BY <1>2, <2>1 DEF IInv, Disposed, Shelf
<1>8. Queue' /\ NoSlotForgotten'
  BY <1>1 DEF IInv, Disposed, Queue, NoSlotForgotten
<1>9. \A f \in Held : stage'[f] = stage[f]
  BY <1>1, <1>2 DEF Held
<1>10. Leases'
  BY <1>1, <1>9, LeasesKept DEF Disposed
<1> QED
  BY <1>5, <1>6, <1>7, <1>8, <1>10 DEF IInv

LEMMA ClosedHolds ==
  ASSUME IInv, Closed
  PROVE  IInv'
<1>1. ~Open /\ ~Open'
  BY DEF Closed, Open
<1>2. Counts' /\ Shelf' /\ Queue' /\ NoSlotForgotten' /\ TypeOK'
  BY <1>1 DEF IInv, Closed, Counts, EnginesBounded, Building, Held, Alive, Shelf, Queue,
              NoSlotForgotten, TypeOK
<1>3. Leases'
  BY <1>1, LeasesKept DEF Closed
<1> QED
  BY <1>2, <1>3 DEF IInv

\* Every step of the pool preserves the inductive invariant.
LEMMA StepHolds == IInv /\ [Next]_vars => IInv'
<1> SUFFICES ASSUME IInv, [Next]_vars PROVE IInv'
  OBVIOUS
<1>1. ASSUME NEW e \in Engines, Settles(e) PROVE IInv'
  BY <1>1, HandOverHolds, StockHolds, BuiltLateHolds, BuildFailsHolds DEF Settles
<1>2. ASSUME NEW e \in Engines, Disposed(e) PROVE IInv'
  BY <1>2, DisposedHolds
<1>3. ASSUME NEW r \in Requests, Take(r) \/ Wait(r) \/ Refuse(r) PROVE IInv'
  BY <1>3, TakeHolds, WaitHolds, RefuseHolds
<1>4. ASSUME NEW r \in Requests, GiveUp(r) \/ EndTask(r) \/ Release(r) PROVE IInv'
  BY <1>4, GiveUpHolds, EndTaskHolds, ReleaseHolds
<1>5. ASSUME Retry \/ Close \/ Closed PROVE IInv'
  BY <1>5, RetryHolds, CloseHolds, ClosedHolds
<1>6. CASE UNCHANGED vars
  BY <1>6 DEF vars, IInv, TypeOK, Counts, EnginesBounded, Building, Held, Alive, Shelf, Leases,
              Queue, NoSlotForgotten, Open
<1> QED
  BY <1>1, <1>2, <1>3, <1>4, <1>5, <1>6 DEF Next
-----------------------------------------------------------------------------
\* The counters, the stock, the queue and the leases of the pool agree with
\* the engines there are, in every reachable state.
THEOREM Invariance == Spec => []IInv
<1> QED
  BY InitHolds, StepHolds, PTL DEF Spec

\* The pool's variables keep their types: no counter goes below zero and the
\* queue never outgrows its limit.
THEOREM TypeCorrect == Spec => []TypeOK
<1>1. IInv => TypeOK
  BY DEF IInv
<1> QED
  BY <1>1, Invariance, PTL

\* There are never more engines than size, those still closing included.
THEOREM Bounded == Spec => []EnginesBounded
<1>1. IInv => EnginesBounded
  BY DEF IInv, Counts
<1> QED
  BY <1>1, Invariance, PTL

\* An engine in use is used by one request and was never given to another.
THEOREM Isolation == Spec => []Isolated
<1>1. IInv => Isolated
  <2> SUFFICES ASSUME IInv, NEW r \in Requests, req[r] = "using"
               PROVE  stage[lease[r]] = "leased" /\ users[lease[r]] = {r}
    BY DEF Isolated
  <2>1. lease[r] \in Engines /\ stage[lease[r]] = "leased"
    BY DEF IInv, TypeOK, Leases
  <2>2. users[lease[r]] = {q \in Requests : lease[q] = lease[r]}
    BY <2>1 DEF IInv, Leases
  <2>3. \A q \in Requests : lease[q] = lease[r] => q = r
    BY <2>1, EnginesAssumption DEF IInv, Leases
  <2> QED
    BY <2>1, <2>2, <2>3
<1> QED
  BY <1>1, Invariance, PTL

\* No slot is lost and no request waits beside an engine in stock.
THEOREM NoLostWakeup == Spec => []NoSlotForgotten
<1>1. IInv => NoSlotForgotten
  BY DEF IInv
<1> QED
  BY <1>1, Invariance, PTL
-----------------------------------------------------------------------------
(* The calls, for any calls, queries and numbers of statements.            *)

InTurn == {"queued", "purge", "statement"}

GateTypeOK ==
  /\ queue \in Seq(Calls)
  /\ at \in [Calls -> InTurn \cup {"off", "answered"}]
  /\ timer \in [Calls -> {"none", "set", "fired"}]
  /\ running \in [Calls -> {"nothing", "works", "ok", "error"}]
  /\ hit \in [Calls -> SUBSET Calls]

\* The queue holds those in turn, each once, and the first of them may run.
Queued ==
  /\ \A i, j \in 1 .. Len(queue) : queue[i] = queue[j] => i = j
  /\ \A i \in 1 .. Len(queue) : at[queue[i]] \in InTurn
  /\ \A c \in Calls : at[c] \in InTurn => \E i \in 1 .. Len(queue) : queue[i] = c
  /\ \A c \in Calls : at[c] \in {"purge", "statement"} => queue # <<>> /\ queue[1] = c

\* Only the first in the queue runs anything, or has a timer.
InTheirTurn ==
  /\ \A c \in Calls : running[c] # "nothing" => at[c] \in {"purge", "statement"}
  /\ \A c \in Calls : timer[c] # "none" => at[c] = "statement" /\ Gate!Query(c)
  /\ \A c \in Calls : at[c] = "purge" => Gate!Query(c)
  /\ \A c \in Calls : hit[c] \subseteq {c}

GateIInv == GateTypeOK /\ Queued /\ InTheirTurn

\* No call has joined yet.
LEMMA InitGate == Gate!Init => GateIInv
  BY DEF Gate!Init, GateIInv, GateTypeOK, Queued, InTheirTurn, InTurn

\* A call that leaves is taken off the front and may go to the back.
LEMMA LeavesGate ==
  ASSUME GateIInv, NEW c \in Calls, at[c] \in {"purge", "statement"},
         NEW again \in BOOLEAN, Gate!Leaves(c, again),
         timer' = [timer EXCEPT ![c] = "none"]
  PROVE  GateIInv'
<1> USE DEF InTurn
<1>1. queue \in Seq(Calls) /\ queue # <<>> /\ queue[1] = c
  BY DEF GateIInv, GateTypeOK, Queued
<1>2. /\ Tail(queue) \in Seq(Calls) /\ Len(Tail(queue)) = Len(queue) - 1
      /\ \A i \in 1 .. Len(queue) - 1 : Tail(queue)[i] = queue[i + 1]
  BY <1>1
<1>3. \A d \in Calls : at'[d] = IF d = c THEN (IF again THEN "queued" ELSE "answered") ELSE at[d]
  BY DEF Gate!Leaves, GateIInv, GateTypeOK
<1>4. \A d \in Calls : d # c => at[d] \notin {"purge", "statement"}
  BY <1>1 DEF GateIInv, Queued
<1>5. GateTypeOK'
  BY <1>2 DEF Gate!Leaves, GateIInv, GateTypeOK
<1>6. InTheirTurn'
  BY <1>3 DEF Gate!Leaves, GateIInv, GateTypeOK, InTheirTurn
<1>7. Queued'
  <2> DEFINE n == Len(queue) - 1
  <2>0. n \in Nat /\ \A i \in 1 .. n : queue[i + 1] # c /\ at[queue[i + 1]] \in InTurn
    BY <1>1 DEF GateIInv, Queued
  <2>1. \A i, j \in 1 .. n : queue[i + 1] = queue[j + 1] => i = j
    BY <1>1 DEF GateIInv, Queued
  <2>2. \A d \in Calls : d # c /\ at[d] \in InTurn => \E i \in 1 .. n : queue[i + 1] = d
    <3> SUFFICES ASSUME NEW d \in Calls, d # c, at[d] \in InTurn PROVE \E i \in 1 .. n : queue[i + 1] = d
      OBVIOUS
    <3>1. PICK k \in 1 .. Len(queue) : queue[k] = d
      BY DEF GateIInv, Queued
    <3>2. k - 1 \in 1 .. n /\ (k - 1) + 1 = k
      BY <1>1, <3>1
    <3> QED
      BY <3>1, <3>2
  <2>3. \A d \in Calls : at'[d] \notin {"purge", "statement"}
    BY <1>3, <1>4
  <2>4. CASE again
    <3>1. queue' = Tail(queue) \o <<c>>
      BY <2>4 DEF Gate!Leaves
    <3>2. /\ Len(queue') = n + 1
          /\ \A i \in 1 .. n : queue'[i] = queue[i + 1]
          /\ queue'[n + 1] = c
      <4> DEFINE t == Tail(queue)
      <4>1. t \in Seq(Calls) /\ Len(t) = n /\ \A i \in 1 .. n : t[i] = queue[i + 1]
        BY <1>2
      <4>2. <<c>> \in Seq(Calls) /\ Len(<<c>>) = 1 /\ <<c>>[1] = c
        OBVIOUS
      <4> HIDE DEF t
      <4>3. /\ Len(t \o <<c>>) = n + 1
            /\ \A i \in 1 .. n : (t \o <<c>>)[i] = t[i]
            /\ (t \o <<c>>)[n + 1] = c
        BY <4>1, <4>2, <2>0
      <4> QED
        BY <3>1, <4>1, <4>3 DEF t
    <3>3. \A i, j \in 1 .. Len(queue') : queue'[i] = queue'[j] => i = j
      <4> SUFFICES ASSUME NEW i \in 1 .. n + 1, NEW j \in 1 .. n + 1, queue'[i] = queue'[j] PROVE i = j
        BY <3>2
      <4>1. CASE i \in 1 .. n /\ j \in 1 .. n
        BY <2>1, <3>2, <4>1
      <4>2. CASE i = n + 1 /\ j \in 1 .. n
        BY <2>0, <3>2, <4>2
      <4>3. CASE i \in 1 .. n /\ j = n + 1
        BY <2>0, <3>2, <4>3
      <4> QED
        BY <2>0, <4>1, <4>2, <4>3
    <3>4. \A i \in 1 .. Len(queue') : at'[queue'[i]] \in InTurn
      <4> SUFFICES ASSUME NEW i \in 1 .. Len(queue') PROVE at'[queue'[i]] \in InTurn
        OBVIOUS
      <4>1. CASE i \in 1 .. n
        <5>1. queue[i + 1] \in Calls
          BY <1>1, <4>1
        <5> QED
          BY <1>3, <2>0, <3>2, <4>1, <5>1
      <4>2. CASE i = n + 1
        BY <1>3, <2>4, <3>2, <4>2
      <4> QED
        BY <2>0, <3>2, <4>1, <4>2
    <3>5. \A d \in Calls : at'[d] \in InTurn => \E i \in 1 .. Len(queue') : queue'[i] = d
      <4> SUFFICES ASSUME NEW d \in Calls, at'[d] \in InTurn PROVE \E i \in 1 .. Len(queue') : queue'[i] = d
        OBVIOUS
      <4>1. CASE d = c
        BY <2>0, <3>2, <4>1
      <4>2. CASE d # c
        <5>1. PICK i \in 1 .. n : queue[i + 1] = d
          BY <1>3, <2>2, <4>2
        <5>2. i \in 1 .. Len(queue') /\ queue'[i] = d
          BY <2>0, <3>2, <5>1
        <5> QED
          BY <5>2
      <4> QED
        BY <4>1, <4>2
    <3> QED
      BY <2>3, <3>3, <3>4, <3>5 DEF Queued
  <2>5. CASE ~again
    <3>1. queue' = Tail(queue)
      BY <1>2, <2>5 DEF Gate!Leaves
    <3>2. Len(queue') = n /\ \A i \in 1 .. n : queue'[i] = queue[i + 1]
      BY <1>2, <3>1, <2>0
    <3>3. \A i, j \in 1 .. Len(queue') : queue'[i] = queue'[j] => i = j
      BY <2>1, <3>2
    <3>4. \A i \in 1 .. Len(queue') : at'[queue'[i]] \in InTurn
      <4> SUFFICES ASSUME NEW i \in 1 .. n PROVE at'[queue[i + 1]] \in InTurn
        BY <3>2
      <4>1. queue[i + 1] \in Calls
        BY <1>1
      <4> QED
        BY <1>3, <2>0, <4>1
    <3>5. \A d \in Calls : at'[d] \in InTurn => \E i \in 1 .. Len(queue') : queue'[i] = d
      BY <1>3, <2>2, <2>5, <3>2
    <3> QED
      BY <2>3, <3>3, <3>4, <3>5 DEF Queued
  <2> QED
    BY <2>4, <2>5
<1> QED
  BY <1>5, <1>6, <1>7 DEF GateIInv

\* Every step of the calls keeps the turns.
LEMMA NextGate == GateIInv /\ [Gate!Next]_Gate!gate => GateIInv'
<1> SUFFICES ASSUME GateIInv, [Gate!Next]_Gate!gate PROVE GateIInv'
  OBVIOUS
<1> USE DEF InTurn
<1>1. ASSUME NEW c \in Calls, Gate!Asks(c) PROVE GateIInv'
  <2>1. CASE queue' = Append(queue, c) /\ at' = [at EXCEPT ![c] = "queued"]
    <3>1. /\ Len(queue') = Len(queue) + 1 /\ queue' \in Seq(Calls)
          /\ \A i \in 1 .. Len(queue) : queue'[i] = queue[i]
          /\ queue'[Len(queue) + 1] = c
      BY <2>1 DEF GateIInv, GateTypeOK
    <3>2. \A i \in 1 .. Len(queue) : queue[i] # c
      BY <1>1 DEF Gate!Asks, GateIInv, Queued
    <3>3. GateTypeOK' /\ InTheirTurn'
      BY <1>1, <2>1, <3>1 DEF Gate!Asks, GateIInv, GateTypeOK, InTheirTurn
    <3>4. \A d \in Calls : at'[d] = IF d = c THEN "queued" ELSE at[d]
      BY <2>1 DEF GateIInv, GateTypeOK
    <3>5. \A i, j \in 1 .. Len(queue') : queue'[i] = queue'[j] => i = j
      BY <3>1, <3>2 DEF GateIInv, GateTypeOK, Queued
    <3>6. \A i \in 1 .. Len(queue') : at'[queue'[i]] \in InTurn
      BY <3>1, <3>4 DEF GateIInv, GateTypeOK, Queued
    <3>7. \A d \in Calls : at'[d] \in InTurn => \E i \in 1 .. Len(queue') : queue'[i] = d
      BY <3>1, <3>4 DEF GateIInv, GateTypeOK, Queued
    <3>8. \A d \in Calls : at'[d] \in {"purge", "statement"} => queue' # <<>> /\ queue'[1] = d
      BY <3>1, <3>4 DEF GateIInv, GateTypeOK, Queued
    <3> QED
      BY <3>3, <3>5, <3>6, <3>7, <3>8 DEF GateIInv, Queued
  <2>2. CASE queue' = queue /\ at' = [at EXCEPT ![c] = "answered"]
    BY <1>1, <2>2 DEF Gate!Asks, GateIInv, GateTypeOK, Queued, InTheirTurn
  <2> QED
    BY <1>1, <2>1, <2>2 DEF Gate!Asks
<1>2. ASSUME NEW c \in Calls, Gate!Begins(c) PROVE GateIInv'
  <2>1. queue # <<>> /\ queue[1] = c
    BY <1>2 DEF Gate!Begins, GateIInv, GateTypeOK, Queued
  <2>2. \A d \in Calls : at[d] \notin {"purge", "statement"}
    BY <1>2, <2>1 DEF Gate!Begins, GateIInv, Queued
  <2>3. GateTypeOK' /\ InTheirTurn'
    BY <1>2 DEF Gate!Begins, Gate!Runs, GateIInv, GateTypeOK, InTheirTurn
  <2>4. Queued'
    BY <1>2, <2>1, <2>2 DEF Gate!Begins, GateIInv, GateTypeOK, Queued
  <2> QED
    BY <2>3, <2>4 DEF GateIInv
<1>3. ASSUME NEW c \in Calls, Gate!Purged(c) PROVE GateIInv'
  <2>1. CASE Gate!Leaves(c, FALSE) /\ UNCHANGED timer
    <3>1. timer' = [timer EXCEPT ![c] = "none"]
      BY <1>3, <2>1 DEF Gate!Purged, GateIInv, GateTypeOK, InTheirTurn
    <3> QED
      BY <1>3, <2>1, <3>1, LeavesGate DEF Gate!Purged
  <2>2. CASE Gate!Runs(c) /\ at' = [at EXCEPT ![c] = "statement"] /\ timer' = [timer EXCEPT ![c] = "set"] /\ queue' = queue
    BY <1>3, <2>2 DEF Gate!Purged, Gate!Runs, GateIInv, GateTypeOK, Queued, InTheirTurn
  <2> QED
    BY <1>3, <2>1, <2>2 DEF Gate!Purged
<1>4. ASSUME NEW c \in Calls, Gate!Returns(c) PROVE GateIInv'
  <2>1. at[c] = "statement" /\ timer' = [timer EXCEPT ![c] = "none"]
    BY <1>4 DEF Gate!Returns
  <2>2. ASSUME Gate!Leaves(c, left[c] > 1) PROVE GateIInv'
    <3>1. (left[c] > 1) \in BOOLEAN
      OBVIOUS
    <3> QED
      BY <2>1, <2>2, <3>1, LeavesGate, Zenon
  <2>3. ASSUME Gate!Leaves(c, FALSE) PROVE GateIInv'
    BY <2>1, <2>3, LeavesGate
  <2> QED
    BY <1>4, <2>2, <2>3 DEF Gate!Returns
<1>5. ASSUME NEW c \in Calls, Gate!ReadReturns(c) PROVE GateIInv'
  <2>1. timer' = [timer EXCEPT ![c] = "none"]
    BY <1>5 DEF Gate!ReadReturns, Gate!Query, GateIInv, GateTypeOK, InTheirTurn
  <2> QED
    BY <1>5, <2>1, LeavesGate DEF Gate!ReadReturns
<1>6. ASSUME NEW c \in Calls, Gate!Ends(c) PROVE GateIInv'
  BY <1>6 DEF Gate!Ends, GateIInv, GateTypeOK, Queued, InTheirTurn
<1>7. ASSUME NEW c \in Calls, Gate!Fires(c) PROVE GateIInv'
  <2>1. \A d \in Calls : running[d] = "works" => d = c
    BY <1>7 DEF Gate!Fires, GateIInv, Queued, InTheirTurn
  <2>2. hit' \in [Calls -> SUBSET Calls] /\ \A d \in Calls : hit'[d] \subseteq {d}
    BY <1>7, <2>1 DEF Gate!Fires, GateIInv, GateTypeOK, InTheirTurn
  <2> QED
    BY <1>7, <2>2 DEF Gate!Fires, GateIInv, GateTypeOK, Queued, InTheirTurn
<1>8. CASE UNCHANGED Gate!gate
  BY <1>8 DEF Gate!gate, GateIInv, GateTypeOK, Queued, InTheirTurn
<1> QED
  BY <1>1, <1>2, <1>3, <1>4, <1>5, <1>6, <1>7, <1>8 DEF Gate!Next, Gate!Step

\* The turns suffice for the timers.
LEMMA TurnsSuffice == GateIInv => Gate!InterruptsItsOwn
<1> SUFFICES ASSUME GateIInv PROVE Gate!InterruptsItsOwn
  OBVIOUS
<1>1. \A c, d \in Calls : running[c] = "works" /\ running[d] = "works" => c = d
  BY DEF GateIInv, Queued, InTheirTurn
<1> QED
  BY <1>1 DEF GateIInv, InTheirTurn, Gate!InterruptsItsOwn
-----------------------------------------------------------------------------
(* The server.                                                              *)

\* A step of the server is one of the pool, or leaves it alone.
LEMMA PoolSteps == [ServerNext]_serverVars => [Next]_vars
  BY DEF ServerNext, PoolStep, CallStep, serverVars

\* What is proved of the pool holds of the server.
THEOREM ServerPools == ServerSpec => Spec
<1>1. ServerInit => Init
  BY DEF ServerInit
<1> QED
  BY <1>1, PoolSteps, PTL DEF ServerSpec, Spec

\* A request that has an engine has it until its task ends.
LEMMA UsingEnds ==
  ASSUME IInv, [Next]_vars, NEW r \in Requests
  PROVE  /\ req[r] = "using" => req'[r] \in {"using", "releasing"}
         /\ req[r] \in {"releasing", "done"} => req'[r] \in {"releasing", "done"}
<1> USE DEF IInv, TypeOK
<1>1. ASSUME NEW e \in Engines, HandOver(e)
      PROVE  req' = [req EXCEPT ![waiters[1]] = "using"] /\ req[waiters[1]] = "waiting" /\ waiters[1] \in Requests
  BY <1>1 DEF HandOver, Give, Queue
<1>2. ASSUME NEW q \in Requests, GiveUp(q) PROVE req[q] = "waiting" /\ req' = [req EXCEPT ![q] = "done"]
  BY <1>2 DEF GiveUp, Queue
<1>3. ASSUME NEW q \in Requests, Take(q) \/ Wait(q) \/ Refuse(q) \/ EndTask(q) \/ Release(q)
      PROVE  /\ req[r] = "using" => req'[r] \in {"using", "releasing"}
             /\ req[r] \in {"releasing", "done"} => req'[r] \in {"releasing", "done"}
  BY <1>3 DEF Take, Wait, Refuse, EndTask, Release, Give
<1>4. ASSUME NEW e \in Engines, Stock(e) \/ BuiltLate(e) \/ BuildFails(e) \/ Disposed(e) PROVE req' = req
  BY <1>4 DEF Stock, BuiltLate, BuildFails, Disposed
<1>5. CASE Retry \/ Closed \/ UNCHANGED vars
  BY <1>5 DEF Retry, Closed, vars
<1>6. CASE Close
  BY <1>6 DEF Close
<1> QED
  BY <1>1, <1>2, <1>3, <1>4, <1>5, <1>6 DEF Next, Settles

\* The calls are made while the engine is leased, and only then.
Served ==
  /\ GateIInv
  /\ req[Caller] # "using" => \A c \in Calls : at[c] \in {"off", "answered"}

\* No step breaks the turns of the calls, or ends the lease before them.
LEMMA NextServed == IInv /\ Served /\ [ServerNext]_serverVars => Served'
<1> SUFFICES ASSUME IInv, Served, [ServerNext]_serverVars PROVE Served'
  OBVIOUS
<1>1. CASE CallStep
  <2>1. GateIInv'
    BY <1>1, NextGate DEF CallStep, Served
  <2> QED
    BY <1>1, <2>1 DEF CallStep, Served, vars
<1>2. ASSUME UNCHANGED gate, [Next]_vars,
             req[Caller] = "using" /\ req'[Caller] = "releasing" => Gate!Answered
      PROVE  Served'
  <2>1. UNCHANGED Gate!gate
    BY <1>2 DEF gate, Gate!gate
  <2>2. GateIInv'
    BY <2>1, NextGate DEF Served
  <2>3. at' = at
    BY <1>2 DEF gate
  <2>4. req[Caller] = "using" => req'[Caller] \in {"using", "releasing"}
    BY <1>2, UsingEnds, ServerAssumption
  <2> QED
    BY <1>2, <2>2, <2>3, <2>4 DEF Served, Gate!Answered
<1>3. CASE PoolStep
  BY <1>2, <1>3 DEF PoolStep
<1>4. CASE UNCHANGED serverVars
  BY <1>2, <1>4 DEF serverVars, vars
<1> QED
  BY <1>1, <1>3, <1>4 DEF ServerNext

\* No timer stops a statement but its own, whatever becomes of the pool.
THEOREM TimersKeepTheirTurn == ServerSpec => []InterruptsItsOwn
<1>1. ServerInit => Served
  <2>1. Gate!Init => GateIInv
    BY InitGate
  <2> QED
    BY <2>1 DEF ServerInit, Served, Gate!Init
<1>2. Served => InterruptsItsOwn
  <2>1. GateIInv => Gate!InterruptsItsOwn
    BY TurnsSuffice
  <2> QED
    BY <2>1 DEF Served, InterruptsItsOwn, GateIInv, InTheirTurn
<1> QED
  BY <1>1, <1>2, NextServed, ServerPools, Invariance, PTL DEF ServerSpec
=============================================================================
