---------------------------- MODULE RunLockProofs ----------------------------
(* Proofs about RunLock, for any number of runs started at any time on any   *)
(* hosts, any sharing of output and working directories, and kills, failed   *)
(* writes and locks cleared by hand anywhere: two live runs hold one         *)
(* directory only after an unlink there that met another file than the one   *)
(* whose owner had been found dead.                                          *)
EXTENDS RunLock, TLAPS

Places == {"off", "gone", "dead"} \cup Acquiring \cup Holding \cup Releasing

TypeOK ==
  /\ path \in [Dir -> Run \cup {NoRun}]
  /\ written \in SUBSET (Run \X Dir)
  /\ pc \in [Run -> Places]
  /\ at \in [Run -> Dir]
  /\ seen \in [Run -> Run \cup {NoRun}]
  /\ claims \in [Run -> SUBSET Dir]
  /\ downloading \in SUBSET Run
  /\ revoked \in SUBSET Dir

\* Where nothing was revoked, what a live run has created or claimed is in the
\* directory; and it is its output or its working directory.
ClaimsAreFiles ==
  /\ \A r \in Run : \A d \in claims[r] \ revoked : Alive(r) => path[d] = r
  /\ \A r \in Run : pc[r] = "write" /\ at[r] \notin revoked => path[at[r]] = r
  /\ \A r \in Run : pc[r] \in {"check", "drop"} => at[r] \in claims[r]
  /\ \A r \in Run : at[r] \in {Out[r], Work[r]} /\ claims[r] \subseteq {Out[r], Work[r]}

\* Whoever has written a lock has been started; no run comes back from the dead.
WritersStarted ==
  /\ \A r \in Run, d \in Dir : <<r, d>> \in written => pc[r] # "off"
  /\ \A r \in Run : pc[r] = "off" => claims[r] = {}

\* A holder that was judged dead is, then and ever after: it is the pid of a
\* run of the same host that was started and has ended.
JudgedDead ==
  /\ \A r \in Run : pc[r] = "probe" =>
       seen[r] \in Run /\ pc[seen[r]] # "off" /\ Host[seen[r]] = Host[r]
  /\ \A r \in Run : pc[r] = "unlink" => seen[r] \in Run /\ pc[seen[r]] \in {"gone", "dead"}

\* Whoever sweeps or downloads has the lock of the working directory.
WorkClaimed ==
  /\ \A r \in Run : pc[r] \in {"sweep", "items"} => Work[r] \in claims[r]
  /\ \A r \in downloading : pc[r] \in {"items", "dead"}

IInv == TypeOK /\ ClaimsAreFiles /\ WritersStarted /\ JudgedDead /\ WorkClaimed

\* Before the first run there is no lock file.
LEMMA InitTypes == Init => TypeOK
  BY ConstantsAssumption DEF Init, TypeOK, Places

\* Every step keeps the types, whatever the runs share.
LEMMA NextTypes == TypeOK /\ [Next]_vars => TypeOK'
<1> SUFFICES ASSUME TypeOK, [Next]_vars PROVE TypeOK'
  OBVIOUS
<1> USE ConstantsAssumption DEF TypeOK, Places, Acquiring, Holding, Releasing, Goto, GiveUp
<1>1. ASSUME NEW r \in Run, Start(r) \/ Create(r) \/ Probe(r) \/ Unlink(r) \/ Recreate(r)
             \/ WriteFails(r) \/ NoCollections(r) \/ Report(r) \/ End(r) \/ Kill(r)
      PROVE TypeOK'
  BY <1>1 DEF Start, Create, Probe, Unlink, Recreate, WriteFails, NoCollections, Report, End, Kill
<1>2. ASSUME NEW r \in Run, ReadOwner(r) PROVE TypeOK'
  BY <1>2 DEF ReadOwner, Owner
<1>3. ASSUME NEW r \in Run, WriteOwner(r) PROVE TypeOK'
  BY <1>3 DEF WriteOwner
<1>4. ASSUME NEW r \in Run, NextLock(r) \/ Unwind(r) PROVE TypeOK'
  BY <1>4 DEF NextLock, Unwind
<1>5. ASSUME NEW r \in Run, Sweep(r) \/ BeginItem(r) \/ EndItem(r) PROVE TypeOK'
  BY <1>5 DEF Sweep, BeginItem, EndItem
<1>6. ASSUME NEW r \in Run, CheckOwner(r) \/ Drop(r) PROVE TypeOK'
  BY <1>6 DEF CheckOwner, Drop
<1>7. ASSUME NEW d \in Dir, ClearByHand(d) PROVE TypeOK'
  BY <1>7 DEF ClearByHand
<1>8. CASE UNCHANGED vars
  BY <1>8 DEF vars
<1> QED
  BY <1>1, <1>2, <1>3, <1>4, <1>5, <1>6, <1>7, <1>8 DEF Next, Step

\* The variables keep their types.
THEOREM TypeCorrect == Spec => []TypeOK
  BY InitTypes, NextTypes, PTL DEF Spec
-----------------------------------------------------------------------------
\* And nobody has judged or claimed anything.
LEMMA InitIInv == Init => IInv
<1> SUFFICES ASSUME Init PROVE IInv
  OBVIOUS
<1>1. ClaimsAreFiles /\ WritersStarted /\ JudgedDead /\ WorkClaimed
  BY ConstantsAssumption DEF Init, ClaimsAreFiles, WritersStarted, JudgedDead, WorkClaimed
<1> QED
  BY <1>1, InitTypes DEF IInv

\* Every step keeps the invariant.
LEMMA NextIInv == IInv /\ [Next]_vars => IInv'
<1> SUFFICES ASSUME IInv, [Next]_vars PROVE IInv'
  OBVIOUS
<1> USE ConstantsAssumption DEF Acquiring, Holding, Releasing, Goto, Alive
<1>0. TypeOK /\ TypeOK'
  BY NextTypes DEF IInv
<1>1. ClaimsAreFiles'
  <2> USE <1>0 DEF IInv, TypeOK, ClaimsAreFiles
  <2>1. ASSUME NEW r \in Run, Start(r) PROVE ClaimsAreFiles'
    BY <2>1 DEF Start, WritersStarted
  <2>2. ASSUME NEW r \in Run, Create(r) \/ Recreate(r) PROVE ClaimsAreFiles'
    BY <2>2 DEF Create, Recreate, GiveUp
  <2>3. ASSUME NEW r \in Run, ReadOwner(r) \/ Probe(r) \/ WriteFails(r) \/ NoCollections(r)
               \/ Report(r) \/ End(r) \/ Kill(r)
        PROVE ClaimsAreFiles'
    BY <2>3 DEF ReadOwner, Probe, WriteFails, NoCollections, Report, End, Kill, GiveUp
  <2>4. ASSUME NEW r \in Run, Unlink(r) PROVE ClaimsAreFiles'
    <3>1. at[r] \notin revoked' => path[at[r]] \in {NoRun, seen[r]}
      BY <2>4 DEF Unlink
    <3>2. seen[r] \in Run /\ ~Alive(seen[r])
      BY <2>4 DEF Unlink, JudgedDead
    <3>3. \A q \in Run : at[r] \notin revoked' /\ Alive(q) =>
            at[r] \notin claims[q] /\ ~(pc[q] = "write" /\ at[q] = at[r])
      BY <2>4, <3>1, <3>2 DEF Unlink
    <3> QED
      BY <2>4, <3>3 DEF Unlink
  <2>5. ASSUME NEW r \in Run, WriteOwner(r) PROVE ClaimsAreFiles'
    <3>1. at[r] \notin revoked => path[at[r]] = r
      BY <2>5 DEF WriteOwner
    <3>2. \A q \in Run : claims'[q] = IF q = r THEN claims[r] \cup {at[r]} ELSE claims[q]
      BY <2>5 DEF WriteOwner
    <3>3. \A q \in Run : pc'[q] = IF q = r THEN "next" ELSE pc[q]
      BY <2>5 DEF WriteOwner
    <3>4. pc[r] = "write" /\ path' = path /\ at' = at /\ revoked' = revoked
      BY <2>5 DEF WriteOwner
    <3> QED
      BY <3>1, <3>2, <3>3, <3>4
  <2>6. ASSUME NEW r \in Run, NextLock(r) \/ Unwind(r) PROVE ClaimsAreFiles'
    <3>1. CASE NextLock(r)
      BY <3>1 DEF NextLock
    <3>2. CASE Unwind(r)
      BY <3>2 DEF Unwind
    <3> QED
      BY <2>6, <3>1, <3>2
  <2>7. ASSUME NEW r \in Run, Sweep(r) \/ BeginItem(r) \/ EndItem(r) PROVE ClaimsAreFiles'
    BY <2>7 DEF Sweep, BeginItem, EndItem
  <2>8. ASSUME NEW r \in Run, CheckOwner(r) PROVE ClaimsAreFiles'
    <3>1. pc[r] = "check" /\ path' = path /\ at' = at /\ revoked' = revoked
      BY <2>8 DEF CheckOwner
    <3>2. CASE Owner(at[r]) = r
      <4>1. claims' = claims /\ pc' = [pc EXCEPT ![r] = "drop"]
        BY <2>8, <3>2 DEF CheckOwner
      <4> QED
        BY <3>1, <4>1
    <3>3. CASE Owner(at[r]) # r
      <4>1. claims' = [claims EXCEPT ![r] = @ \ {at[r]}] /\ pc' = [pc EXCEPT ![r] = "release"]
        BY <2>8, <3>3 DEF CheckOwner
      <4> QED
        BY <3>1, <4>1
    <3> QED
      BY <3>2, <3>3
  <2>9. ASSUME NEW r \in Run, Drop(r) PROVE ClaimsAreFiles'
    <3>1. at[r] \notin revoked => path[at[r]] = r
      BY <2>9 DEF Drop
    <3> QED
      BY <2>9, <3>1 DEF Drop
  <2>10. ASSUME NEW d \in Dir, ClearByHand(d) PROVE ClaimsAreFiles'
    BY <2>10 DEF ClearByHand
  <2>11. CASE UNCHANGED vars
    BY <2>11 DEF vars
  <2> QED
    BY <2>1, <2>2, <2>3, <2>4, <2>5, <2>6, <2>7, <2>8, <2>9, <2>10, <2>11 DEF Next, Step
<1>2. WritersStarted'
  <2> USE <1>0 DEF IInv, TypeOK, WritersStarted
  <2>1. ASSUME NEW r \in Run, Start(r) \/ Create(r) \/ Recreate(r) \/ Unlink(r) \/ WriteFails(r)
               \/ ReadOwner(r) \/ Probe(r) \/ NoCollections(r) \/ Report(r) \/ End(r) \/ Kill(r)
        PROVE WritersStarted'
    BY <2>1 DEF Start, Create, Recreate, Unlink, WriteFails, ReadOwner, Probe, NoCollections,
       Report, End, Kill, GiveUp
  <2>2. ASSUME NEW r \in Run, WriteOwner(r) PROVE WritersStarted'
    BY <2>2 DEF WriteOwner
  <2>3. ASSUME NEW r \in Run, NextLock(r) \/ Unwind(r) \/ CheckOwner(r) \/ Drop(r) PROVE WritersStarted'
    BY <2>3 DEF NextLock, Unwind, CheckOwner, Drop
  <2>4. ASSUME NEW r \in Run, Sweep(r) \/ BeginItem(r) \/ EndItem(r) PROVE WritersStarted'
    BY <2>4 DEF Sweep, BeginItem, EndItem
  <2>5. ASSUME NEW d \in Dir, ClearByHand(d) PROVE WritersStarted'
    BY <2>5 DEF ClearByHand
  <2>6. CASE UNCHANGED vars
    BY <2>6 DEF vars
  <2> QED
    BY <2>1, <2>2, <2>3, <2>4, <2>5, <2>6 DEF Next, Step
<1>3. JudgedDead'
  <2> USE <1>0 DEF IInv, TypeOK, JudgedDead
  <2>0. ASSUME NEW r \in Run, pc[r] \notin {"gone", "dead"}, pc'[r] # "off",
               \A q \in Run : q # r => pc'[q] = pc[q] /\ seen'[q] = seen[q],
               pc'[r] = "probe" => /\ seen'[r] \in Run /\ pc[seen'[r]] # "off"
                                   /\ Host[seen'[r]] = Host[r],
               pc'[r] = "unlink" => seen'[r] \in Run \ {r} /\ pc[seen'[r]] \in {"gone", "dead"}
        PROVE JudgedDead'
    <3>1. \A q \in Run : pc[q] # "off" => pc'[q] # "off"
      BY <2>0
    <3>2. \A q \in Run : pc[q] \in {"gone", "dead"} => pc'[q] \in {"gone", "dead"}
      BY <2>0
    <3>3. ASSUME NEW q \in Run, pc'[q] = "probe"
          PROVE seen'[q] \in Run /\ pc'[seen'[q]] # "off" /\ Host[seen'[q]] = Host[q]
      BY <2>0, <3>1, <3>3
    <3>4. ASSUME NEW q \in Run, pc'[q] = "unlink"
          PROVE seen'[q] \in Run /\ pc'[seen'[q]] \in {"gone", "dead"}
      BY <2>0, <3>2, <3>4
    <3> QED
      BY <3>3, <3>4
  <2>1. ASSUME NEW r \in Run, Start(r) \/ Create(r) \/ Recreate(r) \/ Unlink(r) \/ WriteOwner(r) \/ WriteFails(r)
        PROVE JudgedDead'
    <3>1. pc[r] \notin {"gone", "dead"} /\ pc'[r] \notin {"off", "probe", "unlink"} /\ seen' = seen
      BY <2>1 DEF Start, Create, Recreate, Unlink, WriteOwner, WriteFails, GiveUp
    <3>2. \A q \in Run : q # r => pc'[q] = pc[q]
      BY <2>1 DEF Start, Create, Recreate, Unlink, WriteOwner, WriteFails, GiveUp
    <3> QED
      BY <2>0, <3>1, <3>2
  <2>2. ASSUME NEW r \in Run, ReadOwner(r) PROVE JudgedDead'
    <3>1. pc[r] = "read" /\ pc'[r] \in {"release", "probe"}
      BY <2>2 DEF ReadOwner, GiveUp
    <3>2. \A q \in Run : q # r => pc'[q] = pc[q] /\ seen'[q] = seen[q]
      BY <2>2 DEF ReadOwner, GiveUp
    <3>3. pc'[r] = "probe" => /\ seen'[r] \in Run /\ Host[seen'[r]] = Host[r]
                              /\ <<seen'[r], at[r]>> \in written
      BY <2>2 DEF ReadOwner, Owner, GiveUp
    <3>4. pc'[r] = "probe" => pc[seen'[r]] # "off"
      BY <3>3 DEF WritersStarted
    <3> QED
      BY <2>0, <3>1, <3>2, <3>3, <3>4
  <2>3. ASSUME NEW r \in Run, Probe(r) PROVE JudgedDead'
    <3>1. pc[r] = "probe" /\ pc'[r] \in {"release", "unlink"} /\ seen' = seen
      BY <2>3 DEF Probe, GiveUp
    <3>2. \A q \in Run : q # r => pc'[q] = pc[q]
      BY <2>3 DEF Probe, GiveUp
    <3>3. pc'[r] = "unlink" => seen[r] # r /\ pc[seen[r]] \in {"gone", "dead"}
      BY <2>3 DEF Probe, GiveUp
    <3> QED
      BY <2>0, <3>1, <3>2, <3>3
  <2>4. ASSUME NEW r \in Run, NextLock(r) \/ NoCollections(r) \/ Sweep(r) \/ BeginItem(r) \/ EndItem(r)
               \/ Report(r) \/ End(r) \/ Unwind(r) \/ CheckOwner(r) \/ Drop(r) \/ Kill(r)
        PROVE JudgedDead'
    BY <2>4 DEF NextLock, NoCollections, Sweep, BeginItem, EndItem, Report, End, Unwind, CheckOwner, Drop, Kill, GiveUp
  <2>5. ASSUME NEW d \in Dir, ClearByHand(d) PROVE JudgedDead'
    BY <2>5 DEF ClearByHand
  <2>6. CASE UNCHANGED vars
    BY <2>6 DEF vars
  <2> QED
    BY <2>1, <2>2, <2>3, <2>4, <2>5, <2>6 DEF Next, Step
<1>4. WorkClaimed'
  <2> USE <1>0 DEF IInv, TypeOK, WorkClaimed
  <2>1. ASSUME NEW r \in Run, Start(r) \/ Create(r) \/ Recreate(r) \/ Unlink(r) \/ WriteFails(r)
               \/ ReadOwner(r) \/ Probe(r) \/ NoCollections(r) \/ Report(r) \/ End(r) \/ Unwind(r) \/ Kill(r)
        PROVE WorkClaimed'
    BY <2>1 DEF Start, Create, Recreate, Unlink, WriteFails, ReadOwner, Probe, NoCollections,
       Report, End, Unwind, Kill, GiveUp
  <2>2. ASSUME NEW r \in Run, WriteOwner(r) \/ NextLock(r) PROVE WorkClaimed'
    BY <2>2 DEF WriteOwner, NextLock
  <2>3. ASSUME NEW r \in Run, Sweep(r) \/ BeginItem(r) \/ EndItem(r) PROVE WorkClaimed'
    BY <2>3 DEF Sweep, BeginItem, EndItem
  <2>4. ASSUME NEW r \in Run, CheckOwner(r) \/ Drop(r) PROVE WorkClaimed'
    BY <2>4 DEF CheckOwner, Drop
  <2>5. ASSUME NEW d \in Dir, ClearByHand(d) PROVE WorkClaimed'
    BY <2>5 DEF ClearByHand
  <2>6. CASE UNCHANGED vars
    BY <2>6 DEF vars
  <2> QED
    BY <2>1, <2>2, <2>3, <2>4, <2>5, <2>6 DEF Next, Step
<1> QED
  BY <1>0, <1>1, <1>2, <1>3, <1>4 DEF IInv

\* Whatever runs start together, at most one live run holds a directory in
\* which no unlink met another file than the one judged: the staleness of that
\* judgement is the only flaw of the locks.
THEOREM LocksExclude == Spec => []OneHolderUnlessRevoked
<1>1. IInv => OneHolderUnlessRevoked
  <2> SUFFICES ASSUME IInv, NEW d \in Dir \ revoked, NEW r \in Run, NEW q \in Run, Holds(r, d), Holds(q, d)
               PROVE r = q
    BY DEF OneHolderUnlessRevoked
  <2>1. d \in claims[r] /\ Alive(r) /\ d \in claims[q] /\ Alive(q)
    BY DEF Holds
  <2>2. path[d] = r
    BY <2>1 DEF IInv, ClaimsAreFiles
  <2>3. path[d] = q
    BY <2>1 DEF IInv, ClaimsAreFiles
  <2> QED
    BY <2>2, <2>3
<1> QED
  BY <1>1, InitIInv, NextIInv, PTL DEF Spec

\* What a run sweeps away then belongs to a dead run.
THEOREM SweepsAreSafe == Spec => []SweepsOnlyAbandoned
<1>1. IInv => SweepsOnlyAbandoned
  <2> SUFFICES ASSUME IInv, NEW r \in Run, pc[r] = "sweep", Work[r] \notin revoked,
                      NEW q \in downloading, Work[q] = Work[r], Alive(q)
               PROVE FALSE
    BY DEF SweepsOnlyAbandoned
  <2>1. q \in Run /\ pc[q] = "items"
    BY DEF IInv, TypeOK, WorkClaimed, Alive
  <2>2. path[Work[r]] = q
    BY <2>1 DEF IInv, WorkClaimed, ClaimsAreFiles
  <2>3. path[Work[r]] = r
    BY DEF IInv, WorkClaimed, ClaimsAreFiles, Alive
  <2> QED
    BY <2>1, <2>2, <2>3
<1> QED
  BY <1>1, InitIInv, NextIInv, PTL DEF Spec
=============================================================================
