-------------------------- MODULE PartitionProofs --------------------------
(***************************************************************************)
(* Proofs about Partition, for any number of features, any references and  *)
(* specs, and any number of conversions: the union-find gives every        *)
(* feature the first label of its component, and a conversion replaces all *)
(* of the packages or none.                                                *)
(***************************************************************************)
EXTENDS Partition, FiniteSetTheorems, WellFoundedInduction, TLAPS

-----------------------------------------------------------------------------
(* Least numbers, and the labels a spec gives out.                          *)

\* A set of numbers that has one has a least one.
LEMMA LeastNumber ==
  ASSUME NEW S \in SUBSET Nat, S # {}
  PROVE  \E m \in S : \A k \in S : m =< k
<1>1. PICK m \in S : \A k \in S : ~ (<<k, m>> \in OpToRel(<, Nat))
  BY WFMin, NatLessThanWellFounded
<1>2. \A k \in S : <<k, m>> \in OpToRel(<, Nat) <=> k < m
  BY DEF OpToRel
<1>3. ASSUME NEW k \in S PROVE m =< k
  <2>1. m \in Nat /\ k \in Nat
    OBVIOUS
  <2>2. ~ (k < m)
    BY <1>1, <1>2
  <2> QED
    BY <2>1, <2>2
<1> QED
  BY <1>3

\* Min finds it.
LEMMA MinIsLeast ==
  ASSUME NEW S \in SUBSET Nat, S # {}
  PROVE  Min(S) \in S /\ \A k \in S : Min(S) =< k
<1>1. \E m \in S : \A k \in S : m =< k
  BY LeastNumber
<1> QED
  BY <1>1 DEF Min

\* One, or the number if it is larger.
LEMMA MaxWithOne ==
  ASSUME NEW n \in Nat
  PROVE  Max({1, n}) = IF n > 1 THEN n ELSE 1
<1>1. \E m \in {1, n} : \A k \in {1, n} : m >= k
  OBVIOUS
<1>2. Max({1, n}) \in {1, n} /\ \A k \in {1, n} : Max({1, n}) >= k
  BY <1>1 DEF Max
<1> QED
  BY <1>2

\* i * m \div n stays below n.
LEMMA Share ==
  ASSUME NEW n \in Nat \ {0}, NEW m \in 1..n, NEW i \in 0..(n - 1)
  PROVE  (i * m) \div n \in 0..(n - 1)
<1>1. i * m \in Nat /\ i * m =< i * n
  OBVIOUS
<1>2. i * n < n * n
  OBVIOUS
<1> DEFINE x == i * m
           q == x \div n
<1>3. x \in Nat /\ x < n * n
  BY <1>1, <1>2
<1> HIDE DEF x
<1>4. q \in Nat /\ n * q =< x
  BY <1>3
<1> HIDE DEF q
<1>5. q < n
  BY <1>3, <1>4
<1> QED
  BY <1>4, <1>5 DEF q, x
-----------------------------------------------------------------------------
(* The trees of the union-find.  top[i] is the root of i's tree; rank falls *)
(* on the way up, so that there is no cycle.                                *)

\* Induction, by the least number at which it would fail.
LEMMA StepByStep ==
  ASSUME NEW n \in Nat, NEW S, 0 \in S, \A k \in 0..(n - 1) : k \in S => k + 1 \in S
  PROVE  0..n \subseteq S
<1> DEFINE T == (0..n) \ S
<1>1. SUFFICES ASSUME T # {} PROVE FALSE
  OBVIOUS
<1>2. PICK m \in T : \A k \in T : m =< k
  <2>1. T \in SUBSET Nat
    OBVIOUS
  <2> QED
    BY <1>1, <2>1, LeastNumber
<1>3. m \in 0..n /\ m \notin S /\ m # 0
  BY <1>2
<1>4. m - 1 \in 0..(n - 1) /\ m - 1 \notin T
  BY <1>2, <1>3
<1> QED
  BY <1>3, <1>4

\* Climb, which is defined by recursion, is the way up that its equations say.
LEMMA ClimbIs ==
  ASSUME PartitionAssumption, parent \in [Features -> Features], NEW i \in Features
  PROVE  /\ Climb(i) \in [0..N -> Features]
         /\ Climb(i)[0] = i
         /\ \A k \in 0..(N - 1) : Climb(i)[k + 1] = parent[Climb(i)[k]]
<1> DEFINE Goes(f, n) == f[0] = i /\ \A k \in 0..(n - 1) : f[k + 1] = parent[f[k]]
           S == {n \in 0..N : \E f \in [0..n -> Features] : Goes(f, n)}
           Eq(f) == f = [k \in 0..N |-> IF k = 0 THEN i ELSE parent[f[k - 1]]]
<1>0. N \in Nat
  BY DEF PartitionAssumption
<1>1. 0 \in S
  <2> DEFINE f == [k \in 0..0 |-> i]
  <2>1. f \in [0..0 -> Features] /\ Goes(f, 0)
    OBVIOUS
  <2>2. 0 \in 0..N
    BY <1>0
  <2> HIDE DEF f, Goes
  <2> QED
    BY <2>1, <2>2
<1>2. ASSUME NEW n \in 0..(N - 1), n \in S PROVE n + 1 \in S
  <2>1. PICK f \in [0..n -> Features] : Goes(f, n)
    BY <1>2
  <2> DEFINE g == [k \in 0..(n + 1) |-> IF k = n + 1 THEN parent[f[n]] ELSE f[k]]
  <2>2. n \in Nat /\ n + 1 \in 0..N
    BY <1>0
  <2>3. g \in [0..(n + 1) -> Features]
    BY <2>1, <2>2
  <2>4. Goes(g, n + 1)
    <3>1. g[0] = i
      BY <2>1, <2>2
    <3>2. ASSUME NEW k \in 0..n PROVE g[k + 1] = parent[g[k]]
      BY <2>1, <2>2
    <3>3. (n + 1) - 1 = n
      BY <2>2
    <3> HIDE DEF g
    <3> QED
      BY <3>1, <3>2, <3>3
  <2> HIDE DEF g, Goes
  <2> QED
    BY <2>2, <2>3, <2>4
<1>3. PICK f \in [0..N -> Features] : Goes(f, N)
  <2> HIDE DEF S
  <2>1. N \in S
    BY <1>0, <1>1, <1>2, StepByStep
  <2> QED
    BY <2>1 DEF S
<1>4. Eq(f)
  <2> DEFINE g == [k \in 0..N |-> IF k = 0 THEN i ELSE parent[f[k - 1]]]
  <2>1. ASSUME NEW k \in 0..N PROVE f[k] = g[k]
    <3>1. CASE k = 0
      BY <1>3, <3>1
    <3>2. CASE k # 0
      <4>1. k - 1 \in 0..(N - 1) /\ (k - 1) + 1 = k
        BY <1>0, <3>2
      <4> QED
        BY <1>3, <3>2, <4>1
    <3> QED
      BY <3>1, <3>2
  <2> QED
    BY <1>3, <2>1
<1>5. Climb(i) = CHOOSE h : Eq(h)
  BY DEF Climb
<1>6. Eq(Climb(i))
  <2> HIDE DEF Eq
  <2> QED
    BY <1>4, <1>5
<1> DEFINE up == Climb(i)
<1> HIDE DEF up
<1>7. \A k \in 0..N : up[k] = IF k = 0 THEN i ELSE parent[up[k - 1]]
  BY <1>6 DEF up
<1>8. up[0] = i /\ \A k \in 0..(N - 1) : up[k + 1] = parent[up[k]]
  BY <1>0, <1>7
<1>9. \A k \in 0..N : up[k] \in Features
  <2> DEFINE R == {k \in 0..N : up[k] \in Features}
  <2>1. 0 \in R
    BY <1>0, <1>8
  <2>2. \A k \in 0..(N - 1) : k \in R => k + 1 \in R
    BY <1>0, <1>8
  <2> HIDE DEF R
  <2>3. 0..N \subseteq R
    BY <1>0, <2>1, <2>2, StepByStep
  <2> QED
    BY <2>3 DEF R
<1>10. DOMAIN up = 0..N /\ up = [k \in 0..N |-> up[k]]
  BY <1>6 DEF up
<1> QED
  BY <1>8, <1>9, <1>10 DEF up

\* Every tree ends in a root, and parents are below their children's ranks.
Trees(top, rank) ==
  \A i \in Features :
    /\ parent[top[i]] = top[i]
    /\ top[parent[i]] = top[i]
    /\ parent[i] = i => top[i] = i
    /\ parent[i] # i => rank[parent[i]] < rank[i]

\* N steps visit some feature twice.
LEMMA TwiceVisited ==
  ASSUME PartitionAssumption, NEW f \in [0..N -> Features]
  PROVE  \E j, k \in 0..N : j # k /\ f[j] = f[k]
<1>0. N \in Nat /\ 0 \in Int /\ N \in Int /\ N - 1 \in Int /\ ~ (0 > N)
  BY DEF PartitionAssumption
<1>1. IsFiniteSet(0..N) /\ Cardinality(0..N) = N - 0 + 1
  BY <1>0, FS_Interval
<1>2. IsFiniteSet(Features) /\ Cardinality(Features) = IF 0 > N - 1 THEN 0 ELSE (N - 1) - 0 + 1
  BY <1>0, FS_Interval DEF Features
<1>3. Cardinality(Features) < Cardinality(0..N)
  BY <1>0, <1>1, <1>2
<1> QED
  BY <1>1, <1>2, <1>3, FS_PigeonHole

\* N steps up lead to the root: on a longer way a feature would come twice.
LEMMA RootIsTop ==
  ASSUME PartitionAssumption, parent \in [Features -> Features],
         NEW top \in [Features -> Features], NEW rank \in [Features -> Nat], Trees(top, rank)
  PROVE  Root = top
<1>0. N \in Nat /\ N \in 0..N
  BY DEF PartitionAssumption
<1>1. ASSUME NEW i \in Features PROVE Climb(i)[N] = top[i]
  <2> DEFINE up == Climb(i)
  <2>1. /\ up \in [0..N -> Features]
        /\ up[0] = i
        /\ \A k \in 0..(N - 1) : up[k + 1] = parent[up[k]]
    BY ClimbIs
  <2> HIDE DEF up
  <2>2. \A k \in 0..N : top[up[k]] = top[i]
    <3> DEFINE R == {k \in 0..N : top[up[k]] = top[i]}
    <3>1. 0 \in R
      BY <1>0, <2>1
    <3>2. ASSUME NEW k \in 0..(N - 1), k \in R PROVE k + 1 \in R
      <4>1. k \in 0..N /\ k + 1 \in 0..N /\ up[k] \in Features
        BY <1>0, <2>1
      <4>2. top[parent[up[k]]] = top[up[k]]
        BY <4>1 DEF Trees
      <4> QED
        BY <2>1, <3>2, <4>1, <4>2
    <3> HIDE DEF R
    <3>3. 0..N \subseteq R
      BY <1>0, <3>1, <3>2, StepByStep
    <3> QED
      BY <3>3 DEF R
  <2>3. ASSUME parent[up[N]] # up[N] PROVE FALSE
    <3> DEFINE R == {k \in 0..N : \A j \in 0..N : j < k => rank[up[k]] < rank[up[j]]}
    <3>1. \A k \in 0..N : parent[up[k]] # up[k]
      <4> SUFFICES ASSUME NEW k \in 0..N, parent[up[k]] = up[k] PROVE FALSE
        OBVIOUS
      <4> DEFINE Q == {m \in 0..N : m >= k => up[m] = up[k]}
      <4>1. 0 \in Q
        BY <1>0
      <4>2. ASSUME NEW m \in 0..(N - 1), m \in Q PROVE m + 1 \in Q
        BY <1>0, <2>1, <4>2
      <4> HIDE DEF Q
      <4>3. 0..N \subseteq Q
        BY <1>0, <4>1, <4>2, StepByStep
      <4>4. up[N] = up[k]
        BY <1>0, <4>3 DEF Q
      <4> QED
        BY <2>3, <4>4
    <3>2. 0 \in R
      BY <1>0
    <3>3. ASSUME NEW k \in 0..(N - 1), k \in R PROVE k + 1 \in R
      <4>1. k \in 0..N /\ k + 1 \in 0..N /\ up[k] \in Features /\ up[k + 1] \in Features
        BY <1>0, <2>1
      <4>2. rank[up[k + 1]] < rank[up[k]]
        BY <2>1, <3>1, <4>1 DEF Trees
      <4>3. ASSUME NEW j \in 0..N, j < k + 1 PROVE rank[up[k + 1]] < rank[up[j]]
        <5>1. j = k \/ rank[up[k]] < rank[up[j]]
          BY <1>0, <3>3, <4>3
        <5>2. up[j] \in Features
          BY <2>1
        <5> QED
          BY <4>1, <4>2, <5>1, <5>2
      <4> QED
        BY <4>1, <4>3
    <3> HIDE DEF R
    <3>4. 0..N \subseteq R
      BY <1>0, <3>2, <3>3, StepByStep
    <3>5. \A j, k \in 0..N : j < k => up[j] # up[k]
      <4> SUFFICES ASSUME NEW j \in 0..N, NEW k \in 0..N, j < k PROVE up[j] # up[k]
        OBVIOUS
      <4>1. rank[up[k]] < rank[up[j]] /\ rank[up[k]] \in Nat
        BY <2>1, <3>4 DEF R
      <4> QED
        BY <4>1
    <3>7. \E j, k \in 0..N : j # k /\ up[j] = up[k]
      BY <2>1, TwiceVisited
    <3>8. PICK j \in 0..N, k \in 0..N : j # k /\ up[j] = up[k]
      BY <3>7
    <3>9. j < k \/ k < j
      BY <3>8
    <3> QED
      BY <3>5, <3>8, <3>9
  <2>4. up[N] \in Features /\ parent[up[N]] = up[N]
    BY <1>0, <2>1, <2>3
  <2>5. top[up[N]] = up[N] /\ top[up[N]] = top[i]
    BY <1>0, <2>2, <2>4 DEF Trees
  <2> QED
    BY <2>5 DEF up
<1> QED
  BY <1>1 DEF Root
-----------------------------------------------------------------------------
(* Linked is the equivalence the references generate.                       *)

\* Linked is reflexive, symmetric and transitive.
LEMMA LinkedIsEquivalence ==
  ASSUME NEW e
  PROVE  /\ \A i \in Features : Linked(e, i, i)
         /\ \A i, j \in Features : Linked(e, i, j) => Linked(e, j, i)
         /\ \A i, j, k \in Features : Linked(e, i, j) /\ Linked(e, j, k) => Linked(e, i, k)
  BY DEF Linked

\* A reference that can be resolved links its two ends.
LEMMA ReferenceLinks ==
  ASSUME NEW e, NEW r \in e, r[2] # Nowhere
  PROVE  Linked(e, r[1], r[2])
  BY DEF Linked

\* Features that no tree parts and every reference keeps in one tree: linked
\* means in one tree.
LEMMA LinkedIsTogether ==
  ASSUME NEW e, NEW top \in [Features -> Features],
         \A r \in e : r[2] # Nowhere => r[1] \in Features /\ r[2] \in Features /\ top[r[1]] = top[r[2]],
         NEW i \in Features, NEW j \in Features, Linked(e, i, j)
  PROVE  top[i] = top[j]
<1> DEFINE s == {k \in Features : top[k] = top[i]}
<1>1. s \in SUBSET Features /\ i \in s
  OBVIOUS
<1>2. \A r \in e : r[2] # Nowhere => (r[1] \in s <=> r[2] \in s)
  OBVIOUS
<1> HIDE DEF s
<1>3. j \in s
  BY <1>1, <1>2 DEF Linked
<1> QED
  BY <1>3 DEF s
-----------------------------------------------------------------------------
(* The invariant.                                                           *)

Fresh == {"ready", "scan", "purge"}
Joining == {"find_a", "find_b", "link"}
Repairing == {"refs"} \cup Joining
Package == [by : 0..MaxRuns, whole : BOOLEAN]

TypeOK ==
  /\ pc \in {"idle", "write", "done", "rejected", "failed"} \cup Fresh \cup Repairing
  /\ run \in 0..MaxRuns /\ overwrite \in BOOLEAN
  /\ disk \in [Names -> Package] /\ before \in [Names -> Package]
  /\ stale \subseteq Labels /\ pending \subseteq Labels
  /\ spec \in Specs \cup {NoSpec}
  /\ refs \in Inputs \cup {{}} /\ todo \subseteq refs
  /\ a \in Features /\ b \in Features
  /\ parent \in [Features -> Features] /\ size \in [Features -> Nat]
  /\ label \in [Features -> Labels]
  /\ moved \in Nat /\ unresolvable \in Nat

Chosen == {label[i] : i \in Features}

\* What lies on disk in each phase: nothing is touched before the scan has
\* succeeded, everything is gone before the first package is written.
DiskInv ==
  /\ disk[Foreign] = ForeignDir
  /\ pc \in {"ready", "scan", "rejected"} => disk = before
  /\ pc \in {"scan", "purge"} => PartitionDirs \subseteq stale
  /\ pc \in Repairing => PartitionDirs = {}
  /\ pc \in {"write", "done"} =>
       \A n \in Labels :
         disk[n] = IF n \in Chosen \ pending THEN [by |-> run, whole |-> TRUE] ELSE NoDir
  /\ pc = "write" => pending \subseteq Chosen
  /\ pc = "done" => pending = {}

\* The trees join what the references looked at so far link, and no more; the
\* cursors of the one being looked at are in the trees of its two ends.
Joined(top) ==
  /\ \A i, j \in Features : top[i] = top[j] => Linked(refs, i, j)
  /\ \A r \in refs \ todo :
       r[2] # Nowhere => top[r[1]] = top[r[2]] \/ (pc \in Joining /\ r = edge)
  /\ pc \in Joining => /\ edge \in refs /\ edge[2] # Nowhere
                       /\ top[a] = top[edge[1]] /\ top[b] = top[edge[2]]
  /\ pc \in {"find_b", "link"} => parent[a] = a
  /\ pc = "link" => parent[b] = b

Unresolved(e) == Cardinality({r \in e : r[2] = Nowhere})

RepairInv ==
  /\ pc \in Fresh => parent = Alone /\ unresolvable = 0
  /\ pc \in Repairing =>
       /\ label = Assigned(spec)
       /\ unresolvable = Unresolved(refs \ todo)
       /\ \E top \in [Features -> Features], rank \in [Features -> Nat] : Trees(top, rank) /\ Joined(top)
  /\ RepairIsLeast

IInv == TypeOK /\ DiskInv /\ RepairInv
-----------------------------------------------------------------------------
(* The constants.                                                           *)

\* Features and labels are finite sets of numbers; the two markers are neither.
LEMMA FeaturesFinite ==
  ASSUME PartitionAssumption
  PROVE  /\ N \in Nat /\ 0 \in Features /\ 0 \in Labels
         /\ Features \in SUBSET Nat /\ Labels \in SUBSET Nat /\ Features \subseteq Labels
         /\ Nowhere \notin Features /\ Foreign \notin Labels /\ Foreign \in Names /\ Labels \subseteq Names
         /\ IsFiniteSet(Features)
<1>1. IsFiniteSet(Features)
  BY FS_Interval DEF Features, PartitionAssumption
<1> QED
  BY <1>1 DEF PartitionAssumption, Features, Labels, Nowhere, Foreign, Names

\* A dataset has finitely many references, each from a feature.
LEMMA ReferencesFinite ==
  ASSUME PartitionAssumption, NEW e \in Inputs \cup {{}}
  PROVE  e \subseteq Features \X (Features \cup {Nowhere}) /\ IsFiniteSet(e)
<1>1. e \subseteq Features \X (Features \cup {Nowhere})
  BY DEF PartitionAssumption
<1>2. IsFiniteSet(Features \cup {Nowhere}) /\ IsFiniteSet(Features)
  BY FeaturesFinite, FS_AddElement
<1>3. IsFiniteSet(Features \X (Features \cup {Nowhere}))
  BY <1>2, FS_Product
<1> QED
  BY <1>1, <1>3, FS_Subset

\* Features can be counted.
LEMMA Counted ==
  ASSUME PartitionAssumption, NEW S \in SUBSET Features
  PROVE  Cardinality(S) \in Nat
  BY FeaturesFinite, FS_Subset, FS_CardinalityType

\* assign_partitions gives every feature a label.
LEMMA AssignedLabels ==
  ASSUME PartitionAssumption, NEW s \in Specs
  PROVE  Assigned(s) \in [Features -> Labels]
<1> SUFFICES ASSUME NEW i \in Features PROVE Assigned(s)[i] \in Labels
  BY DEF Assigned
<1>0. i \in Nat /\ i < N /\ N \in Nat /\ N # 0 /\ N =< MaxLabel + 1 /\ MaxLabel \in Nat
  BY DEF Features, PartitionAssumption
<1>1. CASE s.kind = "count"
  <2> DEFINE m == Max({1, Min({s.n, N})})
  <2>1. s.n \in Nat
    BY <1>1 DEF PartitionAssumption
  <2>2. Min({s.n, N}) \in {s.n, N} /\ Min({s.n, N}) =< N
    BY <1>0, <2>1, MinIsLeast
  <2>3. m \in 1..N
    BY <1>0, <2>1, <2>2, MaxWithOne
  <2> HIDE DEF m
  <2>4. (i * m) \div N \in 0..(N - 1)
    <3>1. N \in Nat \ {0} /\ i \in 0..(N - 1)
      BY <1>0
    <3> QED
      BY <2>3, <3>1, Share
  <2>5. Assigned(s)[i] = (i * m) \div N
    BY <1>1 DEF Assigned, m
  <2> QED
    BY <1>0, <2>4, <2>5 DEF Labels
<1>2. CASE s.kind = "features"
  <2> DEFINE m == Max({1, s.n})
  <2>1. s.n \in Nat
    BY <1>2 DEF PartitionAssumption
  <2>2. m \in Nat /\ m >= 1
    BY <2>1, MaxWithOne
  <2> HIDE DEF m
  <2>3. i \div m \in Nat /\ i \div m =< i
    BY <1>0, <2>2
  <2>4. Assigned(s)[i] = i \div m
    BY <1>2 DEF Assigned, m
  <2> QED
    BY <1>0, <2>3, <2>4 DEF Labels
<1>3. CASE s.kind \notin {"count", "features"}
  <2>1. s.cell \in [Features -> Labels]
    BY <1>3 DEF PartitionAssumption
  <2> QED
    BY <1>3, <2>1 DEF Assigned
<1> QED
  BY <1>1, <1>2, <1>3

\* The first label of the members of a component is one of theirs.
LEMMA FirstLabel ==
  ASSUME PartitionAssumption, TypeOK, NEW S \in SUBSET Features, S # {}
  PROVE  Min({label[j] : j \in S}) \in Labels /\ \E k \in S : Min({label[j] : j \in S}) = label[k]
<1> DEFINE T == {label[j] : j \in S}
<1>1. T \in SUBSET Nat /\ T # {} /\ T \subseteq Labels
  BY FeaturesFinite DEF TypeOK
<1>2. Min(T) \in T
  BY <1>1, MinIsLeast
<1> QED
  BY <1>1, <1>2

\* The next package to write is one of those pending.
LEMMA FirstPending ==
  ASSUME PartitionAssumption, TypeOK, pending # {}
  PROVE  Min(pending) \in pending /\ Min(pending) \in Labels /\ Min(pending) \in Names
<1>1. pending \in SUBSET Nat
  BY FeaturesFinite DEF TypeOK
<1> QED
  BY <1>1, MinIsLeast, FeaturesFinite DEF TypeOK
-----------------------------------------------------------------------------
(* Types.                                                                   *)

\* What a conversion starts from is of the right type.
LEMMA ForgetTypes ==
  ASSUME PartitionAssumption, Forget
  PROVE  /\ stale' \subseteq Labels /\ pending' \subseteq Labels
         /\ spec' \in Specs \cup {NoSpec} /\ refs' \in Inputs \cup {{}} /\ todo' \subseteq refs'
         /\ a' \in Features /\ b' \in Features
         /\ parent' \in [Features -> Features] /\ size' \in [Features -> Nat]
         /\ label' \in [Features -> Labels]
         /\ moved' \in Nat /\ unresolvable' \in Nat
  BY FeaturesFinite DEF Forget, Alone, Ones

\* The first state has the right types.
LEMMA InitTypes ==
  ASSUME PartitionAssumption, Init
  PROVE  TypeOK
<1>1. [n \in Names |-> IF n = Foreign THEN ForeignDir ELSE NoDir] \in [Names -> Package]
  BY DEF ForeignDir, NoDir, Package, PartitionAssumption
<1>2. disk \in [Names -> Package] /\ before \in [Names -> Package]
  BY <1>1 DEF Init
<1>3. run \in 0..MaxRuns /\ parent \in [Features -> Features] /\ size \in [Features -> Nat]
  BY DEF Init, Alone, Ones, PartitionAssumption
<1>4. label \in [Features -> Labels] /\ a \in Features /\ b \in Features
  BY FeaturesFinite DEF Init
<1> QED
  BY <1>2, <1>3, <1>4 DEF Init, TypeOK

\* What becomes of a package that is removed, cut off or written.
LEMMA PackageKinds ==
  ASSUME PartitionAssumption, TypeOK, NEW n \in Names
  PROVE  /\ [disk EXCEPT ![n] = NoDir] \in [Names -> Package]
         /\ [disk EXCEPT ![n].whole = FALSE] \in [Names -> Package]
         /\ \A w \in BOOLEAN : [disk EXCEPT ![n] = [by |-> run, whole |-> w]] \in [Names -> Package]
<1>1. NoDir \in Package
  BY DEF NoDir, Package, PartitionAssumption
<1>2. [disk[n] EXCEPT !.whole = FALSE] \in Package
  <2>1. disk[n] \in Package
    BY DEF TypeOK
  <2> QED
    BY <2>1 DEF Package
<1>3. \A w \in BOOLEAN : [by |-> run, whole |-> w] \in Package
  BY DEF TypeOK, Package
<1> QED
  BY <1>1, <1>2, <1>3 DEF TypeOK

\* Every step keeps the types.
LEMMA NextTypes ==
  ASSUME PartitionAssumption, TypeOK, [Next]_vars
  PROVE  TypeOK'
<1> USE DEF Goto, forest, repair, Fresh, Joining, Repairing
<1>0. refs \subseteq Features \X (Features \cup {Nowhere})
  BY ReferencesFinite DEF TypeOK
<1>1. ASSUME NEW ow \in BOOLEAN, Load(ow) PROVE TypeOK'
  <2>1. run + 1 \in 0..MaxRuns
    <3>1. run \in 0..MaxRuns /\ run < MaxRuns /\ MaxRuns \in Nat
      BY <1>1 DEF Load, TypeOK, PartitionAssumption
    <3> QED
      BY <3>1
  <2> QED
    BY <1>1, <2>1, ForgetTypes DEF Load, TypeOK
<1>2. CASE EnsureReady
  BY <1>2 DEF EnsureReady, TypeOK, PartitionDirs
<1>3. CASE Scan
  BY <1>3 DEF Scan, TypeOK
<1>4. CASE Purge
  <2>1. PICK n \in stale : disk' = [disk EXCEPT ![n] = NoDir] /\ stale' = stale \ {n}
    BY <1>4 DEF Purge
  <2>2. n \in Names
    BY FeaturesFinite DEF TypeOK
  <2>3. disk' \in [Names -> Package]
    BY <2>1, <2>2, PackageKinds
  <2> QED
    BY <1>4, <2>1, <2>3 DEF Purge, TypeOK
<1>5. CASE PurgeFails
  <2>1. PICK n \in stale : disk' \in {disk, [disk EXCEPT ![n].whole = FALSE]}
    BY <1>5 DEF PurgeFails
  <2>2. n \in Names
    BY FeaturesFinite DEF TypeOK
  <2>3. disk' \in [Names -> Package]
    BY <2>1, <2>2, PackageKinds DEF TypeOK
  <2> QED
    BY <1>5, <2>3 DEF PurgeFails, TypeOK
<1>6. CASE Assign
  <2>1. label' \in [Features -> Labels]
    BY <1>6, AssignedLabels DEF Assign
  <2> QED
    BY <1>6, <2>1 DEF Assign, TypeOK
<1>7. CASE NextRef
  <2>1. PICK e \in todo :
          /\ todo' = todo \ {e}
          /\ \/ e[2] = Nowhere /\ unresolvable' = unresolvable + 1 /\ UNCHANGED <<pc, edge, a, b>>
             \/ e[2] = e[1] /\ UNCHANGED <<pc, edge, a, b, unresolvable>>
             \/ e[2] # Nowhere /\ a' = e[1] /\ b' = e[2] /\ pc' = "find_a" /\ UNCHANGED unresolvable
    BY <1>7 DEF NextRef
  <2>2. e[1] \in Features /\ e[2] \in Features \cup {Nowhere}
    BY <1>0 DEF TypeOK
  <2>0. pc = "refs" /\ a \in Features /\ b \in Features /\ unresolvable \in Nat
    BY <1>7 DEF NextRef, TypeOK
  <2>3. a' \in Features /\ b' \in Features /\ unresolvable' \in Nat /\ pc' \in {"refs", "find_a"}
    BY <2>0, <2>1, <2>2
  <2>4. todo' \subseteq refs
    BY <2>1 DEF TypeOK
  <2> QED
    BY <1>7, <2>3, <2>4 DEF NextRef, TypeOK
<1>8. CASE FindA
  <2>0. /\ pc = "find_a"
        /\ \/ pc' = "find_b" /\ a' = a /\ parent' = parent
           \/ pc' = pc /\ a' = parent[parent[a]] /\ parent' = [parent EXCEPT ![a] = parent[parent[a]]]
    BY <1>8 DEF FindA
  <2>1. a' \in Features /\ parent' \in [Features -> Features] /\ pc' \in {"find_a", "find_b"}
    BY <2>0 DEF TypeOK
  <2> QED
    BY <1>8, <2>1 DEF FindA, TypeOK
<1>9. CASE FindB
  <2>0. /\ pc = "find_b"
        /\ \/ pc' = "link" /\ b' = b /\ parent' = parent
           \/ pc' = pc /\ b' = parent[parent[b]] /\ parent' = [parent EXCEPT ![b] = parent[parent[b]]]
    BY <1>9 DEF FindB
  <2>1. b' \in Features /\ parent' \in [Features -> Features] /\ pc' \in {"find_b", "link"}
    BY <2>0 DEF TypeOK
  <2> QED
    BY <1>9, <2>1 DEF FindB, TypeOK
<1>10. CASE Link
  <2>1. parent' \in [Features -> Features] /\ size' \in [Features -> Nat]
    BY <1>10 DEF Link, TypeOK
  <2> QED
    BY <1>10, <2>1, FeaturesFinite DEF Link, TypeOK
<1>11. CASE Regroup
  <2> DEFINE target == [i \in Features |-> Min({label[j] : j \in {k \in Features : Root[k] = Root[i]}})]
  <2>1. ASSUME NEW i \in Features PROVE target[i] \in Labels
    <3>1. {k \in Features : Root[k] = Root[i]} \in SUBSET Features /\ {k \in Features : Root[k] = Root[i]} # {}
      OBVIOUS
    <3> QED
      BY <3>1, FirstLabel
  <2>2. label' = target /\ moved' = Cardinality({i \in Features : target[i] # label[i]})
        /\ pending' = {target[i] : i \in Features}
    BY <1>11 DEF Regroup
  <2> HIDE DEF target
  <2>3. {i \in Features : target[i] # label[i]} \in SUBSET Features
    OBVIOUS
  <2>4. moved' \in Nat
    BY <2>2, <2>3, Counted
  <2>5. label' \in [Features -> Labels]
    BY <2>1, <2>2 DEF target
  <2>6. pending' \subseteq Labels
    BY <2>1, <2>2
  <2> QED
    BY <1>11, <2>4, <2>5, <2>6 DEF Regroup, TypeOK
<1>12. CASE Write
  <2>1. disk' \in [Names -> Package]
    BY <1>12, FirstPending, PackageKinds DEF Write
  <2> QED
    BY <1>12, <2>1 DEF Write, TypeOK
<1>13. CASE WriteFails
  <2>1. disk' \in [Names -> Package]
    BY <1>13, FirstPending, PackageKinds DEF WriteFails, TypeOK
  <2> QED
    BY <1>13, <2>1 DEF WriteFails, TypeOK
<1>14. CASE Report
  BY <1>14 DEF Report, TypeOK
<1>15. CASE Kill
  <2>1. disk' \in [Names -> Package]
    <3>1. CASE disk' = disk
      BY <3>1 DEF TypeOK
    <3>2. CASE pending # {} /\ disk' = [disk EXCEPT ![Min(pending)] = [by |-> run, whole |-> FALSE]]
      BY <3>2, FirstPending, PackageKinds
    <3>3. ASSUME NEW n \in stale, disk' = [disk EXCEPT ![n].whole = FALSE] PROVE disk' \in [Names -> Package]
      <4>1. n \in Names
        BY FeaturesFinite DEF TypeOK
      <4> QED
        BY <3>3, <4>1, PackageKinds
    <3> QED
      BY <1>15, <3>1, <3>2, <3>3 DEF Kill
  <2> QED
    BY <1>15, <2>1, ForgetTypes DEF Kill, TypeOK
<1>16. CASE UNCHANGED vars
  BY <1>16 DEF vars, TypeOK
<1> QED
  BY <1>1, <1>2, <1>3, <1>4, <1>5, <1>6, <1>7, <1>8, <1>9, <1>10, <1>11, <1>12, <1>13, <1>14, <1>15, <1>16
     DEF Next, Convert
-----------------------------------------------------------------------------
(* The packages on disk.                                                    *)

\* Phases that leave disk, stale, before, run and the labels to write alone.
LEMMA DiskKept ==
  ASSUME DiskInv, UNCHANGED <<disk, stale, before, run, label, pending>>,
         \/ pc' \in {"failed", pc}
         \/ pc = "ready" /\ pc' = "rejected"
         \/ pc = "scan" /\ pc' \in {"purge", "rejected"}
         \/ pc \in Repairing /\ pc' \in Repairing
         \/ pc = "write" /\ pc' = "done" /\ pending = {}
  PROVE  DiskInv'
<1>1. PartitionDirs' = PartitionDirs /\ Chosen' = Chosen
  BY DEF PartitionDirs, Chosen
<1> QED
  BY <1>1 DEF DiskInv, Repairing, Joining

\* Every step keeps what lies on disk in order.
LEMMA NextDisk ==
  ASSUME PartitionAssumption, TypeOK, DiskInv, [Next]_vars
  PROVE  DiskInv'
<1> USE DEF Goto, forest, repair, Repairing, Joining
<1>1. ASSUME NEW ow \in BOOLEAN, Load(ow) PROVE DiskInv'
  BY <1>1 DEF Load, DiskInv
<1>2. CASE EnsureReady
  BY <1>2 DEF EnsureReady, DiskInv, PartitionDirs
<1>3. CASE Scan
  BY <1>3, DiskKept DEF Scan
<1>4. CASE Purge
  <2>1. PICK n \in stale : disk' = [disk EXCEPT ![n] = NoDir] /\ stale' = stale \ {n}
    BY <1>4 DEF Purge
  <2>2. n \in Labels /\ n \in Names /\ n # Foreign
    BY FeaturesFinite DEF TypeOK
  <2>3. disk'[n] = NoDir /\ \A m \in Names : m # n => disk'[m] = disk[m]
    BY <2>1, <2>2 DEF TypeOK
  <2>4. \A m \in Labels : m \in Names
    BY FeaturesFinite
  <2>5. (PartitionDirs \subseteq stale)'
    BY <1>4, <2>1, <2>3, <2>4 DEF Purge, DiskInv, PartitionDirs
  <2> QED
    BY <1>4, <2>2, <2>3, <2>5, FeaturesFinite DEF Purge, DiskInv
<1>5. CASE PurgeFails
  <2>1. PICK n \in stale : disk' \in {disk, [disk EXCEPT ![n].whole = FALSE]}
    BY <1>5 DEF PurgeFails
  <2>2. n \in Labels /\ n # Foreign
    BY FeaturesFinite DEF TypeOK
  <2>3. disk'[Foreign] = disk[Foreign]
    BY <2>1, <2>2, FeaturesFinite DEF TypeOK
  <2> QED
    BY <1>5, <2>3 DEF PurgeFails, DiskInv
<1>6. CASE Assign
  BY <1>6 DEF Assign, DiskInv, PartitionDirs
<1>7. CASE NextRef
  <2>1. pc' \in {"refs", "find_a"}
    BY <1>7 DEF NextRef
  <2> QED
    BY <1>7, <2>1, DiskKept DEF NextRef
<1>8. CASE FindA
  BY <1>8, DiskKept DEF FindA
<1>9. CASE FindB
  BY <1>9, DiskKept DEF FindB
<1>10. CASE Link
  BY <1>10, DiskKept DEF Link
<1>11. CASE Regroup
  <2>1. pending' = Chosen'
    <3> DEFINE target == [i \in Features |-> Min({label[j] : j \in {k \in Features : Root[k] = Root[i]}})]
    <3>1. label' = target /\ pending' = {target[i] : i \in Features}
      BY <1>11 DEF Regroup
    <3> QED
      BY <3>1 DEF Chosen
  <2>2. \A n \in Labels : disk'[n] = NoDir
    BY <1>11 DEF Regroup, DiskInv, PartitionDirs
  <2> QED
    BY <1>11, <2>1, <2>2 DEF Regroup, DiskInv
<1>12. CASE Write
  <2> DEFINE m == Min(pending)
  <2>1. m \in pending /\ m \in Labels /\ m \in Names /\ m # Foreign
    BY <1>12, FirstPending, FeaturesFinite DEF Write
  <2>2. disk' = [disk EXCEPT ![m] = [by |-> run, whole |-> TRUE]] /\ pending' = pending \ {m}
        /\ pc = "write" /\ pc' = pc /\ run' = run /\ label' = label
    BY <1>12 DEF Write
  <2> HIDE DEF m
  <2>3. disk'[m] = [by |-> run, whole |-> TRUE] /\ \A n \in Names : n # m => disk'[n] = disk[n]
    BY <2>1, <2>2 DEF TypeOK
  <2>4. Chosen' = Chosen
    BY <2>2 DEF Chosen
  <2>5. ASSUME NEW n \in Labels
        PROVE  disk'[n] = IF n \in Chosen' \ pending' THEN [by |-> run', whole |-> TRUE] ELSE NoDir
    <3>1. n \in Names
      BY FeaturesFinite
    <3>2. CASE n = m
      <4>1. m \in Chosen
        BY <2>1, <2>2 DEF DiskInv
      <4> QED
        BY <2>2, <2>3, <2>4, <3>2, <4>1
    <3>3. CASE n # m
      BY <2>2, <2>3, <2>4, <3>1, <3>3 DEF DiskInv
    <3> QED
      BY <3>2, <3>3
  <2> QED
    BY <2>1, <2>2, <2>3, <2>4, <2>5, FeaturesFinite DEF DiskInv
<1>13. CASE WriteFails
  <2>1. disk'[Foreign] = disk[Foreign]
    BY <1>13, FirstPending, FeaturesFinite DEF WriteFails, TypeOK
  <2> QED
    BY <1>13, <2>1 DEF WriteFails, DiskInv
<1>14. CASE Report
  BY <1>14, DiskKept DEF Report
<1>15. CASE Kill
  <2>1. disk'[Foreign] = disk[Foreign]
    <3>1. CASE disk' = disk
      BY <3>1
    <3>2. CASE pending # {} /\ disk' = [disk EXCEPT ![Min(pending)] = [by |-> run, whole |-> FALSE]]
      BY <3>2, FirstPending, FeaturesFinite DEF TypeOK
    <3>3. ASSUME NEW n \in stale, disk' = [disk EXCEPT ![n].whole = FALSE] PROVE disk'[Foreign] = disk[Foreign]
      BY <3>3, FeaturesFinite DEF TypeOK
    <3> QED
      BY <1>15, <3>1, <3>2, <3>3 DEF Kill
  <2> QED
    BY <1>15, <2>1 DEF Kill, DiskInv
<1>16. CASE UNCHANGED vars
  BY <1>16, DiskKept DEF vars
<1> QED
  BY <1>1, <1>2, <1>3, <1>4, <1>5, <1>6, <1>7, <1>8, <1>9, <1>10, <1>11, <1>12, <1>13, <1>14, <1>15, <1>16
     DEF Next, Convert
-----------------------------------------------------------------------------
(* The union-find.                                                          *)

\* Phases that leave the union-find, and what came of it, alone.
LEMMA RepairKept ==
  ASSUME RepairInv, UNCHANGED <<spec, refs, forest, label, moved, unresolvable>>,
         \/ pc' \in {"failed", "rejected", pc}
         \/ pc \in Fresh /\ pc' \in Fresh
         \/ pc = "write" /\ pc' = "done"
  PROVE  RepairInv'
<1>1. RepairIsLeast'
  BY DEF RepairInv, RepairIsLeast, Linked, Fresh
<1>2. ASSUME pc' \in Repairing
      PROVE  /\ label' = Assigned(spec') /\ unresolvable' = Unresolved(refs' \ todo')
             /\ \E top \in [Features -> Features], rank \in [Features -> Nat] : Trees(top, rank)' /\ Joined(top)'
  <2>1. pc' = pc
    BY <1>2 DEF Repairing, Joining, Fresh
  <2>2. PICK top \in [Features -> Features], rank \in [Features -> Nat] : Trees(top, rank) /\ Joined(top)
    BY <1>2, <2>1 DEF RepairInv
  <2>3. Trees(top, rank)' /\ Joined(top)'
    BY <2>1, <2>2 DEF Trees, Joined, Linked, forest
  <2> QED
    BY <1>2, <2>1, <2>3 DEF RepairInv, forest
<1>3. pc' \in Fresh => parent' = Alone /\ unresolvable' = 0
  BY DEF RepairInv, forest, Fresh
<1> QED
  BY <1>1, <1>2, <1>3 DEF RepairInv

\* Halving a path keeps the trees.
LEMMA HalvingKeepsTrees ==
  ASSUME parent \in [Features -> Features],
         NEW top \in [Features -> Features], NEW rank \in [Features -> Nat], Trees(top, rank),
         NEW x \in Features, parent[x] # x, parent' = [parent EXCEPT ![x] = parent[parent[x]]]
  PROVE  Trees(top, rank)' /\ top[parent[parent[x]]] = top[x]
<1> DEFINE p == parent[x]
           q == parent[p]
<1>1. p \in Features /\ q \in Features
  OBVIOUS
<1>2. top[q] = top[x] /\ rank[p] < rank[x] /\ (q = p \/ rank[q] < rank[p]) /\ rank[q] \in Nat /\ rank[p] \in Nat /\ rank[x] \in Nat
  BY <1>1 DEF Trees
<1>3. rank[q] < rank[x]
  BY <1>2
<1>4. parent'[x] = q /\ \A i \in Features : i # x => parent'[i] = parent[i]
  OBVIOUS
<1> HIDE DEF p, q
<1>5. ASSUME NEW i \in Features
      PROVE  /\ parent'[top[i]] = top[i]
             /\ top[parent'[i]] = top[i]
             /\ parent'[i] = i => top[i] = i
             /\ parent'[i] # i => rank[parent'[i]] < rank[i]
  <2>1. top[i] # x /\ top[i] \in Features
    BY DEF Trees
  <2>2. CASE i = x
    BY <1>2, <1>3, <1>4, <2>1, <2>2 DEF Trees
  <2>3. CASE i # x
    BY <1>4, <2>1, <2>3 DEF Trees
  <2> QED
    BY <2>2, <2>3
<1> QED
  BY <1>2, <1>5 DEF Trees, p, q

\* The tree of sub has the root up now, and the others the root they had.
Rehung(top, t, sub, up) ==
  \A i \in Features : t[i] = IF top[i] = sub THEN up ELSE top[i]

\* Putting the root sub under the root up joins their trees.
LEMMA LinkingKeepsTrees ==
  ASSUME parent \in [Features -> Features],
         NEW top \in [Features -> Features], NEW rank \in [Features -> Nat], Trees(top, rank),
         NEW sub \in Features, NEW up \in Features, sub # up, parent[sub] = sub, parent[up] = up,
         parent' = [parent EXCEPT ![sub] = up]
  PROVE  \E t \in [Features -> Features], h \in [Features -> Nat] :
           /\ Rehung(top, t, sub, up)
           /\ Trees(t, h)'
<1> PICK t \in [Features -> Features] :
           \A i \in Features : t[i] = IF top[i] = sub THEN up ELSE top[i]
  <2> WITNESS [i \in Features |-> IF top[i] = sub THEN up ELSE top[i]] \in [Features -> Features]
  <2> QED
    OBVIOUS
<1> PICK h \in [Features -> Nat] :
           \A i \in Features : h[i] = IF top[i] = sub THEN rank[i] + rank[up] + 1 ELSE rank[i]
  <2> WITNESS [i \in Features |-> IF top[i] = sub THEN rank[i] + rank[up] + 1 ELSE rank[i]]
              \in [Features -> Nat]
  <2> QED
    OBVIOUS
<1>1. top[sub] = sub /\ top[up] = up
  BY DEF Trees
<1>2. parent'[sub] = up /\ \A i \in Features : i # sub => parent'[i] = parent[i]
  OBVIOUS
<1>3. ASSUME NEW i \in Features
      PROVE  /\ parent'[t[i]] = t[i]
             /\ t[parent'[i]] = t[i]
             /\ parent'[i] = i => t[i] = i
             /\ parent'[i] # i => h[parent'[i]] < h[i]
  <2>1. top[i] \in Features /\ parent[i] \in Features /\ parent[top[i]] = top[i] /\ top[parent[i]] = top[i]
    BY DEF Trees
  <2>2. CASE i = sub
    <3>1. t[sub] = up /\ t[up] = up /\ h[up] = rank[up] /\ h[sub] = rank[sub] + rank[up] + 1
      BY <1>1
    <3> QED
      BY <1>2, <2>2, <3>1
  <2>3. CASE i # sub
    <3>1. parent'[i] = parent[i] /\ parent[i] # i => rank[parent[i]] < rank[i]
      BY <1>2, <2>3 DEF Trees
    <3>2. parent'[t[i]] = t[i]
      BY <1>2, <2>1
    <3>3. t[parent[i]] = t[i]
      BY <2>1
    <3>4. parent[i] = i => t[i] = i
      BY <2>3 DEF Trees
    <3>5. parent[i] # i => h[parent[i]] < h[i]
      <4>1. rank[parent[i]] \in Nat /\ rank[i] \in Nat /\ rank[up] \in Nat
        BY <2>1
      <4> QED
        BY <1>2, <2>1, <2>3, <4>1 DEF Trees
    <3>6. parent'[i] = parent[i]
      BY <1>2, <2>3
    <3> QED
      BY <3>2, <3>3, <3>4, <3>5, <3>6
  <2> QED
    BY <2>2, <2>3
<1>4. Trees(t, h)'
  BY <1>3 DEF Trees
<1> QED
  BY <1>4 DEF Rehung

\* Every feature is in a tree of its own when the references come.
LEMMA AssignRepairs ==
  ASSUME PartitionAssumption, TypeOK, RepairInv, Assign
  PROVE  RepairInv'
<1>1. parent' = Alone /\ unresolvable' = 0 /\ label' = Assigned(spec') /\ todo' = refs' /\ pc' = "refs"
  BY DEF Assign, Goto, RepairInv, Fresh
<1>2. Alone \in [Features -> Features] /\ Ones \in [Features -> Nat]
  BY DEF Alone, Ones
<1>3. Trees(Alone, Ones)'
  BY <1>1 DEF Trees, Alone
<1>4. Joined(Alone)'
  BY <1>1 DEF Joined, Alone, Joining, Linked
<1>5. unresolvable' = Unresolved(refs' \ todo')
  <2>1. {r \in refs' \ todo' : r[2] = Nowhere} = {}
    BY <1>1
  <2> QED
    BY <1>1, <2>1, FS_EmptySet DEF Unresolved
<1> QED
  BY <1>1, <1>2, <1>3, <1>4, <1>5 DEF RepairInv, RepairIsLeast, Repairing, Fresh

\* A reference is counted, passed over or taken up.
LEMMA NextRefRepairs ==
  ASSUME PartitionAssumption, TypeOK, RepairInv, NextRef
  PROVE  RepairInv'
<1>0. pc = "refs" /\ UNCHANGED <<refs, spec, parent, label, moved>>
  BY DEF NextRef
<1>1. PICK e \in todo :
        /\ todo' = todo \ {e}
        /\ \/ e[2] = Nowhere /\ unresolvable' = unresolvable + 1 /\ UNCHANGED <<pc, edge, a, b>>
           \/ e[2] = e[1] /\ UNCHANGED <<pc, edge, a, b, unresolvable>>
           \/ e[2] # Nowhere /\ edge' = e /\ a' = e[1] /\ b' = e[2] /\ pc' = "find_a" /\ UNCHANGED unresolvable
  BY DEF NextRef, Goto
<1>2. PICK top \in [Features -> Features], rank \in [Features -> Nat] : Trees(top, rank) /\ Joined(top)
  BY <1>0 DEF RepairInv, Repairing
<1>3. e \in refs /\ e[1] \in Features /\ (refs \ todo)' = (refs \ todo) \cup {e} /\ e \notin refs \ todo
  BY <1>0, <1>1, ReferencesFinite DEF TypeOK
<1>4. Trees(top, rank)'
  BY <1>0, <1>2 DEF Trees
<1>5. Joined(top)'
  BY <1>0, <1>1, <1>2, <1>3, FeaturesFinite DEF Joined, Joining, Linked
<1>6. unresolvable' = Unresolved(refs' \ todo')
  <2> DEFINE S == {r \in refs \ todo : r[2] = Nowhere}
  <2>1. IsFiniteSet(S) /\ e \notin S
    <3>1. S \in SUBSET refs /\ IsFiniteSet(refs)
      BY ReferencesFinite DEF TypeOK
    <3> QED
      BY <1>3, <3>1, FS_Subset
  <2>2. unresolvable = Cardinality(S)
    BY <1>0 DEF RepairInv, Repairing, Unresolved
  <2>3. {r \in (refs \ todo)' : r[2] = Nowhere} = IF e[2] = Nowhere THEN S \cup {e} ELSE S
    BY <1>3
  <2> HIDE DEF S
  <2>4. Cardinality(S \cup {e}) = Cardinality(S) + 1
    BY <2>1, FS_AddElement
  <2>5. unresolvable' = IF e[2] = Nowhere THEN unresolvable + 1 ELSE unresolvable
    BY <1>1, <1>3, FeaturesFinite
  <2> QED
    BY <2>2, <2>3, <2>4, <2>5 DEF Unresolved
<1> QED
  BY <1>0, <1>1, <1>2, <1>4, <1>5, <1>6 DEF RepairInv, RepairIsLeast, Repairing, Joining, Fresh

\* find leaves the trees together, and ends at their roots.
LEMMA FindRepairs ==
  ASSUME TypeOK, RepairInv, FindA \/ FindB
  PROVE  RepairInv'
<1>0. pc \in Joining /\ pc' \in Joining /\ UNCHANGED <<refs, todo, edge, spec, label, moved, unresolvable>>
  BY DEF FindA, FindB, Goto, repair, Joining
<1>1. PICK top \in [Features -> Features], rank \in [Features -> Nat] : Trees(top, rank) /\ Joined(top)
  BY <1>0 DEF RepairInv, Repairing
<1>2. CASE FindA /\ parent[a] = a
  <2>1. pc = "find_a" /\ pc' = "find_b" /\ UNCHANGED <<a, b, parent>>
    BY <1>2 DEF FindA, Goto
  <2>2. Trees(top, rank)' /\ Joined(top)'
    BY <1>0, <1>1, <1>2, <2>1 DEF Trees, Joined, Joining, Linked
  <2> QED
    BY <1>0, <2>2 DEF RepairInv, RepairIsLeast, Repairing, Joining, Fresh
<1>3. CASE FindA /\ parent[a] # a
  <2>1. /\ pc = "find_a" /\ pc' = pc /\ b' = b
        /\ parent' = [parent EXCEPT ![a] = parent[parent[a]]] /\ a' = parent[parent[a]]
    BY <1>3 DEF FindA
  <2>2. Trees(top, rank)' /\ top[a'] = top[a]
    BY <1>1, <1>3, <2>1, HalvingKeepsTrees DEF TypeOK
  <2>3. Joined(top)'
    BY <1>0, <1>1, <2>1, <2>2 DEF Joined, Joining, Linked
  <2> QED
    BY <1>0, <2>2, <2>3 DEF RepairInv, RepairIsLeast, Repairing, Joining, Fresh
<1>4. CASE FindB /\ parent[b] = b
  <2>1. pc = "find_b" /\ pc' = "link" /\ UNCHANGED <<a, b, parent>>
    BY <1>4 DEF FindB, Goto
  <2>2. Trees(top, rank)' /\ Joined(top)'
    BY <1>0, <1>1, <1>4, <2>1 DEF Trees, Joined, Joining, Linked
  <2> QED
    BY <1>0, <2>2 DEF RepairInv, RepairIsLeast, Repairing, Joining, Fresh
<1>5. CASE FindB /\ parent[b] # b
  <2>1. /\ pc = "find_b" /\ pc' = pc /\ a' = a
        /\ parent' = [parent EXCEPT ![b] = parent[parent[b]]] /\ b' = parent[parent[b]]
    BY <1>5 DEF FindB
  <2>2. Trees(top, rank)' /\ top[b'] = top[b]
    BY <1>1, <1>5, <2>1, HalvingKeepsTrees DEF TypeOK
  <2>3. parent'[a] = a
    BY <1>1, <1>5, <2>1 DEF Joined, TypeOK
  <2>4. Joined(top)'
    BY <1>0, <1>1, <2>1, <2>2, <2>3 DEF Joined, Joining, Linked
  <2> QED
    BY <1>0, <2>2, <2>4 DEF RepairInv, RepairIsLeast, Repairing, Joining, Fresh
<1> QED
  BY <1>2, <1>3, <1>4, <1>5

\* union joins the trees of the two ends of a reference.
LEMMA LinkRepairs ==
  ASSUME PartitionAssumption, TypeOK, RepairInv, Link
  PROVE  RepairInv'
<1>0. pc = "link" /\ pc' = "refs" /\ UNCHANGED <<refs, todo, spec, label, moved, unresolvable>>
  BY DEF Link, Goto, repair
<1>1. PICK top \in [Features -> Features], rank \in [Features -> Nat] : Trees(top, rank) /\ Joined(top)
  BY <1>0 DEF RepairInv, Repairing, Joining
<1>2. parent[a] = a /\ parent[b] = b /\ top[a] = a /\ top[b] = b /\ a \in Features /\ b \in Features
  BY <1>0, <1>1 DEF Joined, Trees, TypeOK
<1>3. edge \in refs /\ edge[2] # Nowhere /\ edge[1] \in Features /\ edge[2] \in Features
      /\ top[edge[1]] = a /\ top[edge[2]] = b
  BY <1>0, <1>1, <1>2, ReferencesFinite DEF Joined, Joining, TypeOK
<1>4. \A r \in refs \ todo : r[2] # Nowhere => top[r[1]] = top[r[2]] \/ r = edge
  BY <1>1 DEF Joined
<1>5. \A i, j \in Features : top[i] = top[j] => Linked(refs, i, j)
  BY <1>1 DEF Joined
<1>6. SUFFICES ASSUME NEW t \in [Features -> Features], NEW h \in [Features -> Nat], Trees(t, h)',
                      \A i, j \in Features : t[i] = t[j] => Linked(refs, i, j),
                      \A r \in refs \ todo : r[2] # Nowhere => t[r[1]] = t[r[2]]
               PROVE  RepairInv'
  <2>1. CASE a = b
    <3>1. Trees(top, rank)'
      BY <1>1, <2>1 DEF Link, Trees
    <3> QED
      BY <1>3, <1>4, <1>5, <1>6, <2>1, <3>1
  <2>2. ASSUME NEW sub \in Features, NEW up \in Features, sub # up, {sub, up} = {a, b},
               parent' = [parent EXCEPT ![sub] = up]
        PROVE  RepairInv'
    <3>2. parent[sub] = sub /\ parent[up] = up /\ top[sub] = sub /\ top[up] = up
      BY <1>2, <2>2
    <3>3. parent \in [Features -> Features]
      BY DEF TypeOK
    <3>1. PICK t \in [Features -> Features], h \in [Features -> Nat] :
            /\ Rehung(top, t, sub, up)
            /\ Trees(t, h)'
      BY <1>1, <2>2, <3>2, <3>3, LinkingKeepsTrees
    <3>4. Linked(refs, sub, up)
      <4>1. Linked(refs, a, edge[1]) /\ Linked(refs, edge[1], edge[2]) /\ Linked(refs, edge[2], b)
        BY <1>2, <1>3, <1>5, ReferenceLinks
      <4>2. Linked(refs, a, edge[2])
        BY <1>2, <1>3, <4>1, LinkedIsEquivalence
      <4>4. Linked(refs, a, b)
        BY <1>2, <1>3, <4>1, <4>2, LinkedIsEquivalence
      <4>5. Linked(refs, b, a)
        BY <1>2, <4>4, LinkedIsEquivalence
      <4>3. (sub = a /\ up = b) \/ (sub = b /\ up = a)
        BY <2>2
      <4> QED
        BY <4>3, <4>4, <4>5
    <3>5. ASSUME NEW i \in Features, NEW j \in Features, t[i] = t[j] PROVE Linked(refs, i, j)
      <4>1. CASE top[i] = top[j]
        BY <1>5, <4>1
      <4>2. CASE top[i] = sub /\ top[j] = up
        <5>1. Linked(refs, i, sub) /\ Linked(refs, up, j)
          BY <1>5, <3>2, <4>2
        <5> QED
          BY <3>4, <5>1, LinkedIsEquivalence
      <4>3. CASE top[i] = up /\ top[j] = sub
        <5>1. Linked(refs, i, up) /\ Linked(refs, sub, j)
          BY <1>5, <3>2, <4>3
        <5> QED
          BY <3>4, <5>1, LinkedIsEquivalence
      <4> QED
        BY <3>1, <3>5, <4>1, <4>2, <4>3 DEF Rehung
    <3>6. ASSUME NEW r \in refs \ todo, r[2] # Nowhere PROVE t[r[1]] = t[r[2]]
      <4>1. r[1] \in Features /\ r[2] \in Features
        BY <3>6, ReferencesFinite DEF TypeOK
      <4>2. CASE r = edge
        BY <1>3, <2>2, <3>1, <3>2, <4>1, <4>2 DEF Rehung
      <4>3. CASE r # edge
        BY <1>4, <3>1, <3>6, <4>1, <4>3 DEF Rehung
      <4> QED
        BY <4>2, <4>3
    <3> QED
      BY <1>6, <3>1, <3>5, <3>6
  <2>3. CASE a # b
    <3>1. parent' = [parent EXCEPT ![a] = b] \/ parent' = [parent EXCEPT ![b] = a]
      BY <2>3 DEF Link
    <3> QED
      BY <1>2, <2>2, <2>3, <3>1
  <2> QED
    BY <2>1, <2>3
<1>7. Joined(t)'
  BY <1>0, <1>6 DEF Joined, Joining, Linked
<1> QED
  BY <1>0, <1>6, <1>7 DEF RepairInv, RepairIsLeast, Repairing, Joining, Fresh

\* The roots give the components, so each goes to the first of its labels.
LEMMA RegroupRepairs ==
  ASSUME PartitionAssumption, TypeOK, RepairInv, Regroup
  PROVE  RepairInv'
<1> DEFINE was == Assigned(spec)
           first == [i \in Features |-> Min({was[j] : j \in {k \in Features : Linked(refs, i, k)}})]
<1>0. pc = "refs" /\ pc' = "write" /\ todo = {} /\ UNCHANGED <<refs, todo, spec, parent, unresolvable>>
  BY DEF Regroup, Goto, forest
<1>1. PICK top \in [Features -> Features], rank \in [Features -> Nat] : Trees(top, rank) /\ Joined(top)
  BY <1>0 DEF RepairInv, Repairing
<1>2. Root = top
  BY <1>1, RootIsTop DEF TypeOK
<1>3. label = was /\ unresolvable = Unresolved(refs)
  <2>1. refs \ todo = refs
    BY <1>0
  <2> QED
    BY <1>0, <2>1 DEF RepairInv, Repairing
<1>4. ASSUME NEW i \in Features
      PROVE  {k \in Features : top[k] = top[i]} = {k \in Features : Linked(refs, i, k)}
  <2>1. \A r \in refs : r[2] # Nowhere => r[1] \in Features /\ r[2] \in Features /\ top[r[1]] = top[r[2]]
    BY <1>0, <1>1, ReferencesFinite DEF Joined, Joining, TypeOK
  <2>2. \A k \in Features : Linked(refs, i, k) => top[i] = top[k]
    BY <2>1, LinkedIsTogether
  <2>3. \A k \in Features : top[k] = top[i] => Linked(refs, i, k)
    BY <1>1 DEF Joined
  <2> QED
    BY <2>2, <2>3
<1> HIDE DEF was
<1>5. label' = first
  <2>1. label' = [i \in Features |-> Min({was[j] : j \in {k \in Features : top[k] = top[i]}})]
    BY <1>2, <1>3 DEF Regroup
  <2> QED
    BY <1>4, <2>1
<1> HIDE DEF first
<1>6. moved' = Cardinality({i \in Features : label'[i] # was[i]})
  BY <1>3 DEF Regroup
<1>7. RepairIsLeast'
  BY <1>0, <1>3, <1>5, <1>6 DEF RepairIsLeast, Unresolved, Linked, was, first
<1> QED
  BY <1>0, <1>7 DEF RepairInv, Repairing, Joining, Fresh

\* Every step keeps the union-find in order.
LEMMA NextRepairs ==
  ASSUME PartitionAssumption, TypeOK, RepairInv, [Next]_vars
  PROVE  RepairInv'
<1> USE DEF Goto, Fresh, Repairing, Joining
<1>1. ASSUME NEW ow \in BOOLEAN, Load(ow) PROVE RepairInv'
  BY <1>1 DEF Load, Forget, RepairInv, RepairIsLeast
<1>2. CASE EnsureReady
  BY <1>2, RepairKept DEF EnsureReady, repair
<1>3. CASE Scan
  BY <1>3, RepairKept DEF Scan, repair
<1>4. CASE Purge
  BY <1>4, RepairKept DEF Purge, repair
<1>5. CASE PurgeFails
  BY <1>5, RepairKept DEF PurgeFails, repair
<1>6. CASE Assign
  BY <1>6, AssignRepairs
<1>7. CASE NextRef
  BY <1>7, NextRefRepairs
<1>8. CASE FindA \/ FindB
  BY <1>8, FindRepairs
<1>9. CASE Link
  BY <1>9, LinkRepairs
<1>10. CASE Regroup
  BY <1>10, RegroupRepairs
<1>11. CASE Write
  BY <1>11, RepairKept DEF Write
<1>12. CASE WriteFails
  BY <1>12, RepairKept DEF WriteFails, repair
<1>13. CASE Report
  BY <1>13, RepairKept DEF Report, repair
<1>14. CASE Kill
  BY <1>14 DEF Kill, Forget, RepairInv, RepairIsLeast
<1>15. CASE UNCHANGED vars
  BY <1>15, RepairKept DEF vars, repair
<1> QED
  BY <1>1, <1>2, <1>3, <1>4, <1>5, <1>6, <1>7, <1>8, <1>9, <1>10, <1>11, <1>12, <1>13, <1>14, <1>15
     DEF Next, Convert
-----------------------------------------------------------------------------
(* The theorems.                                                            *)

\* The invariant holds initially and every step keeps it.
LEMMA Inductive ==
  ASSUME PartitionAssumption
  PROVE  Spec => []IInv
<1>1. Init => IInv
  <2> SUFFICES ASSUME Init PROVE IInv
    OBVIOUS
  <2>1. TypeOK
    BY InitTypes
  <2>2. disk[Foreign] = ForeignDir
    BY FeaturesFinite DEF Init
  <2> QED
    BY <2>1, <2>2 DEF Init, IInv, DiskInv, RepairInv, RepairIsLeast, Fresh, Repairing, Joining
<1>2. IInv /\ [Next]_vars => IInv'
  BY NextTypes, NextDisk, NextRepairs DEF IInv
<1> QED
  BY <1>1, <1>2, PTL DEF Spec

\* The variables keep their types: labels stay in range, the cursors and trees
\* of the union-find stay among the features (partition.rs:
\* assign_partitions, UnionFind).
THEOREM TypeCorrect ==
  ASSUME PartitionAssumption
  PROVE  Spec => []TypeOK
<1>1. IInv => TypeOK
  BY DEF IInv
<1> QED
  BY <1>1, Inductive, PTL

\* A conversion replaces all of the earlier packages or none, whatever an
\* earlier one left behind (partition.rs: convert_partitioned).
THEOREM AllOrNothing ==
  ASSUME PartitionAssumption
  PROVE  Spec => []ReplacesOrKeeps
<1>1. IInv => ReplacesOrKeeps
  <2> SUFFICES ASSUME IInv PROVE ReplacesOrKeeps
    OBVIOUS
  <2>1. ASSUME pc = "done"
        PROVE  /\ PartitionDirs = Chosen
               /\ \A n \in PartitionDirs : disk[n] = [by |-> run, whole |-> TRUE]
    <3>1. \A n \in Labels : disk[n] = IF n \in Chosen THEN [by |-> run, whole |-> TRUE] ELSE NoDir
      BY <2>1 DEF IInv, DiskInv
    <3>2. Chosen \subseteq Labels
      BY DEF IInv, TypeOK, Chosen
    <3>3. [by |-> run, whole |-> TRUE] # NoDir
      BY DEF NoDir
    <3> QED
      BY <3>1, <3>2, <3>3 DEF PartitionDirs
  <2>2. pc = "rejected" => disk = before
    BY DEF IInv, DiskInv
  <2> QED
    BY <2>1, <2>2 DEF IInv, DiskInv, ReplacesOrKeeps, Chosen
<1> QED
  BY <1>1, Inductive, PTL

\* repair_reference_locality sends every feature to the first label of its
\* component, moves no other, and counts what it cannot resolve, for any
\* references in any order (partition.rs: repair_reference_locality,
\* UnionFind).
THEOREM RepairCorrect ==
  ASSUME PartitionAssumption
  PROVE  Spec => []RepairIsLeast
<1>1. IInv => RepairIsLeast
  BY DEF IInv, RepairInv
<1> QED
  BY <1>1, Inductive, PTL
=============================================================================
