----------------------- MODULE PackageContentsProofs -----------------------
EXTENDS PackageContents, FiniteSetTheorems, TLAPS

SP == INSTANCE ExternalSortProofs

-----------------------------------------------------------------------------
(* The sorter of PackageContents and the one of ExternalSortProofs are       *)
(* instances of the same module: what one says the other says.               *)

LEMMA SameSorted ==
  ASSUME NEW held
  PROVE  Sort!Sorted(held) = SP!Sorted(held)
BY DEF Sort!Sorted, SP!Sorted, Sort!Before, SP!Before, Sort!Ranked, SP!Ranked, Sort!ToSet, SP!ToSet,
       Sort!Cardinality, SP!Cardinality

LEMMA SameCut ==
  ASSUME NEW held, NEW cuts
  PROVE  Sort!Cut(held, cuts) = SP!Cut(held, cuts)
BY DEF Sort!Cut, SP!Cut, Sort!Ranked, SP!Ranked, Sort!Cardinality, SP!Cardinality

LEMMA SameSpilled ==
  ASSUME NEW held
  PROVE  Sort!Spilled(held) = SP!Spilled(held)
BY SameSorted, SameCut DEF Sort!Spilled, SP!Spilled

LEMMA SamePush ==
  ASSUME NEW keys, NEW w
  PROVE  /\ Sort!PushBatch(keys, w) => SP!PushBatch(keys, w)
         /\ Sort!PushFails(keys, w) => SP!PushFails(keys, w)
BY SameSpilled DEF Sort!PushBatch, SP!PushBatch, Sort!PushFails, SP!PushFails, Sort!Keyed, SP!Keyed, Sort!merge, SP!merge

LEMMA SameWork == Sort!Work => SP!Work
<1> USE DEF Sort!input, SP!input, Sort!merge, SP!merge
<1>1. Sort!FinishInMemory => SP!FinishInMemory
  BY DEF Sort!FinishInMemory, SP!FinishInMemory
<1>2. Sort!FinishMerge => SP!FinishMerge
  BY SameSpilled DEF Sort!FinishMerge, SP!FinishMerge, Sort!NoSource, SP!NoSource
<1>3. Sort!NextFromMemory => SP!NextFromMemory
  BY SameSorted DEF Sort!NextFromMemory, SP!NextFromMemory, Sort!Min, SP!Min
<1>4. Sort!Draw => SP!Draw
  BY DEF Sort!Draw, SP!Draw, Sort!Least, SP!Least, Sort!Before, SP!Before, Sort!Current, SP!Current,
         Sort!Advanced, SP!Advanced, Sort!AtBatchEnd, SP!AtBatchEnd, Sort!At, SP!At
<1>5. Sort!Yield => SP!Yield
  BY DEF Sort!Yield, SP!Yield, Sort!Interleaved, SP!Interleaved, Sort!NoSource, SP!NoSource
<1>6. Sort!EndMerge => SP!EndMerge
  BY DEF Sort!EndMerge, SP!EndMerge
<1> QED
  BY <1>1, <1>2, <1>3, <1>4, <1>5, <1>6 DEF Sort!Work, SP!Work

LEMMA SameFail == Sort!Fail => SP!Fail
BY DEF Sort!Fail, SP!Fail, Sort!FinishFails, SP!FinishFails, Sort!DrawFails, SP!DrawFails, Sort!InterleaveFails,
       SP!InterleaveFails, Sort!AtBatchEnd, SP!AtBatchEnd, Sort!Least, SP!Least, Sort!Before, SP!Before,
       Sort!input, SP!input, Sort!merge, SP!merge

LEMMA SameProperties == /\ Sort!YieldsReference <=> SP!YieldsReference
                        /\ Sort!YieldsEverything <=> SP!YieldsEverything
<1>1. Sort!Sorted(pushed) = SP!Sorted(pushed)
  BY SameSorted
<1>2. \A S : Sort!Min(S) = SP!Min(S)
  BY DEF Sort!Min, SP!Min
<1>3. Sort!Reference = SP!Reference
  BY <1>1, <1>2 DEF Sort!Reference, SP!Reference
<1> QED
  BY <1>3 DEF Sort!YieldsReference, SP!YieldsReference, Sort!YieldsEverything, SP!YieldsEverything

-----------------------------------------------------------------------------
(* Sets in order.                                                           *)

\* A sequence that lists a set: each member once.
Lists(f, S) ==
  /\ Cardinality(S) \in Nat
  /\ DOMAIN f = 1 .. Cardinality(S)
  /\ \A n \in DOMAIN f : f[n] \in S
  /\ \A m, n \in DOMAIN f : m < n => f[m] # f[n]
  /\ \A x \in S : \E n \in DOMAIN f : f[n] = x

\* A sequence in the order `before` lists its set.
LEMMA ListsIs ==
  ASSUME NEW S, NEW before, SP!Orders(before, S), NEW f, DOMAIN f = 1 .. Cardinality(S), SP!Ranks(f, before, S)
  PROVE  Lists(f, S)
<1>1. \A X : SP!Cardinality(X) = Cardinality(X)
  BY DEF SP!Cardinality, Cardinality
<1>3. SP!Enumerates(f, before, S)
  BY SP!RankedIs
<1>4. \A x \in S : x \notin before[x]
  BY DEF SP!Orders
<1> QED
  BY <1>1, <1>3, <1>4 DEF SP!Enumerates, Lists

LEMMA RankedPairs ==
  ASSUME NEW S \in SUBSET (Nat \X Nat), IsFiniteSet(S)
  PROVE  Lists(Ranked(S, Before), S)
<1> DEFINE before == [x \in S |-> {y \in S : Before(y, x)}]
           f == Ranked(S, Before)
<1>1. DOMAIN f = 1 .. Cardinality(S)
  BY DEF Ranked
<1>2. \A n \in 1 .. Cardinality(S) : f[n] = CHOOSE x \in S : Cardinality({y \in S : Before(y, x)}) = n - 1
  BY DEF Ranked
<1>3. \A x \in S : before[x] = {y \in S : Before(y, x)}
  OBVIOUS
<1>4. SP!Ranks(f, before, S)
  <2>1. \A X : SP!Cardinality(X) = Cardinality(X)
    BY DEF SP!Cardinality, Cardinality
  <2> HIDE DEF f, before
  <2> QED
    BY <1>2, <1>3, <2>1 DEF SP!Ranks
<1>5. SP!Orders(before, S)
  <2>1. before \in [S -> SUBSET S]
    OBVIOUS
  <2>2. SP!IsFiniteSet(S)
    BY DEF SP!IsFiniteSet, IsFiniteSet
  <2>3. \A x, y \in S : x \in before[y] <=> Before(x, y)
    OBVIOUS
  <2> HIDE DEF before
  <2>4. \A x \in S : ~Before(x, x)
    BY DEF Before
  <2>5. \A x, y \in S : x # y => Before(x, y) \/ Before(y, x)
    <3> SUFFICES ASSUME NEW x \in Nat \X Nat, NEW y \in Nat \X Nat, x # y PROVE Before(x, y) \/ Before(y, x)
      OBVIOUS
    <3>1. x = <<x[1], x[2]>> /\ y = <<y[1], y[2]>> /\ {x[1], x[2], y[1], y[2]} \subseteq Nat
      OBVIOUS
    <3> QED
      BY <3>1 DEF Before
  <2>6. \A x, y, z \in S : Before(x, y) /\ Before(y, z) => Before(x, z)
    BY DEF Before
  <2> QED
    BY <2>1, <2>2, <2>3, <2>4, <2>5, <2>6 DEF SP!Orders
<1> HIDE DEF f, before
<1> QED
  <2>1. Lists(f, S)
    BY ONLY <1>1, <1>4, <1>5, ListsIs
  <2> QED
    BY <2>1 DEF f, Ranked

LEMMA RankedNumbers ==
  ASSUME NEW S \in SUBSET Nat, IsFiniteSet(S)
  PROVE  Lists(Ranked(S, <), S)
<1> DEFINE before == [x \in S |-> {y \in S : y < x}]
           f == Ranked(S, <)
<1>1. DOMAIN f = 1 .. Cardinality(S)
  BY DEF Ranked
<1>2. \A n \in 1 .. Cardinality(S) : f[n] = CHOOSE x \in S : Cardinality({y \in S : y < x}) = n - 1
  BY DEF Ranked
<1>3. \A x \in S : before[x] = {y \in S : y < x}
  OBVIOUS
<1>4. SP!Ranks(f, before, S)
  <2>1. \A X : SP!Cardinality(X) = Cardinality(X)
    BY DEF SP!Cardinality, Cardinality
  <2> HIDE DEF f, before
  <2> QED
    BY <1>2, <1>3, <2>1 DEF SP!Ranks
<1>5. SP!Orders(before, S)
  <2>1. before \in [S -> SUBSET S]
    OBVIOUS
  <2>2. SP!IsFiniteSet(S)
    BY DEF SP!IsFiniteSet, IsFiniteSet
  <2>3. \A x, y \in S : x \in before[y] <=> x < y
    OBVIOUS
  <2> HIDE DEF before
  <2> QED
    <3>1. \A x, y, z \in S : x < y /\ y < z => x < z
      OBVIOUS
    <3>2. \A x, y \in S : x # y => x < y \/ y < x
      OBVIOUS
    <3>3. \A x \in S : ~(x < x)
      OBVIOUS
    <3> QED
      BY <2>1, <2>2, <2>3, <3>1, <3>2, <3>3 DEF SP!Orders
<1> HIDE DEF f, before
<1> QED
  <2>1. Lists(f, S)
    BY ONLY <1>1, <1>4, <1>5, ListsIs
  <2> QED
    BY <2>1 DEF f, Ranked
-----------------------------------------------------------------------------
(* One batch to the tables.                                                 *)

\* A sequence, of whatever.
IsSequence(s) == s \in Seq({s[i] : i \in DOMAIN s})

\* A sequence of rows, and whether it has one of an object of a feature.
AreRows(s) ==
  /\ IsSequence(s)
  /\ \A i \in DOMAIN s : {"feature", "id", "type"} \subseteq DOMAIN s[i]

Has(s, key, x) == \E i \in DOMAIN s : s[i].feature = key /\ s[i].id = x

\* A sequence with members of any kind.
LEMMA SequenceIs ==
  ASSUME NEW n \in Nat, NEW f, f = [i \in 1 .. n |-> f[i]]
  PROVE  IsSequence(f) /\ Len(f) = n /\ DOMAIN f = 1 .. n
<1> DEFINE S == {f[i] : i \in DOMAIN f}
<1>1. DOMAIN f = 1 .. n
  OBVIOUS
<1>2. \A i \in 1 .. n : f[i] \in S
  BY <1>1
<1> HIDE DEF S
<1>3. f \in [1 .. n -> S]
  BY <1>2
<1>4. f \in Seq(S)
  BY <1>3
<1>5. Len(f) = n
  BY <1>1, <1>4
<1> QED
  BY <1>1, <1>4, <1>5 DEF S, IsSequence

\* One sequence after another.
Joins(j, s, t) ==
  /\ IsSequence(j)
  /\ Len(s) \in Nat /\ Len(t) \in Nat /\ Len(j) = Len(s) + Len(t)
  /\ DOMAIN s = 1 .. Len(s) /\ DOMAIN t = 1 .. Len(t) /\ DOMAIN j = 1 .. Len(s) + Len(t)
  /\ \A i \in DOMAIN s : j[i] = s[i]
  /\ \A i \in DOMAIN t : j[Len(s) + i] = t[i]
  /\ \A i \in DOMAIN j : i \in DOMAIN s \/ \E k \in DOMAIN t : i = Len(s) + k

LEMMA JoinIs ==
  ASSUME NEW s, IsSequence(s), NEW t, IsSequence(t)
  PROVE  Joins(s \o t, s, t)
<1> DEFINE A == {s[i] : i \in DOMAIN s}
           B == {t[i] : i \in DOMAIN t}
           S == A \cup B
           j == s \o t
<1>1. s \in Seq(A) /\ t \in Seq(B)
  BY DEF IsSequence
<1> HIDE DEF A, B
<1>2. s \in Seq(S) /\ t \in Seq(S)
  BY <1>1
<1> HIDE DEF S
<1>3. /\ j \in Seq(S) /\ Len(s) \in Nat /\ Len(t) \in Nat /\ Len(j) = Len(s) + Len(t)
      /\ DOMAIN s = 1 .. Len(s) /\ DOMAIN t = 1 .. Len(t) /\ DOMAIN j = 1 .. Len(s) + Len(t)
  BY <1>2
<1>4. \A i \in 1 .. Len(s) : j[i] = s[i]
  BY <1>2, <1>3
<1>5. \A i \in 1 .. Len(t) : j[Len(s) + i] = t[i]
  BY <1>2, <1>3
<1> HIDE DEF j
<1>6. \A i \in 1 .. Len(s) + Len(t) : i \in 1 .. Len(s) \/ \E k \in 1 .. Len(t) : i = Len(s) + k
  <2> SUFFICES ASSUME NEW i \in 1 .. Len(s) + Len(t), i \notin 1 .. Len(s) PROVE i - Len(s) \in 1 .. Len(t) /\ i = Len(s) + (i - Len(s))
    OBVIOUS
  <2> QED
    BY <1>3
<1>7. j = [i \in 1 .. Len(j) |-> j[i]] /\ Len(j) \in Nat
  BY <1>3
<1>8. IsSequence(j)
  BY <1>7, SequenceIs
<1> QED
  BY <1>3, <1>4, <1>5, <1>6, <1>8 DEF j, Joins, IsSequence

\* The rows of a batch for a file: all of them, and nothing else.
RowsAre(picked, exts, batch, file) ==
  /\ AreRows(picked)
  /\ \A n \in DOMAIN picked : \E i \in DOMAIN batch :
       /\ KeysOf(exts, batch)[i] = RowKey(exts, picked[n].type) /\ FileOf(KeysOf(exts, batch)[i]) = file
       /\ batch[i].feature = picked[n].feature /\ batch[i].id = picked[n].id
  /\ \A i \in DOMAIN batch : FileOf(KeysOf(exts, batch)[i]) = file =>
       Has(picked, batch[i].feature, batch[i].id)

\* A batch has a row of an object, for a file.
Brings(exts, batch, file, key, x) ==
  \E i \in DOMAIN batch :
    FileOf(KeysOf(exts, batch)[i]) = file /\ batch[i].feature = key /\ batch[i].id = x

LEMMA RowsForAre ==
  ASSUME NEW exts, NEW found, NEW batch, AreRows(batch), NEW file
  PROVE  RowsAre(RowsFor(exts, found, batch, file), exts, batch, file)
<1> DEFINE keys == KeysOf(exts, batch)
           first == [i \in DOMAIN batch |->
                       CHOOSE j \in DOMAIN batch : keys[j] = keys[i] /\ \A k \in 1 .. j - 1 : keys[k] # keys[i]]
           I == {i \in DOMAIN batch : FileOf(keys[i]) = file}
           S == {<<first[i], i>> : i \in I}
           places == Ranked(S, Before)
           picked == RowsFor(exts, found, batch, file)
<1>1. Len(batch) \in Nat /\ DOMAIN batch = 1 .. Len(batch)
      /\ \A i \in DOMAIN batch : {"feature", "id", "type"} \subseteq DOMAIN batch[i]
  BY DEF AreRows, IsSequence
<1>2. \A i \in DOMAIN batch : keys[i] = RowKey(exts, batch[i].type)
  BY DEF KeysOf
<1> HIDE DEF keys
<1>3. \A i \in DOMAIN batch : first[i] \in DOMAIN batch
  <2> TAKE i \in DOMAIN batch
  <2> DEFINE same == {j \in DOMAIN batch : keys[j] = keys[i]}
  <2>1. same \in SUBSET Nat /\ same # {}
    BY <1>1
  <2>2. PICK j \in same : \A k \in same : j <= k
    BY <2>1, SP!LeastNumber
  <2>3. \A k \in 1 .. j - 1 : keys[k] # keys[i]
    <3> SUFFICES ASSUME NEW k \in 1 .. j - 1, keys[k] = keys[i] PROVE FALSE
      OBVIOUS
    <3>1. k \in same /\ k < j
      BY <1>1, <2>2
    <3> QED
      BY <1>1, <2>2, <3>1
  <2> QED
    BY <2>2, <2>3
<1>4. picked = [n \in DOMAIN places |-> Projected(found, file, batch[places[n][2]])]
  BY DEF RowsFor, keys
<1> HIDE DEF first, picked
<1>5. S \in SUBSET (Nat \X Nat)
  BY <1>1, <1>3
<1>6. IsFiniteSet(S)
  <2>1. IsFiniteSet(I)
    <3>1. I \in SUBSET (1 .. Len(batch))
      BY <1>1
    <3>2. IsFiniteSet(1 .. Len(batch))
      BY <1>1, FS_Interval
    <3> HIDE DEF I
    <3> QED
      BY <3>1, <3>2, FS_Subset
  <2> DEFINE pair == [i \in I |-> <<first[i], i>>]
  <2>2. pair \in Surjection(I, S)
    BY DEF Surjection
  <2> HIDE DEF pair, S, I
  <2> QED
    BY <2>1, <2>2, FS_Surjection
<1>7. Lists(places, S)
  BY <1>5, <1>6, RankedPairs
<1>8. /\ \A n \in DOMAIN places : \E i \in I : places[n][2] = i
      /\ \A i \in I : \E n \in DOMAIN places : places[n][2] = i
  <2>1. \A i \in I : <<first[i], i>> \in S
    OBVIOUS
  <2>2. \A y \in S : \E i \in I : y = <<first[i], i>>
    OBVIOUS
  <2> HIDE DEF places, I, S
  <2>3. /\ \A n \in DOMAIN places : places[n] \in S
        /\ \A y \in S : \E n \in DOMAIN places : places[n] = y
    BY <1>7 DEF Lists
  <2>4. \A n \in DOMAIN places : \E i \in I : places[n][2] = i
    <3> SUFFICES ASSUME NEW n \in DOMAIN places PROVE \E i \in I : places[n][2] = i
      OBVIOUS
    <3>1. PICK i \in I : places[n] = <<first[i], i>>
      BY <2>2, <2>3
    <3> QED
      BY <3>1
  <2>5. \A i \in I : \E n \in DOMAIN places : places[n][2] = i
    <3> SUFFICES ASSUME NEW i \in I PROVE \E n \in DOMAIN places : places[n][2] = i
      OBVIOUS
    <3>1. PICK n \in DOMAIN places : places[n] = <<first[i], i>>
      BY <2>1, <2>3
    <3> QED
      BY <3>1
  <2> QED
    BY <2>4, <2>5
<1> HIDE DEF places
<1>9. picked = [n \in 1 .. Cardinality(S) |-> picked[n]] /\ Cardinality(S) \in Nat
  BY <1>4, <1>7 DEF Lists
<1>10. /\ IsSequence(picked) /\ DOMAIN picked = 1 .. Cardinality(S)
       /\ Len(picked) = Cardinality(S)
  <2> HIDE DEF S
  <2> QED
    BY <1>9, SequenceIs
<1>11. \A n \in DOMAIN picked : \E i \in I : picked[n] = Projected(found, file, batch[i])
  BY <1>4, <1>8
<1>16. \A i \in I : \E n \in DOMAIN picked : picked[n] = Projected(found, file, batch[i])
  BY <1>4, <1>8
<1>12. \A i \in I : LET r == Projected(found, file, batch[i]) IN
         /\ {"feature", "id", "type"} \subseteq DOMAIN r
         /\ r.type = batch[i].type /\ r.feature = batch[i].feature /\ r.id = batch[i].id
  BY <1>1 DEF Projected
<1>13. AreRows(picked)
  BY <1>10, <1>11, <1>12 DEF AreRows
<1>14. \A n \in DOMAIN picked : \E i \in DOMAIN batch :
         /\ keys[i] = RowKey(exts, picked[n].type) /\ FileOf(keys[i]) = file
         /\ batch[i].feature = picked[n].feature /\ batch[i].id = picked[n].id
  BY <1>2, <1>11, <1>12
<1>15. \A i \in DOMAIN batch : FileOf(keys[i]) = file => Has(picked, batch[i].feature, batch[i].id)
  BY <1>12, <1>16 DEF Has
<1> QED
  BY <1>13, <1>14, <1>15 DEF RowsAre, picked, keys

\* A table that opened for a module: its file is nobody else's, its rows are
\* of that module, or of core modules that share its file.
TableIs(exts, t) ==
  /\ t = [file |-> t.file, key |-> t.key, rows |-> t.rows]
  /\ t.file = FileOf(t.key) /\ t.file \notin ReservedFiles
  /\ t.key.space # "" => t.key.space \notin CoreFiles
  /\ AreRows(t.rows) /\ t.rows # <<>>
  /\ \A i \in DOMAIN t.rows : LET key == RowKey(exts, t.rows[i].type) IN
       FileOf(key) = t.file /\ (key = t.key \/ (key.core # "" /\ t.key.core # ""))

TablesAre(exts, tabs) ==
  /\ IsSequence(tabs)
  /\ \A t \in DOMAIN tabs : TableIs(exts, tabs[t])
  /\ \A t, u \in DOMAIN tabs : tabs[t].file = tabs[u].file => t = u

\* What a batch that is not refused says of its modules.
LEMMA NotRefused ==
  ASSUME NEW exts, NEW tabs, NEW batch, ~BatchRefused(exts, tabs, batch)
  PROVE  LET keys == KeysOf(exts, batch) IN
         /\ \A i \in DOMAIN batch :
              /\ FileOf(keys[i]) \notin ReservedFiles
              /\ keys[i].space # "" => keys[i].space \notin CoreFiles
              /\ \A t \in DOMAIN tabs : tabs[t].file = FileOf(keys[i]) =>
                   tabs[t].key = keys[i] \/ (tabs[t].key.core # "" /\ keys[i].core # "")
         /\ \A i, k \in DOMAIN batch : FileOf(keys[i]) = FileOf(keys[k]) =>
              keys[i] = keys[k] \/ (keys[i].core # "" /\ keys[k].core # "")
<1> DEFINE keys == KeysOf(exts, batch)
<1>1. DOMAIN keys = DOMAIN batch
  BY DEF KeysOf
<1> HIDE DEF keys
<1>2. \A i \in DOMAIN batch : keys[i] \in ToSet(keys)
  BY <1>1 DEF ToSet
<1>3. /\ \A key \in ToSet(keys) : ~Refused(tabs, key)
      /\ \A j, k \in ToSet(keys) : j # k /\ FileOf(j) = FileOf(k) => j.core # "" /\ k.core # ""
  BY DEF BatchRefused, keys
<1>4. \A i \in DOMAIN batch : ~Refused(tabs, keys[i])
  BY <1>2, <1>3
<1>5. ASSUME NEW i \in DOMAIN batch
      PROVE  /\ FileOf(keys[i]) \notin ReservedFiles
             /\ keys[i].space # "" => keys[i].space \notin CoreFiles
             /\ \A t \in DOMAIN tabs : tabs[t].file = FileOf(keys[i]) =>
                  tabs[t].key = keys[i] \/ (tabs[t].key.core # "" /\ keys[i].core # "")
  BY <1>4 DEF Refused, TableOf
<1>6. \A i, k \in DOMAIN batch : FileOf(keys[i]) = FileOf(keys[k]) =>
        keys[i] = keys[k] \/ (keys[i].core # "" /\ keys[k].core # "")
  BY <1>2, <1>3
<1> QED
  BY <1>5, <1>6 DEF keys

\* A table that is there takes its rows of a batch.
Takes(grown, exts, found, batch, t) == grown = [t EXCEPT !.rows = @ \o RowsFor(exts, found, batch, t.file)]

LEMMA TableGrows ==
  ASSUME NEW exts, NEW found, NEW tabs, NEW batch, AreRows(batch), ~BatchRefused(exts, tabs, batch),
         NEW t \in DOMAIN tabs, TableIs(exts, tabs[t]),
         NEW grown, Takes(grown, exts, found, batch, tabs[t])
  PROVE  /\ TableIs(exts, grown) /\ grown.file = tabs[t].file
         /\ \A key, x : Has(grown.rows, key, x) <=>
              Has(tabs[t].rows, key, x) \/ Brings(exts, batch, tabs[t].file, key, x)
<1> DEFINE keys == KeysOf(exts, batch)
           picked == RowsFor(exts, found, batch, tabs[t].file)
           more == tabs[t].rows \o picked
<1>1. RowsAre(picked, exts, batch, tabs[t].file)
  BY RowsForAre
<1>2. grown = [file |-> tabs[t].file, key |-> tabs[t].key, rows |-> more]
  BY DEF TableIs, Takes
<1> HIDE DEF picked
<1>3. AreRows(picked) /\ AreRows(tabs[t].rows)
  BY <1>1 DEF RowsAre, TableIs
<1>4. /\ IsSequence(more)
      /\ Len(tabs[t].rows) \in Nat /\ Len(picked) \in Nat
      /\ DOMAIN tabs[t].rows = 1 .. Len(tabs[t].rows) /\ DOMAIN picked = 1 .. Len(picked)
      /\ DOMAIN more = 1 .. Len(tabs[t].rows) + Len(picked)
      /\ \A i \in DOMAIN more :
           (i \in DOMAIN tabs[t].rows /\ more[i] = tabs[t].rows[i]) \/ \E k \in DOMAIN picked : more[i] = picked[k]
      /\ \A i \in DOMAIN tabs[t].rows : \E j \in DOMAIN more : more[j] = tabs[t].rows[i]
      /\ \A k \in DOMAIN picked : \E j \in DOMAIN more : more[j] = picked[k]
  <2>1. Joins(more, tabs[t].rows, picked)
    BY <1>3, JoinIs DEF AreRows
  <2> HIDE DEF more
  <2>2. /\ IsSequence(more)
        /\ Len(tabs[t].rows) \in Nat /\ Len(picked) \in Nat
        /\ DOMAIN tabs[t].rows = 1 .. Len(tabs[t].rows) /\ DOMAIN picked = 1 .. Len(picked)
        /\ DOMAIN more = 1 .. Len(tabs[t].rows) + Len(picked)
        /\ \A i \in DOMAIN tabs[t].rows : more[i] = tabs[t].rows[i]
        /\ \A k \in DOMAIN picked : more[Len(tabs[t].rows) + k] = picked[k]
        /\ \A i \in DOMAIN more : i \in DOMAIN tabs[t].rows \/ \E k \in DOMAIN picked : i = Len(tabs[t].rows) + k
    BY <2>1 DEF Joins
  <2>3. /\ \A i \in DOMAIN tabs[t].rows : i \in DOMAIN more
        /\ \A k \in DOMAIN picked : Len(tabs[t].rows) + k \in DOMAIN more
    BY <2>2
  <2> QED
    BY <2>2, <2>3
<1> HIDE DEF more
<1>5. more # <<>>
  <2>1. tabs[t].rows # <<>> /\ IsSequence(tabs[t].rows)
    BY <1>3 DEF TableIs, AreRows
  <2>2. Len(tabs[t].rows) >= 1
    BY <1>4, <2>1 DEF IsSequence
  <2>3. 1 \in DOMAIN more
    BY <1>4, <2>2
  <2> QED
    BY <2>3
<1>6. AreRows(more)
  BY <1>3, <1>4 DEF AreRows
<1>7. ASSUME NEW i \in DOMAIN more
      PROVE  LET key == RowKey(exts, more[i].type) IN
             FileOf(key) = tabs[t].file /\ (key = tabs[t].key \/ (key.core # "" /\ tabs[t].key.core # ""))
  <2>1. CASE i \in DOMAIN tabs[t].rows /\ more[i] = tabs[t].rows[i]
    BY <2>1 DEF TableIs
  <2>2. CASE \E k \in DOMAIN picked : more[i] = picked[k]
    <3>1. PICK k \in DOMAIN picked : more[i] = picked[k]
      BY <2>2
    <3>2. PICK n \in DOMAIN batch : keys[n] = RowKey(exts, picked[k].type) /\ FileOf(keys[n]) = tabs[t].file
      BY <1>1 DEF RowsAre
    <3>3. tabs[t].key = keys[n] \/ (tabs[t].key.core # "" /\ keys[n].core # "")
      BY <3>2, NotRefused
    <3> HIDE DEF keys
    <3> QED
      BY <3>1, <3>2, <3>3
  <2> QED
    BY <1>4, <2>1, <2>2
<1>8. grown.file = tabs[t].file /\ grown.key = tabs[t].key /\ grown.rows = more
  BY <1>2
<1>9. ASSUME NEW key, NEW x
      PROVE  Has(more, key, x) <=> Has(tabs[t].rows, key, x) \/ Brings(exts, batch, tabs[t].file, key, x)
  <2>1. Has(more, key, x) <=> Has(tabs[t].rows, key, x) \/ Has(picked, key, x)
    BY <1>4 DEF Has
  <2>2. Has(picked, key, x) <=> Brings(exts, batch, tabs[t].file, key, x)
    BY <1>1 DEF RowsAre, Has, Brings
  <2> QED
    BY <2>1, <2>2
<1>10. TableIs(exts, grown)
  BY <1>2, <1>5, <1>6, <1>7, <1>8 DEF TableIs
<1> QED
  BY <1>8, <1>9, <1>10

\* A module opens the table its first row goes to.
LEMMA TableOpens ==
  ASSUME NEW exts, NEW found, NEW tabs, NEW batch, AreRows(batch), ~BatchRefused(exts, tabs, batch),
         NEW i \in DOMAIN batch, NEW key, key = KeysOf(exts, batch)[i],
         NEW opened, opened = [file |-> FileOf(key), key |-> key, rows |-> RowsFor(exts, found, batch, FileOf(key))]
  PROVE  /\ TableIs(exts, opened)
         /\ \A y, x : Has(opened.rows, y, x) <=> Brings(exts, batch, FileOf(key), y, x)
<1> DEFINE keys == KeysOf(exts, batch)
           picked == RowsFor(exts, found, batch, FileOf(key))
<1>1. RowsAre(picked, exts, batch, FileOf(key))
  BY RowsForAre
<1> HIDE DEF picked
<1>2. opened.file = FileOf(key) /\ opened.key = key /\ opened.rows = picked
  BY DEF picked
<1>3. FileOf(key) \notin ReservedFiles /\ (key.space # "" => key.space \notin CoreFiles)
  BY NotRefused
<1>4. AreRows(picked) /\ picked # <<>>
  <2>1. Has(picked, batch[i].feature, batch[i].id)
    BY <1>1 DEF RowsAre
  <2> QED
    BY <1>1, <2>1 DEF RowsAre, Has
<1>5. ASSUME NEW k \in DOMAIN picked
      PROVE  LET other == RowKey(exts, picked[k].type) IN
             FileOf(other) = FileOf(key) /\ (other = key \/ (other.core # "" /\ key.core # ""))
  <2>1. PICK n \in DOMAIN batch : keys[n] = RowKey(exts, picked[k].type) /\ FileOf(keys[n]) = FileOf(key)
    BY <1>1 DEF RowsAre
  <2>2. keys[n] = key \/ (keys[n].core # "" /\ key.core # "")
    BY <2>1, NotRefused
  <2> HIDE DEF keys
  <2> QED
    BY <2>1, <2>2
<1>6. \A y, x : Has(picked, y, x) <=> Brings(exts, batch, FileOf(key), y, x)
  BY <1>1 DEF RowsAre, Has, Brings
<1>7. TableIs(exts, opened)
  BY <1>2, <1>3, <1>4, <1>5 DEF TableIs
<1> QED
  BY <1>2, <1>6, <1>7

\* Whether a table has a row of an object of a feature.
Stores(tabs, key, x) == \E t \in DOMAIN tabs : Has(tabs[t].rows, key, x)

\* A batch leaves every table with one owner, and all its rows are written.
LEMMA WriteKeeps ==
  ASSUME NEW exts, NEW found, NEW tabs, TablesAre(exts, tabs), NEW batch, AreRows(batch),
         ~BatchRefused(exts, tabs, batch)
  PROVE  /\ TablesAre(exts, WriteBatchOf(exts, found, tabs, batch))
         /\ \A key, x : Stores(WriteBatchOf(exts, found, tabs, batch), key, x) <=>
              Stores(tabs, key, x) \/ Has(batch, key, x)
<1> DEFINE keys == KeysOf(exts, batch)
           O == Opening(exts, tabs, batch)
           opening == Ranked(O, <)
           open(key) == [file |-> FileOf(key), key |-> key, rows |-> RowsFor(exts, found, batch, FileOf(key))]
           old == [t \in DOMAIN tabs |-> [tabs[t] EXCEPT !.rows = @ \o RowsFor(exts, found, batch, tabs[t].file)]]
           new == [n \in DOMAIN opening |-> open(keys[opening[n]])]
           all == old \o new
<1>1. WriteBatchOf(exts, found, tabs, batch) = all
  BY DEF WriteBatchOf
<1>2. /\ Len(batch) \in Nat /\ DOMAIN batch = 1 .. Len(batch)
      /\ Len(tabs) \in Nat /\ DOMAIN tabs = 1 .. Len(tabs)
  BY DEF AreRows, IsSequence, TablesAre
<1>3. O \in SUBSET (1 .. Len(batch))
  BY <1>2 DEF Opening
<1>18. \A i \in O : i \in Nat \ {0}
  BY ONLY <1>2, <1>3
<1>4. \A i \in O : /\ \A t \in DOMAIN tabs : tabs[t].file # FileOf(keys[i])
                   /\ \A k \in 1 .. i - 1 : FileOf(keys[k]) # FileOf(keys[i])
  BY DEF Opening, TableOf
<1>19. ASSUME NEW i \in DOMAIN batch, \A t \in DOMAIN tabs : tabs[t].file # FileOf(keys[i])
       PROVE  \E j \in O : FileOf(keys[j]) = FileOf(keys[i])
  <2> DEFINE same == {j \in DOMAIN batch : FileOf(keys[j]) = FileOf(keys[i])}
  <2> HIDE DEF keys
  <2>1. same \in SUBSET Nat /\ same # {}
    BY <1>2
  <2>2. PICK j \in same : \A k \in same : j <= k
    BY <2>1, SP!LeastNumber
  <2>3. \A k \in 1 .. j - 1 : FileOf(keys[k]) # FileOf(keys[j])
    <3> SUFFICES ASSUME NEW k \in 1 .. j - 1, FileOf(keys[k]) = FileOf(keys[j]) PROVE FALSE
      OBVIOUS
    <3>1. k \in same /\ k < j
      BY <1>2, <2>2
    <3> QED
      BY <1>2, <2>2, <3>1
  <2>4. TableOf(tabs, FileOf(keys[j])) = {}
    BY <1>19, <2>2 DEF TableOf
  <2> QED
    BY <2>2, <2>3, <2>4 DEF Opening, keys
<1> HIDE DEF O, keys
<1>5. Lists(opening, O)
  <2>1. IsFiniteSet(1 .. Len(batch))
    BY <1>2, FS_Interval
  <2>2. IsFiniteSet(O)
    BY <1>3, <2>1, FS_Subset
  <2>3. O \in SUBSET Nat
    BY ONLY <1>2, <1>3
  <2> QED
    BY <2>2, <2>3, RankedNumbers
<1> HIDE DEF opening
<1>6. /\ Cardinality(O) \in Nat /\ DOMAIN opening = 1 .. Cardinality(O)
      /\ \A n \in DOMAIN opening : opening[n] \in O
      /\ \A m, n \in DOMAIN opening : m < n => opening[m] # opening[n]
      /\ \A i \in O : \E n \in DOMAIN opening : opening[n] = i
  BY <1>5 DEF Lists
<1>7. IsSequence(old) /\ DOMAIN old = DOMAIN tabs
  <2>1. old = [t \in 1 .. Len(tabs) |-> old[t]]
    BY <1>2
  <2> HIDE DEF old
  <2> QED
    BY <1>2, <2>1, SequenceIs
<1>8. \A t \in DOMAIN tabs : old[t] = [tabs[t] EXCEPT !.rows = @ \o RowsFor(exts, found, batch, tabs[t].file)]
  OBVIOUS
<1>9. IsSequence(new) /\ DOMAIN new = DOMAIN opening
  <2>1. new = [n \in 1 .. Cardinality(O) |-> new[n]]
    BY <1>6
  <2> HIDE DEF new
  <2> QED
    BY <1>6, <2>1, SequenceIs
<1>10. \A n \in DOMAIN opening : new[n] = open(keys[opening[n]])
  OBVIOUS
<1> HIDE DEF old
<1>11. ASSUME NEW t \in DOMAIN tabs
       PROVE  /\ TableIs(exts, old[t]) /\ old[t].file = tabs[t].file
              /\ \A key, x : Has(old[t].rows, key, x) <=>
                   Has(tabs[t].rows, key, x) \/ Brings(exts, batch, tabs[t].file, key, x)
  <2>1. TableIs(exts, tabs[t])
    BY DEF TablesAre
  <2> DEFINE grown == old[t]
  <2>2. Takes(grown, exts, found, batch, tabs[t])
    BY <1>8 DEF Takes
  <2> HIDE DEF grown
  <2>3. /\ TableIs(exts, grown) /\ grown.file = tabs[t].file
        /\ \A key, x : Has(grown.rows, key, x) <=>
             Has(tabs[t].rows, key, x) \/ Brings(exts, batch, tabs[t].file, key, x)
    BY <2>1, <2>2, TableGrows
  <2> QED
    BY <2>3 DEF grown
<1>12. ASSUME NEW n \in DOMAIN opening
       PROVE  /\ TableIs(exts, new[n]) /\ new[n].file = FileOf(keys[opening[n]])
              /\ \A key, x : Has(new[n].rows, key, x) <=> Brings(exts, batch, FileOf(keys[opening[n]]), key, x)
  <2> DEFINE i == opening[n]
             table == new[n]
  <2>1. i \in DOMAIN batch
    BY <1>2, <1>3, <1>6
  <2>2. table = [file |-> FileOf(keys[i]), key |-> keys[i], rows |-> RowsFor(exts, found, batch, FileOf(keys[i]))]
    BY <1>10
  <2> HIDE DEF table, i
  <2>3. /\ TableIs(exts, table)
        /\ \A key, x : Has(table.rows, key, x) <=> Brings(exts, batch, FileOf(keys[i]), key, x)
    BY <2>1, <2>2, TableOpens DEF keys
  <2> QED
    BY <2>2, <2>3 DEF table, i
<1> HIDE DEF new
<1>13. Joins(all, old, new)
  BY <1>7, <1>9, JoinIs
<1> HIDE DEF all
<1>14. /\ IsSequence(all)
       /\ \A i \in DOMAIN all : (i \in DOMAIN tabs /\ all[i] = old[i])
                                \/ \E n \in DOMAIN opening : i = Len(old) + n /\ all[i] = new[n]
       /\ \A t \in DOMAIN tabs : \E i \in DOMAIN all : all[i] = old[t]
       /\ \A n \in DOMAIN opening : \E i \in DOMAIN all : all[i] = new[n]
  BY <1>7, <1>9, <1>13 DEF Joins
<1>15. \A i \in DOMAIN all : TableIs(exts, all[i])
  BY <1>11, <1>12, <1>14
<1>16. ASSUME NEW t \in DOMAIN all, NEW u \in DOMAIN all, all[t].file = all[u].file PROVE t = u
  <2>1. CASE t \in DOMAIN tabs /\ all[t] = old[t] /\ u \in DOMAIN tabs /\ all[u] = old[u]
    BY <1>11, <1>16, <2>1 DEF TablesAre
  <2>2. ASSUME NEW v \in DOMAIN tabs, NEW n \in DOMAIN opening, old[v].file = new[n].file PROVE FALSE
    BY <1>4, <1>6, <1>11, <1>12, <2>2
  <2>3. ASSUME NEW m \in DOMAIN opening, NEW n \in DOMAIN opening, new[m].file = new[n].file PROVE m = n
    <3>1. FileOf(keys[opening[m]]) = FileOf(keys[opening[n]])
      BY <1>12, <2>3
    <3>2. opening[m] \in O /\ opening[n] \in O /\ opening[m] \in Nat \ {0} /\ opening[n] \in Nat \ {0}
      <4>1. opening[m] \in O /\ opening[n] \in O
        BY <1>6
      <4> QED
        BY <1>18, <4>1
    <3>3. ~(opening[m] < opening[n])
      <4> SUFFICES ASSUME opening[m] < opening[n] PROVE FALSE
        OBVIOUS
      <4>1. opening[m] \in 1 .. opening[n] - 1
        BY <3>2
      <4> QED
        BY <1>4, <3>1, <3>2, <4>1
    <3>4. ~(opening[n] < opening[m])
      <4> SUFFICES ASSUME opening[n] < opening[m] PROVE FALSE
        OBVIOUS
      <4>1. opening[n] \in 1 .. opening[m] - 1
        BY <3>2
      <4> QED
        BY <1>4, <3>1, <3>2, <4>1
    <3>5. opening[m] = opening[n]
      BY <3>2, <3>3, <3>4
    <3>6. m \in Nat /\ n \in Nat
      BY <1>6
    <3> QED
      BY <1>6, <3>5, <3>6
  <2> QED
    BY <1>14, <1>16, <2>1, <2>2, <2>3
<1>17. TablesAre(exts, all)
  BY <1>14, <1>15, <1>16 DEF TablesAre
<1>20. ASSUME NEW key, NEW x PROVE Stores(all, key, x) <=> Stores(tabs, key, x) \/ Has(batch, key, x)
  <2>1. Stores(all, key, x) <=> \/ \E t \in DOMAIN tabs : Has(old[t].rows, key, x)
                              \/ \E n \in DOMAIN opening : Has(new[n].rows, key, x)
    BY <1>14 DEF Stores
  <2>2. \A file : Brings(exts, batch, file, key, x) => Has(batch, key, x)
    BY DEF Brings, Has
  <2>3. ASSUME Has(batch, key, x) PROVE \/ \E t \in DOMAIN tabs : Has(old[t].rows, key, x)
                                      \/ \E n \in DOMAIN opening : Has(new[n].rows, key, x)
    <3>1. PICK i \in DOMAIN batch : batch[i].feature = key /\ batch[i].id = x
      BY <2>3 DEF Has
    <3>2. Brings(exts, batch, FileOf(keys[i]), key, x)
      BY <3>1 DEF Brings, keys
    <3>3. CASE \E t \in DOMAIN tabs : tabs[t].file = FileOf(keys[i])
      BY <1>11, <3>2, <3>3
    <3>4. CASE \A t \in DOMAIN tabs : tabs[t].file # FileOf(keys[i])
      <4>1. PICK n \in DOMAIN opening : FileOf(keys[opening[n]]) = FileOf(keys[i])
        BY <1>6, <1>19, <3>4
      <4> QED
        BY <1>12, <3>2, <4>1
    <3> QED
      BY <3>3, <3>4
  <2> QED
    BY <1>11, <1>12, <2>1, <2>2, <2>3 DEF Stores
<1> QED
  BY <1>1, <1>17, <1>20

\* What OneClaim says of the tables.
OneOwner(exts, t) ==
  LET owners == {IF key.core # "" THEN "" ELSE key.space :
                   key \in {RowKey(exts, t.rows[i].type) : i \in DOMAIN t.rows}}
  IN  /\ Cardinality(owners) = 1
      /\ owners # {""} => t.file \notin CoreFiles

LEMMA ClaimHolds ==
  ASSUME NEW exts, NEW t, TableIs(exts, t)
  PROVE  OneOwner(exts, t)
<1> DEFINE keysOf == {RowKey(exts, t.rows[i].type) : i \in DOMAIN t.rows}
           owners == {IF key.core # "" THEN "" ELSE key.space : key \in keysOf}
<1>1. \A key \in keysOf : key = t.key \/ (key.core # "" /\ t.key.core # "")
  BY DEF TableIs
<1>2. keysOf # {}
  <2>1. AreRows(t.rows) /\ t.rows # <<>>
    BY DEF TableIs
  <2>2. 1 \in DOMAIN t.rows
    BY <2>1 DEF AreRows, IsSequence
  <2> QED
    BY <2>2
<1> HIDE DEF keysOf
<1>3. CASE t.key.core # ""
  <2>1. owners = {""}
    BY <1>1, <1>2, <1>3
  <2> HIDE DEF owners
  <2>2. Cardinality(owners) = 1
    BY <2>1, FS_Singleton
  <2> QED
    BY <2>1, <2>2 DEF owners, keysOf, OneOwner
<1>4. CASE t.key.core = ""
  <2>1. owners = {t.key.space}
    BY <1>1, <1>2, <1>4
  <2>2. t.file = t.key.space /\ (t.key.space # "" => t.key.space \notin CoreFiles)
    BY <1>4 DEF TableIs, FileOf
  <2> HIDE DEF owners
  <2>3. Cardinality(owners) = 1
    BY <2>1, FS_Singleton
  <2> QED
    BY <2>1, <2>2, <2>3 DEF owners, keysOf, OneOwner
<1> QED
  BY <1>3, <1>4
-----------------------------------------------------------------------------
(* The rows are handed to the sorter with their keys.                        *)

\* The batch being built has as many keys as rows; its rows, and those pushed
\* before, are rows that were encoded.
EncoderIs ==
  /\ encoder = [feature |-> encoder.feature, row |-> encoder.row, key |-> encoder.key,
                batch |-> encoder.batch, keys |-> encoder.keys, defs |-> encoder.defs]
  /\ encoder.keys \in Seq(Nat) /\ encoder.key \in Nat
  /\ AreRows(encoder.batch) /\ Len(encoder.keys) = Len(encoder.batch)

RowsAreFed ==
  /\ AreRows(rows) /\ taken \in Nat
  /\ Len(pushed) + Len(encoder.batch) <= Len(rows)

Feeding == SP!IInv /\ EncoderIs /\ RowsAreFed

LEMMA EmptyIs == AreRows(<<>>) /\ Len(<<>>) = 0
BY DEF AreRows, IsSequence

LEMMA GrowsBy ==
  ASSUME NEW s, AreRows(s), NEW r, {"feature", "id", "type"} \subseteq DOMAIN r
  PROVE  AreRows(Append(s, r)) /\ Len(Append(s, r)) = Len(s) + 1 /\ Len(s) \in Nat
<1> DEFINE A == {s[i] : i \in DOMAIN s} \cup {r}
           more == Append(s, r)
<1>1. s \in Seq(A)
  <2> DEFINE B == {s[i] : i \in DOMAIN s}
  <2>1. s \in Seq(B)
    BY DEF AreRows, IsSequence
  <2> HIDE DEF B
  <2>2. s \in Seq(B \cup {r})
    BY <2>1
  <2> QED
    BY <2>2 DEF B
<1>2. r \in A
  OBVIOUS
<1> HIDE DEF A
<1>3. /\ more \in Seq(A) /\ Len(more) = Len(s) + 1 /\ Len(s) \in Nat /\ DOMAIN s = 1 .. Len(s)
      /\ DOMAIN more = 1 .. Len(s) + 1
  BY <1>1, <1>2
<1>4. \A i \in 1 .. Len(s) + 1 : (i \in DOMAIN s /\ more[i] = s[i]) \/ more[i] = r
  BY <1>1, <1>2, <1>3
<1> HIDE DEF more
<1>5. more = [i \in 1 .. Len(s) + 1 |-> more[i]] /\ Len(s) + 1 \in Nat
  BY <1>3
<1>6. IsSequence(more)
  BY <1>5, SequenceIs
<1>7. \A i \in DOMAIN more : {"feature", "id", "type"} \subseteq DOMAIN more[i]
  BY <1>3, <1>4 DEF AreRows
<1> QED
  BY <1>3, <1>6, <1>7 DEF AreRows, more

LEMMA InitFeeds ==
  ASSUME Init
  PROVE  Feeding
<1>1. SP!Init
  BY DEF Init, Sort!Init, SP!Init
<1>2. SP!IInv
  BY <1>1, SP!InitHolds
<1>3. EncoderIs
  BY EmptyIs DEF Init, EncoderIs
<1>4. RowsAreFed
  <2>1. pushed = <<>>
    BY DEF Init, Sort!Init
  <2> QED
    BY <2>1, EmptyIs DEF Init, RowsAreFed
<1> QED
  BY <1>2, <1>3, <1>4 DEF Feeding

\* How many rows have been pushed is a number.
LEMMA PushedIs ==
  ASSUME SP!IInv
  PROVE  Len(pushed) \in Nat
BY DEF SP!IInv, SP!InputIs, SP!Numbered

\* Steps that leave the sorter, the encoder and the rows alone.
LEMMA FeedStutters ==
  ASSUME Feeding, UNCHANGED <<encoder, rows, taken, sort>>
  PROVE  Feeding'
<1>1. UNCHANGED SP!vars
  BY DEF sort, SP!vars
<1>2. SP!IInv'
  BY <1>1, SP!StutterKeeps DEF Feeding
<1>3. EncoderIs'
  BY DEF Feeding, EncoderIs
<1>4. RowsAreFed'
  BY DEF Feeding, RowsAreFed, sort
<1> QED
  BY <1>2, <1>3, <1>4 DEF Feeding

\* A feature without objects.
LEMMA PassFeeds ==
  ASSUME Feeding, PassFeature
  PROVE  Feeding'
<1>1. UNCHANGED SP!vars
  BY DEF PassFeature, sort, SP!vars
<1>2. SP!IInv'
  BY <1>1, SP!StutterKeeps DEF Feeding
<1>3. /\ encoder' = [encoder EXCEPT !.feature = @ + 1]
      /\ UNCHANGED <<rows, taken, pushed>>
  BY DEF PassFeature, sort
<1>4. /\ encoder'.keys = encoder.keys /\ encoder'.key = encoder.key /\ encoder'.batch = encoder.batch
      /\ encoder' = [feature |-> encoder'.feature, row |-> encoder'.row, key |-> encoder'.key,
                     batch |-> encoder'.batch, keys |-> encoder'.keys, defs |-> encoder'.defs]
  BY <1>3 DEF Feeding, EncoderIs
<1>5. EncoderIs'
  BY <1>4 DEF Feeding, EncoderIs
<1>6. RowsAreFed'
  BY <1>3, <1>4 DEF Feeding, RowsAreFed
<1> QED
  BY <1>2, <1>5, <1>6 DEF Feeding

\* A row and its key are added together.
LEMMA EncodeFeeds ==
  ASSUME Feeding, EncodeObject
  PROVE  Feeding'
<1>1. UNCHANGED <<taken, sort>>
  BY DEF EncodeObject
<1>2. UNCHANGED SP!vars
  BY <1>1 DEF sort, SP!vars
<1>3. SP!IInv'
  BY <1>2, SP!StutterKeeps DEF Feeding
<1>4. CASE UNCHANGED <<encoder, rows>>
  BY <1>1, <1>4, FeedStutters
<1>5. ASSUME NEW row, {"feature", "id", "type"} \subseteq DOMAIN row,
             \E key \in Nat : \E feature, next, defs :
               /\ encoder' = [feature |-> feature, row |-> next, key |-> key, batch |-> Append(encoder.batch, row),
                              keys |-> Append(encoder.keys, key), defs |-> defs]
               /\ rows' = Append(rows, row)
      PROVE  Feeding'
  <2>1. PICK key \in Nat :
          /\ encoder'.key = key /\ encoder'.batch = Append(encoder.batch, row)
          /\ encoder'.keys = Append(encoder.keys, key)
          /\ encoder' = [feature |-> encoder'.feature, row |-> encoder'.row, key |-> encoder'.key,
                         batch |-> encoder'.batch, keys |-> encoder'.keys, defs |-> encoder'.defs]
          /\ rows' = Append(rows, row)
    BY <1>5
  <2>2. /\ AreRows(encoder'.batch) /\ Len(encoder'.batch) = Len(encoder.batch) + 1 /\ Len(encoder.batch) \in Nat
        /\ AreRows(rows') /\ Len(rows') = Len(rows) + 1 /\ Len(rows) \in Nat
    <3>1. AreRows(encoder.batch) /\ AreRows(rows)
      BY DEF Feeding, EncoderIs, RowsAreFed
    <3>2. \A s : AreRows(s) => AreRows(Append(s, row)) /\ Len(Append(s, row)) = Len(s) + 1 /\ Len(s) \in Nat
      BY <1>5, GrowsBy
    <3>3. /\ AreRows(Append(encoder.batch, row)) /\ Len(Append(encoder.batch, row)) = Len(encoder.batch) + 1
          /\ AreRows(Append(rows, row)) /\ Len(Append(rows, row)) = Len(rows) + 1
          /\ Len(encoder.batch) \in Nat /\ Len(rows) \in Nat
      BY <3>1, <3>2
    <3> QED
      BY <2>1, <3>3
  <2>3. encoder'.keys \in Seq(Nat) /\ Len(encoder'.keys) = Len(encoder.keys) + 1
    BY <2>1 DEF Feeding, EncoderIs
  <2>4. EncoderIs'
    BY <2>1, <2>2, <2>3 DEF Feeding, EncoderIs
  <2>5. pushed' = pushed /\ Len(pushed) \in Nat
    BY <1>1, PushedIs DEF sort, Feeding
  <2>6. RowsAreFed'
    BY <1>1, <2>2, <2>5 DEF Feeding, RowsAreFed
  <2> QED
    BY <1>3, <2>4, <2>6 DEF Feeding
<1> DEFINE f == Feature
           id == RowIds(f)[encoder.row]
           defs0 == DefsAfter(src, f, f.objects[id], encoder.defs)
           row0 == EncodedRow(src, scan, f, id, defs0)
<1>6. {"feature", "id", "type"} \subseteq DOMAIN row0
  BY DEF EncodedRow
<1>7. ConstantsAssumption /\ encoder.key \in Nat
  BY ConstantsAssumption DEF Feeding, EncoderIs
<1>8. \/ UNCHANGED <<encoder, rows>>
      \/ \E key \in Nat : \E feature, next, defs :
             /\ encoder' = [feature |-> feature, row |-> next, key |-> key, batch |-> Append(encoder.batch, row0),
                            keys |-> Append(encoder.keys, key), defs |-> defs]
             /\ rows' = Append(rows, row0)
  <2> HIDE DEF row0, defs0, id, f
  <2> QED
    BY <1>7 DEF EncodeObject, ConstantsAssumption, row0, defs0, id, f
<1> HIDE DEF row0, defs0, id, f
<1> QED
  BY <1>4, <1>5, <1>6, <1>8

\* A batch that is due has rows, and as many keys.
LEMMA DueHasKeys ==
  ASSUME Feeding, BatchDue
  PROVE  encoder.keys \in Seq(Nat) /\ encoder.keys # <<>> /\ Len(encoder.keys) = Len(encoder.batch)
<1>1. BatchSize \in Nat \ {0}
  BY ConstantsAssumption DEF ConstantsAssumption
<1>2. encoder.keys \in Seq(Nat) /\ Len(encoder.keys) = Len(encoder.batch) /\ AreRows(encoder.batch)
  BY DEF Feeding, EncoderIs
<1>3. encoder.batch # <<>>
  BY <1>1, EmptyIs DEF BatchDue
<1>4. Len(encoder.batch) # 0
  BY <1>2, <1>3 DEF AreRows, IsSequence
<1> QED
  BY <1>2, <1>4

\* The rows of a batch that is pushed.
LEMMA PushedGrow ==
  ASSUME SP!IInv, NEW keys \in Seq(Nat), pushed' = pushed \o Sort!Keyed(keys)
  PROVE  Len(pushed') = Len(pushed) + Len(keys)
<1> DEFINE S == Nat \X Nat
           more == [i \in 1 .. Len(keys) |-> <<keys[i], Len(pushed) + i>>]
<1>1. pushed \in Seq(S) /\ Len(pushed) \in Nat
  BY DEF SP!IInv, SP!InputIs, SP!Numbered, SP!Row
<1>2. \A i \in 1 .. Len(keys) : more[i] \in S
  BY <1>1
<1>3. pushed' = pushed \o more
  <2>1. DOMAIN keys = 1 .. Len(keys)
    OBVIOUS
  <2>2. Sort!Keyed(keys) = more
    BY <2>1 DEF Sort!Keyed
  <2> QED
    BY <2>2
<1>4. more = [i \in 1 .. Len(keys) |-> more[i]] /\ Len(keys) \in Nat
  OBVIOUS
<1> HIDE DEF more, S
<1>5. more \in [1 .. Len(keys) -> S]
  BY <1>2, <1>4
<1>6. more \in Seq(S) /\ Len(more) = Len(keys)
  BY ONLY <1>4, <1>5, SP!FunctionIsSequence
<1>7. Len(pushed \o more) = Len(pushed) + Len(keys)
  BY ONLY <1>1, <1>6
<1> QED
  BY <1>3, <1>7

\* The batch that was built is gone.
LEMMA EmptyBatchIs ==
  ASSUME EncoderIs, EmptyBatch
  PROVE  EncoderIs' /\ Len(encoder'.batch) = 0
<1>1. /\ encoder' = [feature |-> encoder.feature, row |-> encoder.row, key |-> encoder.key,
                      batch |-> <<>>, keys |-> <<>>, defs |-> encoder.defs]
      /\ encoder.key \in Nat
  BY DEF EncoderIs, EmptyBatch
<1>2. encoder'.batch = <<>> /\ encoder'.keys = <<>> /\ encoder'.key \in Nat
  BY <1>1
<1>3. encoder' = [feature |-> encoder'.feature, row |-> encoder'.row, key |-> encoder'.key,
                  batch |-> encoder'.batch, keys |-> encoder'.keys, defs |-> encoder'.defs]
  BY <1>1
<1> QED
  BY <1>2, <1>3, EmptyIs DEF EncoderIs

LEMMA SortBatchFeeds ==
  ASSUME Feeding, SortBatch \/ SortBatchFails
  PROVE  Feeding'
<1>1. PICK w : Sort!PushBatch(encoder.keys, w) \/ Sort!PushFails(encoder.keys, w)
  BY DEF SortBatch, SortBatchFails
<1>2. BatchDue /\ EmptyBatch /\ UNCHANGED <<rows, taken>>
  BY DEF SortBatch, SortBatchFails
<1>3. encoder.keys \in Seq(Nat) /\ encoder.keys # <<>> /\ Len(encoder.keys) = Len(encoder.batch)
  BY <1>2, DueHasKeys
<1>4. SP!IInv'
  <2>1. SP!PushBatch(encoder.keys, w) \/ SP!PushFails(encoder.keys, w)
    BY <1>1, SamePush
  <2> QED
    BY <1>3, <2>1, SP!PushKeeps DEF Feeding
<1>5. EncoderIs' /\ Len(encoder'.batch) = 0
  BY <1>2, EmptyBatchIs DEF Feeding
<1>6. pushed' = pushed \o Sort!Keyed(encoder.keys)
  BY <1>1 DEF Sort!PushBatch, Sort!PushFails
<1>7. Len(pushed') = Len(pushed) + Len(encoder.batch)
  BY <1>3, <1>6, PushedGrow DEF Feeding
<1>8. RowsAreFed'
  BY <1>2, <1>5, <1>7 DEF Feeding, RowsAreFed
<1> QED
  BY <1>4, <1>5, <1>8 DEF Feeding

LEMMA SortFeeds ==
  ASSUME Feeding, SortWorks \/ SortFails
  PROVE  Feeding'
<1>1. BatchSize \in Nat \ {0}
  BY ConstantsAssumption DEF ConstantsAssumption
<1>2. (SP!Work \/ SP!Fail) /\ UNCHANGED <<encoder, rows, taken>>
  BY SameWork, SameFail DEF SortWorks, SortFails
<1>3. SP!IInv'
  BY <1>1, <1>2, SP!WorkKeeps, SP!FailKeeps DEF Feeding
<1>4. pushed' = pushed
  BY <1>2 DEF SP!Work, SP!Fail, SP!FinishInMemory, SP!FinishMerge, SP!NextFromMemory, SP!Draw, SP!Yield, SP!EndMerge,
              SP!FinishFails, SP!DrawFails, SP!InterleaveFails, SP!input
<1>5. EncoderIs'
  BY <1>2 DEF Feeding, EncoderIs
<1>6. RowsAreFed'
  BY <1>2, <1>4 DEF Feeding, RowsAreFed
<1> QED
  BY <1>3, <1>5, <1>6 DEF Feeding

\* A batch is written as it was built, or as it was sorted.
LEMMA SendFeeds ==
  ASSUME Feeding, SendBatch
  PROVE  Feeding'
<1>1. EmptyBatch /\ UNCHANGED <<rows, taken, sort>>
  BY DEF SendBatch
<1>2. SP!IInv'
  <2>1. UNCHANGED SP!vars
    BY <1>1 DEF sort, SP!vars
  <2> QED
    BY <2>1, SP!StutterKeeps DEF Feeding
<1>3. EncoderIs' /\ Len(encoder'.batch) = 0
  BY <1>1, EmptyBatchIs DEF Feeding
<1>4. Len(encoder.batch) \in Nat
  BY DEF Feeding, EncoderIs, AreRows, IsSequence
<1>5. Len(pushed) \in Nat /\ Len(rows) \in Nat
  BY PushedIs DEF Feeding, RowsAreFed, AreRows, IsSequence
<1>6. RowsAreFed'
  BY <1>1, <1>3, <1>4, <1>5 DEF Feeding, RowsAreFed, sort
<1> QED
  BY <1>2, <1>3, <1>6 DEF Feeding

LEMMA SortedFeeds ==
  ASSUME Feeding, SendSorted
  PROVE  Feeding'
<1>1. taken' = taken + 1 /\ UNCHANGED <<encoder, rows, sort>>
  BY DEF SendSorted
<1>2. SP!IInv'
  <2>1. UNCHANGED SP!vars
    BY <1>1 DEF sort, SP!vars
  <2> QED
    BY <2>1, SP!StutterKeeps DEF Feeding
<1>3. EncoderIs'
  BY <1>1 DEF Feeding, EncoderIs
<1>4. RowsAreFed'
  BY <1>1 DEF Feeding, RowsAreFed, sort
<1> QED
  BY <1>2, <1>3, <1>4 DEF Feeding

LEMMA NextFeeds ==
  ASSUME Feeding, [Next]_vars
  PROVE  Feeding'
<1>1. CASE UNCHANGED vars
  BY <1>1, FeedStutters DEF vars
<1>2. CASE \/ ScanSource \/ EncodingEnds \/ SortingEnds \/ FinishPackage \/ Edit
           \/ StartExport \/ OpenTable \/ ReadRow \/ EndTable \/ ExportEnds
  <2>1. UNCHANGED <<encoder, rows, taken, sort>>
    BY <1>2 DEF ScanSource, EncodingEnds, SortingEnds, FinishPackage, Edit, StartExport, OpenTable, ReadRow,
                EndTable, ExportEnds
  <2> QED
    BY <2>1, FeedStutters
<1>3. CASE PassFeature
  BY <1>3, PassFeeds
<1>4. CASE EncodeObject
  BY <1>4, EncodeFeeds
<1>5. CASE SortBatch \/ SortBatchFails
  BY <1>5, SortBatchFeeds
<1>6. CASE SortWorks \/ SortFails
  BY <1>6, SortFeeds
<1>7. CASE SendBatch
  BY <1>7, SendFeeds
<1>8. CASE SendSorted
  BY <1>8, SortedFeeds
<1> QED
  BY <1>1, <1>2, <1>3, <1>4, <1>5, <1>6, <1>7, <1>8 DEF Next

\* Whatever was spilled and wherever the runs were cut (sort.rs), the batches
\* of a conversion are the beginning of the stable order of all its rows, and
\* a sort that ends without an error has yielded every row.
THEOREM SortIsStable == Spec => []YieldsReference
<1>1. Init => Feeding
  BY InitFeeds
<1>2. Feeding /\ [Next]_vars => Feeding'
  BY NextFeeds
<1>3. Feeding => YieldsReference
  <2>1. BatchSize \in Nat \ {0}
    BY ConstantsAssumption DEF ConstantsAssumption
  <2> QED
    BY <2>1, SP!InvariantGives, SameProperties DEF Feeding, YieldsReference
<1> QED
  BY <1>1, <1>2, <1>3, PTL DEF Spec
-----------------------------------------------------------------------------
(* The owner of a table.                                                     *)

\* Until another program edits the package, each table has one owner; and no
\* program edits it before it is finished.
Claims ==
  /\ "own" \in DOMAIN pkg
  /\ stage \in {"scan", "encode", "sort", "finish"} => pkg.own
  /\ pkg.own => TablesAre(src.exts, tables)

\* A sorted batch is made of encoded rows.
LEMMA SortedAreRows ==
  ASSUME Feeding, taken < Len(out)
  PROVE  AreRows([k \in DOMAIN out[taken + 1] |-> rows[out[taken + 1][k][2]]])
<1> DEFINE b == taken + 1
           batch == [k \in DOMAIN out[b] |-> rows[out[b][k][2]]]
<1>1. BatchSize \in Nat \ {0}
  BY ConstantsAssumption DEF ConstantsAssumption
<1>2. b \in DOMAIN out
  <2>1. out \in Seq(Seq(SP!Row))
    BY DEF Feeding, SP!IInv, SP!AreBatches
  <2>2. taken \in Nat
    BY DEF Feeding, RowsAreFed
  <2> QED
    BY <2>1, <2>2
<1>3. AreRows(rows) /\ Len(pushed) <= Len(rows) /\ Len(pushed) \in Nat /\ DOMAIN rows = 1 .. Len(rows) /\ Len(rows) \in Nat
  <2>1. AreRows(rows) /\ Len(pushed) + Len(encoder.batch) <= Len(rows) /\ AreRows(encoder.batch)
    BY DEF Feeding, RowsAreFed, EncoderIs
  <2>2. Len(rows) \in Nat /\ Len(encoder.batch) \in Nat /\ DOMAIN rows = 1 .. Len(rows)
    BY <2>1 DEF AreRows, IsSequence
  <2>3. Len(pushed) \in Nat
    BY PushedIs DEF Feeding
  <2> QED
    BY <2>1, <2>2, <2>3
<1> HIDE DEF b
<1>4. \A k \in DOMAIN out[b] : out[b] \in Seq(SP!Row) /\ out[b][k][2] \in 1 .. Len(pushed)
  BY <1>1, <1>2, SP!YieldedArePushed DEF Feeding
<1>5. out[b] \in Seq(SP!Row)
  BY <1>2 DEF Feeding, SP!IInv, SP!AreBatches
<1>6. batch = [k \in 1 .. Len(out[b]) |-> batch[k]] /\ Len(out[b]) \in Nat /\ DOMAIN batch = DOMAIN out[b]
  BY <1>5
<1>7. \A k \in DOMAIN out[b] : {"feature", "id", "type"} \subseteq DOMAIN batch[k]
  BY <1>3, <1>4 DEF AreRows
<1> HIDE DEF batch
<1>8. IsSequence(batch)
  BY <1>6, SequenceIs
<1> QED
  BY <1>6, <1>7, <1>8 DEF AreRows, b, batch

\* The owners are what they were.
LEMMA ClaimsStay ==
  ASSUME Claims, UNCHANGED <<src, tables, pkg>>,
         stage' \in {"scan", "encode", "sort", "finish"} => stage \in {"scan", "encode", "sort", "finish"}
  PROVE  Claims'
BY DEF Claims

\* A batch is written, or refused.
LEMMA ClaimsGrow ==
  ASSUME Claims, stage \in {"encode", "sort"}, UNCHANGED <<src, pkg>>, NEW batch, AreRows(batch), WriteBatch(batch)
  PROVE  Claims'
<1>1. CASE BatchRefused(src.exts, tables, batch)
  BY <1>1 DEF Claims, WriteBatch
<1>2. CASE ~BatchRefused(src.exts, tables, batch)
  <2>1. tables' = WriteBatchOf(src.exts, scan, tables, batch) /\ UNCHANGED stage
    BY <1>2 DEF WriteBatch
  <2>2. TablesAre(src.exts, tables)
    BY DEF Claims
  <2>3. TablesAre(src.exts, tables')
    BY <1>2, <2>1, <2>2, WriteKeeps
  <2> QED
    BY <2>1, <2>3 DEF Claims
<1> QED
  BY <1>1, <1>2

LEMMA NextClaims ==
  ASSUME Feeding, Claims, [Next]_vars
  PROVE  Claims'
<1>1. CASE UNCHANGED vars
  BY <1>1, ClaimsStay DEF vars
<1>2. CASE \/ ScanSource \/ PassFeature \/ EncodeObject \/ SortBatch \/ SortBatchFails \/ EncodingEnds \/ SortWorks
           \/ SortFails \/ SortingEnds
  <2>1. /\ UNCHANGED <<src, tables, pkg>>
        /\ stage \in {"scan", "encode", "sort", "finish"}
    BY <1>2 DEF ScanSource, PassFeature, EncodeObject, SortBatch, SortBatchFails, EncodingEnds, SortWorks,
                SortFails, SortingEnds
  <2> QED
    BY <2>1, ClaimsStay
<1>3. CASE StartExport \/ OpenTable \/ ReadRow \/ EndTable \/ ExportEnds
  <2>1. /\ UNCHANGED <<src, tables, pkg>>
        /\ stage' \notin {"scan", "encode", "sort", "finish"}
    BY <1>3 DEF StartExport, OpenTable, ReadRow, EndTable, ExportEnds
  <2> QED
    BY <2>1, ClaimsStay
<1>4. CASE SendBatch
  <2>1. stage = "encode" /\ UNCHANGED <<src, pkg>> /\ WriteBatch(encoder.batch) /\ AreRows(encoder.batch)
    BY <1>4 DEF SendBatch, Feeding, EncoderIs
  <2> QED
    BY <2>1, ClaimsGrow
<1>5. CASE SendSorted
  <2> DEFINE batch == [k \in DOMAIN out[taken + 1] |-> rows[out[taken + 1][k][2]]]
  <2>1. stage = "sort" /\ UNCHANGED <<src, pkg>> /\ WriteBatch(batch) /\ taken < Len(out)
    BY <1>5 DEF SendSorted
  <2>2. AreRows(batch)
    BY <2>1, SortedAreRows
  <2> HIDE DEF batch
  <2> QED
    BY <2>1, <2>2, ClaimsGrow
<1>6. CASE FinishPackage
  <2>1. stage = "finish" /\ UNCHANGED <<src, tables>> /\ stage' \in {"refused", "written"}
    BY <1>6 DEF FinishPackage
  <2>2. pkg' = pkg \/ ("own" \in DOMAIN pkg' /\ pkg'.own)
    BY <1>6 DEF FinishPackage
  <2> QED
    BY <2>1, <2>2 DEF Claims
<1>7. CASE Edit
  <2>1. stage = "written" /\ stage' = stage
    BY <1>7 DEF Edit
  <2>2. "own" \in DOMAIN pkg' /\ pkg'.own = FALSE
    BY <1>7 DEF Edit, Claims
  <2> QED
    BY <2>1, <2>2 DEF Claims
<1> QED
  BY <1>1, <1>2, <1>3, <1>4, <1>5, <1>6, <1>7 DEF Next

LEMMA InitClaims ==
  ASSUME Init
  PROVE  Claims
<1>1. tables = <<>> /\ pkg = NoPackage
  BY DEF Init
<1>2. TablesAre(src.exts, tables)
  BY <1>1 DEF TablesAre, IsSequence
<1> QED
  BY <1>1, <1>2 DEF Claims, NoPackage

\* However the rows of a source are batched and sorted (package.rs, the table
\* writers), no two tables of a package share a file, none has the name of a
\* sidecar, an extension's table takes no name of the core's, and every row is
\* in the file its type leads a reader to.
THEOREM TablesHaveOneOwner == Spec => []OneClaim
<1>1. Init => Feeding /\ Claims
  BY InitFeeds, InitClaims
<1>2. Feeding /\ Claims /\ [Next]_vars => (Feeding /\ Claims)'
  BY NextFeeds, NextClaims
<1>3. Claims => OneClaim
  <2> SUFFICES ASSUME Claims, pkg.own PROVE OneClaim
    BY DEF OneClaim
  <2>1. TablesAre(src.exts, tables)
    BY DEF Claims
  <2>2. ASSUME NEW t \in DOMAIN tables
        PROVE  /\ tables[t].file \notin ReservedFiles
               /\ \A i \in DOMAIN tables[t].rows :
                    FileOf(RowKey(src.exts, tables[t].rows[i].type)) = tables[t].file
               /\ OneOwner(src.exts, tables[t])
    <3>1. TableIs(src.exts, tables[t])
      BY <2>1 DEF TablesAre
    <3>2. OneOwner(src.exts, tables[t])
      BY <3>1, ClaimHolds
    <3>3. /\ tables[t].file \notin ReservedFiles
          /\ \A i \in DOMAIN tables[t].rows :
               FileOf(RowKey(src.exts, tables[t].rows[i].type)) = tables[t].file
      BY <3>1 DEF TableIs
    <3> QED
      BY <3>2, <3>3
  <2>3. \A t, u \in DOMAIN tables : tables[t].file = tables[u].file => t = u
    BY <2>1 DEF TablesAre
  <2> QED
    BY <2>2, <2>3 DEF OneClaim, OneOwner
<1> QED
  BY <1>1, <1>2, <1>3, PTL DEF Spec
-----------------------------------------------------------------------------
(* The export gathers the rows of a feature.                                *)

\* A sequence with one more member.
LEMMA ListGrows ==
  ASSUME NEW s, IsSequence(s), NEW b
  PROVE  LET more == Append(s, b) IN
         /\ IsSequence(more) /\ Len(s) \in Nat
         /\ \A i \in DOMAIN more : (i \in DOMAIN s /\ more[i] = s[i]) \/ (i = Len(s) + 1 /\ more[i] = b)
         /\ \A i \in DOMAIN s : i \in DOMAIN more /\ more[i] = s[i]
         /\ Len(s) + 1 \in DOMAIN more /\ more[Len(s) + 1] = b
<1> DEFINE more == Append(s, b)
           A == {s[i] : i \in DOMAIN s} \cup {b}
<1>1. s \in Seq(A)
  <2> DEFINE B == {s[i] : i \in DOMAIN s}
  <2>1. s \in Seq(B)
    BY DEF IsSequence
  <2> HIDE DEF B
  <2>2. s \in Seq(B \cup {b})
    BY <2>1
  <2> QED
    BY <2>2 DEF B
<1>2. b \in A
  OBVIOUS
<1> HIDE DEF A
<1>3. /\ more \in Seq(A) /\ Len(s) \in Nat /\ DOMAIN s = 1 .. Len(s)
      /\ DOMAIN more = 1 .. Len(s) + 1 /\ more[Len(s) + 1] = b
  BY <1>1, <1>2
<1>4. \A i \in 1 .. Len(s) : more[i] = s[i]
  BY <1>1, <1>2, <1>3
<1> HIDE DEF more
<1>5. more = [i \in 1 .. Len(s) + 1 |-> more[i]] /\ Len(s) + 1 \in Nat
  BY <1>3
<1>6. IsSequence(more)
  BY <1>5, SequenceIs
<1>7. \A i \in DOMAIN more : (i \in DOMAIN s /\ more[i] = s[i]) \/ (i = Len(s) + 1 /\ more[i] = b)
  BY <1>3, <1>4
<1>8. \A i \in DOMAIN s : i \in DOMAIN more /\ more[i] = s[i]
  BY <1>3, <1>4
<1>9. Len(s) + 1 \in DOMAIN more
  BY <1>3
<1> QED
  BY <1>3, <1>6, <1>7, <1>8, <1>9 DEF more

\* The same of its members, when they differ and the new one from them.
LEMMA OrderGrows ==
  ASSUME NEW s, IsSequence(s), NEW b,
         \A j, k \in DOMAIN s : s[j] = s[k] => j = k, \A k \in DOMAIN s : s[k] # b
  PROVE  LET more == Append(s, b) IN
         /\ IsSequence(more)
         /\ \A j, k \in DOMAIN more : more[j] = more[k] => j = k
         /\ \A k \in DOMAIN more : more[k] = b \/ \E j \in DOMAIN s : more[k] = s[j]
         /\ \A j \in DOMAIN s : \E k \in DOMAIN more : more[k] = s[j]
         /\ \E k \in DOMAIN more : more[k] = b
BY ListGrows

\* And of their ids.
LEMMA OutputGrows ==
  ASSUME NEW s, IsSequence(s), NEW b,
         \A j, k \in DOMAIN s : s[j].id = s[k].id => j = k, \A k \in DOMAIN s : s[k].id # b.id
  PROVE  LET more == Append(s, b) IN
         /\ IsSequence(more)
         /\ \A j, k \in DOMAIN more : more[j].id = more[k].id => j = k
         /\ \A k \in DOMAIN more : more[k] = b \/ \E j \in DOMAIN s : more[k] = s[j]
         /\ \A j \in DOMAIN s : \E k \in DOMAIN more : more[k] = s[j]
         /\ \E k \in DOMAIN more : more[k] = b
BY ListGrows

\* Rows that can be read: a sequence, each with an id.
AreLegible(s) == IsSequence(s) /\ \A i \in DOMAIN s : "id" \in DOMAIN s[i]

\* Those of a feature: at least one.
AreHeld(s) == AreLegible(s) /\ DOMAIN s # {}

LEMMA LegibleGrows ==
  ASSUME NEW s, AreLegible(s), NEW r, "id" \in DOMAIN r
  PROVE  LET more == Append(s, r) IN
         /\ AreHeld(more)
         /\ \A x : (\E m \in DOMAIN more : more[m].id = x) <=> (\E m \in DOMAIN s : s[m].id = x) \/ x = r.id
BY ListGrows DEF AreLegible, AreHeld

\* A feature that is built has the name it is given and the objects of its rows.
IsBuilt(b, key, s) ==
  /\ b.id = key
  /\ \A x : x \in DOMAIN b.objects <=> \E m \in DOMAIN s : s[m].id = x

LEMMA BuiltIs ==
  ASSUME NEW p, NEW key, NEW s, AreLegible(s)
  PROVE  IsBuilt(Built(p, key, s), key, s)
<1> DEFINE plain(r) == IF p.restore THEN r
                       ELSE [r EXCEPT !.slots = [lod \in DOMAIN r.slots |->
                               [r.slots[lod] EXCEPT !.material = <<>>, !.texture = <<>>]]]
           read == [i \in DOMAIN s |-> plain(s[i])]
           b == Built(p, key, s)
<1>1. \A r : "id" \in DOMAIN r => plain(r).id = r.id
  OBVIOUS
<1>2. b.id = key /\ DOMAIN b.objects = {read[i].id : i \in DOMAIN read}
  BY DEF Built
<1> HIDE DEF plain
<1>3. DOMAIN read = DOMAIN s /\ \A i \in DOMAIN s : read[i].id = s[i].id
  BY <1>1 DEF AreLegible
<1> HIDE DEF b, read
<1> QED
  BY <1>2, <1>3 DEF IsBuilt, b

\* What has been gathered of a feature: emitted, being read or parked.
Gives(output, key, x) == \E k \in DOMAIN output : output[k].id = key /\ x \in DOMAIN output[k].objects
IsReading(fam, key, x) ==
  fam.current # None /\ fam.current[1].key = key /\ \E m \in DOMAIN fam.current[1].rows : fam.current[1].rows[m].id = x
IsParked(fam, key, x) == key \in DOMAIN fam.parked /\ \E m \in DOMAIN fam.parked[key] : fam.parked[key][m].id = x

Holds(fam, output, key, x) == Gives(output, key, x) \/ IsReading(fam, key, x) \/ IsParked(fam, key, x)

\* A feature is in one of the three places, and in the output once.
Gathers(fam, output) ==
  /\ fam = [current |-> fam.current, parked |-> fam.parked, order |-> fam.order, closed |-> fam.closed,
            done |-> fam.done]
  /\ IsSequence(output)
  /\ \A j, k \in DOMAIN output : output[j].id = output[k].id => j = k
  /\ \A k \in DOMAIN output : output[k].id \in fam.done /\ DOMAIN output[k].objects # {}
  /\ fam.current # None =>
       /\ fam.current = <<[key |-> fam.current[1].key, rows |-> fam.current[1].rows]>>
       /\ AreHeld(fam.current[1].rows)
       /\ fam.current[1].key \notin fam.done \cup DOMAIN fam.parked
  /\ fam.parked = [key \in DOMAIN fam.parked |-> fam.parked[key]]
  /\ \A key \in DOMAIN fam.parked : key \notin fam.done /\ AreHeld(fam.parked[key])
  /\ IsSequence(fam.order)
  /\ \A j, k \in DOMAIN fam.order : fam.order[j] = fam.order[k] => j = k
  /\ \A key \in DOMAIN fam.parked : \E k \in DOMAIN fam.order : fam.order[k] = key

\* Between two features: what is complete is emitted, the rest is parked.
Closed(fam, output, fam2, output2) ==
  /\ Gathers(fam2, output2)
  /\ fam2.current = None
  /\ \A key, x : Holds(fam2, output2, key, x) <=> Holds(fam, output, key, x)

\* The feature that was being read, if any, is closed.
LEMMA CloseIs ==
  ASSUME NEW fam, NEW output, Gathers(fam, output), NEW b, NEW output2,
         Closes(fam) => IsBuilt(b, fam.current[1].key, fam.current[1].rows),
         output2 = IF Closes(fam) THEN Append(output, b) ELSE output
  PROVE  Closed(fam, output, CloseRun(fam), output2)
<1> DEFINE fam2 == CloseRun(fam)
           key == fam.current[1].key
           held == fam.current[1].rows
<1>1. CASE fam.current = None
  <2>1. fam2 = fam /\ output2 = output
    BY <1>1 DEF CloseRun, Closes
  <2> QED
    BY <1>1, <2>1 DEF Closed
<1>2. CASE fam.current # None /\ Closes(fam)
  <2>1. /\ fam2.current = None /\ fam2.parked = fam.parked /\ fam2.order = fam.order /\ fam2.done = fam.done \cup {key}
        /\ fam2 = [current |-> fam2.current, parked |-> fam2.parked, order |-> fam2.order, closed |-> fam2.closed,
                   done |-> fam2.done]
    BY <1>2 DEF CloseRun, Gathers
  <2>2. output2 = Append(output, b) /\ IsBuilt(b, key, held)
    BY <1>2
  <2>3. /\ b.id = key
        /\ \A x : x \in DOMAIN b.objects <=> \E m \in DOMAIN held : held[m].id = x
        /\ DOMAIN held # {}
    BY <1>2, <2>2 DEF IsBuilt, Gathers, AreHeld
  <2>4. IsSequence(output) /\ \A k \in DOMAIN output : output[k].id # b.id
    BY <1>2, <2>3 DEF Gathers
  <2>5. /\ IsSequence(output2)
        /\ \A j, k \in DOMAIN output2 : output2[j].id = output2[k].id => j = k
        /\ \A k \in DOMAIN output2 : output2[k] = b \/ \E j \in DOMAIN output : output2[k] = output[j]
        /\ \A j \in DOMAIN output : \E k \in DOMAIN output2 : output2[k] = output[j]
        /\ \E k \in DOMAIN output2 : output2[k] = b
    <3>1. \A j, k \in DOMAIN output : output[j].id = output[k].id => j = k
      BY DEF Gathers
    <3>2. output2 = Append(output, b)
      BY <2>2
    <3> QED
      BY ONLY <2>4, <3>1, <3>2, OutputGrows
  <2> HIDE DEF fam2, key, held
  <2>6. \A k \in DOMAIN output2 : output2[k].id \in fam2.done /\ DOMAIN output2[k].objects # {}
    <3>1. DOMAIN b.objects # {}
      <4>1. PICK m \in DOMAIN held : TRUE
        BY <2>3
      <4> QED
        BY <2>3, <4>1
    <3>2. /\ \A k \in DOMAIN output : output[k].id \in fam.done /\ DOMAIN output[k].objects # {}
          /\ fam2.done = fam.done \cup {key}
      BY <2>1 DEF Gathers
    <3> QED
      BY <2>3, <2>5, <3>1, <3>2
  <2>7. key \notin DOMAIN fam.parked
    BY <1>2 DEF Gathers, key
  <2>8. Gathers(fam2, output2)
    BY <2>1, <2>5, <2>6, <2>7 DEF Gathers
  <2>9. ASSUME NEW y, NEW x PROVE Gives(output2, y, x) <=> Gives(output, y, x) \/ (y = b.id /\ x \in DOMAIN b.objects)
    BY <2>5 DEF Gives
  <2>10. ASSUME NEW y, NEW x PROVE IsReading(fam, y, x) <=> y = b.id /\ x \in DOMAIN b.objects
    BY <1>2, <2>3 DEF IsReading, key, held
  <2>11. ASSUME NEW y, NEW x PROVE ~IsReading(fam2, y, x) /\ (IsParked(fam2, y, x) <=> IsParked(fam, y, x))
    BY <2>1 DEF IsReading, IsParked
  <2> QED
    BY <2>1, <2>8, <2>9, <2>10, <2>11 DEF Closed, Holds, fam2
<1>3. CASE fam.current # None /\ ~Closes(fam)
  <2> DEFINE order2 == IF key \in ToSet(fam.order) THEN fam.order ELSE Append(fam.order, key)
             parked2 == [k \in DOMAIN fam.parked \cup {key} |-> IF k = key THEN held ELSE fam.parked[k]]
  <2>1. /\ fam2.current = None /\ fam2.parked = parked2 /\ fam2.order = order2 /\ fam2.done = fam.done
        /\ fam2 = [current |-> fam2.current, parked |-> fam2.parked, order |-> fam2.order, closed |-> fam2.closed,
                   done |-> fam2.done]
    <3> DEFINE after == [fam EXCEPT !.current = None, !.closed = @ \cup {key}]
    <3>1. /\ after.current = None /\ after.parked = fam.parked /\ after.order = fam.order /\ after.done = fam.done
          /\ after = [current |-> after.current, parked |-> after.parked, order |-> after.order,
                      closed |-> after.closed, done |-> after.done]
      <4>1. PICK c, p, o, s, d : fam = [current |-> c, parked |-> p, order |-> o, closed |-> s, done |-> d]
        BY DEF Gathers
      <4> HIDE DEF key
      <4>2. after = [current |-> None, parked |-> p, order |-> o, closed |-> s \cup {key}, done |-> d]
        <5>1. [fam EXCEPT !.current = None] = [current |-> None, parked |-> p, order |-> o, closed |-> s, done |-> d]
          BY <4>1
        <5> DEFINE next == [fam EXCEPT !.current = None]
                   more == s \cup {key}
        <5> HIDE DEF next, more
        <5>2. [next EXCEPT !.closed = more] = [current |-> None, parked |-> p, order |-> o, closed |-> more, done |-> d]
          <6>1. next = [current |-> None, parked |-> p, order |-> o, closed |-> s, done |-> d]
            BY ONLY <5>1, Zenon DEF next
          <6> QED
            BY ONLY <6>1
        <5>3. fam.closed = s
          BY <4>1
        <5> QED
          BY <5>2, <5>3, Zenon DEF next, more
      <4> QED
        BY <4>1, <4>2
    <3>2. fam2 = [after EXCEPT !.parked = [k \in DOMAIN @ \cup {key} |-> IF k = key THEN held ELSE @[k]],
                               !.order = IF key \in ToSet(@) THEN @ ELSE Append(@, key)]
      BY <1>3 DEF CloseRun
    <3> HIDE DEF after, key, held, fam2
    <3> QED
      BY <3>1, <3>2
  <2>2. output2 = output
    BY <1>3
  <2>3. /\ DOMAIN parked2 = DOMAIN fam.parked \cup {key} /\ parked2[key] = held
        /\ \A k \in DOMAIN fam.parked : k # key => parked2[k] = fam.parked[k]
        /\ parked2 = [k \in DOMAIN parked2 |-> parked2[k]]
    OBVIOUS
  <2>4. key \notin fam.done \cup DOMAIN fam.parked /\ AreHeld(held)
    BY <1>3 DEF Gathers
  <2>5. /\ IsSequence(order2)
        /\ \A j, k \in DOMAIN order2 : order2[j] = order2[k] => j = k
        /\ \A k \in DOMAIN parked2 : \E n \in DOMAIN order2 : order2[n] = k
    <3>1. /\ IsSequence(fam.order)
          /\ \A j, k \in DOMAIN fam.order : fam.order[j] = fam.order[k] => j = k
          /\ \A k \in DOMAIN fam.parked : \E n \in DOMAIN fam.order : fam.order[n] = k
      BY DEF Gathers
    <3> HIDE DEF key, parked2
    <3>2. CASE key \in ToSet(fam.order)
      <4>1. \E n \in DOMAIN fam.order : fam.order[n] = key
        BY <3>2 DEF ToSet
      <4> QED
        BY <2>3, <3>1, <3>2, <4>1
    <3>3. CASE key \notin ToSet(fam.order)
      <4>1. order2 = Append(fam.order, key)
        BY <3>3
      <4>2. \A n \in DOMAIN fam.order : fam.order[n] # key
        BY <3>3 DEF ToSet
      <4> HIDE DEF order2
      <4>3. /\ IsSequence(order2)
            /\ \A j, k \in DOMAIN order2 : order2[j] = order2[k] => j = k
            /\ \A k \in DOMAIN order2 : order2[k] = key \/ \E j \in DOMAIN fam.order : order2[k] = fam.order[j]
            /\ \A j \in DOMAIN fam.order : \E k \in DOMAIN order2 : order2[k] = fam.order[j]
            /\ \E k \in DOMAIN order2 : order2[k] = key
        BY <3>1, <4>1, <4>2, OrderGrows
      <4> QED
        BY <2>3, <3>1, <4>3
    <3> QED
      BY <3>2, <3>3
  <2> HIDE DEF order2, parked2, held, key, fam2
  <2>6. Gathers(fam2, output2)
    BY <2>1, <2>2, <2>3, <2>4, <2>5 DEF Gathers
  <2>7. ASSUME NEW y, NEW x PROVE IsReading(fam, y, x) <=> y = key /\ \E m \in DOMAIN held : held[m].id = x
    BY <1>3 DEF IsReading, key, held
  <2>8. ASSUME NEW y, NEW x
        PROVE  IsParked(fam2, y, x) <=> IsParked(fam, y, x) \/ (y = key /\ \E m \in DOMAIN held : held[m].id = x)
    BY <2>1, <2>3, <2>4 DEF IsParked
  <2>9. ASSUME NEW y, NEW x PROVE ~IsReading(fam2, y, x)
    BY <2>1 DEF IsReading
  <2> QED
    BY <2>1, <2>2, <2>6, <2>7, <2>8, <2>9 DEF Closed, Holds, fam2
<1> QED
  BY <1>1, <1>2, <1>3

\* A row has come to its feature.
Gained(fam, output, row, fam2, output2) ==
  /\ Gathers(fam2, output2)
  /\ fam2.current # None
  /\ \A key, x : Holds(fam2, output2, key, x) <=> Holds(fam, output, key, x) \/ (key = row.feature /\ x = row.id)

\* A family with a new feature being read.
LEMMA FamilyTakes ==
  ASSUME NEW c, NEW p, NEW o, NEW s, NEW d, NEW fam,
         fam = [current |-> c, parked |-> p, order |-> o, closed |-> s, done |-> d], NEW c2, NEW p2
  PROVE  /\ [fam EXCEPT !.current = c2, !.parked = p2] =
              [current |-> c2, parked |-> p2, order |-> o, closed |-> s, done |-> d]
         /\ [fam EXCEPT !.current = c2] = [current |-> c2, parked |-> p, order |-> o, closed |-> s, done |-> d]
<1> DEFINE next == [fam EXCEPT !.current = c2]
<1>1. next = [current |-> c2, parked |-> p, order |-> o, closed |-> s, done |-> d]
  OBVIOUS
<1> HIDE DEF next
<1>2. [next EXCEPT !.parked = p2] = [current |-> c2, parked |-> p2, order |-> o, closed |-> s, done |-> d]
  BY ONLY <1>1
<1>3. [fam EXCEPT !.current = c2, !.parked = p2] = [next EXCEPT !.parked = p2]
  BY Zenon DEF next
<1> QED
  BY <1>1, <1>2, <1>3, Zenon DEF next

LEMMA PushIs ==
  ASSUME NEW fam, NEW output, Gathers(fam, output), NEW row, "id" \in DOMAIN row, ~PushRefused(fam, row),
         NEW b, Closes(fam) => IsBuilt(b, fam.current[1].key, fam.current[1].rows),
         NEW output2,
         output2 = IF Continues(fam, row) THEN output ELSE IF Closes(fam) THEN Append(output, b) ELSE output
  PROVE  Gained(fam, output, row, PushRow(fam, row), output2)
<1> DEFINE fam2 == PushRow(fam, row)
           key == row.feature
<1>0. "id" \in DOMAIN row
  OBVIOUS
<1>1. CASE Continues(fam, row)
  <2> DEFINE held == fam.current[1].rows
             more == Append(held, row)
  <2>1. /\ fam.current # None /\ fam.current = <<[key |-> key, rows |-> held]>> /\ AreHeld(held) /\ AreLegible(held)
        /\ key \notin fam.done \cup DOMAIN fam.parked
    BY <1>1 DEF Continues, Gathers, AreHeld
  <2>2. /\ fam2.current = <<[key |-> key, rows |-> more]>> /\ fam2.parked = fam.parked /\ fam2.order = fam.order
        /\ fam2.done = fam.done
        /\ fam2 = [current |-> fam2.current, parked |-> fam2.parked, order |-> fam2.order, closed |-> fam2.closed,
                   done |-> fam2.done]
    <3>1. PICK c, p, o, s, d : fam = [current |-> c, parked |-> p, order |-> o, closed |-> s, done |-> d]
      BY DEF Gathers
    <3> DEFINE c2 == <<[fam.current[1] EXCEPT !.rows = more]>>
    <3>2. fam2 = [fam EXCEPT !.current = c2]
      BY <1>1, Zenon DEF PushRow, Some
    <3> HIDE DEF fam2, c2, more, held, key
    <3>3. fam2 = [current |-> c2, parked |-> p, order |-> o, closed |-> s, done |-> d]
      BY <3>1, <3>2, FamilyTakes
    <3>4. c2 = <<[key |-> key, rows |-> more]>>
      <4>1. fam.current[1] = [key |-> key, rows |-> held]
        BY <2>1
      <4> QED
        BY <4>1 DEF c2
    <3> QED
      BY <3>1, <3>3, <3>4
  <2>3. output2 = output
    BY <1>1
  <2>4. /\ AreHeld(more)
        /\ \A x : (\E m \in DOMAIN more : more[m].id = x) <=> (\E m \in DOMAIN held : held[m].id = x) \/ x = row.id
    <3>1. more = Append(held, row)
      OBVIOUS
    <3> HIDE DEF more, held
    <3> QED
      BY <1>0, <2>1, <3>1, LegibleGrows
  <2> HIDE DEF fam2, key, more, held
  <2>5. Gathers(fam2, output2)
    BY <2>1, <2>2, <2>3, <2>4 DEF Gathers, None
  <2>6. ASSUME NEW y, NEW x
        PROVE  /\ IsReading(fam, y, x) <=> y = key /\ \E m \in DOMAIN held : held[m].id = x
               /\ IsReading(fam2, y, x) <=> y = key /\ \E m \in DOMAIN more : more[m].id = x
               /\ IsParked(fam2, y, x) <=> IsParked(fam, y, x)
    BY <2>1, <2>2 DEF IsReading, IsParked, None
  <2>7. ASSUME NEW y, NEW x PROVE Holds(fam2, output2, y, x) <=> Holds(fam, output, y, x) \/ (y = key /\ x = row.id)
    BY <2>3, <2>4, <2>6 DEF Holds
  <2> QED
    BY <2>2, <2>5, <2>7 DEF Gained, None, fam2, key
<1>2. CASE ~Continues(fam, row)
  <2> DEFINE after == CloseRun(fam)
             waiting == IF key \in DOMAIN after.parked THEN after.parked[key] ELSE <<>>
             more == Append(waiting, row)
             parked2 == [k \in DOMAIN after.parked \ {key} |-> after.parked[k]]
  <2>1. Closed(fam, output, after, output2)
    <3>1. output2 = IF Closes(fam) THEN Append(output, b) ELSE output
      BY <1>2
    <3> HIDE DEF after
    <3> QED
      BY <3>1, CloseIs DEF after
  <2>2. key \notin after.closed \cup after.done
    BY <1>2 DEF PushRefused
  <2>3. fam2 = [after EXCEPT !.current = <<[key |-> key, rows |-> more]>>, !.parked = parked2]
    BY <1>2 DEF PushRow, Restrict, Some
  <2> HIDE DEF after, fam2, key
  <2>4. Gathers(after, output2) /\ after.current = None
    BY <2>1 DEF Closed
  <2>5. AreLegible(waiting)
    <3>1. IsSequence(<<>>) /\ DOMAIN <<>> = {}
      BY DEF IsSequence
    <3>2. \A k \in DOMAIN after.parked : AreLegible(after.parked[k])
      BY <2>4 DEF Gathers, AreHeld
    <3> QED
      BY <3>1, <3>2 DEF AreLegible
  <2>6. /\ AreHeld(more)
        /\ \A x : (\E m \in DOMAIN more : more[m].id = x) <=> (\E m \in DOMAIN waiting : waiting[m].id = x) \/ x = row.id
    <3>1. more = Append(waiting, row)
      OBVIOUS
    <3> HIDE DEF more, waiting
    <3> QED
      BY <1>0, <2>5, <3>1, LegibleGrows
  <2>7. /\ DOMAIN parked2 = DOMAIN after.parked \ {key}
        /\ \A k \in DOMAIN parked2 : parked2[k] = after.parked[k]
        /\ parked2 = [k \in DOMAIN parked2 |-> parked2[k]]
    OBVIOUS
  <2> HIDE DEF more, parked2
  <2>8. /\ fam2.current = <<[key |-> key, rows |-> more]>> /\ fam2.parked = parked2 /\ fam2.order = after.order
        /\ fam2.done = after.done
        /\ fam2 = [current |-> fam2.current, parked |-> fam2.parked, order |-> fam2.order, closed |-> fam2.closed,
                   done |-> fam2.done]
    <3>1. PICK c, p, o, s, d : after = [current |-> c, parked |-> p, order |-> o, closed |-> s, done |-> d]
      BY <2>4 DEF Gathers
    <3>2. fam2 = [current |-> <<[key |-> key, rows |-> more]>>, parked |-> parked2, order |-> o, closed |-> s, done |-> d]
      BY <2>3, <3>1, FamilyTakes
    <3> QED
      BY <3>1, <3>2
  <2>9. Gathers(fam2, output2)
    BY <2>2, <2>4, <2>6, <2>7, <2>8 DEF Gathers, None
  <2>10. ASSUME NEW y, NEW x
         PROVE  /\ ~IsReading(after, y, x)
                /\ IsReading(fam2, y, x) <=> y = key /\ \E m \in DOMAIN more : more[m].id = x
                /\ IsParked(fam2, y, x) <=> y # key /\ IsParked(after, y, x)
    BY <2>4, <2>7, <2>8 DEF IsReading, IsParked, None
  <2>11. ASSUME NEW x PROVE IsParked(after, key, x) <=> \E m \in DOMAIN waiting : waiting[m].id = x
    BY DEF IsParked
  <2> HIDE DEF waiting
  <2>12. ASSUME NEW y, NEW x
         PROVE  Holds(fam2, output2, y, x) <=> Holds(after, output2, y, x) \/ (y = key /\ x = row.id)
    <3>1. CASE y = key
      BY <2>6, <2>10, <2>11, <3>1 DEF Holds
    <3>2. CASE y # key
      BY <2>10, <3>2 DEF Holds
    <3> QED
      BY <3>1, <3>2
  <2>13. ASSUME NEW y, NEW x PROVE Holds(after, output2, y, x) <=> Holds(fam, output, y, x)
    BY <2>1 DEF Closed
  <2> QED
    BY <2>8, <2>9, <2>12, <2>13 DEF Gained, None, fam2, key
<1> QED
  BY <1>1, <1>2

\* What is parked, once each.
LEMMA LeftoverIs ==
  ASSUME NEW fam, NEW output, Gathers(fam, output)
  PROVE  LET last == Leftover(fam) IN
         /\ IsSequence(last)
         /\ \A n \in DOMAIN last : last[n] \in DOMAIN fam.parked
         /\ \A m, n \in DOMAIN last : last[m] = last[n] => m = n
         /\ \A key \in DOMAIN fam.parked : \E n \in DOMAIN last : last[n] = key
<1> DEFINE order == fam.order
           left == {k \in DOMAIN order : order[k] \in DOMAIN fam.parked}
           place == Ranked(left, <)
           last == Leftover(fam)
<1>1. /\ IsSequence(order)
      /\ \A j, k \in DOMAIN order : order[j] = order[k] => j = k
      /\ \A key \in DOMAIN fam.parked : \E k \in DOMAIN order : order[k] = key
  BY DEF Gathers
<1>2. left \in SUBSET Nat /\ IsFiniteSet(left)
  <2>1. Len(order) \in Nat /\ DOMAIN order = 1 .. Len(order)
    BY <1>1 DEF IsSequence
  <2>2. IsFiniteSet(1 .. Len(order))
    BY <2>1, FS_Interval
  <2>3. left \subseteq 1 .. Len(order)
    BY <2>1
  <2> QED
    BY <2>1, <2>2, <2>3, FS_Subset
<1>3. Lists(place, left)
  <2> HIDE DEF left
  <2> QED
    BY <1>2, RankedNumbers
<1>4. last = [n \in 1 .. Cardinality(left) |-> order[place[n]]]
  BY DEF Leftover
<1> HIDE DEF last, place
<1>5. /\ Cardinality(left) \in Nat /\ DOMAIN place = 1 .. Cardinality(left)
      /\ \A n \in 1 .. Cardinality(left) : place[n] \in left
      /\ \A m, n \in 1 .. Cardinality(left) : place[m] = place[n] => m = n
      /\ \A k \in left : \E n \in 1 .. Cardinality(left) : place[n] = k
  <2>1. \A m, n \in 1 .. Cardinality(left) : place[m] = place[n] => m = n
    <3> SUFFICES ASSUME NEW m \in 1 .. Cardinality(left), NEW n \in 1 .. Cardinality(left), m # n
                 PROVE  place[m] # place[n]
      OBVIOUS
    <3>1. m < n \/ n < m
      OBVIOUS
    <3> HIDE DEF left
    <3> QED
      BY <1>3, <3>1 DEF Lists
  <2> HIDE DEF left
  <2> QED
    BY <1>3, <2>1 DEF Lists
<1>6. DOMAIN last = 1 .. Cardinality(left) /\ \A n \in 1 .. Cardinality(left) : last[n] = order[place[n]]
  BY <1>4
<1>7. \A k : k \in left <=> k \in DOMAIN order /\ order[k] \in DOMAIN fam.parked
  OBVIOUS
<1> HIDE DEF left, order
<1>8. IsSequence(last)
  <2>1. last = [n \in 1 .. Cardinality(left) |-> last[n]]
    BY <1>4, <1>6
  <2> QED
    BY <1>5, <2>1, SequenceIs
<1>9. \A n \in DOMAIN last : last[n] \in DOMAIN fam.parked
  BY <1>5, <1>6, <1>7
<1>10. \A m, n \in DOMAIN last : last[m] = last[n] => m = n
  BY <1>1, <1>5, <1>6, <1>7
<1>11. \A key \in DOMAIN fam.parked : \E n \in DOMAIN last : last[n] = key
  BY <1>1, <1>5, <1>6, <1>7
<1> QED
  BY <1>8, <1>9, <1>10, <1>11 DEF last

\* At the end what is parked is emitted.
LEMMA RestIs ==
  ASSUME NEW fam, NEW output, Gathers(fam, output), fam.current = None, NEW p
  PROVE  LET last == Leftover(fam)
             output2 == output \o [k \in DOMAIN last |-> Built(p, last[k], fam.parked[last[k]])]
         IN  /\ IsSequence(output2)
             /\ \A j, k \in DOMAIN output2 : output2[j].id = output2[k].id => j = k
             /\ \A k \in DOMAIN output2 : DOMAIN output2[k].objects # {}
             /\ \A key, x : Gives(output2, key, x) <=> Holds(fam, output, key, x)
<1> DEFINE last == Leftover(fam)
           rest == [k \in DOMAIN last |-> Built(p, last[k], fam.parked[last[k]])]
           output2 == output \o rest
<1>1. /\ IsSequence(last)
      /\ \A n \in DOMAIN last : last[n] \in DOMAIN fam.parked
      /\ \A m, n \in DOMAIN last : last[m] = last[n] => m = n
      /\ \A key \in DOMAIN fam.parked : \E n \in DOMAIN last : last[n] = key
  BY LeftoverIs
<1> HIDE DEF last
<1>2. DOMAIN rest = DOMAIN last /\ \A k \in DOMAIN last : IsBuilt(rest[k], last[k], fam.parked[last[k]])
  <2>1. \A k \in DOMAIN last : AreLegible(fam.parked[last[k]])
    BY <1>1 DEF Gathers, AreHeld
  <2>2. \A k \in DOMAIN last : rest[k] = Built(p, last[k], fam.parked[last[k]])
    OBVIOUS
  <2> HIDE DEF rest
  <2>3. DOMAIN rest = DOMAIN last
    BY DEF rest
  <2> QED
    BY <2>1, <2>2, <2>3, BuiltIs
<1>3. IsSequence(rest)
  <2>1. Len(last) \in Nat /\ DOMAIN last = 1 .. Len(last)
    BY <1>1 DEF IsSequence
  <2>2. rest = [k \in 1 .. Len(last) |-> rest[k]]
    BY <2>1
  <2> HIDE DEF rest
  <2> QED
    BY <2>1, <2>2, SequenceIs
<1> HIDE DEF rest
<1>4. Joins(output2, output, rest)
  BY <1>3, JoinIs DEF Gathers
<1> HIDE DEF output2
<1>5. /\ \A j, k \in DOMAIN output : output[j].id = output[k].id => j = k
      /\ \A k \in DOMAIN output : output[k].id \notin DOMAIN fam.parked
  BY DEF Gathers
<1>6. \A k \in DOMAIN rest : rest[k].id = last[k] /\ last[k] \in DOMAIN fam.parked
  BY <1>1, <1>2 DEF IsBuilt
<1>7. /\ DOMAIN output = 1 .. Len(output) /\ Len(output) \in Nat
      /\ DOMAIN rest = 1 .. Len(rest) /\ Len(rest) \in Nat
      /\ DOMAIN output2 = 1 .. Len(output) + Len(rest)
      /\ \A i \in DOMAIN output : i \in DOMAIN output2 /\ output2[i] = output[i]
      /\ \A i \in DOMAIN rest : Len(output) + i \in DOMAIN output2 /\ output2[Len(output) + i] = rest[i]
      /\ \A i \in DOMAIN output2 : (i \in DOMAIN output /\ output2[i] = output[i]) \/
           \E k \in DOMAIN rest : i = Len(output) + k /\ output2[i] = rest[k]
  BY <1>4 DEF Joins
<1>8. ASSUME NEW j \in DOMAIN output2, NEW k \in DOMAIN output2, output2[j].id = output2[k].id PROVE j = k
  <2>1. CASE j \in DOMAIN output /\ k \in DOMAIN output
    BY <1>5, <1>7, <1>8, <2>1
  <2>2. CASE j \in DOMAIN output /\ k \notin DOMAIN output
    BY <1>5, <1>6, <1>7, <1>8, <2>2
  <2>3. CASE j \notin DOMAIN output /\ k \in DOMAIN output
    BY <1>5, <1>6, <1>7, <1>8, <2>3
  <2>4. CASE j \notin DOMAIN output /\ k \notin DOMAIN output
    <3>1. PICK m \in DOMAIN rest : j = Len(output) + m /\ output2[j] = rest[m]
      BY <1>7, <2>4
    <3>2. PICK n \in DOMAIN rest : k = Len(output) + n /\ output2[k] = rest[n]
      BY <1>7, <2>4
    <3>3. last[m] = last[n]
      BY <1>6, <1>8, <3>1, <3>2
    <3>4. m = n
      BY <1>1, <1>2, <3>3
    <3> QED
      BY <3>1, <3>2, <3>4
  <2> QED
    BY <2>1, <2>2, <2>3, <2>4
<1>9. ASSUME NEW key, NEW x PROVE Gives(output2, key, x) <=> Holds(fam, output, key, x)
  <2>1. ~IsReading(fam, key, x)
    BY DEF IsReading
  <2>2. Gives(output2, key, x) <=> Gives(output, key, x) \/ \E k \in DOMAIN rest : rest[k].id = key /\ x \in DOMAIN rest[k].objects
    BY <1>7 DEF Gives
  <2>3. (\E k \in DOMAIN rest : rest[k].id = key /\ x \in DOMAIN rest[k].objects) <=> IsParked(fam, key, x)
    <3>1. \A k \in DOMAIN rest : rest[k].id = last[k] /\
            (x \in DOMAIN rest[k].objects <=> \E m \in DOMAIN fam.parked[last[k]] : fam.parked[last[k]][m].id = x)
      BY <1>2 DEF IsBuilt
    <3> QED
      BY <1>1, <1>2, <3>1 DEF IsParked
  <2> QED
    BY <2>1, <2>2, <2>3 DEF Holds
<1>10. ASSUME NEW k \in DOMAIN output2 PROVE DOMAIN output2[k].objects # {}
  <2>1. CASE k \in DOMAIN output /\ output2[k] = output[k]
    BY <2>1 DEF Gathers
  <2>2. ASSUME NEW m \in DOMAIN rest PROVE DOMAIN rest[m].objects # {}
    <3>1. DOMAIN fam.parked[last[m]] # {}
      BY <1>1, <1>2 DEF Gathers, AreHeld
    <3> QED
      BY <1>2, <3>1 DEF IsBuilt
  <2> QED
    BY <1>7, <2>1, <2>2
<1>11. IsSequence(output2)
  BY <1>4 DEF Joins
<1> QED
  BY <1>8, <1>9, <1>10, <1>11 DEF last, rest, output2

\* After the last row of a table its last feature is closed.
LEMMA EndIs ==
  ASSUME NEW fam, NEW output, Gathers(fam, output),
         NEW b, Closes(fam) => IsBuilt(b, fam.current[1].key, fam.current[1].rows),
         NEW output2, output2 = IF Closes(fam) THEN Append(output, b) ELSE output
  PROVE  Closed(fam, output, EndOfTable(fam), output2)
<1> DEFINE after == CloseRun(fam)
           fam2 == EndOfTable(fam)
<1>1. Closed(fam, output, after, output2)
  <2> HIDE DEF after
  <2> QED
    BY CloseIs DEF after
<1>2. fam2 = [after EXCEPT !.closed = {}]
  BY DEF EndOfTable
<1> HIDE DEF after, fam2
<1>3. Gathers(after, output2) /\ after.current = None
  BY <1>1 DEF Closed
<1>4. /\ fam2.current = after.current /\ fam2.parked = after.parked /\ fam2.order = after.order
      /\ fam2.done = after.done
      /\ fam2 = [current |-> fam2.current, parked |-> fam2.parked, order |-> fam2.order, closed |-> fam2.closed,
                 done |-> fam2.done]
  <2>1. PICK c, p, o, s, d : after = [current |-> c, parked |-> p, order |-> o, closed |-> s, done |-> d]
    BY <1>3 DEF Gathers
  <2> QED
    BY <1>2, <2>1
<1>5. Gathers(fam2, output2)
  BY <1>3, <1>4 DEF Gathers
<1>6. \A key, x : Holds(fam2, output2, key, x) <=> Holds(after, output2, key, x)
  BY <1>4 DEF Holds, IsReading, IsParked
<1>7. \A key, x : Holds(after, output2, key, x) <=> Holds(fam, output, key, x)
  BY <1>1 DEF Closed
<1> QED
  BY <1>3, <1>4, <1>5, <1>6, <1>7 DEF Closed, fam2

-----------------------------------------------------------------------------
(* An export gives back what is in the tables, whoever wrote them.           *)

\* The tables are sequences of rows that have ids.
Legible == IsSequence(tables) /\ \A t \in DOMAIN tables : AreLegible(tables[t].rows)

\* The rows that have been read are those of the tables opened before, and of
\* the one being read those before its next row.
WasRead(key, x) ==
  \E t \in Opened \ reader.left : \E i \in DOMAIN tables[t].rows :
    /\ t = reader.table => i < reader.row
    /\ tables[t].rows[i].feature = key /\ tables[t].rows[i].id = x

\* Features once each, with objects: those of the rows of the tables.
GivesBack(output) ==
  /\ IsSequence(output)
  /\ \A j, k \in DOMAIN output : output[j].id = output[k].id => j = k
  /\ \A k \in DOMAIN output : DOMAIN output[k].objects # {}
  /\ \A key, x : Gives(output, key, x) <=> \E t \in Opened : Has(tables[t].rows, key, x)

Gathering ==
  /\ Gathers(reader.fam, reader.output)
  /\ reader.left \subseteq Opened
  /\ reader.table \in {0} \cup (Opened \ reader.left)
  /\ reader.table = 0 => reader.fam.current = None
  /\ reader.row \in Nat \ {0}
  /\ \A key, x : Holds(reader.fam, reader.output, key, x) <=> WasRead(key, x)

Exporting ==
  /\ reader = [left |-> reader.left, table |-> reader.table, row |-> reader.row, fam |-> reader.fam,
               output |-> reader.output, view |-> reader.view]
  /\ stage \notin {"export", "exported", "exportRefused"} =>
       reader.table = 0 /\ reader.row = 1 /\ reader.fam = NoFamily /\ reader.output = <<>>
  /\ Legible =>
       /\ stage = "export" => Gathering
       /\ stage = "exported" => GivesBack(reader.output)

\* Before the first table nothing has been gathered.
LEMMA NothingGathered == Gathers(NoFamily, <<>>) /\ \A key, x : ~Holds(NoFamily, <<>>, key, x)
<1>1. IsSequence(<<>>) /\ DOMAIN <<>> = {}
  BY DEF IsSequence
<1>2. /\ NoFamily.current = None /\ NoFamily.parked = <<>> /\ NoFamily.order = <<>>
      /\ NoFamily = [current |-> NoFamily.current, parked |-> NoFamily.parked, order |-> NoFamily.order,
                     closed |-> NoFamily.closed, done |-> NoFamily.done]
  BY DEF NoFamily
<1>3. <<>> = [key \in DOMAIN <<>> |-> <<>>[key]]
  OBVIOUS
<1>4. Gathers(NoFamily, <<>>)
  BY <1>1, <1>2, <1>3 DEF Gathers
<1>5. \A key, x : ~Holds(NoFamily, <<>>, key, x)
  BY <1>1, <1>2 DEF Holds, Gives, IsReading, IsParked
<1> QED
  BY <1>4, <1>5

LEMMA StartExports ==
  ASSUME Exporting, StartExport
  PROVE  Exporting'
<1>1. stage = "written" /\ UNCHANGED <<tables, pkg>>
  BY DEF StartExport
<1>2. reader.table = 0 /\ reader.row = 1 /\ reader.fam = NoFamily /\ reader.output = <<>>
  BY <1>1 DEF Exporting
<1>3. CASE stage' = "exportRefused" /\ UNCHANGED reader
  BY <1>1, <1>3 DEF Exporting
<1>4. CASE stage' = "export" /\ reader' = [reader EXCEPT !.left = Opened, !.view = View]
  <2> DEFINE view == View
  <2> HIDE DEF view
  <2>1. /\ reader'.left = Opened /\ reader'.table = 0 /\ reader'.row = 1 /\ reader'.fam = NoFamily
        /\ reader'.output = <<>>
        /\ reader' = [left |-> reader'.left, table |-> reader'.table, row |-> reader'.row, fam |-> reader'.fam,
                      output |-> reader'.output, view |-> reader'.view]
    <3>1. PICK l, v : reader = [left |-> l, table |-> 0, row |-> 1, fam |-> NoFamily, output |-> <<>>, view |-> v]
      BY <1>2 DEF Exporting
    <3>2. reader' = [left |-> Opened, table |-> 0, row |-> 1, fam |-> NoFamily, output |-> <<>>, view |-> view]
      <4> DEFINE opened == Opened
      <4>1. reader' = [reader EXCEPT !.left = opened, !.view = view]
        BY <1>4 DEF view
      <4> HIDE DEF opened
      <4>2. reader' = [left |-> opened, table |-> 0, row |-> 1, fam |-> NoFamily, output |-> <<>>, view |-> view]
        BY <3>1, <4>1
      <4> QED
        BY <4>2 DEF opened
    <3> QED
      BY <3>2
  <2>2. Opened' = Opened
    BY <1>1 DEF Opened
  <2>3. \A key, x : ~WasRead(key, x)'
    BY <2>1, <2>2 DEF WasRead
  <2>4. NoFamily.current = None
    BY DEF NoFamily
  <2>5. /\ Gathers(reader'.fam, reader'.output)
        /\ \A key, x : ~Holds(reader'.fam, reader'.output, key, x)
    BY <2>1, NothingGathered
  <2>6. Gathering'
    BY <2>1, <2>2, <2>3, <2>4, <2>5 DEF Gathering
  <2> QED
    BY <1>4, <2>1, <2>6 DEF Exporting
<1> QED
  BY <1>3, <1>4 DEF StartExport

\* A table is opened: none of its rows has been read.
LEMMA OpenExports ==
  ASSUME Exporting, OpenTable
  PROVE  Exporting'
<1>1. stage = "export" /\ stage' = "export" /\ reader.table = 0 /\ UNCHANGED <<tables, pkg>>
  BY DEF OpenTable
<1>2. PICK t \in reader.left : reader' = [reader EXCEPT !.table = t, !.row = 1, !.left = @ \ {t}]
  BY DEF OpenTable
<1>3. /\ reader'.left = reader.left \ {t} /\ reader'.table = t /\ reader'.row = 1 /\ reader'.fam = reader.fam
      /\ reader'.output = reader.output
      /\ reader' = [left |-> reader'.left, table |-> reader'.table, row |-> reader'.row, fam |-> reader'.fam,
                    output |-> reader'.output, view |-> reader'.view]
  <2>1. PICK l, n, r, f, o, v :
          reader = [left |-> l, table |-> n, row |-> r, fam |-> f, output |-> o, view |-> v]
    BY DEF Exporting
  <2> DEFINE rest == l \ {t}
  <2>2. reader' = [reader EXCEPT !.table = t, !.row = 1, !.left = rest]
    BY <1>2, <2>1
  <2> HIDE DEF rest
  <2>3. reader' = [left |-> rest, table |-> t, row |-> 1, fam |-> f, output |-> o, view |-> v]
    BY ONLY <2>1, <2>2
  <2> QED
    BY <2>1, <2>3 DEF rest
<1>4. Opened' = Opened /\ (Legible' <=> Legible)
  BY <1>1 DEF Opened, Legible
<1>5. ASSUME Legible PROVE Gathering'
  <2>1. Gathering
    BY <1>1, <1>5 DEF Exporting
  <2>2. t \in Opened /\ t # 0 /\ t \in Nat
    BY <1>5, <2>1 DEF Gathering, Opened, Legible, IsSequence
  <2>3. ASSUME NEW key, NEW x PROVE WasRead(key, x)' <=> WasRead(key, x)
    <3>1. \A i \in DOMAIN tables[t].rows : ~(i < 1)
      <4>1. IsSequence(tables[t].rows)
        BY <1>5, <2>2 DEF Legible, AreLegible, Opened
      <4> DEFINE held == tables[t].rows
      <4>2. DOMAIN held = 1 .. Len(held) /\ Len(held) \in Nat
        BY <4>1 DEF IsSequence
      <4> QED
        BY <4>2
    <3>2. \A u \in Opened \ reader.left : u # t /\ u # 0
      BY <1>5 DEF Opened, Legible, IsSequence
    <3> QED
      BY <1>1, <1>3, <1>4, <2>2, <3>1, <3>2 DEF WasRead
  <2> QED
    BY <1>1, <1>3, <1>4, <2>1, <2>2, <2>3 DEF Gathering
<1> QED
  BY <1>1, <1>3, <1>4, <1>5 DEF Exporting

\* The next row comes to its feature.
LEMMA ReadExports ==
  ASSUME Exporting, ReadRow
  PROVE  Exporting'
<1> DEFINE t == reader.table
           i == reader.row
           row == tables[t].rows[i]
           fam == PushRow(reader.fam, row)
           b == Built(PackageAt(t), reader.fam.current[1].key, reader.fam.current[1].rows)
           output2 == IF Continues(reader.fam, row) THEN reader.output
                      ELSE IF Closes(reader.fam) THEN Append(reader.output, b) ELSE reader.output
<1>1. stage = "export" /\ t # 0 /\ i <= Len(tables[t].rows) /\ UNCHANGED <<tables, pkg>>
  BY DEF ReadRow
<1>2. Opened' = Opened /\ (Legible' <=> Legible)
  BY <1>1 DEF Opened, Legible
<1>3. CASE stage' = "exportRefused" /\ UNCHANGED reader
  BY <1>1, <1>3 DEF Exporting
<1>4. CASE ~PushRefused(reader.fam, row) /\ stage' = "export"
           /\ reader' = [reader EXCEPT !.row = i + 1, !.fam = fam, !.output = output2]
  <2> HIDE DEF fam, output2, row
  <2>1. /\ reader'.left = reader.left /\ reader'.table = t /\ reader'.row = i + 1 /\ reader'.fam = fam
        /\ reader'.output = output2
        /\ reader' = [left |-> reader'.left, table |-> reader'.table, row |-> reader'.row, fam |-> reader'.fam,
                      output |-> reader'.output, view |-> reader'.view]
    <3>1. PICK l, n, r, f, o, v :
            reader = [left |-> l, table |-> n, row |-> r, fam |-> f, output |-> o, view |-> v]
      BY DEF Exporting
    <3>2. reader' = [reader EXCEPT !.row = r + 1, !.fam = fam, !.output = output2]
      BY <1>4, <3>1
    <3>3. reader' = [left |-> l, table |-> n, row |-> r + 1, fam |-> fam, output |-> output2, view |-> v]
      BY ONLY <3>1, <3>2
    <3> QED
      BY <3>1, <3>3
  <2>2. ASSUME Legible PROVE Gathering'
    <3>1. Gathering
      BY <1>1, <2>2 DEF Exporting
    <3>2. t \in Opened \ reader.left /\ t \in DOMAIN tables
      BY <1>1, <3>1 DEF Gathering, Opened
    <3>3. IsSequence(tables[t].rows) /\ \A k \in DOMAIN tables[t].rows : "id" \in DOMAIN tables[t].rows[k]
      BY <2>2, <3>2 DEF Legible, AreLegible
    <3>4. DOMAIN tables[t].rows = 1 .. Len(tables[t].rows) /\ Len(tables[t].rows) \in Nat
      <4> DEFINE held == tables[t].rows
      <4>1. DOMAIN held = 1 .. Len(held) /\ Len(held) \in Nat
        BY <3>3 DEF IsSequence
      <4> QED
        BY <4>1
    <3>5. i \in DOMAIN tables[t].rows /\ i \in Nat \ {0} /\ "id" \in DOMAIN row
      BY <1>1, <3>1, <3>3, <3>4 DEF Gathering, row
    <3>6. Gained(reader.fam, reader.output, row, fam, output2)
      <4>1. Gathers(reader.fam, reader.output)
        BY <3>1 DEF Gathering
      <4>2. Closes(reader.fam) => IsBuilt(b, reader.fam.current[1].key, reader.fam.current[1].rows)
        <5> SUFFICES ASSUME Closes(reader.fam) PROVE AreLegible(reader.fam.current[1].rows)
          BY BuiltIs
        <5> QED
          BY <4>1 DEF Gathers, AreHeld, Closes
      <4>3. output2 = IF Continues(reader.fam, row) THEN reader.output
                      ELSE IF Closes(reader.fam) THEN Append(reader.output, b) ELSE reader.output
        BY DEF output2
      <4> HIDE DEF b
      <4>4. Gained(reader.fam, reader.output, row, PushRow(reader.fam, row), output2)
        BY ONLY <1>4, <3>5, <4>1, <4>2, <4>3, PushIs
      <4> QED
        BY <4>4 DEF fam
    <3>7. ASSUME NEW key, NEW x
          PROVE  WasRead(key, x)' <=> WasRead(key, x) \/ (key = row.feature /\ x = row.id)
      <4>1. \A k \in DOMAIN tables[t].rows : k < i + 1 <=> k < i \/ k = i
        BY <3>4, <3>5
      <4> QED
        BY <1>1, <1>2, <2>1, <3>2, <3>5, <4>1 DEF WasRead, row
    <3>8. /\ Gathers(reader'.fam, reader'.output) /\ reader'.fam.current # None
          /\ \A key, x : Holds(reader'.fam, reader'.output, key, x) <=>
               Holds(reader.fam, reader.output, key, x) \/ (key = row.feature /\ x = row.id)
      BY <2>1, <3>6 DEF Gained
    <3>9. \A key, x : Holds(reader'.fam, reader'.output, key, x) <=> WasRead(key, x)'
      BY <3>1, <3>7, <3>8 DEF Gathering
    <3> QED
      BY <1>1, <1>2, <2>1, <3>1, <3>5, <3>8, <3>9 DEF Gathering
  <2> QED
    BY <1>2, <1>4, <2>1, <2>2 DEF Exporting
<1> QED
  <2>1. \/ stage' = "exportRefused" /\ UNCHANGED reader
        \/ /\ ~PushRefused(reader.fam, row) /\ stage' = "export"
           /\ reader' = [reader EXCEPT !.row = @ + 1, !.fam = fam,
                                       !.output = IF Continues(reader.fam, row) THEN @ ELSE Emits(t)]
    <3> HIDE DEF fam, b
    <3> QED
      BY <1>1 DEF ReadRow, fam
  <2>2. (IF Continues(reader.fam, row) THEN reader.output ELSE Emits(t)) = output2
    BY DEF Emits, Emitted
  <2> HIDE DEF fam, row, output2
  <2> QED
    BY <1>3, <1>4, <2>1, <2>2

\* A table has no more rows.
LEMMA EndTableExports ==
  ASSUME Exporting, EndTable
  PROVE  Exporting'
<1> DEFINE t == reader.table
           fam == EndOfTable(reader.fam)
           b == Built(PackageAt(t), reader.fam.current[1].key, reader.fam.current[1].rows)
           output2 == IF Closes(reader.fam) THEN Append(reader.output, b) ELSE reader.output
<1>1. stage = "export" /\ stage' = "export" /\ t # 0 /\ reader.row > Len(tables[t].rows) /\ UNCHANGED <<tables, pkg>>
  BY DEF EndTable
<1>2. Opened' = Opened /\ (Legible' <=> Legible)
  BY <1>1 DEF Opened, Legible
<1>3. reader' = [reader EXCEPT !.table = 0, !.fam = fam, !.output = output2]
  BY DEF EndTable, Emits, Emitted
<1> HIDE DEF fam, output2
<1>4. /\ reader'.left = reader.left /\ reader'.table = 0 /\ reader'.row = reader.row /\ reader'.fam = fam
      /\ reader'.output = output2
      /\ reader' = [left |-> reader'.left, table |-> reader'.table, row |-> reader'.row, fam |-> reader'.fam,
                    output |-> reader'.output, view |-> reader'.view]
  <2>1. PICK l, n, r, f, o, v :
          reader = [left |-> l, table |-> n, row |-> r, fam |-> f, output |-> o, view |-> v]
    BY DEF Exporting
  <2>2. reader' = [left |-> l, table |-> 0, row |-> r, fam |-> fam, output |-> output2, view |-> v]
    BY ONLY <1>3, <2>1
  <2> QED
    BY <2>1, <2>2
<1>5. ASSUME Legible PROVE Gathering'
  <2>1. Gathering
    BY <1>1, <1>5 DEF Exporting
  <2>2. t \in Opened \ reader.left /\ t \in DOMAIN tables
    BY <1>1, <2>1 DEF Gathering, Opened
  <2>3. Closed(reader.fam, reader.output, fam, output2)
    <3>1. Gathers(reader.fam, reader.output)
      BY <2>1 DEF Gathering
    <3>2. Closes(reader.fam) => IsBuilt(b, reader.fam.current[1].key, reader.fam.current[1].rows)
      <4> SUFFICES ASSUME Closes(reader.fam) PROVE AreLegible(reader.fam.current[1].rows)
        BY BuiltIs
      <4> QED
        BY <3>1 DEF Gathers, AreHeld, Closes
    <3>3. output2 = IF Closes(reader.fam) THEN Append(reader.output, b) ELSE reader.output
      BY DEF output2
    <3> HIDE DEF b
    <3>4. Closed(reader.fam, reader.output, EndOfTable(reader.fam), output2)
      BY ONLY <3>1, <3>2, <3>3, EndIs
    <3> QED
      BY <3>4 DEF fam
  <2>4. \A i \in DOMAIN tables[t].rows : i < reader.row
    <3> DEFINE held == tables[t].rows
    <3>1. IsSequence(held)
      BY <1>5, <2>2 DEF Legible, AreLegible
    <3>2. DOMAIN held = 1 .. Len(held) /\ Len(held) \in Nat
      BY <3>1 DEF IsSequence
    <3>3. reader.row \in Nat
      BY <2>1 DEF Gathering
    <3> QED
      BY <1>1, <3>2, <3>3
  <2>5. ASSUME NEW key, NEW x PROVE WasRead(key, x)' <=> WasRead(key, x)
    <3>1. \A u \in Opened : u # 0
      BY <1>5 DEF Opened, Legible, IsSequence
    <3> QED
      BY <1>1, <1>2, <1>4, <2>4, <3>1 DEF WasRead
  <2>6. /\ Gathers(reader'.fam, reader'.output) /\ reader'.fam.current = None
        /\ \A key, x : Holds(reader'.fam, reader'.output, key, x) <=> Holds(reader.fam, reader.output, key, x)
    BY <1>4, <2>3 DEF Closed
  <2> QED
    BY <1>2, <1>4, <2>1, <2>5, <2>6 DEF Gathering
<1> QED
  BY <1>1, <1>2, <1>4, <1>5 DEF Exporting

\* The last table has been read.
LEMMA EndsExports ==
  ASSUME Exporting, ExportEnds
  PROVE  Exporting'
<1> DEFINE last == Leftover(reader.fam)
           p == PackageAt(1)
           output2 == reader.output \o [k \in DOMAIN last |-> Built(p, last[k], reader.fam.parked[last[k]])]
<1>1. /\ stage = "export" /\ stage' = "exported" /\ reader.table = 0 /\ reader.left = {}
      /\ UNCHANGED <<tables, pkg>>
  BY DEF ExportEnds
<1>2. Opened' = Opened /\ (Legible' <=> Legible)
  BY <1>1 DEF Opened, Legible
<1>3. reader' = [reader EXCEPT !.output = output2]
  BY DEF ExportEnds
<1> HIDE DEF output2
<1>4. /\ reader'.output = output2
      /\ reader' = [left |-> reader'.left, table |-> reader'.table, row |-> reader'.row, fam |-> reader'.fam,
                    output |-> reader'.output, view |-> reader'.view]
  <2>1. PICK l, n, r, f, o, v :
          reader = [left |-> l, table |-> n, row |-> r, fam |-> f, output |-> o, view |-> v]
    BY DEF Exporting
  <2>2. reader' = [left |-> l, table |-> n, row |-> r, fam |-> f, output |-> output2, view |-> v]
    BY ONLY <1>3, <2>1
  <2> QED
    BY <2>2
<1>5. ASSUME Legible PROVE GivesBack(output2)
  <2>1. Gathering
    BY <1>1, <1>5 DEF Exporting
  <2>2. /\ IsSequence(output2)
        /\ \A j, k \in DOMAIN output2 : output2[j].id = output2[k].id => j = k
        /\ \A k \in DOMAIN output2 : DOMAIN output2[k].objects # {}
        /\ \A key, x : Gives(output2, key, x) <=> Holds(reader.fam, reader.output, key, x)
    <3>1. Gathers(reader.fam, reader.output) /\ reader.fam.current = None
      BY <1>1, <2>1 DEF Gathering
    <3> HIDE DEF p
    <3> QED
      BY <3>1, RestIs DEF output2
  <2>3. ASSUME NEW key, NEW x PROVE WasRead(key, x) <=> \E t \in Opened : Has(tables[t].rows, key, x)
    <3>1. \A u \in Opened : u # 0
      BY <1>5 DEF Opened, Legible, IsSequence
    <3> QED
      BY <1>1, <3>1 DEF WasRead, Has
  <2>4. \A key, x : Gives(output2, key, x) <=> \E t \in Opened : Has(tables[t].rows, key, x)
    BY <2>1, <2>2, <2>3 DEF Gathering
  <2> QED
    BY <2>2, <2>4 DEF GivesBack
<1>6. Legible => GivesBack(reader.output)'
  <2> SUFFICES ASSUME Legible PROVE GivesBack(reader.output)'
    OBVIOUS
  <2>1. GivesBack(output2)
    BY <1>5
  <2> QED
    BY <1>1, <1>2, <1>4, <2>1 DEF GivesBack
<1> QED
  BY <1>1, <1>2, <1>4, <1>6 DEF Exporting

LEMMA InitExports ==
  ASSUME Init
  PROVE  Exporting
<1>1. stage = "scan" /\ reader = [left |-> {}, table |-> 0, row |-> 1, fam |-> NoFamily, output |-> <<>>, view |-> NoView]
  BY DEF Init
<1> QED
  BY <1>1 DEF Exporting

\* Until the export nothing is read; once it has ended nothing changes.
LEMMA ExportStays ==
  ASSUME Exporting, UNCHANGED reader,
         \/ UNCHANGED <<stage, tables, pkg>>
         \/ {stage, stage'} \cap {"export", "exported", "exportRefused"} = {}
  PROVE  Exporting'
<1>1. CASE UNCHANGED <<stage, tables, pkg>>
  <2>1. Opened' = Opened /\ (Legible' <=> Legible)
    BY <1>1 DEF Opened, Legible
  <2>2. Gathering' <=> Gathering
    BY <1>1, <2>1 DEF Gathering, WasRead
  <2>3. GivesBack(reader.output)' <=> GivesBack(reader.output)
    BY <1>1, <2>1 DEF GivesBack
  <2> QED
    BY <1>1, <2>1, <2>2, <2>3 DEF Exporting
<1>2. CASE {stage, stage'} \cap {"export", "exported", "exportRefused"} = {}
  BY <1>2 DEF Exporting
<1> QED
  BY <1>1, <1>2

LEMMA NextExports ==
  ASSUME Exporting, [Next]_vars
  PROVE  Exporting'
<1>1. CASE UNCHANGED vars
  BY <1>1, ExportStays DEF vars
<1>2. CASE \/ ScanSource \/ PassFeature \/ EncodeObject \/ SendBatch \/ SortBatch \/ EncodingEnds
           \/ SortBatchFails \/ SortWorks \/ SortFails \/ SendSorted \/ SortingEnds \/ FinishPackage \/ Edit
  <2>1. /\ UNCHANGED reader
        /\ stage \in {"scan", "encode", "sort", "finish", "written"}
        /\ stage' \in {"scan", "encode", "sort", "finish", "written", "refused", "failed"}
    BY <1>2 DEF ScanSource, PassFeature, EncodeObject, SendBatch, SortBatch, EncodingEnds, SortBatchFails, SortWorks,
                SortFails, SendSorted, SortingEnds, FinishPackage, Edit, WriteBatch
  <2> QED
    BY <2>1, ExportStays
<1> QED
  BY <1>1, <1>2, StartExports, OpenExports, ReadExports, EndTableExports, EndsExports DEF Next

\* However a package is read and whoever wrote it (export.rs, family.rs): its
\* tables in any order, a feature's rows anywhere in them, an export that is
\* not refused gives each feature once, with the objects of its rows and no
\* others, if the tables hold rows with ids.
ExportGivesBack == stage = "exported" /\ Legible => GivesBack(reader.output)

THEOREM ExportIsExact == Spec => []ExportGivesBack
<1>1. Init => Exporting
  BY InitExports
<1>2. Exporting /\ [Next]_vars => Exporting'
  BY NextExports
<1>3. Exporting => ExportGivesBack
  BY DEF Exporting, ExportGivesBack
<1> QED
  BY <1>1, <1>2, <1>3, PTL DEF Spec
-----------------------------------------------------------------------------
(* Every object of the source becomes a row.                                 *)

\* The rows of a feature are its objects, each once.
LEMMA RowIdsAre ==
  ASSUME NEW f, DOMAIN f.objects \in SUBSET Nat, IsFiniteSet(DOMAIN f.objects)
  PROVE  Lists(RowIds(f), DOMAIN f.objects)
<1> DEFINE S == DOMAIN f.objects
           root == f.id
           lt(a, b) == b # root /\ (a = root \/ a < b)
           before == [x \in S |-> {y \in S : lt(y, x)}]
           ids == RowIds(f)
<1>1. DOMAIN ids = 1 .. Cardinality(S)
  BY DEF RowIds, Ranked
<1>2. \A n \in 1 .. Cardinality(S) : ids[n] = CHOOSE x \in S : Cardinality({y \in S : lt(y, x)}) = n - 1
  BY DEF RowIds, Ranked
<1>3. \A x \in S : before[x] = {y \in S : lt(y, x)}
  OBVIOUS
<1>4. SP!Ranks(ids, before, S)
  <2>1. \A X : SP!Cardinality(X) = Cardinality(X)
    BY DEF SP!Cardinality, Cardinality
  <2> HIDE DEF ids, before, lt
  <2> QED
    BY <1>2, <1>3, <2>1 DEF SP!Ranks
<1>5. SP!Orders(before, S)
  <2>1. before \in [S -> SUBSET S]
    OBVIOUS
  <2>2. SP!IsFiniteSet(S)
    BY DEF SP!IsFiniteSet, IsFiniteSet
  <2>3. \A x, y \in S : x \in before[y] <=> lt(x, y)
    OBVIOUS
  <2> HIDE DEF before, S
  <2>4. S \subseteq Nat
    BY DEF S
  <2>5. /\ \A x \in S : ~lt(x, x)
        /\ \A x, y \in S : x # y => lt(x, y) \/ lt(y, x)
        /\ \A x, y, z \in S : lt(x, y) /\ lt(y, z) => lt(x, z)
    <3> HIDE DEF root
    <3> QED
      BY <2>4
  <2> HIDE DEF lt
  <2> QED
    BY <2>1, <2>2, <2>3, <2>5 DEF SP!Orders
<1> HIDE DEF ids, before, lt
<1> QED
  <2>1. Lists(ids, S)
    BY ONLY <1>1, <1>4, <1>5, ListsIs
  <2> QED
    BY <2>1 DEF ids

LEMMA SourceIs ==
  ASSUME src \in Sources
  PROVE  /\ Len(src.features) \in Nat /\ DOMAIN src.features = 1 .. Len(src.features)
         /\ \A j \in DOMAIN src.features :
              /\ src.features[j] \in ToSet(src.features)
              /\ Lists(RowIds(src.features[j]), DOMAIN src.features[j].objects)
<1> DEFINE S == ToSet(src.features)
<1>1. src.features \in Seq(S) /\ \A f \in S : DOMAIN f.objects \subseteq Nat /\ IsFiniteSet(DOMAIN f.objects)
  BY ConstantsAssumption DEF ConstantsAssumption
<1>2. \A j \in DOMAIN src.features : src.features[j] \in S
  BY DEF ToSet
<1> HIDE DEF S
<1>3. Len(src.features) \in Nat /\ DOMAIN src.features = 1 .. Len(src.features)
  BY <1>1
<1>4. \A f \in S : Lists(RowIds(f), DOMAIN f.objects)
  BY <1>1, RowIdsAre
<1> QED
  BY <1>2, <1>3, <1>4 DEF S

\* The objects that have been encoded: those of the features before the next
\* one, and of that one those before its next row.
Coded(key, x) ==
  \E j \in DOMAIN src.features : LET f == src.features[j] IN
    /\ f.id = key /\ x \in DOMAIN f.objects
    /\ j < encoder.feature \/ (j = encoder.feature /\ \E n \in 1 .. encoder.row - 1 : RowIds(f)[n] = x)

Coding ==
  /\ src \in Sources
  /\ encoder.feature \in Nat \ {0} /\ encoder.row \in Nat \ {0}
  /\ encoder.row = 1 \/ (~Exhausted /\ encoder.row <= Cardinality(DOMAIN Feature.objects))
  /\ \A key, x : Has(rows, key, x) <=> Coded(key, x)

LEMMA InitCodes ==
  ASSUME Init
  PROVE  Coding
<1>1. encoder.feature = 1 /\ encoder.row = 1 /\ rows = <<>> /\ src \in Sources
  BY DEF Init
<1>2. \A key, x : ~Has(rows, key, x)
  BY <1>1 DEF Has
<1>3. \A key, x : ~Coded(key, x)
  BY <1>1, SourceIs DEF Coded
<1> QED
  BY <1>1, <1>2, <1>3 DEF Coding

LEMMA CodeStays ==
  ASSUME Coding, UNCHANGED <<src, rows>>, encoder'.feature = encoder.feature, encoder'.row = encoder.row
  PROVE  Coding'
BY DEF Coding, Coded, Exhausted, Feature

\* A feature without objects is passed.
LEMMA PassCodes ==
  ASSUME Coding, EncoderIs, PassFeature
  PROVE  Coding'
<1>1. ~Exhausted /\ DOMAIN Feature.objects = {} /\ encoder' = [encoder EXCEPT !.feature = @ + 1] /\ UNCHANGED <<src, rows>>
  BY DEF PassFeature
<1>2. encoder'.feature = encoder.feature + 1 /\ encoder'.row = encoder.row
  BY <1>1 DEF EncoderIs
<1>3. encoder.row = 1
  <2>1. Cardinality(DOMAIN Feature.objects) = 0
    BY <1>1, FS_EmptySet
  <2> QED
    BY <2>1 DEF Coding
<1>4. ASSUME NEW key, NEW x PROVE Coded(key, x)' <=> Coded(key, x)
  <2>1. \A j \in DOMAIN src.features : (j < encoder.feature + 1 <=> j < encoder.feature \/ j = encoder.feature)
    BY SourceIs DEF Coding
  <2> QED
    BY <1>1, <1>2, <1>3, <2>1 DEF Coded, Feature
<1> QED
  BY <1>1, <1>2, <1>3, <1>4 DEF Coding

\* One row more has its object.
LEMMA HasGrows ==
  ASSUME NEW s, IsSequence(s), NEW r, NEW key, NEW x
  PROVE  Has(Append(s, r), key, x) <=> Has(s, key, x) \/ (r.feature = key /\ r.id = x)
<1> DEFINE A == {s[i] : i \in DOMAIN s}
           more == Append(s, r)
<1>1. s \in Seq(A)
  BY DEF IsSequence
<1> HIDE DEF A
<1>2. s \in Seq(A \cup {r})
  BY <1>1
<1>3. /\ Len(s) \in Nat /\ DOMAIN s = 1 .. Len(s) /\ DOMAIN more = 1 .. Len(s) + 1
      /\ \A i \in 1 .. Len(s) : more[i] = s[i]
      /\ more[Len(s) + 1] = r
  BY <1>2
<1> HIDE DEF more
<1> QED
  BY <1>3 DEF Has, more

\* The next object is encoded.
LEMMA EncodeCodes ==
  ASSUME Coding, EncoderIs, AreRows(rows), EncodeObject
  PROVE  Coding'
<1> DEFINE f == Feature
           n == encoder.row
           id == RowIds(f)[n]
           defs == DefsAfter(src, f, f.objects[id], encoder.defs)
           row == EncodedRow(src, scan, f, id, defs)
           size == Cardinality(DOMAIN f.objects)
<1>1. row.feature = f.id /\ row.id = id
  <2> HIDE DEF f, id, defs
  <2> QED
    BY DEF EncodedRow
<1>2. ~Exhausted /\ DOMAIN f.objects # {} /\ UNCHANGED src
  BY DEF EncodeObject
<1>3. \/ UNCHANGED <<encoder, rows>>
      \/ /\ encoder'.feature = IF n = size THEN encoder.feature + 1 ELSE encoder.feature
         /\ encoder'.row = IF n = size THEN 1 ELSE n + 1
         /\ rows' = Append(rows, row)
  <2> HIDE DEF row, defs, id, f
  <2> QED
    BY DEF EncodeObject, row, defs, id, f
<1> HIDE DEF row, defs
<1>4. encoder.feature \in DOMAIN src.features /\ encoder.feature \in Nat /\ f = src.features[encoder.feature]
  BY <1>2, SourceIs DEF Coding, Exhausted, Feature
<1>5. Lists(RowIds(f), DOMAIN f.objects)
  BY <1>4, SourceIs DEF Coding
<1>6. size \in Nat /\ n \in 1 .. size /\ DOMAIN RowIds(f) = 1 .. size
  <2>1. size \in Nat /\ DOMAIN RowIds(f) = 1 .. size /\ \A x \in DOMAIN f.objects : \E m \in 1 .. size : RowIds(f)[m] = x
    BY <1>5 DEF Lists
  <2>2. 1 <= size
    BY <1>2, <2>1
  <2> QED
    BY <2>1, <2>2 DEF Coding
<1>7. CASE UNCHANGED <<encoder, rows>>
  BY <1>2, <1>7, CodeStays
<1>8. ASSUME encoder'.feature = IF n = size THEN encoder.feature + 1 ELSE encoder.feature,
             encoder'.row = IF n = size THEN 1 ELSE n + 1,
             rows' = Append(rows, row)
      PROVE  Coding'
  <2>1. ASSUME NEW key, NEW x
        PROVE  Coded(key, x)' <=> Coded(key, x) \/ (key = f.id /\ x = id)
    <3> DEFINE Now(j) == j < encoder.feature \/ (j = encoder.feature /\ \E m \in 1 .. n - 1 : RowIds(src.features[j])[m] = x)
               Then(j) == j < encoder'.feature \/ (j = encoder'.feature /\ \E m \in 1 .. encoder'.row - 1 : RowIds(src.features[j])[m] = x)
    <3>1. id \in DOMAIN f.objects
      BY <1>5, <1>6 DEF Lists
    <3>2. ASSUME NEW j \in DOMAIN src.features, x \in DOMAIN src.features[j].objects
          PROVE  Then(j) <=> Now(j) \/ (j = encoder.feature /\ x = id)
      <4>1. j \in Nat
        BY SourceIs DEF Coding
      <4>2. CASE n = size
        <5>1. j = encoder.feature => \E m \in 1 .. n : RowIds(f)[m] = x
          BY <1>4, <1>5, <1>6, <3>2, <4>2 DEF Lists
        <5>2. j = encoder.feature => x = id \/ \E m \in 1 .. n - 1 : RowIds(f)[m] = x
          BY <1>6, <5>1
        <5>3. encoder'.feature = encoder.feature + 1 /\ encoder'.row = 1
          BY <1>8, <4>2
        <5> HIDE DEF f, id
        <5> QED
          BY <1>4, <4>1, <5>2, <5>3
      <4>3. CASE n # size
        <5>1. encoder'.feature = encoder.feature /\ encoder'.row = n + 1
          BY <1>8, <4>3
        <5>2. (\E m \in 1 .. n : RowIds(f)[m] = x) <=> x = id \/ \E m \in 1 .. n - 1 : RowIds(f)[m] = x
          BY <1>6
        <5> QED
          BY <1>4, <1>6, <4>1, <5>1, <5>2
      <4> QED
        BY <4>2, <4>3
    <3>3. Coded(key, x) <=> \E j \in DOMAIN src.features : src.features[j].id = key /\ x \in DOMAIN src.features[j].objects /\ Now(j)
      BY DEF Coded
    <3>4. Coded(key, x)' <=> \E j \in DOMAIN src.features : src.features[j].id = key /\ x \in DOMAIN src.features[j].objects /\ Then(j)
      BY <1>2 DEF Coded
    <3> HIDE DEF Now, Then
    <3> QED
      BY <1>4, <3>1, <3>2, <3>3, <3>4
  <2>2. \A key, x : Has(rows', key, x) <=> Has(rows, key, x) \/ (row.feature = key /\ row.id = x)
    BY <1>8, HasGrows DEF AreRows
  <2>3. \A key, x : Has(rows', key, x) <=> Coded(key, x)'
    BY <1>1, <2>1, <2>2 DEF Coding
  <2>4. encoder'.feature \in Nat \ {0} /\ encoder'.row \in Nat \ {0}
    BY <1>4, <1>6, <1>8 DEF Coding
  <2>5. encoder'.row = 1 \/ (~Exhausted' /\ encoder'.row <= Cardinality(DOMAIN Feature'.objects))
    <3>1. CASE n = size
      BY <1>8, <3>1
    <3>2. CASE n # size
      <4>1. encoder'.feature = encoder.feature /\ encoder'.row = n + 1 /\ n + 1 <= size
        BY <1>6, <1>8, <3>2
      <4>2. ~Exhausted' /\ Feature' = f
        BY <1>2, <4>1 DEF Exhausted, Feature
      <4> QED
        BY <4>1, <4>2
    <3> QED
      BY <3>1, <3>2
  <2>6. \A key, x : (Has(rows, key, x) <=> Coded(key, x))'
    BY <2>3 DEF Has
  <2> QED
    BY <1>2, <2>4, <2>5, <2>6 DEF Coding
<1> QED
  BY <1>3, <1>7, <1>8

-----------------------------------------------------------------------------
(* Every row comes to its table.                                             *)

\* The sorted rows that have been written.
SortedBatch(b) == [k \in DOMAIN out[b] |-> rows[out[b][k][2]]]

SortedHas(key, x) == \E b \in 1 .. taken : Has(SortedBatch(b), key, x)

\* Everything is encoded, and everything encoded is in the tables.
AllStored == Exhausted /\ \A key, x : Stores(tables, key, x) <=> Has(rows, key, x)

Keeping ==
  /\ stage \in {"scan", "encode"} =>
       IF src.hilbert
       THEN tables = <<>> /\ out = <<>> /\ taken = 0 /\ Len(pushed) + Len(encoder.batch) = Len(rows)
       ELSE \A key, x : Stores(tables, key, x) \/ Has(encoder.batch, key, x) <=> Has(rows, key, x)
  /\ stage = "sort" =>
       /\ Exhausted /\ Len(pushed) = Len(rows) /\ taken <= Len(out)
       /\ \A key, x : Stores(tables, key, x) <=> SortedHas(key, x)
  /\ stage = "finish" => AllStored
  /\ stage \in {"written", "export", "exported"} /\ pkg.own =>
       AllStored /\ \A t \in DOMAIN tables : tables[t].file \in ListedTables(pkg.item)

LEMMA NothingStored == \A key, x : ~Stores(<<>>, key, x) /\ ~Has(<<>>, key, x)
BY DEF Stores, Has

LEMMA InitKeeps ==
  ASSUME Init
  PROVE  Keeping
<1>1. /\ stage = "scan" /\ tables = <<>> /\ encoder.batch = <<>> /\ rows = <<>> /\ taken = 0
      /\ out = <<>> /\ pushed = <<>>
  BY DEF Init, Sort!Init
<1>2. Len(<<>>) = 0
  OBVIOUS
<1> QED
  BY <1>1, <1>2, NothingStored DEF Keeping

\* What the steps leave alone.
LEMMA KeepStays ==
  ASSUME Keeping, UNCHANGED <<src, encoder, rows, tables, taken, pkg, sort>>,
         \/ stage' = stage
         \/ stage \in {"scan", "encode"} /\ stage' \in {"scan", "encode"}
         \/ stage \in {"written", "export", "exported"} /\ stage' \in {"written", "export", "exported"}
         \/ stage' \in {"refused", "failed", "exportRefused"}
  PROVE  Keeping'
<1>1. UNCHANGED <<out, pushed>>
  BY DEF sort
<1>2. \A key, x : SortedHas(key, x)' <=> SortedHas(key, x)
  BY <1>1 DEF SortedHas, SortedBatch
<1>3. Exhausted' = Exhausted
  BY DEF Exhausted
<1>4. AllStored' <=> AllStored
  BY <1>3 DEF AllStored
<1> QED
  BY <1>1, <1>2, <1>3, <1>4 DEF Keeping

LEMMA PassKeeps ==
  ASSUME Keeping, EncoderIs, PassFeature
  PROVE  Keeping'
<1>1. /\ stage = "encode" /\ stage' = stage /\ UNCHANGED <<src, rows, tables, taken, pkg, sort>>
      /\ encoder' = [encoder EXCEPT !.feature = @ + 1]
  BY DEF PassFeature
<1>2. encoder'.batch = encoder.batch /\ UNCHANGED <<out, pushed>>
  BY <1>1 DEF EncoderIs, sort
<1> QED
  BY <1>1, <1>2 DEF Keeping

LEMMA EncodeKeeps ==
  ASSUME Keeping, Feeding, EncodeObject
  PROVE  Keeping'
<1> DEFINE f == Feature
           id == RowIds(f)[encoder.row]
           defs == DefsAfter(src, f, f.objects[id], encoder.defs)
           row == EncodedRow(src, scan, f, id, defs)
<1>1. {"feature", "id", "type"} \subseteq DOMAIN row
  BY DEF EncodedRow
<1>2. stage = "encode" /\ UNCHANGED <<src, tables, taken, pkg, sort>>
  BY DEF EncodeObject
<1>3. \/ stage' = "refused"
      \/ stage' = stage /\ encoder'.batch = Append(encoder.batch, row) /\ rows' = Append(rows, row)
  <2> HIDE DEF row, defs, id, f
  <2> QED
    BY DEF EncodeObject, row, defs, id, f
<1> HIDE DEF row, defs, id, f
<1>4. CASE stage' = "refused"
  BY <1>4 DEF Keeping
<1>5. CASE stage' = stage /\ encoder'.batch = Append(encoder.batch, row) /\ rows' = Append(rows, row)
  <2>1. AreRows(rows) /\ AreRows(encoder.batch)
    BY DEF Feeding, EncoderIs, RowsAreFed
  <2>2. /\ Len(rows') = Len(rows) + 1 /\ Len(encoder'.batch) = Len(encoder.batch) + 1
        /\ Len(rows) \in Nat /\ Len(encoder.batch) \in Nat
    BY <1>1, <1>5, <2>1, GrowsBy
  <2>3. \A key, x : /\ Has(rows', key, x) <=> Has(rows, key, x) \/ (row.feature = key /\ row.id = x)
                    /\ Has(encoder'.batch, key, x) <=> Has(encoder.batch, key, x) \/ (row.feature = key /\ row.id = x)
    BY <1>5, <2>1, HasGrows DEF AreRows
  <2>4. UNCHANGED <<out, pushed>> /\ Len(pushed) \in Nat
    BY <1>2, PushedIs DEF sort, Feeding
  <2>5. CASE src.hilbert
    <3>1. tables = <<>> /\ out = <<>> /\ taken = 0 /\ Len(pushed) + Len(encoder.batch) = Len(rows)
      BY <1>2, <2>5 DEF Keeping
    <3>2. tables' = <<>> /\ out' = <<>> /\ taken' = 0
      BY <1>2, <2>4, <3>1
    <3>3. Len(pushed') + Len(encoder'.batch) = Len(rows')
      BY <2>2, <2>4, <3>1
    <3> QED
      BY <1>2, <1>5, <2>5, <3>2, <3>3 DEF Keeping
  <2>6. CASE ~src.hilbert
    <3>1. \A key, x : Stores(tables, key, x) \/ Has(encoder.batch, key, x) <=> Has(rows, key, x)
      BY <1>2, <2>6 DEF Keeping
    <3>2. \A key, x : Stores(tables', key, x) \/ Has(encoder'.batch, key, x) <=> Has(rows', key, x)
      BY <1>2, <2>3, <3>1
    <3> QED
      BY <1>2, <1>5, <2>6, <3>2 DEF Keeping
  <2> QED
    BY <2>5, <2>6
<1> QED
  BY <1>3, <1>4, <1>5

\* The batch that was built is written.
LEMMA SendKeeps ==
  ASSUME Keeping, Feeding, Claims, SendBatch
  PROVE  Keeping'
<1>1. /\ stage = "encode" /\ ~src.hilbert /\ WriteBatch(encoder.batch) /\ EmptyBatch
      /\ UNCHANGED <<src, rows, taken, pkg, sort>>
  BY DEF SendBatch
<1>2. CASE stage' = "refused"
  BY <1>2 DEF Keeping
<1>3. CASE stage' # "refused"
  <2>1. ~BatchRefused(src.exts, tables, encoder.batch) /\ tables' = WriteBatchOf(src.exts, scan, tables, encoder.batch)
        /\ stage' = stage
    BY <1>1, <1>3 DEF WriteBatch
  <2>2. TablesAre(src.exts, tables) /\ AreRows(encoder.batch)
    BY <1>1 DEF Claims, Feeding, EncoderIs
  <2>3. \A key, x : Stores(tables', key, x) <=> Stores(tables, key, x) \/ Has(encoder.batch, key, x)
    BY <2>1, <2>2, WriteKeeps
  <2>4. encoder'.batch = <<>>
    <3>1. encoder' = [encoder EXCEPT !.batch = <<>>, !.keys = <<>>]
      BY <1>1 DEF EmptyBatch
    <3> QED
      BY <3>1 DEF Feeding, EncoderIs
  <2>5. \A key, x : Stores(tables', key, x) \/ Has(encoder'.batch, key, x) <=> Has(rows', key, x)
    BY <1>1, <2>3, <2>4, NothingStored DEF Keeping
  <2> QED
    BY <1>1, <2>1, <2>5 DEF Keeping
<1> QED
  BY <1>2, <1>3

LEMMA SortBatchKeeps ==
  ASSUME Keeping, Feeding, SortBatch
  PROVE  Keeping'
<1>1. PICK w : Sort!PushBatch(encoder.keys, w)
  BY DEF SortBatch
<1>2. stage = "encode" /\ src.hilbert /\ BatchDue /\ EmptyBatch /\ UNCHANGED <<src, stage, rows, tables, taken, pkg>>
  BY DEF SortBatch
<1>3. encoder.keys \in Seq(Nat) /\ Len(encoder.keys) = Len(encoder.batch)
  BY <1>2, DueHasKeys
<1>4. pushed' = pushed \o Sort!Keyed(encoder.keys) /\ out' = out
  BY <1>1 DEF Sort!PushBatch
<1>5. Len(pushed') = Len(pushed) + Len(encoder.batch)
  BY <1>3, <1>4, PushedGrow DEF Feeding
<1>6. Len(encoder'.batch) = 0 /\ Len(encoder.batch) \in Nat /\ Len(pushed) \in Nat
  BY <1>2, EmptyBatchIs, PushedIs DEF Feeding, EncoderIs, AreRows, IsSequence
<1>7. Len(pushed') + Len(encoder'.batch) = Len(rows')
  BY <1>2, <1>5, <1>6 DEF Keeping
<1> QED
  BY <1>2, <1>4, <1>7 DEF Keeping

\* Everything has been encoded, and no batch is left.
LEMMA EndKeeps ==
  ASSUME Keeping, Feeding, EncodingEnds
  PROVE  Keeping'
<1>1. /\ stage = "encode" /\ Exhausted /\ ~BatchDue /\ stage' = IF src.hilbert THEN "sort" ELSE "finish"
      /\ UNCHANGED <<src, encoder, rows, tables, taken, pkg, sort>>
  BY DEF EncodingEnds
<1>2. encoder.batch = <<>> /\ Len(encoder.batch) = 0 /\ Len(pushed) \in Nat /\ UNCHANGED <<out, pushed>>
  BY <1>1, EmptyIs, PushedIs DEF BatchDue, Feeding, sort
<1>3. Exhausted'
  BY <1>1 DEF Exhausted
<1>4. CASE src.hilbert
  <2>1. tables = <<>> /\ out = <<>> /\ taken = 0 /\ Len(pushed) + Len(encoder.batch) = Len(rows) /\ stage' = "sort"
    BY <1>1, <1>4 DEF Keeping
  <2>2. \A key, x : ~SortedHas(key, x)'
    BY <1>1, <2>1 DEF SortedHas
  <2>3. \A key, x : ~Stores(tables', key, x)
    BY <1>1, <2>1, NothingStored
  <2>4. Len(pushed') = Len(rows') /\ taken' <= Len(out')
    BY <1>1, <1>2, <2>1, EmptyIs
  <2> QED
    BY <1>3, <2>1, <2>2, <2>3, <2>4 DEF Keeping
<1>5. CASE ~src.hilbert
  <2>1. \A key, x : Stores(tables', key, x) <=> Has(rows', key, x)
    BY <1>1, <1>2, <1>5, NothingStored DEF Keeping
  <2>2. AllStored'
    BY <1>3, <2>1 DEF AllStored
  <2> QED
    BY <1>1, <1>5, <2>2 DEF Keeping
<1> QED
  BY <1>4, <1>5

\* The sorter only adds batches.
LEMMA WorkGrows ==
  ASSUME SP!IInv, Sort!Work
  PROVE  /\ pushed' = pushed /\ Len(out) \in Nat /\ Len(out) <= Len(out')
         /\ \A b \in 1 .. Len(out) : out'[b] = out[b]
<1> DEFINE S == Seq(SP!Row)
<1>1. out \in Seq(S)
  BY DEF SP!IInv, SP!AreBatches
<1>2. pushed' = pushed /\ (out' = out \/ \E b : out' = Append(out, b))
  BY DEF Sort!Work, Sort!FinishInMemory, Sort!FinishMerge, Sort!NextFromMemory, Sort!Draw, Sort!Yield, Sort!EndMerge,
         Sort!input
<1> HIDE DEF S
<1>3. CASE out' = out
  BY <1>1, <1>2, <1>3
<1>4. ASSUME NEW b, out' = Append(out, b)
      PROVE  Len(out) \in Nat /\ Len(out) <= Len(out') /\ \A i \in 1 .. Len(out) : out'[i] = out[i]
  <2>1. out \in Seq(S \cup {b})
    BY <1>1
  <2> QED
    BY <1>4, <2>1
<1> QED
  BY <1>2, <1>3, <1>4

LEMMA SortKeeps ==
  ASSUME Keeping, Feeding, SortWorks
  PROVE  Keeping'
<1>1. /\ stage = "sort" /\ taken = Len(out) /\ Sort!Work
      /\ UNCHANGED <<src, stage, encoder, rows, tables, taken, pkg>>
  BY DEF SortWorks
<1>2. /\ pushed' = pushed /\ Len(out) \in Nat /\ Len(out) <= Len(out')
      /\ \A b \in 1 .. Len(out) : out'[b] = out[b]
  BY <1>1, WorkGrows DEF Feeding
<1>3. \A b \in 1 .. taken : SortedBatch(b)' = SortedBatch(b)
  BY <1>1, <1>2 DEF SortedBatch
<1>4. \A key, x : SortedHas(key, x)' <=> SortedHas(key, x)
  BY <1>1, <1>3 DEF SortedHas, Has
<1>5. Exhausted' = Exhausted
  BY <1>1 DEF Exhausted
<1> QED
  BY <1>1, <1>2, <1>4, <1>5 DEF Keeping

LEMMA SortedKeeps ==
  ASSUME Keeping, Feeding, Claims, SendSorted
  PROVE  Keeping'
<1>1. /\ stage = "sort" /\ taken < Len(out) /\ taken' = taken + 1 /\ taken \in Nat
      /\ WriteBatch(SortedBatch(taken + 1)) /\ UNCHANGED <<src, encoder, rows, pkg, sort>>
  BY DEF SendSorted, SortedBatch, Feeding, RowsAreFed
<1>2. CASE stage' = "refused"
  BY <1>2 DEF Keeping
<1>3. CASE stage' # "refused"
  <2> DEFINE batch == SortedBatch(taken + 1)
  <2>1. AreRows(batch)
    BY <1>1, SortedAreRows DEF SortedBatch
  <2> HIDE DEF batch
  <2>2. ~BatchRefused(src.exts, tables, batch) /\ tables' = WriteBatchOf(src.exts, scan, tables, batch) /\ stage' = stage
    BY <1>1, <1>3 DEF WriteBatch, batch
  <2>3. TablesAre(src.exts, tables)
    BY <1>1 DEF Claims
  <2>4. \A key, x : Stores(tables', key, x) <=> Stores(tables, key, x) \/ Has(batch, key, x)
    BY <2>1, <2>2, <2>3, WriteKeeps
  <2>5. UNCHANGED <<out, pushed>> /\ Exhausted' = Exhausted
    BY <1>1 DEF sort, Exhausted
  <2>6. \A b : SortedBatch(b)' = SortedBatch(b)
    BY <1>1, <2>5 DEF SortedBatch
  <2>7. \A b : b \in 1 .. taken' <=> b \in 1 .. taken \/ b = taken + 1
    BY <1>1
  <2>8. \A key, x : SortedHas(key, x)' <=> SortedHas(key, x) \/ Has(batch, key, x)
    BY <2>6, <2>7 DEF SortedHas, Has, batch
  <2>9. \A key, x : Stores(tables', key, x) <=> SortedHas(key, x)'
    BY <1>1, <2>4, <2>8 DEF Keeping
  <2>10. Len(out) \in Nat
    BY DEF Feeding, SP!IInv, SP!AreBatches
  <2>11. taken' <= Len(out')
    BY <1>1, <2>5, <2>10
  <2> QED
    BY <1>1, <2>2, <2>5, <2>9, <2>11 DEF Keeping
<1> QED
  BY <1>2, <1>3

\* A sort that is done has brought every row.
LEMMA SortedEndKeeps ==
  ASSUME Keeping, Feeding, SortingEnds
  PROVE  Keeping'
<1>1. /\ stage = "sort" /\ taken = Len(out) /\ phase = "done" /\ stage' = "finish"
      /\ UNCHANGED <<src, encoder, rows, tables, taken, pkg, sort>>
  BY DEF SortingEnds
<1>2. BatchSize \in Nat \ {0}
  BY ConstantsAssumption DEF ConstantsAssumption
<1>3. AreRows(rows) /\ Len(pushed) = Len(rows) /\ DOMAIN rows = 1 .. Len(pushed)
  BY <1>1 DEF Keeping, Feeding, RowsAreFed, AreRows, IsSequence
<1>4. out \in Seq(Seq(SP!Row)) /\ DOMAIN out = 1 .. taken
  BY <1>1 DEF Feeding, SP!IInv, SP!AreBatches
<1>5. /\ \A b \in DOMAIN out : \A k \in DOMAIN out[b] : out[b][k][2] \in DOMAIN rows
      /\ \A i \in DOMAIN rows : \E b \in DOMAIN out : \E k \in DOMAIN out[b] : out[b][k][2] = i
  BY <1>1, <1>2, <1>3, SP!YieldedArePushed, SP!PushedAreYielded DEF Feeding
<1>6. ASSUME NEW key, NEW x
      PROVE  SortedHas(key, x) <=> Has(rows, key, x)
  <2>1. SortedHas(key, x) <=> \E b \in DOMAIN out : \E k \in DOMAIN out[b] :
                                 rows[out[b][k][2]].feature = key /\ rows[out[b][k][2]].id = x
    BY <1>4 DEF SortedHas, Has, SortedBatch
  <2>2. Has(rows, key, x) => SortedHas(key, x)
    <3> SUFFICES ASSUME NEW i \in DOMAIN rows, rows[i].feature = key, rows[i].id = x PROVE SortedHas(key, x)
      BY DEF Has
    <3>1. PICK b \in DOMAIN out : \E k \in DOMAIN out[b] : out[b][k][2] = i
      BY <1>5
    <3> QED
      BY <2>1, <3>1
  <2>3. SortedHas(key, x) => Has(rows, key, x)
    BY <1>5, <2>1 DEF Has
  <2> QED
    BY <2>2, <2>3
<1>7. AllStored'
  <2>1. Exhausted'
    BY <1>1 DEF Keeping, Exhausted
  <2> QED
    BY <1>1, <1>6, <2>1 DEF Keeping, AllStored
<1> QED
  BY <1>1, <1>7 DEF Keeping

\* The Item of a finished package lists its tables.
LEMMA FinishKeeps ==
  ASSUME Keeping, Claims, FinishPackage
  PROVE  Keeping'
<1>1. /\ stage = "finish" /\ UNCHANGED <<src, encoder, rows, tables, taken, sort>>
      /\ stage' \in {"refused", "written"}
  BY DEF FinishPackage
<1>2. AllStored'
  <2>1. Exhausted'
    BY <1>1 DEF Keeping, AllStored, Exhausted
  <2> QED
    BY <1>1, <2>1 DEF Keeping, AllStored
<1>3. CASE stage' = "refused"
  BY <1>3 DEF Keeping
<1>4. CASE stage' = "written"
  <2> DEFINE defs == TemplateDefs(src, encoder.defs)
             materials == MaterialRows(defs.materials)
             textures == TextureRows(defs.textures)
             implicit == ImplicitRows(TemplateRows(src, defs))
             files == PackageFiles(scan, src.exts, tables, materials, textures, implicit)
  <2>1. pkg'.item = Item(scan.crs, src.swap, files, tables)
    <3> HIDE DEF files, defs
    <3> QED
      BY <1>4 DEF FinishPackage, files, defs
  <2>2. \A t \in DOMAIN tables : tables[t].file \in DOMAIN files /\ tables[t].file \notin ReservedFiles
    <3>1. \A t \in DOMAIN tables : tables[t].file \in DOMAIN files
      BY DEF PackageFiles
    <3>2. \A t \in DOMAIN tables : tables[t].file \notin ReservedFiles
      BY <1>1 DEF Claims, TablesAre, TableIs
    <3> QED
      BY <3>1, <3>2
  <2> HIDE DEF files
  <2>3. /\ DOMAIN pkg'.item.assets = DOMAIN files
        /\ \A f \in DOMAIN files \ ReservedFiles : pkg'.item.assets[f] = ObjectRoles
    BY <2>1 DEF Item
  <2>4. \A t \in DOMAIN tables : tables[t].file \in ListedTables(pkg'.item)
    <3>1. \A t \in DOMAIN tables : tables[t].file \in WithRole(pkg'.item, "cityparquet-objects")
      BY <2>2, <2>3 DEF WithRole, ObjectRoles
    <3>2. \A t \in DOMAIN tables : ~Unmarked(pkg'.item)
      BY <3>1 DEF Unmarked
    <3> QED
      BY <3>1, <3>2 DEF ListedTables
  <2> QED
    BY <1>1, <1>2, <1>4, <2>4 DEF Keeping
<1> QED
  BY <1>1, <1>3, <1>4

LEMMA EditKeeps ==
  ASSUME Keeping, Claims, Edit
  PROVE  Keeping'
<1>1. stage = "written" /\ stage' = stage
  BY DEF Edit
<1>2. pkg'.own = FALSE
  BY DEF Edit, Claims
<1> QED
  BY <1>1, <1>2 DEF Keeping

LEMMA NextKeeps ==
  ASSUME Feeding, Claims, Coding, Keeping, [Next]_vars
  PROVE  (Coding /\ Keeping)'
<1>1. EncoderIs /\ AreRows(rows)
  BY DEF Feeding, RowsAreFed
<1>2. CASE \/ UNCHANGED vars \/ ScanSource \/ StartExport \/ OpenTable \/ ReadRow \/ EndTable \/ ExportEnds
  <2>1. /\ UNCHANGED <<src, encoder, rows, tables, taken, pkg, sort>>
        /\ \/ stage' = stage
           \/ stage \in {"scan", "encode"} /\ stage' \in {"scan", "encode"}
           \/ stage \in {"written", "export", "exported"} /\ stage' \in {"written", "export", "exported"}
           \/ stage' \in {"refused", "failed", "exportRefused"}
    BY <1>2 DEF vars, ScanSource, StartExport, OpenTable, ReadRow, EndTable, ExportEnds
  <2> QED
    BY <2>1, CodeStays, KeepStays
<1>3. CASE \/ EncodingEnds \/ SortWorks \/ SendSorted \/ SortingEnds \/ FinishPackage \/ Edit \/ SortFails
  <2>1. Coding'
    <3>1. UNCHANGED <<src, encoder, rows>>
      BY <1>3 DEF EncodingEnds, SortWorks, SendSorted, SortingEnds, FinishPackage, Edit, SortFails
    <3> QED
      BY <3>1, CodeStays
  <2>2. CASE SortFails
    <3>1. stage' = "failed"
      BY <2>2 DEF SortFails
    <3> QED
      BY <3>1, <2>1 DEF Keeping
  <2> QED
    BY <1>3, <2>1, <2>2, EndKeeps, SortKeeps, SortedKeeps, SortedEndKeeps, FinishKeeps, EditKeeps
<1>4. CASE SendBatch \/ SortBatch \/ SortBatchFails
  <2>1. Coding'
    <3>1. EmptyBatch /\ UNCHANGED <<src, rows>>
      BY <1>4 DEF SendBatch, SortBatch, SortBatchFails
    <3>2. encoder'.feature = encoder.feature /\ encoder'.row = encoder.row
      BY <1>1, <3>1 DEF EmptyBatch, EncoderIs
    <3> QED
      BY <3>1, <3>2, CodeStays
  <2>2. CASE SortBatchFails
    <3>1. stage' = "failed"
      BY <2>2 DEF SortBatchFails
    <3> QED
      BY <3>1, <2>1 DEF Keeping
  <2> QED
    BY <1>4, <2>1, <2>2, SendKeeps, SortBatchKeeps
<1>5. CASE PassFeature
  BY <1>1, <1>5, PassCodes, PassKeeps
<1>6. CASE EncodeObject
  BY <1>1, <1>6, EncodeCodes, EncodeKeeps
<1> QED
  BY <1>2, <1>3, <1>4, <1>5, <1>6 DEF Next

\* What an export of the package as it was written gives back.
LEMMA OwnIsGivenBack ==
  ASSUME Claims, Coding, Keeping, Exporting, stage = "exported", pkg.own
  PROVE  ExportedOnce
<1>1. TablesAre(src.exts, tables)
  BY DEF Claims
<1>2. Legible
  BY <1>1 DEF TablesAre, TableIs, AreRows, Legible, AreLegible
<1>3. GivesBack(reader.output)
  BY <1>2 DEF Exporting
<1>4. /\ Exhausted /\ Opened = DOMAIN tables
      /\ \A key, x : Stores(tables, key, x) <=> Has(rows, key, x)
  BY DEF Keeping, AllStored, Opened
<1>5. ASSUME NEW key, NEW x
      PROVE  Gives(reader.output, key, x) <=>
               \E j \in DOMAIN src.features : src.features[j].id = key /\ x \in DOMAIN src.features[j].objects
  <2>1. Gives(reader.output, key, x) <=> Coded(key, x)
    BY <1>3, <1>4 DEF GivesBack, Stores, Coding
  <2>2. \A j \in DOMAIN src.features : j < encoder.feature
    BY <1>4, SourceIs DEF Exhausted, Coding
  <2> QED
    BY <2>1, <2>2 DEF Coded
<1> DEFINE given == UNION {{<<b.id, id>> : id \in DOMAIN b.objects} : b \in ToSet(reader.output)}
           held == UNION {{<<f.id, id>> : id \in DOMAIN f.objects} : f \in ToSet(src.features)}
<1>6. given = held
  <2>1. \A p : p \in given <=> \E k \in DOMAIN reader.output : \E x \in DOMAIN reader.output[k].objects :
                                p = <<reader.output[k].id, x>>
    BY DEF ToSet
  <2>2. \A p : p \in held <=> \E j \in DOMAIN src.features : \E x \in DOMAIN src.features[j].objects :
                               p = <<src.features[j].id, x>>
    BY DEF ToSet
  <2> HIDE DEF given, held
  <2>3. ASSUME NEW p \in given PROVE p \in held
    <3>1. PICK k \in DOMAIN reader.output : \E x \in DOMAIN reader.output[k].objects : p = <<reader.output[k].id, x>>
      BY <2>1
    <3>2. PICK x \in DOMAIN reader.output[k].objects : p = <<reader.output[k].id, x>>
      BY <3>1
    <3>3. Gives(reader.output, reader.output[k].id, x)
      BY DEF Gives
    <3>4. PICK j \in DOMAIN src.features :
            src.features[j].id = reader.output[k].id /\ x \in DOMAIN src.features[j].objects
      BY <1>5, <3>3
    <3> QED
      BY <2>2, <3>2, <3>4
  <2>4. ASSUME NEW p \in held PROVE p \in given
    <3>1. PICK j \in DOMAIN src.features : \E x \in DOMAIN src.features[j].objects : p = <<src.features[j].id, x>>
      BY <2>2
    <3>2. PICK x \in DOMAIN src.features[j].objects : p = <<src.features[j].id, x>>
      BY <3>1
    <3>3. Gives(reader.output, src.features[j].id, x)
      BY <1>5
    <3> QED
      BY <2>1, <3>2, <3>3 DEF Gives
  <2> QED
    BY <2>3, <2>4
<1> HIDE DEF given, held
<1> QED
  BY <1>3, <1>6 DEF ExportedOnce, GivesBack, given, held

\* A package that was written and not changed since is exported as the city it
\* was made of, whatever was batched, sorted and spilled on the way in
\* (package.rs, sort.rs) and in whatever order its tables are read on the way
\* out (export.rs, family.rs): every feature with an object comes out once,
\* with its objects and no others.
THEOREM ObjectsSurvive == Spec => []ExportedOnce
<1> DEFINE All == Feeding /\ Claims /\ Coding /\ Keeping /\ Exporting
<1>1. Init => All
  BY InitFeeds, InitClaims, InitCodes, InitKeeps, InitExports
<1>2. All /\ [Next]_vars => All'
  BY NextFeeds, NextClaims, NextKeeps, NextExports
<1>3. All => ExportedOnce
  BY OwnIsGivenBack DEF ExportedOnce
<1> QED
  BY <1>1, <1>2, <1>3, PTL DEF Spec
=============================================================================
