------------------------- MODULE ExternalSortProofs -------------------------
EXTENDS ExternalSort, FiniteSetTheorems, FunctionTheorems, SequenceTheorems, WellFoundedInduction, TLAPS

-----------------------------------------------------------------------------
(* Order.                                                                   *)

\* A strict total order on a finite set, given by what is before each member.
Orders(before, S) ==
  /\ IsFiniteSet(S)
  /\ before \in [S -> SUBSET S]
  /\ \A x \in S : x \notin before[x]
  /\ \A x, y \in S : x # y => x \in before[y] \/ y \in before[x]
  /\ \A x, y \in S : x \in before[y] => before[x] \subseteq before[y]

\* The n-th is one with n - 1 before it, if there is one.
Ranks(f, before, S) ==
  \A n \in 1 .. Cardinality(S) :
    (\E x \in S : Cardinality(before[x]) = n - 1) => f[n] \in S /\ Cardinality(before[f[n]]) = n - 1

\* Every member has a place, and the places are in the order.
Enumerates(f, before, S) ==
  /\ Cardinality(S) \in Nat
  /\ \A n \in 1 .. Cardinality(S) : f[n] \in S
  /\ \A m, n \in 1 .. Cardinality(S) : m < n => f[m] \in before[f[n]]
  /\ \A x \in S : \E n \in 1 .. Cardinality(S) : f[n] = x

LEMMA RankedIs ==
  ASSUME NEW S, NEW before, Orders(before, S), NEW f, Ranks(f, before, S)
  PROVE  Enumerates(f, before, S)
<1> USE DEF Orders, Ranks
<1> DEFINE N == Cardinality(S)
           place == [x \in S |-> Cardinality(before[x])]
<1>0. N \in Nat
  BY FS_CardinalityType
<1>1. \A x \in S : IsFiniteSet(before[x]) /\ Cardinality(before[x]) \in Nat
  BY FS_Subset, FS_CardinalityType
<1>2. ASSUME NEW x \in S PROVE place[x] \in 0 .. N - 1
  <2>1. IsFiniteSet(S \ {x}) /\ Cardinality(S \ {x}) = N - 1
    BY FS_RemoveElement
  <2>2. before[x] \in SUBSET (S \ {x})
    OBVIOUS
  <2>3. Cardinality(before[x]) <= Cardinality(S \ {x})
    BY <2>1, <2>2, FS_Subset
  <2> QED
    BY <1>0, <1>1, <2>1, <2>3
<1>3. ASSUME NEW x \in S, NEW y \in S, x \in before[y] PROVE place[x] < place[y]
  <2>1. IsFiniteSet(before[x] \cup {x}) /\ Cardinality(before[x] \cup {x}) = Cardinality(before[x]) + 1
    BY <1>1, FS_AddElement
  <2>2. before[x] \cup {x} \in SUBSET before[y]
    BY <1>3
  <2>3. Cardinality(before[x] \cup {x}) <= Cardinality(before[y])
    BY <1>1, <2>2, FS_Subset
  <2> QED
    BY <1>1, <2>1, <2>3
<1>4. place \in [S -> 0 .. N - 1]
  BY <1>2
<1>5. ASSUME NEW x \in S, NEW y \in S, x # y PROVE place[x] < place[y] \/ place[y] < place[x]
  BY <1>3, <1>5
<1>6. \A n \in 0 .. N - 1 : \E x \in S : place[x] = n
  <2>1. \A x, y \in S : place[x] = place[y] => x = y
    <3> SUFFICES ASSUME NEW x \in S, NEW y \in S, x # y PROVE place[x] # place[y]
      OBVIOUS
    <3>1. place[x] < place[y] \/ place[y] < place[x]
      BY <1>5
    <3> QED
      BY <1>2, <3>1
  <2>2. place \in Injection(S, 0 .. N - 1)
    BY <1>4, <2>1 DEF Injection, IsInjective
  <2>3. IsFiniteSet(0 .. N - 1) /\ Cardinality(0 .. N - 1) = N
    <3> HIDE DEF N
    <3>1. N - 1 \in Int
      BY <1>0
    <3> QED
      BY <1>0, <3>1, FS_Interval
  <2>4. place \in Surjection(S, 0 .. N - 1)
    BY <2>2, <2>3, FS_Injection
  <2> QED
    BY <2>4 DEF Surjection
<1>7. ASSUME NEW n \in 1 .. N PROVE f[n] \in S /\ place[f[n]] = n - 1
  <2>1. n - 1 \in 0 .. N - 1
    BY <1>0
  <2>2. \E x \in S : place[x] = n - 1
    BY <1>6, <2>1
  <2>3. \E x \in S : Cardinality(before[x]) = n - 1
    BY <2>2
  <2> QED
    BY <2>3
<1> HIDE DEF N, place
<1>8. ASSUME NEW m \in 1 .. N, NEW n \in 1 .. N, m < n PROVE f[m] \in before[f[n]]
  <2>1. f[m] # f[n] /\ ~(place[f[n]] < place[f[m]])
    BY <1>0, <1>7, <1>8
  <2>2. f[m] \in S /\ f[n] \in S
    BY <1>7
  <2>3. f[m] \in before[f[n]] \/ f[n] \in before[f[m]]
    BY <2>1, <2>2
  <2> QED
    BY <1>3, <2>1, <2>2, <2>3
<1>9. ASSUME NEW x \in S PROVE \E n \in 1 .. N : f[n] = x
  <2> DEFINE n == place[x] + 1
  <2>1. n \in 1 .. N /\ place[x] = n - 1 /\ place[x] \in Int
    BY <1>0, <1>4
  <2>2. f[n] \in S /\ place[f[n]] = place[x]
    BY <1>7, <2>1
  <2>3. f[n] = x
    BY <1>5, <2>1, <2>2
  <2> QED
    BY <2>1, <2>3
<1> QED
  BY <1>0, <1>7, <1>8, <1>9 DEF N, Enumerates

-----------------------------------------------------------------------------
(* Sorted sequences and their batches.                                      *)

Row == Nat \X Nat

Distinct(rows) == \A i, j \in DOMAIN rows : rows[i] = rows[j] => i = j

Rising(rows) == \A m, n \in DOMAIN rows : m < n => Before(rows[m], rows[n])

\* Sorted puts every row in one place, in the order.
LEMMA SortedIs ==
  ASSUME NEW rows \in Seq(Row), Distinct(rows)
  PROVE  /\ Sorted(rows) \in Seq(Row)
         /\ Len(Sorted(rows)) = Len(rows)
         /\ \A n \in 1 .. Len(rows) : \E i \in 1 .. Len(rows) : Sorted(rows)[n] = rows[i]
         /\ \A i \in 1 .. Len(rows) : \E n \in 1 .. Len(rows) : Sorted(rows)[n] = rows[i]
         /\ \A m, n \in 1 .. Len(rows) : m < n => Before(Sorted(rows)[m], Sorted(rows)[n])
<1> DEFINE S == ToSet(rows)
           L == Len(rows)
           before == [x \in S |-> {y \in S : Before(y, x)}]
           f == Sorted(rows)
           nth(n) == CHOOSE x \in S : Cardinality({y \in S : Before(y, x)}) = n - 1
<1>1. L \in Nat /\ DOMAIN rows = 1 .. L /\ S = {rows[i] : i \in 1 .. L} /\ \A i \in 1 .. L : rows[i] \in Row
  BY DEF ToSet
<1>2. S \subseteq Row
  BY <1>1
<1>3. IsFiniteSet(S) /\ Cardinality(S) = L
  <2>1. rows \in Surjection(1 .. L, S)
    BY <1>1 DEF Surjection
  <2>2. rows \in Injection(1 .. L, S)
    BY <1>1, <2>1 DEF Surjection, Injection, IsInjective, Distinct
  <2>3. IsFiniteSet(1 .. L) /\ Cardinality(1 .. L) = L
    <3> HIDE DEF L
    <3> QED
      BY <1>1, FS_Interval
  <2> QED
    BY <2>1, <2>2, <2>3, FS_Surjection
<1>5. \A x \in S : ~Before(x, x)
  BY <1>2 DEF Before, Row
<1>6. \A x, y \in S : x # y => Before(x, y) \/ Before(y, x)
  <2> SUFFICES ASSUME NEW x \in Row, NEW y \in Row, x # y PROVE Before(x, y) \/ Before(y, x)
    BY <1>2
  <2>1. x = <<x[1], x[2]>> /\ y = <<y[1], y[2]>> /\ {x[1], x[2], y[1], y[2]} \subseteq Nat
    BY DEF Row
  <2> QED
    BY <2>1 DEF Before
<1>7. \A x, y, z \in S : Before(x, y) /\ Before(y, z) => Before(x, z)
  BY <1>2 DEF Before, Row
<1>8. f = [n \in 1 .. Cardinality(S) |-> nth(n)]
  BY DEF Sorted, Ranked
<1>9. Ranks(f, before, S)
  <2> HIDE DEF S, f
  <2>1. \A n \in 1 .. Cardinality(S) : f[n] = nth(n)
    BY <1>8
  <2> QED
    BY <2>1 DEF Ranks
<1>10. \A x, y \in S : x \in before[y] <=> Before(x, y)
  OBVIOUS
<1>11. Orders(before, S)
  <2>1. before \in [S -> SUBSET S]
    OBVIOUS
  <2> HIDE DEF S, before
  <2> QED
    BY <1>3, <1>5, <1>6, <1>7, <1>10, <2>1 DEF Orders
<1> HIDE DEF f, before, nth
<1>14. Enumerates(f, before, S)
  <2> HIDE DEF S
  <2> QED
    BY <1>9, <1>11, RankedIs
<1>15. /\ \A n \in 1 .. L : f[n] \in S
       /\ \A m, n \in 1 .. L : m < n => Before(f[m], f[n])
       /\ \A x \in S : \E n \in 1 .. L : f[n] = x
  <2> HIDE DEF S, L
  <2> QED
    BY <1>3, <1>10, <1>14 DEF Enumerates
<1>16. f \in [1 .. L -> S]
  <2>1. f = [n \in 1 .. Cardinality(S) |-> f[n]]
    <3> HIDE DEF S
    <3> QED
      BY <1>8
  <2> HIDE DEF S, L
  <2> QED
    BY <1>3, <1>15, <2>1
<1>17. f \in Seq(Row) /\ Len(f) = L
  <2>1. f \in [1 .. L -> Row]
    BY <1>2, <1>16
  <2> HIDE DEF L, S
  <2> QED
    BY <1>1, <2>1
<1>18. \A n \in 1 .. L : \E i \in 1 .. L : f[n] = rows[i]
  BY <1>1, <1>15
<1>19. \A i \in 1 .. L : \E n \in 1 .. L : f[n] = rows[i]
  BY <1>1, <1>15
<1> QED
  BY <1>15, <1>17, <1>18, <1>19 DEF f

\* A set of numbers that has one has a least one.
LEMMA LeastNumber ==
  ASSUME NEW S \in SUBSET Nat, S # {}
  PROVE  \E m \in S : \A k \in S : m <= k
<1>1. PICK m \in S : \A k \in S : ~ (<<k, m>> \in OpToRel(<, Nat))
  BY WFMin, NatLessThanWellFounded
<1>2. \A k \in S : <<k, m>> \in OpToRel(<, Nat) <=> k < m
  BY DEF OpToRel
<1>3. ASSUME NEW k \in S PROVE m <= k
  <2>1. m \in Nat /\ k \in Nat /\ ~ (k < m)
    BY <1>1, <1>2
  <2> QED
    BY <2>1
<1> QED
  BY <1>3

\* The ends of the batches that a sequence of this length is cut into.
Ends(cuts, length) == Ranked(cuts \cup {length}, <)

\* They go up to its length.
LEMMA EndsAre ==
  ASSUME NEW length \in Nat \ {0}, NEW cuts \in SUBSET (1 .. length - 1)
  PROVE  \E m \in Nat \ {0} :
           /\ Ends(cuts, length) \in [1 .. m -> 1 .. length]
           /\ \A b, c \in 1 .. m : b < c => Ends(cuts, length)[b] < Ends(cuts, length)[c]
           /\ Ends(cuts, length)[m] = length
<1> DEFINE S == cuts \cup {length}
           before == [x \in S |-> {y \in S : y < x}]
           f == Ends(cuts, length)
           nth(n) == CHOOSE x \in S : Cardinality({y \in S : y < x}) = n - 1
           m == Cardinality(S)
<1>1. S \subseteq 1 .. length /\ length \in S
  OBVIOUS
<1>2. IsFiniteSet(S)
  <2>1. length \in Int /\ IsFiniteSet(1 .. length)
    BY FS_Interval
  <2> HIDE DEF S
  <2> QED
    BY <1>1, <2>1, FS_Subset
<1>3. f = [n \in 1 .. m |-> nth(n)]
  BY DEF Ends, Ranked
<1>4. Ranks(f, before, S)
  <2> HIDE DEF S, f
  <2>1. \A n \in 1 .. Cardinality(S) : f[n] = nth(n)
    BY <1>3
  <2> QED
    BY <2>1 DEF Ranks
<1>5. \A x, y \in S : x \in before[y] <=> x < y
  OBVIOUS
<1>6. Orders(before, S)
  <2>1. before \in [S -> SUBSET S]
    OBVIOUS
  <2>2. \A x \in S : x \in Int
    BY <1>1
  <2> HIDE DEF S, before
  <2> QED
    BY <1>2, <1>5, <2>1, <2>2 DEF Orders
<1>7. Enumerates(f, before, S)
  <2> HIDE DEF S, f, before
  <2> QED
    BY <1>4, <1>6, RankedIs
<1> HIDE DEF S, before, f, nth
<1>8. /\ m \in Nat
      /\ \A b \in 1 .. m : f[b] \in 1 .. length
      /\ \A b, c \in 1 .. m : b < c => f[b] < f[c]
      /\ \E b \in 1 .. m : f[b] = length
  BY <1>1, <1>5, <1>7 DEF Enumerates
<1>9. m # 0 /\ f[m] = length
  <2>1. PICK b \in 1 .. m : f[b] = length
    BY <1>8
  <2>2. m \in 1 .. m /\ ~(b < m)
    BY <1>8, <2>1
  <2> QED
    BY <1>8, <2>1, <2>2
<1>10. f \in [1 .. m -> 1 .. length]
  <2> HIDE DEF m
  <2> QED
    BY <1>3, <1>8
<1> QED
  BY <1>8, <1>9, <1>10 DEF f

\* The batches of a run, and their rows, are in order.
Ascending(run) ==
  \A g, h \in DOMAIN run : \A i \in DOMAIN run[g], j \in DOMAIN run[h] :
    g < h \/ (g = h /\ i < j) => Before(run[g][i], run[h][j])

\* A run: batches of rows, none of them empty.
Batches(run) ==
  /\ run \in Seq(Seq(Row)) /\ run # <<>>
  /\ \A g \in DOMAIN run : run[g] # <<>>

\* A run holds what is in a sequence.
HoldsAll(run, rows) ==
  /\ \A g \in DOMAIN run : \A i \in DOMAIN run[g] : \E k \in DOMAIN rows : run[g][i] = rows[k]
  /\ \A k \in DOMAIN rows : \E g \in DOMAIN run : \E i \in DOMAIN run[g] : run[g][i] = rows[k]

\* Wherever a sequence in order is cut, the batches are in order, none is
\* empty, and nothing is lost.
LEMMA Offset ==
  ASSUME NEW l \in Nat, NEW e \in Nat, NEW s \in Nat, NEW i \in Nat, e <= l, 1 <= i, i <= e - s
  PROVE  s + i \in 1 .. l
OBVIOUS

LEMMA CutIs ==
  ASSUME NEW rows \in Seq(Row), rows # <<>>, Rising(rows), NEW cuts \in SUBSET (1 .. Len(rows) - 1)
  PROVE  Batches(Cut(rows, cuts)) /\ Ascending(Cut(rows, cuts)) /\ HoldsAll(Cut(rows, cuts), rows)
<1> DEFINE L == Len(rows)
           ends == Ends(cuts, L)
           run == Cut(rows, cuts)
<1>1. L \in Nat \ {0}
  BY EmptySeq
<1>2. PICK m \in Nat \ {0} :
        /\ ends \in [1 .. m -> 1 .. L]
        /\ \A b, c \in 1 .. m : b < c => ends[b] < ends[c]
        /\ ends[m] = L
  BY <1>1, EndsAre
<1>3. run = [b \in 1 .. m |-> SubSeq(rows, IF b = 1 THEN 1 ELSE ends[b - 1] + 1, ends[b])]
  BY <1>2 DEF Cut, Ends
<1> DEFINE start == [b \in 1 .. m |-> IF b = 1 THEN 0 ELSE ends[b - 1]]
<1> HIDE DEF ends, L, run
<1>4. ASSUME NEW b \in 1 .. m
      PROVE  /\ start[b] \in 0 .. ends[b] - 1 /\ ends[b] \in 1 .. L
             /\ run[b] \in Seq(Row) /\ Len(run[b]) = ends[b] - start[b]
             /\ DOMAIN run[b] = 1 .. ends[b] - start[b]
             /\ \A i \in 1 .. ends[b] - start[b] : run[b][i] = rows[start[b] + i]
  <2>1. start[b] \in 0 .. ends[b] - 1 /\ ends[b] \in 1 .. L
    <3>1. CASE b = 1
      BY <1>2, <3>1
    <3>2. CASE b # 1
      <4>1. b - 1 \in 1 .. m /\ b - 1 < b
        BY <3>2
      <4> QED
        BY <1>2, <3>2, <4>1
    <3> QED
      BY <3>1, <3>2
  <2>2. run[b] = SubSeq(rows, start[b] + 1, ends[b])
    <3>1. run[b] = SubSeq(rows, IF b = 1 THEN 1 ELSE ends[b - 1] + 1, ends[b])
      BY <1>3
    <3>2. (IF b = 1 THEN 1 ELSE ends[b - 1] + 1) = start[b] + 1
      OBVIOUS
    <3> QED
      BY <3>1, <3>2
  <2>3. \A a \in 0 .. L, z \in 1 .. L : a < z =>
          /\ SubSeq(rows, a + 1, z) \in Seq(Row) /\ Len(SubSeq(rows, a + 1, z)) = z - a
          /\ \A i \in 1 .. z - a : SubSeq(rows, a + 1, z)[i] = rows[a + i]
    BY <1>1 DEF L
  <2> HIDE DEF start
  <2>4. /\ run[b] \in Seq(Row) /\ Len(run[b]) = ends[b] - start[b]
        /\ \A i \in 1 .. ends[b] - start[b] : run[b][i] = rows[start[b] + i]
    <3>1. start[b] \in 0 .. L /\ start[b] < ends[b]
      BY <1>1, <2>1
    <3>2. LET s == SubSeq(rows, start[b] + 1, ends[b])
          IN  /\ s \in Seq(Row) /\ Len(s) = ends[b] - start[b]
              /\ \A i \in 1 .. ends[b] - start[b] : s[i] = rows[start[b] + i]
      BY <2>1, <2>3, <3>1
    <3> QED
      BY <2>2, <3>2
  <2>5. DOMAIN run[b] = 1 .. ends[b] - start[b]
    BY <2>4
  <2> QED
    BY <2>1, <2>4, <2>5
<1>12. \A b \in 1 .. m : start[b] = IF b = 1 THEN 0 ELSE ends[b - 1]
  OBVIOUS
<1> HIDE DEF start
<1>5. run \in [1 .. m -> Seq(Row)]
  BY <1>3, <1>4
<1>6. run \in Seq(Seq(Row)) /\ Len(run) = m /\ DOMAIN run = 1 .. m
  BY <1>5
<1>7. Batches(run)
  <2>1. ASSUME NEW b \in 1 .. m PROVE run[b] # <<>>
    <3>1. start[b] \in 0 .. ends[b] - 1 /\ ends[b] \in 1 .. L /\ Len(run[b]) = ends[b] - start[b]
      BY <1>4
    <3> QED
      BY <1>1, <3>1
  <2> QED
    BY <1>6, <2>1 DEF Batches
<1>8. Ascending(run)
  <2> SUFFICES ASSUME NEW g \in 1 .. m, NEW h \in 1 .. m, NEW i \in DOMAIN run[g], NEW j \in DOMAIN run[h],
                      g < h \/ (g = h /\ i < j)
               PROVE  Before(run[g][i], run[h][j])
    BY <1>6 DEF Ascending
  <2>1. /\ i \in 1 .. ends[g] - start[g] /\ run[g][i] = rows[start[g] + i]
        /\ j \in 1 .. ends[h] - start[h] /\ run[h][j] = rows[start[h] + j]
    <3>1. /\ DOMAIN run[g] = 1 .. ends[g] - start[g] /\ DOMAIN run[h] = 1 .. ends[h] - start[h]
          /\ \A n \in 1 .. ends[g] - start[g] : run[g][n] = rows[start[g] + n]
          /\ \A n \in 1 .. ends[h] - start[h] : run[h][n] = rows[start[h] + n]
      BY <1>4
    <3> QED
      BY <3>1
  <2>2. g < h => ends[g] <= start[h]
    <3> SUFFICES ASSUME g < h PROVE ends[g] <= start[h]
      OBVIOUS
    <3>1. h - 1 \in 1 .. m /\ h # 1 /\ (g = h - 1 \/ g < h - 1)
      OBVIOUS
    <3> QED
      BY <1>2, <1>12, <3>1
  <2>3. /\ start[g] \in 0 .. ends[g] - 1 /\ ends[g] \in 1 .. L
        /\ start[h] \in 0 .. ends[h] - 1 /\ ends[h] \in 1 .. L
    BY <1>4
  <2>4. ends[g] \in Nat /\ ends[h] \in Nat /\ start[g] \in Nat /\ start[h] \in Nat /\ i \in Nat /\ j \in Nat
    BY <1>1, <2>1, <2>3
  <2>5. start[g] + i \in 1 .. L /\ start[h] + j \in 1 .. L
    <3>1. L \in Nat /\ ends[g] <= L /\ ends[h] <= L
      BY <1>1, <2>3
    <3>2. 1 <= i /\ i <= ends[g] - start[g] /\ 1 <= j /\ j <= ends[h] - start[h]
      BY <2>1, <2>4
    <3> QED
      BY <2>4, <3>1, <3>2, Offset
  <2>6. start[g] + i < start[h] + j
    BY <1>1, <2>1, <2>2, <2>3, <2>4
  <2> QED
    BY <1>1, <2>1, <2>5, <2>6 DEF L, Rising
<1>9. \A g \in DOMAIN run : \A i \in DOMAIN run[g] : \E k \in DOMAIN rows : run[g][i] = rows[k]
  <2> SUFFICES ASSUME NEW g \in 1 .. m, NEW i \in DOMAIN run[g] PROVE \E k \in DOMAIN rows : run[g][i] = rows[k]
    BY <1>6
  <2>1. /\ i \in 1 .. ends[g] - start[g] /\ run[g][i] = rows[start[g] + i]
        /\ start[g] \in 0 .. ends[g] - 1 /\ ends[g] \in 1 .. L
    BY <1>4
  <2>2. start[g] + i \in DOMAIN rows
    BY <1>1, <2>1 DEF L
  <2> QED
    BY <2>1, <2>2
<1>10. ASSUME NEW k \in 1 .. L PROVE \E g \in DOMAIN run : \E i \in DOMAIN run[g] : run[g][i] = rows[k]
  <2> DEFINE Reach == {b \in 1 .. m : k <= ends[b]}
  <2>1. m \in Reach
    BY <1>1, <1>2
  <2>2. PICK g \in Reach : \A b \in Reach : g <= b
    <3>1. Reach \in SUBSET Nat /\ Reach # {}
      BY <2>1
    <3> HIDE DEF Reach
    <3> QED
      BY <3>1, LeastNumber
  <2>3. g \in 1 .. m /\ k <= ends[g]
    OBVIOUS
  <2>4. start[g] < k
    <3>1. CASE g = 1
      BY <1>12, <3>1
    <3>2. CASE g # 1
      <4>1. g - 1 \in 1 .. m /\ g - 1 \notin Reach
        BY <2>2, <2>3, <3>2
      <4> QED
        BY <1>1, <1>2, <1>12, <3>2, <4>1
    <3> QED
      BY <3>1, <3>2
  <2>5. /\ start[g] \in 0 .. ends[g] - 1 /\ ends[g] \in 1 .. L
        /\ run[g] \in Seq(Row) /\ Len(run[g]) = ends[g] - start[g]
        /\ \A i \in 1 .. ends[g] - start[g] : run[g][i] = rows[start[g] + i]
    BY <1>4, <2>3
  <2> HIDE DEF Reach
  <2>6. k - start[g] \in 1 .. ends[g] - start[g] /\ start[g] + (k - start[g]) = k
    BY <1>1, <2>3, <2>4, <2>5
  <2>7. k - start[g] \in DOMAIN run[g] /\ run[g][k - start[g]] = rows[k]
    BY <2>5, <2>6
  <2> QED
    BY <1>6, <2>3, <2>7
<1>11. HoldsAll(run, rows)
  BY <1>9, <1>10 DEF HoldsAll, L
<1> QED
  BY <1>7, <1>8, <1>11 DEF run

\* A spilled run has all of its rows, in order.
LEMMA SpilledIs ==
  ASSUME NEW rows \in Seq(Row), rows # <<>>, Distinct(rows), NEW run \in Spilled(rows)
  PROVE  Batches(run) /\ Ascending(run) /\ HoldsAll(run, rows)
<1> DEFINE sorted == Sorted(rows)
<1>1. /\ sorted \in Seq(Row) /\ Len(sorted) = Len(rows)
      /\ \A n \in 1 .. Len(rows) : \E i \in 1 .. Len(rows) : sorted[n] = rows[i]
      /\ \A i \in 1 .. Len(rows) : \E n \in 1 .. Len(rows) : sorted[n] = rows[i]
      /\ \A m, n \in 1 .. Len(rows) : m < n => Before(sorted[m], sorted[n])
  BY SortedIs
<1>2. PICK cuts \in SUBSET (1 .. Len(rows) - 1) : run = Cut(sorted, cuts)
  BY DEF Spilled
<1> HIDE DEF sorted
<1>3. sorted # <<>> /\ Len(rows) \in Nat
  BY <1>1
<1>4. Rising(sorted)
  <2>1. DOMAIN sorted = 1 .. Len(rows)
    BY <1>1
  <2>2. \A m, n \in 1 .. Len(rows) : m < n => Before(sorted[m], sorted[n])
    BY <1>1
  <2> QED
    BY <2>1, <2>2 DEF Rising
<1>5. Batches(run) /\ Ascending(run) /\ HoldsAll(run, sorted)
  BY <1>1, <1>2, <1>3, <1>4, CutIs
<1>6. HoldsAll(run, rows)
  <2>1. DOMAIN sorted = 1 .. Len(rows) /\ DOMAIN rows = 1 .. Len(rows)
    BY <1>1
  <2>2. ASSUME NEW g \in DOMAIN run, NEW i \in DOMAIN run[g] PROVE \E k \in DOMAIN rows : run[g][i] = rows[k]
    <3>1. PICK n \in 1 .. Len(rows) : run[g][i] = sorted[n]
      BY <1>5, <2>1 DEF HoldsAll
    <3> QED
      BY <1>1, <2>1, <3>1
  <2>3. ASSUME NEW k \in DOMAIN rows PROVE \E g \in DOMAIN run : \E i \in DOMAIN run[g] : run[g][i] = rows[k]
    <3>1. PICK n \in 1 .. Len(rows) : sorted[n] = rows[k]
      BY <1>1, <2>1
    <3>2. \E g \in DOMAIN run : \E i \in DOMAIN run[g] : run[g][i] = sorted[n]
      BY <1>5, <2>1 DEF HoldsAll
    <3> QED
      BY <3>1, <3>2
  <2> QED
    BY <2>2, <2>3 DEF HoldsAll
<1> QED
  BY <1>5, <1>6
-----------------------------------------------------------------------------
(* The inductive invariant.                                                 *)

L == Len(pushed)
T == Sorted(pushed)

\* Every row says where it was pushed; the buffer is the end of what was.
Numbered(rows) == rows \in Seq(Row) /\ \A k \in DOMAIN rows : rows[k][2] = k

EndOf(rest, rows) ==
  /\ rest \in Seq(Row) /\ Len(rest) =< Len(rows)
  /\ \A k \in DOMAIN rest : rest[k] = rows[Len(rows) - Len(rest) + k]

InputIs ==
  /\ phase \in {"push", "memory", "merge", "done", "failed"}
  /\ Numbered(pushed)
  /\ EndOf(buffered, pushed)

\* A place in the runs: a batch of one and a row of the batch.
Place(rs, r, g, i) == r \in DOMAIN rs /\ g \in DOMAIN rs[r] /\ i \in DOMAIN rs[r][g]

\* Runs in order that together hold the first rows of a sequence, no row in
\* two of them.
AreRuns(rs, rows, length) ==
  /\ rs \in Seq(Seq(Seq(Row)))
  /\ \A r \in DOMAIN rs : Batches(rs[r]) /\ Ascending(rs[r])
  /\ \A r, g, i : Place(rs, r, g, i) => \E k \in 1 .. length : rs[r][g][i] = rows[k]
  /\ \A k \in 1 .. length : \E r, g, i : Place(rs, r, g, i) /\ rs[r][g][i] = rows[k]
  /\ \A r, g, i, s, h, j : Place(rs, r, g, i) /\ Place(rs, s, h, j) /\ rs[r][g][i] = rs[s][h][j] => r = s

RunsAre == AreRuns(runs, pushed, L - Len(buffered))

\* Sorted puts the rows of a sequence in order.
SortedOf(sorted, rows) ==
  /\ sorted \in Seq(Row) /\ Len(sorted) = Len(rows)
  /\ \A n \in 1 .. Len(rows) : \E k \in 1 .. Len(rows) : sorted[n] = rows[k]
  /\ \A k \in 1 .. Len(rows) : \E n \in 1 .. Len(rows) : sorted[n] = rows[k]
  /\ Rising(sorted)

\* Every batch yielded is the next of the sorted rows.
AreBatches(batches, sorted) ==
  /\ batches \in Seq(Seq(Row))
  /\ \A b \in DOMAIN batches :
       /\ (b - 1) * BatchSize < Len(sorted)
       /\ batches[b] = SubSeq(sorted, (b - 1) * BatchSize + 1, Min({b * BatchSize, Len(sorted)}))

\* How many rows n batches have.
Given(n, length) == IF n * BatchSize <= length THEN n * BatchSize ELSE length

\* A cursor is at a place of its run or at its end.
AreCursors(cs, rs) ==
  /\ cs \in [DOMAIN rs -> [generation : Nat, row : Nat]]
  /\ \A r \in DOMAIN rs : \/ Place(rs, r, cs[r].generation, cs[r].row)
                          \/ cs[r].generation = Len(rs[r]) + 1 /\ cs[r].row = 1

Passed(cs, r, g, i) == g < cs[r].generation \/ (g = cs[r].generation /\ i < cs[r].row)

\* The rows before the cursors are the first n of the sorted ones.
PassedAre(cs, rs, sorted, n) ==
  /\ n \in 0 .. Len(sorted)
  /\ \A r, g, i : Place(rs, r, g, i) => (Passed(cs, r, g, i) <=> \E k \in 1 .. n : rs[r][g][i] = sorted[k])

\* The rows at the cursors that are not at the end of their run.
Heads(cs, rs) ==
  {<<rs[r][cs[r].generation][cs[r].row], r>> : r \in {r \in DOMAIN rs : cs[r].generation \in DOMAIN rs[r]}}

\* The rows drawn are found through the sources, and are the next of the
\* sorted ones after the first n.
AreDrawn(places, from, rs, sorted, n) ==
  /\ places \in Seq(Nat \X Nat)
  /\ \A k \in DOMAIN places :
       /\ places[k][1] \in DOMAIN from
       /\ LET s == from[places[k][1]]
          IN  Place(rs, s[1], s[2], places[k][2]) /\ rs[s[1]][s[2]][places[k][2]] = sorted[n + k]

\* A run's place in the sources is that of the batch it says.
AreSources(of, from, rs) ==
  /\ from \in Seq(Nat \X Nat)
  /\ of \in [DOMAIN rs -> [generation : Nat, index : Nat]]
  /\ \A r \in DOMAIN rs : of[r].index # 0 =>
       of[r].index \in DOMAIN from /\ from[of[r].index] = <<r, of[r].generation>>

MergeIs ==
  /\ buffered = <<>> /\ Len(drawn) <= BatchSize
  /\ AreCursors(cursors, runs)
  /\ PassedAre(cursors, runs, T, Given(Len(out), L) + Len(drawn))
  /\ heap = Heads(cursors, runs)
  /\ AreDrawn(drawn, sources, runs, T, Given(Len(out), L))
  /\ AreSources(sourceOf, sources, runs)

IInv ==
  /\ InputIs /\ RunsAre /\ AreBatches(out, T)
  /\ phase = "push" => out = <<>> /\ drawn = <<>> /\ sources = <<>>
  /\ phase = "memory" => runs = <<>>
  /\ phase = "merge" => MergeIs
  /\ phase = "done" => L <= Len(out) * BatchSize

Agree(rows, more, length) == \A k \in 1 .. length : rows[k] = more[k]

\* What is spilled becomes a run after the others.
LEMMA SpillIs ==
  ASSUME NEW rs, NEW rows, NEW D \in Nat, AreRuns(rs, rows, D),
         NEW more, Numbered(more), NEW rest \in Seq(Row), rest # <<>>, Len(more) = D + Len(rest),
         EndOf(rest, more), Agree(rows, more, D),
         NEW run \in Spilled(rest)
  PROVE  AreRuns(Append(rs, run), more, Len(more))
<1> DEFINE n == Len(rs)
           M == Len(more)
           ts == Append(rs, run)
<1>1. /\ M \in Nat /\ Len(rest) \in Nat /\ M = D + Len(rest)
      /\ more \in Seq(Row) /\ \A k \in 1 .. M : more[k][2] = k
      /\ \A k \in 1 .. Len(rest) : rest[k] = more[D + k]
  BY DEF Numbered, EndOf
<1>2. Distinct(rest)
  <2>1. ASSUME NEW i \in 1 .. Len(rest), NEW j \in 1 .. Len(rest), rest[i] = rest[j] PROVE i = j
    <3> HIDE DEF M
    <3>1. D + i \in 1 .. M /\ D + j \in 1 .. M
      BY <1>1
    <3>2. more[D + i][2] = D + i /\ more[D + j][2] = D + j
      BY <1>1, <3>1
    <3> QED
      BY <1>1, <2>1, <3>2
  <2> QED
    BY <2>1 DEF Distinct
<1>3. Batches(run) /\ Ascending(run) /\ HoldsAll(run, rest)
  BY <1>2, SpilledIs
<1>4. /\ rs \in Seq(Seq(Seq(Row)))
      /\ \A r \in DOMAIN rs : Batches(rs[r]) /\ Ascending(rs[r])
      /\ \A r, g, i : Place(rs, r, g, i) => \E k \in 1 .. D : rs[r][g][i] = rows[k]
      /\ \A k \in 1 .. D : \E r, g, i : Place(rs, r, g, i) /\ rs[r][g][i] = rows[k]
      /\ \A r, g, i, s, h, j : Place(rs, r, g, i) /\ Place(rs, s, h, j) /\ rs[r][g][i] = rs[s][h][j] => r = s
  BY DEF AreRuns
<1>5. run \in Seq(Seq(Row))
  BY <1>3 DEF Batches
<1>6. /\ n \in Nat /\ DOMAIN rs = 1 .. n /\ DOMAIN ts = 1 .. n + 1
      /\ \A r \in 1 .. n : ts[r] = rs[r]
      /\ ts[n + 1] = run
      /\ ts \in Seq(Seq(Seq(Row)))
  BY <1>4, <1>5
<1> HIDE DEF n, M, ts
<1>8. \A r, g, i : Place(ts, r, g, i) <=> Place(rs, r, g, i) \/ (r = n + 1 /\ g \in DOMAIN run /\ i \in DOMAIN run[g])
  BY <1>6 DEF Place
<1>9. \A r, g, i : Place(rs, r, g, i) => r \in 1 .. n /\ r # n + 1 /\ ts[r] = rs[r]
  BY <1>6 DEF Place
<1>10. \A k \in 1 .. Len(rest) : D + k \in 1 .. M /\ D + k \notin 1 .. D /\ rest[k] = more[D + k]
  BY <1>1
<1>11. \A k \in 1 .. D : k \in 1 .. M /\ more[k] = rows[k]
  BY <1>1 DEF Agree
<1>12. DOMAIN rest = 1 .. Len(rest)
  OBVIOUS
<1>13. ASSUME NEW r, NEW g, NEW i, Place(rs, r, g, i)
       PROVE  \E k \in 1 .. D : ts[r][g][i] = more[k]
  <2>1. \E k \in 1 .. D : rs[r][g][i] = rows[k]
    BY <1>4, <1>13
  <2> QED
    BY <1>9, <1>11, <1>13, <2>1
<1>14. ASSUME NEW g \in DOMAIN run, NEW i \in DOMAIN run[g]
       PROVE  \E k \in 1 .. Len(rest) : run[g][i] = more[D + k]
  <2>1. \E k \in 1 .. Len(rest) : run[g][i] = rest[k]
    BY <1>3, <1>12 DEF HoldsAll
  <2> QED
    BY <1>10, <2>1
<1>15. \A r, g, i : Place(ts, r, g, i) => \E k \in 1 .. M : ts[r][g][i] = more[k]
  <2> SUFFICES ASSUME NEW r, NEW g, NEW i, Place(ts, r, g, i) PROVE \E k \in 1 .. M : ts[r][g][i] = more[k]
    OBVIOUS
  <2>1. CASE Place(rs, r, g, i)
    BY <1>11, <1>13, <2>1
  <2>2. CASE r = n + 1 /\ g \in DOMAIN run /\ i \in DOMAIN run[g]
    <3>1. PICK k \in 1 .. Len(rest) : run[g][i] = more[D + k]
      BY <1>14, <2>2
    <3> QED
      BY <1>6, <1>10, <2>2, <3>1
  <2> QED
    BY <1>8, <2>1, <2>2
<1>16. \A k \in 1 .. M : \E r, g, i : Place(ts, r, g, i) /\ ts[r][g][i] = more[k]
  <2> SUFFICES ASSUME NEW k \in 1 .. M PROVE \E r, g, i : Place(ts, r, g, i) /\ ts[r][g][i] = more[k]
    OBVIOUS
  <2>1. CASE k \in 1 .. D
    <3>1. PICK r, g, i : Place(rs, r, g, i) /\ rs[r][g][i] = rows[k]
      BY <1>4, <2>1
    <3> QED
      BY <1>8, <1>9, <1>11, <2>1, <3>1
  <2>2. CASE k \notin 1 .. D
    <3>1. k - D \in 1 .. Len(rest) /\ D + (k - D) = k
      BY <1>1, <2>2
    <3>2. PICK g \in DOMAIN run : \E i \in DOMAIN run[g] : run[g][i] = rest[k - D]
      BY <1>3, <1>12, <3>1 DEF HoldsAll
    <3>3. PICK i \in DOMAIN run[g] : run[g][i] = rest[k - D]
      BY <3>2
    <3>4. Place(ts, n + 1, g, i) /\ ts[n + 1][g][i] = more[k]
      BY <1>6, <1>8, <1>10, <3>1, <3>3
    <3> QED
      BY <3>4
  <2> QED
    BY <2>1, <2>2
<1>17. ASSUME NEW r, NEW g, NEW i, Place(rs, r, g, i), NEW h \in DOMAIN run, NEW j \in DOMAIN run[h]
       PROVE  ts[r][g][i] # run[h][j]
  <2>1. PICK k \in 1 .. D : ts[r][g][i] = more[k]
    BY <1>13, <1>17
  <2>2. PICK m \in 1 .. Len(rest) : run[h][j] = more[D + m]
    BY <1>14
  <2>3. k \in 1 .. M /\ D + m \in 1 .. M /\ k # D + m
    BY <1>10, <1>11
  <2>4. more[k][2] = k /\ more[D + m][2] = D + m
    BY <1>1, <2>3
  <2> QED
    BY <2>1, <2>2, <2>3, <2>4
<1>18. \A r, g, i, s, h, j : Place(ts, r, g, i) /\ Place(ts, s, h, j) /\ ts[r][g][i] = ts[s][h][j] => r = s
  <2> SUFFICES ASSUME NEW r, NEW g, NEW i, NEW s, NEW h, NEW j,
                      Place(ts, r, g, i), Place(ts, s, h, j), ts[r][g][i] = ts[s][h][j]
               PROVE  r = s
    OBVIOUS
  <2>1. CASE Place(rs, r, g, i) /\ Place(rs, s, h, j)
    <3>1. \A a, b, c, d, e, f : Place(rs, a, b, c) /\ Place(rs, d, e, f) /\ rs[a][b][c] = rs[d][e][f] => a = d
      BY <1>4
    <3>2. ts[r] = rs[r] /\ ts[s] = rs[s]
      BY <1>9, <2>1
    <3> QED
      BY <2>1, <3>1, <3>2
  <2>2. CASE Place(rs, r, g, i) /\ ~Place(rs, s, h, j)
    BY <1>6, <1>8, <1>17, <2>2
  <2>3. CASE ~Place(rs, r, g, i) /\ Place(rs, s, h, j)
    BY <1>6, <1>8, <1>17, <2>3
  <2>4. CASE ~Place(rs, r, g, i) /\ ~Place(rs, s, h, j)
    BY <1>8, <2>4
  <2> QED
    BY <2>1, <2>2, <2>3, <2>4
<1>19. \A r \in DOMAIN ts : Batches(ts[r]) /\ Ascending(ts[r])
  <2>1. ASSUME NEW r \in 1 .. n + 1 PROVE Batches(ts[r]) /\ Ascending(ts[r])
    <3>1. CASE r = n + 1
      BY <1>3, <1>6, <3>1
    <3>2. CASE r \in 1 .. n
      BY <1>4, <1>6, <3>2
    <3> QED
      BY <1>6, <3>1, <3>2
  <2> QED
    BY <1>6, <2>1
<1> QED
  BY <1>6, <1>15, <1>16, <1>18, <1>19 DEF AreRuns, M, ts

LEMMA RunsAgree ==
  ASSUME NEW rs, NEW rows, NEW more, NEW D, AreRuns(rs, rows, D), Agree(rows, more, D)
  PROVE  AreRuns(rs, more, D)
<1>1. \A k \in 1 .. D : rows[k] = more[k]
  BY DEF Agree
<1>2. /\ rs \in Seq(Seq(Seq(Row)))
      /\ \A r \in DOMAIN rs : Batches(rs[r]) /\ Ascending(rs[r])
      /\ \A r, g, i : Place(rs, r, g, i) => \E k \in 1 .. D : rs[r][g][i] = more[k]
      /\ \A k \in 1 .. D : \E r, g, i : Place(rs, r, g, i) /\ rs[r][g][i] = more[k]
      /\ \A r, g, i, s, h, j : Place(rs, r, g, i) /\ Place(rs, s, h, j) /\ rs[r][g][i] = rs[s][h][j] => r = s
  BY <1>1 DEF AreRuns
<1> QED
  BY <1>2 DEF AreRuns

\* The buffer with more rows is still the end of what has been pushed.
LEMMA EndGrows ==
  ASSUME NEW rows, Numbered(rows), NEW rest, EndOf(rest, rows), NEW new \in Seq(Row),
         \A k \in DOMAIN new : new[k][2] = Len(rows) + k
  PROVE  /\ Numbered(rows \o new) /\ EndOf(rest \o new, rows \o new)
         /\ Len(rest \o new) = Len(rest) + Len(new) /\ Len(rows \o new) = Len(rows) + Len(new)
         /\ Agree(rows, rows \o new, Len(rows) - Len(rest))
<1> DEFINE M == Len(rows)
           R == Len(rest)
           N == Len(new)
<1>1. /\ rows \in Seq(Row) /\ \A k \in 1 .. M : rows[k][2] = k
      /\ rest \in Seq(Row) /\ R =< M /\ \A k \in 1 .. R : rest[k] = rows[M - R + k]
      /\ M \in Nat /\ R \in Nat /\ N \in Nat /\ DOMAIN new = 1 .. N
  BY DEF Numbered, EndOf
<1>2. /\ rows \o new \in Seq(Row) /\ Len(rows \o new) = M + N
      /\ \A k \in 1 .. M + N : (rows \o new)[k] = IF k <= M THEN rows[k] ELSE new[k - M]
  BY <1>1
<1>3. /\ rest \o new \in Seq(Row) /\ Len(rest \o new) = R + N
      /\ \A k \in 1 .. R + N : (rest \o new)[k] = IF k <= R THEN rest[k] ELSE new[k - R]
  BY <1>1
<1> HIDE DEF M, R, N
<1>4. \A k \in 1 .. M + N : (rows \o new)[k][2] = k
  <2> SUFFICES ASSUME NEW k \in 1 .. M + N PROVE (rows \o new)[k][2] = k
    OBVIOUS
  <2>1. CASE k <= M
    BY <1>1, <1>2, <2>1
  <2>2. CASE ~ (k <= M)
    <3>1. k - M \in 1 .. N /\ M + (k - M) = k
      BY <1>1, <2>2
    <3>2. new[k - M][2] = M + (k - M)
      BY <1>1, <3>1 DEF M
    <3> QED
      BY <1>2, <2>2, <3>1, <3>2
  <2> QED
    BY <2>1, <2>2
<1>5. ASSUME NEW k \in 1 .. R + N PROVE (rest \o new)[k] = (rows \o new)[(M + N) - (R + N) + k]
  <2>1. (M + N) - (R + N) + k = M - R + k /\ M - R + k \in 1 .. M + N
    BY <1>1
  <2>2. CASE k <= R
    <3>1. (rest \o new)[k] = rest[k] /\ rest[k] = rows[M - R + k]
      BY <1>1, <1>3, <2>2
    <3>2. M - R + k <= M
      BY <1>1, <2>2
    <3> QED
      BY <1>2, <2>1, <3>1, <3>2
  <2>3. CASE ~ (k <= R)
    <3>1. (rest \o new)[k] = new[k - R] /\ k - R = (M - R + k) - M /\ ~ (M - R + k <= M)
      BY <1>1, <1>3, <2>3
    <3> QED
      BY <1>2, <2>1, <3>1
  <2> QED
    BY <2>2, <2>3
<1>6. Numbered(rows \o new)
  <2>1. DOMAIN (rows \o new) = 1 .. M + N
    BY <1>2
  <2> QED
    BY <1>2, <1>4, <2>1 DEF Numbered
<1>7. EndOf(rest \o new, rows \o new)
  <2>1. DOMAIN (rest \o new) = 1 .. R + N
    BY <1>3
  <2>2. R + N <= M + N
    BY <1>1
  <2> QED
    BY <1>2, <1>3, <1>5, <2>1, <2>2 DEF EndOf
<1>8. Agree(rows, rows \o new, M - R)
  <2>1. \A k \in 1 .. M - R : k \in 1 .. M + N /\ k <= M
    BY <1>1
  <2> QED
    BY <1>2, <2>1 DEF Agree
<1> QED
  BY <1>2, <1>3, <1>6, <1>7, <1>8 DEF M, R, N

\* A batch is pushed.
LEMMA PushKeeps ==
  ASSUME IInv, NEW keys \in Seq(Nat), keys # <<>>, NEW w, PushBatch(keys, w) \/ PushFails(keys, w)
  PROVE  IInv'
<1> DEFINE new == Keyed(keys)
           rest == buffered \o new
<1>1. phase = "push" /\ out = <<>> /\ drawn = <<>> /\ sources = <<>> /\ InputIs /\ RunsAre
  BY DEF IInv, PushBatch, PushFails
<1>2. Numbered(pushed) /\ EndOf(buffered, pushed) /\ Len(pushed) \in Nat
  BY <1>1 DEF InputIs, Numbered
<1>3. new \in Seq(Row) /\ new # <<>> /\ \A k \in DOMAIN new : new[k][2] = Len(pushed) + k
  <2>1. keys \in [1 .. Len(keys) -> Nat] /\ Len(keys) \in Nat /\ Len(keys) # 0 /\ DOMAIN keys = 1 .. Len(keys)
    BY EmptySeq
  <2>2. new \in [1 .. Len(keys) -> Row]
    BY <1>2, <2>1 DEF Row, Keyed
  <2>3. Len(new) = Len(keys) /\ new \in Seq(Row)
    BY <2>1, <2>2
  <2>4. \A k \in DOMAIN new : new[k][2] = Len(pushed) + k
    BY DEF Keyed
  <2> HIDE DEF new
  <2> QED
    BY <2>1, <2>3, <2>4
<1>4. /\ phase' \in {"push", "failed"} /\ out' = <<>> /\ drawn' = <<>> /\ sources' = <<>> /\ pushed' = pushed \o new
      /\ \/ /\ \E run \in Spilled(rest) : runs' = Append(runs, run)
            /\ buffered' = <<>>
         \/ buffered' = rest /\ runs' = runs
  BY <1>1 DEF PushBatch, PushFails, merge
<1> HIDE DEF new
<1>5. /\ Numbered(pushed') /\ EndOf(rest, pushed') /\ Agree(pushed, pushed', L - Len(buffered))
      /\ Len(rest) = Len(buffered) + Len(new) /\ L' = L + Len(new)
  BY <1>2, <1>3, <1>4, EndGrows DEF L
<1>6. /\ L \in Nat /\ Len(buffered) \in Nat /\ Len(new) \in Nat \ {0} /\ Len(buffered) <= L
      /\ rest \in Seq(Row)
  BY <1>2, <1>3 DEF L, EndOf
<1> HIDE DEF rest
<1>7. /\ L - Len(buffered) \in Nat /\ L' = (L - Len(buffered)) + Len(rest) /\ rest # <<>>
      /\ L' - Len(rest) = L - Len(buffered)
  BY <1>5, <1>6
<1>8. InputIs' /\ RunsAre'
  <2>1. CASE buffered' = <<>> /\ \E run \in Spilled(rest) : runs' = Append(runs, run)
    <3>1. PICK run \in Spilled(rest) : runs' = Append(runs, run)
      BY <2>1
    <3>2. AreRuns(runs', pushed', L')
      BY <1>1, <1>5, <1>6, <1>7, <3>1, SpillIs DEF RunsAre, L
    <3>3. L' - Len(buffered') = L'
      BY <1>5, <1>6, <2>1
    <3>4. EndOf(<<>>, pushed')
      BY <1>5, <1>6 DEF EndOf, L
    <3> QED
      BY <1>4, <1>5, <2>1, <3>2, <3>3, <3>4 DEF InputIs, RunsAre
  <2>2. CASE buffered' = rest /\ runs' = runs
    <3>1. AreRuns(runs, pushed', L - Len(buffered))
      BY <1>1, <1>5, RunsAgree DEF RunsAre
    <3> QED
      BY <1>4, <1>5, <1>7, <2>2, <3>1 DEF InputIs, RunsAre
  <2> QED
    BY <1>4, <2>1, <2>2
<1>9. AreBatches(out', T')
  BY <1>4 DEF AreBatches
<1> QED
  BY <1>4, <1>8, <1>9 DEF IInv

LEMMA SortedOfIs ==
  ASSUME NEW rows, Numbered(rows)
  PROVE  SortedOf(Sorted(rows), rows)
<1> DEFINE sorted == Sorted(rows)
<1>1. rows \in Seq(Row) /\ Distinct(rows)
  BY DEF Numbered, Distinct
<1>2. /\ sorted \in Seq(Row) /\ Len(sorted) = Len(rows)
      /\ \A n \in 1 .. Len(rows) : \E i \in 1 .. Len(rows) : sorted[n] = rows[i]
      /\ \A i \in 1 .. Len(rows) : \E n \in 1 .. Len(rows) : sorted[n] = rows[i]
      /\ \A m, n \in 1 .. Len(rows) : m < n => Before(sorted[m], sorted[n])
  BY <1>1, SortedIs
<1> HIDE DEF sorted
<1>3. DOMAIN sorted = 1 .. Len(rows)
  BY <1>2
<1>4. Rising(sorted)
  BY <1>2, <1>3 DEF Rising
<1> QED
  BY <1>2, <1>4 DEF SortedOf, sorted

\* Before is a strict order of rows.
LEMMA BeforeIs ==
  ASSUME NEW a \in Row, NEW b \in Row, Before(a, b)
  PROVE  a # b /\ ~Before(b, a)
BY DEF Before, Row

\* In a sorted sequence, each row has one position.
LEMMA RisingIs ==
  ASSUME NEW rows \in Seq(Row), Rising(rows), NEW m \in 1 .. Len(rows), NEW n \in 1 .. Len(rows)
  PROVE  /\ rows[m] = rows[n] => m = n
         /\ Before(rows[m], rows[n]) <=> m < n
<1>1. rows[m] \in Row /\ rows[n] \in Row
  OBVIOUS
<1>2. m < n => Before(rows[m], rows[n])
  BY DEF Rising
<1>3. n < m => Before(rows[n], rows[m])
  BY DEF Rising
<1>4. m \in Nat /\ n \in Nat
  OBVIOUS
<1>5. m < n => rows[m] # rows[n]
  BY <1>1, <1>2, BeforeIs
<1>6. n < m => rows[m] # rows[n] /\ ~Before(rows[m], rows[n])
  BY <1>1, <1>3, BeforeIs
<1>7. m = n => ~Before(rows[m], rows[n])
  BY <1>1, BeforeIs
<1> QED
  BY <1>2, <1>4, <1>5, <1>6, <1>7

\* And in a run in order, each row has one place.
LEMMA AscendingIs ==
  ASSUME NEW run, Batches(run), Ascending(run),
         NEW g \in DOMAIN run, NEW i \in DOMAIN run[g], NEW h \in DOMAIN run, NEW j \in DOMAIN run[h]
  PROVE  /\ run[g][i] = run[h][j] => g = h /\ i = j
         /\ run[g][i] \in Row /\ g \in Nat /\ i \in Nat
         /\ g < h \/ (g = h /\ i < j) => Before(run[g][i], run[h][j])
<1>1. run \in Seq(Seq(Row))
  BY DEF Batches
<1>2. run[g] \in Seq(Row) /\ run[h] \in Seq(Row) /\ g \in Nat /\ h \in Nat
  BY <1>1
<1>3. run[g][i] \in Row /\ run[h][j] \in Row /\ i \in Nat /\ j \in Nat
  BY <1>2
<1>4. g < h \/ (g = h /\ i < j) => Before(run[g][i], run[h][j])
  BY DEF Ascending
<1>5. h < g \/ (h = g /\ j < i) => Before(run[h][j], run[g][i])
  BY DEF Ascending
<1>6. run[g][i] = run[h][j] => ~Before(run[g][i], run[h][j]) /\ ~Before(run[h][j], run[g][i])
  BY <1>3, BeforeIs
<1> QED
  BY <1>2, <1>3, <1>4, <1>5, <1>6

\* When a cursor is not at its end, the row at it has not been passed; when
\* another row of the run has not been passed either, it is not before.
LEMMA HeadIs ==
  ASSUME NEW rs, NEW rows, AreRuns(rs, rows, Len(rows)), NEW cs, AreCursors(cs, rs),
         NEW r, NEW g, NEW i, Place(rs, r, g, i), ~Passed(cs, r, g, i)
  PROVE  /\ Place(rs, r, cs[r].generation, cs[r].row)
         /\ ~Passed(cs, r, cs[r].generation, cs[r].row)
         /\ \/ g = cs[r].generation /\ i = cs[r].row
            \/ Before(rs[r][cs[r].generation][cs[r].row], rs[r][g][i])
<1> DEFINE c == cs[r]
<1>1. /\ r \in DOMAIN rs /\ g \in DOMAIN rs[r] /\ i \in DOMAIN rs[r][g]
  BY DEF Place
<1>2. Batches(rs[r]) /\ Ascending(rs[r]) /\ rs[r] \in Seq(Seq(Row))
  BY <1>1 DEF AreRuns
<1>3. c.generation \in Nat /\ c.row \in Nat
  BY <1>1 DEF AreCursors
<1>4. g \in 1 .. Len(rs[r]) /\ i \in Nat /\ Len(rs[r]) \in Nat
  BY <1>1, <1>2
<1>5. c.generation < g \/ (c.generation = g /\ c.row <= i)
  BY <1>3, <1>4 DEF Passed
<1>6. c.generation # Len(rs[r]) + 1
  BY <1>3, <1>4, <1>5
<1>7. Place(rs, r, c.generation, c.row)
  BY <1>1, <1>6 DEF AreCursors
<1>8. c.generation \in DOMAIN rs[r] /\ c.row \in DOMAIN rs[r][c.generation]
  BY <1>7 DEF Place
<1>9. ~Passed(cs, r, c.generation, c.row)
  BY <1>3 DEF Passed
<1>10. c.generation < g \/ (c.generation = g /\ c.row < i) => Before(rs[r][c.generation][c.row], rs[r][g][i])
  <2> HIDE DEF c
  <2> QED
    BY <1>1, <1>2, <1>8, AscendingIs
<1>11. (g = c.generation /\ i = c.row) \/ c.generation < g \/ (c.generation = g /\ c.row < i)
  BY <1>3, <1>4, <1>5
<1> QED
  BY <1>7, <1>9, <1>10, <1>11

\* The rows at the cursors come after those that have been passed, and one of
\* them, if there is any, is the next of the sorted ones.
LEMMA NextIsAHead ==
  ASSUME NEW rs, NEW rows \in Seq(Row), AreRuns(rs, rows, Len(rows)), NEW sorted, SortedOf(sorted, rows),
         NEW cs, AreCursors(cs, rs), NEW n, PassedAre(cs, rs, sorted, n)
  PROVE  /\ \A e \in Heads(cs, rs) : \E m \in n + 1 .. Len(sorted) : e[1] = sorted[m]
         /\ n < Len(sorted) =>
              \E r \in DOMAIN rs : /\ cs[r].generation \in DOMAIN rs[r] /\ Place(rs, r, cs[r].generation, cs[r].row)
                                   /\ rs[r][cs[r].generation][cs[r].row] = sorted[n + 1]
<1> DEFINE M == Len(sorted)
<1>1. /\ sorted \in Seq(Row) /\ M = Len(rows) /\ M \in Nat /\ n \in 0 .. M /\ Rising(sorted)
      /\ \A k \in 1 .. M : \E m \in 1 .. M : sorted[m] = rows[k]
      /\ \A m \in 1 .. M : \E k \in 1 .. M : sorted[m] = rows[k]
  <2>1. /\ sorted \in Seq(Row) /\ M = Len(rows) /\ Rising(sorted)
        /\ \A k \in 1 .. Len(rows) : \E m \in 1 .. Len(rows) : sorted[m] = rows[k]
        /\ \A m \in 1 .. Len(rows) : \E k \in 1 .. Len(rows) : sorted[m] = rows[k]
    BY DEF SortedOf
  <2>2. n \in 0 .. M /\ M \in Nat
    BY <2>1 DEF PassedAre
  <2> HIDE DEF M
  <2> QED
    BY <2>1, <2>2
<1>2. \A r, g, i : Place(rs, r, g, i) => (Passed(cs, r, g, i) <=> \E k \in 1 .. n : rs[r][g][i] = sorted[k])
  BY DEF PassedAre
<1>3. /\ \A r, g, i : Place(rs, r, g, i) => \E k \in 1 .. M : rs[r][g][i] = rows[k]
      /\ \A k \in 1 .. M : \E r, g, i : Place(rs, r, g, i) /\ rs[r][g][i] = rows[k]
  BY <1>1 DEF AreRuns
<1> HIDE DEF M
<1>4. ASSUME NEW e \in Heads(cs, rs) PROVE \E m \in n + 1 .. M : e[1] = sorted[m]
  <2>1. PICK r \in DOMAIN rs : /\ cs[r].generation \in DOMAIN rs[r]
                               /\ e = <<rs[r][cs[r].generation][cs[r].row], r>>
    BY DEF Heads
  <2> DEFINE g == cs[r].generation
             i == cs[r].row
  <2>2. rs[r] \in Seq(Seq(Row)) /\ g \in 1 .. Len(rs[r]) /\ Len(rs[r]) \in Nat
    BY <2>1 DEF AreRuns
  <2>3. Place(rs, r, g, i)
    BY <2>2 DEF AreCursors
  <2>4. ~Passed(cs, r, g, i)
    <3>1. g \in Nat /\ i \in Nat
      BY DEF AreCursors
    <3> QED
      BY <3>1 DEF Passed
  <2>5. e[1] = rs[r][g][i]
    BY <2>1
  <2> HIDE DEF g, i
  <2>6. ~ \E k \in 1 .. n : rs[r][g][i] = sorted[k]
    BY <1>2, <2>3, <2>4
  <2>7. PICK k \in 1 .. M : rs[r][g][i] = rows[k]
    BY <1>3, <2>3
  <2>8. PICK m \in 1 .. M : sorted[m] = rows[k]
    BY <1>1
  <2>9. m \in n + 1 .. M
    BY <1>1, <2>6, <2>7, <2>8
  <2> QED
    BY <2>5, <2>7, <2>8, <2>9
<1>5. ASSUME n < M
      PROVE  \E r \in DOMAIN rs : /\ cs[r].generation \in DOMAIN rs[r] /\ Place(rs, r, cs[r].generation, cs[r].row)
                                  /\ rs[r][cs[r].generation][cs[r].row] = sorted[n + 1]
  <2>1. n + 1 \in 1 .. M
    BY <1>1, <1>5
  <2>2. PICK k \in 1 .. M : sorted[n + 1] = rows[k]
    BY <1>1, <2>1
  <2>3. PICK r, g, i : Place(rs, r, g, i) /\ rs[r][g][i] = rows[k]
    BY <1>3
  <2>4. \A m \in 1 .. M : sorted[m] = sorted[n + 1] => m = n + 1
    BY <1>1, <2>1, RisingIs DEF M
  <2>5. ~Passed(cs, r, g, i)
    <3>1. \A m \in 1 .. n : m \in 1 .. M /\ m # n + 1
      BY <1>1
    <3>2. \A m \in 1 .. n : sorted[m] # sorted[n + 1]
      BY <2>4, <3>1
    <3> QED
      BY <1>2, <2>2, <2>3, <3>2
  <2> DEFINE g0 == cs[r].generation
             i0 == cs[r].row
  <2>6. /\ Place(rs, r, g0, i0) /\ ~Passed(cs, r, g0, i0)
        /\ (g = g0 /\ i = i0) \/ Before(rs[r][g0][i0], rs[r][g][i])
    BY <2>3, <2>5, HeadIs
  <2>7. r \in DOMAIN rs /\ g0 \in DOMAIN rs[r]
    BY <2>6 DEF Place
  <2> HIDE DEF g0, i0
  <2>8. rs[r][g0][i0] = sorted[n + 1]
    <3> SUFFICES ASSUME Before(rs[r][g0][i0], sorted[n + 1]) PROVE FALSE
      BY <2>2, <2>3, <2>6
    <3>1. PICK l \in 1 .. M : rs[r][g0][i0] = rows[l]
      BY <1>3, <2>6
    <3>2. PICK m \in 1 .. M : sorted[m] = rows[l]
      BY <1>1
    <3>3. m < n + 1
      BY <1>1, <2>1, <3>1, <3>2, RisingIs DEF M
    <3>4. m \in 1 .. n
      BY <1>1, <3>3
    <3> QED
      BY <1>2, <2>6, <3>1, <3>2, <3>4
  <2> QED
    BY <2>6, <2>7, <2>8 DEF g0, i0
<1> QED
  BY <1>4, <1>5 DEF M

First(e, S) == e \in S /\ \A f \in S : f = e \/ Before(e[1], f[1])

\* The least row on the heap is the next of the sorted ones.
LEMMA LeastIs ==
  ASSUME NEW rs, NEW rows \in Seq(Row), AreRuns(rs, rows, Len(rows)), NEW sorted, SortedOf(sorted, rows),
         NEW cs, AreCursors(cs, rs), NEW n, PassedAre(cs, rs, sorted, n),
         Heads(cs, rs) # {}, NEW least, (\E e : First(e, Heads(cs, rs))) => First(least, Heads(cs, rs))
  PROVE  /\ n < Len(sorted)
         /\ least[2] \in DOMAIN rs
         /\ least = <<sorted[n + 1], least[2]>>
         /\ Place(rs, least[2], cs[least[2]].generation, cs[least[2]].row)
         /\ rs[least[2]][cs[least[2]].generation][cs[least[2]].row] = sorted[n + 1]
<1> DEFINE M == Len(sorted)
           H == Heads(cs, rs)
<1>1. /\ sorted \in Seq(Row) /\ M \in Nat /\ n \in 0 .. M /\ Rising(sorted)
  BY DEF SortedOf, PassedAre
<1>2. \A e \in H : \E m \in n + 1 .. M : e[1] = sorted[m]
  BY NextIsAHead
<1> HIDE DEF H
<1>3. n < M /\ n + 1 \in 1 .. M
  <2>1. PICK some \in H : TRUE
    BY DEF H
  <2>2. PICK m \in n + 1 .. M : some[1] = sorted[m]
    BY <1>2
  <2> HIDE DEF M
  <2> QED
    BY <1>1
<1>4. PICK r \in DOMAIN rs : /\ cs[r].generation \in DOMAIN rs[r] /\ Place(rs, r, cs[r].generation, cs[r].row)
                             /\ rs[r][cs[r].generation][cs[r].row] = sorted[n + 1]
  BY <1>3, NextIsAHead
<1> HIDE DEF M
<1> DEFINE e == <<sorted[n + 1], r>>
<1>5. e \in H /\ e[1] = sorted[n + 1] /\ e[2] = r
  BY <1>4 DEF H, Heads
<1> HIDE DEF e
<1>6. \A s, g, i, t, h, j : Place(rs, s, g, i) /\ Place(rs, t, h, j) /\ rs[s][g][i] = rs[t][h][j] => s = t
  BY DEF AreRuns
<1>7. ASSUME NEW f \in H PROVE f = e \/ Before(e[1], f[1])
  <2>1. PICK s \in DOMAIN rs : /\ cs[s].generation \in DOMAIN rs[s]
                               /\ f = <<rs[s][cs[s].generation][cs[s].row], s>>
    BY DEF H, Heads
  <2>2. Place(rs, s, cs[s].generation, cs[s].row)
    <3>1. rs[s] \in Seq(Seq(Row)) /\ cs[s].generation \in 1 .. Len(rs[s]) /\ Len(rs[s]) \in Nat
      BY <2>1 DEF AreRuns
    <3> QED
      BY <3>1 DEF AreCursors
  <2>3. PICK m \in n + 1 .. M : f[1] = sorted[m]
    BY <1>2
  <2>4. m \in 1 .. M /\ (m = n + 1 \/ n + 1 < m)
    BY <1>1, <2>3
  <2>5. CASE m = n + 1
    <3>1. rs[s][cs[s].generation][cs[s].row] = rs[r][cs[r].generation][cs[r].row]
      BY <1>4, <2>1, <2>3, <2>5
    <3>2. s = r
      BY <1>4, <1>6, <2>2, <3>1
    <3> QED
      BY <1>4, <2>1, <3>2 DEF e
  <2>6. CASE n + 1 < m
    <3>1. Before(sorted[n + 1], sorted[m])
      BY <1>1, <1>3, <2>4, <2>6, RisingIs DEF M
    <3> QED
      BY <1>5, <2>3, <3>1
  <2> QED
    BY <2>4, <2>5, <2>6
<1>8. least = e
  <2>1. First(e, H)
    BY <1>5, <1>7 DEF First
  <2>2. least \in H /\ (e = least \/ Before(least[1], e[1])) /\ (least = e \/ Before(e[1], least[1]))
    BY <1>5, <1>7, <2>1 DEF First, H
  <2>3. PICK m \in n + 1 .. M : least[1] = sorted[m]
    BY <1>2, <2>2
  <2>4. m \in 1 .. M
    BY <1>1
  <2>5. sorted[m] \in Row /\ sorted[n + 1] \in Row
    BY <1>1, <1>3, <2>4 DEF M
  <2> QED
    BY <1>5, <2>2, <2>3, <2>5, BeforeIs
<1> QED
  BY <1>3, <1>4, <1>5, <1>8 DEF e, M

\* A cursor moves to the next row of its batch, or to the next batch.
Step(c, run) ==
  IF c.row >= Len(run[c.generation]) THEN [generation |-> c.generation + 1, row |-> 1]
  ELSE [generation |-> c.generation, row |-> c.row + 1]

HeadOf(rs, r, c) ==
  IF c.generation > Len(rs[r]) THEN {} ELSE {<<rs[r][c.generation][c.row], r>>}

Moves(ds, cs, rs, r) == ds = [cs EXCEPT ![r] = Step(cs[r], rs[r])]

HeadsMove(ds, cs, rs, r, row) ==
  Heads(ds, rs) = (Heads(cs, rs) \ {<<row, r>>}) \cup HeadOf(rs, r, Step(cs[r], rs[r]))

\* The cursor of a run moves past the row at it, and past no other.
LEMMA AdvanceKeeps ==
  ASSUME NEW rs, NEW rows \in Seq(Row), AreRuns(rs, rows, Len(rows)), NEW sorted, SortedOf(sorted, rows),
         NEW cs, AreCursors(cs, rs), NEW n, PassedAre(cs, rs, sorted, n), n < Len(sorted),
         NEW r \in DOMAIN rs, Place(rs, r, cs[r].generation, cs[r].row),
         rs[r][cs[r].generation][cs[r].row] = sorted[n + 1],
         NEW ds, Moves(ds, cs, rs, r)
  PROVE  AreCursors(ds, rs) /\ PassedAre(ds, rs, sorted, n + 1) /\ HeadsMove(ds, cs, rs, r, sorted[n + 1])
<1> DEFINE M == Len(sorted)
           g0 == cs[r].generation
           i0 == cs[r].row
           run == rs[r]
           next == Step(cs[r], rs[r])
           new == HeadOf(rs, r, next)
<1>1. /\ sorted \in Seq(Row) /\ M \in Nat /\ n \in 0 .. M
  BY DEF SortedOf, PassedAre
<1>2. Batches(run) /\ Ascending(run) /\ run \in Seq(Seq(Row)) /\ \A g \in DOMAIN run : run[g] # <<>>
  BY DEF AreRuns, Batches
<1>3. g0 \in DOMAIN run /\ i0 \in DOMAIN run[g0]
  BY DEF Place
<1>4. /\ cs \in [DOMAIN rs -> [generation : Nat, row : Nat]]
      /\ \A s \in DOMAIN rs : \/ Place(rs, s, cs[s].generation, cs[s].row)
                              \/ cs[s].generation = Len(rs[s]) + 1 /\ cs[s].row = 1
  BY DEF AreCursors
<1>5. g0 \in Nat /\ i0 \in Nat
  BY <1>4
<1> HIDE DEF M, g0, i0, run
<1>6. /\ run \in Seq(Seq(Row)) /\ Len(run) \in Nat /\ DOMAIN run = 1 .. Len(run)
      /\ \A g \in 1 .. Len(run) : run[g] \in Seq(Row) /\ Len(run[g]) \in Nat \ {0} /\ DOMAIN run[g] = 1 .. Len(run[g])
  <2>1. ASSUME NEW g \in 1 .. Len(run)
        PROVE  run[g] \in Seq(Row) /\ Len(run[g]) \in Nat \ {0} /\ DOMAIN run[g] = 1 .. Len(run[g])
    <3>1. run[g] \in Seq(Row) /\ run[g] # <<>>
      BY <1>2
    <3> QED
      BY <3>1, EmptySeq
  <2> QED
    BY <1>2, <2>1
<1>7. g0 \in 1 .. Len(run) /\ i0 \in 1 .. Len(run[g0])
  BY <1>3, <1>6
<1>8. next = IF i0 < Len(run[g0]) THEN [generation |-> g0, row |-> i0 + 1] ELSE [generation |-> g0 + 1, row |-> 1]
  <2>1. next = IF i0 >= Len(run[g0]) THEN [generation |-> g0 + 1, row |-> 1] ELSE [generation |-> g0, row |-> i0 + 1]
    BY DEF g0, i0, run, next, Step
  <2> HIDE DEF next
  <2>2. i0 \in Nat /\ Len(run[g0]) \in Nat
    BY <1>6, <1>7
  <2>3. i0 >= Len(run[g0]) <=> ~(i0 < Len(run[g0]))
    BY <2>2
  <2> QED
    BY <2>1, <2>3
<1> HIDE DEF next
<1>9. next \in [generation : Nat, row : Nat]
  BY <1>5, <1>8
<1>10. ds \in [DOMAIN rs -> [generation : Nat, row : Nat]] /\ ds[r] = next
  BY <1>4, <1>9 DEF Moves, next
<1>11. \A s \in DOMAIN rs : s # r => ds[s] = cs[s]
  BY <1>4 DEF Moves
<1>12. Place(rs, r, next.generation, next.row) \/ (next.generation = Len(run) + 1 /\ next.row = 1)
  <2>1. CASE i0 < Len(run[g0])
    <3>1. next.generation = g0 /\ next.row = i0 + 1 /\ i0 + 1 \in 1 .. Len(run[g0])
      BY <1>6, <1>7, <1>8, <2>1
    <3> QED
      BY <1>6, <1>7, <3>1 DEF Place, run
  <2>2. CASE ~ (i0 < Len(run[g0]))
    <3>1. next.generation = g0 + 1 /\ next.row = 1
      BY <1>8, <2>2
    <3>2. CASE g0 = Len(run)
      BY <3>1, <3>2
    <3>3. CASE g0 # Len(run)
      <4>1. g0 + 1 \in 1 .. Len(run)
        <5>1. Len(run) \in Nat /\ g0 \in 1 .. Len(run)
          BY <1>6, <1>7
        <5> QED
          BY ONLY <3>3, <5>1
      <4>2. 1 \in 1 .. Len(run[g0 + 1])
        BY <1>6, <4>1
      <4> QED
        BY <1>6, <3>1, <4>1, <4>2 DEF Place, run
    <3> QED
      BY <3>2, <3>3
  <2> QED
    BY <2>1, <2>2
<1>13. AreCursors(ds, rs)
  BY <1>4, <1>10, <1>11, <1>12 DEF AreCursors, run
<1>14. ASSUME NEW s, NEW g, NEW i, Place(rs, s, g, i)
       PROVE  Passed(ds, s, g, i) <=> Passed(cs, s, g, i) \/ (s = r /\ g = g0 /\ i = i0)
  <2>1. s \in DOMAIN rs
    BY <1>14 DEF Place
  <2>2. CASE s # r
    BY <1>11, <2>1, <2>2 DEF Passed
  <2>3. CASE s = r
    <3>1. g \in 1 .. Len(run) /\ i \in 1 .. Len(run[g])
      BY <1>6, <1>14, <2>3 DEF Place, run
    <3>2. g \in Nat /\ i \in Nat /\ Len(run[g]) \in Nat /\ Len(run[g0]) \in Nat
      BY <1>6, <1>7, <3>1
    <3>3. Passed(cs, s, g, i) <=> g < g0 \/ (g = g0 /\ i < i0)
      BY <2>3 DEF Passed, g0, i0
    <3>4. Passed(ds, s, g, i) <=> g < next.generation \/ (g = next.generation /\ i < next.row)
      BY <1>10, <2>3 DEF Passed
    <3>5. CASE i0 < Len(run[g0])
      <4>1. next.generation = g0 /\ next.row = i0 + 1
        BY <1>8, <3>5
      <4> QED
        BY <1>5, <2>3, <3>2, <3>3, <3>4, <4>1
    <3>6. CASE ~ (i0 < Len(run[g0]))
      <4>1. next.generation = g0 + 1 /\ next.row = 1
        BY <1>8, <3>6
      <4>2. g = g0 => i <= i0
        BY <1>5, <1>7, <3>1, <3>2, <3>6
      <4> QED
        BY <1>5, <2>3, <3>1, <3>2, <3>3, <3>4, <4>1, <4>2
    <3> QED
      BY <3>5, <3>6
  <2> QED
    BY <2>2, <2>3
<1>15. PassedAre(ds, rs, sorted, n + 1)
  <2>1. n + 1 \in 0 .. M
    BY <1>1 DEF M
  <2>2. ASSUME NEW s, NEW g, NEW i, Place(rs, s, g, i)
        PROVE  Passed(ds, s, g, i) <=> \E k \in 1 .. n + 1 : rs[s][g][i] = sorted[k]
    <3>1. Passed(cs, s, g, i) <=> \E k \in 1 .. n : rs[s][g][i] = sorted[k]
      BY <2>2 DEF PassedAre
    <3>2. s = r /\ g = g0 /\ i = i0 <=> rs[s][g][i] = sorted[n + 1]
      <4>1. s = r /\ g = g0 /\ i = i0 => rs[s][g][i] = sorted[n + 1]
        BY DEF g0, i0
      <4>2. ASSUME rs[s][g][i] = sorted[n + 1] PROVE s = r /\ g = g0 /\ i = i0
        <5>1. Place(rs, r, g0, i0) /\ rs[r][g0][i0] = sorted[n + 1]
          BY DEF g0, i0
        <5>2. s = r
          BY <2>2, <4>2, <5>1 DEF AreRuns
        <5>3. g \in DOMAIN run /\ i \in DOMAIN run[g]
          BY <2>2, <5>2 DEF Place, run
        <5>4. run[g][i] = run[g0][i0]
          BY <4>2, <5>1, <5>2 DEF run
        <5> QED
          BY <1>2, <1>3, <5>2, <5>3, <5>4, AscendingIs
      <4> QED
        BY <4>1, <4>2
    <3>3. \A k : k \in 1 .. n + 1 <=> k \in 1 .. n \/ k = n + 1
      BY <1>1
    <3> QED
      BY <1>14, <2>2, <3>1, <3>2, <3>3
  <2> QED
    BY <2>1, <2>2 DEF PassedAre, M
<1>16. Heads(ds, rs) = (Heads(cs, rs) \ {<<sorted[n + 1], r>>}) \cup new
  <2>1. \A e : e \in Heads(cs, rs) <=> \E s \in DOMAIN rs : cs[s].generation \in DOMAIN rs[s] /\ e = <<rs[s][cs[s].generation][cs[s].row], s>>
    BY DEF Heads
  <2>2. \A e : e \in Heads(ds, rs) <=> \E s \in DOMAIN rs : ds[s].generation \in DOMAIN rs[s] /\ e = <<rs[s][ds[s].generation][ds[s].row], s>>
    BY DEF Heads
  <2>3. next.generation \in DOMAIN run <=> ~ (next.generation > Len(run))
    BY <1>6, <1>7, <1>8
  <2>7. new = IF next.generation > Len(run) THEN {} ELSE {<<run[next.generation][next.row], r>>}
    BY DEF run, HeadOf
  <2> HIDE DEF new
  <2>4. ASSUME NEW e \in Heads(ds, rs) PROVE e \in (Heads(cs, rs) \ {<<sorted[n + 1], r>>}) \cup new
    <3>1. PICK s \in DOMAIN rs : ds[s].generation \in DOMAIN rs[s] /\ e = <<rs[s][ds[s].generation][ds[s].row], s>>
      BY <2>2
    <3>2. CASE s = r
      <4>1. next.generation \in DOMAIN run /\ e = <<run[next.generation][next.row], r>>
        BY <1>10, <3>1, <3>2 DEF run
      <4> QED
        BY <2>3, <2>7, <4>1
    <3>3. CASE s # r
      <4>1. cs[s].generation \in DOMAIN rs[s] /\ e = <<rs[s][cs[s].generation][cs[s].row], s>>
        BY <1>11, <3>1, <3>3
      <4>2. e \in Heads(cs, rs)
        BY <2>1, <4>1
      <4>3. e # <<sorted[n + 1], r>>
        BY <3>3, <4>1
      <4> QED
        BY <4>2, <4>3
    <3> QED
      BY <3>2, <3>3
  <2>5. ASSUME NEW e \in Heads(cs, rs), e # <<sorted[n + 1], r>> PROVE e \in Heads(ds, rs)
    <3>1. PICK s \in DOMAIN rs : cs[s].generation \in DOMAIN rs[s] /\ e = <<rs[s][cs[s].generation][cs[s].row], s>>
      BY <2>1
    <3>2. s # r
      BY <2>5, <3>1
    <3>3. ds[s].generation \in DOMAIN rs[s] /\ e = <<rs[s][ds[s].generation][ds[s].row], s>>
      BY <1>11, <3>1, <3>2
    <3> QED
      BY <2>2, <3>3
  <2>6. ASSUME NEW e \in new PROVE e \in Heads(ds, rs)
    <3>1. ~ (next.generation > Len(run)) /\ e = <<run[next.generation][next.row], r>>
      BY <2>6, <2>7
    <3>2. ds[r].generation \in DOMAIN rs[r] /\ e = <<rs[r][ds[r].generation][ds[r].row], r>>
      BY <1>10, <2>3, <3>1 DEF run
    <3> QED
      BY <2>2, <3>2
  <2> HIDE DEF new
  <2> QED
    BY <2>4, <2>5, <2>6
<1> QED
  BY <1>13, <1>15, <1>16 DEF HeadsMove, next

LEMMA AppendIs ==
  ASSUME NEW S, NEW s \in Seq(S), NEW e \in S
  PROVE  /\ Append(s, e) \in Seq(S) /\ Len(s) \in Nat
         /\ Len(Append(s, e)) = Len(s) + 1 /\ DOMAIN Append(s, e) = 1 .. Len(s) + 1
         /\ Append(s, e)[Len(s) + 1] = e
         /\ \A k \in 1 .. Len(s) : Append(s, e)[k] = s[k]
OBVIOUS

LEMMA LastOrEarlier ==
  ASSUME NEW n \in Nat, NEW k \in 1 .. n + 1
  PROVE  k = n + 1 \/ k \in 1 .. n
OBVIOUS

LEMMA MinOfTwo ==
  ASSUME NEW a \in Int, NEW b \in Int
  PROVE  Min({a, b}) = IF a <= b THEN a ELSE b
<1> DEFINE m == IF a <= b THEN a ELSE b
<1>1. m \in {a, b} /\ \A y \in {a, b} : m <= y
  OBVIOUS
<1>2. \A x \in {a, b} : (\A y \in {a, b} : x <= y) => x = m
  OBVIOUS
<1> HIDE DEF m
<1>3. Min({a, b}) = m
  BY <1>1, <1>2 DEF Min
<1> QED
  BY <1>3 DEF m

\* How many rows the batches have.
LEMMA GivenIs ==
  ASSUME BatchSize \in Nat \ {0}, NEW n \in Nat, NEW length \in Nat
  PROVE  /\ n * BatchSize \in Nat /\ (n + 1) * BatchSize = n * BatchSize + BatchSize
         /\ Given(n, length) \in 0 .. length
         /\ Given(n, length) < length <=> n * BatchSize < length
         /\ n * BatchSize < length => Given(n, length) = n * BatchSize
         /\ Given(n, length) = length => length <= n * BatchSize
<1>1. n * BatchSize \in Nat /\ (n + 1) * BatchSize = n * BatchSize + BatchSize
  OBVIOUS
<1> DEFINE p == n * BatchSize
<1>2. Given(n, length) = IF p <= length THEN p ELSE length
  BY DEF Given
<1> HIDE DEF p
<1>3. p \in Nat
  BY <1>1 DEF p
<1> QED
  BY <1>1, <1>2, <1>3 DEF p

\* The next batch.
LEMMA BatchesGrow ==
  ASSUME BatchSize \in Nat \ {0}, NEW sorted \in Seq(Row), NEW batches, AreBatches(batches, sorted),
         NEW next, Len(batches) * BatchSize < Len(sorted),
         next = SubSeq(sorted, Len(batches) * BatchSize + 1, Min({Len(batches) * BatchSize + BatchSize, Len(sorted)}))
  PROVE  AreBatches(Append(batches, next), sorted)
<1> DEFINE n == Len(batches)
           M == Len(sorted)
           more == Append(batches, next)
<1>1. /\ batches \in Seq(Seq(Row)) /\ n \in Nat /\ M \in Nat
      /\ \A b \in 1 .. n : /\ (b - 1) * BatchSize < M
                           /\ batches[b] = SubSeq(sorted, (b - 1) * BatchSize + 1, Min({b * BatchSize, M}))
  <2>1. batches \in Seq(Seq(Row)) /\ M \in Nat
    BY DEF AreBatches
  <2>2. n \in Nat /\ DOMAIN batches = 1 .. n
    BY <2>1
  <2> HIDE DEF n
  <2> QED
    BY <2>1, <2>2 DEF AreBatches
<1>6. n \in Nat
  BY <1>1
<1>2. n * BatchSize \in Nat /\ (n + 1) * BatchSize = n * BatchSize + BatchSize
  BY <1>1, GivenIs
<1>3. next \in Seq(Row)
  <2> DEFINE p == n * BatchSize
  <2>1. p \in Nat /\ p < M /\ Min({p + BatchSize, M}) = IF p + BatchSize <= M THEN p + BatchSize ELSE M
    BY <1>1, <1>2, MinOfTwo
  <2>2. \A l \in Int : p + 1 <= l /\ l <= M => SubSeq(sorted, p + 1, l) \in Seq(Row)
    <3> HIDE DEF p
    <3>1. \A k \in Nat : \A l \in Int : k + 1 <= l /\ l <= M => SubSeq(sorted, k + 1, l) \in Seq(Row)
      OBVIOUS
    <3> QED
      BY <2>1, <3>1
  <2> HIDE DEF p
  <2> DEFINE l == Min({p + BatchSize, M})
  <2>3. l \in Int /\ p + 1 <= l /\ l <= M
    BY <1>1, <2>1
  <2>4. next = SubSeq(sorted, p + 1, l)
    BY DEF p
  <2> HIDE DEF l
  <2> QED
    BY <2>2, <2>3, <2>4
<1>4. /\ more \in Seq(Seq(Row)) /\ Len(more) = n + 1 /\ DOMAIN more = 1 .. n + 1
      /\ more[n + 1] = next /\ \A b \in 1 .. n : more[b] = batches[b]
  <2>1. batches \in Seq(Seq(Row))
    BY <1>1
  <2> DEFINE S == Seq(Row)
  <2>2. batches \in Seq(S) /\ next \in S
    BY <1>3, <2>1
  <2> HIDE DEF S
  <2>3. /\ Append(batches, next) \in Seq(S) /\ Len(batches) \in Nat
        /\ Len(Append(batches, next)) = Len(batches) + 1
        /\ DOMAIN Append(batches, next) = 1 .. Len(batches) + 1
        /\ Append(batches, next)[Len(batches) + 1] = next
        /\ \A k \in 1 .. Len(batches) : Append(batches, next)[k] = batches[k]
    BY ONLY <2>2, AppendIs
  <2> QED
    BY <2>3 DEF S
<1> HIDE DEF n, M, more
<1>5. ASSUME NEW b \in 1 .. n + 1
      PROVE  (b - 1) * BatchSize < M /\ more[b] = SubSeq(sorted, (b - 1) * BatchSize + 1, Min({b * BatchSize, M}))
  <2>1. CASE b = n + 1
    <3>1. b - 1 = n /\ (b - 1) * BatchSize = n * BatchSize /\ b * BatchSize = n * BatchSize + BatchSize
      BY <1>1, <1>2, <2>1
    <3>2. next = SubSeq(sorted, n * BatchSize + 1, Min({n * BatchSize + BatchSize, M})) /\ n * BatchSize < M
      BY DEF n, M
    <3> QED
      BY <1>4, <2>1, <3>1, <3>2
  <2>2. CASE b \in 1 .. n
    BY <1>1, <1>4, <2>2
  <2> QED
    BY <1>6, <2>1, <2>2, LastOrEarlier
<1> QED
  BY <1>4, <1>5 DEF AreBatches, M, more

\* Everything fits: no run was spilled, so the buffer is all there is.
LEMMA InMemoryKeeps ==
  ASSUME IInv, FinishInMemory
  PROVE  IInv'
<1>1. /\ phase' = "memory" /\ runs = <<>> /\ phase = "push"
      /\ pushed' = pushed /\ buffered' = buffered /\ runs' = runs /\ out' = out
  BY DEF FinishInMemory, input, merge
<1>2. InputIs' /\ RunsAre' /\ AreBatches(out', T')
  BY <1>1 DEF IInv, InputIs, RunsAre, L, T
<1> QED
  BY <1>1, <1>2 DEF IInv

LEMMA MemoryKeeps ==
  ASSUME BatchSize \in Nat \ {0}, IInv, NextFromMemory
  PROVE  IInv'
<1>1. /\ phase = "memory" /\ runs = <<>> /\ InputIs /\ RunsAre /\ AreBatches(out, T)
      /\ pushed' = pushed /\ buffered' = buffered /\ runs' = runs
  BY DEF IInv, NextFromMemory, input
<1>2. Numbered(pushed) /\ EndOf(buffered, pushed) /\ AreRuns(<<>>, pushed, L - Len(buffered))
  BY <1>1 DEF InputIs, RunsAre
<1>3. buffered = pushed
  <2>1. pushed \in Seq(Row) /\ buffered \in Seq(Row) /\ Len(buffered) <= Len(pushed)
        /\ \A k \in DOMAIN buffered : buffered[k] = pushed[Len(pushed) - Len(buffered) + k]
    BY <1>2 DEF Numbered, EndOf
  <2>2. \A k \in 1 .. L - Len(buffered) : FALSE
    BY <1>2 DEF AreRuns, Place
  <2>3. Len(pushed) = Len(buffered)
    <3>1. Len(pushed) \in Nat /\ Len(buffered) \in Nat
      BY <2>1
    <3>2. Len(pushed) - Len(buffered) \notin 1 .. Len(pushed) - Len(buffered)
      BY <2>2 DEF L
    <3> QED
      BY ONLY <2>1, <3>1, <3>2
  <2>4. \A k \in 1 .. Len(buffered) : buffered[k] = pushed[k]
    <3>1. Len(pushed) \in Nat
      BY <2>1
    <3>2. \A k \in 1 .. Len(buffered) : Len(pushed) - Len(buffered) + k = k
      BY ONLY <2>3, <3>1
    <3>3. DOMAIN buffered = 1 .. Len(buffered)
      BY <2>1
    <3> QED
      BY <2>1, <3>2, <3>3
  <2> QED
    BY ONLY <2>1, <2>3, <2>4
<1>4. T \in Seq(Row) /\ Len(T) = L /\ L \in Nat
  BY <1>2, SortedOfIs DEF SortedOf, T, L, Numbered
<1>5. Len(out) \in Nat /\ BatchSize * Len(out) = Len(out) * BatchSize
  <2>1. Len(out) \in Nat
    BY <1>1 DEF AreBatches
  <2> QED
    BY <2>1
<1>6. InputIs' /\ RunsAre' /\ T' = T /\ L' = L
  <2>1. phase' \in {"memory", "done"}
    BY <1>1 DEF NextFromMemory
  <2> QED
    BY <1>1, <2>1 DEF InputIs, RunsAre, L, T
<1>7. CASE phase' = "done" /\ out' = out /\ BatchSize * Len(out) >= Len(buffered)
  <2>1. L' <= Len(out') * BatchSize
    <3>1. L' <= BatchSize * Len(out)
      BY <1>3, <1>4, <1>5, <1>6, <1>7 DEF L
    <3> QED
      BY <1>5, <1>7, <3>1
  <2> QED
    BY <1>1, <1>6, <1>7, <2>1 DEF IInv
<1>8. CASE /\ phase' = phase /\ ~ (BatchSize * Len(out) >= Len(buffered))
           /\ out' = Append(out, SubSeq(Sorted(buffered), BatchSize * Len(out) + 1,
                                        Min({BatchSize * Len(out) + BatchSize, Len(buffered)})))
  <2> DEFINE next == SubSeq(T, Len(out) * BatchSize + 1, Min({Len(out) * BatchSize + BatchSize, Len(T)}))
  <2>1. out' = Append(out, next)
    BY <1>3, <1>4, <1>5, <1>8 DEF T, L
  <2>2. Len(out) * BatchSize < Len(T)
    <3> DEFINE p == Len(out) * BatchSize
    <3>1. p \in Nat
      BY <1>5
    <3>2. ~ (p >= Len(T))
      BY <1>3, <1>4, <1>5, <1>8 DEF L
    <3> HIDE DEF p
    <3>3. p < Len(T)
      BY <1>4, <3>1, <3>2
    <3> QED
      BY <3>3 DEF p
  <2>3. AreBatches(Append(out, next), T)
    BY <1>1, <1>4, <2>2, BatchesGrow
  <2> QED
    BY <1>1, <1>6, <1>8, <2>1, <2>3 DEF IInv
<1> QED
  BY <1>7, <1>8 DEF NextFromMemory

\* The rest is spilled and every run opened.
LEMMA FinishMergeKeeps ==
  ASSUME BatchSize \in Nat \ {0}, IInv, FinishMerge
  PROVE  IInv'
<1>1. /\ phase = "push" /\ out = <<>> /\ drawn = <<>> /\ sources = <<>> /\ InputIs /\ RunsAre
      /\ phase' = "merge" /\ pushed' = pushed /\ buffered' = <<>> /\ out' = <<>> /\ drawn' = <<>> /\ sources' = <<>>
      /\ cursors' = [r \in DOMAIN runs' |-> [generation |-> 1, row |-> 1]]
      /\ heap' = {<<runs'[r][1][1], r>> : r \in DOMAIN runs'}
      /\ sourceOf' = [r \in DOMAIN runs' |-> NoSource]
      /\ \/ buffered = <<>> /\ runs' = runs
         \/ buffered # <<>> /\ \E run \in Spilled(buffered) : runs' = Append(runs, run)
  BY DEF IInv, FinishMerge
<1>2. /\ Numbered(pushed) /\ EndOf(buffered, pushed) /\ pushed \in Seq(Row) /\ L \in Nat
      /\ buffered \in Seq(Row) /\ Len(buffered) \in Nat /\ Len(buffered) <= L
  BY <1>1 DEF InputIs, Numbered, EndOf, L
<1>3. AreRuns(runs', pushed, L)
  <2>1. CASE buffered = <<>> /\ runs' = runs
    <3>1. L - Len(buffered) = L
      BY <1>2, <2>1
    <3> QED
      BY <1>1, <2>1, <3>1 DEF RunsAre
  <2>2. CASE buffered # <<>> /\ \E run \in Spilled(buffered) : runs' = Append(runs, run)
    <3>1. PICK run \in Spilled(buffered) : runs' = Append(runs, run)
      BY <2>2
    <3> DEFINE D == L - Len(buffered)
    <3>2. D \in Nat /\ L = D + Len(buffered)
      BY <1>2
    <3>3. AreRuns(runs, pushed, D)
      BY <1>1 DEF RunsAre
    <3> HIDE DEF D
    <3>4. Agree(pushed, pushed, D)
      BY DEF Agree
    <3>5. AreRuns(Append(runs, run), pushed, Len(pushed))
      BY <1>2, <2>2, <3>2, <3>3, <3>4, SpillIs DEF L
    <3> QED
      BY <3>1, <3>5 DEF L
  <2> QED
    BY <1>1, <2>1, <2>2
<1>4. /\ runs' \in Seq(Seq(Seq(Row)))
      /\ \A r \in DOMAIN runs' : Place(runs', r, 1, 1)
  <2>1. runs' \in Seq(Seq(Seq(Row))) /\ \A r \in DOMAIN runs' : Batches(runs'[r])
    BY <1>3 DEF AreRuns
  <2>2. ASSUME NEW r \in DOMAIN runs' PROVE Place(runs', r, 1, 1)
    <3>1. runs'[r] \in Seq(Seq(Row)) /\ runs'[r] # <<>> /\ \A g \in DOMAIN runs'[r] : runs'[r][g] # <<>>
      BY <2>1, <2>2 DEF Batches
    <3>2. 1 \in DOMAIN runs'[r]
      BY <3>1, EmptySeq
    <3>3. runs'[r][1] \in Seq(Row) /\ runs'[r][1] # <<>>
      BY <3>1, <3>2
    <3>4. 1 \in DOMAIN runs'[r][1]
      BY <3>3, EmptySeq
    <3> QED
      BY <2>2, <3>2, <3>4 DEF Place
  <2> QED
    BY <2>1, <2>2
<1>5. InputIs' /\ RunsAre' /\ T' = T /\ L' = L
  <2>1. EndOf(<<>>, pushed)
    BY <1>2 DEF EndOf, L
  <2>2. L - Len(buffered') = L
    BY <1>1, <1>2
  <2> QED
    BY <1>1, <1>2, <1>3, <2>1, <2>2 DEF InputIs, RunsAre, L, T
<1>6. AreBatches(out', T')
  BY <1>1 DEF AreBatches
<1>7. Given(Len(out'), L') + Len(drawn') = 0 /\ Given(Len(out'), L') = 0
  BY <1>1, <1>2, <1>5 DEF Given
<1>8. AreCursors(cursors', runs')
  <2>1. \A r \in DOMAIN runs' : cursors'[r].generation = 1 /\ cursors'[r].row = 1
    BY <1>1
  <2>2. cursors' \in [DOMAIN runs' -> [generation : Nat, row : Nat]]
    BY <1>1
  <2> QED
    BY <1>4, <2>1, <2>2 DEF AreCursors
<1>9. PassedAre(cursors', runs', T', 0)
  <2>1. 0 \in 0 .. Len(T')
    BY <1>2, <1>5, SortedOfIs DEF SortedOf, T, L
  <2>2. ASSUME NEW r, NEW g, NEW i, Place(runs', r, g, i) PROVE ~ Passed(cursors', r, g, i)
    <3>1. r \in DOMAIN runs' /\ g \in DOMAIN runs'[r] /\ i \in DOMAIN runs'[r][g]
      BY <2>2 DEF Place
    <3>2. runs'[r] \in Seq(Seq(Row))
      BY <1>4, <3>1
    <3>3. g \in Nat /\ g >= 1 /\ runs'[r][g] \in Seq(Row)
      BY <3>1, <3>2
    <3>4. i \in Nat /\ i >= 1
      BY <3>1, <3>3
    <3>5. cursors'[r].generation = 1 /\ cursors'[r].row = 1
      BY <1>1, <3>1
    <3> QED
      BY <3>3, <3>4, <3>5 DEF Passed
  <2>3. \A k : k \notin 1 .. 0
    OBVIOUS
  <2> QED
    BY <2>1, <2>2, <2>3 DEF PassedAre
<1>10. heap' = Heads(cursors', runs')
  <2>1. \A r \in DOMAIN runs' : cursors'[r].generation = 1 /\ cursors'[r].row = 1 /\ 1 \in DOMAIN runs'[r]
    BY <1>1, <1>4 DEF Place
  <2> QED
    BY <1>1, <2>1 DEF Heads
<1>11. AreDrawn(drawn', sources', runs', T', Given(Len(out'), L'))
  BY <1>1 DEF AreDrawn
<1>12. AreSources(sourceOf', sources', runs')
  <2>1. \A r \in DOMAIN runs' : sourceOf'[r] = [generation |-> 0, index |-> 0]
    BY <1>1 DEF NoSource
  <2>2. sourceOf' \in [DOMAIN runs' -> [generation : Nat, index : Nat]]
    BY <1>1 DEF NoSource
  <2> QED
    BY <1>1, <2>1, <2>2 DEF AreSources
<1>14. Len(drawn') <= BatchSize
  BY <1>1
<1>13. MergeIs'
  BY <1>1, <1>14, <1>7, <1>8, <1>9, <1>10, <1>11, <1>12 DEF MergeIs
<1> QED
  BY <1>1, <1>5, <1>6, <1>13 DEF IInv

\* The sort ends with an error.
LEMMA FailKeeps ==
  ASSUME IInv, Fail
  PROVE  IInv'
<1>1. phase' = "failed" /\ pushed' = pushed /\ buffered' = buffered /\ runs' = runs /\ out' = out
  BY DEF Fail, FinishFails, DrawFails, InterleaveFails, input
<1> QED
  BY <1>1 DEF IInv, InputIs, RunsAre, L, T

\* The runs are exhausted, and everything has been yielded.
LEMMA EndKeeps ==
  ASSUME BatchSize \in Nat \ {0}, IInv, EndMerge
  PROVE  IInv'
<1>1. /\ phase = "merge" /\ phase' = "done" /\ drawn = <<>> /\ heap = {} /\ MergeIs /\ InputIs /\ RunsAre
      /\ pushed' = pushed /\ buffered' = buffered /\ runs' = runs /\ out' = out /\ AreBatches(out, T)
  BY DEF IInv, EndMerge, input
<1>2. /\ Numbered(pushed) /\ pushed \in Seq(Row) /\ AreRuns(runs, pushed, L) /\ L \in Nat /\ L = Len(pushed)
  <2>1. Numbered(pushed) /\ pushed \in Seq(Row) /\ L \in Nat /\ L = Len(pushed)
    BY <1>1 DEF InputIs, Numbered, L
  <2>2. L - Len(buffered) = L
    BY <1>1, <2>1 DEF MergeIs
  <2> QED
    BY <1>1, <2>1, <2>2 DEF RunsAre
<1>3. SortedOf(T, pushed) /\ Len(T) = L
  BY <1>2, SortedOfIs DEF SortedOf, T
<1>4. Len(out) \in Nat
  BY <1>1 DEF AreBatches
<1> DEFINE n == Given(Len(out), L) + Len(drawn)
<1>5. n = Given(Len(out), L) /\ Given(Len(out), L) \in 0 .. L
  <2>1. Given(Len(out), L) \in 0 .. L /\ Len(drawn) = 0
    BY <1>1, <1>2, <1>4, GivenIs
  <2> QED
    BY <1>2, <2>1
<1>6. PassedAre(cursors, runs, T, n) /\ AreCursors(cursors, runs) /\ Heads(cursors, runs) = {}
  BY <1>1 DEF MergeIs
<1> HIDE DEF n
<1>7. ~ (n < Len(T))
  <2> SUFFICES ASSUME n < Len(T) PROVE FALSE
    OBVIOUS
  <2>1. PICK r \in DOMAIN runs : cursors[r].generation \in DOMAIN runs[r]
    BY <1>2, <1>3, <1>6, NextIsAHead
  <2>2. <<runs[r][cursors[r].generation][cursors[r].row], r>> \in Heads(cursors, runs)
    BY <2>1 DEF Heads
  <2> QED
    BY <1>6, <2>2
<1>8. L <= Len(out) * BatchSize
  <2>1. Given(Len(out), L) = L
    BY <1>2, <1>3, <1>5, <1>7
  <2> QED
    BY <1>2, <1>4, <2>1, GivenIs
<1>9. InputIs' /\ RunsAre' /\ T' = T /\ L' = L
  BY <1>1 DEF InputIs, RunsAre, L, T
<1> QED
  BY <1>1, <1>8, <1>9 DEF IInv

\* The sorted rows, and how many of them the batches yielded have.
LEMMA MergeFacts ==
  ASSUME BatchSize \in Nat \ {0}, IInv, phase = "merge"
  PROVE  /\ MergeIs /\ InputIs /\ RunsAre /\ AreBatches(out, T)
         /\ pushed \in Seq(Row) /\ AreRuns(runs, pushed, Len(pushed)) /\ L \in Nat /\ L = Len(pushed)
         /\ SortedOf(T, pushed) /\ T \in Seq(Row) /\ Len(T) = L
         /\ Len(out) \in Nat /\ Given(Len(out), L) \in 0 .. L /\ Len(drawn) \in Nat
<1>1. MergeIs /\ InputIs /\ RunsAre /\ AreBatches(out, T)
  BY DEF IInv
<1>2. Numbered(pushed) /\ pushed \in Seq(Row) /\ L \in Nat /\ L = Len(pushed)
  BY <1>1 DEF InputIs, Numbered, L
<1>3. L - Len(buffered) = L
  BY <1>1, <1>2 DEF MergeIs
<1>4. SortedOf(T, pushed) /\ Len(T) = L /\ T \in Seq(Row)
  BY <1>2, SortedOfIs DEF SortedOf, T
<1>5. Len(out) \in Nat
  BY <1>1 DEF AreBatches
<1>6. drawn \in Seq(Nat \X Nat)
  BY <1>1 DEF MergeIs, AreDrawn
<1> QED
  <2>1. AreRuns(runs, pushed, Len(pushed))
    BY <1>1, <1>2, <1>3 DEF RunsAre
  <2>2. Given(Len(out), L) \in 0 .. L
    BY <1>2, <1>5, GivenIs
  <2>3. Len(drawn) \in Nat
    BY <1>6
  <2> QED
    BY <1>1, <1>2, <1>4, <1>5, <2>1, <2>2, <2>3

\* The row at a place is drawn.
Draws(drew, more, now, places, from, of, r, g, i) ==
  LET known == of[r].index # 0 /\ of[r].generation = g
      index == IF known THEN of[r].index ELSE Len(from) + 1
  IN  /\ drew = Append(places, <<index, i>>)
      /\ more = IF known THEN from ELSE Append(from, <<r, g>>)
      /\ now = [of EXCEPT ![r] = [generation |-> g, index |-> index]]

\* A row is drawn: its batch is among the sources, where it was or at the end.
LEMMA DrawnGrows ==
  ASSUME NEW rs, NEW rows, AreRuns(rs, rows, Len(rows)), NEW sorted, NEW n \in Nat,
         NEW places, NEW from, AreDrawn(places, from, rs, sorted, n),
         NEW of, AreSources(of, from, rs),
         NEW r \in DOMAIN rs, NEW g, NEW i, Place(rs, r, g, i), rs[r][g][i] = sorted[n + Len(places) + 1],
         NEW drew, NEW more, NEW now, Draws(drew, more, now, places, from, of, r, g, i)
  PROVE  AreDrawn(drew, more, rs, sorted, n) /\ AreSources(now, more, rs)
<1> DEFINE P == Nat \X Nat
           known == of[r].index # 0 /\ of[r].generation = g
           index == IF known THEN of[r].index ELSE Len(from) + 1
<1>0. /\ drew = Append(places, <<index, i>>)
      /\ more = IF known THEN from ELSE Append(from, <<r, g>>)
      /\ now = [of EXCEPT ![r] = [generation |-> g, index |-> index]]
  BY DEF Draws
<1>1. /\ rs \in Seq(Seq(Seq(Row))) /\ r \in Nat /\ g \in Nat /\ i \in Nat
  <2>1. rs \in Seq(Seq(Seq(Row)))
    BY DEF AreRuns
  <2>2. rs[r] \in Seq(Seq(Row)) /\ r \in Nat
    BY <2>1
  <2>3. g \in DOMAIN rs[r] /\ i \in DOMAIN rs[r][g]
    BY DEF Place
  <2>4. rs[r][g] \in Seq(Row) /\ g \in Nat
    BY <2>2, <2>3
  <2>5. i \in Nat
    BY <2>3, <2>4
  <2> QED
    BY <2>1, <2>2, <2>4, <2>5
<1>2. /\ places \in Seq(P) /\ from \in Seq(P) /\ of \in [DOMAIN rs -> [generation : Nat, index : Nat]]
      /\ Len(from) \in Nat /\ Len(places) \in Nat
  <2>1. places \in Seq(P) /\ from \in Seq(P) /\ of \in [DOMAIN rs -> [generation : Nat, index : Nat]]
    BY DEF AreDrawn, AreSources
  <2> HIDE DEF P
  <2> QED
    BY ONLY <2>1
<1>3. <<r, g>> \in P
  BY <1>1
<1>4. /\ more \in Seq(P) /\ Len(more) \in Nat /\ DOMAIN from \subseteq DOMAIN more
      /\ \A k \in DOMAIN from : more[k] = from[k]
      /\ index \in DOMAIN more /\ index \in Nat \ {0} /\ more[index] = <<r, g>>
  <2>1. CASE known
    <3>1. of[r].index \in DOMAIN from /\ from[of[r].index] = <<r, g>>
      BY <2>1 DEF AreSources
    <3>2. index = of[r].index /\ more = from /\ index \in Nat \ {0}
      BY <1>0, <1>2, <2>1
    <3> QED
      BY <1>2, <3>1, <3>2
  <2>2. CASE ~known
    <3> HIDE DEF P
    <3>1. /\ Append(from, <<r, g>>) \in Seq(P)
          /\ Len(Append(from, <<r, g>>)) = Len(from) + 1
          /\ DOMAIN Append(from, <<r, g>>) = 1 .. Len(from) + 1
          /\ Append(from, <<r, g>>)[Len(from) + 1] = <<r, g>>
          /\ \A k \in 1 .. Len(from) : Append(from, <<r, g>>)[k] = from[k]
      BY ONLY <1>2, <1>3, AppendIs
    <3>2. index = Len(from) + 1 /\ more = Append(from, <<r, g>>)
      BY <1>0, <2>2
    <3>3. DOMAIN from = 1 .. Len(from)
      BY <1>2
    <3> QED
      BY ONLY <1>2, <3>1, <3>2, <3>3
  <2> QED
    BY <2>1, <2>2
<1>5. <<index, i>> \in P
  BY <1>1, <1>4
<1> HIDE DEF index, known
<1>6. /\ drew \in Seq(P)
      /\ DOMAIN drew = 1 .. Len(places) + 1
      /\ drew[Len(places) + 1] = <<index, i>>
      /\ \A k \in 1 .. Len(places) : drew[k] = places[k]
  <2> HIDE DEF P
  <2>1. /\ Append(places, <<index, i>>) \in Seq(P)
        /\ DOMAIN Append(places, <<index, i>>) = 1 .. Len(places) + 1
        /\ Append(places, <<index, i>>)[Len(places) + 1] = <<index, i>>
        /\ \A k \in 1 .. Len(places) : Append(places, <<index, i>>)[k] = places[k]
    BY ONLY <1>2, <1>5, AppendIs
  <2> QED
    BY ONLY <1>0, <2>1
<1> HIDE DEF P
<1>7. ASSUME NEW k \in 1 .. Len(places) + 1
      PROVE  /\ drew[k][1] \in DOMAIN more
             /\ LET s == more[drew[k][1]]
                IN  Place(rs, s[1], s[2], drew[k][2]) /\ rs[s[1]][s[2]][drew[k][2]] = sorted[n + k]
  <2>1. CASE k = Len(places) + 1
    <3>1. drew[k] = <<index, i>> /\ more[index] = <<r, g>>
      BY <1>4, <1>6, <2>1
    <3>2. rs[r][g][i] = sorted[n + k]
      <4>1. n + k = n + Len(places) + 1
        BY <1>2, <2>1
      <4> QED
        BY <4>1
    <3> HIDE DEF index
    <3>3. drew[k][1] = index /\ drew[k][2] = i
      BY <3>1
    <3>4. more[drew[k][1]] = <<r, g>>
      BY <3>1, <3>3
    <3> QED
      BY <1>4, <3>2, <3>3, <3>4
  <2>2. CASE k \in 1 .. Len(places)
    <3>1. drew[k] = places[k]
      BY <1>6, <2>2
    <3>2. k \in DOMAIN places
      BY <1>2, <2>2
    <3>3. /\ places[k][1] \in DOMAIN from
          /\ LET s == from[places[k][1]]
             IN  Place(rs, s[1], s[2], places[k][2]) /\ rs[s[1]][s[2]][places[k][2]] = sorted[n + k]
      BY <3>2 DEF AreDrawn
    <3> QED
      BY <1>4, <3>1, <3>3
  <2> QED
    BY <1>2, <2>1, <2>2, LastOrEarlier
<1>8. AreDrawn(drew, more, rs, sorted, n)
  BY <1>6, <1>7 DEF AreDrawn, P
<1>9. now \in [DOMAIN rs -> [generation : Nat, index : Nat]]
  BY <1>0, <1>1, <1>2, <1>4
<1>10. ASSUME NEW s \in DOMAIN rs, now[s].index # 0
       PROVE  now[s].index \in DOMAIN more /\ more[now[s].index] = <<s, now[s].generation>>
  <2>1. CASE s = r
    <3>1. now[s] = [generation |-> g, index |-> index]
      BY <1>0, <1>2, <2>1
    <3> QED
      BY <1>4, <2>1, <3>1
  <2>2. CASE s # r
    <3>1. now[s] = of[s]
      BY <1>0, <1>2, <2>2
    <3>2. of[s].index \in DOMAIN from /\ from[of[s].index] = <<s, of[s].generation>>
      BY <1>10, <3>1 DEF AreSources
    <3> QED
      BY <1>4, <3>1, <3>2
  <2> QED
    BY <2>1, <2>2
<1>11. AreSources(now, more, rs)
  BY <1>4, <1>9, <1>10 DEF AreSources, P
<1> QED
  BY <1>8, <1>11

\* The least row is drawn.
LEMMA DrawKeeps ==
  ASSUME BatchSize \in Nat \ {0}, IInv, Draw
  PROVE  IInv'
<1> DEFINE n == Given(Len(out), L) + Len(drawn)
           r == Least[2]
           c == cursors[r]
           next == Advanced(r)
           index == IF Current(r) THEN sourceOf[r].index ELSE Len(sources) + 1
<1>1. /\ phase = "merge" /\ heap # {}
      /\ pushed' = pushed /\ buffered' = buffered /\ runs' = runs /\ phase' = phase /\ out' = out
      /\ sources' = IF Current(r) THEN sources ELSE Append(sources, <<r, c.generation>>)
      /\ sourceOf' = [sourceOf EXCEPT ![r] = [generation |-> c.generation, index |-> index]]
      /\ drawn' = Append(drawn, <<index, c.row>>)
      /\ cursors' = [cursors EXCEPT ![r] = next]
      /\ heap' = (heap \ {Least}) \cup At(r, next)
  BY DEF Draw, input
<1>2. /\ MergeIs /\ InputIs /\ RunsAre /\ AreBatches(out, T)
      /\ pushed \in Seq(Row) /\ AreRuns(runs, pushed, Len(pushed)) /\ L \in Nat /\ L = Len(pushed)
      /\ SortedOf(T, pushed) /\ T \in Seq(Row) /\ Len(T) = L
      /\ Len(out) \in Nat /\ Given(Len(out), L) \in 0 .. L /\ Len(drawn) \in Nat
  BY <1>1, MergeFacts
<1>3. /\ buffered = <<>> /\ AreCursors(cursors, runs) /\ PassedAre(cursors, runs, T, n)
      /\ heap = Heads(cursors, runs)
      /\ AreDrawn(drawn, sources, runs, T, Given(Len(out), L))
      /\ AreSources(sourceOf, sources, runs)
  BY <1>2 DEF MergeIs
<1>4. (\E e : First(e, heap)) => First(Least, heap)
  <2>1. (\E e \in heap : \A f \in heap : f = e \/ Before(e[1], f[1])) =>
          Least \in heap /\ \A f \in heap : f = Least \/ Before(Least[1], f[1])
    BY DEF Least
  <2> HIDE DEF Least
  <2> QED
    BY <2>1 DEF First
<1> HIDE DEF n
<1>5. /\ n < Len(T) /\ r \in DOMAIN runs /\ Least = <<T[n + 1], r>>
      /\ Place(runs, r, c.generation, c.row)
      /\ runs[r][c.generation][c.row] = T[n + 1]
  BY <1>1, <1>2, <1>3, <1>4, LeastIs
<1> HIDE DEF r, index
<1>6. next = Step(cursors[r], runs[r])
  <2>1. c \in [generation : Nat, row : Nat]
    BY <1>3, <1>5 DEF AreCursors
  <2>2. [c EXCEPT !.row = @ + 1] = [generation |-> c.generation, row |-> c.row + 1]
    BY <2>1
  <2> QED
    BY <2>2 DEF Advanced, AtBatchEnd, Step
<1> HIDE DEF next
<1>7. AreCursors(cursors', runs) /\ PassedAre(cursors', runs, T, n + 1) /\ HeadsMove(cursors', cursors, runs, r, T[n + 1])
  <2>1. Moves(cursors', cursors, runs, r)
    BY <1>1, <1>6 DEF Moves
  <2> HIDE DEF c
  <2>2. /\ n < Len(T) /\ r \in DOMAIN runs /\ Place(runs, r, cursors[r].generation, cursors[r].row)
        /\ runs[r][cursors[r].generation][cursors[r].row] = T[n + 1]
    BY <1>5 DEF c
  <2> QED
    BY ONLY <1>2, <1>3, <2>1, <2>2, AdvanceKeeps
<1>8. heap' = Heads(cursors', runs)
  <2>1. At(r, next) = HeadOf(runs, r, Step(cursors[r], runs[r]))
    BY <1>6 DEF At, HeadOf
  <2> QED
    BY <1>1, <1>3, <1>5, <1>7, <2>1 DEF HeadsMove
<1>9. /\ AreDrawn(drawn', sources', runs, T, Given(Len(out), L))
      /\ AreSources(sourceOf', sources', runs)
  <2>1. Draws(drawn', sources', sourceOf', drawn, sources, sourceOf, r, c.generation, c.row)
    <3>1. Current(r) <=> (sourceOf[r].index # 0 /\ sourceOf[r].generation = c.generation)
      BY DEF Current
    <3>2. index = IF sourceOf[r].index # 0 /\ sourceOf[r].generation = c.generation
                  THEN sourceOf[r].index ELSE Len(sources) + 1
      BY <3>1 DEF index
    <3>3. sources' = IF sourceOf[r].index # 0 /\ sourceOf[r].generation = c.generation
                     THEN sources ELSE Append(sources, <<r, c.generation>>)
      BY <1>1, <3>1
    <3> HIDE DEF c
    <3>4. /\ drawn' = Append(drawn, <<index, c.row>>)
          /\ sourceOf' = [sourceOf EXCEPT ![r] = [generation |-> c.generation, index |-> index]]
      BY <1>1 DEF index, c
    <3> QED
      BY ONLY <3>2, <3>3, <3>4 DEF Draws
  <2>2. /\ runs[r][c.generation][c.row] = T[Given(Len(out), L) + Len(drawn) + 1]
        /\ r \in DOMAIN runs /\ Place(runs, r, c.generation, c.row)
    BY <1>5 DEF n
  <2>3. /\ AreRuns(runs, pushed, Len(pushed)) /\ Given(Len(out), L) \in Nat
        /\ AreDrawn(drawn, sources, runs, T, Given(Len(out), L)) /\ AreSources(sourceOf, sources, runs)
    BY <1>2, <1>3
  <2> HIDE DEF c
  <2> QED
    BY ONLY <2>1, <2>2, <2>3, DrawnGrows
<1>10. Given(Len(out'), L') + Len(drawn') = n + 1
  <2>1. Len(drawn') = Len(drawn) + 1
    <3>1. drawn \in Seq(Nat \X Nat) /\ drawn' \in Seq(Nat \X Nat)
      BY <1>3, <1>9 DEF AreDrawn
    <3> QED
      BY <1>1, <3>1
  <2>2. L' = L
    BY <1>1 DEF L
  <2> QED
    BY <1>1, <1>2, <2>1, <2>2 DEF n
<1>11. InputIs' /\ RunsAre' /\ T' = T /\ L' = L
  BY <1>1, <1>2 DEF InputIs, RunsAre, L, T
<1>13. Len(drawn') <= BatchSize
  <2>1. drawn \in Seq(Nat \X Nat) /\ drawn' \in Seq(Nat \X Nat)
    BY <1>3, <1>9 DEF AreDrawn
  <2>2. Len(drawn') = Len(drawn) + 1
    BY <1>1, <2>1
  <2>3. Len(drawn) < BatchSize
    BY DEF Draw
  <2> QED
    BY ONLY <1>2, <2>2, <2>3, BatchSize \in Nat \ {0}
<1>12. MergeIs'
  BY <1>1, <1>13, <1>3, <1>7, <1>8, <1>9, <1>10, <1>11 DEF MergeIs
<1> QED
  BY <1>1, <1>2, <1>11, <1>12 DEF IInv

\* The rows drawn are the next of the sorted ones: they become a batch when
\* there are enough of them, or no more.
LEMMA YieldKeeps ==
  ASSUME BatchSize \in Nat \ {0}, IInv, Yield
  PROVE  IInv'
<1> DEFINE K == Len(drawn)
           given == Given(Len(out), L)
           n == given + K
<1>1. /\ phase = "merge" /\ drawn # <<>> /\ (Len(drawn) = BatchSize \/ heap = {})
      /\ out' = Append(out, Interleaved)
      /\ sources' = <<>> /\ drawn' = <<>> /\ sourceOf' = [r \in DOMAIN runs |-> NoSource]
      /\ phase' = phase /\ pushed' = pushed /\ buffered' = buffered /\ runs' = runs
      /\ cursors' = cursors /\ heap' = heap
  BY DEF Yield, input
<1>2. /\ MergeIs /\ InputIs /\ RunsAre /\ AreBatches(out, T)
      /\ pushed \in Seq(Row) /\ AreRuns(runs, pushed, Len(pushed)) /\ L \in Nat /\ L = Len(pushed)
      /\ SortedOf(T, pushed) /\ T \in Seq(Row) /\ Len(T) = L
      /\ Len(out) \in Nat /\ given \in 0 .. L /\ K \in Nat
  BY <1>1, MergeFacts
<1>3. /\ buffered = <<>> /\ AreCursors(cursors, runs) /\ PassedAre(cursors, runs, T, n)
      /\ heap = Heads(cursors, runs)
      /\ AreDrawn(drawn, sources, runs, T, given)
      /\ AreSources(sourceOf, sources, runs)
  BY <1>2 DEF MergeIs
<1>4. K # 0 /\ K <= BatchSize /\ n <= L /\ drawn \in Seq(Nat \X Nat)
  <2>1. drawn \in Seq(Nat \X Nat)
    BY <1>3 DEF AreDrawn
  <2>2. K # 0
    BY <1>1, <2>1, EmptySeq
  <2>3. n \in 0 .. L
    BY <1>2, <1>3 DEF PassedAre
  <2> HIDE DEF n
  <2>4. K <= BatchSize
    BY <1>2 DEF MergeIs
  <2> QED
    BY <1>2, <2>1, <2>2, <2>3, <2>4
<1>5. given < L
  <2> HIDE DEF given, K
  <2> QED
    BY <1>2, <1>4 DEF n
<1> DEFINE p == Len(out) * BatchSize
<1>6. /\ p < L /\ given = p /\ p \in Nat
      /\ (Len(out) + 1) * BatchSize = p + BatchSize
  BY <1>2, <1>5, GivenIs
<1>7. K = BatchSize \/ n = L
  <2> SUFFICES ASSUME heap = {} PROVE n = L
    BY <1>1
  <2>1. ~ (n < Len(T))
    <3> SUFFICES ASSUME n < Len(T) PROVE FALSE
      OBVIOUS
    <3> HIDE DEF n
    <3>1. PICK r \in DOMAIN runs : cursors[r].generation \in DOMAIN runs[r]
      BY <1>2, <1>3, NextIsAHead
    <3>2. <<runs[r][cursors[r].generation][cursors[r].row], r>> \in Heads(cursors, runs)
      BY <3>1 DEF Heads
    <3> QED
      BY <1>3, <3>2
  <2>2. n \in Int
    BY <1>2
  <2> HIDE DEF n
  <2> QED
    BY <1>2, <1>4, <2>1, <2>2
<1> HIDE DEF given, K, p
<1>8. n = p + K
  BY <1>6
<1>18. (IF p + BatchSize <= L THEN p + BatchSize ELSE L) = p + K
  <2>1. p \in Nat /\ K \in Nat /\ L \in Nat /\ BatchSize \in Nat /\ K <= BatchSize
    BY <1>2, <1>4, <1>6
  <2>2. p + K <= L /\ (K = BatchSize \/ p + K = L)
    BY <1>4, <1>7, <1>8
  <2> QED
    BY ONLY <2>1, <2>2
<1>9. Min({p + BatchSize, L}) = p + K
  <2>1. p + BatchSize \in Int /\ L \in Int
    BY <1>2, <1>6
  <2>2. Min({p + BatchSize, L}) = IF p + BatchSize <= L THEN p + BatchSize ELSE L
    BY <2>1, MinOfTwo
  <2> QED
    BY <1>18, <2>2
<1> DEFINE batch == SubSeq(T, p + 1, p + K)
<1>10. batch \in Seq(Row) /\ Len(batch) = K /\ \A k \in 1 .. K : batch[k] = T[p + k]
  <2>1. p + K <= Len(T) /\ p \in Nat /\ K \in Nat /\ T \in Seq(Row)
    <3> HIDE DEF n
    <3> QED
      BY <1>2, <1>4, <1>6, <1>8
  <2> HIDE DEF batch
  <2>2. \A a, k \in Nat : a + k <= Len(T) =>
          /\ SubSeq(T, a + 1, a + k) \in Seq(Row) /\ Len(SubSeq(T, a + 1, a + k)) = k
          /\ \A i \in 1 .. k : SubSeq(T, a + 1, a + k)[i] = T[a + i]
    BY ONLY <2>1
  <2> QED
    BY ONLY <2>1, <2>2 DEF batch
<1>11. Interleaved = batch
  <2>1. DOMAIN drawn = 1 .. K
    BY <1>4 DEF K
  <2>2. ASSUME NEW k \in 1 .. K
        PROVE  (LET s == sources[drawn[k][1]] IN runs[s[1]][s[2]][drawn[k][2]]) = batch[k]
    <3>1. (LET s == sources[drawn[k][1]] IN runs[s[1]][s[2]][drawn[k][2]]) = T[given + k]
      BY <1>3, <2>1 DEF AreDrawn
    <3> QED
      BY <1>6, <1>10, <3>1
  <2>3. DOMAIN batch = 1 .. K
    BY <1>10
  <2>4. batch = [k \in 1 .. K |-> batch[k]]
    <3> HIDE DEF batch
    <3>1. batch \in Seq(Row)
      BY <1>10
    <3>3. batch \in [1 .. Len(batch) -> Row]
      BY ONLY <3>1
    <3>2. batch \in [1 .. K -> Row]
      BY <1>10, <3>3
    <3> QED
      BY ONLY <3>2
  <2>5. Interleaved = [k \in 1 .. K |-> LET s == sources[drawn[k][1]] IN runs[s[1]][s[2]][drawn[k][2]]]
    BY <2>1 DEF Interleaved
  <2> HIDE DEF batch
  <2> QED
    BY <2>2, <2>4, <2>5
<1>12. AreBatches(out', T)
  <2>1. batch = SubSeq(T, Len(out) * BatchSize + 1, Min({Len(out) * BatchSize + BatchSize, Len(T)}))
    BY <1>2, <1>9 DEF p
  <2>2. Len(out) * BatchSize < Len(T)
    BY <1>2, <1>6 DEF p
  <2> HIDE DEF batch
  <2> QED
    BY <1>1, <1>2, <1>11, <2>1, <2>2, BatchesGrow
<1>13. Given(Len(out'), L') + Len(drawn') = n /\ Given(Len(out'), L') = n
  <2>1. Len(out') = Len(out) + 1
    <3>1. out \in Seq(Seq(Row)) /\ out' \in Seq(Seq(Row))
      BY <1>2, <1>12 DEF AreBatches
    <3> QED
      BY <1>1, <3>1
  <2>2. L' = L /\ Len(drawn') = 0
    BY <1>1 DEF L
  <2>3. Given(Len(out) + 1, L) = IF p + BatchSize <= L THEN p + BatchSize ELSE L
    BY <1>6 DEF Given
  <2>4. n + 0 = n
    BY <1>2, <1>6, <1>8
  <2> HIDE DEF n
  <2> QED
    BY <1>8, <1>18, <2>1, <2>2, <2>3, <2>4
<1>14. InputIs' /\ RunsAre' /\ T' = T
  BY <1>1, <1>2 DEF InputIs, RunsAre, L, T
<1>15. AreDrawn(drawn', sources', runs', T', Given(Len(out'), L'))
  BY <1>1 DEF AreDrawn
<1>16. AreSources(sourceOf', sources', runs')
  <2>1. \A r \in DOMAIN runs' : sourceOf'[r] = [generation |-> 0, index |-> 0]
    BY <1>1 DEF NoSource
  <2>2. sourceOf' \in [DOMAIN runs' -> [generation : Nat, index : Nat]]
    BY <1>1 DEF NoSource
  <2> QED
    BY <1>1, <2>1, <2>2 DEF AreSources
<1>19. Len(drawn') <= BatchSize
  BY <1>1
<1>17. MergeIs'
  BY <1>1, <1>19, <1>3, <1>13, <1>14, <1>15, <1>16 DEF MergeIs
<1> QED
  BY <1>1, <1>12, <1>14, <1>17 DEF IInv

\* The parts of a division.
LEMMA Quotient ==
  ASSUME NEW a \in Nat, NEW b \in Nat \ {0}
  PROVE  a \div b \in Nat /\ (a \div b) * b <= a /\ a < (a \div b + 1) * b
OBVIOUS

LEMMA FunctionIsSequence ==
  ASSUME NEW S, NEW q \in Nat, NEW f \in [1 .. q -> S]
  PROVE  f \in Seq(S) /\ Len(f) = q
OBVIOUS

LEMMA BeginningIs ==
  ASSUME NEW S, NEW f \in Seq(S), NEW g \in Seq(S), Len(g) <= Len(f), \A b \in 1 .. Len(g) : g[b] = f[b]
  PROVE  g = SubSeq(f, 1, Len(g))
OBVIOUS

\* What is yielded is a beginning of the reference, and in the end all of it.
LEMMA InvariantGives ==
  ASSUME BatchSize \in Nat \ {0}, IInv
  PROVE  YieldsReference /\ YieldsEverything
<1> DEFINE q == (L + BatchSize - 1) \div BatchSize
           n == Len(out)
           full == [b \in 1 .. q |-> SubSeq(T, (b - 1) * BatchSize + 1, Min({b * BatchSize, L}))]
<1>1. L \in Nat /\ pushed \in Seq(Row) /\ L = Len(pushed) /\ Len(T) = L /\ AreBatches(out, T)
  <2>1. Numbered(pushed) /\ AreBatches(out, T)
    BY DEF IInv, InputIs
  <2>2. pushed \in Seq(Row) /\ L \in Nat /\ L = Len(pushed)
    BY <2>1 DEF Numbered, L
  <2>3. Len(T) = L
    BY <2>1, <2>2, SortedOfIs DEF SortedOf, T
  <2> QED
    BY <2>1, <2>2, <2>3
<1>2. Reference = full
  BY <1>1 DEF Reference, T
<1>3. n \in Nat /\ DOMAIN out = 1 .. n
  BY <1>1 DEF AreBatches
<1>4. q \in Nat /\ q * BatchSize <= L + BatchSize - 1 /\ L + BatchSize - 1 < (q + 1) * BatchSize
  <2>1. L + BatchSize - 1 \in Nat
    BY <1>1
  <2> QED
    BY <2>1, Quotient
<1> HIDE DEF q
<1> DEFINE S == {full[b] : b \in 1 .. q}
<1>5. full \in Seq(S) /\ Len(full) = q /\ \A b \in 1 .. q : full[b] = SubSeq(T, (b - 1) * BatchSize + 1, Min({b * BatchSize, L}))
  <2>1. DOMAIN full = 1 .. q /\ full = [b \in 1 .. q |-> full[b]]
    OBVIOUS
  <2>2. \A b \in 1 .. q : full[b] = SubSeq(T, (b - 1) * BatchSize + 1, Min({b * BatchSize, L}))
    OBVIOUS
  <2> HIDE DEF full
  <2>3. full \in [1 .. q -> S]
    BY <2>1
  <2> HIDE DEF S
  <2>4. full \in Seq(S) /\ Len(full) = q
    BY ONLY <1>4, <2>3, FunctionIsSequence
  <2> QED
    BY <2>2, <2>4
<1>6. n <= q
  <2> SUFFICES ASSUME q < n PROVE FALSE
    BY <1>3, <1>4
  <2>1. (n - 1) * BatchSize < L
    <3>1. n \in DOMAIN out
      BY <1>3, <1>4
    <3> QED
      BY <1>1, <3>1 DEF AreBatches
  <2> DEFINE d == n - 1 - q
  <2>2. d \in Nat /\ n - 1 = q + d
    BY <1>3, <1>4
  <2> HIDE DEF d
  <2>3. (n - 1) * BatchSize = q * BatchSize + d * BatchSize /\ d * BatchSize \in Nat
    BY <1>4, <2>2
  <2>4. (q + 1) * BatchSize = q * BatchSize + BatchSize /\ q * BatchSize \in Nat
    BY <1>4
  <2> DEFINE x == q * BatchSize
             y == d * BatchSize
  <2>5. x \in Nat /\ y \in Nat /\ x + y < L /\ L + BatchSize - 1 < x + BatchSize
    BY <1>4, <2>1, <2>3, <2>4
  <2> HIDE DEF x, y
  <2> QED
    BY ONLY <1>1, <2>5, BatchSize \in Nat \ {0}
<1> HIDE DEF full, n
<1>7. \A b \in 1 .. n : out[b] = full[b]
  <2> SUFFICES ASSUME NEW b \in 1 .. n PROVE out[b] = full[b]
    OBVIOUS
  <2>1. b \in 1 .. q
    BY <1>3, <1>4, <1>6
  <2> QED
    BY <1>1, <1>3, <1>5, <2>1 DEF AreBatches
<1>8. out = SubSeq(full, 1, n)
  <2>1. out \in Seq(Seq(Row))
    BY <1>1 DEF AreBatches
  <2>2. out \in [1 .. n -> Seq(Row)]
    BY <1>3, <2>1
  <2>3. \A b \in 1 .. n : out[b] \in S
    <3>1. \A b \in 1 .. n : b \in 1 .. q
      BY <1>3, <1>4, <1>6
    <3> QED
      BY <1>7, <3>1
  <2> HIDE DEF S
  <2>4. out \in [1 .. n -> S]
    BY ONLY <2>2, <2>3
  <2>5. out \in Seq(S) /\ Len(out) = n
    BY ONLY <1>3, <2>4, FunctionIsSequence
  <2>6. out = SubSeq(full, 1, Len(out))
    BY ONLY <1>5, <1>6, <1>7, <2>5, BeginningIs
  <2> QED
    BY <2>5, <2>6
<1>9. YieldsReference
  BY <1>2, <1>5, <1>6, <1>8 DEF YieldsReference, n
<1>10. YieldsEverything
  <2> SUFFICES ASSUME phase = "done" PROVE n = q
    BY <1>2, <1>5 DEF YieldsEverything, n
  <2>1. L <= n * BatchSize
    BY DEF IInv, n
  <2> SUFFICES ASSUME n < q PROVE FALSE
    BY <1>3, <1>4, <1>6
  <2> DEFINE d == q - (n + 1)
  <2>2. d \in Nat /\ q = n + 1 + d
    BY <1>3, <1>4
  <2> HIDE DEF d
  <2>3. q * BatchSize = n * BatchSize + BatchSize + d * BatchSize /\ d * BatchSize \in Nat /\ n * BatchSize \in Nat
    BY <1>3, <2>2
  <2> DEFINE x == n * BatchSize
             y == d * BatchSize
  <2>4. x \in Nat /\ y \in Nat /\ L <= x /\ x + BatchSize + y <= L + BatchSize - 1
    BY <1>4, <2>1, <2>3
  <2> HIDE DEF x, y
  <2> QED
    BY ONLY <1>1, <2>4, BatchSize \in Nat \ {0}
<1> QED
  BY <1>9, <1>10
-----------------------------------------------------------------------------
(* Together: a sort starts in the invariant, and each of its steps keeps it. *)

\* Before anything is pushed there is nothing to sort.
LEMMA InitHolds ==
  ASSUME Init
  PROVE  IInv
<1>1. /\ phase = "push" /\ pushed = <<>> /\ buffered = <<>> /\ runs = <<>> /\ out = <<>>
      /\ drawn = <<>> /\ sources = <<>>
  BY DEF Init
<1>2. InputIs
  BY <1>1 DEF InputIs, Numbered, EndOf
<1>3. RunsAre
  BY <1>1 DEF RunsAre, AreRuns, Place, L
<1>4. AreBatches(out, T)
  BY <1>1 DEF AreBatches
<1> QED
  BY <1>1, <1>2, <1>3, <1>4 DEF IInv

\* A step of the sorter's own work.
LEMMA WorkKeeps ==
  ASSUME BatchSize \in Nat \ {0}, IInv, Work
  PROVE  IInv'
<1>1. CASE FinishInMemory
  BY <1>1, InMemoryKeeps
<1>2. CASE FinishMerge
  BY <1>2, FinishMergeKeeps
<1>3. CASE NextFromMemory
  BY <1>3, MemoryKeeps
<1>4. CASE Draw
  BY <1>4, DrawKeeps
<1>5. CASE Yield
  BY <1>5, YieldKeeps
<1>6. CASE EndMerge
  BY <1>6, EndKeeps
<1> QED
  BY <1>1, <1>2, <1>3, <1>4, <1>5, <1>6 DEF Work

\* Nothing happens to the sorter.
LEMMA StutterKeeps ==
  ASSUME IInv, UNCHANGED vars
  PROVE  IInv'
BY DEF IInv, vars, InputIs, RunsAre, L, T, MergeIs, input, merge

\* What is in a part of a sequence is in the sequence.
LEMMA PartIs ==
  ASSUME NEW S, NEW s \in Seq(S), NEW low \in Nat, NEW high \in Nat, high <= Len(s),
         NEW part, part = SubSeq(s, low + 1, high), NEW k \in DOMAIN part
  PROVE  \E n \in 1 .. Len(s) : part[k] = s[n]
<1>1. Len(part) = IF low + 1 <= high THEN high - low ELSE 0
  OBVIOUS
<1>2. part \in Seq(S)
  OBVIOUS
<1>3. k \in 1 .. Len(part)
  BY <1>2
<1>4. low + 1 <= high /\ k \in Nat /\ 1 <= k /\ k <= high - low
  BY <1>1, <1>3
<1>5. low + k \in 1 .. Len(s) /\ part[k] = s[low + k]
  BY <1>4
<1> QED
  BY <1>5

\* A row that was yielded is one that was pushed, and says which.
LEMMA YieldedArePushed ==
  ASSUME BatchSize \in Nat \ {0}, IInv, NEW b \in DOMAIN out, NEW k \in DOMAIN out[b]
  PROVE  out[b] \in Seq(Row) /\ out[b][k][2] \in 1 .. Len(pushed)
<1>1. Numbered(pushed) /\ AreBatches(out, T)
  BY DEF IInv, InputIs
<1>2. SortedOf(T, pushed)
  BY <1>1, SortedOfIs DEF T
<1>3. /\ T \in Seq(Row) /\ Len(T) = Len(pushed)
      /\ \A n \in 1 .. Len(pushed) : \E i \in 1 .. Len(pushed) : T[n] = pushed[i]
  BY <1>2 DEF SortedOf
<1>4. pushed \in Seq(Row) /\ \A i \in DOMAIN pushed : pushed[i][2] = i
  BY <1>1 DEF Numbered
<1>5. \A i \in 1 .. Len(pushed) : pushed[i][2] = i
  BY <1>4
<1>6. out \in Seq(Seq(Row))
  BY <1>1 DEF AreBatches
<1>7. b \in Nat \ {0} /\ out[b] \in Seq(Row)
  <2>1. b \in 1 .. Len(out)
    BY <1>6
  <2> QED
    BY <1>6, <2>1
<1> DEFINE low == (b - 1) * BatchSize
           x == b * BatchSize
           high == Min({x, Len(T)})
<1>8. low \in Nat /\ x \in Nat
  BY <1>7
<1>9. out[b] = SubSeq(T, low + 1, high)
  BY <1>1 DEF AreBatches
<1>10. high \in Nat /\ high <= Len(T)
  <2> HIDE DEF x
  <2>1. Len(T) \in Nat
    BY <1>3
  <2>2. high = IF x <= Len(T) THEN x ELSE Len(T)
    BY <1>8, <2>1, MinOfTwo
  <2> HIDE DEF high
  <2> QED
    BY <1>8, <2>1, <2>2
<1> HIDE DEF low, high, x
<1>11. \E n \in 1 .. Len(T) : out[b][k] = T[n]
  <2>1. T \in Seq(Row)
    BY <1>3
  <2> DEFINE part == out[b]
  <2>2. k \in DOMAIN part /\ part = SubSeq(T, low + 1, high)
    BY <1>9
  <2> HIDE DEF part
  <2>3. \E n \in 1 .. Len(T) : part[k] = T[n]
    BY ONLY <1>8, <1>10, <2>1, <2>2, PartIs
  <2> QED
    BY <2>3 DEF part
<1>12. PICK n \in 1 .. Len(pushed) : out[b][k] = T[n]
  BY <1>3, <1>11
<1>13. PICK i \in 1 .. Len(pushed) : out[b][k] = pushed[i]
  BY <1>3, <1>12
<1> QED
  BY <1>5, <1>7, <1>13

\* A place of a sequence is in the part that ends at or after it.
LEMMA PartHas ==
  ASSUME NEW S, NEW s \in Seq(S), NEW low \in Nat, NEW high \in Nat, high <= Len(s),
         NEW part, part = SubSeq(s, low + 1, high), NEW n \in Nat, low < n, n <= high
  PROVE  n - low \in DOMAIN part /\ part[n - low] = s[n]
<1>1. Len(part) = high - low /\ part \in Seq(S)
  OBVIOUS
<1>2. n - low \in 1 .. Len(part)
  BY <1>1
<1>3. part[n - low] = s[low + (n - low)]
  BY <1>1, <1>2
<1>4. n = low + (n - low)
  OBVIOUS
<1> QED
  BY <1>1, <1>2, <1>3, <1>4

\* A sort that is done has yielded every row.
LEMMA PushedAreYielded ==
  ASSUME BatchSize \in Nat \ {0}, IInv, phase = "done", NEW i \in 1 .. Len(pushed)
  PROVE  \E b \in DOMAIN out : \E k \in DOMAIN out[b] : out[b][k][2] = i
<1>1. Numbered(pushed) /\ AreBatches(out, T) /\ L <= Len(out) * BatchSize
  BY DEF IInv, InputIs
<1>2. SortedOf(T, pushed)
  BY <1>1, SortedOfIs DEF T
<1>3. T \in Seq(Row) /\ Len(T) = Len(pushed) /\ L = Len(pushed) /\ L \in Nat
  BY <1>1, <1>2 DEF SortedOf, L, Numbered
<1>4. PICK n \in 1 .. L : T[n] = pushed[i]
  BY <1>2, <1>3 DEF SortedOf
<1>5. T[n][2] = i
  <2>1. i \in DOMAIN pushed
    BY <1>1 DEF Numbered
  <2> QED
    BY <1>1, <1>4, <2>1 DEF Numbered
<1>6. out \in Seq(Seq(Row)) /\ DOMAIN out = 1 .. Len(out) /\ Len(out) \in Nat
  BY <1>1 DEF AreBatches
<1> DEFINE d == (n - 1) \div BatchSize
           b == d + 1
<1>7. d \in Nat /\ d * BatchSize <= n - 1 /\ n - 1 < (d + 1) * BatchSize
  <2>1. n - 1 \in Nat
    BY <1>3
  <2> QED
    BY <2>1, Quotient
<1> HIDE DEF d
<1>8. b \in DOMAIN out
  <2> SUFFICES ASSUME Len(out) <= d PROVE FALSE
    BY <1>6, <1>7
  <2> DEFINE e == d - Len(out)
             m == Len(out)
  <2>1. e \in Nat /\ d = m + e /\ m \in Nat
    BY <1>6, <1>7
  <2> HIDE DEF e, m
  <2>2. d * BatchSize = m * BatchSize + e * BatchSize /\ e * BatchSize \in Nat /\ m * BatchSize \in Nat
    BY <2>1
  <2>3. L <= m * BatchSize
    BY <1>1 DEF m
  <2> DEFINE x == m * BatchSize
             y == e * BatchSize
  <2>4. x \in Nat /\ y \in Nat /\ x + y <= n - 1 /\ L <= x
    BY <1>7, <2>2, <2>3
  <2> HIDE DEF x, y
  <2> QED
    BY <1>3, <2>4
<1> DEFINE low == d * BatchSize
           high == Min({b * BatchSize, Len(T)})
<1>9. (b - 1) * BatchSize = low /\ b * BatchSize = low + BatchSize /\ low \in Nat /\ low <= n - 1 /\ n - 1 < low + BatchSize
  BY <1>7
<1>10. out[b] = SubSeq(T, low + 1, high)
  BY <1>1, <1>8, <1>9 DEF AreBatches
<1>11. high \in Nat /\ high <= Len(T) /\ n <= high
  <2> DEFINE x == b * BatchSize
  <2>1. x \in Nat /\ Len(T) \in Nat /\ n <= x /\ n <= Len(T)
    <3>1. x = low + BatchSize
      BY <1>9
    <3> HIDE DEF x, low
    <3> QED
      BY <1>3, <1>9, <3>1
  <2> HIDE DEF x
  <2>2. high = IF x <= Len(T) THEN x ELSE Len(T)
    BY <2>1, MinOfTwo DEF x
  <2> HIDE DEF high
  <2> QED
    BY <2>1, <2>2
<1> HIDE DEF low, high
<1> DEFINE part == out[b]
<1>12. part = SubSeq(T, low + 1, high)
  BY <1>10
<1>13. low < n /\ n \in Nat
  BY <1>9
<1> HIDE DEF part
<1>14. n - low \in DOMAIN part /\ part[n - low] = T[n]
  BY ONLY <1>3, <1>9, <1>11, <1>12, <1>13, PartHas
<1> QED
  BY <1>5, <1>8, <1>14 DEF part
=============================================================================
