-------------------------------- MODULE Order --------------------------------
(***************************************************************************)
(* Sorting: the rows of a package are put in order by their keys           *)
(* (lib/cityparquet-rs/crates/core/src: sort.rs, order.rs, package.rs).    *)
(***************************************************************************)
EXTENDS Integers, FiniteSets

\* The members of a finite set in a strict total order of them: the n-th has
\* n - 1 before it.
Ranked(S, Lt(_, _)) ==
  [n \in 1 .. Cardinality(S) |-> CHOOSE x \in S : Cardinality({y \in S : Lt(y, x)}) = n - 1]

\* Pairs are ordered by the first, then by the second of their numbers.
Before(r, s) == r[1] < s[1] \/ (r[1] = s[1] /\ r[2] < s[2])
=============================================================================
