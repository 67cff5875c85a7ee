---------------------------- MODULE LakeCatalog ----------------------------
(***************************************************************************)
(* What the lake promises about its datasets, as the next operation sees   *)
(* them: each operation changes the catalog once and as a whole, or not at *)
(* all.  The one exception is a create that is cut short after its ingest  *)
(* was committed, which may leave its dataset unfinished.                  *)
(* CityLakeService implements this module.                                 *)
(***************************************************************************)
EXTENDS Integers

CONSTANTS
  Datasets,   \* the names a dataset may have
  Absent,     \* the state of a name no schema has
  Objects,    \* the ids of city objects
  Buildings,  \* those the building table holds
  Parts,      \* Parts[o]: the objects a delete of o cascades to
  Sources,    \* the files and package directories that can be loaded
  Holds,      \* Holds[s]: the objects in s
  CrsOf,      \* CrsOf[s]: the reference system s declares
  Existing,   \* the sources whose datasets a lake may hold at the start
  NoCrs       \* the declaration of a source that declares none

VARIABLE lake \* lake[d]: what the lake holds under the name d

\* The building table: not there, made and never filled, filled at least once.
Table == {"none", "empty", "filled"}

Contents == [rows : SUBSET Objects, edited : SUBSET Objects,
             crs : {CrsOf[s] : s \in Sources} \cup {NoCrs}, building : Table]

TableFor(rows, before) == IF rows \cap Buildings # {} THEN "filled" ELSE before

Whole(s) == [rows |-> Holds[s], edited |-> {}, crs |-> CrsOf[s],
             building |-> TableFor(Holds[s], "none")]

\* What comes in must state the reference system the dataset states: the guard
\* is silent on a dataset that states none.
Agree(have, crs) == have = NoCrs \/ have = crs

\* What each operation makes of the catalog v.
Created(v, d, s) == [v EXCEPT ![d] = Whole(s)]
Dropped(v, d) == [v EXCEPT ![d] = Absent]
Filled(v, d, rows, edited) ==
  [v EXCEPT ![d].rows = @ \cup rows, ![d].edited = @ \cup edited,
            ![d].building = TableFor(rows, @)]
Ingested(v, d, s) == Filled(v, d, Holds[s], {})
Merged(v, d, e) == Filled(v, d, v[e].rows, v[e].edited)
Updated(v, d, o) == [v EXCEPT ![d].edited = @ \cup {o}]
Deleted(v, d, picked) ==
  LET found == picked \cap v[d].rows
      gone == found \cup UNION {Parts[o] : o \in found}
  IN [v EXCEPT ![d].rows = @ \ gone, ![d].edited = @ \ gone]

Create(d, s) == lake[d] = Absent /\ lake' = Created(lake, d, s)

\* The unfinished dataset has the rows; its footer or its seed table may be wrong.
CutShort(d, s) ==
  /\ lake[d] = Absent
  /\ \E crs \in {NoCrs, CrsOf[s]}, t \in {"none", "empty"} :
       lake' = [lake EXCEPT ![d] = [Whole(s) EXCEPT !.crs = crs,
                                                   !.building = TableFor(Holds[s], t)]]

Drop(d) == lake[d] # Absent /\ lake' = Dropped(lake, d)

Ingest(d, s) ==
  /\ lake[d] # Absent
  /\ lake[d].rows \cap Holds[s] = {}
  /\ Agree(lake[d].crs, CrsOf[s])
  /\ lake' = Ingested(lake, d, s)

Merge(d, e) ==
  /\ lake[d] # Absent /\ lake[e] # Absent
  /\ lake[d].rows \cap lake[e].rows = {}
  /\ Agree(lake[d].crs, lake[e].crs)
  /\ lake' = Merged(lake, d, e)

Update(d, o) ==
  /\ lake[d] # Absent
  /\ o \in lake[d].rows
  /\ lake' = Updated(lake, d, o)

Delete(d, picked) == lake[d] # Absent /\ lake' = Deleted(lake, d, picked)

Init == lake \in [Datasets -> {Whole(s) : s \in Existing} \cup {Absent}]

\* An operation that leaves its dataset as it was is no step.
Next ==
  \E d \in Datasets :
    /\ lake'[d] # lake[d]
    /\ \/ \E s \in Sources : Create(d, s) \/ CutShort(d, s) \/ Ingest(d, s)
       \/ \E e \in Datasets : Merge(d, e)
       \/ \E o \in Objects : Update(d, o)
       \/ \E picked \in SUBSET Objects : Delete(d, picked)
       \/ Drop(d)

Spec == Init /\ [][Next]_lake
=============================================================================
