--------------------------- MODULE CityLakeProofs ---------------------------
(***************************************************************************)
(* Proofs about CityLakeService, for any requests, datasets, objects and   *)
(* sources: no statement runs in another call's session, the derived state *)
(* and the CRS guard of a dataset are there for whoever can address it,    *)
(* answers say what happened, and the lake changes as LakeCatalog says.    *)
(***************************************************************************)
EXTENDS CityLakeService, SequenceTheorems, TLAPS

-----------------------------------------------------------------------------
(* Where a script is.                                                       *)

\* The statement at at, and the place after the last.
StepAt(kind, at) == IF at > Len(Script[kind]) THEN "end" ELSE Script[kind][at]
EndOf(kind) == Len(Script[kind]) + 1

\* The scopes a call can be in.
Free == <<>>
InTxn == <<"txn">>
InPath == <<"path">>
InBoth == <<"path", "txn">>
InBuilt == <<"built">>
InBuiltTxn == <<"txn", "built">>
InProbe == <<"probe", "built">>
Unbuilt == {Free, InTxn, InPath, InBoth}
Stacks == Unbuilt \cup {InBuilt, InBuiltTxn, InProbe}
Transactions == {InTxn, InBoth, InBuiltTxn}

\* Those before each statement of a script, unless an earlier one failed.
ScopesAt(kind, at) ==
  CASE kind = "create" ->
         (CASE at \in {1, 2, 21, 22} -> Free
            [] at \in {3, 4, 5, 9} -> InTxn
            [] at \in {6, 7, 8} -> InBoth
            [] at \in {10, 11, 15, 16, 19, 20} -> InBuilt
            [] at \in {12, 13, 14} -> InBuiltTxn
            [] OTHER -> InProbe)
    [] kind = "import" ->
         (CASE at \in {3, 6} -> InTxn [] at \in {4, 5} -> InBoth [] OTHER -> Free)
    [] kind \in {"ingest", "delete"} ->
         (CASE at \in {4, 7} -> InTxn [] at \in {5, 6} -> InBoth [] OTHER -> Free)
    [] kind = "update" ->
         (CASE at \in {4, 5, 8} -> InTxn [] at \in {6, 7} -> InBoth [] OTHER -> Free)
    [] kind \in {"reconcile", "merge"} ->
         (CASE at \in {3, 6} -> InTxn [] at \in {4, 5} -> InBoth [] OTHER -> Free)
    [] kind = "vacuum" ->
         (CASE at \in {3, 7} -> InTxn [] at \in {4, 5, 6} -> InBoth [] OTHER -> Free)
    [] kind = "write" -> (IF at \in {4, 5} THEN InPath ELSE Free)
    [] kind = "validate" -> (IF at \in {3, 4} THEN InPath ELSE Free)
    [] OTHER -> Free
-----------------------------------------------------------------------------
(* What it has done.                                                        *)

\* What the lake holds under a name.
Held == Schema \cup {Absent}

\* The schema c, field by field.
Is(c, rows, edited, fresh, crs, declared, building) ==
  /\ c \in Schema
  /\ c.rows = rows /\ c.edited = edited /\ c.fresh = fresh
  /\ c.crs = crs /\ c.declared = declared /\ c.building = building

\* The rows, the footer and the building table of a dataset that is being
\* created from s, before the statement at at.
RowsAt(s, at) == IF at =< 7 THEN {} ELSE Holds[s]
CrsAt(s, at) == IF at =< 19 THEN NoCrs ELSE CrsOf[s]
SeedAt(s, at) ==
  CASE at = 4 -> "none"
    [] at \in {5, 6} -> "bare"
    [] at \in {7, 11, 12} -> "empty"
    [] at \in {8, 9, 10} -> TableFor(Holds[s], "empty")
    [] at = 13 -> "dangling"
    [] at = 14 -> "none"
    [] OTHER -> TableFor(Holds[s], "none")

\* The schema c of that dataset.
MadeFrom(s, at, c) ==
  /\ c \in Schema
  /\ c.rows = RowsAt(s, at) /\ c.edited = {} /\ c.fresh
  /\ c.crs = CrsAt(s, at) /\ c.declared = CrsOf[s] /\ c.building = SeedAt(s, at)
  /\ at \in 11..14 => Holds[s] \cap Buildings = {}

\* The last place in a script where the dataset is still as it was.
Still(kind) ==
  CASE kind = "create" -> 3
    [] kind \in {"import", "update", "reconcile", "merge"} -> 4
    [] kind \in {"ingest", "delete"} -> 5
    [] kind = "drop" -> 2
    [] OTHER -> 22

\* The schema b with an update of o in it.
Edited(c, b, o) ==
  /\ c \in Schema
  /\ c.rows = b.rows /\ c.edited = b.edited \cup {o}
  /\ c.crs = b.crs /\ c.declared = b.declared /\ c.building = b.building

\* What the dataset has become after that, if the lake was v.
Becomes(op, at, v, c) ==
  LET b == v[op.d]
  IN /\ op.kind = "create" => MadeFrom(op.s, at, c)
     /\ op.kind = "import" =>
          Is(c, Holds[op.s], {}, TRUE, CrsOf[op.s], CrsOf[op.s], TableFor(Holds[op.s], "none"))
     /\ op.kind = "ingest" =>
          /\ b.rows \cap Holds[op.s] = {}
          /\ b.crs \in {NoCrs, CrsOf[op.s]}
          /\ Is(c, b.rows \cup Holds[op.s], b.edited, b.fresh, b.crs, b.declared,
                TableFor(Holds[op.s], b.building))
     /\ op.kind = "merge" =>
          /\ b.rows \cap v[op.e].rows = {}
          /\ b.crs \in {NoCrs, v[op.e].crs}
          /\ Is(c, b.rows \cup v[op.e].rows, b.edited \cup v[op.e].edited, b.fresh, b.crs, b.declared,
                TableFor(v[op.e].rows, b.building))
     /\ op.kind = "update" =>
          Edited(c, b, op.o) /\ (at > 6 => c.fresh)
     /\ op.kind = "delete" =>
          Is(c, b.rows \ Gone(op.picked, b), b.edited \ Gone(op.picked, b), b.fresh, b.crs, b.declared, b.building)
     /\ op.kind = "reconcile" => Is(c, b.rows, b.edited, TRUE, b.crs, b.declared, b.building)
     /\ op.kind = "drop" => c = Absent

\* An operation that found the lake to be v, and whose script is at at without
\* a failure, has made it w.
Reached(op, at, v, w) ==
  /\ \A e \in Datasets : e # op.d => w[e] = v[e]
  /\ at > 1 => IF op.kind \in {"create", "import"} THEN v[op.d] = Absent ELSE v[op.d] # Absent
  /\ at > 1 /\ op.kind = "merge" => v[op.e] # Absent
  /\ at > 2 /\ op.kind = "update" => op.o \in v[op.d].rows
  /\ IF at =< Still(op.kind) THEN w[op.d] = v[op.d] ELSE Becomes(op, at, v, w[op.d])

\* What a create commits before it is done.
Half(op, v, w) ==
  /\ op.kind = "create"
  /\ v[op.d] = Absent
  /\ \A e \in Datasets : e # op.d => w[e] = v[e]
  /\ \E crs \in {NoCrs, CrsOf[op.s]}, t \in {"none", "empty"} :
       Is(w[op.d], Holds[op.s], {}, TRUE, crs, CrsOf[op.s], TableFor(Holds[op.s], t))
-----------------------------------------------------------------------------
(* The invariant.                                                           *)

\* A call that runs.
Call == [op : Operation, at : 1..22, scopes : Stacks, failed : BOOLEAN, start : [Datasets -> Held]]

\* The types; no probe schema is in the lake.
TypeOK ==
  /\ status \in [Requests -> {"waiting", "running", "done"}]
  /\ call \in [Requests -> Call \cup {NoCall}]
  /\ \A r \in Requests : Running(r) => call[r] \in Call
  /\ poisoned \in BOOLEAN /\ txn \in BOOLEAN
  /\ lake \in [Datasets -> Held] /\ work \in [Datasets -> Held]
  /\ path \in {"memory", "lake"}
  /\ probes \subseteq {"memory"} \X Datasets
  /\ unfinished \subseteq Datasets
  /\ kills \in 0..MaxKills

\* One request at a time has the connection, which lies idle outside
\* transactions unless a panic has left it in one.
Turns ==
  /\ \A q, r \in Requests : Running(q) /\ Running(r) => q = r
  /\ \A r \in Requests : Running(r) => ~poisoned
  /\ (\A r \in Requests : ~Running(r)) /\ ~poisoned => ~txn
  /\ ~txn => work = lake

\* The session is as the scopes of the call say, and these as its place in the
\* script does.
InScope(r) ==
  LET c == call[r]
  IN /\ c.at =< EndOf(c.op.kind)
     /\ txn <=> c.scopes \in Transactions
     /\ c.scopes \in {InPath, InBoth} => path = "lake"
     /\ c.scopes \notin Unbuilt => c.op.kind = "create"
     /\ ~c.failed => c.scopes = ScopesAt(c.op.kind, c.at)
     /\ ~c.failed /\ c.op.kind = "create" /\ c.at > 8 => path = "memory"

\* Its operation is committed, and it counts or describes what it has done.
Late(r) == Now(r) \in {"recount", "describe"}

\* The lake is as the call found it until something is committed.
InHand(r) ==
  LET c == call[r]
  IN /\ ~c.failed => Reached(c.op, c.at, c.start, work)
     /\ c.scopes \notin Unbuilt => Half(c.op, c.start, lake)
     /\ c.scopes \in {InTxn, InBoth} => lake = c.start
     /\ c.failed /\ c.scopes \in Unbuilt =>
          \/ lake = c.start
          \/ Late(r) /\ Reached(c.op, c.at, c.start, lake)
          \/ c.op.kind = "create" /\ c.op.d \in unfinished

\* Only a call that runs is tied to its session and its place.
IInv == TypeOK /\ Turns /\ (\A r \in Requests : Running(r) => InScope(r) /\ InHand(r)) /\ GuardIsOn
-----------------------------------------------------------------------------
(* The constants and the stacks.                                            *)

\* The kinds of operations.
Kinds == {"create", "import", "ingest", "update", "touch", "delete", "merge",
          "vacuum", "reconcile", "drop", "write", "validate", "read"}

\* What an operation names.
LEMMA Operations ==
  ASSUME ServiceAssumption, NEW op \in Operation
  PROVE  /\ op.kind \in Kinds
         /\ op.d \in Datasets
         /\ op.kind \in {"create", "import", "ingest"} => op.s \in Sources /\ Holds[op.s] \subseteq Objects
         /\ op.kind \in {"update", "touch"} => op.o \in Objects
         /\ op.kind = "delete" => op.picked \subseteq Objects
         /\ op.kind = "merge" => op.e \in Datasets
  BY DEF ServiceAssumption, Operation, Kinds

\* Two scopes, one in the other.
LEMMA Pair ==
  ASSUME NEW x, NEW y
  PROVE  <<x>> \o <<y>> = <<x, y>>
<1> DEFINE s == <<x>> \o <<y>>
<1>1. s \in Seq({x, y}) /\ <<x, y>> \in Seq({x, y})
  OBVIOUS
<1>2. Len(s) = 2 /\ Len(<<x, y>>) = 2
  OBVIOUS
<1>3. s[1] = x /\ s[2] = y
  OBVIOUS
<1> HIDE DEF s
<1>4. \A i \in 1..Len(s) : s[i] = <<x, y>>[i]
  BY <1>2, <1>3
<1>5. s = <<x, y>>
  BY <1>1, <1>2, <1>4, SeqEqual
<1> QED
  BY <1>5 DEF s

\* Entering and leaving a scope leads from one of the stacks to another.
LEMMA StackMoves ==
  /\ Tail(InTxn) = Free /\ Tail(InPath) = Free /\ Tail(InBoth) = InTxn
  /\ Tail(InBuilt) = Free /\ Tail(InBuiltTxn) = InBuilt /\ Tail(InProbe) = InBuilt
  /\ Head(InTxn) = "txn" /\ Head(InPath) = "path" /\ Head(InBoth) = "path"
  /\ Head(InBuilt) = "built" /\ Head(InBuiltTxn) = "txn" /\ Head(InProbe) = "probe"
  /\ <<"txn">> \o Free = InTxn /\ <<"txn">> \o InBuilt = InBuiltTxn
  /\ <<"path">> \o Free = InPath /\ <<"path">> \o InTxn = InBoth
  /\ <<"probe">> \o InBuilt = InProbe
<1> USE DEF Free, InTxn, InPath, InBoth, InBuilt, InBuiltTxn, InProbe
<1>1. /\ Tail(InTxn) = Free /\ Tail(InPath) = Free /\ Tail(InBoth) = InTxn
      /\ Tail(InBuilt) = Free /\ Tail(InBuiltTxn) = InBuilt /\ Tail(InProbe) = InBuilt
  OBVIOUS
<1>2. /\ Head(InTxn) = "txn" /\ Head(InPath) = "path" /\ Head(InBoth) = "path"
      /\ Head(InBuilt) = "built" /\ Head(InBuiltTxn) = "txn" /\ Head(InProbe) = "probe"
  OBVIOUS
<1>3. /\ <<"txn">> \o Free = InTxn /\ <<"txn">> \o InBuilt = InBuiltTxn
      /\ <<"path">> \o Free = InPath /\ <<"path">> \o InTxn = InBoth
      /\ <<"probe">> \o InBuilt = InProbe
  <2>1. <<"txn">> \o <<>> = <<"txn">> /\ <<"path">> \o <<>> = <<"path">>
    OBVIOUS
  <2> QED
    BY <2>1, Pair
<1> QED
  BY <1>1, <1>2, <1>3

\* What is on the stacks, and that they differ.
LEMMA StackHolds ==
  /\ \A x \in Stacks : /\ Contains(x, "txn") <=> x \in Transactions
                       /\ Contains(x, "path") <=> x \in {InPath, InBoth}
                       /\ Contains(x, "built") <=> x \notin Unbuilt
  /\ InTxn # Free /\ InPath # Free /\ InBoth # Free /\ InBuilt # Free
  /\ InTxn # InPath /\ InTxn # InBoth /\ InPath # InBoth
  /\ InBuilt \notin Unbuilt /\ InBuiltTxn \notin Unbuilt /\ InProbe \notin Unbuilt
  /\ InBuilt # InBuiltTxn /\ InBuilt # InProbe /\ InBuiltTxn # InProbe
<1> USE DEF Free, InTxn, InPath, InBoth, InBuilt, InBuiltTxn, InProbe, Stacks, Unbuilt, Transactions, Contains
<1>1. /\ InTxn # Free /\ InPath # Free /\ InBoth # Free /\ InBuilt # Free
      /\ InTxn # InPath /\ InTxn # InBoth /\ InPath # InBoth
      /\ InBuilt \notin Unbuilt /\ InBuiltTxn \notin Unbuilt /\ InProbe \notin Unbuilt
      /\ InBuilt # InBuiltTxn /\ InBuilt # InProbe /\ InBuiltTxn # InProbe
  OBVIOUS
<1>2. ASSUME NEW x \in Stacks PROVE Contains(x, "txn") <=> x \in Transactions
  OBVIOUS
<1>3. ASSUME NEW x \in Stacks PROVE Contains(x, "path") <=> x \in {InPath, InBoth}
  OBVIOUS
<1>4. ASSUME NEW x \in Stacks PROVE Contains(x, "built") <=> x \notin Unbuilt
  OBVIOUS
<1> QED
  BY <1>1, <1>2, <1>3, <1>4

\* Which stack is of which sort.
LEMMA StackSorts ==
  /\ Free \in Unbuilt /\ InTxn \in Unbuilt /\ InPath \in Unbuilt /\ InBoth \in Unbuilt
  /\ InBuilt \notin Unbuilt /\ InBuiltTxn \notin Unbuilt /\ InProbe \notin Unbuilt
  /\ Free \in Stacks /\ InTxn \in Stacks /\ InPath \in Stacks /\ InBoth \in Stacks
  /\ InBuilt \in Stacks /\ InBuiltTxn \in Stacks /\ InProbe \in Stacks
  /\ InTxn \in Transactions /\ InBoth \in Transactions /\ InBuiltTxn \in Transactions
  /\ Free \notin Transactions /\ InPath \notin Transactions
  /\ InBuilt \notin Transactions /\ InProbe \notin Transactions
  /\ Free \notin {InPath, InBoth} /\ InTxn \notin {InPath, InBoth}
  /\ Free \notin {InTxn, InBoth} /\ InPath \notin {InTxn, InBoth}
  /\ \A x \in {InBuilt, InBuiltTxn, InProbe} : x \notin {InPath, InBoth, InTxn, Free}
  BY StackHolds DEF Stacks, Unbuilt, Transactions
-----------------------------------------------------------------------------
(* The scripts.                                                             *)

\* What each statement finds on the stack and leaves there.
Nests(kind, at) ==
  LET s == StepAt(kind, at)
      x == ScopesAt(kind, at)
      y == ScopesAt(kind, at + 1)
  IN /\ s = "begin" => (x = Free /\ y = InTxn) \/ (x = InBuilt /\ y = InBuiltTxn)
     /\ s = "commit" => \/ x = InTxn /\ y = IF kind = "create" THEN InBuilt ELSE Free
                        \/ x = InBuiltTxn /\ y = InBuilt
     /\ s = "set" => (x = Free /\ y = InPath) \/ (x = InTxn /\ y = InBoth)
     /\ s = "reset" => (x = InPath /\ y = Free) \/ (x = InBoth /\ y = InTxn)
     /\ s = "make_probe" => x = InBuilt /\ y = InProbe
     /\ s = "drop_probe" => x = InProbe /\ y = InBuilt
     /\ s = "built" => x = InBuilt /\ y = Free
     /\ s = "footer" => x = InBuilt
     /\ s = "drop" => x = Free
     /\ s \notin {"begin", "commit", "set", "reset", "make_probe", "drop_probe", "built", "end"} => y = x
     /\ s = "end" => x = Free /\ at >= EndOf(kind)
     /\ s \in {"recount", "describe"} => x = Free
     /\ x \in Stacks /\ (x \notin Unbuilt => kind = "create")

\* A create leaves the search path where it found it.
KeepsPath(at) ==
  LET s == StepAt("create", at)
  IN /\ s = "reset" <=> at = 8
     /\ s = "set" => at < 8

\* The statements of a create nest.
LEMMA CreateNests ==
  ASSUME NEW at \in 1..22
  PROVE  Nests("create", at) /\ KeepsPath(at)
<1> USE DEF StepAt, Script, ScopesAt, EndOf
<1>1. Nests("create", at)
  BY StackHolds DEF Nests, Stacks, Unbuilt
<1>2. KeepsPath(at)
  BY DEF KeepsPath
<1> QED
  BY <1>1, <1>2

\* Those of the other operations nest, too.
LEMMA OthersNest ==
  ASSUME NEW kind \in Kinds, kind # "create", NEW at \in 1..22
  PROVE  Nests(kind, at)
<1> USE StackHolds DEF StepAt, Script, ScopesAt, EndOf, Nests, Stacks, Unbuilt
<1>1. CASE kind = "import"
  BY <1>1
<1>2. CASE kind = "ingest"
  BY <1>2
<1>3. CASE kind = "update"
  BY <1>3
<1>4. CASE kind = "touch"
  BY <1>4
<1>5. CASE kind = "delete"
  BY <1>5
<1>6. CASE kind = "merge"
  BY <1>6
<1>7. CASE kind = "vacuum"
  BY <1>7
<1>8. CASE kind = "reconcile"
  BY <1>8
<1>9. CASE kind = "drop"
  BY <1>9
<1>10. CASE kind = "write"
  BY <1>10
<1>11. CASE kind = "validate"
  BY <1>11
<1>12. CASE kind = "read"
  BY <1>12
<1> QED
  BY <1>1, <1>2, <1>3, <1>4, <1>5, <1>6, <1>7, <1>8, <1>9, <1>10, <1>11, <1>12 DEF Kinds

\* Scripts end.
LEMMA ScriptEnds ==
  ASSUME NEW kind \in Kinds, NEW at \in 1..22
  PROVE  /\ EndOf(kind) \in 1..22 /\ Len(Script[kind]) = EndOf(kind) - 1
         /\ (at >= EndOf(kind)) <=> StepAt(kind, at) = "end"
<1>1. /\ EndOf("create") = 22 /\ EndOf("import") = 8 /\ EndOf("ingest") = 9 /\ EndOf("update") = 9
      /\ EndOf("touch") = 3 /\ EndOf("delete") = 9 /\ EndOf("reconcile") = 7 /\ EndOf("vacuum") = 8
      /\ EndOf("merge") = 7 /\ EndOf("drop") = 3 /\ EndOf("write") = 6 /\ EndOf("validate") = 5
      /\ EndOf("read") = 3
  BY DEF EndOf, Script
<1>2. EndOf(kind) \in 1..22 /\ Len(Script[kind]) = EndOf(kind) - 1
  <2>1. EndOf(kind) \in 1..22
    BY <1>1 DEF Kinds
  <2>2. Len(Script[kind]) \in Int
    BY DEF Kinds, Script
  <2> QED
    BY <2>1, <2>2 DEF EndOf
<1>3. ASSUME at < EndOf(kind) PROVE StepAt(kind, at) # "end"
  <2>1. Nests(kind, at)
    BY CreateNests, OthersNest
  <2> QED
    BY <1>2, <1>3, <2>1 DEF Nests
<1>4. ASSUME at >= EndOf(kind) PROVE StepAt(kind, at) = "end"
  BY <1>2, <1>4 DEF StepAt
<1> QED
  BY <1>2, <1>3, <1>4

\* Where the two jumps of a create lead.
LEMMA Jumps ==
  /\ (CHOOSE i \in 1..Len(Script["create"]) : Script["create"][i] = "crs") = 15
  /\ (CHOOSE i \in 1..Len(Script["create"]) : Script["create"][i] = "built") = 20
<1>1. /\ 15 \in 1..Len(Script["create"]) /\ Script["create"][15] = "crs"
      /\ \A i \in 1..Len(Script["create"]) : Script["create"][i] = "crs" => i = 15
  BY DEF Script
<1>2. /\ 20 \in 1..Len(Script["create"]) /\ Script["create"][20] = "built"
      /\ \A i \in 1..Len(Script["create"]) : Script["create"][i] = "built" => i = 20
  BY DEF Script
<1> QED
  BY <1>1, <1>2
-----------------------------------------------------------------------------
(* What the statements do.                                                  *)

\* The schema of a new dataset, empty and loaded.
LEMMA NewSchemas ==
  ASSUME ServiceAssumption, NEW s \in Sources
  PROVE  /\ Is(Bare(s), {}, {}, TRUE, NoCrs, CrsOf[s], "none")
         /\ Is(Loaded(s), Holds[s], {}, TRUE, CrsOf[s], CrsOf[s], TableFor(Holds[s], "none"))
<1>1. Is(Bare(s), {}, {}, TRUE, NoCrs, CrsOf[s], "none")
  BY DEF Is, Bare, Schema, Table
<1>2. Holds[s] \subseteq Objects
  BY DEF ServiceAssumption
<1>3. Is(Loaded(s), Holds[s], {}, TRUE, CrsOf[s], CrsOf[s], TableFor(Holds[s], "none"))
  BY <1>1, <1>2 DEF Is, Loaded, Added, Bare, Schema, Table, TableFor
<1> QED
  BY <1>1, <1>3

\* What the next statement, done, makes of the dataset.
Onward(op, at, v, n) ==
  /\ n \in Held
  /\ at = 1 => IF op.kind \in {"create", "import"} THEN v[op.d] = Absent ELSE v[op.d] # Absent
  /\ at = 1 /\ op.kind = "merge" => v[op.e] # Absent
  /\ at = 2 /\ op.kind = "update" => op.o \in v[op.d].rows
  /\ IF at + 1 =< Still(op.kind) THEN n = v[op.d] ELSE Becomes(op, at + 1, v, n)

\* Where the statements are.
LEMMA Places ==
  ASSUME NEW kind \in Kinds, NEW at \in 1..22, NEW s, s = StepAt(kind, at), s \notin Control
  PROVE  /\ kind = "create" =>
              \/ (at = 1 /\ s = "absent") \/ (at = 3 /\ s = "create_schema") \/ (at = 4 /\ s = "seed")
              \/ (at = 6 /\ s = "init") \/ (at = 7 /\ s = "insert") \/ (at = 12 /\ s = "drop_seed")
              \/ (at = 13 /\ s = "unregister") \/ (at = 19 /\ s = "footer") \/ (at = 21 /\ s = "describe")
         /\ kind = "import" =>
              (at = 1 /\ s = "absent") \/ (at = 4 /\ s = "read_package") \/ (at = 7 /\ s = "describe")
         /\ kind = "ingest" =>
              (at = 1 /\ s = "present") \/ (at = 2 /\ s = "count") \/ (at = 5 /\ s = "insert") \/ (at = 8 /\ s = "recount")
         /\ kind = "update" =>
              (at = 1 /\ s = "present") \/ (at = 2 /\ s = "find") \/ (at = 4 /\ s = "update") \/ (at = 6 /\ s = "reconcile")
         /\ kind = "delete" =>
              (at = 1 /\ s = "present") \/ (at = 2 /\ s = "count") \/ (at = 5 /\ s = "delete") \/ (at = 8 /\ s = "recount")
         /\ kind = "merge" => (at = 1 /\ s = "present") \/ (at = 4 /\ s = "merge")
         /\ kind = "reconcile" => (at = 1 /\ s = "present") \/ (at = 4 /\ s = "reconcile")
         /\ kind = "drop" => (at = 1 /\ s = "present") \/ (at = 2 /\ s = "drop")
         /\ kind \in {"touch", "vacuum", "write", "validate", "read"} =>
              \/ (at = 1 /\ s = "present")
              \/ (at \in 2..21 /\ s \in {"find", "orphans", "vacuum", "crs_of", "write", "validate", "query"})
<1> USE DEF StepAt, Script, Control
<1>1. CASE kind = "create"
  BY <1>1
<1>2. CASE kind = "import"
  BY <1>2
<1>3. CASE kind = "ingest"
  BY <1>3
<1>4. CASE kind = "update"
  BY <1>4
<1>5. CASE kind = "delete"
  BY <1>5
<1>6. CASE kind = "merge"
  BY <1>6
<1>7. CASE kind = "reconcile"
  BY <1>7
<1>8. CASE kind = "drop"
  BY <1>8
<1>9. CASE kind = "touch"
  BY <1>9
<1>10. CASE kind = "vacuum"
  BY <1>10
<1>11. CASE kind = "write"
  BY <1>11
<1>12. CASE kind = "validate"
  BY <1>12
<1>13. CASE kind = "read"
  BY <1>13
<1> HIDE DEF StepAt, Script, Control
<1> QED
  BY <1>1, <1>2, <1>3, <1>4, <1>5, <1>6, <1>7, <1>8, <1>9, <1>10, <1>11, <1>12, <1>13 DEF Kinds

\* Where a dataset changes.
LEMMA StillIs ==
  /\ Still("create") = 3 /\ Still("import") = 4 /\ Still("update") = 4 /\ Still("reconcile") = 4
  /\ Still("merge") = 4 /\ Still("ingest") = 5 /\ Still("delete") = 5 /\ Still("drop") = 2
  /\ \A k \in {"touch", "vacuum", "write", "validate", "read"} : Still(k) = 22
  BY DEF Still

\* The statements that only look, or rewrite files the model does not show.
Quiet == {"absent", "present", "count", "find", "orphans", "vacuum", "crs_of", "write", "validate", "query",
          "recount", "describe"}

\* What rows that come in do.
LEMMA AddedIs ==
  ASSUME NEW c \in Schema, NEW rows \in SUBSET Objects, NEW edited \in SUBSET Objects
  PROVE  Is(Added(rows, edited, c), c.rows \cup rows, c.edited \cup edited, c.fresh, c.crs, c.declared,
            TableFor(rows, c.building))
<1>1. Added(rows, edited, c) = [c EXCEPT !.rows = @ \cup rows, !.edited = @ \cup edited, !.building = TableFor(rows, @)]
  BY DEF Added
<1>2. TableFor(rows, c.building) \in Table
  BY DEF TableFor, Schema, Table
<1>3. Added(rows, edited, c) \in Schema
  BY <1>1, <1>2 DEF Schema
<1> QED
  BY <1>1, <1>3 DEF Is, Schema

\* What each statement does to a schema, one at a time.
LEMMA EffectIs ==
  ASSUME ServiceAssumption, NEW op, NEW c \in Schema
  PROVE  /\ Is(Effect("seed", op, c), c.rows, c.edited, c.fresh, c.crs, c.declared, "bare")
         /\ Is(Effect("init", op, c), c.rows, c.edited, c.fresh, c.crs, c.declared, "empty")
         /\ Is(Effect("drop_seed", op, c), c.rows, c.edited, c.fresh, c.crs, c.declared, "dangling")
         /\ Is(Effect("unregister", op, c), c.rows, c.edited, c.fresh, c.crs, c.declared, "none")
         /\ Is(Effect("reconcile", op, c), c.rows, c.edited, TRUE, c.crs, c.declared, c.building)
         /\ op.s \in Sources =>
              Is(Effect("footer", op, c), c.rows, c.edited, c.fresh, CrsOf[op.s], c.declared, c.building)
         /\ op.s \in Sources =>
              Is(Effect("insert", op, c), c.rows \cup Holds[op.s], c.edited, c.fresh, c.crs, c.declared,
                 TableFor(Holds[op.s], c.building))
         /\ op.o \in Objects =>
              Is(Effect("update", op, c), c.rows, c.edited \cup {op.o}, FALSE, c.crs, c.declared, c.building)
         /\ Is(Effect("delete", op, c), c.rows \ Gone(op.picked, c), c.edited \ Gone(op.picked, c), c.fresh, c.crs, c.declared,
               c.building)
         /\ work[op.e] \in Schema =>
              Is(Effect("merge", op, c), c.rows \cup work[op.e].rows, c.edited \cup work[op.e].edited, c.fresh, c.crs,
                 c.declared, TableFor(work[op.e].rows, c.building))
<1>1. /\ Is(Effect("seed", op, c), c.rows, c.edited, c.fresh, c.crs, c.declared, "bare")
      /\ Is(Effect("init", op, c), c.rows, c.edited, c.fresh, c.crs, c.declared, "empty")
  BY DEF Effect, Is, Schema, Table
<1>2. /\ Is(Effect("drop_seed", op, c), c.rows, c.edited, c.fresh, c.crs, c.declared, "dangling")
      /\ Is(Effect("unregister", op, c), c.rows, c.edited, c.fresh, c.crs, c.declared, "none")
  BY DEF Effect, Is, Schema, Table
<1>3. Is(Effect("reconcile", op, c), c.rows, c.edited, TRUE, c.crs, c.declared, c.building)
  BY DEF Effect, Is, Schema
<1>4. ASSUME op.s \in Sources
      PROVE  Is(Effect("footer", op, c), c.rows, c.edited, c.fresh, CrsOf[op.s], c.declared, c.building)
  BY <1>4 DEF Effect, Is, Schema
<1>5. ASSUME op.s \in Sources
      PROVE  Is(Effect("insert", op, c), c.rows \cup Holds[op.s], c.edited, c.fresh, c.crs, c.declared,
                TableFor(Holds[op.s], c.building))
  <2>1. Effect("insert", op, c) = Added(Holds[op.s], {}, c)
    BY Zenon DEF Effect
  <2>2. Holds[op.s] \in SUBSET Objects
    BY <1>5 DEF ServiceAssumption
  <2>3. Is(Added(Holds[op.s], {}, c), c.rows \cup Holds[op.s], c.edited \cup {}, c.fresh, c.crs, c.declared,
           TableFor(Holds[op.s], c.building))
    BY <2>2, AddedIs
  <2>4. Is(Added(Holds[op.s], {}, c), c.rows \cup Holds[op.s], c.edited, c.fresh, c.crs, c.declared,
           TableFor(Holds[op.s], c.building))
    BY <2>3 DEF Is
  <2> QED
    BY <2>1, <2>4, Zenon
<1>6. ASSUME op.o \in Objects
      PROVE  Is(Effect("update", op, c), c.rows, c.edited \cup {op.o}, FALSE, c.crs, c.declared, c.building)
  BY <1>6 DEF Effect, Is, Schema
<1>7. Is(Effect("delete", op, c), c.rows \ Gone(op.picked, c), c.edited \ Gone(op.picked, c), c.fresh, c.crs, c.declared,
         c.building)
  BY DEF Effect, Is, Schema
<1>8. ASSUME work[op.e] \in Schema
      PROVE  Is(Effect("merge", op, c), c.rows \cup work[op.e].rows, c.edited \cup work[op.e].edited, c.fresh, c.crs,
                c.declared, TableFor(work[op.e].rows, c.building))
  <2>1. Effect("merge", op, c) = Added(work[op.e].rows, work[op.e].edited, c)
    BY Zenon DEF Effect
  <2>2. work[op.e].rows \in SUBSET Objects /\ work[op.e].edited \in SUBSET Objects
    BY <1>8 DEF Schema
  <2>3. Is(Added(work[op.e].rows, work[op.e].edited, c), c.rows \cup work[op.e].rows, c.edited \cup work[op.e].edited,
           c.fresh, c.crs, c.declared, TableFor(work[op.e].rows, c.building))
    BY <2>2, AddedIs
  <2> QED
    BY <2>1, <2>3, Zenon
<1> QED
  BY <1>1, <1>2, <1>3, <1>4, <1>5, <1>6, <1>7, <1>8

\* Those that only look.
LEMMA QuietIs ==
  ASSUME NEW op, NEW c, NEW s \in Quiet
  PROVE  Effect(s, op, c) = c
  BY DEF Effect, Quiet

\* What is assumed of a statement that is done.
Doing(op, at, v, s) ==
  /\ op \in Operation /\ at \in 1..22 /\ v \in [Datasets -> Held]
  /\ work \in [Datasets -> Held]
  /\ Reached(op, at, v, work)
  /\ s = StepAt(op.kind, at) /\ s \notin Control
  /\ Accepts(s, op)

\* Statements that look only, before anything has changed.
LEMMA QuietStep ==
  ASSUME ServiceAssumption, NEW op, NEW at, NEW v, NEW s, Doing(op, at, v, s),
         s \in Quiet, at < Still(op.kind)
  PROVE  Onward(op, at, v, Effect(s, op, work[op.d]))
<1>1. op.kind \in Kinds /\ op.d \in Datasets /\ at \in 1..22 /\ v[op.d] \in Held
  BY Operations DEF Doing
<1>2. Still(op.kind) \in Int
  BY <1>1, StillIs DEF Kinds
<1>3. at =< Still(op.kind) /\ at + 1 =< Still(op.kind)
  BY <1>1, <1>2
<1>4. work[op.d] = v[op.d]
  BY <1>3 DEF Doing, Reached
<1>5. Effect(s, op, work[op.d]) = work[op.d]
  BY QuietIs
<1>6. work[op.d] = v[op.d] /\ Effect(s, op, work[op.d]) = v[op.d]
  BY <1>4, <1>5
<1>7. at = 1 => s = IF op.kind \in {"create", "import"} THEN "absent" ELSE "present"
  BY <1>1, Places DEF Doing, Kinds
<1>8. at = 2 /\ op.kind = "update" => s = "find"
  BY <1>1, Places DEF Doing
<1>9. at = 1 => /\ IF op.kind \in {"create", "import"} THEN v[op.d] = Absent ELSE v[op.d] # Absent
                /\ op.kind = "merge" => v[op.e] # Absent
  <2>1. at = 1 /\ op.kind = "merge" => work[op.e] = v[op.e]
    BY <1>1, <1>6, Operations DEF Doing, Reached
  <2> QED
    BY <1>6, <1>7, <2>1 DEF Doing, Accepts
<1>10. at = 2 /\ op.kind = "update" => op.o \in v[op.d].rows
  BY <1>6, <1>8 DEF Doing, Accepts
<1> QED
  BY <1>1, <1>6, <1>9, <1>10, <1>3 DEF Onward

\* Those that look at what has been committed.
LEMMA LateStep ==
  ASSUME ServiceAssumption, NEW op, NEW at, NEW v, NEW s, Doing(op, at, v, s),
         s \in {"recount", "describe"}
  PROVE  Onward(op, at, v, Effect(s, op, work[op.d]))
<1>1. op.kind \in Kinds /\ work[op.d] \in Held /\ at \in 1..22
  BY Operations DEF Doing
<1>2. \/ (op.kind = "create" /\ at = 21) \/ (op.kind = "import" /\ at = 7)
      \/ (op.kind \in {"ingest", "delete"} /\ at = 8)
  BY <1>1, Places DEF Doing, Kinds
<1>3. Effect(s, op, work[op.d]) = work[op.d]
  <2>1. s \in Quiet
    BY DEF Quiet
  <2> QED
    BY <2>1, QuietIs
<1>4. ~ (at =< Still(op.kind)) /\ ~ (at + 1 =< Still(op.kind))
  BY <1>2, StillIs
<1>5. Becomes(op, at, v, work[op.d])
  BY <1>4 DEF Doing, Reached
<1>6. Becomes(op, at + 1, v, work[op.d])
  <2>1. CASE op.kind = "create"
    <3>1. at = 21 /\ at + 1 = 22
      BY <1>2, <2>1
    <3>2. MadeFrom(op.s, 21, work[op.d])
      BY <1>5, <2>1, <3>1 DEF Becomes
    <3>3. MadeFrom(op.s, 22, work[op.d])
      BY <3>2 DEF MadeFrom, RowsAt, CrsAt, SeedAt
    <3> QED
      BY <2>1, <3>1, <3>3 DEF Becomes
  <2>2. CASE op.kind = "import"
    BY <1>5, <2>2 DEF Becomes
  <2>3. CASE op.kind = "ingest"
    BY <1>5, <2>3 DEF Becomes
  <2>4. CASE op.kind = "delete"
    BY <1>5, <2>4 DEF Becomes
  <2> QED
    BY <1>2, <2>1, <2>2, <2>3, <2>4
<1> QED
  BY <1>1, <1>2, <1>3, <1>4, <1>6 DEF Onward

\* A create takes its schema from each form to the next.
LEMMA MadeOn ==
  ASSUME NEW s, NEW c, NEW n
  PROVE  /\ (MadeFrom(s, 4, c) /\ Is(n, c.rows, c.edited, c.fresh, c.crs, c.declared, "bare")
              => MadeFrom(s, 5, n))
         /\ (MadeFrom(s, 6, c) /\ Is(n, c.rows, c.edited, c.fresh, c.crs, c.declared, "empty")
              => MadeFrom(s, 7, n))
         /\ (MadeFrom(s, 7, c) /\ Is(n, c.rows \cup Holds[s], c.edited, c.fresh, c.crs, c.declared, TableFor(Holds[s], c.building))
              => MadeFrom(s, 8, n))
         /\ (MadeFrom(s, 12, c) /\ Is(n, c.rows, c.edited, c.fresh, c.crs, c.declared, "dangling")
              => MadeFrom(s, 13, n))
         /\ (MadeFrom(s, 13, c) /\ Is(n, c.rows, c.edited, c.fresh, c.crs, c.declared, "none")
              => MadeFrom(s, 14, n))
         /\ (MadeFrom(s, 19, c) /\ Is(n, c.rows, c.edited, c.fresh, CrsOf[s], c.declared, c.building)
              => MadeFrom(s, 20, n))
<1>1. ASSUME MadeFrom(s, 4, c) /\ Is(n, c.rows, c.edited, c.fresh, c.crs, c.declared, "bare")
      PROVE  MadeFrom(s, 5, n)
  BY <1>1 DEF Is, MadeFrom, RowsAt, CrsAt, SeedAt
<1>2. ASSUME MadeFrom(s, 6, c) /\ Is(n, c.rows, c.edited, c.fresh, c.crs, c.declared, "empty")
      PROVE  MadeFrom(s, 7, n)
  BY <1>2 DEF Is, MadeFrom, RowsAt, CrsAt, SeedAt
<1>3. ASSUME MadeFrom(s, 7, c) /\ Is(n, c.rows \cup Holds[s], c.edited, c.fresh, c.crs, c.declared, TableFor(Holds[s], c.building))
      PROVE  MadeFrom(s, 8, n)
  BY <1>3 DEF Is, MadeFrom, RowsAt, CrsAt, SeedAt
<1>4. ASSUME MadeFrom(s, 12, c) /\ Is(n, c.rows, c.edited, c.fresh, c.crs, c.declared, "dangling")
      PROVE  MadeFrom(s, 13, n)
  BY <1>4 DEF Is, MadeFrom, RowsAt, CrsAt, SeedAt
<1>5. ASSUME MadeFrom(s, 13, c) /\ Is(n, c.rows, c.edited, c.fresh, c.crs, c.declared, "none")
      PROVE  MadeFrom(s, 14, n)
  BY <1>5 DEF Is, MadeFrom, RowsAt, CrsAt, SeedAt
<1>6. ASSUME MadeFrom(s, 19, c) /\ Is(n, c.rows, c.edited, c.fresh, CrsOf[s], c.declared, c.building)
      PROVE  MadeFrom(s, 20, n)
  BY <1>6 DEF Is, MadeFrom, RowsAt, CrsAt, SeedAt
<1> QED
  BY <1>1, <1>2, <1>3, <1>4, <1>5, <1>6

\* The statements of a create, one after the other.
LEMMA CreateStep ==
  ASSUME ServiceAssumption, NEW op, NEW at, NEW v, NEW s, Doing(op, at, v, s),
         op.kind = "create", s \notin Quiet
  PROVE  Onward(op, at, v, Effect(s, op, work[op.d]))
<1>1. at \in 1..22 /\ op.s \in Sources /\ Holds[op.s] \in SUBSET Objects
  BY Operations DEF Doing
<1>2. \/ (at = 3 /\ s = "create_schema") \/ (at = 4 /\ s = "seed") \/ (at = 6 /\ s = "init")
      \/ (at = 7 /\ s = "insert") \/ (at = 12 /\ s = "drop_seed") \/ (at = 13 /\ s = "unregister")
      \/ (at = 19 /\ s = "footer")
  BY <1>1, Places DEF Doing, Kinds, Quiet
<1>3. Still(op.kind) = 3
  BY StillIs
<1>4. at > 3 => MadeFrom(op.s, at, work[op.d]) /\ work[op.d] \in Schema
  BY <1>1, <1>3 DEF Doing, Reached, Becomes, MadeFrom
<1>5. ASSUME NEW n, NEW to, to = at + 1, MadeFrom(op.s, to, n)
      PROVE  Onward(op, at, v, n)
  <2>1. at >= 3 /\ ~ (at + 1 =< Still(op.kind))
    BY <1>1, <1>2, <1>3
  <2>2. Becomes(op, to, v, n)
    BY <1>5 DEF Becomes
  <2>3. n \in Held
    BY <1>5 DEF MadeFrom, Held
  <2> QED
    BY <1>1, <1>5, <2>1, <2>2, <2>3 DEF Onward
<1>6. CASE at = 3 /\ s = "create_schema"
  <2>1. Effect(s, op, work[op.d]) = Bare(op.s)
    BY <1>6 DEF Effect
  <2>2. Is(Bare(op.s), {}, {}, TRUE, NoCrs, CrsOf[op.s], "none")
    BY <1>1, NewSchemas
  <2>3. MadeFrom(op.s, 4, Bare(op.s))
    BY <2>2 DEF Is, MadeFrom, RowsAt, CrsAt, SeedAt
  <2>4. 4 = at + 1
    BY <1>6
  <2> QED
    BY <1>5, <2>1, <2>3, <2>4
<1>7. CASE at = 4 /\ s = "seed"
  <2>1. MadeFrom(op.s, 4, work[op.d]) /\ work[op.d] \in Schema
    BY <1>4, <1>7
  <2>2. Is(Effect("seed", op, work[op.d]), work[op.d].rows, work[op.d].edited, work[op.d].fresh, work[op.d].crs, work[op.d].declared,
           "bare")
    BY <2>1, EffectIs
  <2>3. MadeFrom(op.s, 5, Effect("seed", op, work[op.d]))
    BY <2>1, <2>2, MadeOn
  <2>4. 5 = at + 1
    BY <1>7
  <2> QED
    BY <1>5, <1>7, <2>3, <2>4
<1>8. CASE at = 6 /\ s = "init"
  <2>1. MadeFrom(op.s, 6, work[op.d]) /\ work[op.d] \in Schema
    BY <1>4, <1>8
  <2>2. Is(Effect("init", op, work[op.d]), work[op.d].rows, work[op.d].edited, work[op.d].fresh, work[op.d].crs, work[op.d].declared,
           "empty")
    BY <2>1, EffectIs
  <2>3. MadeFrom(op.s, 7, Effect("init", op, work[op.d]))
    BY <2>1, <2>2, MadeOn
  <2>4. 7 = at + 1
    BY <1>8
  <2> QED
    BY <1>5, <1>8, <2>3, <2>4
<1>9. CASE at = 7 /\ s = "insert"
  <2>1. MadeFrom(op.s, 7, work[op.d]) /\ work[op.d] \in Schema
    BY <1>4, <1>9
  <2>2. Is(Effect("insert", op, work[op.d]), work[op.d].rows \cup Holds[op.s], work[op.d].edited, work[op.d].fresh, work[op.d].crs, work[op.d].declared,
           TableFor(Holds[op.s], work[op.d].building))
    BY <1>1, <2>1, EffectIs
  <2>3. MadeFrom(op.s, 8, Effect("insert", op, work[op.d]))
    BY <2>1, <2>2, MadeOn
  <2>4. 8 = at + 1
    BY <1>9
  <2> QED
    BY <1>5, <1>9, <2>3, <2>4
<1>10. CASE at = 12 /\ s = "drop_seed"
  <2>1. MadeFrom(op.s, 12, work[op.d]) /\ work[op.d] \in Schema
    BY <1>4, <1>10
  <2>2. Is(Effect("drop_seed", op, work[op.d]), work[op.d].rows, work[op.d].edited, work[op.d].fresh, work[op.d].crs, work[op.d].declared,
           "dangling")
    BY <2>1, EffectIs
  <2>3. MadeFrom(op.s, 13, Effect("drop_seed", op, work[op.d]))
    BY <2>1, <2>2, MadeOn
  <2>4. 13 = at + 1
    BY <1>10
  <2> QED
    BY <1>5, <1>10, <2>3, <2>4
<1>11. CASE at = 13 /\ s = "unregister"
  <2>1. MadeFrom(op.s, 13, work[op.d]) /\ work[op.d] \in Schema
    BY <1>4, <1>11
  <2>2. Is(Effect("unregister", op, work[op.d]), work[op.d].rows, work[op.d].edited, work[op.d].fresh, work[op.d].crs, work[op.d].declared,
           "none")
    BY <2>1, EffectIs
  <2>3. MadeFrom(op.s, 14, Effect("unregister", op, work[op.d]))
    BY <2>1, <2>2, MadeOn
  <2>4. 14 = at + 1
    BY <1>11
  <2> QED
    BY <1>5, <1>11, <2>3, <2>4
<1>12. CASE at = 19 /\ s = "footer"
  <2>1. MadeFrom(op.s, 19, work[op.d]) /\ work[op.d] \in Schema
    BY <1>4, <1>12
  <2>2. Is(Effect("footer", op, work[op.d]), work[op.d].rows, work[op.d].edited, work[op.d].fresh, CrsOf[op.s], work[op.d].declared,
           work[op.d].building)
    BY <1>1, <2>1, EffectIs
  <2>3. MadeFrom(op.s, 20, Effect("footer", op, work[op.d]))
    BY <2>1, <2>2, MadeOn
  <2>4. 20 = at + 1
    BY <1>12
  <2> QED
    BY <1>5, <1>12, <2>3, <2>4
<1> QED
  BY <1>2, <1>6, <1>7, <1>8, <1>9, <1>10, <1>11, <1>12

\* The statement that makes the change of another operation, and the reconcile
\* of an update.
LEMMA OtherStep ==
  ASSUME ServiceAssumption, NEW op, NEW at, NEW v, NEW s, Doing(op, at, v, s),
         op.kind # "create", s \notin Quiet
  PROVE  Onward(op, at, v, Effect(s, op, work[op.d]))
<1>1. /\ at \in 1..22 /\ op.kind \in Kinds /\ op.d \in Datasets
      /\ op.kind = "merge" => op.e \in Datasets
      /\ v[op.d] \in Held /\ work[op.d] \in Held /\ (op.kind = "merge" => work[op.e] \in Held /\ v[op.e] \in Held)
  BY Operations DEF Doing
<1>2. \/ (op.kind = "import" /\ at = 4 /\ s = "read_package")
      \/ (op.kind = "ingest" /\ at = 5 /\ s = "insert")
      \/ (op.kind = "update" /\ at = 4 /\ s = "update")
      \/ (op.kind = "update" /\ at = 6 /\ s = "reconcile")
      \/ (op.kind = "delete" /\ at = 5 /\ s = "delete")
      \/ (op.kind = "merge" /\ at = 4 /\ s = "merge")
      \/ (op.kind = "reconcile" /\ at = 4 /\ s = "reconcile")
      \/ (op.kind = "drop" /\ at = 2 /\ s = "drop")
  BY <1>1, Places DEF Doing, Kinds, Quiet
<1>3. at > 1 /\ ~ (at + 1 =< Still(op.kind))
  BY <1>2, StillIs
<1>4. ASSUME NEW n, NEW to, to = at + 1, n \in Held, Becomes(op, to, v, n), at > 2
      PROVE  Onward(op, at, v, n)
  BY <1>3, <1>4 DEF Onward
<1>5. op.kind \notin {"create", "import"} => v[op.d] \in Schema
  BY <1>1, <1>3 DEF Doing, Reached, Held
<1>6. at =< Still(op.kind) => work[op.d] = v[op.d]
  BY DEF Doing, Reached
<1>7. CASE op.kind = "import" /\ at = 4 /\ s = "read_package"
  <2>1. op.s \in Sources
    BY <1>7, Operations DEF Doing
  <2>2. Effect(s, op, work[op.d]) = Loaded(op.s)
    BY <1>7 DEF Effect
  <2>3. Is(Loaded(op.s), Holds[op.s], {}, TRUE, CrsOf[op.s], CrsOf[op.s], TableFor(Holds[op.s], "none"))
    BY <2>1, NewSchemas
  <2>4. Becomes(op, 5, v, Loaded(op.s)) /\ Loaded(op.s) \in Held
    <3>1. Becomes(op, 5, v, Loaded(op.s))
      BY <1>7, <2>3 DEF Becomes
    <3>2. Loaded(op.s) \in Held
      BY <2>3 DEF Is, Held
    <3> QED
      BY <3>1, <3>2
  <2>5. 5 = at + 1 /\ at > 2
    BY <1>7
  <2> QED
    BY <1>4, <2>2, <2>4, <2>5
<1>8. CASE op.kind = "ingest" /\ at = 5 /\ s = "insert"
  <2>1. op.s \in Sources
    BY <1>8, Operations DEF Doing
  <2>2. work[op.d] = v[op.d]
    BY <1>6, <1>8, StillIs
  <2>3. Is(Effect("insert", op, work[op.d]), work[op.d].rows \cup Holds[op.s], work[op.d].edited, work[op.d].fresh,
           work[op.d].crs, work[op.d].declared, TableFor(Holds[op.s], work[op.d].building))
    BY <1>5, <1>8, <2>1, <2>2, EffectIs
  <2>4. work[op.d].rows \cap Holds[op.s] = {} /\ work[op.d].crs \in {NoCrs, CrsOf[op.s]}
    BY <1>8 DEF Doing, Accepts
  <2>5. Becomes(op, 6, v, Effect("insert", op, work[op.d]))
    BY <1>8, <2>2, <2>3, <2>4 DEF Becomes
  <2>6. Effect("insert", op, work[op.d]) \in Held
    BY <2>3 DEF Is, Held
  <2>7. 6 = at + 1 /\ at > 2
    BY <1>8
  <2> QED
    BY <1>4, <1>8, <2>5, <2>6, <2>7
<1>9. CASE op.kind = "update" /\ at = 4 /\ s = "update"
  <2>1. op.o \in Objects
    BY <1>9, Operations DEF Doing
  <2>2. work[op.d] = v[op.d]
    BY <1>6, <1>9, StillIs
  <2>3. Is(Effect("update", op, work[op.d]), work[op.d].rows, work[op.d].edited \cup {op.o}, FALSE,
           work[op.d].crs, work[op.d].declared, work[op.d].building)
    BY <1>5, <1>9, <2>1, <2>2, EffectIs
  <2>4. Becomes(op, 5, v, Effect("update", op, work[op.d]))
    <3>1. Edited(Effect("update", op, work[op.d]), v[op.d], op.o)
      BY <2>2, <2>3 DEF Edited, Is
    <3> QED
      BY <1>9, <3>1 DEF Becomes
  <2>5. Effect("update", op, work[op.d]) \in Held
    BY <2>3 DEF Is, Held
  <2>6. 5 = at + 1 /\ at > 2
    BY <1>9
  <2> QED
    BY <1>4, <1>9, <2>4, <2>5, <2>6
<1>10. CASE op.kind = "update" /\ at = 6 /\ s = "reconcile"
  <2>1. ~ (at =< Still(op.kind))
    BY <1>10, StillIs
  <2>2. Edited(work[op.d], v[op.d], op.o)
    BY <1>10, <2>1 DEF Doing, Reached, Becomes
  <2>3. Is(Effect("reconcile", op, work[op.d]), work[op.d].rows, work[op.d].edited, TRUE,
           work[op.d].crs, work[op.d].declared, work[op.d].building)
    <3>1. work[op.d] \in Schema
      BY <2>2 DEF Edited
    <3> QED
      BY <3>1, EffectIs
  <2>4. Edited(Effect("reconcile", op, work[op.d]), v[op.d], op.o) /\ Effect("reconcile", op, work[op.d]).fresh
    BY <2>2, <2>3 DEF Is, Edited
  <2>5. Becomes(op, 7, v, Effect("reconcile", op, work[op.d]))
    BY <1>10, <2>4 DEF Becomes
  <2>6. Effect("reconcile", op, work[op.d]) \in Held
    BY <2>3 DEF Is, Held
  <2>7. 7 = at + 1 /\ at > 2
    BY <1>10
  <2> QED
    BY <1>4, <1>10, <2>5, <2>6, <2>7
<1>11. CASE op.kind = "delete" /\ at = 5 /\ s = "delete"
  <2>1. work[op.d] = v[op.d]
    BY <1>6, <1>11, StillIs
  <2>2. Is(Effect("delete", op, work[op.d]), work[op.d].rows \ Gone(op.picked, work[op.d]),
           work[op.d].edited \ Gone(op.picked, work[op.d]), work[op.d].fresh,
           work[op.d].crs, work[op.d].declared, work[op.d].building)
    BY <1>5, <1>11, <2>1, EffectIs
  <2>3. Becomes(op, 6, v, Effect("delete", op, work[op.d]))
    BY <1>11, <2>1, <2>2 DEF Becomes
  <2>4. Effect("delete", op, work[op.d]) \in Held
    BY <2>2 DEF Is, Held
  <2>5. 6 = at + 1 /\ at > 2
    BY <1>11
  <2> QED
    BY <1>4, <1>11, <2>3, <2>4, <2>5
<1>12. CASE op.kind = "merge" /\ at = 4 /\ s = "merge"
  <2>1. work[op.d] = v[op.d]
    BY <1>6, <1>12, StillIs
  <2>2. work[op.e] = v[op.e]
    BY <1>1, <1>12, <2>1 DEF Doing, Reached
  <2>3. work[op.e] \in Schema
    BY <1>1, <1>12, <2>2 DEF Doing, Reached, Held
  <2>4. Is(Effect("merge", op, work[op.d]), work[op.d].rows \cup work[op.e].rows,
           work[op.d].edited \cup work[op.e].edited, work[op.d].fresh,
           work[op.d].crs, work[op.d].declared, TableFor(work[op.e].rows, work[op.d].building))
    BY <1>5, <1>12, <2>1, <2>3, EffectIs
  <2>5. work[op.d].rows \cap work[op.e].rows = {} /\ work[op.d].crs \in {NoCrs, work[op.e].crs}
    BY <1>12 DEF Doing, Accepts
  <2>6. Becomes(op, 5, v, Effect("merge", op, work[op.d]))
    BY <1>12, <2>1, <2>2, <2>4, <2>5 DEF Becomes
  <2>7. Effect("merge", op, work[op.d]) \in Held
    BY <2>4 DEF Is, Held
  <2>8. 5 = at + 1 /\ at > 2
    BY <1>12
  <2> QED
    BY <1>4, <1>12, <2>6, <2>7, <2>8
<1>13. CASE op.kind = "reconcile" /\ at = 4 /\ s = "reconcile"
  <2>1. work[op.d] = v[op.d]
    BY <1>6, <1>13, StillIs
  <2>2. Is(Effect("reconcile", op, work[op.d]), work[op.d].rows, work[op.d].edited, TRUE,
           work[op.d].crs, work[op.d].declared, work[op.d].building)
    BY <1>5, <1>13, <2>1, EffectIs
  <2>3. Becomes(op, 5, v, Effect("reconcile", op, work[op.d]))
    BY <1>13, <2>1, <2>2 DEF Becomes
  <2>4. Effect("reconcile", op, work[op.d]) \in Held
    BY <2>2 DEF Is, Held
  <2>5. 5 = at + 1 /\ at > 2
    BY <1>13
  <2> QED
    BY <1>4, <1>13, <2>3, <2>4, <2>5
<1>14. CASE op.kind = "drop" /\ at = 2 /\ s = "drop"
  <2>1. Effect(s, op, work[op.d]) = Absent
    BY <1>14 DEF Effect
  <2>2. Becomes(op, 3, v, Absent) /\ Absent \in Held
    BY <1>14 DEF Becomes, Held
  <2>3. at + 1 = 3
    BY <1>14
  <2> QED
    BY <1>3, <1>14, <2>1, <2>2, <2>3 DEF Onward
<1> QED
  BY <1>2, <1>7, <1>8, <1>9, <1>10, <1>11, <1>12, <1>13, <1>14

\* Every ordinary statement takes the operation one place on.
LEMMA StatementStep ==
  ASSUME ServiceAssumption, NEW op, NEW at, NEW v, NEW s, Doing(op, at, v, s),
         NEW w, w = [work EXCEPT ![op.d] = Effect(s, op, work[op.d])]
  PROVE  w \in [Datasets -> Held] /\ Reached(op, at + 1, v, w)
<1>1. op.kind \in Kinds /\ op.d \in Datasets /\ at \in 1..22 /\ s = StepAt(op.kind, at) /\ s \notin Control
  BY Operations DEF Doing
<1>2. Onward(op, at, v, Effect(s, op, work[op.d]))
  <2>1. CASE s \notin Quiet
    BY <2>1, CreateStep, OtherStep
  <2>2. CASE s \in {"recount", "describe"}
    BY <2>2, LateStep
  <2>3. CASE s \in Quiet \ {"recount", "describe"}
    <3>1. at < Still(op.kind)
      BY <1>1, <2>3, Places, StillIs DEF Kinds, Quiet
    <3> QED
      BY <2>3, <3>1, QuietStep
  <2> QED
    BY <2>1, <2>2, <2>3
<1>3. PICK n : n = Effect(s, op, work[op.d])
  OBVIOUS
<1>4. work \in [Datasets -> Held] /\ n \in Held /\ w = [work EXCEPT ![op.d] = n]
  BY <1>2, <1>3 DEF Doing, Onward
<1>5. w \in [Datasets -> Held] /\ w[op.d] = n /\ \A e \in Datasets : e # op.d => w[e] = work[e]
  BY <1>1, <1>4
<1>6. Onward(op, at, v, n)
  BY <1>2, <1>3
<1>7. \A e \in Datasets : e # op.d => w[e] = v[e]
  BY <1>5 DEF Doing, Reached
<1>8. /\ at + 1 > 1 => IF op.kind \in {"create", "import"} THEN v[op.d] = Absent ELSE v[op.d] # Absent
      /\ at + 1 > 1 /\ op.kind = "merge" => v[op.e] # Absent
      /\ at + 1 > 2 /\ op.kind = "update" => op.o \in v[op.d].rows
  <2>1. at = 1 \/ at > 1
    BY <1>1
  <2>2. at + 1 > 2 => at = 2 \/ at > 2
    BY <1>1
  <2> QED
    BY <1>6, <2>1, <2>2 DEF Doing, Reached, Onward
<1>9. IF at + 1 =< Still(op.kind) THEN w[op.d] = v[op.d] ELSE Becomes(op, at + 1, v, w[op.d])
  BY <1>5, <1>6 DEF Onward
<1> QED
  BY <1>5, <1>7, <1>8, <1>9 DEF Reached

\* Where the statements with an action of their own are.
LEMMA ControlPlaces ==
  ASSUME NEW kind \in Kinds, NEW at \in 1..22, StepAt(kind, at) \in Control \ {"end"}
  PROVE  /\ at > 1 /\ at # Still(kind)
         /\ kind = "create" => at \in {2, 5, 8, 9, 10, 11, 14, 15, 16, 17, 18, 20}
         /\ kind = "create" => /\ StepAt(kind, at) = "count_seed" <=> at = 10
                               /\ StepAt(kind, at) = "crs" <=> at = 15
                               /\ StepAt(kind, at) = "built" <=> at = 20
         /\ StepAt(kind, at) \in {"count_seed", "crs"} => kind = "create"
         /\ kind = "update" => at # 2 /\ at # 6
<1> USE DEF StepAt, Script, Control, Still
<1>1. CASE kind = "create"
  BY <1>1
<1>2. CASE kind = "import"
  BY <1>2
<1>3. CASE kind = "ingest"
  BY <1>3
<1>4. CASE kind = "update"
  BY <1>4
<1>5. CASE kind = "delete"
  BY <1>5
<1>6. CASE kind = "merge"
  BY <1>6
<1>7. CASE kind = "reconcile"
  BY <1>7
<1>8. CASE kind = "drop"
  BY <1>8
<1>9. CASE kind = "touch"
  BY <1>9
<1>10. CASE kind = "vacuum"
  BY <1>10
<1>11. CASE kind = "write"
  BY <1>11
<1>12. CASE kind = "validate"
  BY <1>12
<1>13. CASE kind = "read"
  BY <1>13
<1> HIDE DEF StepAt, Script, Control, Still
<1> QED
  BY <1>1, <1>2, <1>3, <1>4, <1>5, <1>6, <1>7, <1>8, <1>9, <1>10, <1>11, <1>12, <1>13 DEF Kinds

\* The forms of a create that are one.
LEMMA MadeStill ==
  ASSUME NEW s, NEW c
  PROVE  /\ MadeFrom(s, 5, c) => MadeFrom(s, 6, c)
         /\ MadeFrom(s, 8, c) => MadeFrom(s, 9, c)
         /\ MadeFrom(s, 9, c) => MadeFrom(s, 10, c)
         /\ MadeFrom(s, 10, c) /\ c.rows \cap Buildings = {} => MadeFrom(s, 11, c)
         /\ MadeFrom(s, 10, c) /\ c.rows \cap Buildings # {} => MadeFrom(s, 15, c)
         /\ MadeFrom(s, 11, c) => MadeFrom(s, 12, c)
         /\ MadeFrom(s, 14, c) => MadeFrom(s, 15, c)
         /\ MadeFrom(s, 15, c) => MadeFrom(s, 16, c)
         /\ MadeFrom(s, 16, c) => MadeFrom(s, 17, c)
         /\ MadeFrom(s, 17, c) => MadeFrom(s, 18, c)
         /\ MadeFrom(s, 18, c) => MadeFrom(s, 19, c)
         /\ MadeFrom(s, 15, c) /\ CrsOf[s] = NoCrs => MadeFrom(s, 20, c)
         /\ MadeFrom(s, 20, c) => MadeFrom(s, 21, c)
<1> USE DEF MadeFrom, RowsAt, CrsAt, SeedAt, TableFor
<1>1. /\ MadeFrom(s, 5, c) => MadeFrom(s, 6, c)
      /\ MadeFrom(s, 8, c) => MadeFrom(s, 9, c)
      /\ MadeFrom(s, 9, c) => MadeFrom(s, 10, c)
  OBVIOUS
<1>2. /\ MadeFrom(s, 10, c) /\ c.rows \cap Buildings = {} => MadeFrom(s, 11, c)
      /\ MadeFrom(s, 10, c) /\ c.rows \cap Buildings # {} => MadeFrom(s, 15, c)
  OBVIOUS
<1>3. /\ MadeFrom(s, 11, c) => MadeFrom(s, 12, c)
      /\ MadeFrom(s, 14, c) => MadeFrom(s, 15, c)
      /\ MadeFrom(s, 15, c) => MadeFrom(s, 16, c)
  OBVIOUS
<1>4. /\ MadeFrom(s, 16, c) => MadeFrom(s, 17, c)
      /\ MadeFrom(s, 17, c) => MadeFrom(s, 18, c)
      /\ MadeFrom(s, 18, c) => MadeFrom(s, 19, c)
  OBVIOUS
<1>5. /\ MadeFrom(s, 15, c) /\ CrsOf[s] = NoCrs => MadeFrom(s, 20, c)
      /\ MadeFrom(s, 20, c) => MadeFrom(s, 21, c)
  OBVIOUS
<1> QED
  BY <1>1, <1>2, <1>3, <1>4, <1>5

\* A statement that leaves the dataset alone takes the operation on, too.
LEMMA ControlStep ==
  ASSUME ServiceAssumption, NEW op \in Operation, NEW at \in 1..22, NEW v, NEW w,
         StepAt(op.kind, at) \in Control \ {"end"}, Reached(op, at, v, w)
  PROVE  /\ StepAt(op.kind, at) # "count_seed" => Reached(op, at + 1, v, w)
         /\ op.kind = "create" /\ at = 10 =>
              IF w[op.d].rows \cap Buildings = {} THEN Reached(op, 11, v, w) ELSE Reached(op, 15, v, w)
         /\ op.kind = "create" /\ at = 15 /\ CrsOf[op.s] = NoCrs => Reached(op, 20, v, w)
<1>1. op.kind \in Kinds
  BY Operations
<1>2. /\ at > 1 /\ at # Still(op.kind)
      /\ op.kind = "create" => at \in {2, 5, 8, 9, 10, 11, 14, 15, 16, 17, 18, 20}
      /\ op.kind = "create" => /\ StepAt(op.kind, at) = "count_seed" <=> at = 10
                               /\ StepAt(op.kind, at) = "crs" <=> at = 15
      /\ op.kind = "update" => at # 2 /\ at # 6
  BY <1>1, ControlPlaces
<1>3. Still(op.kind) \in Int
  BY <1>1, StillIs DEF Kinds
<1>4. ASSUME NEW to \in 1..23, to > 2,
             ~ (at =< Still(op.kind)) => ~ (to =< Still(op.kind)) /\ Becomes(op, to, v, w[op.d]),
             at =< Still(op.kind) => to =< Still(op.kind)
      PROVE  Reached(op, to, v, w)
  <2>1. at > 2 \/ op.kind # "update"
    BY <1>2
  <2> QED
    BY <1>2, <1>4, <2>1 DEF Reached
<1>5. ASSUME op.kind = "create", NEW to \in 4..22, at > 3, MadeFrom(op.s, to, w[op.d])
      PROVE  Reached(op, to, v, w)
  <2>1. Still(op.kind) = 3
    BY <1>5, StillIs
  <2>2. Becomes(op, to, v, w[op.d])
    BY <1>5 DEF Becomes
  <2>3. ~ (at =< 3) /\ ~ (to =< 3) /\ to \in 1..23 /\ to > 2
    BY <1>5
  <2> QED
    BY <1>4, <2>1, <2>2, <2>3
<1>6. op.kind = "create" /\ at > 3 => MadeFrom(op.s, at, w[op.d])
  BY StillIs DEF Reached, Becomes
<1>7. ASSUME StepAt(op.kind, at) # "count_seed"
      PROVE  Reached(op, at + 1, v, w)
  <2>1. CASE op.kind = "create" /\ at > 3
    <3>1. at \in {5, 8, 9, 11, 14, 15, 16, 17, 18, 20}
      BY <1>2, <1>7, <2>1
    <3>2. MadeFrom(op.s, at, w[op.d])
      BY <1>6, <2>1
    <3>3. MadeFrom(op.s, at + 1, w[op.d])
      BY <3>1, <3>2, MadeStill
    <3>4. at + 1 \in 4..22
      BY <3>1
    <3> QED
      BY <1>5, <2>1, <3>3, <3>4
  <2>2. CASE ~ (op.kind = "create" /\ at > 3)
    <3>1. at + 1 \in 1..23 /\ at + 1 > 2
      BY <1>2
    <3>2. at =< Still(op.kind) => at + 1 =< Still(op.kind)
      BY <1>2, <1>3
    <3>3. ASSUME ~ (at =< Still(op.kind))
          PROVE  ~ (at + 1 =< Still(op.kind)) /\ Becomes(op, at + 1, v, w[op.d])
      <4>1. ~ (at + 1 =< Still(op.kind))
        BY <1>3, <3>3
      <4>2. Becomes(op, at, v, w[op.d])
        BY <3>3 DEF Reached
      <4>3. op.kind # "create"
        BY <2>2, <3>3, StillIs
      <4>4. op.kind = "update" /\ at + 1 > 6 => at > 6
        BY <1>2
      <4> QED
        BY <4>1, <4>2, <4>3, <4>4 DEF Becomes
    <3> QED
      BY <1>4, <3>1, <3>2, <3>3
  <2> QED
    BY <2>1, <2>2
<1>8. ASSUME op.kind = "create", at = 10
      PROVE  IF w[op.d].rows \cap Buildings = {} THEN Reached(op, 11, v, w) ELSE Reached(op, 15, v, w)
  <2>1. MadeFrom(op.s, 10, w[op.d])
    BY <1>6, <1>8
  <2>2. IF w[op.d].rows \cap Buildings = {} THEN MadeFrom(op.s, 11, w[op.d]) ELSE MadeFrom(op.s, 15, w[op.d])
    BY <2>1, MadeStill
  <2> QED
    BY <1>5, <1>8, <2>2
<1>9. ASSUME op.kind = "create", at = 15, CrsOf[op.s] = NoCrs
      PROVE  Reached(op, 20, v, w)
  <2>1. MadeFrom(op.s, 15, w[op.d])
    BY <1>6, <1>9
  <2>2. MadeFrom(op.s, 20, w[op.d])
    BY <1>9, <2>1, MadeStill
  <2> QED
    BY <1>5, <1>9, <2>2
<1> QED
  BY <1>7, <1>8, <1>9
-----------------------------------------------------------------------------
(* What an operation that has come some way has done.                       *)

\* Nothing, at first.
LEMMA ReachedFirst ==
  ASSUME ServiceAssumption, NEW op \in Operation, NEW v
  PROVE  Reached(op, 1, v, v)
<1>1. op.kind \in Kinds
  BY Operations
<1>2. 1 =< Still(op.kind)
  BY <1>1, StillIs DEF Kinds
<1> QED
  BY <1>2 DEF Reached

\* Where no transaction is open and none was committed.
LEMMA FreePlaces ==
  ASSUME NEW kind \in Kinds, NEW at \in 1..22, ScopesAt(kind, at) \in {Free, InPath},
         StepAt(kind, at) \notin {"recount", "describe", "end"}
  PROVE  at =< Still(kind)
<1> USE StackHolds DEF StepAt, Script, ScopesAt, Still, Unbuilt
<1>1. CASE kind = "create"
  BY <1>1
<1>2. CASE kind = "import"
  BY <1>2
<1>3. CASE kind = "ingest"
  BY <1>3
<1>4. CASE kind = "update"
  BY <1>4
<1>5. CASE kind = "delete"
  BY <1>5
<1>6. CASE kind = "merge"
  BY <1>6
<1>7. CASE kind = "reconcile"
  BY <1>7
<1>8. CASE kind = "drop"
  BY <1>8
<1>9. CASE kind = "touch"
  BY <1>9
<1>10. CASE kind = "vacuum"
  BY <1>10
<1>11. CASE kind = "write"
  BY <1>11
<1>12. CASE kind = "validate"
  BY <1>12
<1>13. CASE kind = "read"
  BY <1>13
<1> HIDE DEF StepAt, Script, ScopesAt, Still, Unbuilt
<1> QED
  BY <1>1, <1>2, <1>3, <1>4, <1>5, <1>6, <1>7, <1>8, <1>9, <1>10, <1>11, <1>12, <1>13 DEF Kinds

\* There the lake is as it was.
LEMMA Untouched ==
  ASSUME ServiceAssumption, NEW op \in Operation, NEW at \in 1..22,
         NEW v \in [Datasets -> Held], NEW w \in [Datasets -> Held], Reached(op, at, v, w),
         ScopesAt(op.kind, at) \in {Free, InPath}, StepAt(op.kind, at) \notin {"recount", "describe", "end"}
  PROVE  w = v
<1>1. op.kind \in Kinds /\ op.d \in Datasets
  BY Operations
<1>2. at =< Still(op.kind)
  BY <1>1, FreePlaces
<1>3. \A e \in Datasets : w[e] = v[e]
  BY <1>1, <1>2 DEF Reached
<1> QED
  BY <1>3

\* The schema of a create, as far as others rely on it.
LEMMA MadeIsDerived ==
  ASSUME NEW s, NEW c
  PROVE  /\ \A at \in {10, 15, 20, 21} : MadeFrom(s, at, c) => Derived(c)
         /\ \A at \in {20, 21} : MadeFrom(s, at, c) => Sound(c)
<1>1. \A at \in {10, 15, 20, 21} : MadeFrom(s, at, c) => Derived(c)
  BY DEF MadeFrom, Derived, SeedAt, TableFor
<1>2. \A at \in {20, 21} : MadeFrom(s, at, c) => Sound(c)
  BY DEF MadeFrom, Sound, SeedAt, CrsAt, TableFor
<1> QED
  BY <1>1, <1>2

\* What the commits and the footer of a create make visible to others.
LEMMA HalfDone ==
  ASSUME ServiceAssumption, NEW op \in Operation, NEW at \in {10, 15, 20}, NEW v, NEW w,
         op.kind = "create", Reached(op, at, v, w)
  PROVE  Half(op, v, w) /\ Derived(w[op.d])
<1>1. MadeFrom(op.s, at, w[op.d])
  BY StillIs DEF Reached, Becomes
<1>2. \E crs \in {NoCrs, CrsOf[op.s]}, t \in {"none", "empty"} :
        Is(w[op.d], Holds[op.s], {}, TRUE, crs, CrsOf[op.s], TableFor(Holds[op.s], t))
  <2>1. CASE at = 10
    <3>1. Is(w[op.d], Holds[op.s], {}, TRUE, NoCrs, CrsOf[op.s], TableFor(Holds[op.s], "empty"))
      BY <1>1, <2>1 DEF MadeFrom, Is, RowsAt, CrsAt, SeedAt
    <3> QED
      BY <3>1
  <2>2. CASE at = 15
    <3>1. Is(w[op.d], Holds[op.s], {}, TRUE, NoCrs, CrsOf[op.s], TableFor(Holds[op.s], "none"))
      BY <1>1, <2>2 DEF MadeFrom, Is, RowsAt, CrsAt, SeedAt
    <3> QED
      BY <3>1
  <2>3. CASE at = 20
    <3>1. Is(w[op.d], Holds[op.s], {}, TRUE, CrsOf[op.s], CrsOf[op.s], TableFor(Holds[op.s], "none"))
      BY <1>1, <2>3 DEF MadeFrom, Is, RowsAt, CrsAt, SeedAt
    <3> QED
      BY <3>1
  <2> QED
    BY <2>1, <2>2, <2>3
<1>3. v[op.d] = Absent /\ \A e \in Datasets : e # op.d => w[e] = v[e]
  BY DEF Reached
<1>4. Derived(w[op.d])
  BY <1>1, MadeIsDerived
<1> QED
  BY <1>2, <1>3, <1>4 DEF Half

\* An operation other than a create takes a lake whose datasets are as they
\* should be to one like it.
LEMMA KeepsSound ==
  ASSUME ServiceAssumption, NEW op \in Operation, NEW at \in 1..22, NEW t,
         NEW v \in [Datasets -> Held], NEW w \in [Datasets -> Held], Reached(op, at, v, w),
         op.kind # "create", op.kind = "update" => at > 6,
         \A d \in Datasets : v[d] # Absent => Derived(v[d]) /\ (d \in t \/ Sound(v[d]))
  PROVE  \A d \in Datasets : w[d] # Absent => Derived(w[d]) /\ (d \in t \/ Sound(w[d]))
<1>1. op.kind \in Kinds /\ op.d \in Datasets
  BY Operations
<1>2. \A d \in Datasets : d # op.d => w[d] = v[d]
  BY DEF Reached
<1>3. ASSUME w[op.d] # Absent
      PROVE  Derived(w[op.d]) /\ (op.d \in t \/ Sound(w[op.d]))
  <2>1. CASE at =< Still(op.kind)
    <3>1. w[op.d] = v[op.d]
      BY <2>1 DEF Reached
    <3> QED
      BY <1>1, <1>3, <3>1
  <2>2. CASE ~ (at =< Still(op.kind)) /\ op.kind = "import"
    <3>1. Is(w[op.d], Holds[op.s], {}, TRUE, CrsOf[op.s], CrsOf[op.s], TableFor(Holds[op.s], "none"))
      BY <2>2 DEF Reached, Becomes
    <3> QED
      BY <3>1 DEF Is, Derived, Sound, TableFor
  <2>3. CASE ~ (at =< Still(op.kind)) /\ op.kind # "import"
    <3>1. op.kind \in {"ingest", "merge", "update", "delete", "reconcile", "drop"}
      <4>1. op.kind \in {"touch", "vacuum", "write", "validate", "read"} => Still(op.kind) = 22
        BY StillIs
      <4> QED
        BY <1>1, <2>3, <4>1 DEF Kinds
    <3>2. at > 1 /\ Becomes(op, at, v, w[op.d])
      <4>1. Still(op.kind) >= 1 /\ Still(op.kind) \in Int
        BY <3>1, StillIs
      <4> QED
        BY <2>3, <4>1 DEF Reached
    <3>3. v[op.d] # Absent /\ Derived(v[op.d]) /\ (op.d \in t \/ Sound(v[op.d]))
      BY <1>1, <2>3, <3>1, <3>2 DEF Reached
    <3>4. /\ w[op.d].fresh
          /\ w[op.d].crs = v[op.d].crs /\ w[op.d].declared = v[op.d].declared
          /\ w[op.d].building \in {v[op.d].building, "filled"}
      <4>1. CASE op.kind = "ingest"
        BY <3>2, <3>3, <4>1 DEF Becomes, Is, Derived, TableFor
      <4>2. CASE op.kind = "merge"
        BY <3>2, <3>3, <4>2 DEF Becomes, Is, Derived, TableFor
      <4>3. CASE op.kind = "update"
        BY <3>2, <4>3 DEF Becomes, Edited
      <4>4. CASE op.kind = "delete"
        BY <3>2, <3>3, <4>4 DEF Becomes, Is, Derived
      <4>5. CASE op.kind = "reconcile"
        BY <3>2, <4>5 DEF Becomes, Is
      <4>6. op.kind # "drop"
        BY <1>3, <3>2 DEF Becomes
      <4> QED
        BY <3>1, <4>1, <4>2, <4>3, <4>4, <4>5, <4>6
    <3> QED
      BY <3>3, <3>4 DEF Derived, Sound
  <2> QED
    BY <2>1, <2>2, <2>3
<1> QED
  BY <1>1, <1>2, <1>3

\* A schema as the abstract lake shows it.
Seen(c) == IF c = Absent THEN Absent
           ELSE [rows |-> c.rows, edited |-> c.edited, crs |-> c.crs, building |-> c.building]

\* The abstract lake, where one dataset has changed.
LEMMA ShownButOne ==
  ASSUME NEW v \in [Datasets -> Held], NEW w \in [Datasets -> Held], NEW d \in Datasets,
         \A e \in Datasets : e # d => w[e] = v[e]
  PROVE  Shown(w) = [Shown(v) EXCEPT ![d] = Seen(w[d])]
<1>1. \A e \in Datasets : Shown(v)[e] = Seen(v[e]) /\ Shown(w)[e] = Seen(w[e])
  BY DEF Shown, Seen
<1>2. DOMAIN Shown(v) = Datasets /\ DOMAIN Shown(w) = Datasets
  BY DEF Shown
<1>3. /\ Shown(v) = [e \in Datasets |-> Shown(v)[e]]
      /\ Shown(w) = [e \in Datasets |-> Shown(w)[e]]
  BY DEF Shown
<1>4. [Shown(v) EXCEPT ![d] = Seen(w[d])] = [e \in Datasets |-> IF e = d THEN Seen(w[d]) ELSE Shown(v)[e]]
  BY <1>2
<1>5. \A e \in Datasets : Shown(w)[e] = IF e = d THEN Seen(w[d]) ELSE Shown(v)[e]
  BY <1>1
<1> QED
  BY <1>3, <1>4, <1>5

\* What the abstract lake shows of a schema that is there.
LEMMA ShownAt ==
  ASSUME ServiceAssumption, NEW v \in [Datasets -> Held], NEW d \in Datasets
  PROVE  /\ Shown(v)[d] = Seen(v[d])
         /\ Shown(v)[d] = Absent <=> v[d] = Absent
         /\ v[d] # Absent =>
              /\ Shown(v)[d] = [rows |-> v[d].rows, edited |-> v[d].edited, crs |-> v[d].crs, building |-> v[d].building]
              /\ v[d] \in Schema
<1>1. Shown(v)[d] = Seen(v[d])
  BY DEF Shown, Seen
<1>2. v[d] # Absent => v[d] \in Schema
  BY DEF Held
<1>3. v[d] # Absent =>
        Shown(v)[d] = [rows |-> v[d].rows, edited |-> v[d].edited, crs |-> v[d].crs, building |-> v[d].building]
  BY <1>1 DEF Seen
<1>4. ASSUME v[d] \in Schema
      PROVE  [rows |-> v[d].rows, edited |-> v[d].edited, crs |-> v[d].crs, building |-> v[d].building] # Absent
  BY <1>4 DEF ServiceAssumption, Schema
<1> QED
  BY <1>1, <1>2, <1>3, <1>4 DEF Seen

\* The abstract operation that brings rows in.
LEMMA FilledIs ==
  ASSUME ServiceAssumption, NEW v \in [Datasets -> Held], NEW d \in Datasets, v[d] # Absent,
         NEW rows, NEW edited
  PROVE  Catalog!Filled(Shown(v), d, rows, edited) =
           [Shown(v) EXCEPT ![d] = [rows |-> v[d].rows \cup rows, edited |-> v[d].edited \cup edited,
                                    crs |-> v[d].crs, building |-> TableFor(rows, v[d].building)]]
<1>1. PICK f : f = Shown(v)
  OBVIOUS
<1>2. f[d] = [rows |-> v[d].rows, edited |-> v[d].edited, crs |-> v[d].crs, building |-> v[d].building]
  BY <1>1, ShownAt
<1>3. f = [e \in Datasets |-> f[e]]
  BY <1>1 DEF Shown
<1>4. Catalog!TableFor(rows, v[d].building) = TableFor(rows, v[d].building)
  BY DEF Catalog!TableFor, TableFor
<1>5. Catalog!Filled(f, d, rows, edited) =
        [f EXCEPT ![d] = [rows |-> v[d].rows \cup rows, edited |-> v[d].edited \cup edited,
                          crs |-> v[d].crs, building |-> Catalog!TableFor(rows, v[d].building)]]
  <2> DEFINE m == [f EXCEPT ![d] = [rows |-> v[d].rows \cup rows, edited |-> v[d].edited \cup edited,
                          crs |-> v[d].crs, building |-> Catalog!TableFor(rows, v[d].building)]]
             g == Catalog!Filled(f, d, rows, edited)
  <2>1. DOMAIN g = Datasets /\ DOMAIN m = Datasets
    BY <1>3 DEF Catalog!Filled
  <2>2. \A e \in Datasets : e # d => g[e] = m[e]
    BY <1>3 DEF Catalog!Filled
  <2>3. g[d] = m[d]
    <3>1. g[d] = [f[d] EXCEPT !.rows = @ \cup rows, !.edited = @ \cup edited,
                              !.building = Catalog!TableFor(rows, @)]
      BY <1>3, Zenon DEF Catalog!Filled
    <3>2. PICK x : x = f[d]
      OBVIOUS
    <3>3. x = [rows |-> v[d].rows, edited |-> v[d].edited, crs |-> v[d].crs, building |-> v[d].building]
      BY <1>2, <3>2
    <3>4. /\ x.rows = v[d].rows /\ x.edited = v[d].edited /\ x.building = v[d].building
      BY <3>3
    <3>5. PICK p, q, b : p = x.rows \cup rows /\ q = x.edited \cup edited /\ b = Catalog!TableFor(rows, x.building)
      OBVIOUS
    <3>6. [x EXCEPT !.rows = p, !.edited = q, !.building = b]
            = [rows |-> p, edited |-> q, crs |-> v[d].crs, building |-> b]
      <4> DEFINE S == [rows : {v[d].rows, p}, edited : {v[d].edited, q}, crs : {v[d].crs}, building : {v[d].building, b}]
                 y == [x EXCEPT !.rows = p, !.edited = q, !.building = b]
      <4>1. x \in S /\ x.crs = v[d].crs
        BY <3>3
      <4>2. y \in S
        BY <4>1
      <4>3. y.rows = p /\ y.edited = q /\ y.crs = v[d].crs /\ y.building = b
        BY <4>1
      <4> HIDE DEF y
      <4>4. y = [rows |-> p, edited |-> q, crs |-> v[d].crs, building |-> b]
        BY <4>2, <4>3
      <4> QED
        BY <4>4 DEF y
    <3>7. /\ p = v[d].rows \cup rows /\ q = v[d].edited \cup edited 
          /\ b = Catalog!TableFor(rows, v[d].building)
      BY <3>4, <3>5, Zenon
    <3>8. [x EXCEPT !.rows = @ \cup rows, !.edited = @ \cup edited, !.building = Catalog!TableFor(rows, @)]
            = [rows |-> v[d].rows \cup rows, edited |-> v[d].edited \cup edited,
               crs |-> v[d].crs, building |-> Catalog!TableFor(rows, v[d].building)]
      BY <3>5, <3>6, <3>7, Zenon
    <3>9. m[d] = [rows |-> v[d].rows \cup rows, edited |-> v[d].edited \cup edited,
               crs |-> v[d].crs, building |-> Catalog!TableFor(rows, v[d].building)]
      BY <1>3, Zenon
    <3> QED
      BY <3>1, <3>2, <3>8, <3>9, Zenon
  <2>4. g = [e \in DOMAIN g |-> g[e]]
    BY DEF Catalog!Filled
  <2> QED
    BY <2>1, <2>2, <2>3, <2>4
<1> QED
  BY <1>1, <1>4, <1>5

\* The abstract update.
LEMMA UpdatedIs ==
  ASSUME ServiceAssumption, NEW v \in [Datasets -> Held], NEW d \in Datasets, v[d] # Absent, NEW o
  PROVE  Catalog!Updated(Shown(v), d, o) =
           [Shown(v) EXCEPT ![d] = [rows |-> v[d].rows, edited |-> v[d].edited \cup {o},
                                    crs |-> v[d].crs, building |-> v[d].building]]
<1>1. PICK f : f = Shown(v)
  OBVIOUS
<1>2. PICK x : x = f[d]
  OBVIOUS
<1>3. x = [rows |-> v[d].rows, edited |-> v[d].edited, crs |-> v[d].crs, building |-> v[d].building]
  BY <1>1, <1>2, ShownAt
<1>4. f = [e \in Datasets |-> f[e]]
  BY <1>1 DEF Shown
<1>5. PICK q : q = v[d].edited \cup {o}
  OBVIOUS
<1>6. [x EXCEPT !.edited = q] = [rows |-> v[d].rows, edited |-> q, crs |-> v[d].crs, building |-> v[d].building]
  BY <1>3
<1>7. x.edited = v[d].edited
  BY <1>3
<1>8. Catalog!Updated(f, d, o) = [f EXCEPT ![d] = [x EXCEPT !.edited = q]]
  <2> DEFINE m == [f EXCEPT ![d] = [x EXCEPT !.edited = q]]
             g == Catalog!Updated(f, d, o)
  <2>1. DOMAIN g = Datasets /\ DOMAIN m = Datasets
    BY <1>4 DEF Catalog!Updated
  <2>2. \A e \in Datasets : e # d => g[e] = m[e]
    BY <1>4 DEF Catalog!Updated
  <2>3. g[d] = m[d]
    <3>1. g[d] = [f[d] EXCEPT !.edited = @ \cup {o}]
      BY <1>4, Zenon DEF Catalog!Updated
    <3>2. m[d] = [x EXCEPT !.edited = q]
      BY <1>4, Zenon
    <3> QED
      BY <1>2, <1>5, <1>7, <3>1, <3>2, Zenon
  <2>4. g = [e \in DOMAIN g |-> g[e]]
    BY DEF Catalog!Updated
  <2> QED
    BY <2>1, <2>2, <2>3, <2>4
<1> QED
  BY <1>1, <1>5, <1>6, <1>8, Zenon

\* The abstract delete.
LEMMA DeletedIs ==
  ASSUME ServiceAssumption, NEW v \in [Datasets -> Held], NEW d \in Datasets, v[d] # Absent, NEW picked
  PROVE  Catalog!Deleted(Shown(v), d, picked) =
           [Shown(v) EXCEPT ![d] = [rows |-> v[d].rows \ Gone(picked, v[d]), edited |-> v[d].edited \ Gone(picked, v[d]),
                                    crs |-> v[d].crs, building |-> v[d].building]]
<1>1. PICK f : f = Shown(v)
  OBVIOUS
<1>2. PICK x : x = f[d]
  OBVIOUS
<1>3. x = [rows |-> v[d].rows, edited |-> v[d].edited, crs |-> v[d].crs, building |-> v[d].building]
  BY <1>1, <1>2, ShownAt
<1>4. f = [e \in Datasets |-> f[e]]
  BY <1>1 DEF Shown
<1>5. PICK gone : gone = Gone(picked, v[d])
  OBVIOUS
<1>6. x.rows = v[d].rows /\ x.edited = v[d].edited
  BY <1>3
<1>7. gone = (picked \cap x.rows) \cup UNION {Parts[o] : o \in picked \cap x.rows}
  BY <1>5, <1>6, Zenon DEF Gone
<1>8. PICK p, q : p = x.rows \ gone /\ q = x.edited \ gone
  OBVIOUS
<1>9. [x EXCEPT !.rows = p, !.edited = q] = [rows |-> p, edited |-> q, crs |-> v[d].crs, building |-> v[d].building]
  <2> DEFINE S == [rows : {v[d].rows, p}, edited : {v[d].edited, q}, crs : {v[d].crs}, building : {v[d].building}]
             y == [x EXCEPT !.rows = p, !.edited = q]
  <2>1. x \in S /\ x.crs = v[d].crs /\ x.building = v[d].building
    BY <1>3
  <2>2. y \in S
    BY <2>1
  <2>3. y.rows = p /\ y.edited = q /\ y.crs = v[d].crs /\ y.building = v[d].building
    BY <2>1
  <2> HIDE DEF y
  <2>4. y = [rows |-> p, edited |-> q, crs |-> v[d].crs, building |-> v[d].building]
    BY <2>2, <2>3
  <2> QED
    BY <2>4 DEF y
<1>10. Catalog!Deleted(f, d, picked) = [f EXCEPT ![d].rows = @ \ gone, ![d].edited = @ \ gone]
  BY <1>2, <1>7, Zenon DEF Catalog!Deleted
<1>11. [f EXCEPT ![d].rows = @ \ gone, ![d].edited = @ \ gone] = [f EXCEPT ![d] = [x EXCEPT !.rows = p, !.edited = q]]
  <2> DEFINE m == [f EXCEPT ![d] = [x EXCEPT !.rows = p, !.edited = q]]
             g == [f EXCEPT ![d].rows = @ \ gone, ![d].edited = @ \ gone]
  <2>1. DOMAIN g = Datasets /\ DOMAIN m = Datasets
    BY <1>4
  <2>2. \A e \in Datasets : e # d => g[e] = m[e]
    BY <1>4
  <2>3. g[d] = m[d]
    <3>1. g[d] = [f[d] EXCEPT !.rows = @ \ gone, !.edited = @ \ gone]
      BY <1>4, Zenon
    <3>2. m[d] = [x EXCEPT !.rows = p, !.edited = q]
      BY <1>4, Zenon
    <3> QED
      BY <1>2, <1>8, <3>1, <3>2, Zenon
  <2>4. g = [e \in DOMAIN g |-> g[e]]
    OBVIOUS
  <2> QED
    BY <2>1, <2>2, <2>3, <2>4
<1>12. p = v[d].rows \ gone /\ q = v[d].edited \ gone
  BY <1>6, <1>8, Zenon
<1> QED
  BY <1>1, <1>5, <1>9, <1>10, <1>11, <1>12, Zenon

\* The operations that change nothing.
Idle == {"touch", "vacuum", "write", "validate", "read"}

\* An operation that has made all of its changes.
AllMade(kind, at) == kind \in Idle \/ (at > Still(kind) /\ (kind = "create" => at >= 20))

\* Where a script commits, answers or is about to end, it has.
LEMMA DonePlaces ==
  ASSUME NEW kind \in Kinds, NEW at \in 1..22,
         \/ StepAt(kind, at) \in {"recount", "describe", "end", "built"}
         \/ StepAt(kind, at) = "commit" /\ kind # "create"
  PROVE  AllMade(kind, at) /\ (kind = "update" => at > 6)
<1> USE DEF StepAt, Script, Still, AllMade, Idle
<1>1. CASE kind = "create"
  BY <1>1
<1>2. CASE kind = "import"
  BY <1>2
<1>3. CASE kind = "ingest"
  BY <1>3
<1>4. CASE kind = "update"
  BY <1>4
<1>5. CASE kind = "delete"
  BY <1>5
<1>6. CASE kind = "merge"
  BY <1>6
<1>7. CASE kind = "reconcile"
  BY <1>7
<1>8. CASE kind = "drop"
  BY <1>8
<1>9. CASE kind \in Idle
  BY <1>9
<1> HIDE DEF StepAt, Script, Still, AllMade
<1> QED
  BY <1>1, <1>2, <1>3, <1>4, <1>5, <1>6, <1>7, <1>8, <1>9 DEF Kinds

\* Then the lake shows what the operation is to make of it.
LEMMA Told ==
  ASSUME ServiceAssumption, NEW op \in Operation, NEW at \in 1..22,
         NEW v \in [Datasets -> Held], NEW w \in [Datasets -> Held], Reached(op, at, v, w),
         AllMade(op.kind, at)
  PROVE  Shown(w) = Outcome(op, Shown(v))
<1>1. op.kind \in Kinds /\ op.d \in Datasets
  BY Operations
<1>2. Shown(w) = [Shown(v) EXCEPT ![op.d] = Seen(w[op.d])]
  <2>1. \A e \in Datasets : e # op.d => w[e] = v[e]
    BY DEF Reached
  <2> QED
    BY <1>1, <2>1, ShownButOne
<1>3. ASSUME op.kind \in Idle
      PROVE  Shown(w) = Outcome(op, Shown(v))
  <2>1. at =< Still(op.kind)
    BY <1>3, StillIs DEF Idle
  <2>2. \A e \in Datasets : w[e] = v[e]
    BY <1>1, <2>1 DEF Reached
  <2>3. w = v
    BY <2>2
  <2> QED
    BY <1>3, <2>3, Zenon DEF Outcome, Idle
<1>4. ASSUME op.kind \notin Idle
      PROVE  /\ Becomes(op, at, v, w[op.d])
             /\ IF op.kind \in {"create", "import"} THEN v[op.d] = Absent ELSE v[op.d] # Absent
             /\ op.kind = "merge" => v[op.e] # Absent
             /\ op.kind = "create" => at \in 20..22
  <2>1. Still(op.kind) \in 1..22
    BY <1>1, <1>4, StillIs DEF Kinds, Idle
  <2>2. ~ (at =< Still(op.kind)) /\ at > 1 /\ (op.kind = "create" => at \in 20..22)
    BY <1>4, <2>1 DEF AllMade
  <2> QED
    BY <2>2 DEF Reached
<1>5. op.kind # "drop" /\ op.kind \notin Idle => w[op.d] \in Schema
  BY <1>1, <1>4 DEF Becomes, Is, Edited, MadeFrom, Kinds, Idle
<1>6. op.kind # "drop" /\ op.kind \notin Idle =>
        Seen(w[op.d]) = [rows |-> w[op.d].rows, edited |-> w[op.d].edited, crs |-> w[op.d].crs,
                         building |-> w[op.d].building]
  <2>1. Absent \notin Schema
    BY DEF ServiceAssumption
  <2> QED
    BY <1>5, <2>1 DEF Seen
<1>7. CASE op.kind \in {"create", "import"}
  <2>1. Outcome(op, Shown(v)) = Catalog!Created(Shown(v), op.d, op.s)
    BY <1>7, Zenon DEF Outcome
  <2>2. Catalog!TableFor(Holds[op.s], "none") = TableFor(Holds[op.s], "none")
    BY DEF Catalog!TableFor, TableFor
  <2>3. /\ w[op.d].rows = Holds[op.s] /\ w[op.d].edited = {} /\ w[op.d].crs = CrsOf[op.s]
        /\ w[op.d].building = TableFor(Holds[op.s], "none")
    <3>1. CASE op.kind = "create"
      <4>1. MadeFrom(op.s, at, w[op.d]) /\ at \in 20..22
        BY <1>4, <3>1 DEF Becomes, Idle
      <4> QED
        BY <4>1 DEF MadeFrom, RowsAt, CrsAt, SeedAt
    <3>2. CASE op.kind = "import"
      <4>1. Is(w[op.d], Holds[op.s], {}, TRUE, CrsOf[op.s], CrsOf[op.s], TableFor(Holds[op.s], "none"))
        BY <1>4, <3>2 DEF Becomes, Idle
      <4> QED
        BY <4>1 DEF Is
    <3> QED
      BY <1>7, <3>1, <3>2
  <2>4. Seen(w[op.d]) = [rows |-> w[op.d].rows, edited |-> w[op.d].edited, crs |-> w[op.d].crs,
                         building |-> w[op.d].building]
    BY <1>6, <1>7 DEF Idle
  <2>5. Seen(w[op.d]) = Catalog!Whole(op.s)
    BY <2>2, <2>3, <2>4 DEF Catalog!Whole
  <2> QED
    BY <1>2, <2>1, <2>5 DEF Catalog!Created
<1>8. CASE op.kind = "drop"
  <2>1. w[op.d] = Absent
    BY <1>4, <1>8 DEF Becomes, Idle
  <2>2. Seen(w[op.d]) = Absent
    BY <2>1 DEF Seen
  <2>3. Outcome(op, Shown(v)) = Catalog!Dropped(Shown(v), op.d)
    BY <1>8, Zenon DEF Outcome
  <2> QED
    BY <1>2, <2>2, <2>3, Zenon DEF Catalog!Dropped
<1>9. CASE op.kind = "ingest"
  <2>1. Is(w[op.d], v[op.d].rows \cup Holds[op.s], v[op.d].edited, v[op.d].fresh, v[op.d].crs, v[op.d].declared,
           TableFor(Holds[op.s], v[op.d].building)) /\ v[op.d] # Absent
    BY <1>4, <1>9 DEF Becomes, Idle
  <2>2. v[op.d].edited \cup {} = v[op.d].edited
    OBVIOUS
  <2>3. Outcome(op, Shown(v)) = Catalog!Filled(Shown(v), op.d, Holds[op.s], {})
    BY <1>9, Zenon DEF Outcome, Catalog!Ingested
  <2>4. Catalog!Filled(Shown(v), op.d, Holds[op.s], {}) =
          [Shown(v) EXCEPT ![op.d] = [rows |-> v[op.d].rows \cup Holds[op.s], edited |-> v[op.d].edited \cup {},
                              crs |-> v[op.d].crs, building |-> TableFor(Holds[op.s], v[op.d].building)]]
    BY <1>1, <2>1, FilledIs, Zenon
  <2>5. Seen(w[op.d]) = [rows |-> w[op.d].rows, edited |-> w[op.d].edited, crs |-> w[op.d].crs,
                         building |-> w[op.d].building]
    BY <1>6, <1>9 DEF Idle
  <2>6. /\ w[op.d].rows = v[op.d].rows \cup Holds[op.s] /\ w[op.d].edited = v[op.d].edited \cup {}
        /\ w[op.d].crs = v[op.d].crs /\ w[op.d].building = TableFor(Holds[op.s], v[op.d].building)
    BY <2>1, <2>2 DEF Is
  <2> QED
    BY <1>2, <2>3, <2>4, <2>5, <2>6, Zenon
<1>10. CASE op.kind = "merge"
  <2>1. Is(w[op.d], v[op.d].rows \cup v[op.e].rows, v[op.d].edited \cup v[op.e].edited, v[op.d].fresh, v[op.d].crs,
           v[op.d].declared, TableFor(v[op.e].rows, v[op.d].building)) /\ v[op.d] # Absent /\ v[op.e] # Absent
    BY <1>4, <1>10 DEF Becomes, Idle
  <2>2. Shown(v)[op.e].rows = v[op.e].rows /\ Shown(v)[op.e].edited = v[op.e].edited
    <3>1. op.e \in Datasets
      BY <1>10, Operations
    <3>2. Shown(v)[op.e] = [rows |-> v[op.e].rows, edited |-> v[op.e].edited, crs |-> v[op.e].crs,
                            building |-> v[op.e].building]
      BY <2>1, <3>1, ShownAt
    <3> QED
      BY <3>2
  <2>3. Outcome(op, Shown(v)) = Catalog!Filled(Shown(v), op.d, v[op.e].rows, v[op.e].edited)
    BY <1>10, <2>2, Zenon DEF Outcome, Catalog!Merged
  <2>4. Catalog!Filled(Shown(v), op.d, v[op.e].rows, v[op.e].edited) =
          [Shown(v) EXCEPT ![op.d] = [rows |-> v[op.d].rows \cup v[op.e].rows,
                              edited |-> v[op.d].edited \cup v[op.e].edited,
                              crs |-> v[op.d].crs, building |-> TableFor(v[op.e].rows, v[op.d].building)]]
    BY <1>1, <2>1, FilledIs, Zenon
  <2>5. Seen(w[op.d]) = [rows |-> w[op.d].rows, edited |-> w[op.d].edited, crs |-> w[op.d].crs,
                         building |-> w[op.d].building]
    BY <1>6, <1>10 DEF Idle
  <2>6. /\ w[op.d].rows = v[op.d].rows \cup v[op.e].rows /\ w[op.d].edited = v[op.d].edited \cup v[op.e].edited
        /\ w[op.d].crs = v[op.d].crs /\ w[op.d].building = TableFor(v[op.e].rows, v[op.d].building)
    BY <2>1 DEF Is
  <2> QED
    BY <1>2, <2>3, <2>4, <2>5, <2>6, Zenon
<1>11. CASE op.kind = "update"
  <2>1. Edited(w[op.d], v[op.d], op.o) /\ v[op.d] # Absent
    BY <1>4, <1>11 DEF Becomes, Idle
  <2>2. Outcome(op, Shown(v)) = Catalog!Updated(Shown(v), op.d, op.o)
    BY <1>11, Zenon DEF Outcome
  <2>3. Catalog!Updated(Shown(v), op.d, op.o) =
          [Shown(v) EXCEPT ![op.d] = [rows |-> v[op.d].rows, edited |-> v[op.d].edited \cup {op.o},
                              crs |-> v[op.d].crs, building |-> v[op.d].building]]
    BY <1>1, <2>1, UpdatedIs, Zenon
  <2>4. Seen(w[op.d]) = [rows |-> w[op.d].rows, edited |-> w[op.d].edited, crs |-> w[op.d].crs,
                         building |-> w[op.d].building]
    BY <1>6, <1>11 DEF Idle
  <2>5. /\ w[op.d].rows = v[op.d].rows /\ w[op.d].edited = v[op.d].edited \cup {op.o}
        /\ w[op.d].crs = v[op.d].crs /\ w[op.d].building = v[op.d].building
    BY <2>1 DEF Edited
  <2> QED
    BY <1>2, <2>2, <2>3, <2>4, <2>5, Zenon
<1>12. CASE op.kind = "delete"
  <2>1. Is(w[op.d], v[op.d].rows \ Gone(op.picked, v[op.d]), v[op.d].edited \ Gone(op.picked, v[op.d]), v[op.d].fresh,
           v[op.d].crs, v[op.d].declared, v[op.d].building) /\ v[op.d] # Absent
    BY <1>4, <1>12 DEF Becomes, Idle
  <2>2. Outcome(op, Shown(v)) = Catalog!Deleted(Shown(v), op.d, op.picked)
    BY <1>12, Zenon DEF Outcome
  <2>3. Catalog!Deleted(Shown(v), op.d, op.picked) =
          [Shown(v) EXCEPT ![op.d] = [rows |-> v[op.d].rows \ Gone(op.picked, v[op.d]),
                              edited |-> v[op.d].edited \ Gone(op.picked, v[op.d]),
                              crs |-> v[op.d].crs, building |-> v[op.d].building]]
    BY <1>1, <2>1, DeletedIs, Zenon
  <2>4. Seen(w[op.d]) = [rows |-> w[op.d].rows, edited |-> w[op.d].edited, crs |-> w[op.d].crs,
                         building |-> w[op.d].building]
    BY <1>6, <1>12 DEF Idle
  <2>5. /\ w[op.d].rows = v[op.d].rows \ Gone(op.picked, v[op.d])
        /\ w[op.d].edited = v[op.d].edited \ Gone(op.picked, v[op.d])
        /\ w[op.d].crs = v[op.d].crs /\ w[op.d].building = v[op.d].building
    BY <2>1 DEF Is
  <2> QED
    BY <1>2, <2>2, <2>3, <2>4, <2>5, Zenon
<1>13. CASE op.kind = "reconcile"
  <2>1. Is(w[op.d], v[op.d].rows, v[op.d].edited, TRUE, v[op.d].crs, v[op.d].declared, v[op.d].building)
          /\ v[op.d] # Absent
    BY <1>4, <1>13 DEF Becomes, Idle
  <2>2. Outcome(op, Shown(v)) = Shown(v)
    BY <1>13, Zenon DEF Outcome
  <2>3. Seen(w[op.d]) = [rows |-> w[op.d].rows, edited |-> w[op.d].edited, crs |-> w[op.d].crs,
                         building |-> w[op.d].building]
    BY <1>6, <1>13 DEF Idle
  <2>4. Shown(v)[op.d] = [rows |-> v[op.d].rows, edited |-> v[op.d].edited, crs |-> v[op.d].crs,
                          building |-> v[op.d].building]
    BY <1>1, <2>1, ShownAt
  <2>5. Seen(w[op.d]) = Shown(v)[op.d]
    BY <2>1, <2>3, <2>4 DEF Is
  <2>6. Shown(v) = [Shown(v) EXCEPT ![op.d] = Shown(v)[op.d]]
    BY DEF Shown
  <2> QED
    BY <1>2, <2>2, <2>5, <2>6, Zenon
<1> QED
  BY <1>1, <1>3, <1>7, <1>8, <1>9, <1>10, <1>11, <1>12, <1>13 DEF Kinds, Idle
-----------------------------------------------------------------------------
(* A call that goes on.                                                     *)

\* It is at at in scopes, the others are where they were.
Moved(r, at, scopes, failed) ==
  /\ call' \in [Requests -> Call \cup {NoCall}]
  /\ call'[r] \in Call
  /\ call'[r].op = call[r].op /\ call'[r].start = call[r].start
  /\ call'[r].at = at /\ call'[r].scopes = scopes /\ call'[r].failed = failed

\* What Move and Error make of it.
LEMMA Moves ==
  ASSUME NEW r \in Requests, call \in [Requests -> Call \cup {NoCall}], call[r] \in Call,
         NEW at \in 1..22, NEW scopes \in Stacks
  PROVE  /\ ~call[r].failed /\ Move(r, at, scopes) => Moved(r, at, scopes, FALSE)
         /\ Error(r, scopes) => Moved(r, call[r].at, scopes, TRUE)
<1>1. ASSUME ~call[r].failed, Move(r, at, scopes) PROVE Moved(r, at, scopes, FALSE)
  <2> DEFINE x == [call[r] EXCEPT !.at = at, !.scopes = scopes]
  <2>1. x \in Call
    BY DEF Call
  <2>2. /\ x.op = call[r].op /\ x.start = call[r].start /\ x.failed = FALSE
        /\ x.at = at /\ x.scopes = scopes
    BY <1>1 DEF Call
  <2>3. call'[r] = x /\ DOMAIN call' = Requests /\ call' = [q \in Requests |-> call'[q]]
        /\ \A q \in Requests : q # r => call'[q] = call[q]
    BY <1>1 DEF Move
  <2>4. \A q \in Requests : call'[q] \in Call \cup {NoCall}
    BY <2>1, <2>3
  <2>5. call' \in [Requests -> Call \cup {NoCall}]
    BY <2>3, <2>4
  <2> QED
    BY <2>1, <2>2, <2>3, <2>5 DEF Moved
<1>2. ASSUME Error(r, scopes) PROVE Moved(r, call[r].at, scopes, TRUE)
  <2> DEFINE x == [call[r] EXCEPT !.failed = TRUE, !.scopes = scopes]
  <2>1. x \in Call
    BY DEF Call
  <2>2. /\ x.op = call[r].op /\ x.start = call[r].start /\ x.at = call[r].at
        /\ x.failed = TRUE /\ x.scopes = scopes
    BY DEF Call
  <2>3. call'[r] = x /\ DOMAIN call' = Requests /\ call' = [q \in Requests |-> call'[q]]
        /\ \A q \in Requests : q # r => call'[q] = call[q]
    BY <1>2 DEF Error
  <2>4. \A q \in Requests : call'[q] \in Call \cup {NoCall}
    BY <2>1, <2>3
  <2>5. call' \in [Requests -> Call \cup {NoCall}]
    BY <2>3, <2>4
  <2> QED
    BY <2>1, <2>2, <2>3, <2>5 DEF Moved
<1> QED
  BY <1>1, <1>2

\* What is known of a call.
LEMMA Here ==
  ASSUME ServiceAssumption, IInv, NEW r \in Requests, Running(r)
  PROVE  /\ call[r] \in Call /\ Op(r) = call[r].op /\ Op(r) \in Operation /\ Op(r).kind \in Kinds
         /\ Op(r).d \in Datasets /\ call[r].at \in 1..22 /\ call[r].start \in [Datasets -> Held]
         /\ call[r].scopes \in Stacks
         /\ Now(r) = StepAt(Op(r).kind, call[r].at)
         /\ Now(r) # "end" => call[r].at + 1 \in 1..22 /\ call[r].at < EndOf(Op(r).kind)
         /\ AtEnd(r) <=> Now(r) = "end"
         /\ ~call[r].failed => /\ call[r].scopes = ScopesAt(Op(r).kind, call[r].at)
                               /\ Reached(Op(r), call[r].at, call[r].start, work)
<1>1. call[r] \in Call
  BY DEF IInv, TypeOK
<1>2. call[r].op \in Operation /\ call[r].at \in 1..22 /\ call[r].start \in [Datasets -> Held] /\ call[r].scopes \in Stacks
  BY <1>1 DEF Call
<1>3. Op(r) = call[r].op /\ Op(r).kind \in Kinds /\ Op(r).d \in Datasets
  BY <1>2, Operations DEF Op
<1>4. EndOf(Op(r).kind) \in 1..22 /\ Len(Script[Op(r).kind]) = EndOf(Op(r).kind) - 1
      /\ ((call[r].at >= EndOf(Op(r).kind)) <=> StepAt(Op(r).kind, call[r].at) = "end")
  BY <1>2, <1>3, ScriptEnds
<1>5. Now(r) = StepAt(Op(r).kind, call[r].at)
  BY DEF Now, StepAt, AtEnd, Steps
<1> DEFINE k == Op(r).kind
<1>6. AtEnd(r) <=> call[r].at >= EndOf(k)
  <2>1. PICK at \in 1..22, end \in 1..22 : at = call[r].at /\ end = EndOf(k)
    BY <1>2, <1>4
  <2>2. AtEnd(r) <=> at > Len(Script[k])
    BY <2>1 DEF AtEnd, Steps
  <2>3. Len(Script[k]) = end - 1
    BY <1>4, <2>1
  <2>4. at > end - 1 <=> at >= end
    OBVIOUS
  <2>5. AtEnd(r) <=> at >= end
    BY <2>2, <2>3, <2>4
  <2> QED
    BY <2>1, <2>5
<1>7. Now(r) # "end" => call[r].at + 1 \in 1..22 /\ call[r].at < EndOf(k)
  <2>1. PICK at \in 1..22, end \in 1..22 : at = call[r].at /\ end = EndOf(k)
    BY <1>2, <1>4
  <2>2. Now(r) # "end" => ~ (at >= end)
    BY <1>4, <1>5, <2>1
  <2>3. ~ (at >= end) => at + 1 \in 1..22 /\ at < end
    OBVIOUS
  <2> QED
    BY <2>1, <2>2, <2>3
<1>8. ~call[r].failed => /\ call[r].scopes = ScopesAt(Op(r).kind, call[r].at)
                         /\ Reached(Op(r), call[r].at, call[r].start, work)
  BY <1>3 DEF IInv, InScope, InHand
<1> QED
  BY <1>1, <1>2, <1>3, <1>4, <1>5, <1>6, <1>7, <1>8

\* It alone runs, and no other begins to.
LEMMA Alone ==
  ASSUME IInv, NEW r \in Requests, Running(r)
  PROVE  /\ \A q \in Requests : Running(q) <=> q = r
         /\ status' = status => \A q \in Requests : Running(q)' <=> q = r
         /\ \A d : Building(d) <=> call[r].scopes \notin Unbuilt /\ call[r].op.d = d
<1>1. \A q \in Requests : Running(q) <=> q = r
  BY DEF IInv, Turns
<1>2. status' = status => \A q \in Requests : Running(q)' <=> q = r
  BY <1>1 DEF Running
<1>3. call[r].scopes \in Stacks
  BY DEF IInv, TypeOK, Call
<1>4. \A d : Building(d) <=> call[r].scopes \notin Unbuilt /\ call[r].op.d = d
  BY <1>1, <1>3, StackHolds DEF Building, Inside, Op
<1> QED
  BY <1>1, <1>2, <1>4

\* What is to be shown of a step of it.
LEMMA GoesOn ==
  ASSUME IInv, NEW r \in Requests, Running(r), status' = status, poisoned' = poisoned, kills' = kills,
         NEW at, NEW scopes, NEW failed, Moved(r, at, scopes, failed),
         txn' \in BOOLEAN, lake' \in [Datasets -> Held], work' \in [Datasets -> Held],
         path' \in {"memory", "lake"}, probes' \subseteq {"memory"} \X Datasets, unfinished' \subseteq Datasets,
         ~txn' => work' = lake', InScope(r)', InHand(r)', GuardIsOn'
  PROVE  IInv'
<1>1. \A q \in Requests : Running(q)' <=> q = r
  BY Alone
<1>2. TypeOK'
  BY <1>1 DEF IInv, TypeOK, Moved
<1>3. Turns'
  BY <1>1, Alone DEF IInv, Turns
<1> QED
  BY <1>1, <1>2, <1>3 DEF IInv

\* A step that does not change the lake, and leaves nothing that was built.
LEMMA GuardStays ==
  ASSUME IInv, NEW r \in Requests, Running(r), status' = status,
         NEW at, NEW scopes, NEW failed, Moved(r, at, scopes, failed), scopes \in Stacks,
         lake' = lake, unfinished \subseteq unfinished',
         call[r].scopes \notin Unbuilt =>
           scopes \notin Unbuilt \/ call[r].op.d \in unfinished' \/ Sound(lake[call[r].op.d])
  PROVE  GuardIsOn'
<1>1. \A q \in Requests : Running(q)' <=> q = r
  BY Alone
<1>2. \A d : Building(d)' <=> scopes \notin Unbuilt /\ call[r].op.d = d
  BY <1>1, StackHolds DEF Building, Inside, Op, Moved
<1>3. \A d : Building(d) <=> call[r].scopes \notin Unbuilt /\ call[r].op.d = d
  BY Alone
<1>4. GuardIsOn
  BY DEF IInv
<1> QED
  BY <1>2, <1>3, <1>4 DEF GuardIsOn

\* Outside transactions only a footer and a drop change the lake.
LEMMA OpenPlaces ==
  ASSUME NEW kind \in Kinds, NEW at \in 1..22, StepAt(kind, at) \notin Control,
         ScopesAt(kind, at) \notin Transactions
  PROVE  \/ kind = "create" /\ at = 19 /\ StepAt(kind, at) = "footer"
         \/ kind = "drop" /\ at = 2 /\ StepAt(kind, at) = "drop"
         \/ StepAt(kind, at) \in Quiet
<1>1. PICK s : s = StepAt(kind, at)
  OBVIOUS
<1>2. CASE kind = "create"
  <2>1. at \in {4, 6, 7, 12, 13} => ScopesAt("create", at) \in Transactions
    BY StackHolds DEF ScopesAt, Transactions
  <2>2. at \in {1, 3, 4, 6, 7, 12, 13, 19, 21}
    BY <1>1, <1>2, Places
  <2>3. at \in {1, 3, 19, 21}
    BY <1>2, <2>1, <2>2
  <2>4. at # 3
    BY <1>2, StackHolds DEF ScopesAt, Transactions
  <2> QED
    BY <1>1, <1>2, <2>3, <2>4, Places DEF Quiet
<1>3. CASE kind \in {"import", "update", "merge", "reconcile"}
  <2>1. at \in {4, 6} => ScopesAt(kind, at) \in Transactions
    BY <1>3, StackHolds DEF ScopesAt, Transactions
  <2> QED
    BY <1>1, <1>3, <2>1, Places DEF Quiet
<1>4. CASE kind \in {"ingest", "delete"}
  <2>1. at = 5 => ScopesAt(kind, at) \in Transactions
    BY <1>4, StackHolds DEF ScopesAt, Transactions
  <2> QED
    BY <1>1, <1>4, <2>1, Places DEF Quiet
<1>5. CASE kind = "drop"
  BY <1>1, <1>5, Places DEF Quiet
<1>6. CASE kind \in {"touch", "vacuum", "write", "validate", "read"}
  BY <1>1, <1>6, Places DEF Quiet
<1> QED
  BY <1>2, <1>3, <1>4, <1>5, <1>6 DEF Kinds

\* A statement that is done.
LEMMA StatementDone ==
  ASSUME ServiceAssumption, IInv, NEW r \in Requests, Statement(r)
  PROVE  IInv'
<1> DEFINE op == Op(r)
           at == call[r].at
           v == call[r].start
           x == call[r].scopes
           s == Now(r)
<1>1. /\ Running(r) /\ ~call[r].failed /\ s \notin Control /\ Accepts(s, op)
      /\ Forward(r) /\ status' = status /\ poisoned' = poisoned /\ kills' = kills
      /\ txn' = txn /\ path' = path /\ probes' = probes
      /\ work' = [work EXCEPT ![op.d] = Effect(s, op, work[op.d])]
      /\ lake' = IF txn THEN lake ELSE work'
      /\ unfinished' = IF s = "drop" THEN unfinished \ {op.d} ELSE unfinished
  BY DEF Statement, Put
<1>2. /\ op \in Operation /\ op.kind \in Kinds /\ op.d \in Datasets /\ at \in 1..22
      /\ v \in [Datasets -> Held] /\ x \in Stacks /\ s = StepAt(op.kind, at) /\ call[r].op = op
      /\ x = ScopesAt(op.kind, at) /\ Reached(op, at, v, work)
  BY <1>1, Here
<1>3. s # "end" /\ at + 1 \in 1..22 /\ at < EndOf(op.kind) /\ EndOf(op.kind) \in 1..22
  BY <1>1, <1>2, Here, ScriptEnds DEF Control
<1>4. Moved(r, at + 1, x, FALSE)
  <2>1. call \in [Requests -> Call \cup {NoCall}] /\ call[r] \in Call /\ ~call[r].failed
    BY <1>1 DEF IInv, TypeOK
  <2>2. Move(r, at + 1, x)
    BY <1>1 DEF Forward
  <2> QED
    BY <1>2, <1>3, <2>1, <2>2, Moves
<1>5. /\ txn <=> x \in Transactions
      /\ x \in {InPath, InBoth} => path = "lake"
      /\ x \notin Unbuilt => op.kind = "create"
      /\ op.kind = "create" /\ at > 8 => path = "memory"
  BY <1>1, <1>2 DEF IInv, InScope
<1>6. /\ lake \in [Datasets -> Held] /\ work \in [Datasets -> Held] /\ unfinished \subseteq Datasets
      /\ ~txn => work = lake
      /\ x \notin Unbuilt => Half(op, v, lake)
      /\ x \in {InTxn, InBoth} => lake = v
  BY <1>1, <1>2 DEF IInv, TypeOK, Turns, InHand
<1>7. work' \in [Datasets -> Held] /\ Reached(op, at + 1, v, work')
  <2>1. Doing(op, at, v, s)
    BY <1>1, <1>2, <1>6 DEF Doing
  <2> QED
    BY <1>1, <2>1, StatementStep
<1>8. ScopesAt(op.kind, at + 1) = x
  <2>1. Nests(op.kind, at)
    BY <1>2, CreateNests, OthersNest
  <2> QED
    BY <1>1, <1>2, <1>3, <2>1 DEF Nests, Control
<1>9. \/ txn /\ s # "drop"
      \/ ~txn /\ op.kind = "create" /\ at = 19 /\ s = "footer" /\ x = InBuilt
      \/ ~txn /\ op.kind = "drop" /\ at = 2 /\ s = "drop" /\ x = Free
      \/ ~txn /\ s \in Quiet
  <2>1. Nests(op.kind, at)
    BY <1>2, CreateNests, OthersNest
  <2>2. /\ s = "drop" => x = Free
        /\ s = "footer" => x = InBuilt
    BY <1>2, <2>1 DEF Nests
  <2>3. Free \notin Transactions
    BY StackHolds DEF Transactions, Unbuilt
  <2>4. x \notin Transactions =>
          \/ op.kind = "create" /\ at = 19 /\ s = "footer"
          \/ op.kind = "drop" /\ at = 2 /\ s = "drop"
          \/ s \in Quiet
    BY <1>1, <1>2, OpenPlaces
  <2> QED
    BY <1>5, <2>2, <2>3, <2>4
<1>10. s \in Quiet => work' = work
  <2>1. s \in Quiet => Effect(s, op, work[op.d]) = work[op.d]
    BY QuietIs
  <2> QED
    BY <1>1, <1>2, <1>6, <2>1
<1>11. s \in Quiet => s # "drop"
  BY DEF Quiet
<1>12. InScope(r)'
  <2>1. op.kind = "create" /\ at + 1 > 8 => path' = "memory"
    <3>1. op.kind = "create" => at # 8
      <4>1. op.kind = "create" => KeepsPath(at)
        BY <1>2, CreateNests
      <4> QED
        BY <1>1, <1>2, <4>1 DEF KeepsPath, Control
    <3>2. at + 1 > 8 /\ at # 8 => at > 8
      BY <1>2
    <3> QED
      BY <1>1, <1>5, <3>1, <3>2
  <2>2. at + 1 =< EndOf(op.kind)
    BY <1>2, <1>3
  <2> QED
    BY <1>1, <1>2, <1>4, <1>5, <1>8, <2>1, <2>2 DEF InScope, Moved
<1>13. x \notin Unbuilt => Half(op, v, lake')
  <2>1. ASSUME ~txn, op.kind = "create", at = 19
        PROVE  Half(op, v, lake')
    <3>1. Reached(op, 20, v, work')
      BY <1>7, <2>1
    <3> QED
      BY <1>1, <1>2, <2>1, <3>1, HalfDone
  <2>2. ASSUME ~txn, s \in Quiet, x \notin Unbuilt
        PROVE  Half(op, v, lake')
    BY <1>1, <1>6, <1>10, <2>2
  <2>3. Free \in Unbuilt
    BY DEF Unbuilt
  <2> QED
    BY <1>1, <1>6, <1>9, <2>1, <2>2, <2>3
<1>14. x \in {InTxn, InBoth} => lake' = v
  <2>1. InTxn \in Transactions /\ InBoth \in Transactions
    BY DEF Transactions
  <2> QED
    BY <1>1, <1>5, <1>6, <2>1
<1>15. InHand(r)'
  BY <1>2, <1>4, <1>7, <1>13, <1>14 DEF InHand, Moved
<1>16. GuardIsOn'
  <2>1. CASE lake' = lake /\ unfinished' = unfinished
    BY <1>1, <1>2, <1>4, <2>1, GuardStays
  <2>2. \A d : Building(d)' <=> x \notin Unbuilt /\ op.d = d
    <3>1. \A q \in Requests : Running(q)' <=> q = r
      BY <1>1, Alone
    <3> QED
      BY <1>2, <1>4, <3>1, StackHolds DEF Building, Inside, Op, Moved
  <2>3. \A d : Building(d) <=> x \notin Unbuilt /\ op.d = d
    BY <1>1, <1>2, Alone
  <2>4. GuardIsOn
    BY DEF IInv
  <2>5. \A d \in Datasets : d # op.d => work'[d] = work[d]
    BY <1>1, <1>6
  <2>6. CASE ~txn /\ op.kind = "create" /\ at = 19 /\ s = "footer" /\ x = InBuilt
    <3>1. Reached(op, 20, v, work')
      BY <1>7, <2>6
    <3>2. Derived(work'[op.d])
      BY <1>1, <1>2, <2>6, <3>1, HalfDone
    <3>3. InBuilt \notin Unbuilt
      BY StackHolds
    <3>4. lake' = work' /\ unfinished' = unfinished /\ work = lake
      BY <1>1, <1>6, <2>6
    <3> QED
      BY <2>2, <2>3, <2>4, <2>5, <2>6, <3>2, <3>3, <3>4 DEF GuardIsOn
  <2>7. CASE ~txn /\ op.kind = "drop" /\ at = 2 /\ s = "drop" /\ x = Free
    <3>1. work'[op.d] = Absent
      <4>1. Becomes(op, 3, v, work'[op.d])
        BY <1>7, <2>7, StillIs DEF Reached
      <4> QED
        BY <2>7, <4>1 DEF Becomes
    <3>2. lake' = work' /\ unfinished' = unfinished \ {op.d} /\ work = lake
      BY <1>1, <1>6, <2>7
    <3> QED
      BY <2>2, <2>3, <2>4, <2>5, <3>1, <3>2 DEF GuardIsOn
  <2>8. CASE txn /\ s # "drop"
    BY <1>1, <2>1, <2>8
  <2>9. CASE ~txn /\ s \in Quiet
    BY <1>1, <1>6, <1>10, <1>11, <2>1, <2>9
  <2> QED
    BY <1>9, <2>6, <2>7, <2>8, <2>9
<1>17. /\ txn' \in BOOLEAN /\ lake' \in [Datasets -> Held] /\ path' \in {"memory", "lake"}
       /\ probes' \subseteq {"memory"} \X Datasets /\ unfinished' \subseteq Datasets
       /\ ~txn' => work' = lake'
  BY <1>1, <1>6, <1>7 DEF IInv, TypeOK
<1> QED
  BY <1>1, <1>4, <1>7, <1>12, <1>15, <1>16, <1>17, GoesOn

\* A statement that does not change the lake and leads to the next scopes.
LEMMA ScopesGoOn ==
  ASSUME ServiceAssumption, IInv, NEW r \in Requests, Running(r),
         status' = status, poisoned' = poisoned, kills' = kills,
         NEW to \in 1..22, NEW y \in Stacks, Moved(r, to, y, FALSE),
         lake' = lake, work' = work, unfinished' = unfinished,
         txn' \in BOOLEAN, path' \in {"memory", "lake"}, probes' \subseteq {"memory"} \X Datasets,
         y = ScopesAt(call[r].op.kind, to), to =< EndOf(call[r].op.kind),
         Reached(call[r].op, to, call[r].start, work),
         txn' <=> y \in Transactions, ~txn' => ~txn,
         y \in {InPath, InBoth} => path' = "lake",
         call[r].op.kind = "create" /\ to > 8 => path' = "memory",
         y \notin Unbuilt => call[r].scopes \notin Unbuilt,
         call[r].scopes \notin Unbuilt => y \notin Unbuilt \/ Sound(lake[call[r].op.d]),
         y \in {InTxn, InBoth} => lake = call[r].start
  PROVE  IInv'
<1>1. /\ call[r].scopes \notin Unbuilt => call[r].op.kind = "create" /\ Half(call[r].op, call[r].start, lake)
      /\ lake \in [Datasets -> Held] /\ work \in [Datasets -> Held] /\ unfinished \subseteq Datasets
      /\ ~txn => work = lake
  BY DEF IInv, InScope, InHand, TypeOK, Turns
<1>2. InScope(r)'
  BY <1>1 DEF InScope, Moved
<1>3. InHand(r)'
  BY <1>1 DEF InHand, Moved
<1>4. GuardIsOn'
  BY GuardStays
<1>5. ~txn' => work' = lake'
  BY <1>1
<1> QED
  BY <1>1, <1>2, <1>3, <1>4, <1>5, GoesOn

\* A step of a call that has failed, or that fails it.
LEMMA ErrorGoesOn ==
  ASSUME ServiceAssumption, IInv, NEW r \in Requests, Running(r),
         status' = status, poisoned' = poisoned, kills' = kills,
         NEW y \in Stacks, Moved(r, call[r].at, y, TRUE),
         txn' \in BOOLEAN, lake' \in [Datasets -> Held], work' \in [Datasets -> Held],
         path' \in {"memory", "lake"}, probes' \subseteq {"memory"} \X Datasets, unfinished' \subseteq Datasets,
         ~txn' => work' = lake',
         txn' <=> y \in Transactions,
         y \in {InPath, InBoth} => path' = "lake",
         y \notin Unbuilt => call[r].scopes \notin Unbuilt /\ lake' = lake,
         y \in {InTxn, InBoth} => lake' = call[r].start,
         y \in Unbuilt =>
           \/ lake' = call[r].start
           \/ Late(r) /\ Reached(call[r].op, call[r].at, call[r].start, lake')
           \/ call[r].op.kind = "create" /\ call[r].op.d \in unfinished',
         GuardIsOn'
  PROVE  IInv'
<1>1. /\ call[r].scopes \notin Unbuilt => call[r].op.kind = "create" /\ Half(call[r].op, call[r].start, lake)
      /\ call[r].at =< EndOf(call[r].op.kind)
  BY DEF IInv, InScope, InHand
<1>2. InScope(r)'
  BY <1>1 DEF InScope, Moved
<1>3. Late(r)' <=> Late(r)
  BY DEF Late, Now, AtEnd, Steps, Op, Moved
<1>4. InHand(r)'
  BY <1>1, <1>3 DEF InHand, Moved
<1> QED
  BY <1>2, <1>4, GoesOn

\* What is known of the session of a call.
LEMMA Session ==
  ASSUME ServiceAssumption, IInv, NEW r \in Requests, Running(r)
  PROVE  /\ txn <=> call[r].scopes \in Transactions
         /\ call[r].scopes \in {InPath, InBoth} => path = "lake"
         /\ call[r].scopes \notin Unbuilt => Op(r).kind = "create" /\ Half(Op(r), call[r].start, lake)
         /\ call[r].scopes \in {InTxn, InBoth} => lake = call[r].start
         /\ ~txn => work = lake
         /\ call \in [Requests -> Call \cup {NoCall}] /\ txn \in BOOLEAN
         /\ lake \in [Datasets -> Held] /\ work \in [Datasets -> Held] /\ path \in {"memory", "lake"}
         /\ probes \subseteq {"memory"} \X Datasets /\ unfinished \subseteq Datasets
         /\ ~call[r].failed =>
              /\ Nests(Op(r).kind, call[r].at)
              /\ Op(r).kind = "create" => KeepsPath(call[r].at) /\ (call[r].at > 8 => path = "memory")
<1>1. /\ txn <=> call[r].scopes \in Transactions
      /\ call[r].scopes \in {InPath, InBoth} => path = "lake"
      /\ call[r].scopes \notin Unbuilt => Op(r).kind = "create" /\ Half(Op(r), call[r].start, lake)
      /\ call[r].scopes \in {InTxn, InBoth} => lake = call[r].start
      /\ ~call[r].failed /\ Op(r).kind = "create" /\ call[r].at > 8 => path = "memory"
  BY DEF IInv, InScope, InHand, Op
<1>2. /\ ~txn => work = lake
      /\ call \in [Requests -> Call \cup {NoCall}] /\ txn \in BOOLEAN
      /\ lake \in [Datasets -> Held] /\ work \in [Datasets -> Held] /\ path \in {"memory", "lake"}
      /\ probes \subseteq {"memory"} \X Datasets /\ unfinished \subseteq Datasets
  BY DEF IInv, TypeOK, Turns
<1>3. Nests(Op(r).kind, call[r].at) /\ (Op(r).kind = "create" => KeepsPath(call[r].at))
  <2>1. Op(r).kind \in Kinds /\ call[r].at \in 1..22
    BY Here
  <2> QED
    BY <2>1, CreateNests, OthersNest
<1> QED
  BY <1>1, <1>2, <1>3

\* A statement that fails.
LEMMA StatementFails ==
  ASSUME ServiceAssumption, IInv, NEW r \in Requests, Fails(r)
  PROVE  IInv'
<1> DEFINE op == Op(r)
           at == call[r].at
           v == call[r].start
           x == call[r].scopes
<1>1. /\ Running(r) /\ ~call[r].failed /\ Now(r) \notin Control \ Fallible /\ Error(r, x)
      /\ status' = status /\ poisoned' = poisoned /\ kills' = kills /\ unfinished' = unfinished
      /\ txn' = txn /\ path' = path /\ probes' = probes /\ work' = work /\ lake' = lake
  BY DEF Fails, session
<1>2. /\ op \in Operation /\ op.kind \in Kinds /\ at \in 1..22 /\ call[r].op = op
      /\ v \in [Datasets -> Held] /\ x \in Stacks /\ Now(r) = StepAt(op.kind, at)
      /\ x = ScopesAt(op.kind, at) /\ Reached(op, at, v, work) /\ call[r] \in Call
  BY <1>1, Here
<1>3. Moved(r, at, x, TRUE)
  <2>1. call \in [Requests -> Call \cup {NoCall}]
    BY <1>1, Session
  <2> QED
    BY <1>1, <1>2, <2>1, Moves
<1>4. Now(r) # "end"
  BY <1>1 DEF Control, Fallible
<1>5. x \in Unbuilt => lake' = v \/ (Late(r) /\ Reached(op, at, v, lake'))
  <2>1. x \in {InTxn, InBoth} => lake = v
    BY <1>1, Session
  <2>2. ASSUME x \in {Free, InPath}, Late(r)
        PROVE  Reached(op, at, v, lake)
    <3>1. x \notin Transactions
      BY <2>2, StackHolds DEF Transactions, Unbuilt
    <3>2. work = lake
      BY <1>1, <3>1, Session
    <3> QED
      BY <1>2, <3>2
  <2>3. ASSUME x \in {Free, InPath}, ~Late(r)
        PROVE  lake = v
    <3>1. x \notin Transactions
      BY <2>3, StackHolds DEF Transactions, Unbuilt
    <3>2. work = lake /\ work \in [Datasets -> Held]
      BY <1>1, <3>1, Session
    <3>3. StepAt(op.kind, at) \notin {"recount", "describe", "end"}
      BY <1>2, <1>4, <2>3 DEF Late
    <3>4. ScopesAt(op.kind, at) \in {Free, InPath}
      BY <1>2, <2>3
    <3>5. work = v
      BY <1>2, <3>2, <3>3, <3>4, Untouched
    <3> QED
      BY <3>2, <3>5
  <2> QED
    BY <1>1, <2>1, <2>2, <2>3 DEF Unbuilt
<1>6. GuardIsOn'
  BY <1>1, <1>2, <1>3, GuardStays
<1>7. /\ txn' \in BOOLEAN /\ lake' \in [Datasets -> Held] /\ work' \in [Datasets -> Held]
      /\ path' \in {"memory", "lake"} /\ probes' \subseteq {"memory"} \X Datasets /\ unfinished' \subseteq Datasets
      /\ ~txn' => work' = lake'
      /\ txn' <=> x \in Transactions
      /\ x \in {InPath, InBoth} => path' = "lake"
      /\ x \in {InTxn, InBoth} => lake' = v
  BY <1>1, Session
<1> QED
  BY <1>1, <1>2, <1>3, <1>5, <1>6, <1>7, ErrorGoesOn

\* BEGIN.
LEMMA BeginDone ==
  ASSUME ServiceAssumption, IInv, NEW r \in Requests, Begin(r)
  PROVE  IInv'
<1> DEFINE op == Op(r)
           at == call[r].at
           v == call[r].start
           x == call[r].scopes
           y == ScopesAt(op.kind, at + 1)
<1>1. /\ Running(r) /\ ~call[r].failed /\ Now(r) = "begin" /\ ~txn /\ Enter(r, "txn") /\ txn' = TRUE
      /\ status' = status /\ poisoned' = poisoned /\ kills' = kills /\ unfinished' = unfinished
      /\ path' = path /\ probes' = probes /\ work' = work /\ lake' = lake
  BY DEF Begin, At
<1>2. /\ op \in Operation /\ op.kind \in Kinds /\ at \in 1..22 /\ call[r].op = op
      /\ v \in [Datasets -> Held] /\ x \in Stacks /\ Now(r) = StepAt(op.kind, at)
      /\ x = ScopesAt(op.kind, at) /\ Reached(op, at, v, work) /\ call[r] \in Call
      /\ at + 1 \in 1..22 /\ at < EndOf(op.kind) /\ EndOf(op.kind) \in 1..22
  BY <1>1, Here, ScriptEnds
<1>3. (x = Free /\ y = InTxn) \/ (x = InBuilt /\ y = InBuiltTxn)
  <2>1. Nests(op.kind, at)
    BY <1>1, Session
  <2> QED
    BY <1>1, <1>2, <2>1 DEF Nests
<1>4. /\ <<"txn">> \o x = y /\ y \in Stacks /\ y \in Transactions /\ y \notin {InPath, InBoth}
      /\ y \notin Unbuilt <=> x \notin Unbuilt
  <2>1. CASE x = Free /\ y = InTxn
    BY <2>1, StackMoves, StackSorts
  <2>2. CASE x = InBuilt /\ y = InBuiltTxn
    BY <2>2, StackMoves, StackSorts
  <2> QED
    BY <1>3, <2>1, <2>2
<1>5. Moved(r, at + 1, y, FALSE)
  <2>1. call \in [Requests -> Call \cup {NoCall}]
    BY <1>1, Session
  <2>2. Move(r, at + 1, y)
    BY <1>1, <1>4 DEF Enter
  <2> QED
    BY <1>1, <1>2, <1>4, <2>1, <2>2, Moves
<1>6. Reached(op, at + 1, v, work)
  BY <1>1, <1>2, ControlStep DEF Control
<1>7. y \in {InTxn, InBoth} => lake = v
  <2>1. y \in {InTxn, InBoth} => x = Free
    BY <1>3, StackHolds DEF Unbuilt
  <2>2. x = Free => work = v
    <3>1. work \in [Datasets -> Held]
      BY <1>1, Session
    <3> QED
      BY <1>1, <1>2, <3>1, Untouched
  <2>3. work = lake
    BY <1>1, Session
  <2> QED
    BY <2>1, <2>2, <2>3
<1>8. op.kind = "create" /\ at + 1 > 8 => path' = "memory"
  <2>1. op.kind = "create" => at # 8
    <3>1. op.kind = "create" => KeepsPath(at)
      BY <1>1, Session
    <3> QED
      BY <1>1, <1>2, <3>1 DEF KeepsPath
  <2>2. op.kind = "create" /\ at > 8 => path = "memory"
    BY <1>1, Session
  <2>3. at + 1 > 8 /\ at # 8 => at > 8
    BY <1>2
  <2> QED
    BY <1>1, <2>1, <2>2, <2>3
<1>9. /\ path' \in {"memory", "lake"} /\ probes' \subseteq {"memory"} \X Datasets
  BY <1>1, Session
<1>10. at + 1 =< EndOf(op.kind)
  BY <1>2
<1> QED
  BY <1>1, <1>2, <1>4, <1>5, <1>6, <1>7, <1>8, <1>9, <1>10, ScopesGoOn

\* A create has something to unwind between its first commit and its end.
LEMMA BuiltPlaces ==
  ASSUME NEW at \in 1..22, ScopesAt("create", at) \notin Unbuilt
  PROVE  at \in 10..20
  BY DEF ScopesAt, Unbuilt

\* A control statement of a call that has not failed.
LEMMA Controls ==
  ASSUME ServiceAssumption, IInv, NEW r \in Requests, Running(r), ~call[r].failed, Now(r) \in Control \ {"end"}
  PROVE  /\ Op(r) = call[r].op /\ call[r] \in Call /\ Op(r) \in Operation /\ Op(r).kind \in Kinds /\ Op(r).d \in Datasets
         /\ call[r].start \in [Datasets -> Held]
         /\ call[r].at \in 1..22 /\ call[r].at + 1 \in 1..22 /\ call[r].at + 1 =< EndOf(Op(r).kind)
         /\ call[r].scopes = ScopesAt(Op(r).kind, call[r].at) /\ call[r].scopes \in Stacks
         /\ Now(r) = StepAt(Op(r).kind, call[r].at)
         /\ Nests(Op(r).kind, call[r].at)
         /\ Reached(Op(r), call[r].at, call[r].start, work)
         /\ Now(r) # "count_seed" => Reached(Op(r), call[r].at + 1, call[r].start, work)
         /\ Op(r).kind = "create" =>
              /\ Now(r) = "set" => call[r].at + 1 =< 8
              /\ Now(r) # "reset" => (call[r].at + 1 > 8 => path = "memory")
<1>1. /\ Op(r) = call[r].op /\ call[r] \in Call /\ Op(r) \in Operation /\ Op(r).kind \in Kinds /\ Op(r).d \in Datasets
      /\ call[r].start \in [Datasets -> Held]
      /\ call[r].at \in 1..22 /\ call[r].at + 1 \in 1..22 /\ call[r].at < EndOf(Op(r).kind)
      /\ call[r].scopes = ScopesAt(Op(r).kind, call[r].at) /\ call[r].scopes \in Stacks
      /\ Now(r) = StepAt(Op(r).kind, call[r].at)
      /\ Reached(Op(r), call[r].at, call[r].start, work)
  BY Here
<1>2. Nests(Op(r).kind, call[r].at)
  BY Session
<1>3. Now(r) # "count_seed" => Reached(Op(r), call[r].at + 1, call[r].start, work)
  BY <1>1, ControlStep
<1>4. call[r].at + 1 =< EndOf(Op(r).kind)
  <2>1. EndOf(Op(r).kind) \in 1..22
    BY <1>1, ScriptEnds
  <2> QED
    BY <1>1, <2>1
<1>5. ASSUME Op(r).kind = "create"
      PROVE  /\ Now(r) = "set" => call[r].at + 1 =< 8
             /\ Now(r) # "reset" => (call[r].at + 1 > 8 => path = "memory")
  <2>1. KeepsPath(call[r].at) /\ (call[r].at > 8 => path = "memory")
    BY <1>5, Session
  <2>2. /\ Now(r) = "reset" <=> call[r].at = 8
        /\ Now(r) = "set" => call[r].at < 8
    BY <1>1, <1>5, <2>1 DEF KeepsPath
  <2> QED
    BY <1>1, <2>1, <2>2
<1> QED
  BY <1>1, <1>2, <1>3, <1>4, <1>5

\* SET search_path.
LEMMA SetPathDone ==
  ASSUME ServiceAssumption, IInv, NEW r \in Requests, SetPath(r)
  PROVE  IInv'
<1> DEFINE op == Op(r)
           at == call[r].at
           x == call[r].scopes
           y == ScopesAt(op.kind, at + 1)
<1>1. /\ Running(r) /\ ~call[r].failed /\ Now(r) = "set" /\ Enter(r, "path") /\ path' = "lake"
      /\ status' = status /\ poisoned' = poisoned /\ kills' = kills /\ unfinished' = unfinished
      /\ txn' = txn /\ probes' = probes /\ work' = work /\ lake' = lake
  BY DEF SetPath, At
<1>2. Now(r) \in Control \ {"end"}
  BY <1>1 DEF Control
<1>3. (x = Free /\ y = InPath) \/ (x = InTxn /\ y = InBoth)
  BY <1>1, <1>2, Controls DEF Nests
<1>4. /\ <<"path">> \o x = y /\ y \in Stacks /\ (y \in Transactions <=> x \in Transactions)
      /\ y \in Unbuilt /\ x \in Unbuilt
      /\ y \in {InTxn, InBoth} => x \in {InTxn, InBoth}
  <2>1. CASE x = Free /\ y = InPath
    BY <2>1, StackMoves, StackSorts
  <2>2. CASE x = InTxn /\ y = InBoth
    BY <2>2, StackMoves, StackSorts
  <2> QED
    BY <1>3, <2>1, <2>2
<1>5. Moved(r, at + 1, y, FALSE)
  <2>1. call \in [Requests -> Call \cup {NoCall}]
    BY <1>1, Session
  <2>2. Move(r, at + 1, y)
    BY <1>1, <1>4 DEF Enter
  <2> QED
    BY <1>1, <1>2, <1>4, <2>1, <2>2, Controls, Moves
<1>6. /\ txn' \in BOOLEAN /\ path' \in {"memory", "lake"} /\ probes' \subseteq {"memory"} \X Datasets
      /\ txn' <=> y \in Transactions
      /\ y \in {InTxn, InBoth} => lake = call[r].start
  BY <1>1, <1>4, Session
<1>7. ~ (op.kind = "create" /\ at + 1 > 8)
  <2>1. op.kind = "create" => at + 1 =< 8
    BY <1>1, <1>2, Controls
  <2>2. at + 1 \in 1..22
    BY <1>1, <1>2, Controls
  <2> QED
    BY <2>1, <2>2
<1> QED
  BY <1>1, <1>2, <1>4, <1>5, <1>6, <1>7, Controls, ScopesGoOn

\* SET search_path, back.
LEMMA ResetPathDone ==
  ASSUME ServiceAssumption, IInv, NEW r \in Requests, ResetPath(r)
  PROVE  IInv'
<1> DEFINE op == Op(r)
           at == call[r].at
           x == call[r].scopes
           y == ScopesAt(op.kind, at + 1)
<1>1. /\ Running(r) /\ ~call[r].failed /\ Now(r) = "reset" /\ Leave(r) /\ path' = "memory"
      /\ status' = status /\ poisoned' = poisoned /\ kills' = kills /\ unfinished' = unfinished
      /\ txn' = txn /\ probes' = probes /\ work' = work /\ lake' = lake
  BY DEF ResetPath, At
<1>2. Now(r) \in Control \ {"end"}
  BY <1>1 DEF Control
<1>3. (x = InPath /\ y = Free) \/ (x = InBoth /\ y = InTxn)
  BY <1>1, <1>2, Controls DEF Nests
<1>4. /\ Tail(x) = y /\ y \in Stacks /\ (y \in Transactions <=> x \in Transactions)
      /\ y \in Unbuilt /\ x \in Unbuilt /\ y \notin {InPath, InBoth}
      /\ y \in {InTxn, InBoth} => x \in {InTxn, InBoth}
  <2>1. CASE x = InPath /\ y = Free
    BY <2>1, StackMoves, StackSorts
  <2>2. CASE x = InBoth /\ y = InTxn
    BY <2>2, StackMoves, StackSorts
  <2> QED
    BY <1>3, <2>1, <2>2
<1>5. Moved(r, at + 1, y, FALSE)
  <2>1. call \in [Requests -> Call \cup {NoCall}]
    BY <1>1, Session
  <2>2. Move(r, at + 1, y)
    BY <1>1, <1>4 DEF Leave
  <2> QED
    BY <1>1, <1>2, <1>4, <2>1, <2>2, Controls, Moves
<1>6. /\ txn' \in BOOLEAN /\ path' \in {"memory", "lake"} /\ probes' \subseteq {"memory"} \X Datasets
      /\ txn' <=> y \in Transactions
      /\ y \in {InTxn, InBoth} => lake = call[r].start
  BY <1>1, <1>4, Session
<1> QED
  BY <1>1, <1>2, <1>4, <1>5, <1>6, Controls, ScopesGoOn

\* The seed of a create is kept or not.
LEMMA CountSeedDone ==
  ASSUME ServiceAssumption, IInv, NEW r \in Requests, CountSeed(r)
  PROVE  IInv'
<1> DEFINE op == Op(r)
           at == call[r].at
           x == call[r].scopes
           v == call[r].start
<1>1. /\ Running(r) /\ ~call[r].failed /\ Now(r) = "count_seed"
      /\ IF work[op.d].rows \cap Buildings = {} THEN Forward(r) ELSE Goto(r, "crs")
      /\ status' = status /\ poisoned' = poisoned /\ kills' = kills /\ unfinished' = unfinished
      /\ txn' = txn /\ path' = path /\ probes' = probes /\ work' = work /\ lake' = lake
  BY DEF CountSeed, At, session
<1>2. Now(r) \in Control \ {"end"}
  BY <1>1 DEF Control
<1>3. op.kind = "create" /\ at = 10
  BY <1>1, <1>2, Controls, ControlPlaces
<1>4. x = InBuilt /\ ScopesAt("create", 11) = InBuilt /\ ScopesAt("create", 15) = InBuilt
  <2>1. x = ScopesAt("create", 10)
    BY <1>1, <1>2, <1>3, Controls
  <2> QED
    BY <2>1 DEF ScopesAt
<1>5. PICK to \in {11, 15} : Move(r, to, InBuilt) /\ Reached(op, to, v, work)
  <2>1. IF work[op.d].rows \cap Buildings = {} THEN Reached(op, 11, v, work) ELSE Reached(op, 15, v, work)
    BY <1>1, <1>2, <1>3, Controls, ControlStep
  <2>2. CASE work[op.d].rows \cap Buildings = {}
    <3>1. Move(r, 11, InBuilt)
      BY <1>1, <1>3, <1>4, <2>2 DEF Forward
    <3> QED
      BY <2>1, <2>2, <3>1
  <2>3. CASE work[op.d].rows \cap Buildings # {}
    <3>1. Steps(r) = Script["create"]
      BY <1>3 DEF Steps
    <3>2. Move(r, 15, InBuilt)
      BY <1>1, <1>4, <2>3, <3>1, Jumps DEF Goto
    <3> QED
      BY <2>1, <2>3, <3>2
  <2> QED
    BY <2>2, <2>3
<1>6. Moved(r, to, InBuilt, FALSE)
  <2>1. call \in [Requests -> Call \cup {NoCall}]
    BY <1>1, Session
  <2>2. to \in 1..22 /\ InBuilt \in Stacks
    BY StackSorts
  <2> QED
    BY <1>1, <1>2, <1>5, <2>1, <2>2, Controls, Moves
<1>7. /\ txn' \in BOOLEAN /\ path' \in {"memory", "lake"} /\ probes' \subseteq {"memory"} \X Datasets
      /\ txn' <=> InBuilt \in Transactions
      /\ path' = "memory"
  BY <1>1, <1>3, <1>4, Session
<1>8. InBuilt = ScopesAt(op.kind, to) /\ to =< EndOf(op.kind) /\ to \in 1..22
  BY <1>3, <1>4, <1>5 DEF EndOf, Script
<1>9. InBuilt \in Stacks /\ InBuilt \notin Unbuilt /\ InBuilt \notin {InPath, InBoth} /\ InBuilt \notin {InTxn, InBoth}
  BY StackSorts
<1>10. op = call[r].op
  BY DEF Op
<1> QED
  BY <1>1, <1>4, <1>5, <1>6, <1>7, <1>8, <1>9, <1>10, ScopesGoOn

\* The declaration of a create's source is read.
LEMMA ReadCrsDone ==
  ASSUME ServiceAssumption, IInv, NEW r \in Requests, ReadCrs(r)
  PROVE  IInv'
<1> DEFINE op == Op(r)
           at == call[r].at
           x == call[r].scopes
           v == call[r].start
<1>1. /\ Running(r) /\ ~call[r].failed /\ Now(r) = "crs"
      /\ IF CrsOf[op.s] = NoCrs THEN Goto(r, "built") ELSE Forward(r)
      /\ status' = status /\ poisoned' = poisoned /\ kills' = kills /\ unfinished' = unfinished
      /\ txn' = txn /\ path' = path /\ probes' = probes /\ work' = work /\ lake' = lake
  BY DEF ReadCrs, At, session
<1>2. Now(r) \in Control \ {"end"}
  BY <1>1 DEF Control
<1>3. op.kind = "create" /\ at = 15
  BY <1>1, <1>2, Controls, ControlPlaces
<1>4. x = InBuilt /\ ScopesAt("create", 16) = InBuilt /\ ScopesAt("create", 20) = InBuilt
  <2>1. x = ScopesAt("create", 15)
    BY <1>1, <1>2, <1>3, Controls
  <2> QED
    BY <2>1 DEF ScopesAt
<1>5. PICK to \in {16, 20} : Move(r, to, InBuilt) /\ Reached(op, to, v, work)
  <2>1. CASE CrsOf[op.s] = NoCrs
    <3>1. Reached(op, 20, v, work)
      BY <1>1, <1>2, <1>3, <2>1, Controls, ControlStep
    <3>2. Steps(r) = Script["create"]
      BY <1>3 DEF Steps
    <3>3. Move(r, 20, InBuilt)
      BY <1>1, <1>4, <2>1, <3>2, Jumps DEF Goto
    <3> QED
      BY <3>1, <3>3
  <2>2. CASE CrsOf[op.s] # NoCrs
    <3>1. Reached(op, at + 1, v, work)
      BY <1>1, <1>2, Controls
    <3>2. Move(r, 16, InBuilt)
      BY <1>1, <1>3, <1>4, <2>2 DEF Forward
    <3> QED
      BY <1>3, <3>1, <3>2
  <2> QED
    BY <2>1, <2>2
<1>6. Moved(r, to, InBuilt, FALSE)
  <2>1. call \in [Requests -> Call \cup {NoCall}]
    BY <1>1, Session
  <2>2. to \in 1..22 /\ InBuilt \in Stacks
    BY StackSorts
  <2> QED
    BY <1>1, <1>2, <1>5, <2>1, <2>2, Controls, Moves
<1>7. /\ txn' \in BOOLEAN /\ path' \in {"memory", "lake"} /\ probes' \subseteq {"memory"} \X Datasets
      /\ txn' <=> InBuilt \in Transactions
      /\ path' = "memory"
  BY <1>1, <1>3, <1>4, Session
<1>8. InBuilt = ScopesAt(op.kind, to) /\ to =< EndOf(op.kind) /\ to \in 1..22
  BY <1>3, <1>4, <1>5 DEF EndOf, Script
<1>9. InBuilt \in Stacks /\ InBuilt \notin Unbuilt /\ InBuilt \notin {InPath, InBoth} /\ InBuilt \notin {InTxn, InBoth}
  BY StackSorts
<1>10. op = call[r].op
  BY DEF Op
<1> QED
  BY <1>1, <1>4, <1>5, <1>6, <1>7, <1>8, <1>9, <1>10, ScopesGoOn

\* The statements about the probe, and the end of what is unwound by a DROP.
LEMMA ProbeDone ==
  ASSUME ServiceAssumption, IInv, NEW r \in Requests,
         MakeProbe(r) \/ RunProbe(r) \/ (DropProbe(r) /\ ~call[r].failed) \/ Built(r)
  PROVE  IInv'
<1> DEFINE op == Op(r)
           at == call[r].at
           x == call[r].scopes
           v == call[r].start
           y == ScopesAt(op.kind, at + 1)
<1>1. /\ Running(r) /\ ~call[r].failed /\ Now(r) \in {"make_probe", "run_probe", "drop_probe", "built"}
      /\ Now(r) = "make_probe" => Enter(r, "probe")
      /\ Now(r) = "run_probe" => Forward(r)
      /\ Now(r) \in {"drop_probe", "built"} => Leave(r)
      /\ probes' \subseteq probes \cup {<<path, op.d>>}
      /\ Now(r) # "make_probe" => probes' \subseteq probes
      /\ status' = status /\ poisoned' = poisoned /\ kills' = kills /\ unfinished' = unfinished
      /\ txn' = txn /\ path' = path /\ work' = work /\ lake' = lake
  <2>1. CASE MakeProbe(r)
    BY <2>1 DEF MakeProbe, At
  <2>2. CASE RunProbe(r)
    BY <2>2 DEF RunProbe, At, session
  <2>3. CASE DropProbe(r) /\ ~call[r].failed
    BY <2>3 DEF DropProbe, At, Unwinding
  <2>4. CASE Built(r)
    BY <2>4 DEF Built, At, session
  <2> QED
    BY <2>1, <2>2, <2>3, <2>4
<1>2. Now(r) \in Control \ {"end"}
  BY <1>1 DEF Control
<1>3. /\ Now(r) = "make_probe" => x = InBuilt /\ y = InProbe
      /\ Now(r) = "run_probe" => x = y
      /\ Now(r) = "drop_probe" => x = InProbe /\ y = InBuilt
      /\ Now(r) = "built" => x = InBuilt /\ y = Free
  BY <1>1, <1>2, Controls DEF Nests
<1>4. /\ y \in Stacks /\ Move(r, at + 1, y)
      /\ (y \in Transactions <=> x \in Transactions)
      /\ y \in {InPath, InBoth} => x \in {InPath, InBoth}
      /\ y \in {InTxn, InBoth} => x \in {InTxn, InBoth}
      /\ y \notin Unbuilt => x \notin Unbuilt
      /\ x \notin Unbuilt /\ y \in Unbuilt => Now(r) = "built"
  <2>1. CASE Now(r) = "make_probe"
    BY <1>1, <1>3, <2>1, StackMoves, StackSorts DEF Enter
  <2>2. CASE Now(r) = "run_probe"
    BY <1>1, <1>2, <1>3, <2>2, Controls DEF Forward
  <2>3. CASE Now(r) = "drop_probe"
    BY <1>1, <1>3, <2>3, StackMoves, StackSorts DEF Leave
  <2>4. CASE Now(r) = "built"
    BY <1>1, <1>3, <2>4, StackMoves, StackSorts DEF Leave
  <2> QED
    BY <1>1, <2>1, <2>2, <2>3, <2>4
<1>5. Moved(r, at + 1, y, FALSE)
  <2>1. call \in [Requests -> Call \cup {NoCall}]
    BY <1>1, Session
  <2> QED
    BY <1>1, <1>2, <1>4, <2>1, Controls, Moves
<1>6. probes' \subseteq {"memory"} \X Datasets
  <2>1. probes \subseteq {"memory"} \X Datasets
    BY <1>1, Session
  <2>2. ASSUME Now(r) = "make_probe"
        PROVE  <<path, op.d>> \in {"memory"} \X Datasets
    <3>1. x = InBuilt /\ x = ScopesAt(op.kind, at) /\ at \in 1..22 /\ op.d \in Datasets
      BY <1>1, <1>2, <1>3, <2>2, Controls
    <3>2. op.kind = "create"
      BY <1>1, <3>1, StackSorts, Session
    <3>3. at \in 10..20
      BY <3>1, <3>2, StackSorts, BuiltPlaces
    <3>4. at > 8
      BY <3>3
    <3>5. path = "memory"
      BY <1>1, <3>2, <3>4, Session
    <3> QED
      BY <3>1, <3>5
  <2> QED
    BY <1>1, <2>1, <2>2
<1>7. /\ txn' \in BOOLEAN /\ path' \in {"memory", "lake"}
      /\ txn' <=> y \in Transactions
      /\ y \in {InPath, InBoth} => path' = "lake"
      /\ y \in {InTxn, InBoth} => lake = v
  BY <1>1, <1>4, Session
<1>8. op.kind = "create" /\ at + 1 > 8 => path' = "memory"
  <2>1. Now(r) # "reset"
    BY <1>1
  <2> QED
    BY <1>1, <1>2, <2>1, Controls
<1>9. x \notin Unbuilt => y \notin Unbuilt \/ Sound(lake[op.d])
  <2>1. ASSUME Now(r) = "built"
        PROVE  Sound(lake[op.d])
    <3>1. x = InBuilt
      BY <1>3, <2>1
    <3>2. op.kind = "create"
      BY <1>1, <3>1, StackSorts, Session
    <3>3. at = 20
      BY <1>1, <1>2, <2>1, <3>2, Controls, ControlPlaces
    <3>4. Reached(op, 20, v, work)
      BY <1>1, <1>2, <3>3, Controls
    <3>5. MadeFrom(op.s, 20, work[op.d])
      BY <3>2, <3>4, StillIs DEF Reached, Becomes
    <3>6. work = lake
      BY <1>1, <3>1, StackSorts, Session
    <3> QED
      BY <3>5, <3>6, MadeIsDerived
  <2> QED
    BY <1>4, <2>1
<1>10. Reached(op, at + 1, v, work) /\ at + 1 \in 1..22 /\ at + 1 =< EndOf(op.kind) /\ op = call[r].op
  <2>1. Now(r) # "count_seed"
    BY <1>1
  <2> QED
    BY <1>1, <1>2, <2>1, Controls
<1> QED
  BY <1>1, <1>4, <1>5, <1>6, <1>7, <1>8, <1>9, <1>10, ScopesGoOn

\* COMMIT.
LEMMA CommitDone ==
  ASSUME ServiceAssumption, IInv, NEW r \in Requests, Commit(r)
  PROVE  IInv'
<1> DEFINE op == Op(r)
           at == call[r].at
           x == call[r].scopes
           v == call[r].start
           y == ScopesAt(op.kind, at + 1)
<1>1. /\ Running(r) /\ ~call[r].failed /\ Now(r) = "commit" /\ lake' = work /\ txn' = FALSE
      /\ IF op.kind = "create" /\ ~Inside(r, "built") THEN Move(r, at + 1, <<"built">>) ELSE Leave(r)
      /\ status' = status /\ poisoned' = poisoned /\ kills' = kills /\ unfinished' = unfinished
      /\ path' = path /\ probes' = probes /\ work' = work
  BY DEF Commit, At
<1>2. Now(r) \in Control \ {"end"} /\ Now(r) # "reset" /\ Now(r) # "count_seed"
  BY <1>1 DEF Control
<1>3. \/ (x = InTxn /\ y = IF op.kind = "create" THEN InBuilt ELSE Free)
      \/ (x = InBuiltTxn /\ y = InBuilt)
  BY <1>1, <1>2, Controls DEF Nests
<1>4. /\ Inside(r, "built") <=> x \notin Unbuilt
      /\ x \notin Unbuilt => op.kind = "create"
  BY <1>1, <1>2, Controls, StackHolds, Session DEF Inside
<1>5. /\ y \in Stacks /\ Move(r, at + 1, y) /\ y \notin Transactions /\ y \notin {InTxn, InBoth}
      /\ y \notin {InPath, InBoth}
      /\ y \notin Unbuilt <=> op.kind = "create"
  <2>1. CASE x = InTxn /\ op.kind = "create"
    <3>1. y = InBuilt /\ ~Inside(r, "built")
      <4>1. InTxn \in Unbuilt /\ InTxn # InBuiltTxn
        BY StackSorts
      <4> QED
        BY <1>3, <1>4, <2>1, <4>1
    <3>2. Move(r, at + 1, y)
      BY <1>1, <2>1, <3>1 DEF InBuilt
    <3> QED
      BY <2>1, <3>1, <3>2, StackSorts
  <2>2. CASE x = InTxn /\ op.kind # "create"
    <3>1. y = Free
      <4>1. InTxn # InBuiltTxn
        BY StackSorts
      <4> QED
        BY <1>3, <2>2, <4>1
    <3>2. Move(r, at + 1, y)
      BY <1>1, <2>2, <3>1, StackMoves DEF Leave
    <3> QED
      BY <2>2, <3>1, <3>2, StackSorts
  <2>3. CASE x = InBuiltTxn
    <3>1. y = InBuilt /\ Inside(r, "built") /\ op.kind = "create"
      BY <1>3, <1>4, <2>3, StackSorts
    <3>2. Move(r, at + 1, y)
      BY <1>1, <2>3, <3>1, StackMoves DEF Leave
    <3> QED
      BY <3>1, <3>2, StackSorts
  <2> QED
    BY <1>3, <2>1, <2>2, <2>3
<1>6. Moved(r, at + 1, y, FALSE)
  <2>1. call \in [Requests -> Call \cup {NoCall}]
    BY <1>1, Session
  <2> QED
    BY <1>1, <1>2, <1>5, <2>1, Controls, Moves
<1>7. Reached(op, at + 1, v, work) /\ at + 1 \in 1..22 /\ at + 1 =< EndOf(op.kind) /\ op = call[r].op
  BY <1>1, <1>2, Controls
<1>8. op.kind = "create" => Half(op, v, work) /\ Derived(work[op.d])
  <2>1. ASSUME op.kind = "create"
        PROVE  at \in {9, 14}
    <3>1. at \in {2, 5, 8, 9, 10, 11, 14, 15, 16, 17, 18, 20} /\ StepAt("create", at) = "commit"
      BY <1>1, <1>2, <2>1, Controls, ControlPlaces
    <3> QED
      BY <3>1 DEF StepAt, Script
  <2>2. ASSUME op.kind = "create"
        PROVE  at + 1 \in {10, 15}
    BY <2>1, <2>2
  <2>3. op \in Operation
    BY <1>1, <1>2, Controls
  <2> QED
    BY <1>7, <2>2, <2>3, HalfDone
<1>9. InScope(r)'
  <2>1. op.kind = "create" /\ at + 1 > 8 => path = "memory"
    BY <1>1, <1>2, Controls
  <2> QED
    BY <1>1, <1>5, <1>6, <1>7, <2>1 DEF InScope, Moved
<1>10. InHand(r)'
  BY <1>1, <1>5, <1>6, <1>7, <1>8 DEF InHand, Moved
<1>11. GuardIsOn'
  <2>1. \A d : Building(d)' <=> op.kind = "create" /\ op.d = d
    <3>1. \A q \in Requests : Running(q)' <=> q = r
      BY <1>1, Alone
    <3> QED
      BY <1>5, <1>6, <1>7, <3>1, StackHolds DEF Building, Inside, Op, Moved
  <2>2. \A d : Building(d) <=> x \notin Unbuilt /\ op.d = d
    BY <1>1, <1>7, Alone
  <2>3. GuardIsOn
    BY DEF IInv
  <2>4. CASE op.kind = "create"
    <3>1. \A d \in Datasets : d # op.d => work[d] = lake[d]
      <4>1. \A d \in Datasets : d # op.d => work[d] = v[d]
        BY <1>7 DEF Reached
      <4>2. CASE x = InTxn
        <5>1. lake = v
          BY <1>1, <4>2, Session
        <5> QED
          BY <4>1, <5>1
      <4>3. CASE x = InBuiltTxn
        <5>1. Half(op, v, lake)
          BY <1>1, <4>3, StackSorts, Session
        <5> QED
          BY <4>1, <5>1 DEF Half
      <4> QED
        BY <1>3, <4>2, <4>3
    <3> QED
      BY <1>1, <1>8, <2>1, <2>2, <2>3, <2>4, <3>1 DEF GuardIsOn
  <2>5. CASE op.kind # "create"
    <3>1. x = InTxn /\ x \in Unbuilt
      BY <1>3, <1>4, <2>5, StackSorts
    <3>2. lake = v
      BY <1>1, <3>1, Session
    <3>3. \A d \in Datasets : v[d] # Absent => Derived(v[d]) /\ (d \in unfinished \/ Sound(v[d]))
      BY <2>2, <2>3, <3>1, <3>2 DEF GuardIsOn
    <3>4. op.kind = "update" => at > 6
      BY <1>1, <1>2, <2>5, Controls, DonePlaces
    <3>5. \A d \in Datasets : work[d] # Absent => Derived(work[d]) /\ (d \in unfinished \/ Sound(work[d]))
      <4>1. work \in [Datasets -> Held]
        BY <1>1, Session
      <4>2. /\ op \in Operation /\ at \in 1..22 /\ v \in [Datasets -> Held] /\ Reached(op, at, v, work)
        BY <1>1, <1>2, Controls
      <4> QED
        BY <2>5, <3>3, <3>4, <4>1, <4>2, KeepsSound
    <3> QED
      BY <1>1, <3>5 DEF GuardIsOn
  <2> QED
    BY <2>4, <2>5
<1>12. /\ txn' \in BOOLEAN /\ path' \in {"memory", "lake"} /\ probes' \subseteq {"memory"} \X Datasets
       /\ lake' \in [Datasets -> Held] /\ work' \in [Datasets -> Held] /\ unfinished' \subseteq Datasets
  BY <1>1, Session
<1> QED
  BY <1>1, <1>6, <1>9, <1>10, <1>11, <1>12, GoesOn

\* A COMMIT or the reset of the search path that fails.
LEMMA ControlFails ==
  ASSUME ServiceAssumption, IInv, NEW r \in Requests, CommitFails(r) \/ ResetFails(r)
  PROVE  IInv'
<1> DEFINE op == Op(r)
           at == call[r].at
           x == call[r].scopes
           v == call[r].start
           y == Tail(x)
<1>1. /\ Running(r) /\ ~call[r].failed /\ Now(r) \in {"commit", "reset"} /\ Error(r, y)
      /\ status' = status /\ poisoned' = poisoned /\ kills' = kills /\ unfinished' = unfinished
      /\ path' = path /\ probes' = probes /\ lake' = lake
      /\ Now(r) = "commit" => work' = lake /\ txn' = FALSE
      /\ Now(r) = "reset" => work' = work /\ txn' = txn
  BY DEF CommitFails, ResetFails, At, session
<1>2. Now(r) \in Control \ {"end"}
  BY <1>1 DEF Control
<1>3. \/ (Now(r) = "commit" /\ x = InTxn /\ y = Free)
      \/ (Now(r) = "commit" /\ x = InBuiltTxn /\ y = InBuilt)
      \/ (Now(r) = "reset" /\ x = InPath /\ y = Free)
      \/ (Now(r) = "reset" /\ x = InBoth /\ y = InTxn)
  BY <1>1, <1>2, Controls, StackMoves DEF Nests
<1>4. /\ y \in Stacks /\ y \notin {InPath, InBoth}
      /\ y \notin Unbuilt <=> x \notin Unbuilt
      /\ y \in {InTxn, InBoth} => x = InBoth
      /\ Now(r) = "commit" => y \notin Transactions
      /\ Now(r) = "reset" => (y \in Transactions <=> x \in Transactions)
  BY <1>3, StackSorts
<1>5. Moved(r, at, y, TRUE)
  <2>1. call \in [Requests -> Call \cup {NoCall}]
    BY <1>1, Session
  <2> QED
    BY <1>1, <1>2, <1>4, <2>1, Controls, Moves
<1>6. y \in Unbuilt => lake' = v
  <2>1. CASE x \in {InTxn, InBoth}
    BY <1>1, <2>1, Session
  <2>2. CASE Now(r) = "reset" /\ x = InPath
    <3>1. work = lake /\ work \in [Datasets -> Held]
      BY <1>1, <2>2, StackSorts, Session
    <3>2. op \in Operation /\ at \in 1..22 /\ v \in [Datasets -> Held] /\ Reached(op, at, v, work)
          /\ ScopesAt(op.kind, at) \in {Free, InPath}
          /\ StepAt(op.kind, at) \notin {"recount", "describe", "end"}
      BY <1>1, <1>2, <2>2, Controls
    <3>3. work = v
      BY <3>1, <3>2, Untouched
    <3> QED
      BY <1>1, <3>1, <3>3
  <2>3. CASE x = InBuiltTxn
    BY <1>4, <2>3, StackSorts
  <2> QED
    BY <1>3, <2>1, <2>2, <2>3
<1>7. GuardIsOn'
  BY <1>1, <1>4, <1>5, GuardStays
<1>8. /\ txn' \in BOOLEAN /\ lake' \in [Datasets -> Held] /\ work' \in [Datasets -> Held]
      /\ path' \in {"memory", "lake"} /\ probes' \subseteq {"memory"} \X Datasets /\ unfinished' \subseteq Datasets
      /\ ~txn' => work' = lake'
      /\ txn' <=> y \in Transactions
      /\ y \in {InTxn, InBoth} => lake' = v
  <2>1. CASE Now(r) = "commit"
    BY <1>1, <1>4, <2>1, Session
  <2>2. CASE Now(r) = "reset"
    <3>1. work' = work /\ txn' = txn /\ lake' = lake
      BY <1>1, <2>2
    <3>2. txn' <=> y \in Transactions
      <4>1. txn <=> x \in Transactions
        BY <1>1, Session
      <4>2. y \in Transactions <=> x \in Transactions
        BY <1>4, <2>2
      <4> QED
        BY <3>1, <4>1, <4>2
    <3>3. ~txn' => work' = lake'
      BY <1>1, <3>1, Session
    <3>4. y \in {InTxn, InBoth} => lake' = v
      BY <1>1, <1>4, <3>1, Session
    <3> QED
      BY <1>1, <3>1, <3>2, <3>3, <3>4, Session
  <2> QED
    BY <1>1, <2>1, <2>2
<1> QED
  BY <1>1, <1>2, <1>4, <1>5, <1>6, <1>7, <1>8, Controls, ErrorGoesOn

\* Which stack a scope can be left on.
LEMMA Heads ==
  ASSUME NEW x \in Stacks, x # <<>>
  PROVE  /\ Head(x) = "probe" => x = InProbe
         /\ Head(x) = "path" => x \in {InPath, InBoth}
         /\ Head(x) = "txn" => x \in {InTxn, InBuiltTxn}
         /\ Head(x) = "built" => x = InBuilt
<1>1. x \in {InTxn, InPath, InBoth, InBuilt, InBuiltTxn, InProbe}
  BY DEF Stacks, Unbuilt, Free
<1> QED
  BY <1>1, StackMoves

\* What is known of a failed call that leaves a scope.
LEMMA Leaving ==
  ASSUME ServiceAssumption, IInv, NEW r \in Requests, Running(r), call[r].failed, call[r].scopes # <<>>
  PROVE  /\ Op(r) = call[r].op /\ call[r] \in Call /\ Op(r) \in Operation /\ Op(r).d \in Datasets
         /\ call[r].at \in 1..22 /\ call[r].scopes \in Stacks /\ call[r].start \in [Datasets -> Held]
         /\ Head(call[r].scopes) = "probe" => call[r].scopes = InProbe
         /\ Head(call[r].scopes) = "path" => call[r].scopes \in {InPath, InBoth}
         /\ Head(call[r].scopes) = "txn" => call[r].scopes \in {InTxn, InBuiltTxn}
         /\ Head(call[r].scopes) = "built" => call[r].scopes = InBuilt
         /\ call[r].scopes \in Unbuilt =>
              \/ lake = call[r].start
              \/ Late(r) /\ Reached(Op(r), call[r].at, call[r].start, lake)
              \/ Op(r).kind = "create" /\ Op(r).d \in unfinished
<1>1. /\ Op(r) = call[r].op /\ call[r] \in Call /\ Op(r) \in Operation /\ Op(r).d \in Datasets
      /\ call[r].at \in 1..22 /\ call[r].scopes \in Stacks /\ call[r].start \in [Datasets -> Held]
  BY Here
<1>2. /\ Head(call[r].scopes) = "probe" => call[r].scopes = InProbe
      /\ Head(call[r].scopes) = "path" => call[r].scopes \in {InPath, InBoth}
      /\ Head(call[r].scopes) = "txn" => call[r].scopes \in {InTxn, InBuiltTxn}
      /\ Head(call[r].scopes) = "built" => call[r].scopes = InBuilt
  BY <1>1, Heads
<1>3. call[r].scopes \in Unbuilt =>
              \/ lake = call[r].start
              \/ Late(r) /\ Reached(Op(r), call[r].at, call[r].start, lake)
              \/ Op(r).kind = "create" /\ Op(r).d \in unfinished
  BY <1>1 DEF IInv, InHand
<1> QED
  BY <1>1, <1>2, <1>3

\* A failed call leaves the probe, the search path and its transaction.
LEMMA Unwound ==
  ASSUME ServiceAssumption, IInv, NEW r \in Requests,
         (DropProbe(r) /\ call[r].failed) \/ UnwindPath(r) \/ UnwindTxn(r)
  PROVE  IInv'
<1> DEFINE op == Op(r)
           at == call[r].at
           x == call[r].scopes
           v == call[r].start
           y == Tail(x)
<1>1. /\ Running(r) /\ call[r].failed /\ x # <<>> /\ Error(r, y)
      /\ status' = status /\ poisoned' = poisoned /\ kills' = kills /\ unfinished' = unfinished
      /\ lake' = lake /\ probes' \subseteq probes /\ path' \in {path, "memory"}
      /\ Head(x) \in {"probe", "path", "txn"}
      /\ Head(x) # "path" => path' = path
      /\ Head(x) # "txn" => work' = work /\ txn' = txn
      /\ Head(x) = "txn" => work' = lake /\ txn' = FALSE
  <2>1. CASE DropProbe(r) /\ call[r].failed
    BY <2>1 DEF DropProbe, At, Unwinding
  <2>2. CASE UnwindPath(r)
    BY <2>2 DEF UnwindPath, Unwinding
  <2>3. CASE UnwindTxn(r)
    BY <2>3 DEF UnwindTxn, Unwinding
  <2> QED
    BY <2>1, <2>2, <2>3
<1>2. \/ (Head(x) = "probe" /\ x = InProbe /\ y = InBuilt)
      \/ (Head(x) = "path" /\ x = InPath /\ y = Free)
      \/ (Head(x) = "path" /\ x = InBoth /\ y = InTxn)
      \/ (Head(x) = "txn" /\ x = InTxn /\ y = Free)
      \/ (Head(x) = "txn" /\ x = InBuiltTxn /\ y = InBuilt)
  BY <1>1, Leaving, StackMoves
<1>3. /\ y \in Stacks /\ y \notin {InPath, InBoth}
      /\ y \notin Unbuilt <=> x \notin Unbuilt
      /\ y \in {InTxn, InBoth} => x = InBoth
      /\ Head(x) = "txn" => y \notin Transactions
      /\ Head(x) # "txn" => (y \in Transactions <=> x \in Transactions)
  BY <1>2, StackSorts
<1>4. Moved(r, at, y, TRUE)
  <2>1. call \in [Requests -> Call \cup {NoCall}]
    BY <1>1, Session
  <2> QED
    BY <1>1, <1>3, <2>1, Leaving, Moves
<1>5. y \in Unbuilt => \/ lake' = v
                       \/ Late(r) /\ Reached(op, at, v, lake')
                       \/ op.kind = "create" /\ op.d \in unfinished'
  BY <1>1, <1>3, Leaving
<1>6. GuardIsOn'
  BY <1>1, <1>3, <1>4, GuardStays
<1>7. /\ lake' \in [Datasets -> Held] /\ path' \in {"memory", "lake"}
      /\ probes' \subseteq {"memory"} \X Datasets /\ unfinished' \subseteq Datasets
      /\ y \in {InTxn, InBoth} => lake' = v
  BY <1>1, <1>3, Session
<1>8. /\ txn' \in BOOLEAN /\ work' \in [Datasets -> Held]
      /\ ~txn' => work' = lake'
      /\ txn' <=> y \in Transactions
  <2>1. CASE Head(x) = "txn"
    BY <1>1, <1>3, <2>1, Session
  <2>2. CASE Head(x) # "txn"
    <3>1. work' = work /\ txn' = txn /\ lake' = lake
      BY <1>1, <2>2
    <3>2. txn' <=> y \in Transactions
      <4>1. txn <=> x \in Transactions
        BY <1>1, Session
      <4>2. y \in Transactions <=> x \in Transactions
        BY <1>3, <2>2
      <4> QED
        BY <3>1, <4>1, <4>2
    <3>3. ~txn' => work' = lake'
      BY <1>1, <3>1, Session
    <3> QED
      BY <1>1, <3>1, <3>2, <3>3, Session
  <2> QED
    BY <2>1, <2>2
<1> QED
  <2>1. op = call[r].op
    BY <1>1, Leaving
  <2>2. y \in {InPath, InBoth} => path' = "lake"
    BY <1>3
  <2>3. y \notin Unbuilt => x \notin Unbuilt /\ lake' = lake
    BY <1>1, <1>3
  <2>4. y \in Stacks /\ status' = status /\ poisoned' = poisoned /\ kills' = kills /\ Running(r)
    BY <1>1, <1>3
  <2>5. y \in Unbuilt => \/ lake' = v
                         \/ Late(r) /\ Reached(call[r].op, at, v, lake')
                         \/ call[r].op.kind = "create" /\ call[r].op.d \in unfinished'
    BY <1>5, <2>1
  <2> HIDE DEF y
  <2> QED
    BY <1>4, <1>6, <1>7, <1>8, <2>2, <2>3, <2>4, <2>5, ErrorGoesOn

\* A failed create drops what it has built, or fails to.
LEMMA BuiltUnwound ==
  ASSUME ServiceAssumption, IInv, NEW r \in Requests, UnwindBuilt(r) \/ UnwindBuiltFails(r)
  PROVE  IInv'
<1> DEFINE op == Op(r)
           at == call[r].at
           x == call[r].scopes
           v == call[r].start
<1>1. /\ Running(r) /\ call[r].failed /\ x # <<>> /\ Head(x) = "built" /\ Error(r, Tail(x))
      /\ status' = status /\ poisoned' = poisoned /\ kills' = kills
      /\ txn' = txn /\ path' = path /\ probes' = probes
      /\ \/ /\ work' = [work EXCEPT ![op.d] = Absent]
            /\ lake' = IF txn THEN lake ELSE work'
            /\ unfinished' = unfinished
         \/ /\ work' = work /\ lake' = lake
            /\ unfinished' = unfinished \cup {op.d}
  <2>1. CASE UnwindBuilt(r)
    BY <2>1 DEF UnwindBuilt, Unwinding, Put
  <2>2. CASE UnwindBuiltFails(r)
    BY <2>2 DEF UnwindBuiltFails, Unwinding, session
  <2> QED
    BY <2>1, <2>2
<1>2. x = InBuilt /\ Tail(x) = Free
  BY <1>1, Leaving, StackMoves
<1>3. /\ ~txn /\ work = lake /\ op.kind = "create" /\ Half(op, v, lake)
      /\ lake \in [Datasets -> Held] /\ v \in [Datasets -> Held] /\ op.d \in Datasets /\ op = call[r].op
  BY <1>1, <1>2, StackSorts, Session, Leaving
<1>4. Moved(r, at, Free, TRUE)
  <2>1. call \in [Requests -> Call \cup {NoCall}]
    BY <1>1, Session
  <2> QED
    BY <1>1, <1>2, <2>1, StackSorts, Leaving, Moves
<1>5. CASE work' = [work EXCEPT ![op.d] = Absent] /\ lake' = (IF txn THEN lake ELSE work') /\ unfinished' = unfinished
  <2>1. lake' = [lake EXCEPT ![op.d] = Absent] /\ work' = lake'
    BY <1>3, <1>5
  <2>2. \A e \in Datasets : lake'[e] = v[e]
    BY <1>3, <2>1 DEF Half
  <2>3. lake' \in [Datasets -> Held]
    BY <1>3, <2>1 DEF Held
  <2>4. lake' = v
    BY <1>3, <2>2, <2>3
  <2>5. GuardIsOn'
    <3>1. GuardIsOn
      BY DEF IInv
    <3>2. \A d \in Datasets : d # op.d => ~Building(d)
      BY <1>1, <1>3, Alone
    <3>3. \A d \in Datasets : lake'[d] # Absent => d # op.d /\ lake'[d] = lake[d]
      BY <1>3, <2>1
    <3> QED
      BY <1>5, <3>1, <3>2, <3>3 DEF GuardIsOn
  <2>6. /\ txn' \in BOOLEAN /\ ~txn' /\ path' \in {"memory", "lake"} /\ probes' \subseteq {"memory"} \X Datasets
        /\ unfinished' \subseteq Datasets
    BY <1>1, <1>3, <1>5, Session
  <2> QED
    BY <1>1, <1>4, <2>1, <2>3, <2>4, <2>5, <2>6, StackSorts, ErrorGoesOn
<1>6. CASE work' = work /\ lake' = lake /\ unfinished' = unfinished \cup {op.d}
  <2>1. GuardIsOn'
    BY <1>1, <1>3, <1>4, <1>6, StackSorts, GuardStays
  <2>2. /\ txn' \in BOOLEAN /\ ~txn' /\ path' \in {"memory", "lake"} /\ probes' \subseteq {"memory"} \X Datasets
        /\ unfinished' \subseteq Datasets
    BY <1>1, <1>3, <1>6, Session
  <2>3. op.d \in unfinished'
    BY <1>6
  <2> QED
    BY <1>1, <1>3, <1>4, <1>6, <2>1, <2>2, <2>3, StackSorts, ErrorGoesOn
<1> QED
  BY <1>1, <1>5, <1>6
-----------------------------------------------------------------------------
(* The steps that begin and end a call.                                     *)

\* Scripts begin outside all scopes.
LEMMA Begins ==
  ASSUME NEW kind \in Kinds
  PROVE  ScopesAt(kind, 1) = Free /\ 1 =< EndOf(kind)
<1>1. ScopesAt(kind, 1) = Free
  BY DEF ScopesAt, Kinds
<1>2. EndOf(kind) \in 1..22
  BY ScriptEnds
<1> QED
  BY <1>1, <1>2

\* A call takes the connection.
LEMMA Acquired ==
  ASSUME ServiceAssumption, IInv, NEW r \in Requests, NEW op \in Operation, Acquire(r, op)
  PROVE  IInv'
<1> DEFINE c == [op |-> op, at |-> 1, scopes |-> Free, failed |-> FALSE, start |-> lake]
<1>1. /\ ~poisoned /\ status' = [status EXCEPT ![r] = "running"] /\ call' = [call EXCEPT ![r] = c]
      /\ \A q \in Requests : ~Running(q)
      /\ poisoned' = poisoned /\ kills' = kills /\ unfinished' = unfinished
      /\ txn' = txn /\ path' = path /\ probes' = probes /\ work' = work /\ lake' = lake
  BY DEF Acquire, session, Free
<1>2. /\ status \in [Requests -> {"waiting", "running", "done"}] /\ call \in [Requests -> Call \cup {NoCall}]
      /\ lake \in [Datasets -> Held] /\ work = lake /\ ~txn
  BY <1>1 DEF IInv, TypeOK, Turns
<1>3. c \in Call
  <2>1. Free \in Stacks /\ 1 \in 1..22
    BY StackSorts
  <2> QED
    BY <1>2, <2>1 DEF Call
<1>4. c.op = op /\ c.at = 1 /\ c.scopes = Free /\ c.failed = FALSE /\ c.start = lake
  OBVIOUS
<1> HIDE DEF c
<1>5. call'[r] = c /\ call' \in [Requests -> Call \cup {NoCall}]
  BY <1>1, <1>2, <1>3
<1>6. status' \in [Requests -> {"waiting", "running", "done"}] /\ \A q \in Requests : Running(q)' <=> q = r
  BY <1>1, <1>2 DEF Running
<1>7. TypeOK'
  BY <1>1, <1>3, <1>5, <1>6 DEF IInv, TypeOK
<1>8. Turns'
  BY <1>1, <1>2, <1>6 DEF Turns
<1>9. op.kind \in Kinds
  BY Operations
<1>10. InScope(r)'
  <2>1. ScopesAt(op.kind, 1) = Free /\ 1 =< EndOf(op.kind)
    BY <1>9, Begins
  <2>2. Free \notin Transactions /\ Free \notin {InPath, InBoth} /\ Free \in Unbuilt
    BY StackSorts
  <2> QED
    BY <1>1, <1>2, <1>4, <1>5, <2>1, <2>2 DEF InScope
<1>11. InHand(r)'
  <2>1. Reached(op, 1, lake, work)
    BY <1>2, ReachedFirst
  <2>2. Free \notin {InTxn, InBoth} /\ Free \in Unbuilt
    BY StackSorts
  <2> QED
    BY <1>1, <1>2, <1>4, <1>5, <2>1, <2>2 DEF InHand
<1>12. GuardIsOn'
  <2>1. \A d : ~Building(d)
    BY <1>1 DEF Building
  <2> QED
    BY <1>1, <2>1 DEF IInv, GuardIsOn
<1> QED
  BY <1>6, <1>7, <1>8, <1>10, <1>11, <1>12 DEF IInv

\* A step after which no call has the connection.
LEMMA Ends ==
  ASSUME IInv, \A q \in Requests : ~Running(q)',
         status' \in [Requests -> {"waiting", "running", "done"}], call' \in [Requests -> Call \cup {NoCall}],
         poisoned' \in BOOLEAN, txn' \in BOOLEAN, lake' = lake, work' \in [Datasets -> Held],
         path' \in {"memory", "lake"}, probes' \subseteq {"memory"} \X Datasets,
         unfinished \subseteq unfinished', unfinished' \subseteq Datasets, kills' \in 0..MaxKills,
         ~poisoned' => ~txn',
         ~txn' => work' = lake',
         \A d \in Datasets : Building(d) => d \in unfinished'
  PROVE  IInv'
<1>1. TypeOK'
  BY DEF IInv, TypeOK
<1>2. Turns'
  BY DEF Turns
<1>3. GuardIsOn'
  BY DEF IInv, GuardIsOn
<1> QED
  BY <1>1, <1>2, <1>3 DEF IInv

\* The datasets of creates that are cut short.
LEMMA CutShortIs ==
  ASSUME ServiceAssumption, IInv
  PROVE  /\ CutShort(Requests) \subseteq Datasets
         /\ \A d \in Datasets : Building(d) => d \in CutShort(Requests)
         /\ \A r \in Requests : Running(r) => /\ CutShort({r}) \subseteq Datasets
                                              /\ \A d \in Datasets : Building(d) => d \in CutShort({r})
<1>1. \A r \in Requests : Running(r) => Op(r).d \in Datasets
  BY Here
<1>2. CutShort(Requests) \subseteq Datasets /\ \A d \in Datasets : Building(d) => d \in CutShort(Requests)
  BY <1>1 DEF CutShort, Building
<1>3. ASSUME NEW r \in Requests, Running(r)
      PROVE  CutShort({r}) \subseteq Datasets /\ \A d \in Datasets : Building(d) => d \in CutShort({r})
  <2>1. CutShort({r}) \subseteq Datasets
    BY <1>1 DEF CutShort
  <2>2. ASSUME NEW d \in Datasets, Building(d)
        PROVE  d \in CutShort({r})
    <3>1. PICK q \in Requests : Running(q) /\ Inside(q, "built") /\ Op(q).d = d
      BY <2>2 DEF Building
    <3>2. q = r
      BY <1>3, <3>1 DEF IInv, Turns
    <3> QED
      BY <3>1, <3>2 DEF CutShort
  <2> QED
    BY <2>1, <2>2
<1> QED
  BY <1>2, <1>3

\* The types, one at a time.
LEMMA Types ==
  ASSUME IInv
  PROVE  /\ status \in [Requests -> {"waiting", "running", "done"}] /\ call \in [Requests -> Call \cup {NoCall}]
         /\ poisoned \in BOOLEAN /\ txn \in BOOLEAN
         /\ lake \in [Datasets -> Held] /\ work \in [Datasets -> Held] /\ path \in {"memory", "lake"}
         /\ probes \subseteq {"memory"} \X Datasets /\ unfinished \subseteq Datasets /\ kills \in 0..MaxKills
         /\ ~txn => work = lake
  BY DEF IInv, TypeOK, Turns

\* A poisoned connection.
LEMMA Refused ==
  ASSUME ServiceAssumption, IInv, NEW r \in Requests, RefusePoisoned(r)
  PROVE  IInv'
<1>1. /\ poisoned /\ status' = [status EXCEPT ![r] = "done"] /\ call' = call
      /\ poisoned' = poisoned /\ kills' = kills /\ unfinished' = unfinished
      /\ txn' = txn /\ path' = path /\ probes' = probes /\ work' = work /\ lake' = lake
  BY DEF RefusePoisoned, session
<1>2. \A q \in Requests : ~Running(q)
  BY <1>1 DEF IInv, Turns
<1>3. status' \in [Requests -> {"waiting", "running", "done"}] /\ \A q \in Requests : ~Running(q)'
  BY <1>1, <1>2, Types DEF Running
<1>4. \A d : ~Building(d)
  BY <1>2 DEF Building
<1> QED
  BY <1>1, <1>3, <1>4, Types, Ends

\* The answer of a call, and the panic of one.
LEMMA Answered ==
  ASSUME ServiceAssumption, IInv, NEW r \in Requests, Answer(r) \/ Panic(r)
  PROVE  IInv'
<1>1. /\ Running(r) /\ status' = [status EXCEPT ![r] = "done"] /\ call' = [call EXCEPT ![r] = NoCall]
      /\ txn' = txn /\ path' = path /\ probes' = probes /\ work' = work /\ lake' = lake /\ kills' = kills
      /\ \/ Finished(r) /\ poisoned' = poisoned /\ unfinished' = unfinished
         \/ poisoned' = TRUE /\ unfinished' = unfinished \cup CutShort({r})
  <2>1. CASE Answer(r)
    BY <2>1 DEF Answer, Finished, session
  <2>2. CASE Panic(r)
    BY <2>2 DEF Panic, session
  <2> QED
    BY <2>1, <2>2
<1>2. status' \in [Requests -> {"waiting", "running", "done"}] /\ \A q \in Requests : ~Running(q)'
  <2>1. \A q \in Requests : Running(q) <=> q = r
    BY <1>1, Alone
  <2> QED
    BY <1>1, <2>1, Types DEF Running
<1>3. call' \in [Requests -> Call \cup {NoCall}]
  BY <1>1, Types
<1>4. CASE Finished(r) /\ poisoned' = poisoned /\ unfinished' = unfinished
  <2>1. call[r].scopes = Free
    BY <1>4 DEF Finished, Free
  <2>2. ~txn
    BY <1>1, <2>1, StackSorts, Session
  <2>3. \A d : ~Building(d)
    BY <1>1, <2>1, StackSorts, Alone
  <2> QED
    BY <1>1, <1>2, <1>3, <1>4, <2>2, <2>3, Types, Ends
<1>5. CASE poisoned' = TRUE /\ unfinished' = unfinished \cup CutShort({r})
  <2>1. CutShort({r}) \subseteq Datasets /\ \A d \in Datasets : Building(d) => d \in CutShort({r})
    BY <1>1, CutShortIs
  <2> QED
    BY <1>1, <1>2, <1>3, <1>5, <2>1, Types, Ends
<1> QED
  BY <1>1, <1>4, <1>5

\* The end of the process.
LEMMA Killed ==
  ASSUME ServiceAssumption, IInv, Kill
  PROVE  IInv'
<1>1. /\ kills < MaxKills /\ kills' = kills + 1 /\ poisoned' = FALSE
      /\ unfinished' = unfinished \cup CutShort(Requests)
      /\ status' = [r \in Requests |-> IF Running(r) THEN "done" ELSE status[r]]
      /\ call' = [r \in Requests |-> NoCall]
      /\ work' = lake /\ txn' = FALSE /\ path' = "memory" /\ lake' = lake
      /\ probes' \subseteq probes
  BY DEF Kill
<1>2. status' \in [Requests -> {"waiting", "running", "done"}] /\ \A q \in Requests : ~Running(q)'
  BY <1>1, Types DEF Running
<1>3. call' \in [Requests -> Call \cup {NoCall}]
  BY <1>1
<1>4. kills' \in 0..MaxKills
  BY <1>1, Types DEF ServiceAssumption
<1>5. CutShort(Requests) \subseteq Datasets /\ \A d \in Datasets : Building(d) => d \in CutShort(Requests)
  BY CutShortIs
<1> QED
  BY <1>1, <1>2, <1>3, <1>4, <1>5, Types, Ends

\* Nothing.
LEMMA Stutters ==
  ASSUME IInv, UNCHANGED vars
  PROVE  IInv'
<1>1. /\ status' = status /\ call' = call /\ poisoned' = poisoned /\ kills' = kills /\ unfinished' = unfinished
      /\ txn' = txn /\ path' = path /\ probes' = probes /\ work' = work /\ lake' = lake
  BY DEF vars, session
<1>2. TypeOK' /\ Turns'
  BY <1>1 DEF IInv, TypeOK, Turns, Running
<1>3. \A r \in Requests : Running(r)' => InScope(r)' /\ InHand(r)'
  BY <1>1 DEF IInv, Running, InScope, InHand, Late, Now, AtEnd, Steps, Op
<1>4. GuardIsOn'
  BY <1>1 DEF IInv, GuardIsOn, Building, Running, Inside, Op
<1> QED
  BY <1>2, <1>3, <1>4 DEF IInv

\* The invariant holds at the start.
LEMMA Starts ==
  ASSUME ServiceAssumption, Init
  PROVE  IInv
<1>1. \A s \in Existing : /\ Loaded(s) \in Schema
                          /\ Derived(Loaded(s)) /\ Sound(Loaded(s))
  <2>1. ASSUME NEW s \in Existing
        PROVE  Is(Loaded(s), Holds[s], {}, TRUE, CrsOf[s], CrsOf[s], TableFor(Holds[s], "none"))
    <3>1. s \in Sources
      BY DEF ServiceAssumption
    <3> QED
      BY <3>1, NewSchemas
  <2> QED
    BY <2>1 DEF Is, Derived, Sound, TableFor
<1>2. \A r \in Requests : ~Running(r)
  BY DEF Init, Running
<1>3. lake \in [Datasets -> Held] /\ work = lake
  BY <1>1 DEF Init, Held
<1>4. TypeOK
  <2>1. status \in [Requests -> {"waiting", "running", "done"}] /\ call \in [Requests -> Call \cup {NoCall}]
    BY DEF Init
  <2>2. poisoned \in BOOLEAN /\ txn \in BOOLEAN /\ path \in {"memory", "lake"}
    BY DEF Init
  <2>3. probes \subseteq {"memory"} \X Datasets /\ unfinished \subseteq Datasets
    BY DEF Init
  <2>4. kills \in 0..MaxKills
    BY DEF Init, ServiceAssumption
  <2> QED
    BY <1>2, <1>3, <2>1, <2>2, <2>3, <2>4 DEF TypeOK
<1>5. Turns
  BY <1>2, <1>3 DEF Init, Turns
<1>6. GuardIsOn
  BY <1>1 DEF Init, GuardIsOn
<1> QED
  BY <1>2, <1>4, <1>5, <1>6 DEF IInv

\* Every step keeps the invariant.
LEMMA Inductive ==
  ASSUME ServiceAssumption, IInv, [Next]_vars
  PROVE  IInv'
<1>1. ASSUME NEW r \in Requests, Step(r)
      PROVE  IInv'
  <2>1. CASE \E op \in Operation : Acquire(r, op)
    BY <2>1, Acquired
  <2>2. CASE RefusePoisoned(r)
    BY <2>2, Refused
  <2>3. CASE Statement(r)
    BY <2>3, StatementDone
  <2>4. CASE Fails(r)
    BY <2>4, StatementFails
  <2>5. CASE Begin(r)
    BY <2>5, BeginDone
  <2>6. CASE Commit(r)
    BY <2>6, CommitDone
  <2>7. CASE CommitFails(r) \/ ResetFails(r)
    BY <2>7, ControlFails
  <2>8. CASE SetPath(r)
    BY <2>8, SetPathDone
  <2>9. CASE ResetPath(r)
    BY <2>9, ResetPathDone
  <2>10. CASE CountSeed(r)
    BY <2>10, CountSeedDone
  <2>11. CASE ReadCrs(r)
    BY <2>11, ReadCrsDone
  <2>12. CASE MakeProbe(r) \/ RunProbe(r) \/ (DropProbe(r) /\ ~call[r].failed) \/ Built(r)
    BY <2>12, ProbeDone
  <2>13. CASE (DropProbe(r) /\ call[r].failed) \/ UnwindPath(r) \/ UnwindTxn(r)
    BY <2>13, Unwound
  <2>14. CASE UnwindBuilt(r) \/ UnwindBuiltFails(r)
    BY <2>14, BuiltUnwound
  <2>15. CASE Answer(r)
    BY <2>15, Answered
  <2> QED
    BY <1>1, <2>1, <2>2, <2>3, <2>4, <2>5, <2>6, <2>7, <2>8, <2>9, <2>10, <2>11, <2>12, <2>13, <2>14, <2>15 DEF Step
<1>2. ASSUME NEW r \in Requests, Panic(r)
      PROVE  IInv'
  BY <1>2, Answered
<1>3. CASE Kill
  BY <1>3, Killed
<1>4. CASE UNCHANGED vars
  BY <1>4, Stutters
<1> QED
  BY <1>1, <1>2, <1>3, <1>4 DEF Next

\* It holds throughout.
LEMMA Holding ==
  ASSUME ServiceAssumption
  PROVE  Spec => []IInv
<1>1. Init => IInv
  BY Starts
<1>2. IInv /\ [Next]_vars => IInv'
  BY Inductive
<1> QED
  BY <1>1, <1>2, PTL DEF Spec

\* The types of the session, the calls and the datasets: the service never
\* holds a schema that is none, a probe outside the in-memory catalog or a call
\* beyond the end of its script.
THEOREM TypeCorrect == ASSUME ServiceAssumption PROVE Spec => []TypeOK
<1>1. IInv => TypeOK
  BY DEF IInv
<1> QED
  BY <1>1, Holding, PTL

\* No statement runs in a transaction its own call did not begin, and a bare
\* name resolves where its call means it to (service.rs: in_transaction,
\* with_search_path, the poisoned lock; dataset.rs: mint_crs_footer).
THEOREM SessionOwned == ASSUME ServiceAssumption PROVE Spec => []OwnsItsSession
<1>1. IInv => OwnsItsSession
  <2> SUFFICES ASSUME IInv, NEW r \in Requests, Running(r)
               PROVE  /\ txn <=> Inside(r, "txn")
                      /\ Inside(r, "path") => path = "lake"
                      /\ ~txn => work = lake
                      /\ \A p \in probes : p[1] = "memory"
    BY DEF OwnsItsSession
  <2>1. call[r].scopes \in Stacks
    BY DEF IInv, TypeOK, Call
  <2>2. /\ txn <=> call[r].scopes \in Transactions
        /\ call[r].scopes \in {InPath, InBoth} => path = "lake"
    BY DEF IInv, InScope
  <2>3. txn <=> Inside(r, "txn")
    BY <2>1, <2>2, StackHolds DEF Inside
  <2>4. Inside(r, "path") => path = "lake"
    BY <2>1, <2>2, StackHolds DEF Inside
  <2>5. ~txn => work = lake
    BY Types
  <2>6. \A p \in probes : p[1] = "memory"
    BY Types
  <2> QED
    BY <2>3, <2>4, <2>5, <2>6
<1> QED
  BY <1>1, Holding, PTL

\* A dataset others can address has its derived state and the footer that turns
\* the CRS guard on (dataset.rs: create_dataset_impl).
THEOREM Guarded == ASSUME ServiceAssumption PROVE Spec => []GuardIsOn
<1>1. IInv => GuardIsOn
  BY DEF IInv
<1> QED
  BY <1>1, Holding, PTL

\* The answer of a finished call says what happened to the lake.
LEMMA Truth == ASSUME ServiceAssumption, IInv PROVE AnswersTruly
<1> SUFFICES ASSUME NEW r \in Requests, Finished(r)
             PROVE  IF ~call[r].failed THEN Shown(lake) = Outcome(Op(r), Shown(call[r].start))
                    ELSE \/ Shown(lake) = Shown(call[r].start)
                         \/ Late(r) /\ Shown(lake) = Outcome(Op(r), Shown(call[r].start))
                         \/ Op(r).kind = "create" /\ Op(r).d \in unfinished
  BY DEF AnswersTruly, Late
<1>1. Running(r) /\ (call[r].failed \/ AtEnd(r)) /\ call[r].scopes = Free
  BY DEF Finished, Free
<1>2. /\ Op(r) \in Operation /\ Op(r).kind \in Kinds /\ call[r].at \in 1..22 /\ call[r].start \in [Datasets -> Held]
      /\ Now(r) = StepAt(Op(r).kind, call[r].at)
      /\ Op(r) = call[r].op
      /\ lake \in [Datasets -> Held]
  BY <1>1, Here, Types
<1>3. Now(r) \in {"recount", "describe", "end"} => AllMade(Op(r).kind, call[r].at)
  BY <1>2, DonePlaces
<1>4. ASSUME ~call[r].failed
      PROVE  Shown(lake) = Outcome(Op(r), Shown(call[r].start))
  <2>1. Now(r) = "end" /\ Reached(Op(r), call[r].at, call[r].start, work)
    BY <1>1, <1>4, Here
  <2>2. work = lake
    BY <1>1, StackSorts, Session
  <2> QED
    BY <1>2, <1>3, <2>1, <2>2, Told
<1>5. ASSUME call[r].failed
      PROVE  \/ Shown(lake) = Shown(call[r].start)
             \/ Late(r) /\ Shown(lake) = Outcome(Op(r), Shown(call[r].start))
             \/ Op(r).kind = "create" /\ Op(r).d \in unfinished
  <2>1. \/ lake = call[r].start
        \/ Late(r) /\ Reached(Op(r), call[r].at, call[r].start, lake)
        \/ Op(r).kind = "create" /\ Op(r).d \in unfinished
    BY <1>1, <1>2, <1>5, StackSorts DEF IInv, InHand
  <2>2. ASSUME Late(r), Reached(Op(r), call[r].at, call[r].start, lake)
        PROVE  Shown(lake) = Outcome(Op(r), Shown(call[r].start))
    <3>1. AllMade(Op(r).kind, call[r].at)
      BY <1>3, <2>2 DEF Late
    <3> QED
      BY <1>2, <2>2, <3>1, Told
  <2> QED
    BY <2>1, <2>2
<1> QED
  BY <1>4, <1>5

\* A success has all of its operation's effect and an error none, unless the
\* failure came after the commit or a create could not be undone (service.rs;
\* dataset.rs, mutate.rs).
THEOREM TruthTold == ASSUME ServiceAssumption PROVE Spec => []AnswersTruly
<1>1. IInv => AnswersTruly
  BY Truth
<1> QED
  BY <1>1, Holding, PTL
-----------------------------------------------------------------------------
(* The lake as the next operation sees it changes as LakeCatalog says.      *)

\* What Catalog takes for its lake.
View == Shown([d \in Datasets |-> IF Building(d) THEN Absent ELSE lake[d]])

\* The actions of Catalog are about the view.
LEMMA CatalogIs ==
  /\ \A d, s : Catalog!Create(d, s) <=> View[d] = Absent /\ View' = Catalog!Created(View, d, s)
  /\ \A d, s : Catalog!CutShort(d, s) <=>
       /\ View[d] = Absent
       /\ \E crs \in {NoCrs, CrsOf[s]}, t \in {"none", "empty"} :
            View' = [View EXCEPT ![d] = [Catalog!Whole(s) EXCEPT !.crs = crs,
                                                               !.building = Catalog!TableFor(Holds[s], t)]]
  /\ \A d : Catalog!Drop(d) <=> View[d] # Absent /\ View' = Catalog!Dropped(View, d)
  /\ \A d, s : Catalog!Ingest(d, s) <=>
       /\ View[d] # Absent /\ View[d].rows \cap Holds[s] = {} /\ Catalog!Agree(View[d].crs, CrsOf[s])
       /\ View' = Catalog!Ingested(View, d, s)
  /\ \A d, e : Catalog!Merge(d, e) <=>
       /\ View[d] # Absent /\ View[e] # Absent
       /\ View[d].rows \cap View[e].rows = {} /\ Catalog!Agree(View[d].crs, View[e].crs)
       /\ View' = Catalog!Merged(View, d, e)
  /\ \A d, o : Catalog!Update(d, o) <=>
       View[d] # Absent /\ o \in View[d].rows /\ View' = Catalog!Updated(View, d, o)
  /\ \A d, picked : Catalog!Delete(d, picked) <=> View[d] # Absent /\ View' = Catalog!Deleted(View, d, picked)
  /\ Catalog!Next <=>
       \E d \in Datasets :
         /\ View'[d] # View[d]
         /\ \/ \E s \in Sources : Catalog!Create(d, s) \/ Catalog!CutShort(d, s) \/ Catalog!Ingest(d, s)
            \/ \E e \in Datasets : Catalog!Merge(d, e)
            \/ \E o \in Objects : Catalog!Update(d, o)
            \/ \E picked \in SUBSET Objects : Catalog!Delete(d, picked)
            \/ Catalog!Drop(d)
  /\ Catalog!Init <=> View \in [Datasets -> {Catalog!Whole(s) : s \in Existing} \cup {Absent}]
<1>1. \A d, s : Catalog!Create(d, s) <=> View[d] = Absent /\ View' = Catalog!Created(View, d, s)
  BY Zenon DEF View, Catalog!Create
<1>2. \A d, s : Catalog!CutShort(d, s) <=>
       /\ View[d] = Absent
       /\ \E crs \in {NoCrs, CrsOf[s]}, t \in {"none", "empty"} :
            View' = [View EXCEPT ![d] = [Catalog!Whole(s) EXCEPT !.crs = crs,
                                                               !.building = Catalog!TableFor(Holds[s], t)]]
  BY Zenon DEF View, Catalog!CutShort
<1>3. \A d : Catalog!Drop(d) <=> View[d] # Absent /\ View' = Catalog!Dropped(View, d)
  BY Zenon DEF View, Catalog!Drop
<1>4. \A d, s : Catalog!Ingest(d, s) <=>
       /\ View[d] # Absent /\ View[d].rows \cap Holds[s] = {} /\ Catalog!Agree(View[d].crs, CrsOf[s])
       /\ View' = Catalog!Ingested(View, d, s)
  BY Zenon DEF View, Catalog!Ingest
<1>5. \A d, e : Catalog!Merge(d, e) <=>
       /\ View[d] # Absent /\ View[e] # Absent
       /\ View[d].rows \cap View[e].rows = {} /\ Catalog!Agree(View[d].crs, View[e].crs)
       /\ View' = Catalog!Merged(View, d, e)
  BY Zenon DEF View, Catalog!Merge
<1>6. \A d, o : Catalog!Update(d, o) <=>
       View[d] # Absent /\ o \in View[d].rows /\ View' = Catalog!Updated(View, d, o)
  BY Zenon DEF View, Catalog!Update
<1>7. \A d, picked : Catalog!Delete(d, picked) <=> View[d] # Absent /\ View' = Catalog!Deleted(View, d, picked)
  BY Zenon DEF View, Catalog!Delete
<1>8. Catalog!Next <=>
       \E d \in Datasets :
         /\ View'[d] # View[d]
         /\ \/ \E s \in Sources : Catalog!Create(d, s) \/ Catalog!CutShort(d, s) \/ Catalog!Ingest(d, s)
            \/ \E e \in Datasets : Catalog!Merge(d, e)
            \/ \E o \in Objects : Catalog!Update(d, o)
            \/ \E picked \in SUBSET Objects : Catalog!Delete(d, picked)
            \/ Catalog!Drop(d)
  BY Zenon DEF View, Catalog!Next
<1>9. Catalog!Init <=> View \in [Datasets -> {Catalog!Whole(s) : s \in Existing} \cup {Absent}]
  BY Zenon DEF View, Catalog!Init
<1> QED
  BY <1>1, <1>2, <1>3, <1>4, <1>5, <1>6, <1>7, <1>8, <1>9

\* The view of a lake in which nothing is being created, and of one in which
\* one dataset is.
LEMMA Views ==
  /\ (\A d \in Datasets : ~Building(d)) /\ lake \in [Datasets -> Held] => View = Shown(lake)
  /\ (\A d \in Datasets : ~Building(d)') /\ lake' \in [Datasets -> Held] => View' = Shown(lake')
  /\ \A v \in [Datasets -> Held] :
       (\A e \in Datasets : IF Building(e) THEN v[e] = Absent ELSE v[e] = lake[e]) => View = Shown(v)
  /\ (\A e \in Datasets : Building(e)' <=> Building(e)) /\ (\A e \in Datasets : Building(e) \/ lake'[e] = lake[e])
       => View' = View
<1>1. ASSUME \A d \in Datasets : ~Building(d), lake \in [Datasets -> Held]
      PROVE  View = Shown(lake)
  <2>1. [d \in Datasets |-> IF Building(d) THEN Absent ELSE lake[d]] = lake
    BY <1>1
  <2> QED
    BY <2>1, Zenon DEF View
<1>2. ASSUME \A d \in Datasets : ~Building(d)', lake' \in [Datasets -> Held]
      PROVE  View' = Shown(lake')
  <2>1. [d \in Datasets |-> IF Building(d)' THEN Absent ELSE lake'[d]] = lake'
    BY <1>2
  <2> QED
    BY <2>1, Zenon DEF View, Shown
<1>3. ASSUME NEW v \in [Datasets -> Held],
             \A e \in Datasets : IF Building(e) THEN v[e] = Absent ELSE v[e] = lake[e]
      PROVE  View = Shown(v)
  <2>1. [d \in Datasets |-> IF Building(d) THEN Absent ELSE lake[d]] = v
    BY <1>3
  <2> QED
    BY <2>1, Zenon DEF View
<1>4. ASSUME \A e \in Datasets : Building(e)' <=> Building(e), \A e \in Datasets : Building(e) \/ lake'[e] = lake[e]
      PROVE  View' = View
  <2>1. \A e \in Datasets : (IF Building(e)' THEN Absent ELSE lake'[e]) = IF Building(e) THEN Absent ELSE lake[e]
    BY <1>4
  <2>2. [d \in Datasets |-> IF Building(d)' THEN Absent ELSE lake'[d]]
          = [d \in Datasets |-> IF Building(d) THEN Absent ELSE lake[d]]
    BY <2>1
  <2> QED
    BY <2>2, Zenon DEF View, Shown
<1> QED
  BY <1>1, <1>2, <1>3, <1>4

\* All of an operation is a step of the abstract lake, or none.
LEMMA DoneIsNext ==
  ASSUME ServiceAssumption, NEW op \in Operation, NEW at \in 1..22,
         NEW v \in [Datasets -> Held], NEW w \in [Datasets -> Held], Reached(op, at, v, w),
         AllMade(op.kind, at), View = Shown(v), View' = Shown(w)
  PROVE  Catalog!Next \/ View' = View
<1> SUFFICES ASSUME View' # View
             PROVE  Catalog!Next
  OBVIOUS
<1>1. op.kind \in Kinds /\ op.d \in Datasets
  BY Operations
<1>2. View' = Outcome(op, View)
  BY Told, Zenon
<1>3. op.kind \notin Idle /\ op.kind # "reconcile"
  <2>1. op.kind \in Idle \cup {"reconcile"} => Outcome(op, View) = View
    BY Zenon DEF Outcome, Idle
  <2> QED
    BY <1>2, <2>1
<1>4. /\ Becomes(op, at, v, w[op.d])
      /\ IF op.kind \in {"create", "import"} THEN v[op.d] = Absent ELSE v[op.d] # Absent
      /\ op.kind = "merge" => v[op.e] # Absent
      /\ op.kind = "update" => op.o \in v[op.d].rows
  <2>1. Still(op.kind) \in 1..22 /\ (op.kind = "update" => Still(op.kind) = 4)
    BY <1>1, <1>3, StillIs DEF Kinds, Idle
  <2>2. ~ (at =< Still(op.kind)) /\ at > 1 /\ (op.kind = "update" => at > 2)
    BY <1>3, <2>1 DEF AllMade
  <2> QED
    BY <2>2 DEF Reached
<1>5. /\ View[op.d] = Absent <=> v[op.d] = Absent
      /\ v[op.d] # Absent => View[op.d].rows = v[op.d].rows /\ View[op.d].crs = v[op.d].crs
      /\ op.kind = "merge" /\ v[op.e] # Absent =>
           View[op.e] # Absent /\ View[op.e].rows = v[op.e].rows /\ View[op.e].crs = v[op.e].crs
  <2>1. ASSUME NEW d \in Datasets
        PROVE  /\ View[d] = Absent <=> v[d] = Absent
               /\ v[d] # Absent => View[d].rows = v[d].rows /\ View[d].crs = v[d].crs
    <3>1. /\ View[d] = Absent <=> v[d] = Absent
          /\ v[d] # Absent =>
               View[d] = [rows |-> v[d].rows, edited |-> v[d].edited, crs |-> v[d].crs, building |-> v[d].building]
      BY <2>1, ShownAt
    <3> QED
      BY <3>1
  <2>2. op.kind = "merge" => op.e \in Datasets
    BY Operations
  <2> QED
    BY <1>1, <2>1, <2>2
<1>6. View'[op.d] # View[op.d]
  <2>1. \A e \in Datasets : e # op.d => w[e] = v[e]
    BY DEF Reached
  <2>2. Shown(w) = [Shown(v) EXCEPT ![op.d] = Seen(w[op.d])]
    BY <1>1, <2>1, ShownButOne
  <2>3. Shown(v) = [e \in Datasets |-> Shown(v)[e]]
    BY DEF Shown
  <2> DEFINE f == Shown(v)
             n == Seen(w[op.d])
  <2>4. [f EXCEPT ![op.d] = n][op.d] = f[op.d] => [f EXCEPT ![op.d] = n] = f
    <3> HIDE DEF f, n
    <3>1. f = [e \in Datasets |-> f[e]]
      BY <2>3 DEF f
    <3> QED
      BY <1>1, <3>1
  <2> HIDE DEF f, n
  <2>5. View = f /\ View' = [f EXCEPT ![op.d] = n]
    BY <2>2 DEF f, n
  <2> QED
    BY <2>4, <2>5
<1>7. CASE op.kind \in {"create", "import"}
  <2>1. Catalog!Create(op.d, op.s)
    <3>1. Outcome(op, View) = Catalog!Created(View, op.d, op.s)
      BY <1>7, Zenon DEF Outcome
    <3> QED
      BY <1>2, <1>4, <1>5, <1>7, <3>1, CatalogIs, Zenon
  <2>2. op.s \in Sources
    BY <1>7, Operations
  <2> QED
    BY <1>1, <1>6, <2>1, <2>2, CatalogIs, Zenon
<1>8. CASE op.kind = "ingest"
  <2>1. v[op.d].rows \cap Holds[op.s] = {} /\ v[op.d].crs \in {NoCrs, CrsOf[op.s]} /\ v[op.d] # Absent
    BY <1>4, <1>8 DEF Becomes
  <2>2. Catalog!Ingest(op.d, op.s)
    <3>1. Outcome(op, View) = Catalog!Ingested(View, op.d, op.s)
      BY <1>8, Zenon DEF Outcome
    <3>2. View[op.d].rows \cap Holds[op.s] = {} /\ Catalog!Agree(View[op.d].crs, CrsOf[op.s])
      BY <1>5, <2>1 DEF Catalog!Agree
    <3> QED
      BY <1>2, <1>5, <2>1, <3>1, <3>2, CatalogIs, Zenon
  <2>3. op.s \in Sources
    BY <1>8, Operations
  <2> QED
    BY <1>1, <1>6, <2>2, <2>3, CatalogIs, Zenon
<1>9. CASE op.kind = "merge"
  <2>1. /\ v[op.d].rows \cap v[op.e].rows = {} /\ v[op.d].crs \in {NoCrs, v[op.e].crs}
        /\ v[op.d] # Absent /\ v[op.e] # Absent
    BY <1>4, <1>9 DEF Becomes
  <2>2. Catalog!Merge(op.d, op.e)
    <3>1. Outcome(op, View) = Catalog!Merged(View, op.d, op.e)
      BY <1>9, Zenon DEF Outcome
    <3>2. View[op.d].rows \cap View[op.e].rows = {} /\ Catalog!Agree(View[op.d].crs, View[op.e].crs)
      BY <1>5, <1>9, <2>1 DEF Catalog!Agree
    <3> QED
      BY <1>2, <1>5, <1>9, <2>1, <3>1, <3>2, CatalogIs, Zenon
  <2>3. op.e \in Datasets
    BY <1>9, Operations
  <2> QED
    BY <1>1, <1>6, <2>2, <2>3, CatalogIs, Zenon
<1>10. CASE op.kind = "update"
  <2>1. Catalog!Update(op.d, op.o)
    <3>1. Outcome(op, View) = Catalog!Updated(View, op.d, op.o)
      BY <1>10, Zenon DEF Outcome
    <3>2. View[op.d] # Absent /\ op.o \in View[op.d].rows
      BY <1>4, <1>5, <1>10
    <3> QED
      BY <1>2, <3>1, <3>2, CatalogIs, Zenon
  <2>2. op.o \in Objects
    BY <1>10, Operations
  <2> QED
    BY <1>1, <1>6, <2>1, <2>2, CatalogIs, Zenon
<1>11. CASE op.kind = "delete"
  <2>1. Catalog!Delete(op.d, op.picked)
    <3>1. Outcome(op, View) = Catalog!Deleted(View, op.d, op.picked)
      BY <1>11, Zenon DEF Outcome
    <3>2. View[op.d] # Absent
      BY <1>4, <1>5, <1>11
    <3> QED
      BY <1>2, <3>1, <3>2, CatalogIs, Zenon
  <2>2. op.picked \in SUBSET Objects
    BY <1>11, Operations
  <2> QED
    BY <1>1, <1>6, <2>1, <2>2, CatalogIs, Zenon
<1>12. CASE op.kind = "drop"
  <2>1. Catalog!Drop(op.d)
    <3>1. Outcome(op, View) = Catalog!Dropped(View, op.d)
      BY <1>12, Zenon DEF Outcome
    <3>2. View[op.d] # Absent
      BY <1>4, <1>5, <1>12
    <3> QED
      BY <1>2, <3>1, <3>2, CatalogIs, Zenon
  <2> QED
    BY <1>1, <1>6, <2>1, CatalogIs, Zenon
<1> QED
  BY <1>1, <1>3, <1>7, <1>8, <1>9, <1>10, <1>11, <1>12 DEF Kinds, Idle

\* A create that is cut short is a step of it, too.
LEMMA CutIsNext ==
  ASSUME ServiceAssumption, NEW op \in Operation,
         NEW v \in [Datasets -> Held], NEW w \in [Datasets -> Held], Half(op, v, w),
         View = Shown(v), View' = Shown(w)
  PROVE  Catalog!Next
<1>1. /\ op.kind = "create" /\ v[op.d] = Absent /\ op.d \in Datasets /\ op.s \in Sources
      /\ \A e \in Datasets : e # op.d => w[e] = v[e]
  BY Operations DEF Half
<1>2. PICK crs \in {NoCrs, CrsOf[op.s]}, t \in {"none", "empty"} :
        Is(w[op.d], Holds[op.s], {}, TRUE, crs, CrsOf[op.s], TableFor(Holds[op.s], t))
  BY DEF Half
<1>3. w[op.d] \in Schema /\ w[op.d] # Absent
  BY <1>2 DEF Is, ServiceAssumption
<1>4. Seen(w[op.d]) = [Catalog!Whole(op.s) EXCEPT !.crs = crs, !.building = Catalog!TableFor(Holds[op.s], t)]
  <2>1. Seen(w[op.d]) = [rows |-> w[op.d].rows, edited |-> w[op.d].edited, crs |-> w[op.d].crs,
                         building |-> w[op.d].building]
    BY <1>3 DEF Seen
  <2>2. /\ w[op.d].rows = Holds[op.s] /\ w[op.d].edited = {} /\ w[op.d].crs = crs
        /\ w[op.d].building = TableFor(Holds[op.s], t)
    BY <1>2 DEF Is
  <2>3. Catalog!TableFor(Holds[op.s], t) = TableFor(Holds[op.s], t)
    BY DEF Catalog!TableFor, TableFor
  <2>4. [Catalog!Whole(op.s) EXCEPT !.crs = crs, !.building = TableFor(Holds[op.s], t)]
          = [rows |-> Holds[op.s], edited |-> {}, crs |-> crs, building |-> TableFor(Holds[op.s], t)]
    <3> DEFINE whole == Catalog!Whole(op.s)
               table == TableFor(Holds[op.s], t)
               rows == Holds[op.s]
               none == {}
               had == Catalog!TableFor(Holds[op.s], "none")
               n == [whole EXCEPT !.crs = crs, !.building = table]
    <3>1. whole \in [rows : {rows}, edited : {none}, crs : {CrsOf[op.s]}, building : {had}]
      BY DEF Catalog!Whole
    <3> HIDE DEF whole, table, rows, none, had
    <3>2. n \in [rows : {rows}, edited : {none}, crs : {crs}, building : {table}]
      BY <3>1
    <3> HIDE DEF n
    <3>3. n = [rows |-> rows, edited |-> none, crs |-> crs, building |-> table]
      BY <3>2
    <3> QED
      BY <3>3, Zenon DEF n, whole, table, rows, none
  <2> QED
    BY <2>1, <2>2, <2>3, <2>4, Zenon
<1>5. View' = [View EXCEPT ![op.d] = Seen(w[op.d])]
  BY <1>1, ShownButOne
<1>6. View[op.d] = Absent
  BY <1>1, ShownAt
<1>7. Catalog!CutShort(op.d, op.s)
  <2>1. View' = [View EXCEPT ![op.d] = [Catalog!Whole(op.s) EXCEPT !.crs = crs,
                                                                  !.building = Catalog!TableFor(Holds[op.s], t)]]
    BY <1>4, <1>5, Zenon
  <2>2. \E c \in {NoCrs, CrsOf[op.s]}, b \in {"none", "empty"} :
          View' = [View EXCEPT ![op.d] = [Catalog!Whole(op.s) EXCEPT !.crs = c,
                                                                    !.building = Catalog!TableFor(Holds[op.s], b)]]
    BY <2>1, Zenon
  <2> QED
    BY <1>6, <2>2, CatalogIs, Zenon
<1>8. View'[op.d] # View[op.d]
  <2>1. Shown(w)[op.d] # Absent
    BY <1>1, <1>3, ShownAt
  <2> QED
    BY <1>6, <2>1
<1> QED
  BY <1>1, <1>7, <1>8, CatalogIs, Zenon

\* What is being created, after a step of a call.
LEMMA BuildingNext ==
  ASSUME IInv, IInv', NEW r \in Requests, Running(r), status' = status
  PROVE  /\ \A d : Building(d)' <=> call'[r].scopes \notin Unbuilt /\ call'[r].op.d = d
         /\ \A d : Building(d) <=> call[r].scopes \notin Unbuilt /\ call[r].op.d = d
<1>1. \A q \in Requests : Running(q)' <=> q = r
  BY Alone
<1>2. call'[r].scopes \in Stacks
  BY <1>1 DEF IInv, TypeOK, Call
<1>3. \A d : Building(d)' <=> call'[r].scopes \notin Unbuilt /\ call'[r].op.d = d
  BY <1>1, <1>2, StackHolds DEF Building, Inside, Op
<1>4. \A d : Building(d) <=> call[r].scopes \notin Unbuilt /\ call[r].op.d = d
  BY Alone
<1> QED
  BY <1>3, <1>4

\* Where Move and Error take a call.
LEMMA MovesTo ==
  ASSUME IInv, NEW r \in Requests, Running(r), NEW at, NEW y
  PROVE  /\ Move(r, at, y) => call'[r].op = call[r].op /\ call'[r].scopes = y
         /\ Error(r, y) => call'[r].op = call[r].op /\ call'[r].scopes = y
<1>1. call \in [Requests -> Call \cup {NoCall}] /\ call[r] \in Call
  BY DEF IInv, TypeOK
<1>2. ASSUME Move(r, at, y) PROVE call'[r].op = call[r].op /\ call'[r].scopes = y
  <2>1. call'[r] = [call[r] EXCEPT !.at = at, !.scopes = y]
    BY <1>1, <1>2 DEF Move
  <2> QED
    BY <1>1, <2>1 DEF Call
<1>3. ASSUME Error(r, y) PROVE call'[r].op = call[r].op /\ call'[r].scopes = y
  <2>1. call'[r] = [call[r] EXCEPT !.failed = TRUE, !.scopes = y]
    BY <1>1, <1>3 DEF Error
  <2> QED
    BY <1>1, <2>1 DEF Call
<1> QED
  BY <1>2, <1>3

\* A step of a call that does not change the lake, nor what it has built.
LEMMA CalmCall ==
  ASSUME IInv, IInv', NEW r \in Requests, Running(r), status' = status, lake' = lake,
         NEW at, NEW y, Move(r, at, y) \/ Error(r, y),
         y \notin Unbuilt <=> call[r].scopes \notin Unbuilt
  PROVE  View' = View
<1>1. call'[r].op = call[r].op /\ call'[r].scopes = y
  BY MovesTo
<1>2. \A d : Building(d)' <=> Building(d)
  BY <1>1, BuildingNext
<1> QED
  BY <1>2, Views

\* Most steps change nothing that others see.
LEMMA Calm ==
  ASSUME ServiceAssumption, IInv, IInv', NEW r \in Requests,
         \/ Fails(r) \/ CountSeed(r) \/ ReadCrs(r) \/ RunProbe(r)
         \/ Begin(r) \/ SetPath(r) \/ MakeProbe(r)
         \/ CommitFails(r) \/ ResetPath(r) \/ ResetFails(r)
         \/ DropProbe(r) \/ UnwindPath(r) \/ UnwindTxn(r)
  PROVE  View' = View
<1> DEFINE x == call[r].scopes
<1>1. CASE Fails(r) \/ CountSeed(r) \/ ReadCrs(r) \/ RunProbe(r)
  <2>1. Running(r) /\ status' = status /\ lake' = lake
    BY <1>1 DEF Fails, CountSeed, ReadCrs, RunProbe, At, session
  <2>2. \E at : Move(r, at, x) \/ Error(r, x)
    BY <1>1 DEF Fails, CountSeed, ReadCrs, RunProbe, Forward, Goto
  <2> QED
    BY <2>1, <2>2, CalmCall
<1>2. CASE Begin(r) \/ SetPath(r) \/ MakeProbe(r)
  <2>1. /\ Running(r) /\ ~call[r].failed /\ status' = status /\ lake' = lake
        /\ \/ Now(r) = "begin" /\ Enter(r, "txn")
           \/ Now(r) = "set" /\ Enter(r, "path")
           \/ Now(r) = "make_probe" /\ Enter(r, "probe")
    BY <1>2 DEF Begin, SetPath, MakeProbe, At
  <2>2. Now(r) \in Control \ {"end"}
    BY <2>1 DEF Control
  <2>3. /\ Now(r) = "begin" => x \in {Free, InBuilt}
        /\ Now(r) = "set" => x \in {Free, InTxn}
        /\ Now(r) = "make_probe" => x = InBuilt
    BY <2>1, <2>2, Controls DEF Nests
  <2>4. \E y : Move(r, call[r].at + 1, y) /\ (y \notin Unbuilt <=> x \notin Unbuilt)
    <3>1. CASE Now(r) = "begin" /\ Enter(r, "txn")
      <4>1. <<"txn">> \o x \notin Unbuilt <=> x \notin Unbuilt
        BY <2>3, <3>1, StackMoves, StackSorts
      <4> QED
        BY <3>1, <4>1 DEF Enter
    <3>2. CASE Now(r) = "set" /\ Enter(r, "path")
      <4>1. <<"path">> \o x \notin Unbuilt <=> x \notin Unbuilt
        BY <2>3, <3>2, StackMoves, StackSorts
      <4> QED
        BY <3>2, <4>1 DEF Enter
    <3>3. CASE Now(r) = "make_probe" /\ Enter(r, "probe")
      <4>1. <<"probe">> \o x \notin Unbuilt <=> x \notin Unbuilt
        BY <2>3, <3>3, StackMoves, StackSorts
      <4> QED
        BY <3>3, <4>1 DEF Enter
    <3> QED
      BY <2>1, <3>1, <3>2, <3>3
  <2> QED
    BY <2>1, <2>4, CalmCall
<1>3. CASE CommitFails(r) \/ ResetPath(r) \/ ResetFails(r) \/ DropProbe(r) \/ UnwindPath(r) \/ UnwindTxn(r)
  <2>1. /\ Running(r) /\ status' = status /\ lake' = lake
        /\ \/ ~call[r].failed /\ Now(r) \in {"commit", "reset", "drop_probe"}
           \/ call[r].failed /\ x # <<>> /\ Head(x) \in {"probe", "path", "txn"}
        /\ Leave(r) \/ Error(r, Tail(x))
    <3>1. CASE CommitFails(r) \/ ResetPath(r) \/ ResetFails(r)
      BY <3>1 DEF CommitFails, ResetPath, ResetFails, At, session
    <3>2. CASE DropProbe(r)
      BY <3>2 DEF DropProbe, At, Unwinding
    <3>3. CASE UnwindPath(r) \/ UnwindTxn(r)
      BY <3>3 DEF UnwindPath, UnwindTxn, Unwinding
    <3> QED
      BY <1>3, <3>1, <3>2, <3>3
  <2>2. x \in {InTxn, InBuiltTxn, InPath, InBoth, InProbe}
    <3>1. CASE ~call[r].failed /\ Now(r) \in {"commit", "reset", "drop_probe"}
      <4>1. Now(r) \in Control \ {"end"}
        BY <3>1 DEF Control
      <4> QED
        BY <2>1, <3>1, <4>1, Controls DEF Nests
    <3>2. CASE call[r].failed /\ x # <<>> /\ Head(x) \in {"probe", "path", "txn"}
      BY <2>1, <3>2, Leaving
    <3> QED
      BY <2>1, <3>1, <3>2
  <2>3. Tail(x) \notin Unbuilt <=> x \notin Unbuilt
    BY <2>2, StackMoves, StackSorts
  <2>4. Move(r, call[r].at + 1, Tail(x)) \/ Error(r, Tail(x))
    BY <2>1 DEF Leave
  <2> QED
    BY <2>1, <2>3, <2>4, CalmCall
<1> QED
  BY <1>1, <1>2, <1>3

\* The view while a call runs.
LEMMA ViewOf ==
  ASSUME ServiceAssumption, IInv, NEW r \in Requests, Running(r)
  PROVE  /\ Op(r) = call[r].op /\ Op(r) \in Operation /\ call[r].start \in [Datasets -> Held]
         /\ lake \in [Datasets -> Held] /\ work \in [Datasets -> Held]
         /\ call[r].scopes \in Unbuilt => View = Shown(lake)
         /\ call[r].scopes \notin Unbuilt =>
              /\ View = Shown(call[r].start)
              /\ Half(Op(r), call[r].start, lake)
         /\ call[r].scopes \in {InTxn, InBoth} => lake = call[r].start
<1> DEFINE v == call[r].start
<1>1. /\ Op(r) = call[r].op /\ Op(r) \in Operation /\ v \in [Datasets -> Held]
      /\ lake \in [Datasets -> Held] /\ work \in [Datasets -> Held]
      /\ call[r].scopes \notin Unbuilt => Half(Op(r), v, lake)
      /\ call[r].scopes \in {InTxn, InBoth} => lake = v
  BY Here, Session
<1>2. \A d : Building(d) <=> call[r].scopes \notin Unbuilt /\ call[r].op.d = d
  BY Alone
<1>3. ASSUME call[r].scopes \in Unbuilt
      PROVE  View = Shown(lake)
  <2>1. \A d \in Datasets : ~Building(d)
    BY <1>2, <1>3
  <2> QED
    BY <1>1, <2>1, Views
<1>4. ASSUME call[r].scopes \notin Unbuilt
      PROVE  View = Shown(v)
  <2>1. \A e \in Datasets : IF Building(e) THEN v[e] = Absent ELSE v[e] = lake[e]
    BY <1>1, <1>2, <1>4 DEF Half
  <2> QED
    BY <1>1, <2>1, Views
<1> QED
  BY <1>1, <1>3, <1>4

\* A statement changes the view when it is the drop of a dataset.
LEMMA StatementSeen ==
  ASSUME ServiceAssumption, IInv, IInv', NEW r \in Requests, Statement(r)
  PROVE  Catalog!Next \/ View' = View
<1> DEFINE op == Op(r)
           at == call[r].at
           v == call[r].start
           x == call[r].scopes
           s == Now(r)
<1>1. /\ Running(r) /\ ~call[r].failed /\ s \notin Control /\ Accepts(s, op)
      /\ Forward(r) /\ status' = status
      /\ work' = [work EXCEPT ![op.d] = Effect(s, op, work[op.d])]
      /\ lake' = IF txn THEN lake ELSE work'
  BY DEF Statement, Put
<1>2. /\ op \in Operation /\ op.kind \in Kinds /\ op.d \in Datasets /\ at \in 1..22
      /\ v \in [Datasets -> Held] /\ s = StepAt(op.kind, at) /\ op = call[r].op
      /\ x = ScopesAt(op.kind, at) /\ Reached(op, at, v, work)
  BY <1>1, Here
<1>3. Move(r, at + 1, x)
  BY <1>1 DEF Forward
<1>4. /\ txn <=> x \in Transactions
      /\ ~txn => work = lake
      /\ lake \in [Datasets -> Held] /\ work \in [Datasets -> Held]
  BY <1>1, Session
<1>5. CASE lake' = lake
  BY <1>1, <1>3, <1>5, CalmCall
<1>6. CASE ~txn
  <2>1. x \notin Transactions
    BY <1>4, <1>6
  <2>2. \/ op.kind = "create" /\ at = 19 /\ s = "footer"
        \/ op.kind = "drop" /\ at = 2 /\ s = "drop"
        \/ s \in Quiet
    BY <1>1, <1>2, <2>1, OpenPlaces
  <2>3. lake' = work' /\ work = lake
    BY <1>1, <1>4, <1>6
  <2>4. Nests(op.kind, at)
    BY <1>1, Session
  <2>5. call'[r].op = op /\ call'[r].scopes = x
    BY <1>1, <1>2, <1>3, MovesTo
  <2>6. CASE s \in Quiet
    <3>1. Effect(s, op, work[op.d]) = work[op.d]
      BY <2>6, QuietIs
    <3>2. work' = work
      BY <1>1, <1>2, <1>4, <3>1
    <3> QED
      BY <1>5, <2>3, <3>2
  <2>7. CASE s = "footer"
    <3>1. x = InBuilt /\ x \notin Unbuilt
      BY <1>2, <2>4, <2>7, StackSorts DEF Nests
    <3>2. \A e \in Datasets : Building(e)' <=> Building(e)
      BY <1>1, <1>2, <2>5, BuildingNext
    <3>3. \A e \in Datasets : Building(e) \/ lake'[e] = lake[e]
      <4>1. \A e \in Datasets : e # op.d => work'[e] = work[e]
        BY <1>1, <1>4
      <4>2. Building(op.d)
        BY <1>1, <1>2, <3>1, BuildingNext
      <4> QED
        BY <2>3, <4>1, <4>2
    <3> QED
      BY <3>2, <3>3, Views
  <2>8. CASE op.kind = "drop" /\ at = 2 /\ s = "drop"
    <3>1. x = Free
      BY <1>2, <2>4, <2>8 DEF Nests
    <3>2. lake = v
      <4>1. ScopesAt(op.kind, at) \in {Free, InPath} /\ StepAt(op.kind, at) \notin {"recount", "describe", "end"}
        BY <1>2, <2>8, <3>1
      <4> QED
        BY <1>2, <1>4, <2>3, <4>1, Untouched
    <3>3. Reached(op, 3, v, work') /\ work' \in [Datasets -> Held]
      <4>1. Doing(op, at, v, s)
        BY <1>1, <1>2, <1>4 DEF Doing
      <4>2. s # "end"
        BY <2>8
      <4>3. Reached(op, at + 1, v, work') /\ work' \in [Datasets -> Held]
        BY <1>1, <4>1, <4>2, StatementStep
      <4> QED
        BY <2>8, <4>3
    <3>4. AllMade(op.kind, 3)
      BY <2>8, StillIs DEF AllMade
    <3>5. View = Shown(v) /\ View' = Shown(work')
      <4>1. \A e \in Datasets : ~Building(e) /\ ~Building(e)'
        BY <1>1, <1>2, <2>5, <3>1, StackSorts, BuildingNext
      <4>2. lake' \in [Datasets -> Held]
        BY <2>3, <3>3
      <4>3. View = Shown(lake) /\ View' = Shown(lake')
        BY <1>4, <4>1, <4>2, Views
      <4> QED
        BY <2>3, <3>2, <4>3, Zenon
    <3> QED
      BY <1>2, <3>3, <3>4, <3>5, DoneIsNext
  <2> QED
    BY <2>2, <2>6, <2>7, <2>8
<1> QED
  BY <1>1, <1>5, <1>6

\* A commit changes it when it is not one of a create.
LEMMA CommitSeen ==
  ASSUME ServiceAssumption, IInv, IInv', NEW r \in Requests, Commit(r)
  PROVE  Catalog!Next \/ View' = View
<1> DEFINE op == Op(r)
           at == call[r].at
           v == call[r].start
           x == call[r].scopes
<1>1. /\ Running(r) /\ ~call[r].failed /\ Now(r) = "commit" /\ lake' = work
      /\ IF op.kind = "create" /\ ~Inside(r, "built") THEN Move(r, at + 1, InBuilt) ELSE Leave(r)
      /\ status' = status
  BY DEF Commit, At, InBuilt
<1>2. Now(r) \in Control \ {"end"}
  BY <1>1 DEF Control
<1>3. /\ op = call[r].op /\ op \in Operation /\ op.kind \in Kinds /\ at \in 1..22
      /\ v \in [Datasets -> Held] /\ x \in Stacks /\ Reached(op, at, v, work) /\ Now(r) = StepAt(op.kind, at)
      /\ lake \in [Datasets -> Held] /\ work \in [Datasets -> Held]
  BY <1>1, <1>2, Controls, Types
<1>4. /\ x \in {InTxn, InBuiltTxn}
      /\ Inside(r, "built") <=> x \notin Unbuilt
      /\ x \notin Unbuilt => op.kind = "create"
  <2>1. x \in {InTxn, InBuiltTxn}
    BY <1>1, <1>2, Controls DEF Nests
  <2>2. Inside(r, "built") <=> x \notin Unbuilt
    BY <1>3, StackHolds DEF Inside
  <2> QED
    BY <1>1, <2>1, <2>2, Session
<1>5. View = Shown(v)
  BY <1>1, <1>4, StackSorts, ViewOf
<1>6. CASE op.kind = "create"
  <2>1. call'[r].scopes = InBuilt
    <3>1. CASE x = InTxn
      BY <1>1, <1>4, <1>6, <3>1, StackSorts, MovesTo
    <3>2. CASE x = InBuiltTxn
      <4>1. Inside(r, "built")
        BY <1>4, <3>2, StackSorts
      <4>2. Move(r, at + 1, InBuilt)
        BY <1>1, <3>2, <4>1, StackMoves DEF Leave
      <4> QED
        BY <1>1, <4>2, MovesTo
    <3> QED
      BY <1>4, <3>1, <3>2
  <2>2. call'[r].op = op
    <3>1. \E y : Move(r, at + 1, y)
      BY <1>1 DEF Leave
    <3> QED
      BY <1>1, <1>3, <3>1, MovesTo
  <2>3. \A e : Building(e)' <=> op.d = e
    BY <1>1, <2>1, <2>2, StackSorts, BuildingNext
  <2>4. \A e \in Datasets : IF Building(e)' THEN v[e] = Absent ELSE v[e] = lake'[e]
    <3>1. at > 1
      BY <1>1, <1>2, <1>3, ControlPlaces
    <3>2. v[op.d] = Absent /\ \A e \in Datasets : e # op.d => work[e] = v[e]
      BY <1>3, <1>6, <3>1 DEF Reached
    <3> QED
      BY <1>1, <2>3, <3>2
  <2>5. View' = Shown(v)
    <3>1. [d \in Datasets |-> IF Building(d)' THEN Absent ELSE lake'[d]] = v
      BY <1>3, <2>4
    <3> QED
      BY <3>1, Zenon DEF View, Shown
  <2> QED
    BY <1>5, <2>5, Zenon
<1>7. CASE op.kind # "create"
  <2>1. x = InTxn /\ ~Inside(r, "built")
    BY <1>4, <1>7, StackSorts
  <2>2. Move(r, at + 1, Free)
    BY <1>1, <1>7, <2>1, StackMoves DEF Leave
  <2>3. call'[r].scopes = Free
    BY <1>1, <2>2, MovesTo
  <2>4. \A e \in Datasets : ~Building(e)'
    BY <1>1, <2>3, StackSorts, BuildingNext
  <2>5. View' = Shown(work)
    <3>1. lake' \in [Datasets -> Held]
      BY <1>1, <1>3
    <3>2. View' = Shown(lake')
      BY <2>4, <3>1, Views
    <3> QED
      BY <1>1, <3>2, Zenon
  <2>6. AllMade(op.kind, at)
    BY <1>1, <1>3, <1>7, DonePlaces
  <2> QED
    BY <1>3, <1>5, <2>5, <2>6, DoneIsNext
<1> QED
  BY <1>6, <1>7

\* A create shows its dataset when nothing is left to unwind by a DROP.
LEMMA BuiltSeen ==
  ASSUME ServiceAssumption, IInv, IInv', NEW r \in Requests, Built(r)
  PROVE  Catalog!Next \/ View' = View
<1> DEFINE op == Op(r)
           at == call[r].at
           v == call[r].start
           x == call[r].scopes
<1>1. /\ Running(r) /\ ~call[r].failed /\ Now(r) = "built" /\ lake' = lake /\ Leave(r) /\ status' = status
  BY DEF Built, At, session
<1>2. Now(r) \in Control \ {"end"}
  BY <1>1 DEF Control
<1>3. /\ op = call[r].op /\ op \in Operation /\ op.kind \in Kinds /\ at \in 1..22
      /\ v \in [Datasets -> Held] /\ Reached(op, at, v, work) /\ Now(r) = StepAt(op.kind, at)
      /\ lake \in [Datasets -> Held]
  BY <1>1, <1>2, Controls, Types
<1>4. x = InBuilt
  BY <1>1, <1>2, Controls DEF Nests
<1>5. op.kind = "create" /\ work = lake /\ View = Shown(v)
  BY <1>1, <1>4, StackSorts, Session, ViewOf
<1>6. at = 20
  BY <1>1, <1>2, <1>3, <1>5, ControlPlaces
<1>7. View' = Shown(lake)
  <2>1. Move(r, at + 1, Free)
    BY <1>1, <1>4, StackMoves DEF Leave
  <2>2. \A e \in Datasets : ~Building(e)'
    BY <1>1, <2>1, MovesTo, StackSorts, BuildingNext
  <2>3. View' = Shown(lake')
    BY <1>1, <1>3, <2>2, Views
  <2> QED
    BY <1>1, <2>3, Zenon
<1>8. AllMade(op.kind, at)
  BY <1>1, <1>3, DonePlaces
<1> QED
  BY <1>3, <1>5, <1>7, <1>8, DoneIsNext

\* A failed create that is undone has changed nothing, and one that is not was
\* cut short.
LEMMA UnwoundSeen ==
  ASSUME ServiceAssumption, IInv, IInv', NEW r \in Requests, UnwindBuilt(r) \/ UnwindBuiltFails(r)
  PROVE  Catalog!Next \/ View' = View
<1> DEFINE op == Op(r)
           v == call[r].start
           x == call[r].scopes
<1>1. /\ Running(r) /\ call[r].failed /\ x # <<>> /\ Head(x) = "built" /\ Error(r, Tail(x)) /\ status' = status
      /\ \/ work' = [work EXCEPT ![op.d] = Absent] /\ lake' = IF txn THEN lake ELSE work'
         \/ lake' = lake
  <2>1. CASE UnwindBuilt(r)
    BY <2>1 DEF UnwindBuilt, Unwinding, Put
  <2>2. CASE UnwindBuiltFails(r)
    BY <2>2 DEF UnwindBuiltFails, Unwinding, session
  <2> QED
    BY <2>1, <2>2
<1>2. x = InBuilt /\ Tail(x) = Free
  BY <1>1, Leaving, StackMoves
<1>3. /\ ~txn /\ work = lake /\ View = Shown(v) /\ Half(op, v, lake) /\ op \in Operation /\ op.d \in Datasets
      /\ lake \in [Datasets -> Held] /\ v \in [Datasets -> Held]
  BY <1>1, <1>2, StackSorts, Session, ViewOf, Leaving
<1>4. \A e \in Datasets : ~Building(e)'
  <2>1. call'[r].scopes = Free
    BY <1>1, <1>2, MovesTo
  <2> QED
    BY <1>1, <2>1, StackSorts, BuildingNext
<1>5. CASE work' = [work EXCEPT ![op.d] = Absent] /\ lake' = (IF txn THEN lake ELSE work')
  <2>1. lake' = [lake EXCEPT ![op.d] = Absent]
    BY <1>3, <1>5
  <2>2. \A e \in Datasets : lake'[e] = v[e]
    BY <1>3, <2>1 DEF Half
  <2>3. lake' = v
    BY <1>3, <2>1, <2>2
  <2>4. View' = Shown(lake')
    BY <1>3, <1>4, <2>3, Views
  <2> QED
    BY <1>3, <2>3, <2>4, Zenon
<1>6. CASE lake' = lake
  <2>1. View' = Shown(lake')
    BY <1>3, <1>4, <1>6, Views
  <2>2. View' = Shown(lake)
    BY <1>6, <2>1, Zenon
  <2> QED
    BY <1>3, <2>2, CutIsNext
<1> QED
  BY <1>1, <1>5, <1>6

\* A call that begins changes nothing, nor does one that is answered.
LEMMA EdgesSeen ==
  ASSUME ServiceAssumption, IInv, IInv', NEW r \in Requests,
         (\E op \in Operation : Acquire(r, op)) \/ RefusePoisoned(r) \/ Answer(r)
  PROVE  View' = View
<1>1. lake' = lake /\ lake \in [Datasets -> Held]
  <2>1. lake' = lake
    BY DEF Acquire, RefusePoisoned, Answer, session
  <2> QED
    BY <2>1, Types
<1>2. (\A e \in Datasets : ~Building(e)) /\ \A e \in Datasets : ~Building(e)'
  <2>1. ASSUME NEW op \in Operation, Acquire(r, op)
        PROVE  (\A e \in Datasets : ~Building(e)) /\ \A e \in Datasets : ~Building(e)'
    <3>1. /\ \A q \in Requests : ~Running(q)
          /\ status' = [status EXCEPT ![r] = "running"]
          /\ call'[r].scopes = Free
      <4>1. call \in [Requests -> Call \cup {NoCall}]
        BY Types
      <4> QED
        BY <2>1, <4>1 DEF Acquire, Free
    <3>2. \A q \in Requests : Running(q)' => q = r
      BY <3>1, Types DEF Running
    <3>3. ~Inside(r, "built")'
      BY <3>1, StackHolds, StackSorts DEF Inside
    <3> QED
      BY <3>1, <3>2, <3>3 DEF Building
  <2>2. CASE RefusePoisoned(r)
    <3>1. poisoned /\ status' = [status EXCEPT ![r] = "done"]
      BY <2>2 DEF RefusePoisoned
    <3>2. \A q \in Requests : ~Running(q)
      BY <3>1 DEF IInv, Turns
    <3>3. \A q \in Requests : ~Running(q)'
      BY <3>1, <3>2, Types DEF Running
    <3> QED
      BY <3>2, <3>3 DEF Building
  <2>3. CASE Answer(r)
    <3>1. Running(r) /\ call[r].scopes = Free /\ status' = [status EXCEPT ![r] = "done"]
      BY <2>3 DEF Answer, Finished, Free
    <3>2. \A q \in Requests : Running(q) <=> q = r
      BY <3>1, Alone
    <3>3. \A q \in Requests : ~Running(q)'
      BY <3>1, <3>2, Types DEF Running
    <3>4. \A e : ~Building(e)
      BY <3>1, StackSorts, Alone
    <3> QED
      BY <3>3, <3>4 DEF Building
  <2> QED
    BY <2>1, <2>2, <2>3
<1> QED
  BY <1>1, <1>2, Views

\* A create that panics or is killed is cut short.
LEMMA LostSeen ==
  ASSUME ServiceAssumption, IInv, IInv', Kill \/ \E r \in Requests : Panic(r)
  PROVE  Catalog!Next \/ View' = View
<1>1. lake' = lake /\ lake \in [Datasets -> Held]
  <2>1. lake' = lake
    BY DEF Kill, Panic, session
  <2> QED
    BY <2>1, Types
<1>2. \A q \in Requests : ~Running(q)'
  <2>1. CASE Kill
    BY <2>1 DEF Kill, Running
  <2>2. ASSUME NEW r \in Requests, Panic(r)
        PROVE  \A q \in Requests : ~Running(q)'
    <3>1. Running(r) /\ status' = [status EXCEPT ![r] = "done"]
      BY <2>2 DEF Panic
    <3>2. \A q \in Requests : Running(q) <=> q = r
      BY <3>1, Alone
    <3> QED
      BY <3>1, <3>2, Types DEF Running
  <2> QED
    BY <2>1, <2>2
<1>3. View' = Shown(lake)
  <2>1. \A e \in Datasets : ~Building(e)'
    BY <1>2 DEF Building
  <2>2. View' = Shown(lake')
    BY <1>1, <2>1, Views
  <2> QED
    BY <1>1, <2>2, Zenon
<1>4. CASE \E r \in Requests : Running(r) /\ call[r].scopes \notin Unbuilt
  <2>1. PICK r \in Requests : Running(r) /\ call[r].scopes \notin Unbuilt
    BY <1>4
  <2>2. /\ Op(r) \in Operation /\ call[r].start \in [Datasets -> Held]
        /\ View = Shown(call[r].start) /\ Half(Op(r), call[r].start, lake)
    BY <2>1, ViewOf
  <2> QED
    BY <1>1, <1>3, <2>2, CutIsNext
<1>5. CASE \A r \in Requests : Running(r) => call[r].scopes \in Unbuilt
  <2>1. \A e \in Datasets : ~Building(e)
    <3>1. \A r \in Requests : Running(r) => ~Inside(r, "built")
      BY <1>5, StackHolds DEF Inside, Stacks
    <3> QED
      BY <3>1 DEF Building
  <2>2. View = Shown(lake)
    BY <1>1, <2>1, Views
  <2> QED
    BY <1>3, <2>2, Zenon
<1> QED
  BY <1>4, <1>5

\* Every step is one of the abstract lake, or none.
LEMMA StepIsNext ==
  ASSUME ServiceAssumption, IInv, IInv', [Next]_vars
  PROVE  Catalog!Next \/ View' = View
<1>1. ASSUME NEW r \in Requests, Step(r)
      PROVE  Catalog!Next \/ View' = View
  <2>1. CASE (\E op \in Operation : Acquire(r, op)) \/ RefusePoisoned(r) \/ Answer(r)
    BY <2>1, EdgesSeen
  <2>2. CASE Statement(r)
    BY <2>2, StatementSeen
  <2>3. CASE Commit(r)
    BY <2>3, CommitSeen
  <2>4. CASE Built(r)
    BY <2>4, BuiltSeen
  <2>5. CASE UnwindBuilt(r) \/ UnwindBuiltFails(r)
    BY <2>5, UnwoundSeen
  <2>6. CASE \/ Fails(r) \/ CountSeed(r) \/ ReadCrs(r) \/ RunProbe(r)
             \/ Begin(r) \/ SetPath(r) \/ MakeProbe(r)
             \/ CommitFails(r) \/ ResetPath(r) \/ ResetFails(r)
             \/ DropProbe(r) \/ UnwindPath(r) \/ UnwindTxn(r)
    BY <2>6, Calm
  <2> QED
    BY <1>1, <2>1, <2>2, <2>3, <2>4, <2>5, <2>6 DEF Step
<1>2. CASE Kill \/ \E r \in Requests : Panic(r)
  BY <1>2, LostSeen
<1>3. CASE UNCHANGED vars
  <2>1. status' = status /\ call' = call /\ lake' = lake
    BY <1>3 DEF vars, session
  <2>2. \A e \in Datasets : Building(e)' <=> Building(e)
    BY <2>1 DEF Building, Running, Inside, Op
  <2> QED
    BY <2>1, <2>2, Views
<1> QED
  BY <1>1, <1>2, <1>3 DEF Next

\* What a lake holds at the start is what its sources hold.
LEMMA StartsWhole ==
  ASSUME ServiceAssumption, Init
  PROVE  Catalog!Init
<1>1. IInv
  BY Starts
<1>2. \A e \in Datasets : ~Building(e)
  BY DEF Init, Building, Running
<1>3. lake \in [Datasets -> Held]
  BY <1>1, Types
<1>4. View = Shown(lake)
  BY <1>2, <1>3, Views
<1>5. ASSUME NEW d \in Datasets
      PROVE  Shown(lake)[d] \in {Catalog!Whole(s) : s \in Existing} \cup {Absent}
  <2>1. CASE lake[d] = Absent
    BY <1>3, <2>1, ShownAt
  <2>2. CASE lake[d] # Absent
    <3>1. PICK s \in Existing : lake[d] = Loaded(s)
      BY <2>2 DEF Init
    <3>2. s \in Sources
      BY <3>1 DEF ServiceAssumption
    <3>3. Is(lake[d], Holds[s], {}, TRUE, CrsOf[s], CrsOf[s], TableFor(Holds[s], "none"))
      BY <3>1, <3>2, NewSchemas, Zenon
    <3>4. Shown(lake)[d] = [rows |-> lake[d].rows, edited |-> lake[d].edited, crs |-> lake[d].crs,
                            building |-> lake[d].building]
      BY <1>3, <2>2, ShownAt
    <3>5. /\ lake[d].rows = Holds[s] /\ lake[d].edited = {} /\ lake[d].crs = CrsOf[s]
          /\ lake[d].building = TableFor(Holds[s], "none")
      BY <3>3 DEF Is
    <3>6. Catalog!TableFor(Holds[s], "none") = TableFor(Holds[s], "none")
      BY DEF Catalog!TableFor, TableFor
    <3>7. Shown(lake)[d] = Catalog!Whole(s)
      BY <3>4, <3>5, <3>6, Zenon DEF Catalog!Whole
    <3> QED
      BY <3>1, <3>7
  <2> QED
    BY <2>1, <2>2
<1>6. Shown(lake) \in [Datasets -> {Catalog!Whole(s) : s \in Existing} \cup {Absent}]
  <2>1. Shown(lake) = [d \in Datasets |-> Shown(lake)[d]]
    BY DEF Shown
  <2> DEFINE f == Shown(lake)
             S == {Catalog!Whole(s) : s \in Existing} \cup {Absent}
  <2>2. f = [d \in Datasets |-> f[d]] /\ \A d \in Datasets : f[d] \in S
    BY <1>5, <2>1
  <2> HIDE DEF f, S
  <2>3. f \in [Datasets -> S]
    BY <2>2
  <2> QED
    BY <2>3 DEF f, S
<1> QED
  BY <1>4, <1>6, CatalogIs, Zenon

\* Requests change the catalog one at a time, each once and as a whole; only a
\* create that panics, is killed or cannot drop what it built leaves a part
\* (dataset.rs: create_dataset_impl; service.rs: in_transaction).
THEOREM Implements == ASSUME ServiceAssumption PROVE Spec => Atomic
<1>1. Init => Catalog!Init
  BY StartsWhole
<1>2. IInv /\ IInv' /\ [Next]_vars => [Catalog!Next]_View
  BY StepIsNext
<1>3. Catalog!Spec <=> Catalog!Init /\ [][Catalog!Next]_View
  BY DEF Catalog!Spec, View
<1> QED
  BY <1>1, <1>2, <1>3, Holding, PTL DEF Spec, Atomic
=============================================================================
