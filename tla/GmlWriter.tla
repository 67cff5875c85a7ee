------------------------------ MODULE GmlWriter ------------------------------
(***************************************************************************)
(* Features to a document, one at a time, in any order: an object whose    *)
(* parent is in another feature is written inside that parent, whichever   *)
(* comes first (lib/citygml-rs/crates/core/src/convert/cjseq/writer.rs).   *)
(*                                                                         *)
(* A writer is [doc, out, held, next, awaited, strays, proxies, gone,      *)
(* notes]: the document and its members so far; the top-level objects that *)
(* wait, by number, each an [object, awaiting, stray]; the children that   *)
(* have not come, by id, each with its parent and the tree this is in; the *)
(* trees that stand for each part whose parent has not come; the children  *)
(* elsewhere of a part that has no class; and the extension's objects      *)
(* that no parent can take any more.                                       *)
(*                                                                         *)
(* A hash map's entries come in an order chosen by the step.  Left out:    *)
(* the head of the document, its namespaces and its schemas' places.       *)
(***************************************************************************)
EXTENDS ToGml, GmlDocument

FirstLevel ==
  {"Bridge", "Building", "CityFurniture", "CityObjectGroup", "GenericCityObject", "LandUse", "OtherConstruction",
   "PlantCover", "Railway", "Road", "SolitaryVegetationObject", "TINRelief", "TransportSquare", "Tunnel",
   "WaterBody", "Waterway"}

OutsideNote == "links to children outside their parent's feature"
StrayNote == "parts whose parent was not written as their parent (written on their own)"

\* The parts with a parent in another feature: whether each is of CityGML's own types.
OutsideParts(f) ==
  LET part(co) == /\ co.type.plus \/ co.type.word \notin FirstLevel
                  /\ \E p \in ToSet(Listing(co.parents)) : p \notin DOMAIN f.objects
      ids == {id \in DOMAIN f.objects : part(f.objects[id])}
      at(name) == CHOOSE id \in ids : Ncname(id) = name
  IN  [name \in {Ncname(id) : id \in ids} |-> ~f.objects[at(name)].type.plus]

\* The children in other features that objects name: <<object, child>>.
LinksOutside(f, order) ==
  LET own(id) == FoldLeft(LAMBDA seen, c : IF c \in DOMAIN f.objects \/ Contains(seen, <<id, Ncname(c)>>) THEN seen
                                           ELSE Append(seen, <<id, Ncname(c)>>),
                          <<>>, Listing(f.objects[id].children))
  IN  FlattenSeq([n \in DOMAIN order |-> IF IsGroup(f, order[n]) THEN <<>> ELSE own(order[n])])

\* The parent in the feature an object is written inside.
Up(f, id) ==
  LET above == SelectSeq(Listing(f.objects[id].parents),
                         LAMBDA p : p \in DOMAIN f.objects /\ ~IsGroup(f, p) /\ Lists(f, p, id))
  IN  IF above = <<>> THEN None ELSE Some(above[1])

RECURSIVE Topmost(_, _, _)
Topmost(f, id, steps) == IF steps = 0 \/ Up(f, id) = None THEN id ELSE Topmost(f, Up(f, id)[1], steps - 1)

RECURSIVE ObjectIds(_)
ObjectIds(o) == ToSet(o.id) \cup UNION {ObjectIds(o.children[c]) : c \in DOMAIN o.children}

RECURSIVE PutIn(_, _, _)
\* The tree with an object put in one of its own.
PutIn(tree, parent, part) ==
  IF tree.id = Some(parent) THEN [tree EXCEPT !.children = Append(@, part)]
  ELSE [tree EXCEPT !.children = [c \in DOMAIN @ |-> PutIn(@[c], parent, part)]]

Without(f, keys) == [k \in DOMAIN f \ keys |-> f[k]]
NoteLost(w, count) == [w EXCEPT !.notes = @ \o Times(count, OutsideNote)]
-----------------------------------------------------------------------------
(* Claims *)

\* Mutant: the children the tree awaits are left as they are.
ClaimTreeAlone(w, tree, parent, part) ==
  [w EXCEPT !.held = Without([@ EXCEPT ![tree].object = PutIn(@, parent, w.held[part].object)], {part})]

\* A held tree goes into a parent, whose tree takes on the children it awaits.
ClaimTree(w, tree, parent, part) ==
  LET moved == {c \in DOMAIN w.awaited : w.awaited[c].tree = part}
  IN  [w EXCEPT !.awaited = [c \in DOMAIN @ |-> IF c \in moved THEN [@[c] EXCEPT !.tree = tree] ELSE @[c]],
                !.held = Without([@ EXCEPT ![tree].awaiting = @ + Cardinality(moved),
                                           ![tree].object = PutIn(@, parent, w.held[part].object)], {part})]

ClaimAll(w, tree, parent, parts) == FoldLeft(LAMBDA acc, part : ClaimTree(acc, tree, parent, part), w, parts)

RECURSIVE Link(_, _, _, _)
\* A child named in a held tree goes into it if it has come and is free, else
\* is awaited.
Link(w, tree, parent, child) ==
  LET stands == IF child \in DOMAIN w.strays THEN w.strays[child] ELSE <<>>
      below == IF child \in DOMAIN w.proxies THEN w.proxies[child] ELSE <<>>
      claimed == ClaimAll([w EXCEPT !.strays = Without(@, {child})], tree, parent, stands)
  IN  IF child \in DOMAIN w.strays
      THEN FoldLeft(LAMBDA acc, c : Link(acc, tree, parent, c), [claimed EXCEPT !.proxies = Without(@, {child})], below)
      ELSE IF child \in w.gone \cup DOMAIN w.awaited THEN NoteLost(w, 1)
      ELSE [w EXCEPT !.held[tree].awaiting = @ + 1, !.awaited = (child :> [parent |-> parent, tree |-> tree]) @@ @]

LinkAll(w, tree, parent, children) == FoldLeft(LAMBDA acc, c : Link(acc, tree, parent, c), w, children)

\* A child that came is no longer awaited.
Came(w, child) ==
  [w EXCEPT !.awaited = Without(@, {child}), !.held[w.awaited[child].tree].awaiting = @ - 1]
-----------------------------------------------------------------------------
(* A feature that has to do with others *)

HoldAll(w, objects) ==
  LET new == [k \in w.next .. w.next + Len(objects) - 1 |->
                [object |-> objects[k - w.next + 1], awaiting |-> 0, stray |-> FALSE]]
  IN  [w EXCEPT !.held = new @@ @, !.next = @ + Len(objects)]

\* What an object is written in or in place of: [tree, name] of itself or of
\* the nearest above it that has a class, or the name of the topmost.
PlaceFor(f, trees, id) ==
  LET tree(at) == {k \in DOMAIN trees : Ncname(at) \in ObjectIds(trees[k])}
      up(seen, n) == IF tree(Last(seen)) # {} \/ Up(f, Last(seen)) = None THEN seen ELSE Append(seen, Up(f, Last(seen))[1])
      last == Last(FoldLeft(up, <<id>>, SetToSeq(DOMAIN f.objects)))
  IN  [tree |-> IF tree(last) = {} THEN None ELSE Some(CHOOSE k \in tree(last) : TRUE), name |-> Ncname(last)]

\* The links from objects that are held; the others wait, [w, deferred].
LinkHeld(w, f, trees, links) ==
  LET one(acc, link) ==
        LET place == PlaceFor(f, trees, link[1])
            before == IF place.name \in DOMAIN acc.deferred THEN acc.deferred[place.name] ELSE <<>>
        IN  IF place.tree # None THEN [acc EXCEPT !.w = Link(@, place.tree[1], place.name, link[2])]
            ELSE [acc EXCEPT !.deferred = (place.name :> Append(before, link[2])) @@ @]
  IN  FoldLeft(one, [w |-> w, deferred |-> <<>>], links)

\* The objects without a class and without a parent here, for which the roots
\* that their children became stand: [w, taken, touched].
Replaced(linked, f, trees, order) ==
  LET stand(id) == SetToSortSeq({k \in DOMAIN trees : \E x \in DOMAIN f.objects :
                                   trees[k].id = Some(Ncname(x)) /\ Topmost(f, x, Cardinality(DOMAIN f.objects)) = id}, <)
      classless(id) == Up(f, id) = None /\ \A k \in DOMAIN trees : Ncname(id) \notin ObjectIds(trees[k])
      outside == OutsideParts(f)
      one(acc, id) ==
        LET name == Ncname(id)
            parts == stand(id)
            children == IF name \in DOMAIN linked.deferred THEN linked.deferred[name] ELSE <<>>
            at == acc.w.awaited[name]
            own == [acc EXCEPT !.taken = @ \cup ToSet(parts)]
        IN  IF name \in DOMAIN acc.w.awaited
            THEN [own EXCEPT !.w = LinkAll(ClaimAll(Came(@, name), at.tree, at.parent, parts), at.tree, at.parent, children),
                             !.touched = Append(@, at.tree)]
            ELSE IF name \in DOMAIN outside /\ outside[name]
            THEN [own EXCEPT !.w = [@ EXCEPT !.held = [k \in DOMAIN @ |-> [@[k] EXCEPT !.stray = @ \/ Contains(parts, k)]],
                                             !.strays = (name :> parts) @@ @, !.proxies = (name :> children) @@ @]]
            ELSE [own EXCEPT !.w = NoteLost(@, Len(children))]
  IN  FoldLeft(one, [w |-> linked.w, taken |-> {}, touched |-> SetToSortSeq(DOMAIN trees, <)],
               SelectSeq(order, classless))

\* Each other object that came: into the tree that awaits it, unless that is
\* its own, or waiting for its parent.
PlacedInside(replaced, f, trees) ==
  LET outside == OutsideParts(f)
      one(acc, k) ==
        LET id == trees[k].id[1]
            at == acc.w.awaited[id]
        IN  IF k \in acc.taken \/ k \notin DOMAIN acc.w.held THEN acc
            ELSE IF id \in DOMAIN acc.w.awaited
            THEN IF at.tree = k THEN acc
                 ELSE [acc EXCEPT !.w = ClaimTree(Came(@, id), at.tree, at.parent, k), !.touched = Append(@, at.tree)]
            ELSE IF id \notin DOMAIN outside THEN acc
            ELSE IF outside[id] THEN [acc EXCEPT !.w.held[k].stray = TRUE, !.w.strays = (id :> <<k>>) @@ @]
            ELSE [acc EXCEPT !.w.gone = @ \cup {id}]
  IN  FoldLeft(one, replaced, SetToSortSeq(DOMAIN trees, <))

PutOut(w, written) == [w EXCEPT !.doc = written.doc, !.out = @ \o written.out]
WriteOut(w, objects) == PutOut(w, TopLevel(w.doc, objects))

\* The trees touched that wait for nothing are written.
Flushed(placed) ==
  LET waits(k) == k \notin DOMAIN placed.w.held \/ placed.w.held[k].awaiting > 0 \/ placed.w.held[k].stray
      ready == FoldLeft(LAMBDA seen, k : IF waits(k) \/ Contains(seen, k) THEN seen ELSE Append(seen, k), <<>>, placed.touched)
  IN  [w |-> [placed.w EXCEPT !.held = Without(@, ToSet(ready))],
       objects |-> [n \in DOMAIN ready |-> placed.w.held[ready[n]].object]]
-----------------------------------------------------------------------------
(* The writer *)

NewWriter(templates) ==
  [doc |-> EmptyDocument(templates), out |-> <<>>, held |-> <<>>, next |-> 1, awaited |-> <<>>, strays |-> <<>>,
   proxies |-> <<>>, gone |-> {}, notes |-> <<>>]

\* Whether a feature is written as it comes.
StandsAlone(w, f, order) ==
  /\ DOMAIN OutsideParts(f) = {} /\ LinksOutside(f, order) = <<>>
  /\ \A id \in DOMAIN f.objects : Ncname(id) \notin DOMAIN w.awaited

\* A feature's objects, held among the others until none of them waits.
Joined(w, f, trees, order) ==
  Flushed(PlacedInside(Replaced(LinkHeld(w, f, trees, LinksOutside(f, order)), f, trees, order), f, trees))

\* What is written as a feature comes, and what is held then.
Ready(w, f, objects, order) ==
  LET all == HoldAll(w, objects)
  IN  IF StandsAlone(w, f, order) THEN [w |-> w, objects |-> objects]
      ELSE Joined(all, f, [k \in w.next .. all.next - 1 |-> all.held[k].object], order)

WriteReady(ready) == WriteOut(ready.w, ready.objects)

WriteModel(w, f, model, order) == WriteReady(Ready([w EXCEPT !.notes = @ \o model.notes], f, model.objects, order))

WriteFeature(w, cx, f, order) == WriteModel(w, f, ToGml(cx, f), order)

\* The members and the notes when all is written.
EndedWith(w, ended) == [members |-> w.out \o ended.out, notes |-> w.notes \o ended.doc.notes]
Ended(w) == EndedWith(w, Finish(w.doc))

\* Mutant: a tree with a child that has not come is forgotten.
FinishForgetting(w) ==
  LET keys == SetToSortSeq({k \in DOMAIN w.held : w.held[k].awaiting = 0}, <)
  IN  Ended(WriteOut(w, [n \in DOMAIN keys |-> w.held[keys[n]].object]))

\* The end: what still waits is written on its own, in the order it came.
FinishWriter(w) ==
  LET unmet == FoldLeft(LAMBDA sum, part : sum + Len(SelectSeq(w.proxies[part], LAMBDA c : c \notin DOMAIN w.strays)),
                        0, SetToSeq(DOMAIN w.proxies))
      keys == SetToSortSeq(DOMAIN w.held, <)
      strays == SelectSeq(keys, LAMBDA k : w.held[k].stray)
      noted == [NoteLost(w, unmet + Cardinality(DOMAIN w.awaited)) EXCEPT !.notes = @ \o Times(Len(strays), StrayNote)]
  IN  Ended(WriteOut(noted, [n \in DOMAIN keys |-> w.held[keys[n]].object]))
=============================================================================
