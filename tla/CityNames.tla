------------------------------ MODULE CityNames ------------------------------
(***************************************************************************)
(* The names of a package: reserved columns and their escape, LoDs,        *)
(* extension namespaces, and the module a city object type belongs to      *)
(* (lib/cityparquet-rs/crates/schema/src: reserved.rs, extensions.rs,      *)
(* types.rs).                                                              *)
(*                                                                         *)
(* A name is the sequence of its words, the parts between underscores      *)
(* ("_bbox" is <<"", "bbox">>), with a mark for a leading "+".  Extension  *)
(* namespaces hold no underscore, so a namespace is one word.              *)
(***************************************************************************)
EXTENDS Integers, Sequences, FiniteSets, TLC

CONSTANTS
  Fold,       \* Fold[w]: the word w in lower case
  Slug,       \* Slug[e]: the namespace derived from extension name e; "" if none
  Taxonomy,   \* Taxonomy[t]: [class, module] of the CityJSON type t
  CoreFile,   \* CoreFile[m]: the table file of the core module m
  Abstract    \* Abstract[c]: the module of the abstract CityJSON class c

Name(words) == [plus |-> FALSE, words |-> words]
PlusName(words) == [plus |-> TRUE, words |-> words]
-----------------------------------------------------------------------------
(* Levels of detail: the text "2.2" is <<2, 2>>, "2" is <<2>>. *)

\* A LoD's two numbers are bytes; those of CityJSON have one digit, and no
\* others are modelled.
Digit == 0 .. 9

ValidLod(text) == Len(text) \in 1 .. 2 /\ \A k \in DOMAIN text : text[k] \in Digit
LodOf(text) == <<text[1], IF Len(text) = 2 THEN text[2] ELSE 0>>

LowerLod(a, b) == a[1] < b[1] \/ (a[1] = b[1] /\ a[2] < b[2])

Lod0 == <<0, 0>>

\* The words of the suffix lod2_2.
LodSuffix(lod) == <<"lod" \o ToString(lod[1]), ToString(lod[2])>>
-----------------------------------------------------------------------------
(* Reserved column names *)

FixedReserved ==
  {<<"id">>, <<"feature", "id">>, <<"object", "type">>, <<"parents">>,
   <<"children">>, <<"children", "roles">>, <<"address">>, <<"bbox">>,
   <<"implicit", "geometry">>, <<"other">>}

LodPrefixes ==
  {<<"geometry", "properties">>, <<"geometry">>, <<"material">>, <<"texture">>}

Reserved(words) ==
  LET folded == [k \in DOMAIN words |-> Fold[words[k]]] IN
  \/ folded \in FixedReserved
  \/ \E p \in LodPrefixes, lod \in Digit \X Digit : folded = p \o LodSuffix(lod)

\* Whether the name without its leading underscores is reserved.
BaseReserved(n) ==
  /\ ~n.plus
  /\ \E k \in DOMAIN n.words :
       /\ \A j \in 1 .. k - 1 : n.words[j] = ""
       /\ n.words[k] # ""
       /\ Reserved(SubSeq(n.words, k, Len(n.words)))

Bar(n) == [n EXCEPT !.words = <<"">> \o @]

EscapeName(n) == IF BaseReserved(n) THEN Bar(n) ELSE n

\* A column whose base is reserved and that has no underscore to lose is not
\* of a conforming writer.
Restorable(n) == BaseReserved(n) => n.words[1] = ""
RestoreName(n) == IF BaseReserved(n) THEN [n EXCEPT !.words = Tail(@)] ELSE n
-----------------------------------------------------------------------------
(* Extensions.  `exts` is a set of declarations: their name, whether they    *)
(* have a url, the names they add by kind, and the parent of an object type. *)

Kinds == {"attribute", "object", "surface"}

DeclarationsOk(exts) ==
  /\ \A e \in exts : e.url /\ Slug[e.name] # ""
  /\ \A e, f \in exts : Slug[e.name] = Slug[f.name] => e = f
  \* class_registry: no class listed twice
  /\ \A e, f \in exts : e # f => e.adds["object"] \cap f.adds["object"] = {}

Namespaces(exts) == {Slug[e.name] : e \in exts}

\* Whether a name carries a declared namespace's prefix.
IsExtensionName(exts, n) ==
  ~n.plus /\ Len(n.words) > 1 /\ n.words[1] \in Namespaces(exts)

\* The declarations a "+" name may belong to: the only one there is, or those
\* that list it.
Owners(exts, n, kind) ==
  IF Cardinality(exts) = 1 THEN exts
  ELSE {e \in exts : n.words \in e.adds[kind]}

\* A "+" name needs one owner; a core name must not look like an extension's.
Encodable(exts, n, kind) ==
  IF n.plus THEN Cardinality(Owners(exts, n, kind)) = 1
  ELSE ~IsExtensionName(exts, n)

EncodeName(exts, n, kind) ==
  IF n.plus
  THEN LET owner == CHOOSE e \in Owners(exts, n, kind) : TRUE
       IN  Name(<<Slug[owner.name]>> \o n.words)
  ELSE n

DecodeName(exts, n) ==
  IF IsExtensionName(exts, n) THEN PlusName(Tail(n.words)) ELSE n

\* The column of an attribute.
StoredAttribute(exts, n) == EscapeName(EncodeName(exts, n, "attribute"))
-----------------------------------------------------------------------------
(* Types and modules *)

ClassOf(t) == Taxonomy[t].class
IsCore(n) == ~n.plus /\ Len(n.words) = 1 /\ n.words[1] \in DOMAIN Taxonomy

\* The value of the column object_type.
StoredType(exts, n) ==
  IF IsCore(n) THEN Name(<<ClassOf(n.words[1])>>) ELSE EncodeName(exts, n, "object")

\* export: a CityGML class goes back to its CityJSON type.
ExportedType(exts, n) ==
  LET back == {t \in DOMAIN Taxonomy : n = Name(<<ClassOf(t)>>)}
  IN  IF back # {} THEN Name(<<CHOOSE t \in back : TRUE>>) ELSE DecodeName(exts, n)

\* A class is looked up under either spelling.
CoreModules(words) ==
  {Taxonomy[t].module : t \in {t \in DOMAIN Taxonomy : words = <<t>> \/ words = <<ClassOf(t)>>}}

Declaring(exts, words) == {e \in exts : words \in DOMAIN e.parents}

NoKey == [core |-> "", space |-> ""]
CoreKey(m) == [core |-> m, space |-> ""]
SpaceKey(s) == [core |-> "", space |-> s]

AnyCityObject == <<"", "AbstractCityObject">>

\* The table a type is stored with: its core module, or what its chain of
\* parents leads to, or the file of its extension; NoKey if the chain is
\* cyclic or nothing declares the class.  The chain is followed at most once
\* through each declared class.  That a class declares a module of its own is
\* left out: class_registry, which makes every declaration there is, says none.
ModuleKey(exts, words, space) ==
  LET all == UNION {DOMAIN e.parents : e \in exts}
      step[w \in Seq(STRING), s \in STRING, seen \in SUBSET all] ==
        LET decl == CHOOSE e \in Declaring(exts, w) : TRUE
            parent == decl.parents[w]
        IN IF CoreModules(w) # {} THEN CoreKey(CHOOSE m \in CoreModules(w) : TRUE)
           ELSE IF w \in seen THEN NoKey
           ELSE IF Declaring(exts, w) = {} THEN IF s = "" THEN NoKey ELSE SpaceKey(s)
           ELSE IF parent = AnyCityObject THEN SpaceKey(Slug[decl.name])
           ELSE IF parent \in DOMAIN Abstract THEN CoreKey(Abstract[parent])
           ELSE IF CoreModules(parent) = {} /\ Declaring(exts, parent) = {}
                THEN SpaceKey(Slug[decl.name])
           ELSE step[parent, "", seen \cup {w}]
  IN  step[words, space, {}]

SourceKey(exts, n) ==
  LET stored == EncodeName(exts, n, "object")
  IN  ModuleKey(exts, n.words, IF IsExtensionName(exts, stored) THEN stored.words[1] ELSE "")

\* The key of a stored row, from its object_type alone.
RowKey(exts, stored) ==
  LET own == IsExtensionName(exts, stored)
  IN  ModuleKey(exts, IF own THEN Tail(stored.words) ELSE stored.words, IF own THEN stored.words[1] ELSE "")

FileOf(key) == IF key.core # "" THEN CoreFile[key.core] ELSE key.space
=============================================================================
