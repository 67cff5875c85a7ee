------------------------------ MODULE Attributes ------------------------------
(***************************************************************************)
(* The types of attribute columns and what becomes of a value in one       *)
(* (lib/cityparquet-rs/crates/schema/src/attributes.rs, crates/core/src:   *)
(* encode.rs, decode.rs).                                                  *)
(*                                                                         *)
(* A value is [kind, val]; the kinds are those the code tells apart: JSON's*)
(* with an integer within 64 bits apart from the other numbers, a text     *)
(* that is a date or an instant apart from the others, and a list of texts *)
(* apart from the other composites.  Of an instant val is the instant.     *)
(***************************************************************************)
EXTENDS Sequences

ValueKinds == {"null", "bool", "int", "float", "date", "timestamp", "string", "strings", "json"}

\* The type a value suggests; none for null.
Infer(value) ==
  CASE value.kind = "null" -> <<>>
    [] value.kind = "bool" -> <<"Boolean">>
    [] value.kind = "int" -> <<"Int64">>
    [] value.kind = "float" -> <<"Float64">>
    [] value.kind = "date" -> <<"Date">>
    [] value.kind = "timestamp" -> <<"Timestamp">>
    [] value.kind = "string" -> <<"String">>
    [] value.kind = "strings" -> <<"StringList">>
    [] value.kind = "json" -> <<"Json">>

AttributeTypes ==
  {"Boolean", "Int64", "Float64", "Date", "Timestamp", "String", "StringList", "Json"}

\* Mutant: numbers stay integers.
PromoteInt(a, b) == IF a = b THEN a ELSE IF {a, b} = {"Int64", "Float64"} THEN "Int64" ELSE "Json"

\* The type of a column that holds values of two types.
Promote(a, b) ==
  CASE a = b -> a
    [] {a, b} = {"Int64", "Float64"} -> "Float64"
    [] {a, b} = {"Date", "Timestamp"} -> "Timestamp"
    [] {a, b} \in {{"Date", "String"}, {"Timestamp", "String"}} -> "String"
    [] OTHER -> "Json"

\* One more value of a column, whose type may be open.
Observe(type, value) ==
  LET seen == Infer(value)
  IN  IF type # <<>> /\ seen # <<>> THEN <<Promote(type[1], seen[1])>>
      ELSE IF type # <<>> THEN type ELSE seen

\* A column of nulls is text.
FinishType(type) == IF type = <<>> THEN "String" ELSE type[1]
-----------------------------------------------------------------------------
(* Cells *)

\* The kinds of value a column of a type can hold.
Accepts(type) ==
  CASE type = "Boolean" -> {"bool"}
    [] type = "Int64" -> {"int"}
    [] type = "Float64" -> {"int", "float"}
    [] type = "Date" -> {"date"}
    [] type = "Timestamp" -> {"timestamp"}
    [] type = "String" -> {"date", "timestamp", "string"}
    [] type = "StringList" -> {"strings"}
    [] type = "Json" -> ValueKinds \ {"null"}

\* The cell of a value in a column: none for null and for what does not fit.
Cell(type, value) == IF value.kind \in Accepts(type) THEN <<value>> ELSE <<>>

\* A value that does not fit is counted.
Coerced(type, value) == value.kind # "null" /\ value.kind \notin Accepts(type)

\* A number of a Float64 column comes back as one; the other kinds come back
\* as what they were.
CellValue(type, value) ==
  IF type = "Float64" THEN [value EXCEPT !.kind = "float"] ELSE value

\* JSON does not tell an integer from a number of the same value.
SameValue(v, w) ==
  v.val = w.val /\ (v.kind = w.kind \/ {v.kind, w.kind} = {"int", "float"})
=============================================================================
