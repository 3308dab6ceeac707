-------------------------------- MODULE Wire --------------------------------
(***************************************************************************)
(* What the generated read and write functions of a struct do.  A schema   *)
(* is a function from field ids to types.  write() puts every field that   *)
(* is set on the wire with its id and its type.  read() takes the fields   *)
(* as they come, until STOP: one whose id it knows and whose type is the   *)
(* one it expects is read and marked as set, any other one is skipped.     *)
(* Structs hold structs to a depth of one in this repository.              *)
(***************************************************************************)
Scalar(type) == [wire |-> type, fields |-> << >>]
Struct(schema) == [wire |-> "struct", fields |-> schema]

(* Fields are numbered from 1, in order; that of a result has the number 0.*)
NoFields == << >>
Result(type) == [i \in {0} |-> type]
I32    == Scalar("i32")
I64    == Scalar("i64")
Double == Scalar("double")
String == Scalar("string")
List   == Scalar("list")

WriteFlat(schema, v) == [i \in DOMAIN v |-> [type |-> schema[i].wire, value |-> v[i]]]

Write(schema, v) ==
  [i \in DOMAIN v |-> [type |-> schema[i].wire,
                       value |-> IF schema[i].wire = "struct"
                                 THEN WriteFlat(schema[i].fields, v[i]) ELSE v[i]]]

(* The fields that are read and marked as set (__isset).                   *)
Known(schema, wire) == { i \in DOMAIN schema \cap DOMAIN wire : wire[i].type = schema[i].wire }

ReadFlat(schema, wire) == [i \in Known(schema, wire) |-> wire[i].value]

Read(schema, wire) ==
  [i \in Known(schema, wire) |-> IF schema[i].wire = "struct"
                                 THEN ReadFlat(schema[i].fields, wire[i].value)
                                 ELSE wire[i].value]

(* A struct that has the value x in all its fields.                        *)
Filled(schema, x) ==
  [i \in DOMAIN schema |-> IF schema[i].wire = "struct"
                           THEN [j \in DOMAIN schema[i].fields |-> x] ELSE x]
=============================================================================
