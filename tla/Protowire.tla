------------------------------ MODULE Protowire ------------------------------
(***************************************************************************)
(* The wire encoding that packages sealedsender and protocol/wire share: a *)
(* message is a sequence of fields, each with its number, its wire type    *)
(* and its value.  The decoders are loops over protowire.ConsumeTag with a *)
(* switch on the field number.  All of them skip fields they do not know   *)
(* and keep the last value of a field that is repeated; they differ in     *)
(* their fields and in what is required or refused, which a format states: *)
(*   field[n]  name and wire type of field number n                        *)
(*   once      groups of names of which at most one field may appear       *)
(*   required  groups of names of which a field must appear                *)
(***************************************************************************)
EXTENDS Integers, Sequences, FiniteSets

\* What is in no message: a field that is absent, the result of a failed parse.
Nothing == << >>

Varint(num, val) == [num |-> num, typ |-> "varint", val |-> val]
Fixed64(num, val) == [num |-> num, typ |-> "fixed64", val |-> val]
Bytes(num, val) == [num |-> num, typ |-> "bytes", val |-> val]

\* The fields as another implementation may write them: in another order and
\* with a field of its own.
Foreign(fields) ==
  <<Varint(99, 0)>> \o [i \in 1 .. Len(fields) |-> fields[Len(fields) + 1 - i]]

\* A field of a format.
Tag(name, typ) == [name |-> name, typ |-> typ]

-----------------------------------------------------------------------------
Names(format) == {format.field[n].name : n \in DOMAIN format.field}

\* The positions of the fields a decoder knows, and those with a given name.
Known(format, fields) == {i \in DOMAIN fields : fields[i].num \in DOMAIN format.field}

At(format, fields, name) ==
  {i \in Known(format, fields) : format.field[fields[i].num].name = name}

AtAny(format, fields, names) == UNION {At(format, fields, name) : name \in names}

LastOf(positions) == CHOOSE i \in positions : \A j \in positions : j <= i

WellFormed(format, fields) ==
  /\ \A i \in Known(format, fields) : fields[i].typ = format.field[fields[i].num].typ
  /\ \A group \in format.once : Cardinality(AtAny(format, fields, group)) <= 1
  /\ \A group \in format.required : AtAny(format, fields, group) # {}

\* The decoded message, a function of the names of its fields; or Nothing.
Decode(format, fields) ==
  IF ~WellFormed(format, fields) THEN Nothing
  ELSE [name \in Names(format) |->
          LET at == At(format, fields, name)
          IN  IF at = {} THEN Nothing ELSE fields[LastOf(at)].val]

\* The value of an optional number, 0 if the field is absent.
NumberOrNil(format, fields, name) ==
  LET at == At(format, fields, name) IN IF at = {} THEN 0 ELSE fields[LastOf(at)].val
=============================================================================
