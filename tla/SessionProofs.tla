----------------------------- MODULE SessionProofs -----------------------------
(***************************************************************************)
(* TLAPS proofs about Session, for any archive limit, any limit on skipped *)
(* keys, any one-time pre-keys, any choice of who deletes, damages,        *)
(* interrupts, expires and encodes differently, and any bounds.            *)
(***************************************************************************)
EXTENDS Session, SequenceTheorems, FiniteSetTheorems, TLAPS

-----------------------------------------------------------------------------
(* Decoding: a message is looked at as the set of its fields. *)

\* f has the fields of F, each once and in any order; F is a set of fields
\* with distinct numbers.
MadeOf(f, F) ==
  /\ f \in Seq(F)
  /\ \A x \in F : \E i \in DOMAIN f : f[i] = x
  /\ \A i, j \in DOMAIN f : f[i].num = f[j].num => i = j

NamesDistinct(format) ==
  \A a, b \in DOMAIN format.field : format.field[a].name = format.field[b].name => a = b

\* The fields of F that a decoder knows have its types, and none is missing.
Fits(format, F) ==
  /\ \A x \in F : x.num \in DOMAIN format.field => x.typ = format.field[x.num].typ
  /\ format.once = {}
  /\ \A group \in format.required : \E x \in F :
       x.num \in DOMAIN format.field /\ format.field[x.num].name \in group

LEMMA SeqElements ==
  ASSUME NEW F, NEW f \in Seq(F)
  PROVE  DOMAIN f = 1 .. Len(f) /\ Len(f) \in Nat /\ \A i \in DOMAIN f : f[i] \in F
OBVIOUS

LEMMA FitsWellFormed ==
  ASSUME NEW format, NEW f, NEW F, MadeOf(f, F), Fits(format, F)
  PROVE  WellFormed(format, f)
<1>1. \A i \in Known(format, f) : f[i].typ = format.field[f[i].num].typ
  BY SeqElements DEF Known, MadeOf, Fits
<1>2. \A group \in format.required : AtAny(format, f, group) # {}
  BY DEF MadeOf, Fits, AtAny, At, Known
<1> QED
  BY <1>1, <1>2 DEF WellFormed, Fits

LEMMA LastOfOne ==
  ASSUME NEW i \in Int
  PROVE  LastOf({i}) = i
BY DEF LastOf

\* The value of a field that is in the message.
LEMMA AtField ==
  ASSUME NEW format, NEW f, NEW F, MadeOf(f, F), NamesDistinct(format),
         NEW x \in F, x.num \in DOMAIN format.field
  PROVE  LET at == At(format, f, format.field[x.num].name)
         IN  at # {} /\ f[LastOf(at)] = x
<1>1. PICK i \in DOMAIN f : f[i] = x
  BY DEF MadeOf
<1>2. At(format, f, format.field[x.num].name) = {i}
  BY <1>1 DEF At, Known, NamesDistinct, MadeOf
<1>3. i \in Int
  BY SeqElements DEF MadeOf
<1> QED
  BY <1>1, <1>2, <1>3, LastOfOne

LEMMA AtAbsent ==
  ASSUME NEW format, NEW f, NEW F, MadeOf(f, F), NamesDistinct(format),
         NEW n \in DOMAIN format.field, \A x \in F : x.num # n
  PROVE  At(format, f, format.field[n].name) = {}
BY SeqElements DEF At, Known, NamesDistinct, MadeOf

\* What is decoded from the fields F.
Decoded(format, F, got) ==
  /\ got # Nothing
  /\ \A x \in F : x.num \in DOMAIN format.field => got[format.field[x.num].name] = x.val
  /\ \A n \in DOMAIN format.field : (\A x \in F : x.num # n) => got[format.field[n].name] = Nothing

LEMMA DecodeMade ==
  ASSUME NEW format, NEW f, NEW F, MadeOf(f, F), Fits(format, F), NamesDistinct(format),
         DOMAIN format.field # {}
  PROVE  Decoded(format, F, Decode(format, f))
<1>1. Decode(format, f)
      = [name \in Names(format) |->
           IF At(format, f, name) = {} THEN Nothing ELSE f[LastOf(At(format, f, name))].val]
  BY FitsWellFormed DEF Decode
<1>2. Decode(format, f) # Nothing
  <2>1. DOMAIN Decode(format, f) = Names(format) /\ Names(format) # {}
    BY <1>1 DEF Names
  <2>2. DOMAIN Nothing = {}
    BY DEF Nothing
  <2> QED
    BY <2>1, <2>2
<1>3. ASSUME NEW x \in F, x.num \in DOMAIN format.field
      PROVE  Decode(format, f)[format.field[x.num].name] = x.val
  <2>1. format.field[x.num].name \in Names(format)
    BY <1>3 DEF Names
  <2>2. LET at == At(format, f, format.field[x.num].name)
        IN  at # {} /\ f[LastOf(at)] = x
    BY <1>3, AtField
  <2> QED
    BY <1>1, <2>1, <2>2
<1>4. ASSUME NEW n \in DOMAIN format.field, \A x \in F : x.num # n
      PROVE  Decode(format, f)[format.field[n].name] = Nothing
  <2>1. format.field[n].name \in Names(format)
    BY DEF Names
  <2>2. At(format, f, format.field[n].name) = {}
    BY <1>4, AtAbsent
  <2> QED
    BY <1>1, <2>1, <2>2
<1> QED
  BY <1>2, <1>3, <1>4 DEF Decoded

LEMMA NumberMade ==
  ASSUME NEW format, NEW f, NEW F, MadeOf(f, F), NamesDistinct(format)
  PROVE  /\ \A x \in F : x.num \in DOMAIN format.field
              => NumberOrNil(format, f, format.field[x.num].name) = x.val
         /\ \A n \in DOMAIN format.field : (\A x \in F : x.num # n)
              => NumberOrNil(format, f, format.field[n].name) = 0
<1>1. ASSUME NEW x \in F, x.num \in DOMAIN format.field
      PROVE  NumberOrNil(format, f, format.field[x.num].name) = x.val
  <2>1. LET at == At(format, f, format.field[x.num].name)
        IN  at # {} /\ f[LastOf(at)] = x
    BY <1>1, AtField
  <2> QED
    BY <2>1 DEF NumberOrNil
<1>2. ASSUME NEW n \in DOMAIN format.field, \A x \in F : x.num # n
      PROVE  NumberOrNil(format, f, format.field[n].name) = 0
  BY <1>2, AtAbsent DEF NumberOrNil
<1> QED
  BY <1>1, <1>2

\* Messages put together.
LEMMA MadeOfNone == MadeOf(<< >>, {})
BY DEF MadeOf

LEMMA MadeOfOne ==
  ASSUME NEW a
  PROVE  MadeOf(<<a>>, {a})
<1>1. DOMAIN <<a>> = {1} /\ <<a>>[1] = a
  OBVIOUS
<1>2. <<a>> \in Seq({a})
  OBVIOUS
<1> QED
  BY <1>1, <1>2 DEF MadeOf

LEMMA MadeOfBoth ==
  ASSUME NEW f, NEW g, NEW F, NEW G, MadeOf(f, F), MadeOf(g, G),
         \A x \in F, y \in G : x.num # y.num
  PROVE  MadeOf(f \o g, F \cup G)
<1> DEFINE h == f \o g
<1>1. f \in Seq(F \cup G) /\ g \in Seq(F \cup G)
  BY DEF MadeOf
<1>2. /\ h \in Seq(F \cup G)
      /\ Len(h) = Len(f) + Len(g)
      /\ \A i \in 1 .. Len(f) + Len(g) : h[i] = IF i <= Len(f) THEN f[i] ELSE g[i - Len(f)]
  BY <1>1, ConcatProperties
<1>3. DOMAIN f = 1 .. Len(f) /\ DOMAIN g = 1 .. Len(g) /\ DOMAIN h = 1 .. Len(f) + Len(g)
      /\ Len(f) \in Nat /\ Len(g) \in Nat
  BY <1>1, <1>2
<1>4. /\ \A i \in 1 .. Len(f) : h[i] = f[i] /\ f[i] \in F
      /\ \A i \in 1 .. Len(g) : h[i + Len(f)] = g[i] /\ g[i] \in G
  <2>1. /\ \A i \in 1 .. Len(f) : f[i] \in F
        /\ \A i \in 1 .. Len(g) : g[i] \in G
    BY <1>3, SeqElements DEF MadeOf
  <2> HIDE DEF h
  <2>2. ASSUME NEW i \in 1 .. Len(g)
        PROVE  h[i + Len(f)] = g[i]
    <3>1. i + Len(f) \in 1 .. Len(f) + Len(g) /\ ~(i + Len(f) <= Len(f)) /\ i + Len(f) - Len(f) = i
      BY <1>3
    <3> QED
      BY <1>2, <3>1
  <2>3. ASSUME NEW i \in 1 .. Len(f)
        PROVE  h[i] = f[i]
    BY <1>2, <1>3
  <2> QED
    BY <2>1, <2>2, <2>3
<1>5. \A i \in DOMAIN h : i \in 1 .. Len(f) \/ \E j \in 1 .. Len(g) : i = j + Len(f)
  <2> SUFFICES ASSUME NEW i \in 1 .. Len(f) + Len(g), i \notin 1 .. Len(f)
               PROVE  \E j \in 1 .. Len(g) : i = j + Len(f)
    BY <1>3
  <2>1. i - Len(f) \in 1 .. Len(g) /\ i = (i - Len(f)) + Len(f)
    BY <1>3
  <2> QED
    BY <2>1
<1>6. \A x \in F \cup G : \E i \in DOMAIN h : h[i] = x
  <2>1. ASSUME NEW x \in F PROVE \E i \in DOMAIN h : h[i] = x
    <3>1. PICK i \in 1 .. Len(f) : f[i] = x
      BY <1>3 DEF MadeOf
    <3>2. i \in DOMAIN h
      BY <1>3
    <3> QED
      BY <1>4, <3>1, <3>2
  <2>2. ASSUME NEW x \in G PROVE \E i \in DOMAIN h : h[i] = x
    <3>1. PICK i \in 1 .. Len(g) : g[i] = x
      BY <1>3 DEF MadeOf
    <3>2. i + Len(f) \in DOMAIN h
      BY <1>3
    <3> QED
      BY <1>4, <3>1, <3>2
  <2> QED
    BY <2>1, <2>2
<1> HIDE DEF h
<1>7. ASSUME NEW i \in DOMAIN h, NEW j \in DOMAIN h, h[i].num = h[j].num
      PROVE  i = j
  <2>1. CASE i \in 1 .. Len(f) /\ j \in 1 .. Len(f)
    BY <1>3, <1>4, <1>7, <2>1 DEF MadeOf
  <2>2. CASE i \in 1 .. Len(f) /\ j \notin 1 .. Len(f)
    BY <1>4, <1>5, <1>7, <2>2
  <2>3. CASE i \notin 1 .. Len(f) /\ j \in 1 .. Len(f)
    BY <1>4, <1>5, <1>7, <2>3
  <2>4. CASE i \notin 1 .. Len(f) /\ j \notin 1 .. Len(f)
    <3>1. PICK a \in 1 .. Len(g), b \in 1 .. Len(g) : i = a + Len(f) /\ j = b + Len(f)
      BY <1>5, <2>4
    <3>2. g[a].num = g[b].num
      BY <1>4, <1>7, <3>1
    <3>3. a = b
      BY <1>3, <3>2 DEF MadeOf
    <3> QED
      BY <3>1, <3>3
  <2> QED
    BY <2>1, <2>2, <2>3, <2>4
<1> QED
  BY <1>2, <1>6, <1>7 DEF MadeOf, h

\* The field another implementation adds.
OtherField == Varint(99, 0)

LEMMA MadeOfForeign ==
  ASSUME NEW f, NEW F, MadeOf(f, F), \A x \in F : x.num # 99
  PROVE  MadeOf(Foreign(f), {OtherField} \cup F)
<1> DEFINE n == Len(f)
           r == [i \in 1 .. n |-> f[n + 1 - i]]
<1>1. f \in Seq(F) /\ n \in Nat /\ DOMAIN f = 1 .. n /\ \A i \in 1 .. n : f[i] \in F
  BY SeqElements DEF MadeOf
<1>2. Foreign(f) = <<OtherField>> \o r
  BY DEF Foreign, OtherField
<1> HIDE DEF n
<1>3. \A i \in 1 .. n : n + 1 - i \in 1 .. n /\ n + 1 - (n + 1 - i) = i
  BY <1>1
<1>4. r \in Seq(F) /\ DOMAIN r = 1 .. n
  BY <1>1, <1>3
<1>5. \A i \in 1 .. n : r[i] = f[n + 1 - i]
  OBVIOUS
<1> HIDE DEF r
<1>6. \A x \in F : \E i \in DOMAIN r : r[i] = x
  <2> SUFFICES ASSUME NEW x \in F PROVE \E i \in DOMAIN r : r[i] = x
    OBVIOUS
  <2>1. PICK i \in 1 .. n : f[i] = x
    BY <1>1 DEF MadeOf
  <2>2. n + 1 - i \in DOMAIN r /\ r[n + 1 - i] = f[i]
    BY <1>3, <1>4, <1>5
  <2> QED
    BY <2>1, <2>2
<1>7. \A i, j \in DOMAIN r : r[i].num = r[j].num => i = j
  <2> SUFFICES ASSUME NEW i \in 1 .. n, NEW j \in 1 .. n, r[i].num = r[j].num PROVE i = j
    BY <1>4
  <2>1. n + 1 - i = n + 1 - j
    <3>1. f[n + 1 - i].num = f[n + 1 - j].num
      BY <1>5
    <3>2. n + 1 - i \in DOMAIN f /\ n + 1 - j \in DOMAIN f
      BY <1>1, <1>3
    <3>3. \A a, b \in DOMAIN f : f[a].num = f[b].num => a = b
      BY DEF MadeOf
    <3> QED
      BY <3>1, <3>2, <3>3
  <2> QED
    BY <1>1, <2>1
<1>8. MadeOf(r, F)
  BY <1>4, <1>6, <1>7 DEF MadeOf
<1>9. OtherField.num = 99
  BY DEF OtherField, Varint
<1>10. \A x \in {OtherField}, y \in F : x.num # y.num
  BY <1>9
<1>11. MadeOf(<<OtherField>>, {OtherField})
  BY MadeOfOne
<1> QED
  BY <1>2, <1>8, <1>10, <1>11, MadeOfBoth

LEMMA MadeOfTwo ==
  ASSUME NEW a, NEW b,
         a.num # b.num
  PROVE  MadeOf(<<a, b>>, {a, b})
<1> DEFINE f == <<a, b>>
<1>1. /\ DOMAIN f = {1, 2}
      /\ f[1] = a /\ f[2] = b
  OBVIOUS
<1>2. f \in Seq({a, b})
  OBVIOUS
<1> HIDE DEF f
<1> QED
  BY <1>1, <1>2 DEF MadeOf, f

LEMMA MadeOfThree ==
  ASSUME NEW a, NEW b, NEW c,
         a.num # b.num /\ a.num # c.num /\ b.num # c.num
  PROVE  MadeOf(<<a, b, c>>, {a, b, c})
<1> DEFINE f == <<a, b, c>>
<1>1. /\ DOMAIN f = {1, 2, 3}
      /\ f[1] = a /\ f[2] = b /\ f[3] = c
  OBVIOUS
<1>2. f \in Seq({a, b, c})
  OBVIOUS
<1> HIDE DEF f
<1> QED
  BY <1>1, <1>2 DEF MadeOf, f

LEMMA MadeOfFour ==
  ASSUME NEW a, NEW b, NEW c, NEW d,
         a.num # b.num /\ a.num # c.num /\ a.num # d.num /\ b.num # c.num /\ b.num # d.num /\ c.num # d.num
  PROVE  MadeOf(<<a, b, c, d>>, {a, b, c, d})
<1> DEFINE f == <<a, b, c, d>>
<1>1. /\ DOMAIN f = {1, 2, 3, 4}
      /\ f[1] = a /\ f[2] = b /\ f[3] = c /\ f[4] = d
  OBVIOUS
<1>2. f \in Seq({a, b, c, d})
  OBVIOUS
<1> HIDE DEF f
<1> QED
  BY <1>1, <1>2 DEF MadeOf, f

-----------------------------------------------------------------------------
(* The two messages. *)

\* f has the fields of F, as this library writes them or as another one does.
EncodedAs(f, F) == MadeOf(f, F) \/ MadeOf(f, {OtherField} \cup F)

LEMMA FieldsEncode ==
  ASSUME NEW p, NEW f, NEW F, MadeOf(f, F), \A x \in F : x.num # 99
  PROVE  EncodedAs(Fields(p, f), F)
BY MadeOfForeign DEF EncodedAs, Fields

LEMMA DecodeEncoded ==
  ASSUME NEW format, NEW f, NEW F, EncodedAs(f, F), Fits(format, F), NamesDistinct(format),
         DOMAIN format.field # {}, 99 \notin DOMAIN format.field
  PROVE  Decoded(format, F, Decode(format, f))
<1>1. OtherField.num = 99
  BY DEF OtherField, Varint
<1>2. CASE MadeOf(f, F)
  BY <1>2, DecodeMade
<1>3. CASE MadeOf(f, {OtherField} \cup F)
  <2>1. Fits(format, {OtherField} \cup F)
    BY <1>1 DEF Fits
  <2>2. Decoded(format, {OtherField} \cup F, Decode(format, f))
    BY <1>3, <2>1, DecodeMade
  <2>3. \A n \in DOMAIN format.field : (\A x \in F : x.num # n)
          => \A x \in {OtherField} \cup F : x.num # n
    BY <1>1
  <2> QED
    BY <2>2, <2>3 DEF Decoded
<1> QED
  BY <1>2, <1>3 DEF EncodedAs

LEMMA NumberEncoded ==
  ASSUME NEW format, NEW f, NEW F, EncodedAs(f, F), NamesDistinct(format),
         99 \notin DOMAIN format.field
  PROVE  /\ \A x \in F : x.num \in DOMAIN format.field
              => NumberOrNil(format, f, format.field[x.num].name) = x.val
         /\ \A n \in DOMAIN format.field : (\A x \in F : x.num # n)
              => NumberOrNil(format, f, format.field[n].name) = 0
<1>1. OtherField.num = 99
  BY DEF OtherField, Varint
<1>2. CASE MadeOf(f, F)
  BY <1>2, NumberMade
<1>3. CASE MadeOf(f, {OtherField} \cup F)
  <2>1. \A n \in DOMAIN format.field : (\A x \in F : x.num # n)
          => \A x \in {OtherField} \cup F : x.num # n
    BY <1>1
  <2> QED
    BY <1>3, <2>1, NumberMade
<1> QED
  BY <1>2, <1>3 DEF EncodedAs

LEMMA SignalFormat ==
  /\ DOMAIN signalFormat.field = 1 .. 5
  /\ signalFormat.field[1] = Tag("ratchet_key", "bytes")
  /\ signalFormat.field[2] = Tag("counter", "varint")
  /\ signalFormat.field[3] = Tag("previous_counter", "varint")
  /\ signalFormat.field[4] = Tag("ciphertext", "bytes")
  /\ signalFormat.field[5] = Tag("pq_ratchet", "bytes")
  /\ signalFormat.once = {}
  /\ signalFormat.required = {{"ratchet_key"}, {"counter"}, {"ciphertext"}}
  /\ NamesDistinct(signalFormat)
BY DEF signalFormat, Tag, NamesDistinct

LEMMA PreKeyFormat ==
  /\ DOMAIN preKeyFormat.field = 1 .. 8
  /\ preKeyFormat.field[1] = Tag("pre_key_id", "varint")
  /\ preKeyFormat.field[2] = Tag("base_key", "bytes")
  /\ preKeyFormat.field[3] = Tag("identity_key", "bytes")
  /\ preKeyFormat.field[4] = Tag("message", "bytes")
  /\ preKeyFormat.field[5] = Tag("registration_id", "varint")
  /\ preKeyFormat.field[6] = Tag("signed_pre_key_id", "varint")
  /\ preKeyFormat.field[7] = Tag("kyber_pre_key_id", "varint")
  /\ preKeyFormat.field[8] = Tag("kyber_ciphertext", "bytes")
  /\ preKeyFormat.once = {}
  /\ preKeyFormat.required = {{"base_key"}, {"identity_key"}, {"message"}, {"signed_pre_key_id"}}
  /\ NamesDistinct(preKeyFormat)
<1>1. DOMAIN preKeyFormat.field = 1 .. 8
  BY DEF preKeyFormat
<1>2. /\ preKeyFormat.field[1] = Tag("pre_key_id", "varint")
      /\ preKeyFormat.field[2] = Tag("base_key", "bytes")
      /\ preKeyFormat.field[3] = Tag("identity_key", "bytes")
      /\ preKeyFormat.field[4] = Tag("message", "bytes")
      /\ preKeyFormat.field[5] = Tag("registration_id", "varint")
      /\ preKeyFormat.field[6] = Tag("signed_pre_key_id", "varint")
      /\ preKeyFormat.field[7] = Tag("kyber_pre_key_id", "varint")
      /\ preKeyFormat.field[8] = Tag("kyber_ciphertext", "bytes")
  BY DEF preKeyFormat
<1>3. NamesDistinct(preKeyFormat)
  BY <1>1, <1>2 DEF NamesDistinct, Tag
<1> QED
  BY <1>1, <1>2, <1>3 DEF preKeyFormat

\* A SignalMessage reads back.
LEMMA SignalMessageParses ==
  ASSUME NEW p, NEW version \in {3, 4}, NEW key, NEW n, NEW pn, NEW mac, NEW body,
         body = Fields(p, encodeSignalMessageBody(key, n, pn, <<"ciphertext">>, Nothing)),
         mac # NoMAC
  PROVE  LET m == ParseSignalMessage([version |-> version, body |-> body, mac |-> mac])
         IN  /\ m = [version |-> version, ratchetKey |-> key, counter |-> n, previousCounter |-> pn,
                     ciphertext |-> <<"ciphertext">>, serialized |-> body, mac |-> mac]
             /\ m # Nothing
<1> DEFINE a == Bytes(1, key)
           b == Varint(2, n)
           c == Varint(3, pn)
           d == Bytes(4, <<"ciphertext">>)
           F == {a, b, c, d}
           got == Decode(signalFormat, body)
           data == [version |-> version, body |-> body, mac |-> mac]
           m == [version |-> version, ratchetKey |-> key, counter |-> n, previousCounter |-> pn,
                 ciphertext |-> <<"ciphertext">>, serialized |-> body, mac |-> mac]
<1>1. /\ a.num = 1 /\ a.typ = "bytes" /\ a.val = key
      /\ b.num = 2 /\ b.typ = "varint" /\ b.val = n
      /\ c.num = 3 /\ c.typ = "varint" /\ c.val = pn
      /\ d.num = 4 /\ d.typ = "bytes" /\ d.val = <<"ciphertext">>
  BY DEF Bytes, Varint
<1>2. encodeSignalMessageBody(key, n, pn, <<"ciphertext">>, Nothing) = <<a, b, c, d>>
  <2>1. encodeSignalMessageBody(key, n, pn, <<"ciphertext">>, Nothing) = <<a, b, c, d>> \o << >>
    BY DEF encodeSignalMessageBody
  <2> HIDE DEF a, b, c, d
  <2>2. <<a, b, c, d>> \in Seq({a, b, c, d})
    OBVIOUS
  <2> QED
    BY <2>1, <2>2, ConcatEmptySeq
<1> HIDE DEF a, b, c, d
<1>3. MadeOf(<<a, b, c, d>>, F)
  BY <1>1, MadeOfFour
<1>4. EncodedAs(body, F)
  <2>1. \A x \in F : x.num # 99
    BY <1>1
  <2> HIDE DEF F
  <2> QED
    BY <1>2, <1>3, <2>1, FieldsEncode
<1>5. Fits(signalFormat, F)
  BY <1>1, SignalFormat DEF Fits, Tag
<1> HIDE DEF F
<1>6. Decoded(signalFormat, F, got)
  BY <1>4, <1>5, SignalFormat, DecodeEncoded
<1> HIDE DEF got
<1>7. /\ got # Nothing
      /\ got["ratchet_key"] = key /\ got["counter"] = n /\ got["ciphertext"] = <<"ciphertext">>
  BY <1>1, <1>6, SignalFormat DEF Decoded, Tag, F
<1>8. SignalBody(data) = body
  BY DEF SignalBody
<1>9. NumberOrNil(signalFormat, body, "previous_counter") = pn
  <2>1. 99 \notin DOMAIN signalFormat.field /\ 3 \in DOMAIN signalFormat.field /\ c \in F
    BY SignalFormat DEF F
  <2>2. NumberOrNil(signalFormat, body, signalFormat.field[c.num].name) = c.val
    BY <1>1, <1>4, <2>1, SignalFormat, NumberEncoded
  <2> QED
    BY <1>1, <2>2, SignalFormat DEF Tag
<1>10. ParseSignalMessage(data) = m
  BY <1>7, <1>8, <1>9 DEF ParseSignalMessage, Supported, got, CiphertextMessagePreKyberVersion,
     CiphertextMessageCurrentVersion
<1>11. m # Nothing
  <2>1. DOMAIN m # {} /\ DOMAIN Nothing = {}
    BY DEF Nothing
  <2> QED
    BY <2>1
<1> QED
  BY <1>10, <1>11

\* The fields of a PreKeySignalMessage.
PreKeyFields(x, message) ==
  {Varint(5, 1), Varint(6, x.signedPreKeyID), Bytes(2, x.ephemeral), Bytes(3, x.identity),
   Bytes(4, message)}
    \cup (IF x.preKeyID = 0 THEN {} ELSE {Varint(1, x.preKeyID)})
    \cup (IF x.kyberPreKeyID = 0 THEN {}
          ELSE {Varint(7, x.kyberPreKeyID), Bytes(8, x.kyberCiphertext)})

LEMMA PreKeyBodyMade ==
  ASSUME NEW x, NEW message
  PROVE  MadeOf(encodePreKeySignalMessageBody(x, 1, message), PreKeyFields(x, message))
<1> DEFINE v5 == Varint(5, 1)
           v1 == Varint(1, x.preKeyID)
           v6 == Varint(6, x.signedPreKeyID)
           v7 == Varint(7, x.kyberPreKeyID)
           b8 == Bytes(8, x.kyberCiphertext)
           b2 == Bytes(2, x.ephemeral)
           b3 == Bytes(3, x.identity)
           b4 == Bytes(4, message)
           a == IF x.preKeyID = 0 THEN << >> ELSE <<v1>>
           A == IF x.preKeyID = 0 THEN {} ELSE {v1}
           k == IF x.kyberPreKeyID = 0 THEN << >> ELSE <<v7, b8>>
           K == IF x.kyberPreKeyID = 0 THEN {} ELSE {v7, b8}
<1>1. /\ v5.num = 5 /\ v1.num = 1 /\ v6.num = 6 /\ v7.num = 7 /\ b8.num = 8
      /\ b2.num = 2 /\ b3.num = 3 /\ b4.num = 4
  BY DEF Bytes, Varint
<1>2. encodePreKeySignalMessageBody(x, 1, message)
      = (((<<v5>> \o a) \o <<v6>>) \o k) \o <<b2, b3, b4>>
  BY DEF encodePreKeySignalMessageBody
<1>3. PreKeyFields(x, message) = {v5, v6, b2, b3, b4} \cup A \cup K
  BY DEF PreKeyFields
<1> HIDE DEF v5, v1, v6, v7, b8, b2, b3, b4
<1>4. MadeOf(a, A)
  BY MadeOfNone, MadeOfOne
<1>5. MadeOf(k, K)
  BY <1>1, MadeOfNone, MadeOfTwo
<1>6. /\ \A y \in A : y.num = 1
      /\ \A y \in K : y.num \in {7, 8}
  BY <1>1
<1> HIDE DEF a, A, k, K
<1> DEFINE B == {v5} \cup A
           C == B \cup {v6}
           D == C \cup K
           E == D \cup {b2, b3, b4}
<1>7. MadeOf(<<v5>> \o a, B)
  <2>1. MadeOf(<<v5>>, {v5}) /\ \A y \in {v5}, z \in A : y.num # z.num
    BY <1>1, <1>6, MadeOfOne
  <2> QED
    BY <1>4, <2>1, MadeOfBoth
<1>8. \A y \in B : y.num \in {1, 5}
  BY <1>1, <1>6
<1> HIDE DEF B
<1>9. MadeOf((<<v5>> \o a) \o <<v6>>, C)
  <2>1. MadeOf(<<v6>>, {v6}) /\ \A y \in B, z \in {v6} : y.num # z.num
    BY <1>1, <1>8, MadeOfOne
  <2> QED
    BY <1>7, <2>1, MadeOfBoth
<1>10. \A y \in C : y.num \in {1, 5, 6}
  BY <1>1, <1>8
<1> HIDE DEF C
<1>11. MadeOf(((<<v5>> \o a) \o <<v6>>) \o k, D)
  <2>1. \A y \in C, z \in K : y.num # z.num
    BY <1>6, <1>10
  <2> QED
    BY <1>5, <1>9, <2>1, MadeOfBoth
<1>12. \A y \in D : y.num \in {1, 5, 6, 7, 8}
  BY <1>6, <1>10
<1> HIDE DEF D
<1>13. MadeOf((((<<v5>> \o a) \o <<v6>>) \o k) \o <<b2, b3, b4>>, E)
  <2>1. MadeOf(<<b2, b3, b4>>, {b2, b3, b4})
    BY <1>1, MadeOfThree
  <2>2. \A y \in D, z \in {b2, b3, b4} : y.num # z.num
    BY <1>1, <1>12
  <2> QED
    BY <1>11, <2>1, <2>2, MadeOfBoth
<1>14. E = {v5, v6, b2, b3, b4} \cup A \cup K
  BY DEF B, C, D
<1> QED
  BY <1>2, <1>3, <1>13, <1>14

\* Its fields 5 and 2 have wire types which a SignalMessage does not allow, and
\* one of the two is left when the end is cut off.
LEMMA PreKeyIsNoSignal ==
  ASSUME NEW x, NEW message, NEW version, NEW body, EncodedAs(body, PreKeyFields(x, message))
  PROVE  ParseSignalMessage([version |-> version, body |-> body, mac |-> NoMAC]) = Nothing
<1> DEFINE v == Varint(5, 1)
           b == Bytes(2, x.ephemeral)
           cut == SubSeq(body, 1, Len(body) - 1)
           data == [version |-> version, body |-> body, mac |-> NoMAC]
<1>1. /\ v.num = 5 /\ v.typ = "varint" /\ b.num = 2 /\ b.typ = "bytes"
  BY DEF Bytes, Varint
<1>2. PICK F : MadeOf(body, F) /\ v \in F /\ b \in F
  BY DEF EncodedAs, PreKeyFields
<1> HIDE DEF v, b
<1>3. body \in Seq(F) /\ Len(body) \in Nat /\ DOMAIN body = 1 .. Len(body)
      /\ \A i \in DOMAIN body : body[i] \in F
  BY <1>2, SeqElements DEF MadeOf
<1>4. PICK i \in 1 .. Len(body), j \in 1 .. Len(body) : body[i] = v /\ body[j] = b
  BY <1>2, <1>3 DEF MadeOf
<1>5. i # j
  BY <1>1, <1>4
<1>6. PICK h \in 1 .. Len(body) - 1 : body[h] = v \/ body[h] = b
  BY <1>3, <1>4, <1>5
<1>7. h \in DOMAIN cut /\ cut[h] = body[h]
  <2>1. \A a \in 1 .. Len(body) - 1 : body[a] \in F
    BY <1>3
  <2>2. 1 \in Int /\ Len(body) - 1 \in Int
    BY <1>3
  <2>3. /\ cut \in Seq(F)
        /\ Len(cut) = IF 1 <= Len(body) - 1 THEN (Len(body) - 1) - 1 + 1 ELSE 0
        /\ \A a \in 1 .. (Len(body) - 1) - 1 + 1 : cut[a] = body[1 + a - 1]
    BY <2>1, <2>2, SubSeqProperties
  <2> HIDE DEF cut
  <2>4. Len(cut) = Len(body) - 1 /\ h \in 1 .. (Len(body) - 1) - 1 + 1 /\ 1 + h - 1 = h
    <3> DEFINE n == Len(body)
    <3>1. n \in Nat /\ h \in 1 .. n - 1 /\ Len(cut) = IF 1 <= n - 1 THEN (n - 1) - 1 + 1 ELSE 0
      BY <1>3, <1>6, <2>3
    <3> HIDE DEF n
    <3>2. Len(cut) = n - 1 /\ h \in 1 .. (n - 1) - 1 + 1 /\ 1 + h - 1 = h
      BY <3>1
    <3> QED
      BY <3>2 DEF n
  <2>5. DOMAIN cut = 1 .. Len(cut)
    BY <2>3
  <2> QED
    BY <2>3, <2>4, <2>5
<1> HIDE DEF cut
<1>8. ~WellFormed(signalFormat, cut)
  <2>1. cut[h].num \in DOMAIN signalFormat.field
        /\ cut[h].typ # signalFormat.field[cut[h].num].typ
    BY <1>1, <1>6, <1>7, SignalFormat DEF Tag
  <2>2. h \in Known(signalFormat, cut)
    BY <1>7, <2>1 DEF Known
  <2> QED
    BY <2>1, <2>2 DEF WellFormed
<1>9. SignalBody(data) = cut
  BY DEF SignalBody, cut
<1> QED
  BY <1>8, <1>9 DEF ParseSignalMessage, Decode

\* The X3DH part has its six fields.
IsInitial(x) ==
  x = [identity |-> x.identity, ephemeral |-> x.ephemeral, preKeyID |-> x.preKeyID,
       signedPreKeyID |-> x.signedPreKeyID, kyberPreKeyID |-> x.kyberPreKeyID,
       kyberCiphertext |-> x.kyberCiphertext]

\* A PreKeySignalMessage reads back.
LEMMA PreKeyMessageParses ==
  ASSUME NEW x, NEW message, NEW inner, NEW body, NEW version \in {3, 4},
         EncodedAs(body, PreKeyFields(x, message)),
         ParseSignalMessage(message) = inner, inner # Nothing,
         IsInitial(x), KyberPayload(version, x.kyberPreKeyID, x.kyberCiphertext)
  PROVE  ParsePreKeySignalMessage([version |-> version, body |-> body, mac |-> NoMAC])
         = [initial |-> x, message |-> inner]
<1> DEFINE F == PreKeyFields(x, message)
           got == Decode(preKeyFormat, body)
           data == [version |-> version, body |-> body, mac |-> NoMAC]
           v5 == Varint(5, 1)
           v1 == Varint(1, x.preKeyID)
           v6 == Varint(6, x.signedPreKeyID)
           v7 == Varint(7, x.kyberPreKeyID)
           b8 == Bytes(8, x.kyberCiphertext)
           b2 == Bytes(2, x.ephemeral)
           b3 == Bytes(3, x.identity)
           b4 == Bytes(4, message)
<1>1. /\ v5.num = 5 /\ v1.num = 1 /\ v6.num = 6 /\ v7.num = 7 /\ b8.num = 8
      /\ b2.num = 2 /\ b3.num = 3 /\ b4.num = 4
  BY DEF Bytes, Varint
<1>2. /\ v5.typ = "varint" /\ v1.typ = "varint" /\ v6.typ = "varint" /\ v7.typ = "varint"
      /\ b8.typ = "bytes" /\ b2.typ = "bytes" /\ b3.typ = "bytes" /\ b4.typ = "bytes"
  BY DEF Bytes, Varint
<1>3. /\ v1.val = x.preKeyID /\ v6.val = x.signedPreKeyID /\ v7.val = x.kyberPreKeyID
      /\ b8.val = x.kyberCiphertext /\ b2.val = x.ephemeral /\ b3.val = x.identity
      /\ b4.val = message
  BY DEF Bytes, Varint
<1>4. F = {v5, v6, b2, b3, b4} \cup (IF x.preKeyID = 0 THEN {} ELSE {v1})
            \cup (IF x.kyberPreKeyID = 0 THEN {} ELSE {v7, b8})
  BY DEF PreKeyFields
<1> HIDE DEF v5, v1, v6, v7, b8, b2, b3, b4, F
<1>5. \A y \in F : y = v5 \/ y = v6 \/ y = b2 \/ y = b3 \/ y = b4
                   \/ (y = v1 /\ x.preKeyID # 0) \/ ((y = v7 \/ y = b8) /\ x.kyberPreKeyID # 0)
  BY <1>4
<1>6. /\ v5 \in F /\ v6 \in F /\ b2 \in F /\ b3 \in F /\ b4 \in F
      /\ x.preKeyID # 0 => v1 \in F
      /\ x.kyberPreKeyID # 0 => v7 \in F /\ b8 \in F
  BY <1>4
<1>7. Fits(preKeyFormat, F)
  <2>1. \A y \in F : y.num \in DOMAIN preKeyFormat.field => y.typ = preKeyFormat.field[y.num].typ
    BY <1>1, <1>2, <1>5, PreKeyFormat DEF Tag
  <2>2. ASSUME NEW group \in preKeyFormat.required
        PROVE  \E y \in F : y.num \in DOMAIN preKeyFormat.field
                            /\ preKeyFormat.field[y.num].name \in group
    <3>1. /\ preKeyFormat.field[b2.num].name = "base_key"
          /\ preKeyFormat.field[b3.num].name = "identity_key"
          /\ preKeyFormat.field[b4.num].name = "message"
          /\ preKeyFormat.field[v6.num].name = "signed_pre_key_id"
      BY <1>1, PreKeyFormat DEF Tag
    <3>2. {b2.num, b3.num, b4.num, v6.num} \subseteq DOMAIN preKeyFormat.field
      BY <1>1, PreKeyFormat
    <3>3. \/ "base_key" \in group \/ "identity_key" \in group \/ "message" \in group
          \/ "signed_pre_key_id" \in group
      BY PreKeyFormat
    <3> QED
      BY <1>6, <3>1, <3>2, <3>3
  <2> QED
    BY <2>1, <2>2, PreKeyFormat DEF Fits
<1>8. EncodedAs(body, F) /\ 99 \notin DOMAIN preKeyFormat.field /\ DOMAIN preKeyFormat.field # {}
  BY PreKeyFormat DEF F
<1>9. Decoded(preKeyFormat, F, got)
  BY <1>7, <1>8, PreKeyFormat, DecodeEncoded
<1>10. /\ got # Nothing
       /\ got["base_key"] = x.ephemeral /\ got["identity_key"] = x.identity
       /\ got["message"] = message /\ got["signed_pre_key_id"] = x.signedPreKeyID
  <2> HIDE DEF got
  <2> QED
    BY <1>1, <1>3, <1>6, <1>9, PreKeyFormat DEF Decoded, Tag
<1>11. got["kyber_ciphertext"] = x.kyberCiphertext
  <2> HIDE DEF got
  <2>1. CASE x.kyberPreKeyID # 0
    BY <1>1, <1>3, <1>6, <1>9, <2>1, PreKeyFormat DEF Decoded, Tag
  <2>2. CASE x.kyberPreKeyID = 0
    <3>1. \A y \in F : y.num # 8
      BY <1>1, <1>5, <2>2
    <3>2. got["kyber_ciphertext"] = Nothing
      BY <1>9, <3>1, PreKeyFormat DEF Decoded, Tag
    <3> QED
      BY <2>2, <3>2 DEF KyberPayload
  <2> QED
    BY <2>1, <2>2
<1> DEFINE number(name) == NumberOrNil(preKeyFormat, body, name)
<1>12. /\ \A y \in F : y.num \in DOMAIN preKeyFormat.field
            => number(preKeyFormat.field[y.num].name) = y.val
       /\ \A n \in DOMAIN preKeyFormat.field : (\A y \in F : y.num # n)
            => number(preKeyFormat.field[n].name) = 0
  BY <1>8, PreKeyFormat, NumberEncoded
<1> HIDE DEF got, number
<1>13. number("pre_key_id") = x.preKeyID
  <2>1. CASE x.preKeyID # 0
    BY <1>1, <1>3, <1>6, <1>12, <2>1, PreKeyFormat DEF Tag
  <2>2. CASE x.preKeyID = 0
    <3>1. \A y \in F : y.num # 1
      BY <1>1, <1>5, <2>2
    <3> QED
      BY <1>12, <2>2, <3>1, PreKeyFormat DEF Tag
  <2> QED
    BY <2>1, <2>2
<1>14. number("kyber_pre_key_id") = x.kyberPreKeyID
  <2>1. CASE x.kyberPreKeyID # 0
    BY <1>1, <1>3, <1>6, <1>12, <2>1, PreKeyFormat DEF Tag
  <2>2. CASE x.kyberPreKeyID = 0
    <3>1. \A y \in F : y.num # 7
      BY <1>1, <1>5, <2>2
    <3> QED
      BY <1>12, <2>2, <3>1, PreKeyFormat DEF Tag
  <2> QED
    BY <2>1, <2>2
<1>15. Supported(version)
  BY DEF Supported, CiphertextMessagePreKyberVersion, CiphertextMessageCurrentVersion
<1>16. ParsePreKeySignalMessage(data)
       = [initial |-> [identity |-> x.identity, ephemeral |-> x.ephemeral,
                       preKeyID |-> x.preKeyID, signedPreKeyID |-> x.signedPreKeyID,
                       kyberPreKeyID |-> x.kyberPreKeyID, kyberCiphertext |-> x.kyberCiphertext],
          message |-> inner]
  BY <1>10, <1>11, <1>13, <1>14, <1>15 DEF ParsePreKeySignalMessage, got, number
<1> QED
  BY <1>16 DEF IsInitial

\* The body of the next message of p's session s, and that message as it is read.
BodyOf(p, s) ==
  Fields(p, encodeSignalMessageBody(<<s.line, s.sends>>, s.Ns, s.PN, <<"ciphertext">>, Nothing))

MacOf(p, s) ==
  computeSignalMAC(MessageKey(s.secret, <<s.line, s.sends>>, s.Ns), s.local, s.remote, s.version,
                   BodyOf(p, s))

ReadAs(p, s) ==
  [version |-> s.version, ratchetKey |-> <<s.line, s.sends>>, counter |-> s.Ns,
   previousCounter |-> s.PN, ciphertext |-> <<"ciphertext">>,
   serialized |-> BodyOf(p, s), mac |-> MacOf(p, s)]

Sendable(s, x) ==
  /\ s.version \in {3, 4}
  /\ x = NoInitial \/ (IsInitial(x) /\ KyberPayload(s.version, x.kyberPreKeyID, x.kyberCiphertext))

\* What is sent is read as it was meant: Decrypt tells the two kinds of
\* messages apart, and the fields survive in whatever order.
LEMMA NextMessageIs ==
  ASSUME NEW p, NEW s, NEW x, Sendable(s, x)
  PROVE  NextMessage(p, s, x) = [from |-> p, initial |-> x, message |-> ReadAs(p, s)]
<1> DEFINE signal == [version |-> s.version, body |-> BodyOf(p, s), mac |-> MacOf(p, s)]
           body == Fields(p, encodePreKeySignalMessageBody(x, 1, signal))
           data == [version |-> s.version, body |-> body, mac |-> NoMAC]
<1>1. SignalMessage(p, s) = signal
  BY DEF SignalMessage, NewSignalMessage, MacOf, BodyOf
<1>2. MacOf(p, s) # NoMAC
  <2>1. DOMAIN MacOf(p, s) # {} /\ DOMAIN NoMAC = {}
    BY DEF MacOf, computeSignalMAC, NoMAC
  <2> QED
    BY <2>1
<1>3. ParseSignalMessage(signal) = ReadAs(p, s) /\ ReadAs(p, s) # Nothing
  BY <1>2, SignalMessageParses DEF ReadAs, BodyOf, Sendable
<1>4. CASE x = NoInitial
  <2>1. NextMessage(p, s, x) = Parsed(p, signal)
    BY <1>1, <1>4 DEF NextMessage
  <2> HIDE DEF signal
  <2> QED
    BY <1>3, <1>4, <2>1 DEF Parsed
<1>5. CASE x # NoInitial
  <2>1. PreKeySignalMessage(p, s, x) = data
    BY <1>1 DEF PreKeySignalMessage, NewPreKeySignalMessage
  <2>2. NextMessage(p, s, x) = Parsed(p, data)
    BY <1>5, <2>1 DEF NextMessage
  <2> HIDE DEF signal
  <2>3. EncodedAs(body, PreKeyFields(x, signal))
    <3>1. \A y \in PreKeyFields(x, signal) : y.num # 99
      BY DEF PreKeyFields, Bytes, Varint
    <3> QED
      BY <3>1, PreKeyBodyMade, FieldsEncode
  <2> HIDE DEF body
  <2>4. ParseSignalMessage(data) = Nothing
    BY <2>3, PreKeyIsNoSignal DEF Sendable
  <2>5. ParsePreKeySignalMessage(data) = [initial |-> x, message |-> ReadAs(p, s)]
    <3>1. s.version \in {3, 4} /\ IsInitial(x)
          /\ KyberPayload(s.version, x.kyberPreKeyID, x.kyberCiphertext)
      BY <1>5 DEF Sendable
    <3> DEFINE inner == ReadAs(p, s)
    <3>2. ParseSignalMessage(signal) = inner /\ inner # Nothing
      BY <1>3
    <3> HIDE DEF inner
    <3>3. ParsePreKeySignalMessage(data) = [initial |-> x, message |-> inner]
      BY <2>3, <3>1, <3>2, PreKeyMessageParses
    <3> QED
      BY <3>3 DEF inner
  <2> HIDE DEF data
  <2> QED
    BY <2>2, <2>4, <2>5 DEF Parsed
<1> QED
  BY <1>4, <1>5

-----------------------------------------------------------------------------
(* Parties, keys and secrets. *)

LEMMA PartiesDistinct == Alice # Bob /\ Alice # Stranger /\ Bob # Stranger
<1>1. \A a, b : Cardinality({a, b}) <= 2
  <2> SUFFICES ASSUME NEW a, NEW b PROVE Cardinality({a, b}) <= 2
    OBVIOUS
  <2>1. IsFiniteSet({a}) /\ Cardinality({a}) = 1
    BY FS_Singleton
  <2>2. {a, b} = {a} \cup {b}
    OBVIOUS
  <2>3. Cardinality({a} \cup {b}) = IF b \in {a} THEN Cardinality({a}) ELSE Cardinality({a}) + 1
    BY <2>1, FS_AddElement
  <2> QED
    BY <2>1, <2>2, <2>3
<1>2. Cardinality({Alice, Bob, Stranger}) = 3
  BY SessionAssumption
<1>3. ASSUME Alice = Bob PROVE FALSE
  <2>1. {Alice, Bob, Stranger} = {Bob, Stranger}
    BY <1>3
  <2>2. Cardinality({Bob, Stranger}) = 3
    BY <1>2, <2>1
  <2>3. Cardinality({Bob, Stranger}) <= 2
    BY <1>1
  <2> QED
    BY <2>2, <2>3
<1>4. ASSUME Alice = Stranger PROVE FALSE
  <2>1. {Alice, Bob, Stranger} = {Bob, Stranger}
    BY <1>4
  <2>2. Cardinality({Bob, Stranger}) = 3
    BY <1>2, <2>1
  <2>3. Cardinality({Bob, Stranger}) <= 2
    BY <1>1
  <2> QED
    BY <2>2, <2>3
<1>5. ASSUME Bob = Stranger PROVE FALSE
  <2>1. {Alice, Bob, Stranger} = {Alice, Stranger}
    BY <1>5
  <2>2. Cardinality({Alice, Stranger}) = 3
    BY <1>2, <2>1
  <2>3. Cardinality({Alice, Stranger}) <= 2
    BY <1>1
  <2> QED
    BY <2>2, <2>3
<1> QED
  BY <1>3, <1>4, <1>5

LEMMA Peers ==
  ASSUME NEW p \in Party
  PROVE  /\ Peer(p) \in Party /\ Peer(p) # p /\ Peer(Peer(p)) = p
         /\ p # Stranger /\ Peer(p) # Stranger
         /\ \A q \in Party : q = p \/ q = Peer(p)
BY PartiesDistinct DEF Party, Peer

LEMMA KeysDistinct ==
  /\ \A p, q : IdentityKey(p) = IdentityKey(q) => p = q
  /\ \A p, q, n : IdentityKey(p) # EphemeralKey(q, n)
  /\ \A p, q : IdentityKey(p) # SignedPreKey(q)
  /\ \A p, q : SignedPreKey(p) = SignedPreKey(q) => p = q
  /\ \A p, q, n : SignedPreKey(p) # EphemeralKey(q, n)
  /\ \A p, q, n, k : PreKey(p, k) # EphemeralKey(q, n)
  /\ \A p, q, k, l : PreKey(p, k) = PreKey(q, l) => p = q /\ k = l
  /\ \A p, q, n, k : EphemeralKey(p, n) = EphemeralKey(q, k) => p = q /\ n = k
  /\ \A p, n : EphemeralKey(p, n) # NoKey
  /\ \A p : IdentityKey(p) # NoKey
BY DEF IdentityKey, SignedPreKey, PreKey, EphemeralKey, NoKey

\* The secret that o agrees on with its n-th ephemeral key, the one-time
\* pre-key k of its peer (0 for none) and the Kyber ciphertext y.
SecretOf(o, n, k, y) ==
  <<DH(IdentityKey(o), SignedPreKey(Peer(o))), DH(EphemeralKey(o, n), IdentityKey(Peer(o))),
    DH(EphemeralKey(o, n), SignedPreKey(Peer(o))),
    IF k = 0 THEN {} ELSE DH(EphemeralKey(o, n), PreKey(Peer(o), k)), y>>

\* The X3DH part of the message that tells the peer of it.
InitialOf(o, n, k, y) ==
  [identity |-> IdentityKey(o), ephemeral |-> EphemeralKey(o, n), preKeyID |-> k,
   signedPreKeyID |-> SignedPreKeyID, kyberPreKeyID |-> IF y = Nothing THEN 0 ELSE KyberPreKeyID,
   kyberCiphertext |-> y]

OneTimeIDs == OneTime \cup (IF WithoutOneTime THEN {0} ELSE {})

\* A secret tells all that it was made from.
PartsOf(a, o, n, k, y) ==
  /\ a[1] = {IdentityKey(o), SignedPreKey(Peer(o))}
  /\ a[2] = {EphemeralKey(o, n), IdentityKey(Peer(o))}
  /\ a[3] = {EphemeralKey(o, n), SignedPreKey(Peer(o))}
  /\ k = 0 => a[4] = {}
  /\ k # 0 => a[4] = {EphemeralKey(o, n), PreKey(Peer(o), k)}
  /\ a[5] = y

LEMMA SecretParts ==
  ASSUME NEW o, NEW n, NEW k, NEW y
  PROVE  PartsOf(SecretOf(o, n, k, y), o, n, k, y)
<1> DEFINE a == SecretOf(o, n, k, y)
<1>1. a[1] = {IdentityKey(o), SignedPreKey(Peer(o))}
  BY DEF SecretOf, DH
<1>2. a[2] = {EphemeralKey(o, n), IdentityKey(Peer(o))}
  BY DEF SecretOf, DH
<1>3. a[3] = {EphemeralKey(o, n), SignedPreKey(Peer(o))}
  BY DEF SecretOf, DH
<1>4. a[4] = IF k = 0 THEN {} ELSE {EphemeralKey(o, n), PreKey(Peer(o), k)}
  BY DEF SecretOf, DH
<1>5. a[5] = y
  BY DEF SecretOf
<1> HIDE DEF a
<1>6. (k = 0 => a[4] = {}) /\ (k # 0 => a[4] = {EphemeralKey(o, n), PreKey(Peer(o), k)})
  BY <1>4
<1> QED
  BY <1>1, <1>2, <1>3, <1>5, <1>6 DEF PartsOf, a

LEMMA PartsDistinct ==
  ASSUME NEW a, NEW o, NEW n, NEW k, NEW y, NEW o2, NEW n2, NEW k2, NEW y2,
         PartsOf(a, o, n, k, y), PartsOf(a, o2, n2, k2, y2)
  PROVE  o = o2 /\ n = n2 /\ k = k2 /\ y = y2
<1>1. o = o2
  <2>1. IdentityKey(o) \in {IdentityKey(o2), SignedPreKey(Peer(o2))}
    BY DEF PartsOf
  <2> QED
    BY <2>1, KeysDistinct
<1>2. n = n2
  <2>1. EphemeralKey(o, n) \in {EphemeralKey(o2, n2), SignedPreKey(Peer(o2))}
    BY DEF PartsOf
  <2> QED
    BY <2>1, KeysDistinct
<1>3. y = y2
  BY DEF PartsOf
<1>4. k = k2
  <2>1. CASE k = 0
    BY <2>1 DEF PartsOf
  <2>2. CASE k # 0
    <3>1. k2 # 0 /\ PreKey(Peer(o), k) \in {EphemeralKey(o2, n2), PreKey(Peer(o2), k2)}
      BY <2>2 DEF PartsOf
    <3> QED
      BY <3>1, KeysDistinct
  <2> QED
    BY <2>1, <2>2
<1> QED
  BY <1>1, <1>2, <1>3, <1>4

LEMMA SecretsDistinct ==
  ASSUME NEW o, NEW n, NEW k, NEW y, NEW o2, NEW n2, NEW k2, NEW y2,
         SecretOf(o, n, k, y) = SecretOf(o2, n2, k2, y2)
  PROVE  o = o2 /\ n = n2 /\ k = k2 /\ y = y2
<1> DEFINE a == SecretOf(o, n, k, y)
<1>1. PartsOf(a, o, n, k, y)
  BY SecretParts
<1>2. PartsOf(a, o2, n2, k2, y2)
  BY SecretParts
<1> HIDE DEF a
<1> QED
  BY <1>1, <1>2, PartsDistinct

LEMMA AppendFifth ==
  ASSUME NEW a, NEW b, NEW c, NEW d, NEW y
  PROVE  Append(<<a, b, c, d>>, y) = <<a, b, c, d, y>>
<1> DEFINE S == {a, b, c, d, y}
           u == Append(<<a, b, c, d>>, y)
           v == <<a, b, c, d, y>>
<1>1. u \in Seq(S) /\ v \in Seq(S)
  OBVIOUS
<1>2. Len(u) = 5 /\ Len(v) = 5
  OBVIOUS
<1>3. u[1] = a /\ u[2] = b /\ u[3] = c /\ u[4] = d /\ u[5] = y
  OBVIOUS
<1>4. v[1] = a /\ v[2] = b /\ v[3] = c /\ v[4] = d /\ v[5] = y
  OBVIOUS
<1> HIDE DEF u, v, S
<1>5. \A i \in 1 .. Len(u) : u[i] = v[i]
  BY <1>2, <1>3, <1>4
<1>6. u = v
  BY <1>1, <1>2, <1>5, SeqEqual
<1> QED
  BY <1>6 DEF u, v

LEMMA KyberParts ==
  ASSUME NEW y \in KyberPreKey
  PROVE  y = Nothing \/ (y = <<"ciphertext">> /\ y # Nothing)
<1>1. <<"ciphertext">> # Nothing
  BY DEF Nothing
<1> QED
  BY <1>1 DEF KyberPreKey

VersionOf(secret) ==
  IF secret[5] = Nothing THEN CiphertextMessagePreKyberVersion ELSE CiphertextMessageCurrentVersion

LEMMA InitialFacts ==
  ASSUME NEW o \in Party, NEW n, NEW k, NEW y \in KyberPreKey
  PROVE  LET x == InitialOf(o, n, k, y) IN
         /\ x # NoInitial
         /\ IsInitial(x)
         /\ x.identity = IdentityKey(o) /\ x.ephemeral = EphemeralKey(o, n) /\ x.preKeyID = k
         /\ x.signedPreKeyID = SignedPreKeyID /\ x.kyberCiphertext = y
         /\ x.kyberPreKeyID = (IF y = Nothing THEN 0 ELSE KyberPreKeyID)
         /\ ciphertextVersionFromX3DH(x) = VersionOf(SecretOf(o, n, k, y))
         /\ KyberPayload(VersionOf(SecretOf(o, n, k, y)), x.kyberPreKeyID, x.kyberCiphertext)
         /\ ResponderSecret(Peer(o), x) = SecretOf(o, n, k, y)
<1> DEFINE x == InitialOf(o, n, k, y)
<1>1. /\ x.identity = IdentityKey(o) /\ x.ephemeral = EphemeralKey(o, n) /\ x.preKeyID = k
      /\ x.signedPreKeyID = SignedPreKeyID /\ x.kyberCiphertext = y
      /\ x.kyberPreKeyID = (IF y = Nothing THEN 0 ELSE KyberPreKeyID)
  BY DEF InitialOf
<1>2. IsInitial(x)
  BY DEF IsInitial, InitialOf
<1>3. x # NoInitial
  <2>1. NoInitial.identity = NoKey
    BY DEF NoInitial
  <2> QED
    BY <1>1, <2>1, KeysDistinct
<1> HIDE DEF x
<1>4. VersionOf(SecretOf(o, n, k, y)) = IF y = Nothing THEN 3 ELSE 4
  <2>1. SecretOf(o, n, k, y)[5] = y
    BY SecretParts DEF PartsOf
  <2> QED
    BY <2>1 DEF VersionOf, CiphertextMessagePreKyberVersion, CiphertextMessageCurrentVersion
<1>5. ciphertextVersionFromX3DH(x) = IF y = Nothing THEN 3 ELSE 4
  BY <1>1 DEF ciphertextVersionFromX3DH, CiphertextMessagePreKyberVersion,
     CiphertextMessageCurrentVersion, KyberPreKeyID
<1>6. KyberPayload(VersionOf(SecretOf(o, n, k, y)), x.kyberPreKeyID, x.kyberCiphertext)
  BY <1>1, <1>4 DEF KyberPayload, KyberPreKeyID, CiphertextMessagePreKyberVersion
<1>7. ResponderSecret(Peer(o), x) = SecretOf(o, n, k, y)
  <2> DEFINE e == EphemeralKey(o, n)
             q == Peer(o)
             a == {IdentityKey(o), SignedPreKey(q)}
             b == {e, IdentityKey(q)}
             c == {e, SignedPreKey(q)}
             d == IF k = 0 THEN {} ELSE {e, PreKey(q, k)}
  <2>1. ResponderSecret(q, x) = Append(<<a, b, c, d>>, y)
    BY <1>1 DEF ResponderSecret, DeriveSecret, DH
  <2>2. SecretOf(o, n, k, y) = <<a, b, c, d, y>>
    BY DEF SecretOf, DH
  <2> HIDE DEF a, b, c, d
  <2> QED
    BY <2>1, <2>2, AppendFifth
<1> QED
  BY <1>1, <1>2, <1>3, <1>4, <1>5, <1>6, <1>7 DEF x

\* The responder derives a secret from a message only if it names the same keys.
LEMMA ResponderSecretBinds ==
  ASSUME NEW p \in Party, NEW x, NEW n, NEW k, NEW y,
         ResponderSecret(p, x) = SecretOf(Peer(p), n, k, y)
  PROVE  /\ x.identity = IdentityKey(Peer(p)) /\ x.ephemeral = EphemeralKey(Peer(p), n)
         /\ x.preKeyID = k /\ x.kyberCiphertext = y
<1> DEFINE r == ResponderSecret(p, x)
           e == EphemeralKey(Peer(p), n)
           a == {SignedPreKey(p), x.identity}
           b == {IdentityKey(p), x.ephemeral}
           c == {SignedPreKey(p), x.ephemeral}
           d == IF x.preKeyID = 0 THEN {} ELSE {PreKey(p, x.preKeyID), x.ephemeral}
<1>1. r = Append(<<a, b, c, d>>, x.kyberCiphertext)
  BY DEF ResponderSecret, DeriveSecret, DH
<1> HIDE DEF a, b, c, d
<1>2. r[1] = a /\ r[3] = c /\ r[4] = d /\ r[5] = x.kyberCiphertext
  BY <1>1
<1> HIDE DEF r
<1>3. Peer(Peer(p)) = p
  BY Peers
<1>4. /\ r[1] = {IdentityKey(Peer(p)), SignedPreKey(p)} /\ r[3] = {e, SignedPreKey(p)}
      /\ r[4] = (IF k = 0 THEN {} ELSE {e, PreKey(p, k)}) /\ r[5] = y
  <2>1. PartsOf(r, Peer(p), n, k, y)
    BY SecretParts DEF r
  <2> QED
    BY <1>3, <2>1 DEF PartsOf
<1>5. x.identity = IdentityKey(Peer(p))
  <2>1. IdentityKey(Peer(p)) \in {SignedPreKey(p), x.identity}
    BY <1>2, <1>4 DEF a
  <2> QED
    BY <2>1, KeysDistinct
<1>6. x.ephemeral = e
  <2>1. e \in {SignedPreKey(p), x.ephemeral}
    BY <1>2, <1>4 DEF c
  <2> QED
    BY <2>1, KeysDistinct
<1>7. x.preKeyID = k
  <2>1. (IF x.preKeyID = 0 THEN {} ELSE {PreKey(p, x.preKeyID), e})
        = (IF k = 0 THEN {} ELSE {e, PreKey(p, k)})
    BY <1>2, <1>4, <1>6 DEF d
  <2>2. CASE k = 0
    BY <2>1, <2>2
  <2>3. CASE k # 0
    <3>1. x.preKeyID # 0 /\ PreKey(p, k) \in {PreKey(p, x.preKeyID), e}
      BY <2>1, <2>3
    <3> QED
      BY <3>1, KeysDistinct
  <2> QED
    BY <2>2, <2>3
<1> QED
  BY <1>2, <1>4, <1>5, <1>6, <1>7

-----------------------------------------------------------------------------
(* The inductive invariant.  Its parts take the state as parameters, so    *)
(* that lemmas about them apply to both states of a step.  st numbers the  *)
(* sessions started, N is the set of messages sent, pk a party's one-time  *)
(* pre-keys, r its record, tr the identity key it trusts, D what it has    *)
(* decrypted.                                                              *)

\* o agreed on the secret a.
IsAgreed(o, st, a) ==
  \E n \in 0 .. st[o] - 1, k \in OneTimeIDs, y \in KyberPreKey : a = SecretOf(o, n, k, y)

\* l is the line of a session that p answered.
HasLine(p, st, l) == \E j \in 0 .. st[p] - 1 : l = EphemeralKey(p, j)

SecretIn(m) == m.message.mac.key.secret

\* The session m belongs to was started by o.
StartedBy(o, m, st) ==
  /\ IsAgreed(o, st, SecretIn(m))
  /\ Line(m) = NoKey => o = m.from
  /\ Line(m) # NoKey => HasLine(Peer(o), st, Line(m))

\* m tells the peer of its n-th session.
Announces(m, n, k, y) ==
  /\ m.initial = InitialOf(m.from, n, k, y)
  /\ SecretIn(m) = SecretOf(m.from, n, k, y)
  /\ Line(m) = NoKey
  /\ m.message.counter = 0 /\ m.message.previousCounter = 0

\* A message has its fields.
IsMessage(m) ==
  /\ m = [from |-> m.from, initial |-> m.initial, message |-> m.message]
  /\ m.message = [version |-> m.message.version, ratchetKey |-> m.message.ratchetKey,
                  counter |-> m.message.counter, previousCounter |-> m.message.previousCounter,
                  ciphertext |-> m.message.ciphertext, serialized |-> m.message.serialized, mac |-> m.message.mac]

\* What every message is.
MessageOK(m, st) ==
  /\ IsMessage(m)
  /\ m.from \in Party
  /\ m.message.mac
     = computeSignalMAC(MessageKey(SecretIn(m), m.message.ratchetKey, m.message.counter),
                        IdentityKey(m.from), IdentityKey(Peer(m.from)),
                        m.message.version, m.message.serialized)
  /\ Chain(m) \in Nat \ {0}
  /\ m.message.counter \in Nat
  /\ m.message.version = VersionOf(SecretIn(m))
  /\ \E o \in Party : StartedBy(o, m, st)
  /\ m.initial # NoInitial =>
       \E n \in 0 .. st[m.from] - 1, k \in OneTimeIDs, y \in KyberPreKey : Announces(m, n, k, y)

Network(N, st) ==
  /\ IsFiniteSet(N)
  /\ Cardinality(N) <= MaxSent
  /\ \A m \in N : MessageOK(m, st) /\ m.message.counter < Cardinality(N)

SessionRecords ==
  [role : {"initiator", "responder"}, version : {3, 4},
   local : {IdentityKey(p) : p \in Party}, remote : {IdentityKey(p) : p \in Party},
   secret : {SecretOf(o, n, k, y) : o \in Party, n \in Nat, k \in OneTimeIDs, y \in KyberPreKey},
   line : {NoKey} \cup {EphemeralKey(p, n) : p \in Party, n \in Nat},
   sends : Nat, Ns : Nat, PN : Nat, receives : Nat, Nr : Nat, got : SUBSET Nat]

\* A session of p by itself.
Shape(p, s, st) ==
  /\ s \in SessionRecords
  /\ s.local = IdentityKey(p) /\ s.remote = IdentityKey(Peer(p))
  /\ s.role = "initiator" => IsAgreed(p, st, s.secret)
  /\ s.role # "initiator" => IsAgreed(Peer(p), st, s.secret)
  /\ s.version = VersionOf(s.secret)
  /\ s.role # "initiator" => HasLine(p, st, s.line)
  /\ s.role = "initiator" => (s.line = NoKey /\ s.receives = 0) \/ HasLine(Peer(p), st, s.line)
  /\ s.sends # 0
  /\ s.receives = 0 => s.got = {}
  /\ s.receives # 0 => s.got # {}
  /\ s.got \subseteq 0 .. s.Nr - 1

\* All that p sent in s lies behind the next message of s.
Ahead(p, s, N) ==
  \A m \in N :
    m.from = p /\ SecretIn(m) = s.secret /\ (s.role = "initiator" \/ Line(m) = s.line)
      => Chain(m) < s.sends \/ (Chain(m) = s.sends /\ m.message.counter < s.Ns)

\* The messages that s received so far, or might have.
HeardBy(p, s, N) == {m \in N : m.from = Peer(p) /\ SecretIn(m) = s.secret /\ Chain(m) <= s.receives}

Heard(p, s, N) ==
  /\ \A n \in s.got : \E m \in N :
       /\ m.from = Peer(p) /\ SecretIn(m) = s.secret
       /\ Chain(m) = s.receives /\ m.message.counter = n
       /\ s.role = "initiator" => Line(m) = s.line
  /\ s.sends <= Cardinality(HeardBy(p, s, N)) + 1

\* An initiator put the secret of s into a message.
Announced(p, s, N) ==
  \E m \in N : /\ m.initial # NoInitial /\ SecretIn(m) = s.secret
               /\ m.from = p <=> s.role = "initiator"

\* The one-time pre-keys of p that went into the secret are gone.
Spent(p, secret, pk) == \A k \in pk : PreKey(p, k) \notin secret[4]

Good(p, s, st, N, pk) ==
  /\ Shape(p, s, st) /\ Ahead(p, s, N) /\ Heard(p, s, N) /\ Announced(p, s, N)
  /\ s.Ns <= Cardinality(N)
  /\ Spent(p, s.secret, pk)

\* m lies behind what s has received.
Repeated(s, m) ==
  Chain(m) < s.receives \/ (Chain(m) = s.receives /\ m.message.counter \in s.got)

SecretsDiffer(r) == \A i, j \in 1 .. Len(r) : r[i].secret = r[j].secret => i = j

PartyOK(p, r, tr, pk, D, st, N) ==
  /\ r \in Seq(SessionRecords) /\ Len(r) <= MaxArchived + 1
  /\ SecretsDiffer(r)
  /\ \A i \in 1 .. Len(r) : Good(p, r[i], st, N, pk)
  /\ r # << >> => tr = IdentityKey(Peer(p))
  /\ \A m \in D : m \in N /\ m.from = Peer(p) /\ Spent(p, SecretIn(m), pk)
  /\ ~WithoutOneTime =>
       \A m \in D : \A i \in 1 .. Len(r) : SecretIn(m) = r[i].secret => Repeated(r[i], m)

Stores ==
  /\ rec \in [Party -> Seq(SessionRecords)]
  /\ trusted \in [Party -> {NoKey} \cup {IdentityKey(p) : p \in Party \cup {Stranger}}]
  /\ \A p \in Party : trusted[p] # IdentityKey(p)
  /\ preKeys \in [Party -> SUBSET OneTime]
  /\ published \in [Party -> SUBSET OneTime]
  /\ expired \in [Party -> BOOLEAN]
  /\ started \in [Party -> 0 .. MaxSessions]
  /\ delivered \in [Party -> SUBSET net]
  /\ plaintexts \in [Party -> Nat]

\* The inductive invariant.
IInv ==
  /\ Stores
  /\ Network(net, started)
  /\ \A p \in Party : PartyOK(p, rec[p], trusted[p], preKeys[p], delivered[p], started, net)

-----------------------------------------------------------------------------
(* Sessions and messages when others go on. *)

Grows(st, st2) ==
  /\ st \in [Party -> Nat] /\ st2 \in [Party -> Nat]
  /\ \A p \in Party : st[p] <= st2[p]

LEMMA AgreedGrows ==
  ASSUME NEW st, NEW st2, Grows(st, st2), NEW o \in Party
  PROVE  /\ \A a : IsAgreed(o, st, a) => IsAgreed(o, st2, a)
         /\ \A l : HasLine(o, st, l) => HasLine(o, st2, l)
<1>1. 0 .. st[o] - 1 \subseteq 0 .. st2[o] - 1
  BY DEF Grows
<1> QED
  BY <1>1 DEF IsAgreed, HasLine

LEMMA AgreedOnce ==
  ASSUME NEW o, NEW st, NEW o2, NEW st2, NEW a, IsAgreed(o, st, a), IsAgreed(o2, st2, a)
  PROVE  o = o2
<1>1. PICK n, k, y : a = SecretOf(o, n, k, y)
  BY DEF IsAgreed
<1>2. PICK n2, k2, y2 : a = SecretOf(o2, n2, k2, y2)
  BY DEF IsAgreed
<1>3. SecretOf(o, n, k, y) = SecretOf(o2, n2, k2, y2)
  BY <1>1, <1>2
<1> QED
  BY <1>3, SecretsDistinct

LEMMA NoLineIsNoKey ==
  ASSUME NEW p, NEW st, NEW l, HasLine(p, st, l)
  PROVE  l # NoKey
BY KeysDistinct DEF HasLine

LEMMA MessageGrows ==
  ASSUME NEW st, NEW st2, Grows(st, st2), NEW m, MessageOK(m, st)
  PROVE  MessageOK(m, st2)
<1>1. PICK o \in Party : StartedBy(o, m, st)
  BY DEF MessageOK
<1>2. StartedBy(o, m, st2)
  BY <1>1, AgreedGrows, Peers DEF StartedBy
<1>3. m.from \in Party
  BY DEF MessageOK
<1>4. 0 .. st[m.from] - 1 \subseteq 0 .. st2[m.from] - 1
  BY <1>3 DEF Grows
<1> QED
  BY <1>2, <1>4 DEF MessageOK

LEMMA ShapeGrows ==
  ASSUME NEW st, NEW st2, Grows(st, st2), NEW p \in Party, NEW s, Shape(p, s, st)
  PROVE  Shape(p, s, st2)
BY AgreedGrows, Peers DEF Shape

LEMMA HeardByCounts ==
  ASSUME NEW p, NEW s, NEW N, IsFiniteSet(N)
  PROVE  /\ IsFiniteSet(HeardBy(p, s, N))
         /\ Cardinality(HeardBy(p, s, N)) \in Nat /\ Cardinality(N) \in Nat
         /\ Cardinality(HeardBy(p, s, N)) <= Cardinality(N)
<1>1. HeardBy(p, s, N) \in SUBSET N
  BY DEF HeardBy
<1> QED
  BY <1>1, FS_Subset, FS_CardinalityType

\* A set of messages that contains another one counts at least as many.
LEMMA CountsGrow ==
  ASSUME NEW N, NEW N2, N \subseteq N2, IsFiniteSet(N2)
  PROVE  /\ IsFiniteSet(N) /\ Cardinality(N) \in Nat /\ Cardinality(N2) \in Nat
         /\ Cardinality(N) <= Cardinality(N2)
BY FS_Subset, FS_CardinalityType

LEMMA HeardGrows ==
  ASSUME NEW p \in Party, NEW s, s.sends \in Nat, NEW N, NEW N2, Heard(p, s, N), N \subseteq N2,
         IsFiniteSet(N2)
  PROVE  Heard(p, s, N2)
<1>1. HeardBy(p, s, N) \subseteq HeardBy(p, s, N2)
  BY DEF HeardBy
<1>2. IsFiniteSet(HeardBy(p, s, N2))
  BY HeardByCounts
<1>3. /\ Cardinality(HeardBy(p, s, N)) \in Nat /\ Cardinality(HeardBy(p, s, N2)) \in Nat
      /\ Cardinality(HeardBy(p, s, N)) <= Cardinality(HeardBy(p, s, N2))
  BY <1>1, <1>2, CountsGrow
<1>4. s.sends <= Cardinality(HeardBy(p, s, N2)) + 1
  BY <1>3 DEF Heard
<1> QED
  BY <1>4 DEF Heard

LEMMA SessionFields ==
  ASSUME NEW s \in SessionRecords
  PROVE  /\ s.role \in {"initiator", "responder"} /\ s.version \in {3, 4}
         /\ s.sends \in Nat /\ s.Ns \in Nat /\ s.PN \in Nat /\ s.receives \in Nat /\ s.Nr \in Nat
         /\ s.got \subseteq Nat
BY DEF SessionRecords

\* What p does not send in s, and what others start, does not disturb s.
LEMMA GoodGrows ==
  ASSUME NEW p \in Party, NEW s, NEW st, NEW N, NEW pk, Good(p, s, st, N, pk),
         NEW st2, Grows(st, st2), NEW N2, N \subseteq N2, IsFiniteSet(N2),
         \A m \in N2 \ N : m.from # p \/ SecretIn(m) # s.secret
  PROVE  Good(p, s, st2, N2, pk)
<1>1. Shape(p, s, st2)
  BY ShapeGrows DEF Good
<1>2. s.sends \in Nat /\ s.Ns \in Nat
  BY <1>1, SessionFields DEF Shape
<1>3. Heard(p, s, N2)
  BY <1>2, HeardGrows DEF Good
<1>4. Ahead(p, s, N2)
  BY DEF Good, Ahead
<1>5. Announced(p, s, N2)
  BY DEF Good, Announced
<1>6. s.Ns <= Cardinality(N2)
  BY <1>2, CountsGrow DEF Good
<1> QED
  BY <1>1, <1>3, <1>4, <1>5, <1>6 DEF Good

LEMMA PartyGrows ==
  ASSUME NEW p \in Party, NEW r, NEW tr, NEW pk, NEW D, NEW st, NEW N,
         PartyOK(p, r, tr, pk, D, st, N),
         NEW st2, Grows(st, st2), NEW N2, N \subseteq N2, IsFiniteSet(N2),
         \A m \in N2 \ N : m.from # p
  PROVE  PartyOK(p, r, tr, pk, D, st2, N2)
<1>1. \A i \in 1 .. Len(r) : Good(p, r[i], st2, N2, pk)
  BY GoodGrows DEF PartyOK
<1> QED
  BY <1>1 DEF PartyOK

\* Pre-keys are removed, and the first identity key of the peer is stored.
LEMMA PartyStores ==
  ASSUME NEW p \in Party, NEW r, NEW tr, NEW pk, NEW D, NEW st, NEW N,
         PartyOK(p, r, tr, pk, D, st, N),
         NEW pk2, pk2 \subseteq pk, NEW tr2, tr2 = tr \/ tr = NoKey
  PROVE  PartyOK(p, r, tr2, pk2, D, st, N)
<1>1. \A a : Spent(p, a, pk) => Spent(p, a, pk2)
  BY DEF Spent
<1>2. \A i \in 1 .. Len(r) : Good(p, r[i], st, N, pk2)
  BY <1>1 DEF PartyOK, Good
<1>3. r # << >> => tr2 = IdentityKey(Peer(p))
  BY KeysDistinct DEF PartyOK
<1> QED
  BY <1>1, <1>2, <1>3 DEF PartyOK

LEMMA PartyDeletes ==
  ASSUME NEW p \in Party, NEW r, NEW tr, NEW pk, NEW D, NEW st, NEW N,
         PartyOK(p, r, tr, pk, D, st, N)
  PROVE  PartyOK(p, << >>, tr, pk, D, st, N)
<1>1. << >> \in Seq(SessionRecords) /\ Len(<< >>) = 0
  BY EmptySeq
<1>2. 0 <= MaxArchived + 1
  BY SessionAssumption
<1>3. 1 .. Len(<< >>) = {}
  BY <1>1
<1> QED
  BY <1>1, <1>2, <1>3 DEF PartyOK, SecretsDiffer

-----------------------------------------------------------------------------
(* What a session makes of a message. *)

\* s and m belong together.
Answers(s, m) ==
  /\ s.secret = SecretIn(m)
  /\ s.line = Line(m) \/ (s.role = "initiator" /\ s.line = NoKey)
     \/ (s.role # "initiator" /\ Line(m) = NoKey)

LEMMA MACIsSome ==
  ASSUME NEW key, NEW a, NEW b, NEW v, NEW body
  PROVE  /\ computeSignalMAC(key, a, b, v, body) # NoMAC
         /\ computeSignalMAC(key, a, b, v, body).key = key
         /\ computeSignalMAC(key, a, b, v, body).sender = a
         /\ computeSignalMAC(key, a, b, v, body).receiver = b
<1> DEFINE c == computeSignalMAC(key, a, b, v, body)
<1>1. c.key = key /\ c.sender = a /\ c.receiver = b
  BY DEF computeSignalMAC
<1>2. DOMAIN c # {} /\ DOMAIN NoMAC = {}
  BY DEF computeSignalMAC, NoMAC
<1> HIDE DEF c
<1>3. c # NoMAC
  BY <1>2
<1> QED
  BY <1>1, <1>3 DEF c

\* A MAC verifies only under the secret it was made with.
LEMMA VerifiedSecret ==
  ASSUME NEW message, NEW a, NEW b, NEW secret, NEW ratchetKey, NEW n,
         VerifyMAC(message, a, b, MessageKey(secret, ratchetKey, n))
  PROVE  message.mac # NoMAC /\ message.mac.key.secret = secret
<1> DEFINE key == MessageKey(secret, ratchetKey, n)
<1>1. key.secret = secret
  BY DEF MessageKey
<1> HIDE DEF key
<1>2. message.mac = computeSignalMAC(key, a, b, message.version, message.serialized)
  BY DEF VerifyMAC, key
<1> QED
  BY <1>1, <1>2, MACIsSome

LEMMA VerdictIs ==
  ASSUME NEW p \in Party, NEW s, NEW st, Shape(p, s, st),
         NEW m, NEW st2, MessageOK(m, st2), m.from = Peer(p)
  PROVE  /\ Verdict(s, m) # "invalid" => Answers(s, m)
         /\ Verdict(s, m) = "none" <=> Answers(s, m) /\ ~Repeated(s, m) /\ SkipsTo(s, m)
         /\ Answers(s, m) /\ m.initial # NoInitial => Verdict(s, m) # "invalid"
         /\ Verdict(s, m) \in {"invalid", "duplicate", "none"}
<1> DEFINE key == MessageKey(s.secret, m.message.ratchetKey, m.message.counter)
<1>1. VerifyMAC(m.message, s.remote, s.local, key) <=> s.secret = SecretIn(m)
  <2>1. ASSUME VerifyMAC(m.message, s.remote, s.local, key)
        PROVE  s.secret = SecretIn(m)
    BY <2>1, VerifiedSecret DEF SecretIn
  <2>2. ASSUME s.secret = SecretIn(m)
        PROVE  VerifyMAC(m.message, s.remote, s.local, key)
    <3>1. s.remote = IdentityKey(m.from) /\ s.local = IdentityKey(Peer(m.from))
      BY Peers DEF Shape
    <3> QED
      BY <2>2, <3>1 DEF VerifyMAC, MessageOK
  <2> QED
    BY <2>1, <2>2
<1>2. s.secret = SecretIn(m) => s.version = m.message.version
  BY DEF Shape, MessageOK
<1>3. Authenticates(s, m) <=> Answers(s, m)
  BY <1>1 DEF Authenticates, Answers
<1>4. (s.version # m.message.version \/ ~Authenticates(s, m)) <=> ~Answers(s, m)
  BY <1>2, <1>3 DEF Answers
<1>5. Verdict(s, m) = IF ~Answers(s, m) THEN "invalid" ELSE IF Repeated(s, m) THEN "duplicate"
                      ELSE IF ~SkipsTo(s, m) THEN "invalid" ELSE "none"
  BY <1>4 DEF Verdict, Repeated
<1>6. m.initial # NoInitial => SkipsTo(s, m)
  <2>1. m.initial # NoInitial => m.message.counter = 0 /\ m.message.previousCounter = 0
    BY DEF MessageOK, Announces
  <2>2. s.Nr \in Nat
    BY SessionFields DEF Shape
  <2>3. \A stored : CanSkip(stored, s.Nr, 0) /\ CanSkip(0, 0, 0)
    BY <2>2 DEF CanSkip
  <2> QED
    BY <2>1, <2>3 DEF SkipsTo
<1> QED
  BY <1>5, <1>6

\* A damaged copy of a message, if only in its X3DH part, is judged like it;
\* one without its MAC is refused.
LEMMA VerdictOfCopy ==
  ASSUME NEW s, NEW m, NEW d
  PROVE  /\ d.message = m.message => Verdict(s, d) = Verdict(s, m) /\ Opened(s, d) = Opened(s, m)
         /\ d.message.mac = NoMAC => Verdict(s, d) = "invalid"
<1>1. ASSUME d.message = m.message
      PROVE  Verdict(s, d) = Verdict(s, m) /\ Opened(s, d) = Opened(s, m)
  BY <1>1 DEF Verdict, Opened, Authenticates, SkipsTo, Line, Chain
<1>2. ASSUME d.message.mac = NoMAC
      PROVE  Verdict(s, d) = "invalid"
  <2>1. ~Authenticates(s, d)
    BY <1>2, VerifiedSecret DEF Authenticates
  <2> QED
    BY <2>1 DEF Verdict
<1> QED
  BY <1>1, <1>2

-----------------------------------------------------------------------------
(* What becomes of a session. *)

LEMMA AdvancedIs ==
  ASSUME NEW s \in SessionRecords
  PROVE  LET t == Advanced(s) IN
         /\ t \in SessionRecords
         /\ t.role = s.role /\ t.version = s.version /\ t.local = s.local /\ t.remote = s.remote
         /\ t.secret = s.secret /\ t.line = s.line /\ t.sends = s.sends
         /\ t.Ns = s.Ns + 1 /\ t.PN = s.PN /\ t.receives = s.receives /\ t.Nr = s.Nr /\ t.got = s.got
BY DEF SessionRecords, Advanced

\* Opened, field by field.
OpenedAs(t, s, m) ==
  /\ t.role = s.role /\ t.version = s.version /\ t.local = s.local /\ t.remote = s.remote
  /\ t.secret = s.secret
  /\ t.line = (IF s.role = "initiator" THEN Line(m) ELSE s.line)
  /\ t.receives = Chain(m)
  /\ t.got = (IF Chain(m) = s.receives THEN s.got \cup {m.message.counter} ELSE {m.message.counter})
  /\ t.Nr = (IF Chain(m) = s.receives /\ m.message.counter < s.Nr THEN s.Nr ELSE m.message.counter + 1)
  /\ t.sends = (IF Chain(m) = s.receives THEN s.sends ELSE s.sends + 1)
  /\ t.Ns = (IF Chain(m) = s.receives THEN s.Ns ELSE 0)

LEMMA OpenedIs ==
  ASSUME NEW s \in SessionRecords, NEW m,
         Chain(m) \in Nat, m.message.counter \in Nat,
         s.role = "initiator" => \E q \in Party, n \in Nat : Line(m) = EphemeralKey(q, n)
  PROVE  Opened(s, m) \in SessionRecords /\ OpenedAs(Opened(s, m), s, m)
<1> DEFINE same == Chain(m) = s.receives
           line == IF s.role = "initiator" THEN Line(m) ELSE s.line
           got == IF same THEN s.got \cup {m.message.counter} ELSE {m.message.counter}
           nr == IF same /\ m.message.counter < s.Nr THEN s.Nr ELSE m.message.counter + 1
           sends == IF same THEN s.sends ELSE s.sends + 1
           pn == IF same THEN s.PN ELSE s.Ns
           ns == IF same THEN s.Ns ELSE 0
           receives == Chain(m)
           t == [s EXCEPT !.line = line, !.receives = receives, !.got = got, !.Nr = nr, !.sends = sends,
                          !.PN = pn, !.Ns = ns]
<1>1. Opened(s, m) = t
  BY DEF Opened
<1>2. receives \in Nat /\ got \in SUBSET Nat /\ nr \in Nat /\ sends \in Nat /\ pn \in Nat /\ ns \in Nat
  BY SessionFields
<1>3. line \in {NoKey} \cup {EphemeralKey(p, n) : p \in Party, n \in Nat}
  BY DEF SessionRecords
<1> HIDE DEF line, got, nr, sends, pn, ns, receives
<1>4. t \in SessionRecords
  <2> DEFINE I == {IdentityKey(p) : p \in Party}
             S == {SecretOf(o, n, k, y) : o \in Party, n \in Nat, k \in OneTimeIDs, y \in KyberPreKey}
             L == {NoKey} \cup {EphemeralKey(p, n) : p \in Party, n \in Nat}
             G == SUBSET Nat
  <2>1. line \in L /\ got \in G
    BY <1>2, <1>3
  <2>2. SessionRecords
        = [role : {"initiator", "responder"}, version : {3, 4}, local : I, remote : I, secret : S,
           line : L, sends : Nat, Ns : Nat, PN : Nat, receives : Nat, Nr : Nat, got : G]
    BY DEF SessionRecords
  <2> HIDE DEF I, S, L, G
  <2> QED
    BY <1>2, <2>1, <2>2
<1>5. /\ t.role = s.role /\ t.version = s.version /\ t.local = s.local /\ t.remote = s.remote
      /\ t.secret = s.secret /\ t.line = line /\ t.receives = receives /\ t.got = got
      /\ t.Nr = nr /\ t.sends = sends /\ t.Ns = ns
  BY DEF SessionRecords
<1> HIDE DEF t
<1>6. OpenedAs(t, s, m)
  BY <1>5 DEF OpenedAs, line, got, nr, sends, ns, receives
<1> QED
  BY <1>1, <1>4, <1>6

LEMMA OpenedAnswers ==
  ASSUME NEW p \in Party, NEW s, NEW st, Shape(p, s, st), NEW m, MessageOK(m, st),
         m.from = Peer(p), Answers(s, m)
  PROVE  s.role = "initiator" => HasLine(Peer(p), st, Line(m))
<1> SUFFICES ASSUME s.role = "initiator" PROVE HasLine(Peer(p), st, Line(m))
  OBVIOUS
<1>1. PICK o \in Party : StartedBy(o, m, st)
  BY DEF MessageOK
<1>2. o = p
  BY <1>1, AgreedOnce DEF Shape, StartedBy, Answers
<1> QED
  BY <1>1, <1>2, Peers DEF StartedBy

LEMMA OpenedShape ==
  ASSUME NEW p \in Party, NEW s, NEW st, st \in [Party -> Nat], Shape(p, s, st), NEW m, MessageOK(m, st),
         m.from = Peer(p), Answers(s, m)
  PROVE  Shape(p, Opened(s, m), st) /\ OpenedAs(Opened(s, m), s, m)
<1> DEFINE t == Opened(s, m)
<1>1. s.role = "initiator" => HasLine(Peer(p), st, Line(m))
  BY OpenedAnswers
<1>2. Chain(m) \in Nat \ {0} /\ m.message.counter \in Nat /\ s \in SessionRecords
  BY DEF MessageOK, Shape
<1>3. s.role = "initiator" => \E q \in Party, n \in Nat : Line(m) = EphemeralKey(q, n)
  <2>1. Peer(p) \in Party /\ st[Peer(p)] \in Nat
    BY Peers
  <2> QED
    BY <1>1, <2>1 DEF HasLine
<1>4. t \in SessionRecords /\ OpenedAs(t, s, m)
  BY <1>2, <1>3, OpenedIs
<1> HIDE DEF t
<1>5. s.sends \in Nat /\ s.sends # 0
  BY SessionFields DEF Shape
<1>6. t.sends # 0 /\ t.got # {} /\ t.receives # 0
  <2>1. t.receives # 0
    BY <1>2, <1>4 DEF OpenedAs
  <2>2. m.message.counter \in t.got
    BY <1>4 DEF OpenedAs
  <2>3. t.sends = s.sends \/ t.sends = s.sends + 1
    BY <1>4 DEF OpenedAs
  <2>4. t.sends # 0
    BY <1>5, <2>3
  <2> QED
    BY <2>1, <2>2, <2>4
<1>7. t.got \subseteq 0 .. t.Nr - 1
  <2>1. s.Nr \in Nat /\ s.got \subseteq 0 .. s.Nr - 1
    BY SessionFields DEF Shape
  <2>2. CASE Chain(m) = s.receives /\ m.message.counter < s.Nr
    <3>1. t.Nr = s.Nr /\ t.got = s.got \cup {m.message.counter}
      BY <1>4, <2>2 DEF OpenedAs
    <3> QED
      BY <1>2, <2>1, <2>2, <3>1
  <2>3. CASE ~(Chain(m) = s.receives /\ m.message.counter < s.Nr)
    <3>1. t.Nr = m.message.counter + 1
      BY <1>4, <2>3 DEF OpenedAs
    <3>2. \A n \in t.got : n = m.message.counter \/ (n \in s.got /\ Chain(m) = s.receives)
      BY <1>4 DEF OpenedAs
    <3> QED
      BY <1>2, <2>1, <2>3, <3>1, <3>2
  <2> QED
    BY <2>2, <2>3
<1>8. Shape(p, t, st)
  BY <1>1, <1>4, <1>6, <1>7 DEF Shape, OpenedAs
<1> QED
  BY <1>4, <1>8 DEF t

LEMMA OpenedAhead ==
  ASSUME NEW p \in Party, NEW s, s \in SessionRecords, NEW N, Ahead(p, s, N),
         NEW m, NEW t, OpenedAs(t, s, m), \A x \in N : Chain(x) \in Nat
  PROVE  Ahead(p, t, N)
<1>1. s.sends \in Nat
  BY SessionFields
<1> SUFFICES ASSUME NEW x \in N, x.from = p, SecretIn(x) = t.secret, t.role = "initiator" \/ Line(x) = t.line
             PROVE  Chain(x) < t.sends \/ (Chain(x) = t.sends /\ x.message.counter < t.Ns)
  BY DEF Ahead
<1>2. SecretIn(x) = s.secret /\ (s.role = "initiator" \/ Line(x) = s.line)
  BY DEF OpenedAs
<1>3. Chain(x) < s.sends \/ (Chain(x) = s.sends /\ x.message.counter < s.Ns)
  BY <1>2 DEF Ahead
<1> QED
  BY <1>1, <1>3 DEF OpenedAs

LEMMA OpenedHeard ==
  ASSUME NEW p \in Party, NEW s, NEW st, Shape(p, s, st), NEW N, IsFiniteSet(N), Heard(p, s, N),
         NEW m \in N, m.from = Peer(p), Answers(s, m), ~Repeated(s, m),
         \A x \in N : MessageOK(x, st), NEW t, OpenedAs(t, s, m)
  PROVE  Heard(p, t, N)
<1>1. /\ s.sends \in Nat /\ s.receives \in Nat /\ Chain(m) \in Nat \ {0} /\ m.message.counter \in Nat
      /\ \A x \in N : Chain(x) \in Nat
  BY SessionFields DEF Shape, MessageOK
<1>2. SecretIn(m) = s.secret /\ t.secret = s.secret /\ t.receives = Chain(m) /\ t.role = s.role
  BY DEF Answers, OpenedAs
<1>3. Chain(m) >= s.receives
  BY <1>1 DEF Repeated
<1>4. ASSUME NEW n \in t.got
      PROVE  \E x \in N : /\ x.from = Peer(p) /\ SecretIn(x) = t.secret
                          /\ Chain(x) = t.receives /\ x.message.counter = n
                          /\ t.role = "initiator" => Line(x) = t.line
  <2>1. CASE n = m.message.counter
    BY <1>2, <2>1 DEF OpenedAs
  <2>2. CASE n # m.message.counter
    <3>1. n \in s.got /\ Chain(m) = s.receives
      BY <2>2 DEF OpenedAs
    <3>2. PICK x \in N : /\ x.from = Peer(p) /\ SecretIn(x) = s.secret
                         /\ Chain(x) = s.receives /\ x.message.counter = n
                         /\ s.role = "initiator" => Line(x) = s.line
      BY <3>1 DEF Heard
    <3>3. s.role = "initiator" => s.line = Line(m)
      <4>1. s.receives # 0
        BY <1>1, <3>1
      <4> QED
        BY <4>1, NoLineIsNoKey DEF Answers, Shape
    <3> QED
      BY <1>2, <3>1, <3>2, <3>3 DEF OpenedAs
  <2> QED
    BY <2>1, <2>2
<1>5. t.sends <= Cardinality(HeardBy(p, t, N)) + 1
  <2> DEFINE H == HeardBy(p, s, N)
             H2 == HeardBy(p, t, N)
  <2>1. H \subseteq H2
    BY <1>1, <1>2, <1>3 DEF HeardBy
  <2>2. IsFiniteSet(H) /\ IsFiniteSet(H2) /\ Cardinality(H) \in Nat /\ Cardinality(H2) \in Nat
    BY HeardByCounts
  <2>3. s.sends <= Cardinality(H) + 1
    BY DEF Heard
  <2>4. CASE Chain(m) = s.receives
    <3>1. t.sends = s.sends
      BY <2>4 DEF OpenedAs
    <3>2. Cardinality(H) <= Cardinality(H2)
      BY <2>1, <2>2, CountsGrow
    <3> HIDE DEF H, H2
    <3>3. t.sends <= Cardinality(H2) + 1
      BY <1>1, <2>2, <2>3, <3>1, <3>2
    <3> QED
      BY <3>3 DEF H2
  <2>5. CASE Chain(m) # s.receives
    <3>1. t.sends = s.sends + 1
      BY <2>5 DEF OpenedAs
    <3>2. m \notin H
      BY <1>1, <1>3, <2>5 DEF HeardBy
    <3>3. m \in H2
      BY <1>1, <1>2 DEF HeardBy
    <3> HIDE DEF H, H2
    <3>4. Cardinality(H \cup {m}) = Cardinality(H) + 1
      BY <2>2, <3>2, FS_AddElement
    <3>5. Cardinality(H \cup {m}) <= Cardinality(H2)
      <4>1. H \cup {m} \subseteq H2
        BY <2>1, <3>3
      <4> QED
        BY <2>2, <4>1, CountsGrow
    <3>6. t.sends <= Cardinality(H2) + 1
      BY <1>1, <2>2, <2>3, <3>1, <3>4, <3>5
    <3> QED
      BY <3>6 DEF H2
  <2> QED
    BY <2>4, <2>5
<1> QED
  BY <1>4, <1>5 DEF Heard

\* The session that decrypts m stays in step with the peer.
LEMMA OpenedGood ==
  ASSUME NEW p \in Party, NEW s, NEW st, st \in [Party -> Nat], NEW N, IsFiniteSet(N), NEW pk,
         Good(p, s, st, N, pk),
         NEW m \in N, m.from = Peer(p), Answers(s, m), ~Repeated(s, m), \A x \in N : MessageOK(x, st)
  PROVE  Good(p, Opened(s, m), st, N, pk) /\ OpenedAs(Opened(s, m), s, m)
<1> DEFINE t == Opened(s, m)
<1>1. Shape(p, t, st) /\ OpenedAs(t, s, m)
  BY OpenedShape DEF Good
<1> HIDE DEF t
<1>2. \A x \in N : Chain(x) \in Nat
  BY DEF MessageOK
<1>3. Ahead(p, t, N)
  BY <1>1, <1>2, OpenedAhead DEF Good, Shape
<1>4. Heard(p, t, N)
  BY <1>1, OpenedHeard DEF Good
<1>5. Announced(p, t, N) /\ Spent(p, t.secret, pk)
  BY <1>1 DEF Good, Announced, OpenedAs
<1>6. t.Ns <= Cardinality(N)
  <2>1. Cardinality(N) \in Nat
    BY FS_CardinalityType
  <2> QED
    BY <1>1, <2>1 DEF Good, OpenedAs
<1> QED
  BY <1>1, <1>3, <1>4, <1>5, <1>6 DEF Good, t

-----------------------------------------------------------------------------
(* The record. *)

LEMMA SessionReadBack ==
  ASSUME NEW s \in SessionRecords
  PROVE  deserializeSession(serializeSession(s)) = s
<1> DEFINE state == <<s.role, s.secret, s.line, s.sends, s.Ns, s.PN, s.receives, s.Nr, s.got>>
           data == <<s.version, s.local, s.remote, state>>
<1>1. /\ state[1] = s.role /\ state[2] = s.secret /\ state[3] = s.line /\ state[4] = s.sends
      /\ state[5] = s.Ns /\ state[6] = s.PN /\ state[7] = s.receives /\ state[8] = s.Nr
      /\ state[9] = s.got
  OBVIOUS
<1> HIDE DEF state
<1>2. data[1] = s.version /\ data[2] = s.local /\ data[3] = s.remote /\ data[4] = state
  OBVIOUS
<1>3. serializeSession(s) = data
  BY DEF serializeSession, state
<1> HIDE DEF data
<1>4. deserializeSession(data)
      = [version |-> s.version, local |-> s.local, remote |-> s.remote, role |-> s.role,
         secret |-> s.secret, line |-> s.line, sends |-> s.sends, Ns |-> s.Ns,
         PN |-> s.PN, receives |-> s.receives, Nr |-> s.Nr, got |-> s.got]
  BY <1>1, <1>2 DEF deserializeSession
<1>5. s = [version |-> s.version, local |-> s.local, remote |-> s.remote, role |-> s.role,
           secret |-> s.secret, line |-> s.line, sends |-> s.sends, Ns |-> s.Ns,
           PN |-> s.PN, receives |-> s.receives, Nr |-> s.Nr, got |-> s.got]
  BY DEF SessionRecords
<1> QED
  BY <1>3, <1>4, <1>5

LEMMA PrefixIs ==
  ASSUME NEW S, NEW seq \in Seq(S), NEW n \in Nat
  PROVE  LET q == Prefix(seq, n) IN
         /\ q \in Seq(S)
         /\ Len(q) = IF Len(seq) < n THEN Len(seq) ELSE n
         /\ \A a \in 1 .. Len(q) : q[a] = seq[a]
<1> DEFINE k == IF Len(seq) < n THEN Len(seq) ELSE n
           q == SubSeq(seq, 1, k)
<1>1. Len(seq) \in Nat
  BY LenProperties
<1>2. k \in Nat /\ k <= Len(seq)
  BY <1>1
<1>3. Prefix(seq, n) = q
  BY DEF Prefix
<1> HIDE DEF k
<1>4. \A a \in 1 .. k : seq[a] \in S
  BY <1>1, <1>2, ElementOfSeq
<1>5. /\ q \in Seq(S)
      /\ Len(q) = IF 1 <= k THEN k - 1 + 1 ELSE 0
      /\ \A a \in 1 .. k - 1 + 1 : q[a] = seq[1 + a - 1]
  BY <1>2, <1>4, SubSeqProperties
<1> HIDE DEF q
<1>6. Len(q) = k
  BY <1>2, <1>5
<1>7. \A a \in 1 .. Len(q) : q[a] = seq[a]
  BY <1>2, <1>5, <1>6
<1> QED
  BY <1>3, <1>5, <1>6, <1>7 DEF k

LEMMA SingletonSeq ==
  ASSUME NEW S, NEW x \in S
  PROVE  <<x>> \in Seq(S) /\ Len(<<x>>) = 1 /\ <<x>>[1] = x
OBVIOUS

\* What is stored is what the next call loads.
LEMMA PersistedIs ==
  ASSUME NEW r \in Seq(SessionRecords), Len(r) # 0, Len(r) <= MaxArchived + 1
  PROVE  Persisted(r) = r
<1> DEFINE S == SessionRecords
           t == SubSeq(r, 2, Len(r))
           c == [i \in 1 .. Len(t) |-> serializeSession(t[i])]
           b == [i \in 1 .. Len(t) |-> deserializeSession(c[i])]
<1>1. Len(r) \in Nat /\ MaxArchived \in Nat /\ \A i \in 1 .. Len(r) : r[i] \in S
  BY LenProperties, ElementOfSeq, SessionAssumption
<1>2. t \in Seq(S) /\ Len(t) = Len(r) - 1 /\ \A i \in 1 .. Len(r) - 1 : t[i] = r[i + 1]
  <2>1. \A i \in 2 .. Len(r) : r[i] \in S
    BY <1>1
  <2>2. /\ t \in Seq(S)
        /\ Len(t) = IF 2 <= Len(r) THEN Len(r) - 2 + 1 ELSE 0
        /\ \A i \in 1 .. Len(r) - 2 + 1 : t[i] = r[2 + i - 1]
    BY <1>1, <2>1, SubSeqProperties
  <2> HIDE DEF t, S
  <2>3. Len(t) = Len(r) - 1
    <3> DEFINE n == Len(r)
               k == Len(t)
    <3>1. n \in Nat /\ n # 0 /\ k = IF 2 <= n THEN n - 2 + 1 ELSE 0
      BY <1>1, <2>2
    <3> HIDE DEF n, k
    <3>2. k = n - 1
      BY <3>1
    <3> QED
      BY <3>2 DEF n, k
  <2>4. \A i \in 1 .. Len(r) - 1 : t[i] = r[i + 1]
    <3> DEFINE n == Len(r)
    <3>1. \A i \in 1 .. n - 1 : i \in 1 .. n - 2 + 1 /\ 2 + i - 1 = i + 1
      BY <1>1
    <3> QED
      BY <2>2, <3>1
  <2> QED
    BY <2>2, <2>3, <2>4
<1> HIDE DEF t
<1>3. Len(t) \in Nat /\ \A i \in 1 .. Len(t) : t[i] \in S
  BY <1>2, LenProperties, ElementOfSeq
<1>4. Prefix(t, MaxArchived) = t
  <2>1. (IF Len(t) < MaxArchived THEN Len(t) ELSE MaxArchived) = Len(t)
    BY <1>1, <1>2, <1>3
  <2>2. Prefix(t, MaxArchived) = SubSeq(t, 1, Len(t))
    BY <2>1 DEF Prefix
  <2> QED
    BY <1>2, <2>2, SubSeqFull
<1>5. Serialize(r) = <<serializeSession(r[1]), c>>
  BY <1>4 DEF Serialize, Current, t
<1>6. Len(c) = Len(t)
  BY <1>3
<1>7. b = t
  <2>1. \A i \in 1 .. Len(t) : deserializeSession(c[i]) = t[i]
    BY <1>3, SessionReadBack
  <2>2. DOMAIN t = 1 .. Len(t) /\ t = [i \in 1 .. Len(t) |-> t[i]]
    BY <1>2, LenProperties
  <2> HIDE DEF c
  <2> QED
    BY <2>1, <2>2
<1> HIDE DEF c, b
<1>8. Persisted(r) = <<r[1]>> \o t
  <2>1. deserializeSession(serializeSession(r[1])) = r[1]
    <3>1. 1 \in 1 .. Len(r)
      BY <1>1
    <3> QED
      BY <1>1, <3>1, SessionReadBack
  <2> DEFINE e == serializeSession(r[1])
  <2>2. <<e, c>>[1] = e /\ <<e, c>>[2] = c
    OBVIOUS
  <2>3. Persisted(r) = <<deserializeSession(e)>> \o [i \in 1 .. Len(c) |-> deserializeSession(c[i])]
    BY <1>5, <2>2 DEF Persisted, DeserializeRecord
  <2> HIDE DEF e
  <2> QED
    BY <1>6, <1>7, <2>1, <2>3 DEF b, e
<1>9. <<r[1]>> \o t = r
  <2> DEFINE u == <<r[1]>>
             w == u \o t
  <2>1. u \in Seq(S) /\ Len(u) = 1 /\ u[1] = r[1]
    <3>1. r[1] \in S
      BY <1>1
    <3> QED
      BY <3>1, SingletonSeq
  <2> HIDE DEF u, S
  <2>6. u \in Seq(S) /\ t \in Seq(S)
    BY <1>2, <2>1
  <2>2. /\ w \in Seq(S) /\ Len(w) = Len(u) + Len(t)
        /\ \A i \in 1 .. Len(u) + Len(t) : w[i] = IF i <= Len(u) THEN u[i] ELSE t[i - Len(u)]
    BY <2>6, ConcatProperties
  <2> HIDE DEF w
  <2>3. Len(w) = Len(r)
    BY <1>1, <1>2, <2>1, <2>2
  <2>4. ASSUME NEW i \in 1 .. Len(w) PROVE w[i] = r[i]
    <3>1. w[i] = IF i <= 1 THEN u[i] ELSE t[i - 1]
      BY <2>1, <2>2
    <3>2. CASE i = 1
      BY <2>1, <3>1, <3>2
    <3>3. CASE i # 1
      <4>1. i - 1 \in 1 .. Len(r) - 1 /\ (i - 1) + 1 = i /\ ~(i <= 1)
        BY <1>1, <2>3, <3>3
      <4>2. t[i - 1] = r[(i - 1) + 1]
        BY <1>2, <4>1
      <4> QED
        BY <3>1, <4>1, <4>2
    <3> QED
      BY <3>2, <3>3
  <2>5. w = r
    BY <2>2, <2>3, <2>4, SeqEqual DEF S
  <2> QED
    BY <2>5 DEF w, u
<1> QED
  BY <1>8, <1>9

\* Promote puts the session in front and drops at most the last one.
PromotedAs(q, r, x) ==
  /\ q \in Seq(SessionRecords)
  /\ Len(q) = IF Len(r) < MaxArchived + 1 THEN Len(r) + 1 ELSE MaxArchived + 1
  /\ q[1] = x
  /\ \A a \in 2 .. Len(q) : q[a] = r[a - 1]

LEMMA PromoteIs ==
  ASSUME NEW r \in Seq(SessionRecords), NEW x \in SessionRecords, Len(r) <= MaxArchived + 1
  PROVE  PromotedAs(Promote(r, x), r, x)
<1> DEFINE S == SessionRecords
           u == <<x>>
           w == u \o r
           n == MaxArchived + 1
           q == Prefix(w, n)
<1>1. MaxArchived \in Nat /\ Len(r) \in Nat
  BY SessionAssumption, LenProperties
<1>2. u \in Seq(S) /\ Len(u) = 1 /\ u[1] = x
  BY SingletonSeq
<1>3. Promote(r, x) = q
  BY DEF Promote
<1> HIDE DEF u
<1>4. /\ w \in Seq(S) /\ Len(w) = Len(u) + Len(r)
      /\ \A i \in 1 .. Len(u) + Len(r) : w[i] = IF i <= Len(u) THEN u[i] ELSE r[i - Len(u)]
  BY <1>2, ConcatProperties
<1> HIDE DEF w
<1>5. n \in Nat
  BY <1>1
<1>6. /\ q \in Seq(S) /\ Len(q) = IF Len(w) < n THEN Len(w) ELSE n
      /\ \A a \in 1 .. Len(q) : q[a] = w[a]
  BY <1>4, <1>5, PrefixIs
<1> HIDE DEF q, S
<1>7. Len(q) = IF Len(r) < MaxArchived + 1 THEN Len(r) + 1 ELSE MaxArchived + 1
  BY <1>1, <1>2, <1>4, <1>6
<1>8. Len(q) \in Nat /\ Len(q) >= 1 /\ Len(q) <= Len(r) + 1
  BY <1>1, <1>7
<1>9. q[1] = x
  BY <1>1, <1>2, <1>4, <1>6, <1>8
<1>10. ASSUME NEW a \in 2 .. Len(q) PROVE q[a] = r[a - 1]
  <2>1. a \in 1 .. Len(q) /\ a \in 1 .. 1 + Len(r) /\ ~(a <= 1)
    BY <1>1, <1>8
  <2> QED
    BY <1>2, <1>4, <1>6, <2>1
<1> QED
  BY <1>3, <1>6, <1>7, <1>9, <1>10 DEF PromotedAs, S

LEMMA WithoutIs ==
  ASSUME NEW r \in Seq(SessionRecords), NEW i \in 1 .. Len(r)
  PROVE  LET q == Without(r, i) IN
         /\ q \in Seq(SessionRecords) /\ Len(q) = Len(r) - 1
         /\ \A a \in 1 .. Len(r) - 1 : q[a] = IF a < i THEN r[a] ELSE r[a + 1]
<1> DEFINE S == SessionRecords
           n == Len(r)
           u == SubSeq(r, 1, i - 1)
           v == SubSeq(r, i + 1, n)
           q == u \o v
<1>1. n \in Nat /\ i \in 1 .. n /\ \A a \in 1 .. n : r[a] \in S
  BY LenProperties, ElementOfSeq
<1>2. Without(r, i) = q
  BY DEF Without
<1>3. /\ u \in Seq(S) /\ Len(u) = IF 1 <= i - 1 THEN (i - 1) - 1 + 1 ELSE 0
      /\ \A a \in 1 .. (i - 1) - 1 + 1 : u[a] = r[1 + a - 1]
  <2>1. 1 \in Int /\ i - 1 \in Int /\ \A a \in 1 .. i - 1 : r[a] \in S
    BY <1>1
  <2> QED
    BY <2>1, SubSeqProperties
<1>4. /\ v \in Seq(S) /\ Len(v) = IF i + 1 <= n THEN n - (i + 1) + 1 ELSE 0
      /\ \A a \in 1 .. n - (i + 1) + 1 : v[a] = r[(i + 1) + a - 1]
  <2>1. i + 1 \in Int /\ n \in Int /\ \A a \in i + 1 .. n : r[a] \in S
    BY <1>1
  <2> QED
    BY <2>1, SubSeqProperties
<1> HIDE DEF u, v
<1>5. /\ q \in Seq(S) /\ Len(q) = Len(u) + Len(v)
      /\ \A a \in 1 .. Len(u) + Len(v) : q[a] = IF a <= Len(u) THEN u[a] ELSE v[a - Len(u)]
  BY <1>3, <1>4, ConcatProperties
<1> HIDE DEF q, S, n
<1>6. Len(u) = i - 1 /\ Len(v) = n - i
  BY <1>1, <1>3, <1>4
<1>7. Len(q) = n - 1
  BY <1>1, <1>5, <1>6
<1>8. ASSUME NEW a \in 1 .. n - 1 PROVE q[a] = IF a < i THEN r[a] ELSE r[a + 1]
  <2>1. q[a] = IF a <= i - 1 THEN u[a] ELSE v[a - (i - 1)]
    <3>1. a \in 1 .. Len(u) + Len(v)
      BY <1>1, <1>6
    <3> QED
      BY <1>5, <1>6, <3>1
  <2>2. CASE a < i
    <3>1. a <= i - 1 /\ a \in 1 .. (i - 1) - 1 + 1 /\ 1 + a - 1 = a
      BY <1>1, <2>2
    <3>2. u[a] = r[1 + a - 1]
      BY <1>3, <3>1
    <3> QED
      BY <2>1, <2>2, <3>1, <3>2
  <2>3. CASE ~(a < i)
    <3>1. ~(a <= i - 1) /\ a - (i - 1) \in 1 .. n - (i + 1) + 1 /\ (i + 1) + (a - (i - 1)) - 1 = a + 1
      BY <1>1, <2>3
    <3>2. v[a - (i - 1)] = r[(i + 1) + (a - (i - 1)) - 1]
      BY <1>4, <3>1
    <3> QED
      BY <2>1, <2>3, <3>1, <3>2
  <2> QED
    BY <2>2, <2>3
<1> QED
  BY <1>2, <1>5, <1>7, <1>8 DEF n, S

\* An opened session comes to the front; nothing is lost.
OpenedRecordAs(q, r, i, x) ==
  /\ q \in Seq(SessionRecords) /\ Len(q) = Len(r)
  /\ q[1] = x
  /\ \A a \in 2 .. Len(r) : q[a] = IF a <= i THEN r[a - 1] ELSE r[a]

LEMMA OpenedRecordIs ==
  ASSUME NEW r \in Seq(SessionRecords), Len(r) <= MaxArchived + 1, NEW i \in 1 .. Len(r), NEW m,
         Opened(r[i], m) \in SessionRecords
  PROVE  OpenedRecordAs(OpenedRecord(r, i, m), r, i, Opened(r[i], m))
<1> DEFINE x == Opened(r[i], m)
<1>1. Len(r) \in Nat /\ MaxArchived \in Nat
  BY LenProperties, SessionAssumption
<1>2. CASE i = 1
  <2> DEFINE q == [r EXCEPT ![1] = x]
  <2>1. OpenedRecord(r, i, m) = q
    BY <1>2 DEF OpenedRecord
  <2>2. 1 \in 1 .. Len(r)
    BY <1>2
  <2> HIDE DEF x
  <2>3. /\ q \in Seq(SessionRecords) /\ Len(q) = Len(r)
        /\ \A j \in 1 .. Len(r) : q[j] = IF j = 1 THEN x ELSE r[j]
    BY <2>2, ExceptSeq DEF x
  <2> HIDE DEF q
  <2>4. \A a \in 2 .. Len(r) : a \in 1 .. Len(r) /\ a # 1 /\ ~(a <= i)
    BY <1>1, <1>2
  <2>5. q[1] = x
    BY <2>2, <2>3
  <2>6. \A a \in 2 .. Len(r) : q[a] = IF a <= i THEN r[a - 1] ELSE r[a]
    BY <2>3, <2>4
  <2> QED
    BY <2>1, <2>3, <2>5, <2>6 DEF OpenedRecordAs, x
<1>3. CASE i # 1
  <2> DEFINE w == Without(r, i)
             q == Promote(w, x)
  <2>1. OpenedRecord(r, i, m) = q
    BY <1>3 DEF OpenedRecord
  <2>2. /\ w \in Seq(SessionRecords) /\ Len(w) = Len(r) - 1
        /\ \A a \in 1 .. Len(r) - 1 : w[a] = IF a < i THEN r[a] ELSE r[a + 1]
    BY WithoutIs
  <2> HIDE DEF w, x
  <2>3. Len(w) <= MaxArchived + 1 /\ Len(w) < MaxArchived + 1
    BY <1>1, <2>2
  <2>4. PromotedAs(q, w, x)
    BY <2>2, <2>3, PromoteIs DEF x
  <2> HIDE DEF q
  <2>5. Len(q) = Len(r)
    BY <1>1, <2>2, <2>3, <2>4 DEF PromotedAs
  <2>6. ASSUME NEW a \in 2 .. Len(r) PROVE q[a] = IF a <= i THEN r[a - 1] ELSE r[a]
    <3>1. a - 1 \in 1 .. Len(r) - 1 /\ (a - 1) + 1 = a /\ (a - 1 < i <=> a <= i)
      BY <1>1
    <3>2. q[a] = w[a - 1]
      BY <2>4, <2>5 DEF PromotedAs
    <3>3. w[a - 1] = IF a - 1 < i THEN r[a - 1] ELSE r[(a - 1) + 1]
      BY <2>2, <3>1
    <3> QED
      BY <3>1, <3>2, <3>3
  <2> QED
    BY <2>1, <2>4, <2>5, <2>6 DEF OpenedRecordAs, PromotedAs, x
<1> QED
  BY <1>2, <1>3

-----------------------------------------------------------------------------
(* A party decrypts. *)

OpenedWell(q, r, i, x, m, D) ==
  /\ OpenedRecordAs(q, r, i, x)
  /\ x.secret = r[i].secret /\ x.role = r[i].role
  /\ ~WithoutOneTime => m \notin D

LEMMA PartyOpens ==
  ASSUME NEW p \in Party, NEW r, NEW tr, NEW pk, NEW D, NEW st, NEW N,
         PartyOK(p, r, tr, pk, D, st, N), Network(N, st), st \in [Party -> Nat],
         NEW i \in 1 .. Len(r), NEW m \in N, m.from = Peer(p), Verdict(r[i], m) = "none",
         NEW D2, D2 = D \/ D2 = D \cup {m}
  PROVE  /\ PartyOK(p, OpenedRecord(r, i, m), tr, pk, D2, st, N)
         /\ OpenedWell(OpenedRecord(r, i, m), r, i, Opened(r[i], m), m, D)
<1> DEFINE x == Opened(r[i], m)
           q == OpenedRecord(r, i, m)
           src(a) == IF a = 1 THEN i ELSE IF a <= i THEN a - 1 ELSE a
<1>1. /\ r \in Seq(SessionRecords) /\ Len(r) <= MaxArchived + 1 /\ Len(r) \in Nat
      /\ Good(p, r[i], st, N, pk)
  BY LenProperties DEF PartyOK
<1>2. IsFiniteSet(N) /\ \A y \in N : MessageOK(y, st)
  BY DEF Network
<1>3. Answers(r[i], m) /\ ~Repeated(r[i], m)
  BY <1>1, <1>2, VerdictIs DEF Good
<1>4. Good(p, x, st, N, pk) /\ OpenedAs(x, r[i], m)
  BY <1>1, <1>2, <1>3, OpenedGood
<1>5. x \in SessionRecords
  BY <1>4 DEF Good, Shape
<1>6. OpenedRecordAs(q, r, i, x)
  BY <1>1, <1>5, OpenedRecordIs
<1> HIDE DEF x, q
<1>7. x.secret = r[i].secret /\ x.role = r[i].role /\ r[i].secret = SecretIn(m)
  BY <1>3, <1>4 DEF OpenedAs, Answers
<1>8. \A a \in 1 .. Len(r) : src(a) \in 1 .. Len(r) /\ (a # 1 => src(a) # i)
  BY <1>1
<1>9. \A a, b \in 1 .. Len(r) : src(a) = src(b) => a = b
  BY <1>1
<1>10. \A a \in 1 .. Len(r) : q[a] = IF a = 1 THEN x ELSE r[src(a)]
  BY <1>1, <1>6 DEF OpenedRecordAs
<1> HIDE DEF src
<1>11. \A a \in 1 .. Len(r) : q[a].secret = r[src(a)].secret
  <2>1. src(1) = i
    BY DEF src
  <2> QED
    BY <1>7, <1>10, <2>1
<1>12. Len(q) = Len(r) /\ q \in Seq(SessionRecords)
  BY <1>6 DEF OpenedRecordAs
<1>13. SecretsDiffer(q)
  <2>1. SecretsDiffer(r)
    BY DEF PartyOK
  <2> SUFFICES ASSUME NEW a \in 1 .. Len(r), NEW b \in 1 .. Len(r), q[a].secret = q[b].secret
               PROVE  a = b
    BY <1>12 DEF SecretsDiffer
  <2>2. r[src(a)].secret = r[src(b)].secret
    BY <1>11
  <2>3. src(a) = src(b)
    BY <1>8, <2>1, <2>2 DEF SecretsDiffer
  <2> QED
    BY <1>9, <2>3
<1>14. \A a \in 1 .. Len(q) : Good(p, q[a], st, N, pk)
  BY <1>4, <1>8, <1>10, <1>12 DEF PartyOK
<1>15. r # << >>
  <2>1. Len(r) # 0
    BY <1>1
  <2> QED
    BY <2>1, EmptySeq
<1>16. \A y \in D2 : y \in N /\ y.from = Peer(p) /\ Spent(p, SecretIn(y), pk)
  <2>1. Spent(p, SecretIn(m), pk)
    BY <1>1, <1>7 DEF Good
  <2> QED
    BY <2>1 DEF PartyOK
<1>17. ASSUME ~WithoutOneTime, NEW y \in D2, NEW a \in 1 .. Len(q), SecretIn(y) = q[a].secret
       PROVE  Repeated(q[a], y)
  <2>1. CASE a = 1
    <3>1. q[a] = x
      BY <1>10, <1>12, <2>1
    <3>2. CASE y = m
      BY <1>4, <3>1, <3>2 DEF Repeated, OpenedAs
    <3>3. CASE y \in D
      <4>1. Repeated(r[i], y)
        BY <1>7, <1>17, <3>1, <3>3 DEF PartyOK
      <4>2. /\ Chain(m) \in Nat /\ Chain(y) \in Nat /\ r[i].receives \in Nat
            /\ Chain(m) >= r[i].receives
        <5>1. Chain(m) \in Nat /\ Chain(y) \in Nat
          BY <1>2, <1>16, <3>3 DEF MessageOK
        <5>2. r[i].receives \in Nat
          BY <1>1, SessionFields DEF Good, Shape
        <5> QED
          BY <1>3, <5>1, <5>2 DEF Repeated
      <4>3. CASE Chain(m) = r[i].receives
        BY <1>4, <3>1, <4>1, <4>3 DEF Repeated, OpenedAs
      <4>4. CASE Chain(m) # r[i].receives
        <5>1. Chain(y) < Chain(m)
          BY <4>1, <4>2, <4>4 DEF Repeated
        <5> QED
          BY <1>4, <3>1, <5>1 DEF Repeated, OpenedAs
      <4> QED
        BY <4>3, <4>4
    <3> QED
      BY <1>17, <3>2, <3>3
  <2>2. CASE a # 1
    <3>1. q[a] = r[src(a)] /\ src(a) \in 1 .. Len(r) /\ src(a) # i
      BY <1>8, <1>10, <1>12, <2>2
    <3>2. SecretIn(y) = r[src(a)].secret
      BY <1>17, <3>1
    <3>3. y # m
      BY <1>7, <3>1, <3>2 DEF PartyOK, SecretsDiffer
    <3>4. y \in D
      BY <3>3, <1>17
    <3> QED
      BY <1>17, <3>1, <3>2, <3>4 DEF PartyOK
  <2> QED
    BY <2>1, <2>2
<1>18. ~WithoutOneTime => m \notin D
  BY <1>3, <1>7 DEF PartyOK
<1>19. PartyOK(p, q, tr, pk, D2, st, N)
  BY <1>1, <1>12, <1>13, <1>14, <1>15, <1>16, <1>17 DEF PartyOK
<1> QED
  BY <1>6, <1>7, <1>18, <1>19 DEF x, q, OpenedWell

LEMMA PartyStarts ==
  ASSUME NEW p \in Party, NEW r, NEW tr, NEW pk, NEW D, NEW st, NEW N,
         PartyOK(p, r, tr, pk, D, st, N), tr = IdentityKey(Peer(p)),
         NEW x, Good(p, x, st, N, pk), \A i \in 1 .. Len(r) : r[i].secret # x.secret,
         NEW m \in N, m.from = Peer(p), SecretIn(m) = x.secret, Repeated(x, m),
         ~WithoutOneTime => \A y \in D : SecretIn(y) # x.secret,
         NEW D2, D2 = D \/ D2 = D \cup {m}
  PROVE  /\ PartyOK(p, Promote(r, x), tr, pk, D2, st, N)
         /\ PromotedAs(Promote(r, x), r, x)
         /\ ~WithoutOneTime => m \notin D
<1> DEFINE q == Promote(r, x)
<1>1. /\ r \in Seq(SessionRecords) /\ Len(r) <= MaxArchived + 1 /\ Len(r) \in Nat
      /\ MaxArchived \in Nat
  BY LenProperties, SessionAssumption DEF PartyOK
<1>2. x \in SessionRecords
  BY DEF Good, Shape
<1>3. PromotedAs(q, r, x)
  BY <1>1, <1>2, PromoteIs
<1> HIDE DEF q
<1>4. q \in Seq(SessionRecords) /\ Len(q) \in Nat /\ Len(q) <= MaxArchived + 1 /\ Len(q) <= Len(r) + 1
  BY <1>1, <1>3 DEF PromotedAs
<1>5. \A a \in 1 .. Len(q) : (q[a] = x /\ a = 1) \/ (q[a] = r[a - 1] /\ a - 1 \in 1 .. Len(r))
  BY <1>1, <1>3, <1>4 DEF PromotedAs
<1>6. SecretsDiffer(q)
  <2> SUFFICES ASSUME NEW a \in 1 .. Len(q), NEW b \in 1 .. Len(q), q[a].secret = q[b].secret
               PROVE  a = b
    BY DEF SecretsDiffer
  <2>1. CASE q[a] = x /\ a = 1
    BY <1>5, <2>1
  <2>2. CASE q[b] = x /\ b = 1
    BY <1>5, <2>2
  <2>3. CASE q[a] = r[a - 1] /\ a - 1 \in 1 .. Len(r) /\ q[b] = r[b - 1] /\ b - 1 \in 1 .. Len(r)
    <3>1. a - 1 = b - 1
      BY <2>3 DEF PartyOK, SecretsDiffer
    <3> QED
      BY <1>4, <3>1
  <2> QED
    BY <1>5, <2>1, <2>2, <2>3
<1>7. \A a \in 1 .. Len(q) : Good(p, q[a], st, N, pk)
  BY <1>5 DEF PartyOK
<1>8. \A y \in D2 : y \in N /\ y.from = Peer(p) /\ Spent(p, SecretIn(y), pk)
  <2>1. Spent(p, SecretIn(m), pk)
    BY DEF Good
  <2> QED
    BY <2>1 DEF PartyOK
<1>9. ASSUME ~WithoutOneTime, NEW y \in D2, NEW a \in 1 .. Len(q), SecretIn(y) = q[a].secret
      PROVE  Repeated(q[a], y)
  <2>1. CASE q[a] = x
    <3>1. y \notin D
      BY <1>9, <2>1
    <3>2. y = m
      BY <3>1, <1>9
    <3> QED
      BY <2>1, <3>2
  <2>2. CASE q[a] = r[a - 1] /\ a - 1 \in 1 .. Len(r)
    <3>1. y # m
      BY <1>9, <2>2
    <3>2. y \in D
      BY <1>9, <3>1
    <3> QED
      BY <1>9, <2>2, <3>2 DEF PartyOK
  <2> QED
    BY <1>5, <2>1, <2>2
<1>10. PartyOK(p, q, tr, pk, D2, st, N)
  BY <1>4, <1>6, <1>7, <1>8, <1>9 DEF PartyOK
<1> QED
  BY <1>3, <1>10 DEF q

-----------------------------------------------------------------------------
(* A party sends. *)

\* m is the next message of p's session s, with the X3DH part x.
SentAs(m, p, s, x) ==
  /\ IsMessage(m)
  /\ m.from = p /\ m.initial = x /\ SecretIn(m) = s.secret
  /\ Line(m) = s.line /\ Chain(m) = s.sends
  /\ m.message.counter = s.Ns /\ m.message.previousCounter = s.PN
  /\ m.message.version = s.version
  /\ m.message.mac = computeSignalMAC(MessageKey(s.secret, m.message.ratchetKey, s.Ns),
                                      s.local, s.remote, s.version, m.message.serialized)

LEMMA SentIs ==
  ASSUME NEW p, NEW s, NEW x, Sendable(s, x)
  PROVE  SentAs(NextMessage(p, s, x), p, s, x)
<1> DEFINE m == NextMessage(p, s, x)
           v == ReadAs(p, s)
           key == MessageKey(s.secret, <<s.line, s.sends>>, s.Ns)
<1>1. m = [from |-> p, initial |-> x, message |-> v]
  BY NextMessageIs
<1>2. m.from = p /\ m.initial = x /\ m.message = v
  BY <1>1
<1>10. v = [version |-> v.version, ratchetKey |-> v.ratchetKey, counter |-> v.counter,
            previousCounter |-> v.previousCounter, ciphertext |-> v.ciphertext, serialized |-> v.serialized, mac |-> v.mac]
  BY DEF ReadAs
<1>3. /\ v.version = s.version /\ v.ratchetKey = <<s.line, s.sends>> /\ v.counter = s.Ns
      /\ v.previousCounter = s.PN /\ v.serialized = BodyOf(p, s) /\ v.mac = MacOf(p, s)
  BY DEF ReadAs
<1> HIDE DEF m, v
<1>4. <<s.line, s.sends>>[1] = s.line /\ <<s.line, s.sends>>[2] = s.sends
  OBVIOUS
<1>5. v.mac = computeSignalMAC(key, s.local, s.remote, s.version, BodyOf(p, s))
  BY <1>3 DEF MacOf
<1>6. key.secret = s.secret
  BY DEF MessageKey
<1> HIDE DEF key
<1>7. v.mac.key.secret = s.secret
  BY <1>5, <1>6, MACIsSome
<1>8. /\ SecretIn(m) = s.secret /\ Line(m) = s.line /\ Chain(m) = s.sends
      /\ m.message.counter = s.Ns /\ m.message.previousCounter = s.PN /\ m.message.version = s.version
  BY <1>2, <1>3, <1>4, <1>7 DEF SecretIn, Line, Chain
<1>9. m.message.mac = computeSignalMAC(MessageKey(s.secret, m.message.ratchetKey, s.Ns),
                                       s.local, s.remote, s.version, m.message.serialized)
  BY <1>2, <1>3, <1>5 DEF key
<1>11. IsMessage(m)
  BY <1>1, <1>2, <1>10 DEF IsMessage
<1> QED
  BY <1>2, <1>8, <1>9, <1>11 DEF SentAs, m

\* A message is added to those sent.
LEMMA NetworkSends ==
  ASSUME NEW N, NEW st, Network(N, st), Cardinality(N) < MaxSent, NEW st2, Grows(st, st2),
         NEW m, m \notin N, MessageOK(m, st2), m.message.counter <= Cardinality(N)
  PROVE  /\ Network(N \cup {m}, st2)
         /\ Cardinality(N \cup {m}) = Cardinality(N) + 1 /\ Cardinality(N) \in Nat
<1>1. IsFiniteSet(N) /\ Cardinality(N) \in Nat
  BY FS_CardinalityType DEF Network
<1>2. IsFiniteSet(N \cup {m}) /\ Cardinality(N \cup {m}) = Cardinality(N) + 1
  BY <1>1, FS_AddElement
<1>3. ASSUME NEW y \in N \cup {m}
      PROVE  MessageOK(y, st2) /\ y.message.counter < Cardinality(N \cup {m})
  <2>1. CASE y \in N
    <3>1. MessageOK(y, st) /\ y.message.counter < Cardinality(N) /\ y.message.counter \in Nat
      BY <2>1 DEF Network, MessageOK
    <3>2. y.message.counter < Cardinality(N \cup {m})
      BY <1>1, <1>2, <3>1
    <3> QED
      BY <3>1, <3>2, MessageGrows
  <2>2. CASE y = m
    <3>1. m.message.counter \in Nat
      BY DEF MessageOK
    <3> QED
      BY <1>1, <1>2, <2>2, <3>1
  <2> QED
    BY <2>1, <2>2
<1>4. Cardinality(N \cup {m}) <= MaxSent
  BY <1>1, <1>2, SessionAssumption
<1> QED
  BY <1>1, <1>2, <1>3, <1>4 DEF Network

\* What a good session sends is a message.
LEMMA SentMessage ==
  ASSUME NEW p \in Party, NEW s, NEW st, Shape(p, s, st), NEW m, SentAs(m, p, s, NoInitial)
  PROVE  MessageOK(m, st)
<1>1. s.sends \in Nat /\ s.Ns \in Nat /\ s.sends # 0
  BY SessionFields DEF Shape
<1>2. m.message.mac
      = computeSignalMAC(MessageKey(SecretIn(m), m.message.ratchetKey, m.message.counter),
                         IdentityKey(m.from), IdentityKey(Peer(m.from)),
                         m.message.version, m.message.serialized)
  BY DEF SentAs, Shape
<1>3. \E o \in Party : StartedBy(o, m, st)
  <2>1. CASE s.role = "initiator"
    BY <2>1 DEF StartedBy, Shape, SentAs
  <2>2. CASE s.role # "initiator"
    <3>1. s.line # NoKey
      BY <2>2, NoLineIsNoKey DEF Shape
    <3>2. StartedBy(Peer(p), m, st)
      BY <2>2, <3>1, Peers DEF StartedBy, Shape, SentAs
    <3> QED
      BY <3>2, Peers
  <2> QED
    BY <2>1, <2>2
<1>4. m.from \in Party /\ Chain(m) \in Nat \ {0} /\ m.message.counter \in Nat
      /\ m.message.version = VersionOf(SecretIn(m)) /\ m.initial = NoInitial /\ IsMessage(m)
  BY <1>1 DEF SentAs, Shape
<1> QED
  BY <1>2, <1>3, <1>4 DEF MessageOK

\* The session after its next message was sent.
LEMMA SentGood ==
  ASSUME NEW p \in Party, NEW s, NEW st, NEW N, NEW pk, Good(p, s, st, N, pk), IsFiniteSet(N),
         NEW m, m \notin N, SentAs(m, p, s, NoInitial),
         \A y \in N : y.message.counter \in Nat
  PROVE  Good(p, Advanced(s), st, N \cup {m}, pk)
<1> DEFINE t == Advanced(s)
           N2 == N \cup {m}
<1>1. s \in SessionRecords /\ Shape(p, s, st)
  BY DEF Good, Shape
<1>2. /\ t \in SessionRecords
      /\ t.role = s.role /\ t.version = s.version /\ t.local = s.local /\ t.remote = s.remote
      /\ t.secret = s.secret /\ t.line = s.line /\ t.sends = s.sends
      /\ t.Ns = s.Ns + 1 /\ t.PN = s.PN /\ t.receives = s.receives /\ t.Nr = s.Nr /\ t.got = s.got
  BY <1>1, AdvancedIs
<1> HIDE DEF t
<1>3. Shape(p, t, st)
  BY <1>1, <1>2 DEF Shape
<1>4. s.Ns \in Nat /\ s.sends \in Nat
  BY <1>1, SessionFields
<1>5. IsFiniteSet(N2) /\ Cardinality(N2) = Cardinality(N) + 1 /\ Cardinality(N) \in Nat
  BY FS_AddElement, FS_CardinalityType
<1>6. t.Ns <= Cardinality(N2)
  BY <1>2, <1>4, <1>5 DEF Good
<1> HIDE DEF N2
<1>7. N \subseteq N2 /\ \A y \in N2 : y \in N \/ y = m
  BY DEF N2
<1>8. Ahead(p, t, N2)
  <2> SUFFICES ASSUME NEW y \in N2, y.from = p, SecretIn(y) = t.secret,
                      t.role = "initiator" \/ Line(y) = t.line
               PROVE  Chain(y) < t.sends \/ (Chain(y) = t.sends /\ y.message.counter < t.Ns)
    BY DEF Ahead
  <2>1. CASE y = m
    BY <1>2, <1>4, <2>1 DEF SentAs
  <2>2. CASE y \in N
    <3>1. Chain(y) < s.sends \/ (Chain(y) = s.sends /\ y.message.counter < s.Ns)
      BY <1>2, <2>2 DEF Good, Ahead
    <3>2. y.message.counter \in Nat
      BY <2>2
    <3> QED
      BY <1>2, <1>4, <3>1, <3>2
  <2> QED
    BY <1>7, <2>1, <2>2
<1>9. Heard(p, t, N2)
  <2>1. Heard(p, s, N2)
    BY <1>4, <1>5, <1>7, HeardGrows DEF Good
  <2>2. HeardBy(p, t, N2) = HeardBy(p, s, N2)
    BY <1>2 DEF HeardBy
  <2> QED
    BY <1>2, <2>1, <2>2 DEF Heard
<1>10. Announced(p, t, N2) /\ Spent(p, t.secret, pk)
  BY <1>2, <1>7 DEF Good, Announced
<1> QED
  BY <1>3, <1>6, <1>8, <1>9, <1>10 DEF Good, t, N2

\* The current session, advanced.
SentRecord(r) == [r EXCEPT ![1] = Advanced(@)]

SentWell(m, q, p, r, tr, pk, D, st, N) ==
  /\ m \notin N /\ m.from = p
  /\ Network(N \cup {m}, st)
  /\ PartyOK(p, q, tr, pk, D, st, N \cup {m})
  /\ Len(q) = Len(r)
  /\ \A a \in 1 .. Len(r) : q[a].secret = r[a].secret /\ q[a].role = r[a].role

LEMMA PartySends ==
  ASSUME NEW p \in Party, NEW r, NEW tr, NEW pk, NEW D, NEW st, NEW N,
         PartyOK(p, r, tr, pk, D, st, N), Network(N, st), Cardinality(N) < MaxSent,
         st \in [Party -> Nat], r # << >>
  PROVE  SentWell(NextMessage(p, r[1], NoInitial), SentRecord(r), p, r, tr, pk, D, st, N)
<1> DEFINE m == NextMessage(p, r[1], NoInitial)
           q == SentRecord(r)
           s == r[1]
           t == Advanced(s)
<1>1. r \in Seq(SessionRecords) /\ Len(r) \in Nat /\ Len(r) <= MaxArchived + 1
  BY LenProperties DEF PartyOK
<1>2. 1 \in 1 .. Len(r)
  BY <1>1, EmptySeq
<1>3. Good(p, s, st, N, pk)
  BY <1>2 DEF PartyOK
<1>4. s \in SessionRecords /\ s.version \in {3, 4} /\ s.Ns \in Nat
  BY <1>3, SessionFields DEF Good, Shape
<1>5. SentAs(m, p, s, NoInitial)
  BY <1>4, SentIs DEF Sendable
<1> HIDE DEF m
<1>6. m \notin N
  <2>1. ASSUME m \in N PROVE FALSE
    <3>1. Chain(m) < s.sends \/ (Chain(m) = s.sends /\ m.message.counter < s.Ns)
      BY <1>3, <1>5, <2>1 DEF Good, Ahead, SentAs
    <3>2. s.sends \in Nat /\ Chain(m) = s.sends /\ m.message.counter = s.Ns
      BY <1>4, <1>5, SessionFields DEF SentAs
    <3> QED
      BY <1>4, <3>1, <3>2
  <2> QED
    BY <2>1
<1>7. MessageOK(m, st)
  BY <1>3, <1>5, SentMessage DEF Good
<1>8. m.message.counter <= Cardinality(N)
  BY <1>3, <1>5 DEF Good, SentAs
<1>9. Grows(st, st)
  BY DEF Grows
<1>10. Network(N \cup {m}, st)
  BY <1>6, <1>7, <1>8, <1>9, NetworkSends
<1>11. IsFiniteSet(N) /\ IsFiniteSet(N \cup {m}) /\ \A y \in N : y.message.counter \in Nat
  BY <1>10 DEF Network, MessageOK
<1>12. Good(p, t, st, N \cup {m}, pk)
  BY <1>3, <1>5, <1>6, <1>11, SentGood
<1>13. t \in SessionRecords /\ t.secret = s.secret /\ t.role = s.role
       /\ t.receives = s.receives /\ t.got = s.got
  BY <1>4, AdvancedIs
<1>14. /\ q \in Seq(SessionRecords) /\ Len(q) = Len(r)
       /\ \A a \in 1 .. Len(r) : q[a] = IF a = 1 THEN t ELSE r[a]
  <2> HIDE DEF t
  <2>1. q = [r EXCEPT ![1] = t]
    BY DEF SentRecord, t, s
  <2> QED
    BY <1>1, <1>2, <1>13, <2>1, ExceptSeq
<1> HIDE DEF q, t
<1>15. \A a \in 1 .. Len(r) : q[a].secret = r[a].secret /\ q[a].role = r[a].role
  BY <1>13, <1>14
<1>16. ASSUME NEW a \in 1 .. Len(q) PROVE Good(p, q[a], st, N \cup {m}, pk)
  <2>1. CASE a = 1
    BY <1>12, <1>14, <2>1
  <2>2. CASE a # 1
    <3>1. Good(p, r[a], st, N, pk) /\ q[a] = r[a] /\ r[a].secret # s.secret
      BY <1>2, <1>14, <2>2 DEF PartyOK, SecretsDiffer
    <3>2. SecretIn(m) = s.secret
      BY <1>5 DEF SentAs
    <3>3. \A y \in (N \cup {m}) \ N : SecretIn(y) # r[a].secret
      BY <3>1, <3>2
    <3>4. N \subseteq N \cup {m}
      OBVIOUS
    <3> QED
      BY <1>9, <1>11, <3>1, <3>3, <3>4, GoodGrows
  <2> QED
    BY <2>1, <2>2
<1>17. SecretsDiffer(q)
  BY <1>14, <1>15 DEF PartyOK, SecretsDiffer
<1>18. ASSUME ~WithoutOneTime, NEW y \in D, NEW a \in 1 .. Len(q), SecretIn(y) = q[a].secret
       PROVE  Repeated(q[a], y)
  <2>1. Repeated(r[a], y)
    BY <1>14, <1>15, <1>18 DEF PartyOK
  <2>2. q[a].receives = r[a].receives /\ q[a].got = r[a].got
    BY <1>13, <1>14
  <2> QED
    BY <2>1, <2>2 DEF Repeated
<1>19. PartyOK(p, q, tr, pk, D, st, N \cup {m})
  BY <1>1, <1>14, <1>16, <1>17, <1>18 DEF PartyOK
<1>20. m.from = p
  BY <1>5 DEF SentAs
<1> QED
  BY <1>6, <1>10, <1>14, <1>15, <1>19, <1>20 DEF m, q, SentWell

-----------------------------------------------------------------------------
(* A party starts a session. *)

\* A new session, field by field.
NewAs(s, role, p, a, line, x) ==
  /\ s \in SessionRecords
  /\ s.role = role /\ s.version = ciphertextVersionFromX3DH(x)
  /\ s.local = IdentityKey(p) /\ s.remote = IdentityKey(Peer(p)) /\ s.secret = a
  /\ s.line = line /\ s.sends = (IF role = "initiator" THEN 1 ELSE 0) /\ s.Ns = 0 /\ s.PN = 0
  /\ s.receives = 0 /\ s.Nr = 0 /\ s.got = {}

LEMMA NewSessionIs ==
  ASSUME NEW role \in {"initiator", "responder"}, NEW p \in Party, NEW o \in Party, NEW n \in Nat,
         NEW k \in OneTimeIDs, NEW y \in KyberPreKey, NEW a, a = SecretOf(o, n, k, y),
         NEW line, line = NoKey \/ \E j \in Nat : line = EphemeralKey(p, j), NEW x
  PROVE  NewAs(NewSession(role, p, IdentityKey(Peer(p)), a, line, x), role, p, a, line, x)
<1> DEFINE s == NewSession(role, p, IdentityKey(Peer(p)), a, line, x)
           v == ciphertextVersionFromX3DH(x)
           n1 == IF role = "initiator" THEN 1 ELSE 0
           I == {IdentityKey(q) : q \in Party}
           S == {SecretOf(u, w, i, z) : u \in Party, w \in Nat, i \in OneTimeIDs, z \in KyberPreKey}
           L == {NoKey} \cup {EphemeralKey(q, j) : q \in Party, j \in Nat}
           G == SUBSET Nat
<1>1. v \in {3, 4}
  BY DEF ciphertextVersionFromX3DH, CiphertextMessageCurrentVersion, CiphertextMessagePreKyberVersion
<1>2. n1 \in Nat
  OBVIOUS
<1>3. IdentityKey(p) \in I /\ IdentityKey(Peer(p)) \in I
  BY Peers
<1>4. a \in S
  OBVIOUS
<1>5. line \in L
  OBVIOUS
<1>6. {} \in G
  OBVIOUS
<1>7. SessionRecords
      = [role : {"initiator", "responder"}, version : {3, 4}, local : I, remote : I, secret : S,
         line : L, sends : Nat, Ns : Nat, PN : Nat, receives : Nat, Nr : Nat, got : G]
  BY DEF SessionRecords
<1>8. s = [role |-> role, version |-> v, local |-> IdentityKey(p), remote |-> IdentityKey(Peer(p)),
           secret |-> a, line |-> line, sends |-> n1, Ns |-> 0, PN |-> 0, receives |-> 0,
           Nr |-> 0, got |-> {}]
  BY DEF NewSession
<1> HIDE DEF s, v, n1, I, S, L, G
<1>9. s \in SessionRecords
  BY <1>1, <1>2, <1>3, <1>4, <1>5, <1>6, <1>7, <1>8
<1>10. /\ s.role = role /\ s.version = v /\ s.local = IdentityKey(p)
       /\ s.remote = IdentityKey(Peer(p)) /\ s.secret = a /\ s.line = line
       /\ s.sends = n1 /\ s.Ns = 0 /\ s.PN = 0 /\ s.receives = 0 /\ s.Nr = 0 /\ s.got = {}
  BY <1>8
<1> QED
  BY <1>9, <1>10 DEF s, v, n1, NewAs

LEMMA SpentBy ==
  ASSUME NEW p \in Party, NEW o \in Party, NEW n, NEW k, NEW y, NEW pk, o = p \/ k \notin pk
  PROVE  Spent(p, SecretOf(o, n, k, y), pk)
<1> DEFINE a == SecretOf(o, n, k, y)
<1>1. PartsOf(a, o, n, k, y)
  BY SecretParts
<1> HIDE DEF a
<1> SUFFICES ASSUME NEW j \in pk, PreKey(p, j) \in a[4] PROVE FALSE
  BY DEF Spent, a
<1>2. PreKey(p, j) = EphemeralKey(o, n) \/ PreKey(p, j) = PreKey(Peer(o), k)
  BY <1>1 DEF PartsOf
<1>3. PreKey(p, j) = PreKey(Peer(o), k)
  BY <1>2, KeysDistinct
<1>4. p = Peer(o) /\ j = k
  BY <1>3, KeysDistinct
<1> QED
  BY <1>4, Peers

StartedWell(t, p, m, st, N, pk) ==
  Good(p, t, st, N, pk) /\ Repeated(t, m) /\ t.secret = SecretIn(m) /\ t.role = "responder"

\* The responder's session, once it has decrypted the first message.
LEMMA StartedGood ==
  ASSUME NEW p \in Party, NEW st, NEW N, Network(N, st), NEW m \in N, m.from = Peer(p),
         NEW n \in 0 .. st[Peer(p)] - 1, NEW k \in OneTimeIDs, NEW y \in KyberPreKey,
         Announces(m, n, k, y), m.initial # NoInitial,
         NEW x, ciphertextVersionFromX3DH(x) = m.message.version,
         NEW st2, Grows(st, st2), st2[p] = st[p] + 1, NEW pk, k \notin pk
  PROVE  StartedWell(Opened(NewSession("responder", p, IdentityKey(Peer(p)), SecretIn(m),
                                       EphemeralKey(p, st[p]), x), m), p, m, st2, N, pk)
<1> DEFINE s == NewSession("responder", p, IdentityKey(Peer(p)), SecretIn(m),
                           EphemeralKey(p, st[p]), x)
           t == Opened(s, m)
<1>1. Peer(p) \in Party /\ Peer(p) # p /\ Peer(Peer(p)) = p /\ st[p] \in Nat /\ st[Peer(p)] \in Nat
  BY Peers DEF Grows
<1>2. n \in Nat /\ SecretIn(m) = SecretOf(Peer(p), n, k, y) /\ Line(m) = NoKey
  BY <1>1 DEF Announces
<1>3. /\ s \in SessionRecords
      /\ s.role = "responder" /\ s.version = m.message.version
      /\ s.local = IdentityKey(p) /\ s.remote = IdentityKey(Peer(p)) /\ s.secret = SecretIn(m)
      /\ s.line = EphemeralKey(p, st[p]) /\ s.sends = 0 /\ s.Ns = 0
      /\ s.receives = 0 /\ s.got = {}
  <2> DEFINE b == SecretIn(m)
             l == EphemeralKey(p, st[p])
  <2>1. b = SecretOf(Peer(p), n, k, y) /\ \E j \in Nat : l = EphemeralKey(p, j)
    BY <1>1, <1>2
  <2> HIDE DEF b, l
  <2>2. NewAs(NewSession("responder", p, IdentityKey(Peer(p)), b, l, x), "responder", p, b, l, x)
    BY <1>1, <1>2, <2>1, NewSessionIs
  <2>3. NewAs(s, "responder", p, b, l, x)
    BY <2>2 DEF b, l
  <2> HIDE DEF s
  <2> QED
    BY <2>3 DEF NewAs, b, l
<1> HIDE DEF s
<1>4. MessageOK(m, st)
  BY DEF Network
<1>5. Chain(m) \in Nat \ {0} /\ m.message.counter \in Nat /\ m.message.version = VersionOf(SecretIn(m))
  BY <1>4 DEF MessageOK
<1>6. t \in SessionRecords /\ OpenedAs(t, s, m)
  BY <1>3, <1>5, OpenedIs
<1> HIDE DEF t
<1>7. /\ t.role = "responder" /\ t.version = m.message.version
      /\ t.local = IdentityKey(p) /\ t.remote = IdentityKey(Peer(p)) /\ t.secret = SecretIn(m)
      /\ t.line = EphemeralKey(p, st[p]) /\ t.receives = Chain(m)
  BY <1>3, <1>6 DEF OpenedAs
<1>8. t.sends = 1 /\ t.Ns = 0 /\ t.got = {m.message.counter} /\ t.Nr = m.message.counter + 1
  <2>1. Chain(m) # s.receives
    BY <1>3, <1>5
  <2> QED
    BY <1>3, <1>6, <2>1 DEF OpenedAs
<1>9. Shape(p, t, st2)
  <2>1. IsAgreed(Peer(p), st, t.secret)
    BY <1>2, <1>7 DEF IsAgreed
  <2>2. IsAgreed(Peer(p), st2, t.secret)
    BY <1>1, <2>1, AgreedGrows
  <2>3. HasLine(p, st2, t.line)
    <3>1. st[p] \in 0 .. st2[p] - 1
      BY <1>1
    <3> QED
      BY <1>7, <3>1 DEF HasLine
  <2>4. t.sends # 0 /\ t.receives # 0 /\ t.got # {} /\ t.role # "initiator"
        /\ t.version = VersionOf(t.secret)
    BY <1>5, <1>7, <1>8
  <2>5. t.got \subseteq 0 .. t.Nr - 1
    BY <1>5, <1>8
  <2> QED
    BY <1>6, <1>7, <2>2, <2>3, <2>4, <2>5 DEF Shape
<1>10. Ahead(p, t, N)
  <2> SUFFICES ASSUME NEW z \in N, z.from = p, SecretIn(z) = t.secret, Line(z) = t.line
               PROVE  FALSE
    BY <1>7 DEF Ahead
  <2>1. PICK o \in Party : StartedBy(o, z, st)
    BY DEF Network, MessageOK
  <2>2. IsAgreed(Peer(p), st, t.secret)
    BY <1>2, <1>7 DEF IsAgreed
  <2>3. o = Peer(p)
    BY <2>1, <2>2, AgreedOnce DEF StartedBy
  <2>4. Line(z) # NoKey
    BY <1>7, KeysDistinct
  <2>5. HasLine(p, st, Line(z))
    BY <1>1, <2>1, <2>3, <2>4 DEF StartedBy
  <2>6. PICK j \in 0 .. st[p] - 1 : Line(z) = EphemeralKey(p, j)
    BY <2>5 DEF HasLine
  <2>7. j = st[p]
    BY <1>7, <2>6, KeysDistinct
  <2> QED
    BY <1>1, <2>6, <2>7
<1>11. Heard(p, t, N)
  <2>1. Cardinality(HeardBy(p, t, N)) \in Nat
    BY HeardByCounts DEF Network
  <2>2. t.sends <= Cardinality(HeardBy(p, t, N)) + 1
    BY <1>8, <2>1
  <2> QED
    BY <1>7, <1>8, <2>2 DEF Heard
<1>12. Announced(p, t, N)
  BY <1>1, <1>7 DEF Announced
<1>13. t.Ns <= Cardinality(N)
  BY <1>8, FS_CardinalityType DEF Network
<1>14. Spent(p, t.secret, pk)
  BY <1>1, <1>2, <1>7, SpentBy
<1>15. Repeated(t, m)
  BY <1>7, <1>8 DEF Repeated
<1>16. Good(p, t, st2, N, pk)
  BY <1>9, <1>10, <1>11, <1>12, <1>13, <1>14 DEF Good
<1> QED
  BY <1>7, <1>15, <1>16 DEF t, s, StartedWell

\* No message has the secret of a session that is yet to be started.
LEMMA FreshSecret ==
  ASSUME NEW N, NEW st, Network(N, st), st \in [Party -> Nat], NEW p \in Party, NEW k, NEW y,
         NEW m \in N
  PROVE  SecretIn(m) # SecretOf(p, st[p], k, y)
<1> SUFFICES ASSUME SecretIn(m) = SecretOf(p, st[p], k, y) PROVE FALSE
  OBVIOUS
<1>1. PICK o \in Party : IsAgreed(o, st, SecretIn(m))
  BY DEF Network, MessageOK, StartedBy
<1>2. PICK n \in 0 .. st[o] - 1, k2 \in OneTimeIDs, y2 \in KyberPreKey :
        SecretIn(m) = SecretOf(o, n, k2, y2)
  BY <1>1 DEF IsAgreed
<1>3. SecretOf(p, st[p], k, y) = SecretOf(o, n, k2, y2)
  BY <1>2
<1>4. o = p /\ n = st[p]
  BY <1>3, SecretsDistinct
<1>5. st[p] \in Nat
  OBVIOUS
<1> QED
  BY <1>2, <1>4, <1>5

\* The initiator's session, once it has sent the first message.
LEMMA PartyBegins ==
  ASSUME NEW p \in Party, NEW tr, NEW pk, NEW D, NEW st, NEW N,
         PartyOK(p, << >>, tr, pk, D, st, N), Network(N, st), Cardinality(N) < MaxSent,
         NEW k \in OneTimeIDs, NEW y \in KyberPreKey, NEW st2, Grows(st, st2), st2[p] = st[p] + 1
  PROVE  LET x == InitialOf(p, st[p], k, y)
             s == NewSession("initiator", p, IdentityKey(Peer(p)), SecretOf(p, st[p], k, y), NoKey, x)
             m == NextMessage(p, s, x)
         IN  /\ m \notin N /\ m.from = p
             /\ Network(N \cup {m}, st2)
             /\ Advanced(s) \in SessionRecords
             /\ PartyOK(p, <<Advanced(s)>>, IdentityKey(Peer(p)), pk, D, st2, N \cup {m})
<1> DEFINE x == InitialOf(p, st[p], k, y)
           a == SecretOf(p, st[p], k, y)
           s == NewSession("initiator", p, IdentityKey(Peer(p)), a, NoKey, x)
           m == NextMessage(p, s, x)
           t == Advanced(s)
           N2 == N \cup {m}
           q == <<t>>
<1>1. st[p] \in Nat /\ st \in [Party -> Nat] /\ Peer(p) \in Party /\ Peer(p) # p
  BY Peers DEF Grows
<1>2. /\ x # NoInitial /\ IsInitial(x)
      /\ ciphertextVersionFromX3DH(x) = VersionOf(a)
      /\ KyberPayload(VersionOf(a), x.kyberPreKeyID, x.kyberCiphertext)
  BY InitialFacts
<1>3. /\ s \in SessionRecords
      /\ s.role = "initiator" /\ s.version = ciphertextVersionFromX3DH(x)
      /\ s.local = IdentityKey(p) /\ s.remote = IdentityKey(Peer(p)) /\ s.secret = a
      /\ s.line = NoKey /\ s.sends = 1 /\ s.Ns = 0 /\ s.PN = 0 /\ s.receives = 0 /\ s.got = {}
  <2>1. a = SecretOf(p, st[p], k, y)
    OBVIOUS
  <2> HIDE DEF a, x
  <2>2. NewAs(s, "initiator", p, a, NoKey, x)
    BY <1>1, <2>1, NewSessionIs
  <2> HIDE DEF s
  <2> QED
    BY <2>2 DEF NewAs
<1>4. x = InitialOf(p, st[p], k, y) /\ a = SecretOf(p, st[p], k, y)
  OBVIOUS
<1>5. Spent(p, a, pk)
  BY SpentBy
<1>6. \A z \in N : SecretIn(z) # a
  BY <1>1, FreshSecret
<1> HIDE DEF x, a, s
<1>7. s.version \in {3, 4}
  BY <1>3, SessionFields
<1>8. SentAs(m, p, s, x)
  BY <1>2, <1>3, <1>7, SentIs DEF Sendable
<1>9. /\ t \in SessionRecords
      /\ t.role = s.role /\ t.version = s.version /\ t.local = s.local /\ t.remote = s.remote
      /\ t.secret = s.secret /\ t.line = s.line /\ t.sends = s.sends
      /\ t.Ns = s.Ns + 1 /\ t.PN = s.PN /\ t.receives = s.receives /\ t.Nr = s.Nr /\ t.got = s.got
  BY <1>3, AdvancedIs
<1>10. /\ t.role = "initiator" /\ t.version = VersionOf(a) /\ t.local = IdentityKey(p)
       /\ t.remote = IdentityKey(Peer(p)) /\ t.secret = a /\ t.line = NoKey /\ t.sends = 1
       /\ t.Ns = 1 /\ t.receives = 0 /\ t.got = {}
  BY <1>2, <1>3, <1>9
<1> HIDE DEF m, t
<1>11. /\ IsMessage(m) /\ m.from = p /\ m.initial = x /\ SecretIn(m) = a /\ Line(m) = NoKey /\ Chain(m) = 1
       /\ m.message.counter = 0 /\ m.message.previousCounter = 0 /\ m.message.version = VersionOf(a)
  BY <1>2, <1>3, <1>8 DEF SentAs
<1>12. m \notin N
  BY <1>6, <1>11
<1>13. IsAgreed(p, st2, a) /\ st[p] \in 0 .. st2[p] - 1
  <2>1. st[p] \in 0 .. st2[p] - 1
    BY <1>1
  <2> QED
    BY <1>4, <2>1 DEF IsAgreed
<1>14. MessageOK(m, st2)
  <2>1. m.message.mac
        = computeSignalMAC(MessageKey(SecretIn(m), m.message.ratchetKey, m.message.counter),
                           IdentityKey(m.from), IdentityKey(Peer(m.from)),
                           m.message.version, m.message.serialized)
    BY <1>3, <1>8 DEF SentAs
  <2>2. StartedBy(p, m, st2)
    BY <1>11, <1>13 DEF StartedBy
  <2>3. Announces(m, st[p], k, y)
    BY <1>4, <1>11 DEF Announces
  <2> QED
    BY <1>11, <1>13, <2>1, <2>2, <2>3 DEF MessageOK
<1>15. m.message.counter <= Cardinality(N)
  BY <1>11, FS_CardinalityType DEF Network
<1>16. /\ Network(N2, st2) /\ Cardinality(N2) = Cardinality(N) + 1 /\ Cardinality(N) \in Nat
  BY <1>12, <1>14, <1>15, NetworkSends
<1> HIDE DEF N2
<1>17. m \in N2 /\ \A z \in N2 : z \in N \/ z = m
  BY DEF N2
<1>18. Good(p, t, st2, N2, pk)
  <2>1. Shape(p, t, st2)
    BY <1>9, <1>10, <1>13 DEF Shape
  <2>2. Ahead(p, t, N2)
    <3> SUFFICES ASSUME NEW z \in N2, SecretIn(z) = t.secret
                 PROVE  Chain(z) = t.sends /\ z.message.counter < t.Ns
      BY DEF Ahead
    <3>1. z = m
      BY <1>6, <1>10, <1>17
    <3> QED
      BY <1>10, <1>11, <3>1
  <2>3. Heard(p, t, N2)
    <3>1. Cardinality(HeardBy(p, t, N2)) \in Nat
      BY <1>16, HeardByCounts DEF Network
    <3>2. t.sends <= Cardinality(HeardBy(p, t, N2)) + 1
      BY <1>10, <3>1
    <3> QED
      BY <1>10, <3>2 DEF Heard
  <2>4. Announced(p, t, N2)
    BY <1>2, <1>10, <1>11, <1>17 DEF Announced
  <2>5. t.Ns <= Cardinality(N2)
    BY <1>10, <1>16
  <2> QED
    BY <1>5, <1>10, <2>1, <2>2, <2>3, <2>4, <2>5 DEF Good
<1>19. q \in Seq(SessionRecords) /\ Len(q) = 1 /\ q[1] = t
  BY <1>9, SingletonSeq
<1> HIDE DEF q
<1>20. 1 .. Len(q) = {1}
  BY <1>19
<1>21. Len(q) <= MaxArchived + 1
  BY <1>19, SessionAssumption
<1>22. \A z \in D : z \in N /\ z.from = Peer(p) /\ Spent(p, SecretIn(z), pk)
  BY DEF PartyOK
<1>23. \A z \in D : SecretIn(z) # t.secret
  BY <1>6, <1>10, <1>22
<1>24. PartyOK(p, q, IdentityKey(Peer(p)), pk, D, st2, N2)
  <2>1. SecretsDiffer(q)
    BY <1>20 DEF SecretsDiffer
  <2>2. \A i \in 1 .. Len(q) : Good(p, q[i], st2, N2, pk)
    BY <1>18, <1>19, <1>20
  <2>3. \A z \in D : z \in N2
    BY <1>22 DEF N2
  <2>4. \A z \in D : \A i \in 1 .. Len(q) : SecretIn(z) # q[i].secret
    BY <1>19, <1>20, <1>23
  <2> QED
    BY <1>19, <1>21, <1>22, <2>1, <2>2, <2>3, <2>4 DEF PartyOK
<1> QED
  BY <1>9, <1>11, <1>12, <1>16, <1>24 DEF q, N2, m, t, s, a, x

-----------------------------------------------------------------------------
(* What a call of Decrypt does. *)

IsOutcome(out) ==
  out = [rec |-> out.rec, preKeys |-> out.preKeys, trusted |-> out.trusted,
         started |-> out.started, plaintext |-> out.plaintext]

OutcomeAs(out, r, pk, tr, n, b) ==
  out = [rec |-> r, preKeys |-> pk, trusted |-> tr, started |-> n, plaintext |-> b]

LEMMA KeptIs ==
  ASSUME NEW p
  PROVE  OutcomeAs(Kept(p), rec[p], preKeys[p], trusted[p], started[p], FALSE)
BY DEF Kept, OutcomeAs

LEMMA RemovePreKeyIs ==
  ASSUME NEW p, NEW x
  PROVE  OutcomeAs(RemovePreKey(p, x), rec[p], preKeys[p] \ {x.preKeyID}, trusted[p], started[p], FALSE)
<1> DEFINE o == Kept(p)
<1>1. OutcomeAs(o, rec[p], preKeys[p], trusted[p], started[p], FALSE)
  BY KeptIs
<1>2. RemovePreKey(p, x) = [o EXCEPT !.preKeys = @ \ {x.preKeyID}]
  BY DEF RemovePreKey
<1> HIDE DEF o
<1> QED
  BY <1>1, <1>2 DEF OutcomeAs

LEMMA SaveIdentityIs ==
  ASSUME NEW p, NEW x
  PROVE  OutcomeAs(SaveIdentity(p, x), rec[p], preKeys[p] \ {x.preKeyID}, x.identity, started[p], FALSE)
<1> DEFINE o == RemovePreKey(p, x)
<1>1. OutcomeAs(o, rec[p], preKeys[p] \ {x.preKeyID}, trusted[p], started[p], FALSE)
  BY RemovePreKeyIs
<1>2. SaveIdentity(p, x) = [o EXCEPT !.trusted = x.identity]
  BY DEF SaveIdentity
<1> HIDE DEF o
<1> QED
  BY <1>1, <1>2 DEF OutcomeAs

LEMMA StartSessionIs ==
  ASSUME NEW p, NEW x, NEW s
  PROVE  OutcomeAs(StartSession(p, x, s), Persisted(Promote(rec[p], s)), preKeys[p] \ {x.preKeyID},
                   x.identity, started[p] + 1, TRUE)
<1> DEFINE o == SaveIdentity(p, x)
<1>1. OutcomeAs(o, rec[p], preKeys[p] \ {x.preKeyID}, x.identity, started[p], FALSE)
  BY SaveIdentityIs
<1>2. StartSession(p, x, s)
      = [o EXCEPT !.rec = Persisted(Promote(@, s)), !.started = @ + 1, !.plaintext = TRUE]
  BY DEF StartSession
<1> HIDE DEF o
<1> QED
  BY <1>1, <1>2 DEF OutcomeAs

LEMMA OpenOutcomeIs ==
  ASSUME NEW p, NEW i, NEW d
  PROVE  OutcomeAs([Kept(p) EXCEPT !.rec = Persisted(OpenedRecord(@, i, d)), !.plaintext = TRUE],
                   Persisted(OpenedRecord(rec[p], i, d)), preKeys[p], trusted[p], started[p], TRUE)
<1> DEFINE o == Kept(p)
<1>1. OutcomeAs(o, rec[p], preKeys[p], trusted[p], started[p], FALSE)
  BY KeptIs
<1> HIDE DEF o
<1> DEFINE v == [o EXCEPT !.rec = Persisted(OpenedRecord(@, i, d)), !.plaintext = TRUE]
<1>2. v = [o EXCEPT !.rec = Persisted(OpenedRecord(@, i, d)), !.plaintext = TRUE]
  OBVIOUS
<1> HIDE DEF v
<1>3. OutcomeAs(v, Persisted(OpenedRecord(rec[p], i, d)), preKeys[p], trusted[p], started[p], TRUE)
  BY <1>1, <1>2 DEF OutcomeAs
<1> QED
  BY <1>3 DEF v, o

\* d is m, or a damaged form of it.
Copy(d, m) ==
  /\ d.message = m.message \/ d.message.mac = NoMAC
  /\ d.initial # NoInitial =>
       m.initial # NoInitial /\ d.initial.identity \in {IdentityKey(m.from), IdentityKey(Stranger)}

LEMMA MessageIsCopy ==
  ASSUME NEW m, NEW st, MessageOK(m, st)
  PROVE  Copy(m, m)
<1>1. CASE m.initial = NoInitial
  BY <1>1 DEF Copy
<1>2. CASE m.initial # NoInitial
  <2>1. PICK n \in 0 .. st[m.from] - 1, k \in OneTimeIDs, y \in KyberPreKey : Announces(m, n, k, y)
    BY <1>2 DEF MessageOK
  <2>2. m.initial.identity = IdentityKey(m.from)
    BY <2>1, InitialFacts DEF Announces, MessageOK
  <2> QED
    BY <1>2, <2>2 DEF Copy
<1> QED
  BY <1>1, <1>2

LEMMA DamagedIsCopy ==
  ASSUME NEW m, NEW st, MessageOK(m, st), m.initial # NoInitial, NEW d \in Damaged(m)
  PROVE  Copy(d, m)
<1>1. PICK n \in 0 .. st[m.from] - 1, k \in OneTimeIDs, y \in KyberPreKey : Announces(m, n, k, y)
  BY DEF MessageOK
<1>2. m.initial.identity = IdentityKey(m.from) /\ IsInitial(m.initial)
  BY <1>1, InitialFacts DEF Announces, MessageOK
<1>3. IsMessage(m)
  BY DEF MessageOK
<1>4. CASE d = [m EXCEPT !.message.mac = NoMAC]
  <2>1. d.message.mac = NoMAC
    BY <1>3, <1>4 DEF IsMessage
  <2>2. d.initial = m.initial
    BY <1>3, <1>4 DEF IsMessage
  <2> QED
    BY <1>2, <2>1, <2>2 DEF Copy
<1>5. CASE d # [m EXCEPT !.message.mac = NoMAC]
  <2> DEFINE i == m.initial
  <2>1. PICK x : /\ d = [m EXCEPT !.initial = x]
                 /\ x \in {[i EXCEPT !.identity = IdentityKey(Stranger)],
                           [i EXCEPT !.ephemeral = EphemeralKey(Stranger, 0)]} \cup
                          {[i EXCEPT !.preKeyID = j] : j \in OneTime \cup {0}} \cup
                          {[i EXCEPT !.kyberPreKeyID = j] : j \in {0, KyberPreKeyID + 1}} \cup
                          {[i EXCEPT !.kyberCiphertext = c] : c \in {Nothing, <<"garbled">>}}
    BY <1>5 DEF Damaged
  <2>2. i.identity = IdentityKey(m.from) /\ IsInitial(i)
    BY <1>2
  <2>3. d.message = m.message /\ d.initial = x
    BY <1>3, <2>1 DEF IsMessage
  <2> HIDE DEF i
  <2>4. x.identity \in {i.identity, IdentityKey(Stranger)}
    <3>1. CASE x = [i EXCEPT !.identity = IdentityKey(Stranger)]
      BY <2>2, <3>1 DEF IsInitial
    <3>2. CASE x = [i EXCEPT !.ephemeral = EphemeralKey(Stranger, 0)]
      BY <2>2, <3>2 DEF IsInitial
    <3>3. ASSUME NEW j, x = [i EXCEPT !.preKeyID = j]
          PROVE  x.identity = i.identity
      BY <2>2, <3>3 DEF IsInitial
    <3>4. ASSUME NEW j, x = [i EXCEPT !.kyberPreKeyID = j]
          PROVE  x.identity = i.identity
      BY <2>2, <3>4 DEF IsInitial
    <3>5. ASSUME NEW j, x = [i EXCEPT !.kyberCiphertext = j]
          PROVE  x.identity = i.identity
      BY <2>2, <3>5 DEF IsInitial
    <3> QED
      BY <2>1, <3>1, <3>2, <3>3, <3>4, <3>5
  <2> QED
    BY <2>2, <2>3, <2>4 DEF Copy
<1> QED
  BY <1>4, <1>5

\* No session changes.
Keeps(p, out) == out.rec = rec[p] /\ out.started = started[p] /\ out.plaintext = FALSE

\* A session decrypts m.
Opens(p, m, out) ==
  /\ out.started = started[p]
  /\ \E i \in 1 .. Len(rec[p]) :
       Verdict(rec[p][i], m) = "none" /\ out.rec = Persisted(OpenedRecord(rec[p], i, m))

\* m starts a session; x is its X3DH part as it arrived.
StartsWith(p, m, out, x, n, k, y) ==
  /\ m.initial # NoInitial /\ Announces(m, n, k, y)
  /\ ciphertextVersionFromX3DH(x) = m.message.version
  /\ k \in preKeys[p] \cup {0} /\ k \notin out.preKeys
  /\ out.rec = Persisted(Promote(rec[p],
       Opened(NewSession("responder", p, IdentityKey(Peer(p)), SecretIn(m),
                         EphemeralKey(p, started[p]), x), m)))

Starts(p, m, out) ==
  /\ out.trusted = IdentityKey(Peer(p))
  /\ out.started = started[p] + 1
  /\ \A i \in 1 .. Len(rec[p]) : rec[p][i].secret # SecretIn(m)
  /\ \E x : \E n \in 0 .. started[Peer(p)] - 1, k \in OneTimeIDs, y \in KyberPreKey :
       StartsWith(p, m, out, x, n, k, y)

Effect(p, m, out) ==
  /\ IsOutcome(out)
  /\ out.plaintext \in BOOLEAN
  /\ out.preKeys \subseteq preKeys[p]
  /\ \/ out.trusted = trusted[p]
     \/ trusted[p] = NoKey /\ out.trusted \in {IdentityKey(Peer(p)), IdentityKey(Stranger)}
  /\ Keeps(p, out) \/ Opens(p, m, out) \/ Starts(p, m, out)

LEMMA EffectKept ==
  ASSUME NEW p, NEW m
  PROVE  Effect(p, m, Kept(p))
<1> DEFINE out == Kept(p)
<1>1. OutcomeAs(out, rec[p], preKeys[p], trusted[p], started[p], FALSE)
  BY KeptIs
<1> HIDE DEF out
<1>2. /\ IsOutcome(out) /\ out.rec = rec[p] /\ out.preKeys = preKeys[p]
      /\ out.trusted = trusted[p] /\ out.started = started[p] /\ out.plaintext = FALSE
  BY <1>1 DEF OutcomeAs, IsOutcome
<1>3. Effect(p, m, out)
  BY <1>2 DEF Effect, Keeps
<1> QED
  BY <1>3 DEF out

\* A message about which no session of p decides may start one.
LEMMA BootstrapEffect ==
  ASSUME IInv, NEW p \in Party, NEW m \in net, m.from = Peer(p), NEW d, Copy(d, m),
         \A i \in 1 .. Len(rec[p]) : Verdict(rec[p][i], d) = "invalid"
  PROVE  Effect(p, m, BootstrapOutcome(p, d))
<1> DEFINE x == d.initial
           new == NewSession("responder", p, x.identity, ResponderSecret(p, x),
                             EphemeralKey(p, started[p]), x)
           out == BootstrapOutcome(p, d)
<1>1. MessageOK(m, started) /\ Peer(p) \in Party /\ Peer(Peer(p)) = p
  BY Peers DEF IInv, Network
<1>2. CASE x = NoInitial \/ ~Acceptable(p, x)
  <2>1. out = Kept(p)
    BY <1>2 DEF BootstrapOutcome
  <2> QED
    BY <2>1, EffectKept
<1>3. CASE ~(x = NoInitial \/ ~Acceptable(p, x))
  <2>1. x # NoInitial /\ Acceptable(p, x)
    BY <1>3
  <2>2. /\ trusted[p] \in {NoKey, x.identity} /\ x.preKeyID \in preKeys[p] \cup {0}
        /\ m.initial # NoInitial
        /\ x.identity \in {IdentityKey(Peer(p)), IdentityKey(Stranger)}
    BY <2>1 DEF Acceptable, IsTrustedIdentity, Copy
  <2>3. CASE x.kyberPreKeyID \notin {0, KyberPreKeyID}
    <3>1. out = RemovePreKey(p, x)
      BY <1>3, <2>3 DEF BootstrapOutcome
    <3>2. OutcomeAs(out, rec[p], preKeys[p] \ {x.preKeyID}, trusted[p], started[p], FALSE)
      BY <3>1, RemovePreKeyIs
    <3> HIDE DEF out
    <3>3. /\ IsOutcome(out) /\ out.rec = rec[p] /\ out.preKeys = preKeys[p] \ {x.preKeyID}
          /\ out.trusted = trusted[p] /\ out.started = started[p] /\ out.plaintext = FALSE
      BY <3>2 DEF OutcomeAs, IsOutcome
    <3>4. Effect(p, m, out)
      BY <3>3 DEF Effect, Keeps
    <3> QED
      BY <3>4 DEF out
  <2>4. CASE x.kyberPreKeyID \in {0, KyberPreKeyID} /\ Verdict(new, d) # "none"
    <3>1. out = SaveIdentity(p, x)
      BY <1>3, <2>4 DEF BootstrapOutcome
    <3>2. OutcomeAs(out, rec[p], preKeys[p] \ {x.preKeyID}, x.identity, started[p], FALSE)
      BY <3>1, SaveIdentityIs
    <3> HIDE DEF out
    <3>3. /\ IsOutcome(out) /\ out.rec = rec[p] /\ out.preKeys = preKeys[p] \ {x.preKeyID}
          /\ out.trusted = x.identity /\ out.started = started[p] /\ out.plaintext = FALSE
      BY <3>2 DEF OutcomeAs, IsOutcome
    <3>4. Effect(p, m, out)
      BY <2>2, <3>3 DEF Effect, Keeps
    <3> QED
      BY <3>4 DEF out
  <2>5. CASE x.kyberPreKeyID \in {0, KyberPreKeyID} /\ Verdict(new, d) = "none"
    <3>1. out = StartSession(p, x, Opened(new, d))
      BY <1>3, <2>5 DEF BootstrapOutcome
    <3>2. OutcomeAs(out, Persisted(Promote(rec[p], Opened(new, d))), preKeys[p] \ {x.preKeyID},
                    x.identity, started[p] + 1, TRUE)
      BY <3>1, StartSessionIs
    <3> HIDE DEF out
    <3>3. /\ IsOutcome(out) /\ out.rec = Persisted(Promote(rec[p], Opened(new, d)))
          /\ out.preKeys = preKeys[p] \ {x.preKeyID}
          /\ out.trusted = x.identity /\ out.started = started[p] + 1 /\ out.plaintext = TRUE
      BY <3>2 DEF OutcomeAs, IsOutcome
    <3>4. new.secret = ResponderSecret(p, x) /\ new.version = ciphertextVersionFromX3DH(x)
      BY DEF NewSession
    <3>5. /\ new.version = d.message.version
          /\ VerifyMAC(d.message, new.remote, new.local,
                       MessageKey(new.secret, d.message.ratchetKey, d.message.counter))
      <4> HIDE DEF new
      <4> QED
        BY <2>5 DEF Verdict, Authenticates
    <3>6. d.message.mac # NoMAC /\ d.message.mac.key.secret = new.secret
      <4> HIDE DEF new
      <4> QED
        BY <3>5, VerifiedSecret
    <3>7. d.message = m.message
      BY <3>6 DEF Copy
    <3>8. SecretIn(m) = ResponderSecret(p, x) /\ ciphertextVersionFromX3DH(x) = m.message.version
      <4> HIDE DEF new
      <4> QED
        BY <3>4, <3>5, <3>6, <3>7 DEF SecretIn
    <3>9. PICK n \in 0 .. started[Peer(p)] - 1, k \in OneTimeIDs, y \in KyberPreKey :
            Announces(m, n, k, y)
      BY <1>1, <2>2 DEF MessageOK
    <3>10. SecretIn(m) = SecretOf(Peer(p), n, k, y) /\ Line(m) = NoKey
      BY <3>9 DEF Announces
    <3>11. x.identity = IdentityKey(Peer(p)) /\ x.preKeyID = k
      <4>1. ResponderSecret(p, x) = SecretOf(Peer(p), n, k, y)
        BY <3>8, <3>10
      <4> QED
        BY <4>1, ResponderSecretBinds
    <3>12. Opened(new, d) = Opened(new, m)
      BY <3>7, VerdictOfCopy
    <3>13. new = NewSession("responder", p, IdentityKey(Peer(p)), SecretIn(m),
                            EphemeralKey(p, started[p]), x)
      BY <3>8, <3>11
    <3>14. StartsWith(p, m, out, x, n, k, y)
      <4> HIDE DEF new
      <4>1. out.rec = Persisted(Promote(rec[p], Opened(new, m)))
        BY <3>3, <3>12
      <4>2. k \in preKeys[p] \cup {0} /\ k \notin out.preKeys
        BY <2>2, <3>3, <3>11
      <4> QED
        BY <2>2, <3>8, <3>9, <3>13, <4>1, <4>2 DEF StartsWith
    <3>15. ASSUME NEW i \in 1 .. Len(rec[p]), rec[p][i].secret = SecretIn(m) PROVE FALSE
      <4>1. Shape(p, rec[p][i], started)
        BY DEF IInv, PartyOK, Good
      <4>2. IsAgreed(Peer(p), started, rec[p][i].secret)
        BY <3>10, <3>15 DEF IsAgreed
      <4>3. rec[p][i].role # "initiator"
        BY <1>1, <4>1, <4>2, AgreedOnce, Peers DEF Shape
      <4>4. Answers(rec[p][i], m)
        BY <3>10, <3>15, <4>3 DEF Answers
      <4>5. Verdict(rec[p][i], m) # "invalid"
        BY <1>1, <2>2, <4>1, <4>4, VerdictIs
      <4> QED
        BY <3>7, <4>5, VerdictOfCopy
    <3>16. Starts(p, m, out)
      BY <3>3, <3>11, <3>14, <3>15 DEF Starts
    <3>17. Effect(p, m, out)
      BY <2>2, <3>3, <3>11, <3>16 DEF Effect
    <3> QED
      BY <3>17 DEF out
  <2> QED
    BY <2>3, <2>4, <2>5
<1> QED
  BY <1>2, <1>3

LEMMA OutcomeEffect ==
  ASSUME IInv, NEW p \in Party, NEW m \in net, m.from = Peer(p), NEW d, Copy(d, m)
  PROVE  Effect(p, m, Outcome(p, d))
<1> DEFINE r == rec[p]
           deciding == Deciding(r, d)
<1>1. /\ MessageOK(m, started) /\ SecretsDiffer(r) /\ Len(r) \in Nat
      /\ \A i \in 1 .. Len(r) : Shape(p, r[i], started)
  <2>1. PartyOK(p, r, trusted[p], preKeys[p], delivered[p], started, net)
    BY DEF IInv
  <2> HIDE DEF r
  <2> QED
    BY <2>1, LenProperties DEF IInv, Network, PartyOK, Good
<1>2. \A i \in 1 .. Len(r) : Verdict(r[i], d) # "invalid" => d.message = m.message /\ Answers(r[i], m)
  BY <1>1, VerdictOfCopy, VerdictIs DEF Copy
<1>3. CASE \E i \in 1 .. Len(r) : Verdict(r[i], d) # "invalid"
  <2>1. PICK i \in 1 .. Len(r) :
          Verdict(r[i], d) # "invalid" /\ d.message = m.message /\ Answers(r[i], m)
    BY <1>2, <1>3
  <2>2. Verdict(r[i], d) = Verdict(r[i], m) /\ Verdict(r[i], m) # "invalid"
    BY <2>1, VerdictOfCopy
  <2>3. \A j \in 1 .. Len(r) : Verdict(r[j], d) # "invalid" => j = i
    BY <1>1, <1>2, <2>1 DEF SecretsDiffer, Answers
  <2>4. deciding = {i}
    <3>1. {j \in 1 .. Len(r) : Verdict(r[j], d) # "invalid"} = {i}
      BY <2>2, <2>3
    <3>2. deciding = {j \in {i} : \A h \in {i} : j <= h}
      BY <3>1 DEF Deciding
    <3> QED
      BY <3>2
  <2>5. (CHOOSE j \in deciding : TRUE) = i
    BY <2>4
  <2> DEFINE opened == [Kept(p) EXCEPT !.rec = Persisted(OpenedRecord(@, i, d)), !.plaintext = TRUE]
  <2>6. Outcome(p, d) = IF Verdict(r[i], d) = "duplicate" THEN Kept(p) ELSE opened
    BY <2>4, <2>5 DEF Outcome
  <2>7. CASE Verdict(r[i], d) = "duplicate"
    BY <2>6, <2>7, EffectKept
  <2>8. CASE Verdict(r[i], d) # "duplicate"
    <3>1. Verdict(r[i], m) = "none"
      BY <1>1, <2>2, <2>8, VerdictIs
    <3>2. OutcomeAs(opened, Persisted(OpenedRecord(rec[p], i, d)), preKeys[p], trusted[p],
                    started[p], TRUE)
      BY OpenOutcomeIs
    <3> HIDE DEF opened
    <3>3. /\ IsOutcome(opened) /\ opened.rec = Persisted(OpenedRecord(rec[p], i, d))
          /\ opened.preKeys = preKeys[p] /\ opened.trusted = trusted[p]
          /\ opened.started = started[p] /\ opened.plaintext = TRUE
      BY <3>2 DEF OutcomeAs, IsOutcome
    <3>4. OpenedRecord(rec[p], i, d) = OpenedRecord(rec[p], i, m)
      <4>1. \A s : Opened(s, d) = Opened(s, m)
        BY <2>1, VerdictOfCopy
      <4> QED
        BY <4>1 DEF OpenedRecord
    <3>5. Opens(p, m, opened)
      BY <3>1, <3>3, <3>4 DEF Opens
    <3>6. Effect(p, m, opened)
      BY <3>3, <3>5 DEF Effect
    <3> QED
      BY <2>6, <2>8, <3>6
  <2> QED
    BY <2>7, <2>8
<1>4. CASE ~(\E i \in 1 .. Len(r) : Verdict(r[i], d) # "invalid")
  <2>1. deciding = {}
    BY <1>4 DEF Deciding
  <2>2. Outcome(p, d) = BootstrapOutcome(p, d)
    BY <2>1 DEF Outcome
  <2>3. Effect(p, m, BootstrapOutcome(p, d))
    BY <1>4, BootstrapEffect
  <2> QED
    BY <2>2, <2>3
<1> QED
  BY <1>3, <1>4

\* A failing store call leaves a part of the effect.
LEMMA InterruptedEffect ==
  ASSUME NEW p, NEW m, NEW whole, Effect(p, m, whole), NEW out \in Interrupted(p, whole)
  PROVE  Effect(p, m, out)
<1> DEFINE k == Kept(p)
<1>1. OutcomeAs(k, rec[p], preKeys[p], trusted[p], started[p], FALSE)
  BY KeptIs
<1> HIDE DEF k
<1>2. CASE out = [k EXCEPT !.preKeys = whole.preKeys]
  <2>1. OutcomeAs(out, rec[p], whole.preKeys, trusted[p], started[p], FALSE)
    BY <1>1, <1>2 DEF OutcomeAs
  <2>2. /\ IsOutcome(out) /\ out.rec = rec[p] /\ out.preKeys = whole.preKeys
        /\ out.trusted = trusted[p] /\ out.started = started[p] /\ out.plaintext = FALSE
    BY <2>1 DEF OutcomeAs, IsOutcome
  <2> QED
    BY <2>2 DEF Effect, Keeps
<1>3. CASE out = [k EXCEPT !.preKeys = whole.preKeys, !.trusted = whole.trusted]
  <2>1. OutcomeAs(out, rec[p], whole.preKeys, whole.trusted, started[p], FALSE)
    BY <1>1, <1>3 DEF OutcomeAs
  <2>2. /\ IsOutcome(out) /\ out.rec = rec[p] /\ out.preKeys = whole.preKeys
        /\ out.trusted = whole.trusted /\ out.started = started[p] /\ out.plaintext = FALSE
    BY <2>1 DEF OutcomeAs, IsOutcome
  <2> QED
    BY <2>2 DEF Effect, Keeps
<1>4. CASE out = [whole EXCEPT !.plaintext = FALSE]
  <2>1. OutcomeAs(out, whole.rec, whole.preKeys, whole.trusted, whole.started, FALSE)
    BY <1>4 DEF Effect, IsOutcome, OutcomeAs
  <2>2. /\ IsOutcome(out) /\ out.rec = whole.rec /\ out.preKeys = whole.preKeys
        /\ out.trusted = whole.trusted /\ out.started = whole.started /\ out.plaintext = FALSE
    BY <2>1 DEF OutcomeAs, IsOutcome
  <2>3. Keeps(p, whole) => Keeps(p, out)
    BY <2>2 DEF Keeps
  <2>4. Opens(p, m, whole) => Opens(p, m, out)
    BY <2>2 DEF Opens
  <2>5. Starts(p, m, whole) => Starts(p, m, out)
    BY <2>2 DEF Starts, StartsWith
  <2> QED
    BY <2>2, <2>3, <2>4, <2>5 DEF Effect
<1> QED
  BY <1>2, <1>3, <1>4 DEF Interrupted, k

-----------------------------------------------------------------------------
(* What a record loses. *)

Forgets(r, q) ==
  \/ q = r \/ q = << >> \/ Sessions(r) \subseteq Sessions(q)
  \/ (/\ Len(r) = MaxArchived + 1
      /\ Sessions(SubSeq(r, 1, MaxArchived)) \subseteq Sessions(q))

LEMMA SessionsWithin ==
  ASSUME NEW r, NEW q,
         \A b \in 1 .. Len(r) : \E a \in 1 .. Len(q) :
           r[b].role = q[a].role /\ r[b].secret = q[a].secret
  PROVE  Sessions(r) \subseteq Sessions(q)
<1> SUFFICES ASSUME NEW e \in Sessions(r) PROVE e \in Sessions(q)
  OBVIOUS
<1>1. PICK b \in 1 .. Len(r) : e = <<r[b].role, r[b].secret>>
  BY DEF Sessions
<1>2. PICK a \in 1 .. Len(q) : r[b].role = q[a].role /\ r[b].secret = q[a].secret
  OBVIOUS
<1>3. e = <<q[a].role, q[a].secret>>
  BY <1>1, <1>2
<1> QED
  BY <1>3 DEF Sessions

LEMMA OpenedForgets ==
  ASSUME NEW r \in Seq(SessionRecords), NEW i \in 1 .. Len(r), NEW x, NEW q,
         OpenedRecordAs(q, r, i, x), x.role = r[i].role, x.secret = r[i].secret
  PROVE  Forgets(r, q)
<1>1. Len(r) \in Nat /\ Len(q) = Len(r)
  BY LenProperties DEF OpenedRecordAs
<1>2. ASSUME NEW b \in 1 .. Len(r)
      PROVE  \E a \in 1 .. Len(q) : r[b].role = q[a].role /\ r[b].secret = q[a].secret
  <2>1. CASE b = i
    <3>1. 1 \in 1 .. Len(q) /\ q[1] = x
      BY <1>1 DEF OpenedRecordAs
    <3> QED
      BY <2>1, <3>1
  <2>2. CASE b < i
    <3>1. b + 1 \in 2 .. Len(r) /\ b + 1 <= i /\ (b + 1) - 1 = b /\ b + 1 \in 1 .. Len(q)
      BY <1>1, <2>2
    <3>2. q[b + 1] = r[b]
      BY <3>1 DEF OpenedRecordAs
    <3> QED
      BY <3>1, <3>2
  <2>3. CASE b > i
    <3>1. b \in 2 .. Len(r) /\ ~(b <= i) /\ b \in 1 .. Len(q)
      BY <1>1, <2>3
    <3>2. q[b] = r[b]
      BY <3>1 DEF OpenedRecordAs
    <3> QED
      BY <3>1, <3>2
  <2> QED
    BY <1>1, <2>1, <2>2, <2>3
<1> QED
  BY <1>2, SessionsWithin DEF Forgets

LEMMA PromotedForgets ==
  ASSUME NEW r \in Seq(SessionRecords), Len(r) <= MaxArchived + 1, NEW x, NEW q, PromotedAs(q, r, x)
  PROVE  Forgets(r, q)
<1>1. Len(r) \in Nat /\ MaxArchived \in Nat \ {0}
  BY LenProperties, SessionAssumption
<1>2. \A b \in 1 .. Len(q) - 1 : b + 1 \in 1 .. Len(q) /\ q[b + 1] = r[b]
  <2>1. Len(q) \in Nat
    BY <1>1 DEF PromotedAs
  <2>2. \A b \in 1 .. Len(q) - 1 : b + 1 \in 2 .. Len(q) /\ (b + 1) - 1 = b /\ b + 1 \in 1 .. Len(q)
    BY <2>1
  <2> QED
    BY <2>2 DEF PromotedAs
<1>3. CASE Len(r) < MaxArchived + 1
  <2>1. Len(q) = Len(r) + 1
    BY <1>3 DEF PromotedAs
  <2>2. Len(q) - 1 = Len(r)
    BY <1>1, <2>1
  <2> QED
    BY <1>2, <2>2, SessionsWithin DEF Forgets
<1>4. CASE ~(Len(r) < MaxArchived + 1)
  <2> DEFINE u == SubSeq(r, 1, MaxArchived)
  <2>1. Len(q) = MaxArchived + 1 /\ Len(r) = MaxArchived + 1
    BY <1>1, <1>4 DEF PromotedAs
  <2>2. Len(q) - 1 = MaxArchived
    BY <1>1, <2>1
  <2>3. \A b \in 1 .. MaxArchived : r[b] \in SessionRecords
    BY <1>1, <2>1, ElementOfSeq
  <2>4. /\ Len(u) = IF 1 <= MaxArchived THEN MaxArchived - 1 + 1 ELSE 0
        /\ \A b \in 1 .. MaxArchived - 1 + 1 : u[b] = r[1 + b - 1]
    BY <1>1, <2>3, SubSeqProperties
  <2> HIDE DEF u
  <2>5. Len(u) = MaxArchived
    BY <1>1, <2>4
  <2>6. \A b \in 1 .. MaxArchived : u[b] = r[b]
    BY <1>1, <2>4
  <2>7. Sessions(u) \subseteq Sessions(q)
    BY <1>2, <2>2, <2>5, <2>6, SessionsWithin
  <2> QED
    BY <2>1, <2>7 DEF Forgets, u
<1> QED
  BY <1>3, <1>4

-----------------------------------------------------------------------------
(* The steps. *)

LEMMA PartyOf ==
  ASSUME IInv, NEW p \in Party
  PROVE  /\ PartyOK(p, rec[p], trusted[p], preKeys[p], delivered[p], started, net)
         /\ started \in [Party -> Nat] /\ Network(net, started) /\ IsFiniteSet(net)
         /\ Grows(started, started)
         /\ rec[p] \in Seq(SessionRecords) /\ Len(rec[p]) \in Nat /\ Len(rec[p]) <= MaxArchived + 1
<1>1. started \in [Party -> 0 .. MaxSessions] /\ MaxSessions \in Nat
  BY SessionAssumption DEF IInv, Stores
<1>2. started \in [Party -> Nat]
  BY <1>1
<1>3. PartyOK(p, rec[p], trusted[p], preKeys[p], delivered[p], started, net) /\ Network(net, started)
  BY DEF IInv
<1>4. rec[p] \in Seq(SessionRecords) /\ Len(rec[p]) <= MaxArchived + 1
  BY <1>3 DEF PartyOK
<1>5. Len(rec[p]) \in Nat
  BY <1>4, LenProperties
<1> QED
  BY <1>2, <1>3, <1>4, <1>5 DEF Grows, Network

LEMMA StartedGrows ==
  ASSUME NEW st, st \in [Party -> Nat], NEW p \in Party, NEW n \in Nat, st[p] <= n, NEW st2,
         st2 = [st EXCEPT ![p] = n]
  PROVE  Grows(st, st2) /\ st2[p] = n
<1>1. st2 \in [Party -> Nat] /\ st2[p] = n /\ \A q \in Party : q # p => st2[q] = st[q]
  OBVIOUS
<1>2. \A q \in Party : st[q] <= st2[q]
  <2> SUFFICES ASSUME NEW q \in Party PROVE st[q] <= st2[q]
    OBVIOUS
  <2>1. CASE q = p
    BY <1>1, <2>1
  <2>2. CASE q # p
    BY <1>1, <2>2
  <2> QED
    BY <2>1, <2>2
<1> QED
  BY <1>1, <1>2 DEF Grows

\* What a call of Decrypt leaves to the party that made it.
LEMMA EffectPreserves ==
  ASSUME IInv, NEW p \in Party, NEW m \in net, m.from = Peer(p), NEW out, Effect(p, m, out),
         NEW st2, st2 = [started EXCEPT ![p] = out.started],
         NEW D2, D2 = IF out.plaintext THEN delivered[p] \cup {m} ELSE delivered[p]
  PROVE  /\ PartyOK(p, out.rec, out.trusted, out.preKeys, D2, st2, net)
         /\ Grows(started, st2)
         /\ Forgets(rec[p], out.rec)
         /\ out.plaintext /\ ~WithoutOneTime => m \notin delivered[p]
<1> DEFINE r == rec[p]
           D == delivered[p]
<1>1. /\ PartyOK(p, r, trusted[p], preKeys[p], D, started, net)
      /\ started \in [Party -> Nat] /\ Network(net, started) /\ IsFiniteSet(net)
      /\ r \in Seq(SessionRecords) /\ Len(r) \in Nat /\ Len(r) <= MaxArchived + 1
  BY PartyOf
<1>2. D2 = D \/ D2 = D \cup {m}
  OBVIOUS
<1>3. out.preKeys \subseteq preKeys[p] /\ (out.trusted = trusted[p] \/ trusted[p] = NoKey)
  BY DEF Effect
<1>4. PartyOK(p, r, out.trusted, out.preKeys, D, started, net)
  BY <1>1, <1>3, PartyStores
<1>5. net \subseteq net /\ \A z \in net \ net : z.from # p
  OBVIOUS
<1> HIDE DEF r, D
<1>6. CASE Keeps(p, out)
  <2>1. out.rec = r /\ st2 = started /\ D2 = D /\ ~out.plaintext
    BY <1>1, <1>6 DEF Keeps, r, D
  <2>2. Grows(started, st2)
    BY <1>1, <2>1 DEF Grows
  <2>3. Forgets(rec[p], out.rec)
    BY <2>1 DEF Forgets, r
  <2>4. PartyOK(p, out.rec, out.trusted, out.preKeys, D2, st2, net)
    BY <1>4, <2>1
  <2> QED
    BY <2>1, <2>2, <2>3, <2>4
<1>7. CASE Opens(p, m, out)
  <2>1. st2 = started
    BY <1>1, <1>7 DEF Opens
  <2>2. PICK i \in 1 .. Len(r) :
          Verdict(r[i], m) = "none" /\ out.rec = Persisted(OpenedRecord(r, i, m))
    BY <1>7 DEF Opens, r
  <2> DEFINE q == OpenedRecord(r, i, m)
             x == Opened(r[i], m)
  <2>3. /\ PartyOK(p, q, out.trusted, out.preKeys, D2, started, net)
        /\ OpenedRecordAs(q, r, i, x)
        /\ x.secret = r[i].secret /\ x.role = r[i].role
        /\ ~WithoutOneTime => m \notin D
    <3> DEFINE tr == out.trusted
               pk == out.preKeys
    <3>1. PartyOK(p, r, tr, pk, D, started, net)
      BY <1>4
    <3> HIDE DEF tr, pk
    <3>2. /\ PartyOK(p, OpenedRecord(r, i, m), tr, pk, D2, started, net)
          /\ OpenedWell(OpenedRecord(r, i, m), r, i, Opened(r[i], m), m, D)
      BY <1>1, <1>2, <2>2, <3>1, PartyOpens
    <3> QED
      BY <3>2 DEF tr, pk, OpenedWell
  <2> HIDE DEF q, x
  <2>4. q \in Seq(SessionRecords) /\ Len(q) = Len(r) /\ Len(q) # 0 /\ Len(q) <= MaxArchived + 1
    BY <1>1, <2>3 DEF OpenedRecordAs
  <2>5. out.rec = q
    BY <2>2, <2>4, PersistedIs DEF q
  <2>6. Forgets(r, q)
    BY <1>1, <2>3, OpenedForgets
  <2>7. Grows(started, st2)
    BY <1>1, <2>1 DEF Grows
  <2> QED
    BY <2>1, <2>3, <2>5, <2>6, <2>7 DEF r, D
<1>8. CASE Starts(p, m, out)
  <2>1. /\ out.trusted = IdentityKey(Peer(p)) /\ out.started = started[p] + 1
        /\ \A i \in 1 .. Len(r) : r[i].secret # SecretIn(m)
    BY <1>8 DEF Starts, r
  <2>2. PICK x : \E n \in 0 .. started[Peer(p)] - 1, k \in OneTimeIDs, y \in KyberPreKey :
          StartsWith(p, m, out, x, n, k, y)
    BY <1>8 DEF Starts
  <2>3. PICK n \in 0 .. started[Peer(p)] - 1, k \in OneTimeIDs, y \in KyberPreKey :
          StartsWith(p, m, out, x, n, k, y)
    BY <2>2
  <2>4. Grows(started, st2) /\ st2[p] = started[p] + 1
    <3>1. started[p] \in Nat /\ started[p] + 1 \in Nat /\ started[p] <= started[p] + 1
      BY <1>1
    <3>2. st2 = [started EXCEPT ![p] = started[p] + 1]
      BY <2>1
    <3> QED
      BY <1>1, <3>1, <3>2, StartedGrows
  <2> DEFINE s == NewSession("responder", p, IdentityKey(Peer(p)), SecretIn(m),
                             EphemeralKey(p, started[p]), x)
             t == Opened(s, m)
             q == Promote(r, t)
  <2>5. /\ m.initial # NoInitial /\ Announces(m, n, k, y)
        /\ ciphertextVersionFromX3DH(x) = m.message.version
        /\ k \in preKeys[p] \cup {0} /\ k \notin out.preKeys
        /\ out.rec = Persisted(q)
    BY <2>3 DEF StartsWith, r
  <2>6. Good(p, t, st2, net, out.preKeys) /\ Repeated(t, m) /\ t.secret = SecretIn(m)
        /\ t.role = "responder"
    <3> DEFINE pk == out.preKeys
    <3>1. k \notin pk
      BY <2>5
    <3> HIDE DEF pk
    <3>2. StartedWell(t, p, m, st2, net, pk)
      BY <1>1, <2>4, <2>5, <3>1, StartedGood
    <3> HIDE DEF t
    <3> QED
      BY <3>2 DEF pk, StartedWell
  <2> HIDE DEF t
  <2>7. PartyOK(p, r, out.trusted, out.preKeys, D, st2, net)
    BY <1>1, <1>4, <1>5, <2>4, PartyGrows
  <2>8. ~WithoutOneTime => \A z \in D : SecretIn(z) # t.secret
    <3> SUFFICES ASSUME ~WithoutOneTime, NEW z \in D, SecretIn(z) = t.secret PROVE FALSE
      OBVIOUS
    <3>1. k # 0
      BY SessionAssumption DEF OneTimeIDs
    <3>2. k \in preKeys[p]
      BY <2>5, <3>1
    <3>3. Spent(p, t.secret, preKeys[p])
      BY <1>1 DEF PartyOK
    <3> DEFINE a == SecretOf(Peer(p), n, k, y)
    <3>4. PartsOf(a, Peer(p), n, k, y)
      BY SecretParts
    <3>5. t.secret = a
      BY <2>5, <2>6 DEF Announces
    <3> HIDE DEF a
    <3>6. PreKey(p, k) \in t.secret[4]
      BY <3>1, <3>4, <3>5, Peers DEF PartsOf
    <3> QED
      BY <3>2, <3>3, <3>6 DEF Spent
  <2>9. /\ PartyOK(p, q, out.trusted, out.preKeys, D2, st2, net)
        /\ PromotedAs(q, r, t)
        /\ ~WithoutOneTime => m \notin D
    <3> DEFINE tr == out.trusted
               pk == out.preKeys
    <3>1. tr = IdentityKey(Peer(p)) /\ PartyOK(p, r, tr, pk, D, st2, net) /\ Good(p, t, st2, net, pk)
          /\ \A i \in 1 .. Len(r) : r[i].secret # t.secret
      BY <1>2, <2>1, <2>6, <2>7
    <3> HIDE DEF tr, pk
    <3>2. /\ PartyOK(p, q, tr, pk, D2, st2, net)
          /\ PromotedAs(q, r, t)
          /\ ~WithoutOneTime => m \notin D
      BY <1>2, <2>6, <2>8, <3>1, PartyStarts
    <3> QED
      BY <3>2 DEF tr, pk
  <2> HIDE DEF q
  <2>10. q \in Seq(SessionRecords) /\ Len(q) # 0 /\ Len(q) <= MaxArchived + 1
    <3>1. MaxArchived \in Nat
      BY SessionAssumption
    <3> QED
      BY <1>1, <2>9, <3>1 DEF PromotedAs
  <2>11. out.rec = q
    BY <2>5, <2>10, PersistedIs
  <2>12. Forgets(r, q)
    BY <1>1, <2>9, PromotedForgets
  <2> QED
    BY <2>4, <2>9, <2>11, <2>12 DEF r, D
<1> QED
  BY <1>6, <1>7, <1>8 DEF Effect
\* A step keeps the invariant, loses sessions only as Forgets says, and is a
\* step of the channel or leaves it alone.
StepOK ==
  /\ IInv'
  /\ \A q \in Party : Forgets(rec[q], rec'[q])
  /\ ~WithoutOneTime => [Channel!Next]_(Channel!channelVars)

LEMMA OtherParty ==
  ASSUME IInv, NEW p \in Party, NEW q, q = Peer(p),
         rec'[q] = rec[q], trusted'[q] = trusted[q], preKeys'[q] = preKeys[q],
         delivered'[q] = delivered[q], Grows(started, started'), net \subseteq net',
         IsFiniteSet(net'), \A m \in net' \ net : m.from = p
  PROVE  PartyOK(q, rec'[q], trusted'[q], preKeys'[q], delivered'[q], started', net')
<1>1. q \in Party /\ q # p
  BY Peers
<1>2. PartyOK(q, rec[q], trusted[q], preKeys[q], delivered[q], started, net)
  BY <1>1 DEF IInv
<1>3. \A m \in net' \ net : m.from # q
  BY <1>1
<1>4. PartyOK(q, rec[q], trusted[q], preKeys[q], delivered[q], started', net')
  BY <1>1, <1>2, <1>3, PartyGrows
<1> QED
  BY <1>4

LEMMA BothParties ==
  ASSUME Stores', Network(net, started)', NEW p \in Party,
         PartyOK(p, rec'[p], trusted'[p], preKeys'[p], delivered'[p], started', net'),
         PartyOK(Peer(p), rec'[Peer(p)], trusted'[Peer(p)], preKeys'[Peer(p)], delivered'[Peer(p)],
                 started', net')
  PROVE  IInv'
<1>1. \A q \in Party : PartyOK(q, rec'[q], trusted'[q], preKeys'[q], delivered'[q], started', net')
  BY Peers
<1> QED
  BY <1>1 DEF IInv

\* A received message, however it came.
LEMMA AppliesOK ==
  ASSUME IInv, NEW p \in Party, NEW m \in To(p), NEW out, Effect(p, m, out), Apply(p, out, m)
  PROVE  StepOK
<1> DEFINE q == Peer(p)
           D2 == IF out.plaintext THEN delivered[p] \cup {m} ELSE delivered[p]
<1>1. q \in Party /\ q # p /\ \A a \in Party : a = p \/ a = q
  BY Peers
<1>2. m \in net /\ m.from = q
  BY DEF To
<1>3. /\ rec \in [Party -> Seq(SessionRecords)] /\ preKeys \in [Party -> SUBSET OneTime]
      /\ trusted \in [Party -> {NoKey} \cup {IdentityKey(a) : a \in Party \cup {Stranger}}]
      /\ started \in [Party -> 0 .. MaxSessions] /\ delivered \in [Party -> SUBSET net]
      /\ plaintexts \in [Party -> Nat] /\ \A a \in Party : trusted[a] # IdentityKey(a)
      /\ published \in [Party -> SUBSET OneTime] /\ expired \in [Party -> BOOLEAN]
  BY DEF IInv, Stores
<1>4. /\ rec' = [rec EXCEPT ![p] = out.rec] /\ preKeys' = [preKeys EXCEPT ![p] = out.preKeys]
      /\ trusted' = [trusted EXCEPT ![p] = out.trusted]
      /\ started' = [started EXCEPT ![p] = out.started] /\ out.started <= MaxSessions
      /\ delivered' = [delivered EXCEPT ![p] = D2]
      /\ plaintexts' = [plaintexts EXCEPT ![p] = IF out.plaintext THEN @ + 1 ELSE @]
      /\ published' = published /\ expired' = expired /\ net' = net
  BY DEF Apply
<1>5. /\ PartyOK(p, out.rec, out.trusted, out.preKeys, D2, started', net)
      /\ Grows(started, started')
      /\ Forgets(rec[p], out.rec)
      /\ out.plaintext /\ ~WithoutOneTime => m \notin delivered[p]
  BY <1>2, <1>4, EffectPreserves
<1>6. /\ out.preKeys \subseteq preKeys[p]
      /\ \/ out.trusted = trusted[p]
         \/ out.trusted \in {IdentityKey(q), IdentityKey(Stranger)}
      /\ out.plaintext \in BOOLEAN
      /\ out.started = started[p] \/ out.started = started[p] + 1
  BY DEF Effect, Keeps, Opens, Starts
<1> HIDE DEF D2, q
<1>7. /\ rec'[p] = out.rec /\ preKeys'[p] = out.preKeys /\ trusted'[p] = out.trusted
      /\ delivered'[p] = D2
      /\ rec'[q] = rec[q] /\ preKeys'[q] = preKeys[q] /\ trusted'[q] = trusted[q]
      /\ delivered'[q] = delivered[q]
  BY <1>1, <1>3, <1>4
<1>8. PartyOK(p, rec'[p], trusted'[p], preKeys'[p], delivered'[p], started', net')
  BY <1>4, <1>5, <1>7
<1>9. IsFiniteSet(net)
  BY PartyOf
<1>10. PartyOK(q, rec'[q], trusted'[q], preKeys'[q], delivered'[q], started', net')
  BY <1>4, <1>5, <1>7, <1>9, OtherParty DEF q
<1>11. Network(net, started)'
  <2>1. Network(net, started)
    BY DEF IInv
  <2>2. Network(net, started')
    BY <1>5, <2>1, MessageGrows DEF Network
  <2> QED
    BY <1>4, <2>2
<1>12. Stores'
  <2>1. rec' \in [Party -> Seq(SessionRecords)]
    <3>1. out.rec \in Seq(SessionRecords)
      BY <1>5 DEF PartyOK
    <3> QED
      BY <1>3, <1>4, <3>1
  <2>2. trusted' \in [Party -> {NoKey} \cup {IdentityKey(a) : a \in Party \cup {Stranger}}]
    <3> DEFINE T == {NoKey} \cup {IdentityKey(a) : a \in Party \cup {Stranger}}
    <3>1. out.trusted \in T
      BY <1>1, <1>3, <1>6
    <3>2. trusted \in [Party -> T]
      BY <1>3
    <3> HIDE DEF T
    <3>3. trusted' \in [Party -> T]
      BY <1>4, <3>1, <3>2
    <3> QED
      BY <3>3 DEF T
  <2>3. \A a \in Party : trusted'[a] # IdentityKey(a)
    <3>1. out.trusted # IdentityKey(p)
      BY <1>1, <1>3, <1>6, KeysDistinct, Peers
    <3> QED
      BY <1>1, <1>3, <1>7, <3>1
  <2>4. preKeys' \in [Party -> SUBSET OneTime]
    BY <1>3, <1>4, <1>6
  <2>5. started' \in [Party -> 0 .. MaxSessions]
    <3>1. out.started \in 0 .. MaxSessions
      BY <1>3, <1>4, <1>6, SessionAssumption
    <3> QED
      BY <1>3, <1>4, <3>1
  <2>6. delivered' \in [Party -> SUBSET net']
    <3>1. D2 \subseteq net
      BY <1>2, <1>3 DEF D2
    <3> QED
      BY <1>3, <1>4, <3>1
  <2>7. plaintexts' \in [Party -> Nat]
    BY <1>3, <1>4
  <2>8. published' \in [Party -> SUBSET OneTime] /\ expired' \in [Party -> BOOLEAN]
    BY <1>3, <1>4
  <2> QED
    BY <2>1, <2>2, <2>3, <2>4, <2>5, <2>6, <2>7, <2>8 DEF Stores
<1>13. IInv'
  BY <1>8, <1>10, <1>11, <1>12, BothParties DEF q
<1>14. \A a \in Party : Forgets(rec[a], rec'[a])
  BY <1>1, <1>5, <1>7 DEF Forgets
<1>15. ASSUME ~WithoutOneTime PROVE [Channel!Next]_(Channel!channelVars)
  <2>1. CASE out.plaintext = TRUE
    <3>1. m \in net \ delivered[p] /\ m.from # p
      BY <1>1, <1>2, <1>5, <1>15, <2>1
    <3>2. /\ delivered' = [delivered EXCEPT ![p] = @ \cup {m}]
          /\ plaintexts' = [plaintexts EXCEPT ![p] = @ + 1]
      BY <1>4, <2>1 DEF D2
    <3>3. Channel!Deliver(p)
      BY <1>4, <3>1, <3>2 DEF Channel!Deliver
    <3> QED
      BY <3>3 DEF Channel!Next
  <2>2. CASE out.plaintext = FALSE
    <3>1. D2 = delivered[p]
      BY <2>2 DEF D2
    <3>2. delivered' = delivered
      BY <1>3, <1>4, <3>1
    <3>3. plaintexts' = plaintexts
      BY <1>3, <1>4, <2>2
    <3> QED
      BY <1>4, <3>2, <3>3 DEF Channel!channelVars
  <2> QED
    BY <1>6, <2>1, <2>2
<1> QED
  BY <1>13, <1>14, <1>15 DEF StepOK

LEMMA DecryptOK ==
  ASSUME IInv, NEW p \in Party, Decrypt(p)
  PROVE  StepOK
<1>1. PICK m \in To(p) : \E out \in {Outcome(p, m)} : Apply(p, out, m)
  BY DEF Decrypt
<1>2. Apply(p, Outcome(p, m), m)
  BY <1>1, Zenon
<1>3. m \in net /\ m.from = Peer(p) /\ MessageOK(m, started)
  BY DEF To, IInv, Network
<1>4. Effect(p, m, Outcome(p, m))
  BY <1>3, MessageIsCopy, OutcomeEffect
<1> QED
  BY <1>2, <1>4, AppliesOK

LEMMA DecryptInterruptedOK ==
  ASSUME IInv, NEW p \in Party, DecryptInterrupted(p)
  PROVE  StepOK
<1>1. PICK m \in To(p) : \E whole \in {Outcome(p, m)} :
        \E out \in Interrupted(p, whole) : Apply(p, out, m)
  BY DEF DecryptInterrupted
<1>2. \E out \in Interrupted(p, Outcome(p, m)) : Apply(p, out, m)
  BY <1>1, Zenon
<1>3. PICK out \in Interrupted(p, Outcome(p, m)) : Apply(p, out, m)
  BY <1>2
<1>4. m \in net /\ m.from = Peer(p) /\ MessageOK(m, started)
  BY DEF To, IInv, Network
<1>5. Effect(p, m, Outcome(p, m))
  BY <1>4, MessageIsCopy, OutcomeEffect
<1>6. Effect(p, m, out)
  BY <1>5, InterruptedEffect
<1> QED
  BY <1>3, <1>6, AppliesOK

LEMMA DecryptDamagedOK ==
  ASSUME IInv, NEW p \in Party, DecryptDamaged(p)
  PROVE  StepOK
<1>1. PICK m \in To(p) : /\ m.initial # NoInitial
                         /\ \E out \in {Outcome(p, d) : d \in Damaged(m)} : Apply(p, out, m)
  BY DEF DecryptDamaged
<1>2. PICK d \in Damaged(m) : Apply(p, Outcome(p, d), m)
  BY <1>1, Zenon
<1>3. m \in net /\ m.from = Peer(p) /\ MessageOK(m, started)
  BY DEF To, IInv, Network
<1>4. Effect(p, m, Outcome(p, d))
  BY <1>1, <1>3, DamagedIsCopy, OutcomeEffect
<1> QED
  BY <1>2, <1>4, AppliesOK

LEMMA DeleteSessionOK ==
  ASSUME IInv, NEW p \in Party, DeleteSession(p)
  PROVE  StepOK
<1> DEFINE q == Peer(p)
<1>1. q \in Party /\ q # p /\ \A a \in Party : a = p \/ a = q
  BY Peers
<1>2. /\ rec' = [rec EXCEPT ![p] = << >>] /\ trusted' = trusted /\ preKeys' = preKeys
      /\ published' = published /\ expired' = expired /\ started' = started /\ net' = net
      /\ delivered' = delivered /\ plaintexts' = plaintexts
  BY DEF DeleteSession
<1>3. rec \in [Party -> Seq(SessionRecords)]
  BY DEF IInv, Stores
<1> HIDE DEF q
<1>4. rec'[p] = << >> /\ rec'[q] = rec[q]
  BY <1>1, <1>2, <1>3
<1>5. PartyOK(p, rec'[p], trusted'[p], preKeys'[p], delivered'[p], started', net')
  <2>1. PartyOK(p, << >>, trusted[p], preKeys[p], delivered[p], started, net)
    BY PartyDeletes DEF IInv
  <2> QED
    BY <1>2, <1>4, <2>1
<1>6. PartyOK(q, rec'[q], trusted'[q], preKeys'[q], delivered'[q], started', net')
  <2>1. Grows(started, started') /\ IsFiniteSet(net') /\ net \subseteq net'
        /\ \A m \in net' \ net : m.from = p
    BY <1>2, PartyOf
  <2> QED
    BY <1>2, <1>4, <2>1, OtherParty DEF q
<1>7. Network(net, started)'
  BY <1>2 DEF IInv
<1>8. Stores'
  <2>1. rec' \in [Party -> Seq(SessionRecords)]
    BY <1>2, <1>3, EmptySeq
  <2> QED
    BY <1>2, <2>1 DEF IInv, Stores
<1>9. IInv'
  BY <1>5, <1>6, <1>7, <1>8, BothParties DEF q
<1>10. \A a \in Party : Forgets(rec[a], rec'[a])
  BY <1>1, <1>4 DEF Forgets
<1> QED
  BY <1>2, <1>9, <1>10 DEF StepOK, Channel!channelVars

LEMMA SignedPreKeyExpiresOK ==
  ASSUME IInv, NEW p \in Party, SignedPreKeyExpires(p)
  PROVE  StepOK
<1>1. /\ expired' = [expired EXCEPT ![p] = TRUE] /\ rec' = rec /\ trusted' = trusted
      /\ preKeys' = preKeys /\ published' = published /\ started' = started /\ net' = net
      /\ delivered' = delivered /\ plaintexts' = plaintexts
  BY DEF SignedPreKeyExpires
<1>2. expired' \in [Party -> BOOLEAN]
  BY <1>1 DEF IInv, Stores
<1>3. Stores'
  BY <1>1, <1>2 DEF IInv, Stores
<1>4. IInv'
  BY <1>1, <1>3 DEF IInv
<1> QED
  BY <1>1, <1>4 DEF StepOK, Forgets, Channel!channelVars

LEMMA EncryptOK ==
  ASSUME IInv, NEW p \in Party, Encrypt(p)
  PROVE  StepOK
<1> DEFINE q == Peer(p)
           r == rec[p]
           m == NextMessage(p, r[1], NoInitial)
           r2 == SentRecord(r)
<1>1. q \in Party /\ q # p /\ \A a \in Party : a = p \/ a = q
  BY Peers
<1>2. /\ net' = net \cup {m} /\ rec' = [rec EXCEPT ![p] = Persisted(r2)]
      /\ trusted' = trusted /\ preKeys' = preKeys
      /\ published' = published /\ expired' = expired /\ started' = started
      /\ delivered' = delivered /\ plaintexts' = plaintexts
      /\ Cardinality(net) < MaxSent /\ r # << >>
  <2>1. /\ net' = net \cup {m} /\ trusted' = trusted /\ preKeys' = preKeys
        /\ published' = published /\ expired' = expired /\ started' = started
        /\ delivered' = delivered /\ plaintexts' = plaintexts
        /\ Cardinality(net) < MaxSent /\ r # << >>
    BY DEF Encrypt, MaySend, ContainsSession, Current
  <2>2. rec' = [rec EXCEPT ![p] = Persisted([rec[p] EXCEPT ![1] = Advanced(rec[p][1])])]
    BY Zenon DEF Encrypt
  <2>3. r2 = [rec[p] EXCEPT ![1] = Advanced(rec[p][1])]
    BY Zenon DEF SentRecord
  <2>4. rec' = [rec EXCEPT ![p] = Persisted(r2)]
    <3> HIDE DEF r2
    <3> QED
      BY <2>2, <2>3, Zenon
  <2> QED
    BY <2>1, <2>4
<1>3. /\ PartyOK(p, r, trusted[p], preKeys[p], delivered[p], started, net)
      /\ started \in [Party -> Nat] /\ Network(net, started) /\ IsFiniteSet(net)
      /\ Grows(started, started)
      /\ r \in Seq(SessionRecords) /\ Len(r) \in Nat /\ Len(r) <= MaxArchived + 1
  BY PartyOf
<1> HIDE DEF q, r
<1>4. /\ m \notin net /\ m.from = p
      /\ Network(net \cup {m}, started)
      /\ PartyOK(p, r2, trusted[p], preKeys[p], delivered[p], started, net \cup {m})
      /\ Len(r2) = Len(r)
      /\ \A a \in 1 .. Len(r) : r2[a].secret = r[a].secret /\ r2[a].role = r[a].role
  <2> DEFINE tr == trusted[p]
             pk == preKeys[p]
             D == delivered[p]
  <2>1. PartyOK(p, r, tr, pk, D, started, net)
    BY <1>3
  <2> HIDE DEF tr, pk, D
  <2>2. SentWell(m, r2, p, r, tr, pk, D, started, net)
    BY <1>2, <1>3, <2>1, PartySends
  <2> HIDE DEF m, r2
  <2> QED
    BY <2>2 DEF tr, pk, D, SentWell
<1> HIDE DEF m, r2
<1>5. r2 \in Seq(SessionRecords) /\ Len(r2) # 0 /\ Len(r2) <= MaxArchived + 1
  <2>1. Len(r) # 0
    BY <1>2, <1>3, EmptySeq
  <2> QED
    BY <1>3, <1>4, <2>1 DEF PartyOK
<1>6. Persisted(r2) = r2
  BY <1>5, PersistedIs
<1>7. rec \in [Party -> Seq(SessionRecords)] /\ delivered \in [Party -> SUBSET net]
  BY DEF IInv, Stores
<1>8. rec'[p] = r2 /\ rec'[q] = rec[q]
  BY <1>1, <1>2, <1>6, <1>7
<1>9. PartyOK(p, rec'[p], trusted'[p], preKeys'[p], delivered'[p], started', net')
  BY <1>2, <1>4, <1>8
<1>10. PartyOK(q, rec'[q], trusted'[q], preKeys'[q], delivered'[q], started', net')
  <2>1. Grows(started, started') /\ IsFiniteSet(net') /\ net \subseteq net'
        /\ \A z \in net' \ net : z.from = p
    BY <1>2, <1>3, <1>4 DEF Network
  <2> QED
    BY <1>2, <1>8, <2>1, OtherParty DEF q
<1>11. Network(net, started)'
  BY <1>2, <1>4
<1>12. Stores'
  <2>1. rec' \in [Party -> Seq(SessionRecords)]
    BY <1>2, <1>5, <1>6, <1>7
  <2>2. delivered' \in [Party -> SUBSET net']
    BY <1>2, <1>7
  <2> QED
    BY <1>2, <2>1, <2>2 DEF IInv, Stores
<1>13. IInv'
  BY <1>9, <1>10, <1>11, <1>12, BothParties DEF q
<1>14. \A a \in Party : Forgets(rec[a], rec'[a])
  <2>1. Sessions(r) \subseteq Sessions(r2)
    BY <1>4, SessionsWithin
  <2> QED
    BY <1>1, <1>8, <2>1 DEF Forgets, r
<1>15. Channel!Next
  <2>1. Channel!Send(p)
    BY <1>2, <1>4 DEF Channel!Send
  <2> QED
    BY <2>1 DEF Channel!Next
<1> QED
  BY <1>13, <1>14, <1>15 DEF StepOK

\* A bundle that is accepted is the peer's, and what X3DH makes of it.
LEMMA BundleIs ==
  ASSUME NEW p \in Party, published[Peer(p)] \subseteq OneTime, NEW b \in Bundles(Peer(p)), Validate(b),
         NEW n
  PROVE  /\ b.identity = IdentityKey(Peer(p)) /\ b.preKey \in OneTimeIDs /\ b.kyber \in KyberPreKey
         /\ InitiatorSecret(p, Peer(p), EphemeralKey(p, n), b) = SecretOf(p, n, b.preKey, b.kyber)
         /\ InitialMessage(p, EphemeralKey(p, n), b) = InitialOf(p, n, b.preKey, b.kyber)
<1> DEFINE q == Peer(p)
           e == EphemeralKey(p, n)
<1>1. /\ b.identity \in {IdentityKey(q), IdentityKey(Stranger)} /\ b.signed = SignedPreKey(q)
      /\ b.preKey \in NextOneTime(q) /\ b.kyber \in KyberPreKey
  BY DEF Bundles
<1>2. b.identity = IdentityKey(q)
  <2>1. \A a : IdentityKey(a)[1] = a
    BY DEF IdentityKey
  <2>2. SignedPreKey(q) = SignedPreKey(b.identity[1])
    BY <1>1 DEF Validate
  <2>3. q = b.identity[1]
    BY <2>2, KeysDistinct
  <2> QED
    BY <1>1, <2>1, <2>3, Peers
<1>3. b.preKey \in OneTimeIDs
  BY <1>1 DEF NextOneTime, OneTimeIDs
<1>4. InitiatorSecret(p, q, e, b) = SecretOf(p, n, b.preKey, b.kyber)
  <2> DEFINE k == b.preKey
             y == b.kyber
             a1 == {IdentityKey(p), SignedPreKey(q)}
             a2 == {e, IdentityKey(q)}
             a3 == {e, SignedPreKey(q)}
             a4 == IF k = 0 THEN {} ELSE {e, PreKey(q, k)}
  <2>1. InitiatorSecret(p, q, e, b) = Append(<<a1, a2, a3, a4>>, y)
    BY <1>1, <1>2 DEF InitiatorSecret, DeriveSecret, DH
  <2>2. SecretOf(p, n, k, y) = <<a1, a2, a3, a4, y>>
    BY DEF SecretOf, DH
  <2> HIDE DEF a1, a2, a3, a4, y
  <2>3. InitiatorSecret(p, q, e, b) = SecretOf(p, n, k, y)
    BY <2>1, <2>2, AppendFifth
  <2> QED
    BY <2>3 DEF y
<1>5. InitialMessage(p, e, b) = InitialOf(p, n, b.preKey, b.kyber)
  BY DEF InitialMessage, InitialOf
<1> QED
  BY <1>1, <1>2, <1>3, <1>4, <1>5

LEMMA EncryptWithPreKeyBundleOK ==
  ASSUME IInv, NEW p \in Party, EncryptWithPreKeyBundle(p)
  PROVE  StepOK
<1> DEFINE q == Peer(p)
           n == started[p]
           e == EphemeralKey(p, n)
<1>1. q \in Party /\ q # p /\ \A a \in Party : a = p \/ a = q
  BY Peers
<1>2. PICK b \in Bundles(q) :
        LET x == InitialMessage(p, e, b)
            s == NewSession("initiator", p, b.identity, InitiatorSecret(p, q, e, b), NoKey, x)
        IN  /\ MaySend /\ n < MaxSessions
            /\ ~ContainsSession(p)
            /\ ProcessPreKeyBundle(p, b)
            /\ published' = [published EXCEPT ![q] = @ \ {b.preKey}]
            /\ \/ /\ net' = net \cup {NextMessage(p, s, x)}
                  /\ rec' = [rec EXCEPT ![p] = Persisted(NewRecord(Advanced(s)))]
                  /\ started' = [started EXCEPT ![p] = @ + 1]
               \/ /\ p \in Interrupts
                  /\ UNCHANGED <<net, rec, started>>
            /\ UNCHANGED <<preKeys, expired, delivered, plaintexts>>
  BY DEF EncryptWithPreKeyBundle
<1>3. /\ rec \in [Party -> Seq(SessionRecords)] /\ delivered \in [Party -> SUBSET net]
      /\ trusted \in [Party -> {NoKey} \cup {IdentityKey(a) : a \in Party \cup {Stranger}}]
      /\ started \in [Party -> 0 .. MaxSessions] /\ \A a \in Party : trusted[a] # IdentityKey(a)
      /\ published \in [Party -> SUBSET OneTime]
  BY DEF IInv, Stores
<1> DEFINE k == b.preKey
           y == b.kyber
           x == InitialOf(p, n, k, y)
           s == NewSession("initiator", p, IdentityKey(q), SecretOf(p, n, k, y), NoKey, x)
           m == NextMessage(p, s, x)
<1>4. /\ b.identity = IdentityKey(q) /\ k \in OneTimeIDs /\ y \in KyberPreKey
      /\ InitiatorSecret(p, q, e, b) = SecretOf(p, n, k, y) /\ InitialMessage(p, e, b) = x
  <2>1. Validate(b) /\ published[q] \subseteq OneTime
    BY <1>1, <1>2, <1>3 DEF ProcessPreKeyBundle
  <2> QED
    BY <2>1, BundleIs
<1>5. /\ Cardinality(net) < MaxSent /\ n < MaxSessions /\ rec[p] = << >>
      /\ trusted' = [trusted EXCEPT ![p] = IdentityKey(q)]
      /\ trusted[p] = NoKey \/ trusted[p] = IdentityKey(q)
      /\ published' = [published EXCEPT ![q] = @ \ {k}]
      /\ preKeys' = preKeys /\ expired' = expired /\ delivered' = delivered
      /\ plaintexts' = plaintexts
  BY <1>2, <1>4 DEF MaySend, ContainsSession, ProcessPreKeyBundle, IsTrustedIdentity
<1>6. \/ /\ net' = net \cup {m}
         /\ rec' = [rec EXCEPT ![p] = Persisted(<<Advanced(s)>>)]
         /\ started' = [started EXCEPT ![p] = @ + 1]
      \/ net' = net /\ rec' = rec /\ started' = started
  BY <1>2, <1>4 DEF NewRecord
<1>7. /\ PartyOK(p, << >>, trusted[p], preKeys[p], delivered[p], started, net)
      /\ started \in [Party -> Nat] /\ Network(net, started) /\ IsFiniteSet(net)
      /\ Grows(started, started) /\ n \in Nat
  BY <1>5, PartyOf
<1> HIDE DEF q, k, y, x, s, m, n
<1>8. trusted'[p] = IdentityKey(q) /\ trusted'[q] = trusted[q]
  BY <1>1, <1>3, <1>5
<1>9. /\ trusted' \in [Party -> {NoKey} \cup {IdentityKey(a) : a \in Party \cup {Stranger}}]
      /\ \A a \in Party : trusted'[a] # IdentityKey(a)
      /\ published' \in [Party -> SUBSET OneTime]
  <2> DEFINE T == {NoKey} \cup {IdentityKey(a) : a \in Party \cup {Stranger}}
  <2>1. IdentityKey(q) \in T /\ trusted \in [Party -> T]
    BY <1>1, <1>3
  <2> HIDE DEF T
  <2>2. trusted' \in [Party -> T]
    BY <1>5, <2>1
  <2>3. \A a \in Party : trusted'[a] # IdentityKey(a)
    BY <1>1, <1>3, <1>8, KeysDistinct
  <2>4. published' \in [Party -> SUBSET OneTime]
    BY <1>3, <1>5
  <2> QED
    BY <2>2, <2>3, <2>4 DEF T
<1>10. CASE net' = net /\ rec' = rec /\ started' = started
  <2>1. PartyOK(p, rec'[p], trusted'[p], preKeys'[p], delivered'[p], started', net')
    <3>1. PartyOK(p, << >>, IdentityKey(q), preKeys[p], delivered[p], started, net)
      BY <1>5, <1>7, PartyStores
    <3> QED
      BY <1>5, <1>8, <1>10, <3>1
  <2>2. PartyOK(q, rec'[q], trusted'[q], preKeys'[q], delivered'[q], started', net')
    BY <1>1, <1>5, <1>7, <1>8, <1>10, OtherParty DEF q
  <2>3. Network(net, started)'
    BY <1>7, <1>10
  <2>4. Stores'
    BY <1>5, <1>9, <1>10 DEF IInv, Stores
  <2>5. IInv'
    BY <2>1, <2>2, <2>3, <2>4, BothParties DEF q
  <2> QED
    BY <1>5, <1>10, <2>5 DEF StepOK, Forgets, Channel!channelVars
<1>11. CASE /\ net' = net \cup {m}
            /\ rec' = [rec EXCEPT ![p] = Persisted(<<Advanced(s)>>)]
            /\ started' = [started EXCEPT ![p] = @ + 1]
  <2>1. Grows(started, started') /\ started'[p] = n + 1 /\ started[p] = n
    <3>1. started[p] = n /\ n + 1 \in Nat /\ n <= n + 1
      BY <1>7 DEF n
    <3>2. started' = [started EXCEPT ![p] = n + 1]
      BY <1>11, <3>1
    <3> QED
      BY <1>7, <3>1, <3>2, StartedGrows
  <2>2. /\ m \notin net /\ m.from = p
        /\ Network(net \cup {m}, started')
        /\ Advanced(s) \in SessionRecords
        /\ PartyOK(p, <<Advanced(s)>>, IdentityKey(q), preKeys[p], delivered[p], started', net \cup {m})
    <3> DEFINE tr == trusted[p]
               pk == preKeys[p]
               D == delivered[p]
               st2 == started'
    <3>1. PartyOK(p, << >>, tr, pk, D, started, net)
      BY <1>7
    <3>2. Grows(started, st2) /\ st2[p] = started[p] + 1
      BY <2>1
    <3> HIDE DEF tr, pk, D, st2
    <3>3. /\ m \notin net /\ m.from = p
          /\ Network(net \cup {m}, st2)
          /\ Advanced(s) \in SessionRecords
          /\ PartyOK(p, <<Advanced(s)>>, IdentityKey(Peer(p)), pk, D, st2, net \cup {m})
      BY <1>4, <1>5, <1>7, <3>1, <3>2, PartyBegins DEF m, s, x, n, q
    <3> QED
      BY <3>3 DEF pk, D, st2, q
  <2> DEFINE r2 == <<Advanced(s)>>
  <2>3. r2 \in Seq(SessionRecords) /\ Len(r2) = 1
    BY <2>2, SingletonSeq
  <2> HIDE DEF r2
  <2>4. Persisted(r2) = r2
    <3>1. Len(r2) # 0 /\ Len(r2) <= MaxArchived + 1
      BY <2>3, SessionAssumption
    <3> QED
      BY <2>3, <3>1, PersistedIs
  <2>5. rec' = [rec EXCEPT ![p] = r2] /\ rec'[p] = r2 /\ rec'[q] = rec[q]
    BY <1>1, <1>3, <1>11, <2>4 DEF r2
  <2>6. PartyOK(p, rec'[p], trusted'[p], preKeys'[p], delivered'[p], started', net')
    BY <1>5, <1>8, <1>11, <2>2, <2>5 DEF r2
  <2>7. PartyOK(q, rec'[q], trusted'[q], preKeys'[q], delivered'[q], started', net')
    <3>1. IsFiniteSet(net') /\ net \subseteq net' /\ \A z \in net' \ net : z.from = p
      BY <1>11, <2>2 DEF Network
    <3> QED
      BY <1>5, <1>8, <2>1, <2>5, <3>1, OtherParty DEF q
  <2>8. Network(net, started)'
    BY <1>11, <2>2
  <2>9. Stores'
    <3>1. rec' \in [Party -> Seq(SessionRecords)]
      BY <1>3, <2>3, <2>5
    <3>2. delivered' \in [Party -> SUBSET net']
      BY <1>3, <1>5, <1>11
    <3>3. started' \in [Party -> 0 .. MaxSessions]
      <4>1. n + 1 \in 0 .. MaxSessions
        BY <1>5, <1>7, SessionAssumption
      <4>2. started' = [started EXCEPT ![p] = n + 1]
        BY <1>11, <2>1
      <4> QED
        BY <1>3, <4>1, <4>2
    <3> QED
      BY <1>5, <1>9, <3>1, <3>2, <3>3 DEF IInv, Stores
  <2>10. IInv'
    BY <2>6, <2>7, <2>8, <2>9, BothParties DEF q
  <2>11. \A a \in Party : Forgets(rec[a], rec'[a])
    <3>1. Sessions(<< >>) \subseteq Sessions(r2)
      <4>1. 1 .. Len(<< >>) = {}
        BY EmptySeq
      <4> QED
        BY <4>1 DEF Sessions
    <3> QED
      BY <1>1, <1>5, <2>5, <3>1 DEF Forgets
  <2>12. Channel!Next
    <3>1. Channel!Send(p)
      BY <1>5, <1>11, <2>2 DEF Channel!Send
    <3> QED
      BY <3>1 DEF Channel!Next
  <2> QED
    BY <2>10, <2>11, <2>12 DEF StepOK
<1> QED
  BY <1>6, <1>10, <1>11

-----------------------------------------------------------------------------
(* The invariant. *)

LEMMA InitOK == Init => IInv
<1> SUFFICES ASSUME Init PROVE IInv
  OBVIOUS
<1>1. Stores
  <2>1. << >> \in Seq(SessionRecords)
    BY EmptySeq
  <2>2. rec \in [Party -> Seq(SessionRecords)]
    BY <2>1 DEF Init
  <2>3. 0 \in 0 .. MaxSessions
    BY SessionAssumption
  <2>4. started \in [Party -> 0 .. MaxSessions]
    BY <2>3 DEF Init
  <2>5. /\ trusted \in [Party -> {NoKey} \cup {IdentityKey(p) : p \in Party \cup {Stranger}}]
        /\ \A p \in Party : trusted[p] # IdentityKey(p)
    BY KeysDistinct DEF Init
  <2> QED
    BY <2>2, <2>4, <2>5 DEF Init, Stores
<1>2. Network(net, started)
  BY FS_EmptySet, SessionAssumption DEF Init, Network
<1>3. ASSUME NEW p \in Party
      PROVE  PartyOK(p, rec[p], trusted[p], preKeys[p], delivered[p], started, net)
  <2>1. rec[p] = << >> /\ delivered[p] = {}
    BY DEF Init
  <2>2. << >> \in Seq(SessionRecords) /\ Len(<< >>) = 0
    BY EmptySeq
  <2>3. 1 .. Len(<< >>) = {} /\ 0 <= MaxArchived + 1
    BY <2>2, SessionAssumption
  <2> QED
    BY <2>1, <2>2, <2>3 DEF PartyOK, SecretsDiffer
<1> QED
  BY <1>1, <1>2, <1>3 DEF IInv

LEMMA NextOK ==
  ASSUME IInv, [Next]_vars
  PROVE  StepOK
<1>1. CASE Next
  <2>1. PICK p \in Party :
          \/ EncryptWithPreKeyBundle(p) \/ Encrypt(p)
          \/ Decrypt(p) \/ DecryptInterrupted(p) \/ DecryptDamaged(p)
          \/ DeleteSession(p) \/ SignedPreKeyExpires(p)
    BY <1>1 DEF Next
  <2> QED
    BY <2>1, EncryptWithPreKeyBundleOK, EncryptOK, DecryptOK, DecryptInterruptedOK,
       DecryptDamagedOK, DeleteSessionOK, SignedPreKeyExpiresOK
<1>2. CASE UNCHANGED vars
  <2>1. /\ rec' = rec /\ trusted' = trusted /\ preKeys' = preKeys /\ published' = published
        /\ expired' = expired /\ started' = started /\ net' = net /\ delivered' = delivered
        /\ plaintexts' = plaintexts
    BY <1>2 DEF vars
  <2>2. IInv'
    BY <2>1 DEF IInv, Stores
  <2> QED
    BY <2>1, <2>2 DEF StepOK, Forgets, Channel!channelVars
<1> QED
  BY <1>1, <1>2

\* The inductive invariant holds in every state: records, stores, messages and
\* the two ends of every session fit together, whatever is lost, repeated,
\* damaged, interrupted, deleted or expired.
THEOREM Invariance == Spec => []IInv
<1>1. Init => IInv
  BY InitOK
<1>2. IInv /\ [Next]_vars => IInv'
  BY NextOK DEF StepOK
<1> QED
  BY <1>1, <1>2, PTL DEF Spec

-----------------------------------------------------------------------------
(* What the invariant says. *)

LEMMA SessionCounts ==
  ASSUME IInv, NEW p \in Party, NEW i \in 1 .. Len(rec[p])
  PROVE  /\ rec[p][i].role \in {"initiator", "responder"}
         /\ rec[p][i].sends \in 1 .. MaxSent + 1
         /\ rec[p][i].got \subseteq 0 .. MaxSent
<1> DEFINE s == rec[p][i]
<1>1. Good(p, s, started, net, preKeys[p]) /\ Network(net, started) /\ IsFiniteSet(net)
  BY PartyOf DEF PartyOK
<1> HIDE DEF s
<1>2. s \in SessionRecords /\ s.sends # 0 /\ Heard(p, s, net)
  BY <1>1 DEF Good, Shape
<1>3. s.role \in {"initiator", "responder"} /\ s.sends \in Nat
  BY <1>2 DEF SessionRecords
<1>4. Cardinality(net) \in Nat /\ Cardinality(net) <= MaxSent /\ MaxSent \in Nat
  BY <1>1, FS_CardinalityType, SessionAssumption DEF Network
<1>5. s.sends \in 1 .. MaxSent + 1
  <2> DEFINE c == Cardinality(HeardBy(p, s, net))
  <2>1. c \in Nat /\ c <= Cardinality(net)
    BY <1>1, HeardByCounts
  <2>2. s.sends <= c + 1
    BY <1>2 DEF Heard
  <2> HIDE DEF c
  <2> QED
    BY <1>2, <1>3, <1>4, <2>1, <2>2
<1>6. s.got \subseteq 0 .. MaxSent
  <2> SUFFICES ASSUME NEW n \in s.got PROVE n \in 0 .. MaxSent
    OBVIOUS
  <2>1. PICK m \in net : m.message.counter = n
    BY <1>2 DEF Heard
  <2>2. n \in Nat /\ n < Cardinality(net)
    BY <1>1, <2>1 DEF Network, MessageOK
  <2> QED
    BY <1>4, <2>2
<1> QED
  BY <1>3, <1>5, <1>6 DEF s

LEMMA Typed == IInv => TypeOK
<1> SUFFICES ASSUME IInv PROVE TypeOK
  OBVIOUS
<1>1. ASSUME NEW p \in Party
      PROVE  /\ Len(rec[p]) <= MaxArchived + 1
             /\ trusted[p] \in {NoKey, IdentityKey(Peer(p)), IdentityKey(Stranger)}
             /\ preKeys[p] \subseteq OneTime
             /\ published[p] \subseteq OneTime
             /\ delivered[p] \subseteq To(p)
  <2>1. Len(rec[p]) <= MaxArchived + 1
    BY <1>1, PartyOf
  <2>2. trusted[p] \in {NoKey, IdentityKey(Peer(p)), IdentityKey(Stranger)}
    <3>1. trusted[p] \in {NoKey} \cup {IdentityKey(a) : a \in Party \cup {Stranger}}
          /\ trusted[p] # IdentityKey(p)
      BY <1>1 DEF IInv, Stores
    <3> QED
      BY <1>1, <3>1, Peers
  <2>3. preKeys[p] \subseteq OneTime /\ published[p] \subseteq OneTime
    BY <1>1 DEF IInv, Stores
  <2>4. delivered[p] \subseteq To(p)
    <3>1. PartyOK(p, rec[p], trusted[p], preKeys[p], delivered[p], started, net)
      BY <1>1, PartyOf
    <3> QED
      BY <3>1 DEF PartyOK, To
  <2> QED
    BY <2>1, <2>2, <2>3, <2>4
<1>2. /\ expired \in [Party -> BOOLEAN] /\ started \in [Party -> 0 .. MaxSessions]
      /\ plaintexts \in [Party -> Nat]
  BY DEF IInv, Stores
<1> QED
  BY <1>1, <1>2, SessionCounts DEF TypeOK

\* Every variable keeps its type for any number of sessions, messages and
\* archived sessions; the record stays within its archive (record.go: Promote
\* and Serialize truncate it) and the counters of a session within the number
\* of messages that were ever sent.
THEOREM TypeCorrect == Spec => []TypeOK
<1> QED
  BY Invariance, Typed, PTL

LEMMA Genuine == IInv => SessionsGenuine
<1> SUFFICES ASSUME IInv, NEW p \in Party, NEW i \in 1 .. Len(rec[p])
             PROVE  /\ trusted[p] = IdentityKey(Peer(p))
                    /\ \E m \in net : m.initial # NoInitial /\ m.message.mac.key.secret = rec[p][i].secret
                                      /\ (m.from = p <=> rec[p][i].role = "initiator")
  BY DEF SessionsGenuine
<1>1. PartyOK(p, rec[p], trusted[p], preKeys[p], delivered[p], started, net)
  BY PartyOf
<1>2. rec[p] # << >>
  BY EmptySeq
<1>3. trusted[p] = IdentityKey(Peer(p))
  BY <1>1, <1>2 DEF PartyOK
<1>4. Announced(p, rec[p][i], net)
  BY <1>1 DEF PartyOK, Good
<1> QED
  BY <1>3, <1>4 DEF Announced, SecretIn

\* Whatever is damaged, interrupted or deleted, a stored session is one that an
\* initiator announced to its peer, and the identity key stored for the peer is
\* the peer's own (Builder.ProcessPreKeyMessage, WireCipher.decryptPreKeyMessage).
THEOREM SessionsAreGenuine == Spec => []SessionsGenuine
<1> QED
  BY Invariance, Genuine, PTL

-----------------------------------------------------------------------------
(* The two ends of a session. *)

\* The other end of s answers the next message of s.
LEMMA OtherEndAnswers ==
  ASSUME NEW p \in Party, NEW s, NEW t, NEW st, Shape(p, s, st), Shape(Peer(p), t, st), Ends(s, t),
         NEW m, SentAs(m, p, s, NoInitial)
  PROVE  Answers(t, m)
<1>1. t.secret = SecretIn(m) /\ Line(m) = s.line
  BY DEF SentAs, Ends
<1>2. s.role \in {"initiator", "responder"} /\ t.role \in {"initiator", "responder"} /\ s.role # t.role
  BY DEF Ends, Shape, SessionRecords
<1>3. s.line = t.line \/ s.line = NoKey \/ t.line = NoKey
  BY DEF Ends
<1>4. s.role # "initiator" => s.line # NoKey
  BY NoLineIsNoKey DEF Shape
<1>5. t.role # "initiator" => t.line # NoKey
  BY NoLineIsNoKey DEF Shape
<1> QED
  BY <1>1, <1>2, <1>3, <1>4, <1>5 DEF Answers

\* It has not received anything that s has not yet sent.
LEMMA OtherEndBehind ==
  ASSUME NEW p \in Party, NEW s, NEW t, NEW st, NEW N, NEW pk, NEW pk2,
         Good(p, s, st, N, pk), Good(Peer(p), t, st, N, pk2), Ends(s, t),
         NEW m, SentAs(m, p, s, NoInitial)
  PROVE  ~Repeated(t, m)
<1>1. s.sends \in Nat /\ s.sends # 0 /\ s.Ns \in Nat /\ t.receives \in Nat /\ Chain(m) = s.sends
      /\ m.message.counter = s.Ns
  BY DEF Good, Shape, SessionRecords, SentAs
<1>2. ASSUME NEW n \in t.got
      PROVE  t.receives < s.sends \/ (t.receives = s.sends /\ n < s.Ns)
  <2>1. PICK y \in N : /\ y.from = Peer(Peer(p)) /\ SecretIn(y) = t.secret
                       /\ Chain(y) = t.receives /\ y.message.counter = n
                       /\ t.role = "initiator" => Line(y) = t.line
    BY <1>2 DEF Good, Heard
  <2>2. y.from = p /\ SecretIn(y) = s.secret
    BY <2>1, Peers DEF Ends
  <2>3. s.role = "initiator" \/ Line(y) = s.line
    <3> SUFFICES ASSUME s.role # "initiator" PROVE Line(y) = s.line
      OBVIOUS
    <3>1. s.role \in {"initiator", "responder"} /\ t.role \in {"initiator", "responder"}
          /\ s.role # t.role
      BY DEF Ends, Good, Shape, SessionRecords
    <3>2. t.role = "initiator" /\ Line(y) = t.line
      BY <2>1, <3>1
    <3>3. s.line # NoKey
      BY NoLineIsNoKey DEF Good, Shape
    <3>4. t.receives # 0
      BY <1>2 DEF Good, Shape
    <3>5. t.line # NoKey
      BY <3>2, <3>4, NoLineIsNoKey DEF Good, Shape
    <3> QED
      BY <3>2, <3>3, <3>5 DEF Ends
  <2>4. Chain(y) < s.sends \/ (Chain(y) = s.sends /\ y.message.counter < s.Ns)
    BY <2>2, <2>3 DEF Good, Ahead
  <2> QED
    BY <2>1, <2>4
<1>3. CASE t.receives = 0
  <2>1. t.receives < s.sends
    BY <1>1, <1>3
  <2> QED
    BY <1>1, <2>1 DEF Repeated
<1>4. CASE t.receives # 0
  <2>1. PICK n : n \in t.got
    BY <1>4 DEF Good, Shape
  <2>2. t.receives <= s.sends
    BY <1>1, <1>2, <2>1
  <2>3. t.receives = s.sends => s.Ns \notin t.got
    BY <1>1, <1>2
  <2> QED
    BY <1>1, <2>2, <2>3 DEF Repeated
<1> QED
  BY <1>3, <1>4

\* The keys to store for a message n fit if no more than MaxSkip messages
\* before it are missing: they are those that are stored already, and those
\* between the two numbers.
LEMMA SkipFits ==
  ASSUME NEW t, t.Nr \in Nat, t.got \subseteq 0 .. t.Nr - 1, NEW n \in Nat,
         Cardinality(Missing(t, n)) <= MaxSkip
  PROVE  CanSkip(Cardinality(Missing(t, t.Nr)), t.Nr, n)
<1> DEFINE nr == t.Nr
           stored == Missing(t, nr)
           between == nr .. n - 1
<1> SUFFICES ASSUME nr < n PROVE Cardinality(stored) + (n - nr) <= MaxSkip
  BY DEF CanSkip
<1>1. IsFiniteSet(stored) /\ Cardinality(stored) \in Nat
  <2>1. IsFiniteSet(0 .. nr - 1)
    <3>1. nr - 1 \in Int
      OBVIOUS
    <3> QED
      BY <3>1, FS_Interval
  <2>2. stored \in SUBSET (0 .. nr - 1)
    BY DEF Missing
  <2> QED
    BY <2>1, <2>2, FS_Subset, FS_CardinalityType
<1>2. IsFiniteSet(between) /\ Cardinality(between) = n - nr
  <2>1. nr \in Int /\ n - 1 \in Int /\ nr <= n - 1
    OBVIOUS
  <2> QED
    BY <2>1, FS_Interval
<1>3. Missing(t, n) = stored \cup between
  BY DEF Missing
<1>4. stored \cap between = {}
  BY DEF Missing
<1> HIDE DEF stored, between
<1>5. Cardinality(stored \cup between)
      = Cardinality(stored) + Cardinality(between) - Cardinality(stored \cap between)
  BY <1>1, <1>2, FS_Union
<1>6. Cardinality(stored \cap between) = 0
  BY <1>4, FS_EmptySet
<1> QED
  BY <1>1, <1>2, <1>3, <1>5, <1>6

\* It can skip to the next message while it misses no more than the limit.
LEMMA OtherEndSkips ==
  ASSUME NEW p \in Party, NEW s, NEW t, NEW st, Shape(p, s, st), Shape(Peer(p), t, st),
         WithinSkip(s, t), NEW m, SentAs(m, p, s, NoInitial)
  PROVE  SkipsTo(t, m)
<1>1. /\ s.Ns \in Nat /\ s.PN \in Nat /\ t.Nr \in Nat /\ t.got \subseteq 0 .. t.Nr - 1
      /\ MaxSkip \in Nat
  BY SessionFields, SessionAssumption DEF Shape
<1>2. Chain(m) = s.sends /\ m.message.counter = s.Ns /\ m.message.previousCounter = s.PN
  BY DEF SentAs
<1>3. CASE s.sends = t.receives
  <2>1. CanSkip(Cardinality(Missing(t, t.Nr)), t.Nr, s.Ns)
    BY <1>1, <1>3, SkipFits DEF WithinSkip
  <2> QED
    BY <1>2, <1>3, <2>1 DEF SkipsTo
<1>4. CASE s.sends # t.receives
  <2>1. CanSkip(Cardinality(Missing(t, t.Nr)), t.Nr, s.PN)
    BY <1>1, <1>4, SkipFits DEF WithinSkip
  <2>2. CanSkip(0, 0, s.Ns)
    BY <1>1, <1>4 DEF WithinSkip, CanSkip
  <2> QED
    BY <1>2, <1>4, <2>1, <2>2 DEF SkipsTo
<1> QED
  BY <1>3, <1>4

\* The one session that takes m decides about it.
LEMMA DecidedBy ==
  ASSUME IInv, NEW q \in Party, NEW m, NEW i \in 1 .. Len(rec[q]),
         MessageOK(m, started), m.from = Peer(q), Answers(rec[q][i], m), ~Repeated(rec[q][i], m),
         SkipsTo(rec[q][i], m)
  PROVE  Outcome(q, m).plaintext
<1> DEFINE r == rec[q]
           deciding == Deciding(r, m)
<1>1. SecretsDiffer(r) /\ \A j \in 1 .. Len(r) : Shape(q, r[j], started)
  BY PartyOf DEF PartyOK, Good
<1>2. \A j \in 1 .. Len(r) : Verdict(r[j], m) # "invalid" => Answers(r[j], m)
  BY <1>1, VerdictIs
<1>3. Verdict(r[i], m) = "none"
  BY <1>1, VerdictIs
<1>4. \A j \in 1 .. Len(r) : Verdict(r[j], m) # "invalid" => j = i
  BY <1>1, <1>2 DEF SecretsDiffer, Answers
<1>5. deciding = {i}
  <2>1. {j \in 1 .. Len(r) : Verdict(r[j], m) # "invalid"} = {i}
    BY <1>3, <1>4
  <2>2. deciding = {j \in {i} : \A h \in {i} : j <= h}
    BY <2>1 DEF Deciding
  <2> QED
    BY <2>2
<1>6. (CHOOSE j \in deciding : TRUE) = i
  BY <1>5
<1> DEFINE opened == [Kept(q) EXCEPT !.rec = Persisted(OpenedRecord(@, i, m)), !.plaintext = TRUE]
<1>7. Outcome(q, m) = opened
  BY <1>3, <1>5, <1>6 DEF Outcome
<1>8. OutcomeAs(opened, Persisted(OpenedRecord(rec[q], i, m)), preKeys[q], trusted[q], started[q], TRUE)
  BY OpenOutcomeIs
<1> HIDE DEF opened
<1>9. opened.plaintext = TRUE
  BY <1>8 DEF OutcomeAs
<1> QED
  BY <1>7, <1>9

LEMMA NextOpens == IInv => NextMessageOpens
<1> SUFFICES ASSUME IInv, NEW p \in Party, rec[p] # << >>,
                    NEW i \in 1 .. Len(rec[Peer(p)]), Ends(Current(rec[p]), rec[Peer(p)][i]),
                    WithinSkip(Current(rec[p]), rec[Peer(p)][i])
             PROVE  Outcome(Peer(p), NextMessage(p, Current(rec[p]), NoInitial)).plaintext
  BY DEF NextMessageOpens
<1> DEFINE q == Peer(p)
           s == rec[p][1]
           t == rec[q][i]
           m == NextMessage(p, s, NoInitial)
<1>1. q \in Party /\ Peer(q) = p
  BY Peers
<1>2. Ends(s, t) /\ WithinSkip(s, t)
  BY DEF Current
<1>3. Good(p, s, started, net, preKeys[p])
  <2>1. /\ PartyOK(p, rec[p], trusted[p], preKeys[p], delivered[p], started, net)
        /\ rec[p] \in Seq(SessionRecords) /\ Len(rec[p]) \in Nat
    BY PartyOf
  <2>2. 1 \in 1 .. Len(rec[p])
    BY <2>1, EmptySeq
  <2> QED
    BY <2>1, <2>2 DEF PartyOK
<1>4. Good(q, t, started, net, preKeys[q])
  <2>1. PartyOK(q, rec[q], trusted[q], preKeys[q], delivered[q], started, net)
    BY <1>1, PartyOf
  <2> QED
    BY <2>1 DEF PartyOK
<1> HIDE DEF s
<1>5. SentAs(m, p, s, NoInitial)
  <2>1. s.version \in {3, 4}
    BY <1>3 DEF Good, Shape, SessionRecords
  <2> QED
    BY <2>1, SentIs DEF Sendable
<1> HIDE DEF m
<1>6. MessageOK(m, started) /\ m.from = p
  BY <1>3, <1>5, SentMessage DEF Good, SentAs
<1>7. Answers(t, m)
  <2> HIDE DEF t
  <2> QED
    BY <1>2, <1>3, <1>4, <1>5, OtherEndAnswers DEF Good
<1>8. ~Repeated(t, m)
  <2> HIDE DEF t
  <2> QED
    BY <1>2, <1>3, <1>4, <1>5, OtherEndBehind
<1>9. SkipsTo(t, m)
  <2> HIDE DEF t
  <2> QED
    BY <1>2, <1>3, <1>4, <1>5, OtherEndSkips DEF Good
<1>10. Outcome(q, m).plaintext
  BY <1>1, <1>6, <1>7, <1>8, <1>9, DecidedBy
<1> QED
  BY <1>10 DEF m, s, Current

\* The two ends of a session never lose each other: whatever was repeated or
\* reordered, archived and promoted, interrupted or damaged, the next message of
\* a current session decrypts at a peer that has the other end and misses no
\* more than MaxSkip messages of a chain, which is all that skipMessageKeys
\* allows (WireCipher.Encrypt, WireCipher.decryptSignalMessage).
THEOREM NextMessageAlwaysOpens == Spec => []NextMessageOpens
<1> QED
  BY Invariance, NextOpens, PTL

-----------------------------------------------------------------------------
(* What the steps do. *)

\* A step forgets no session but the one used least recently, and that one only
\* when the record is full (Record.Promote, Record.Serialize), or all of them by
\* DeleteSession.
THEOREM OnlyTheOldestIsForgotten == Spec => OnlyOldestForgotten
<1>1. IInv /\ [Next]_vars =>
        [\A p \in Party :
           rec'[p] = rec[p] \/ rec'[p] = << >> \/ Sessions(rec[p]) \subseteq Sessions(rec'[p]) \/
           (/\ Len(rec[p]) = MaxArchived + 1
            /\ Sessions(SubSeq(rec[p], 1, MaxArchived)) \subseteq Sessions(rec'[p]))]_vars
  BY NextOK DEF StepOK, Forgets
<1> QED
  BY <1>1, Invariance, PTL DEF Spec, OnlyOldestForgotten

\* Sessions implement the channel that delivers every message at most once, and
\* none that the peer did not send, if every bundle has a one-time pre-key of
\* its own.  Without one a pre-key message can start its session again after
\* the session was deleted or forgotten.
THEOREM AtMostOnce == ASSUME ~WithoutOneTime PROVE Spec => ImplementsChannel
<1>1. Init => Channel!Init
  BY DEF Init, Channel!Init
<1>2. IInv /\ [Next]_vars => [Channel!Next]_(Channel!channelVars)
  BY NextOK DEF StepOK
<1> QED
  BY <1>1, <1>2, Invariance, PTL DEF Spec, ImplementsChannel, Channel!Spec
=============================================================================
