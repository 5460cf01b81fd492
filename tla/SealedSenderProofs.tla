-------------------------- MODULE SealedSenderProofs --------------------------
(***************************************************************************)
(* Proofs about SealedSender: what a recipient accepts is genuine, it is   *)
(* accepted only while its certificate is live, and what was sealed by the *)
(* rules is accepted for as long as it is.                                 *)
(***************************************************************************)
EXTENDS SealedSender, FiniteSetTheorems, TLAPS

-----------------------------------------------------------------------------
(* Decoding. *)

NamesDistinct(format) ==
  \A a, b \in DOMAIN format.field : format.field[a].name = format.field[b].name => a = b

NumsDistinct(fields) ==
  \A i, j \in DOMAIN fields : fields[i].num = fields[j].num => i = j

\* Each known field has its wire type, and no group appears more than once or is missing.
Fits(format, fields) ==
  /\ \A i \in Known(format, fields) : fields[i].typ = format.field[fields[i].num].typ
  /\ \A group \in format.once : \A i, j \in AtAny(format, fields, group) : i = j
  /\ \A group \in format.required : \E i \in Known(format, fields) :
       format.field[fields[i].num].name \in group

\* A group of fields with at most one member has a cardinality of at most 1.
LEMMA AtMostOne ==
  ASSUME NEW S, \A i, j \in S : i = j
  PROVE  Cardinality(S) <= 1
<1>1. CASE S = {}
  BY <1>1, FS_EmptySet
<1>2. CASE S # {}
  <2>1. PICK i \in S : TRUE
    BY <1>2
  <2>2. S = {i}
    BY <2>1
  <2>3. Cardinality({i}) = 1
    BY FS_Singleton
  <2> QED
    BY <2>2, <2>3
<1> QED
  BY <1>1, <1>2

LEMMA FitsWellFormed ==
  ASSUME NEW format, NEW fields, Fits(format, fields)
  PROVE  WellFormed(format, fields)
<1>1. \A group \in format.once : Cardinality(AtAny(format, fields, group)) <= 1
  BY AtMostOne DEF Fits
<1>2. \A group \in format.required : AtAny(format, fields, group) # {}
  BY DEF Fits, AtAny, At
<1> QED
  BY <1>1, <1>2 DEF WellFormed, Fits

LEMMA AtPosition ==
  ASSUME NEW format, NEW fields, NamesDistinct(format), NumsDistinct(fields),
         NEW i \in Known(format, fields)
  PROVE  At(format, fields, format.field[fields[i].num].name) = {i}
BY DEF At, Known, NamesDistinct, NumsDistinct

LEMMA AtAbsent ==
  ASSUME NEW format, NEW fields, NamesDistinct(format),
         NEW n \in DOMAIN format.field, \A i \in DOMAIN fields : fields[i].num # n
  PROVE  At(format, fields, format.field[n].name) = {}
BY DEF At, Known, NamesDistinct

LEMMA LastOfOne ==
  ASSUME NEW i \in Int
  PROVE  LastOf({i}) = i
BY DEF LastOf

\* A decoder gives every field it knows the value it has in the message, and
\* Nothing to the ones that are absent, in whatever order the fields are.
LEMMA DecodeFits ==
  ASSUME NEW format, NEW fields, NamesDistinct(format), NumsDistinct(fields),
         Fits(format, fields), DOMAIN fields \subseteq Int, DOMAIN format.field # {}
  PROVE  /\ Decode(format, fields) # Nothing
         /\ \A i \in Known(format, fields) :
              Decode(format, fields)[format.field[fields[i].num].name] = fields[i].val
         /\ \A n \in DOMAIN format.field :
              (\A i \in DOMAIN fields : fields[i].num # n)
                => Decode(format, fields)[format.field[n].name] = Nothing
<1>1. Decode(format, fields)
      = [name \in Names(format) |->
           IF At(format, fields, name) = {} THEN Nothing
           ELSE fields[LastOf(At(format, fields, name))].val]
  BY FitsWellFormed DEF Decode
<1>2. Names(format) # {}
  BY DEF Names
<1>3. Decode(format, fields) # Nothing
  <2>1. DOMAIN Decode(format, fields) = Names(format)
    BY <1>1
  <2>2. DOMAIN Nothing = {}
    BY DEF Nothing
  <2> QED
    BY <1>2, <2>1, <2>2
<1>4. ASSUME NEW i \in Known(format, fields)
      PROVE  Decode(format, fields)[format.field[fields[i].num].name] = fields[i].val
  <2>1. format.field[fields[i].num].name \in Names(format)
    BY DEF Known, Names
  <2>2. At(format, fields, format.field[fields[i].num].name) = {i}
    BY AtPosition
  <2>3. LastOf({i}) = i
    BY LastOfOne DEF Known
  <2> DEFINE name == format.field[fields[i].num].name
  <2>4. name \in Names(format) /\ At(format, fields, name) = {i} /\ {i} # {}
    BY <2>1, <2>2
  <2> HIDE DEF name
  <2>5. Decode(format, fields)[name] = fields[i].val
    BY <1>1, <2>3, <2>4
  <2> QED
    BY <2>5 DEF name
<1>5. ASSUME NEW n \in DOMAIN format.field, \A i \in DOMAIN fields : fields[i].num # n
      PROVE  Decode(format, fields)[format.field[n].name] = Nothing
  <2>1. format.field[n].name \in Names(format)
    BY DEF Names
  <2>2. At(format, fields, format.field[n].name) = {}
    BY AtAbsent, <1>5
  <2> QED
    BY <1>1, <2>1, <2>2
<1> QED
  BY <1>3, <1>4, <1>5

\* The decoded value of field number n is that of one of the fields.
HasValue(format, fields, n) ==
  \E i \in DOMAIN fields :
    fields[i].num = n /\ Decode(format, fields)[format.field[n].name] = fields[i].val

\* Of a repeated field the value is one of those in the message.
LEMMA DecodeSome ==
  ASSUME NEW format, NEW fields, \A i \in DOMAIN fields : i \in 1 .. 4,
         Decode(format, fields) # Nothing,
         NamesDistinct(format),
         NEW n \in DOMAIN format.field, {format.field[n].name} \in format.required
  PROVE  HasValue(format, fields, n)
<1> DEFINE name == format.field[n].name
<1> DEFINE at == At(format, fields, name)
<1>1. WellFormed(format, fields)
  BY DEF Decode
<1>2. at # {}
  BY <1>1 DEF WellFormed, AtAny
<1>3. at \subseteq 1 .. 4
  BY DEF At, Known
<1>4. \E i \in at : \A j \in at : j <= i
  <2> HIDE DEF at
  <2>2. \A j \in at : j \in Int /\ (j = 1 \/ j = 2 \/ j = 3 \/ j = 4)
    BY <1>3
  <2> QED
    BY <1>2, <2>2
<1>5. LastOf(at) \in at
  BY <1>4 DEF LastOf
<1>6. Decode(format, fields)[name] = fields[LastOf(at)].val
  <2>1. name \in Names(format)
    BY DEF Names
  <2> QED
    BY <1>1, <1>2, <2>1 DEF Decode
<1>7. LastOf(at) \in DOMAIN fields /\ fields[LastOf(at)].num = n
  BY <1>5 DEF At, Known, NamesDistinct
<1> QED
  BY <1>6, <1>7 DEF HasValue

-----------------------------------------------------------------------------
(* Formats and encodings. *)

LEMMA SignedFormat ==
  /\ DOMAIN signedFormat.field = 1 .. 2
  /\ signedFormat.field[1] = Tag("certificate", "bytes")
  /\ signedFormat.field[2] = Tag("signature", "bytes")
  /\ signedFormat.once = {}
  /\ signedFormat.required = {{"certificate"}, {"signature"}}
  /\ NamesDistinct(signedFormat)
BY DEF signedFormat, Tag, NamesDistinct

LEMMA ServerBodyFormat ==
  /\ DOMAIN serverBodyFormat.field = 1 .. 2
  /\ serverBodyFormat.field[1] = Tag("id", "varint")
  /\ serverBodyFormat.field[2] = Tag("key", "bytes")
  /\ serverBodyFormat.once = {}
  /\ serverBodyFormat.required = {{"id"}, {"key"}}
  /\ NamesDistinct(serverBodyFormat)
BY DEF serverBodyFormat, Tag, NamesDistinct

LEMMA SenderBodyFormat ==
  /\ DOMAIN senderBodyFormat.field = 1 .. 8
  /\ senderBodyFormat.field[1] = Tag("e164", "bytes")
  /\ senderBodyFormat.field[2] = Tag("device", "varint")
  /\ senderBodyFormat.field[3] = Tag("expires", "fixed64")
  /\ senderBodyFormat.field[4] = Tag("identity", "bytes")
  /\ senderBodyFormat.field[5] = Tag("signer", "bytes")
  /\ senderBodyFormat.field[6] = Tag("uuid", "bytes")
  /\ senderBodyFormat.field[7] = Tag("uuidBytes", "bytes")
  /\ senderBodyFormat.field[8] = Tag("signerID", "varint")
  /\ senderBodyFormat.once = {{"uuid", "uuidBytes"}, {"signer", "signerID"}}
  /\ senderBodyFormat.required = {{"device"}, {"expires"}, {"identity"},
                                  {"uuid", "uuidBytes"}, {"signer", "signerID"}}
  /\ NamesDistinct(senderBodyFormat)
<1>1. DOMAIN senderBodyFormat.field = 1 .. 8
  BY DEF senderBodyFormat
<1>2. /\ senderBodyFormat.field[1] = Tag("e164", "bytes")
      /\ senderBodyFormat.field[2] = Tag("device", "varint")
      /\ senderBodyFormat.field[3] = Tag("expires", "fixed64")
      /\ senderBodyFormat.field[4] = Tag("identity", "bytes")
      /\ senderBodyFormat.field[5] = Tag("signer", "bytes")
      /\ senderBodyFormat.field[6] = Tag("uuid", "bytes")
      /\ senderBodyFormat.field[7] = Tag("uuidBytes", "bytes")
      /\ senderBodyFormat.field[8] = Tag("signerID", "varint")
  BY DEF senderBodyFormat
<1>3. NamesDistinct(senderBodyFormat)
  BY <1>1, <1>2 DEF NamesDistinct, Tag
<1> QED
  BY <1>1, <1>2, <1>3 DEF senderBodyFormat

LEMMA ContentFormat ==
  /\ DOMAIN contentFormat.field = 1 .. 5
  /\ contentFormat.field[1] = Tag("type", "varint")
  /\ contentFormat.field[2] = Tag("sender", "bytes")
  /\ contentFormat.field[3] = Tag("content", "bytes")
  /\ contentFormat.once = {}
  /\ contentFormat.required = {{"type"}, {"sender"}, {"content"}}
  /\ NamesDistinct(contentFormat)
BY DEF contentFormat, Tag, NamesDistinct

LEMMA SealedV1Format ==
  /\ DOMAIN sealedV1Format.field = 1 .. 3
  /\ sealedV1Format.field[1] = Tag("ephemeral", "bytes")
  /\ sealedV1Format.field[2] = Tag("static", "bytes")
  /\ sealedV1Format.field[3] = Tag("message", "bytes")
  /\ sealedV1Format.once = {}
  /\ sealedV1Format.required = {{"ephemeral"}, {"static"}, {"message"}}
  /\ NamesDistinct(sealedV1Format)
BY DEF sealedV1Format, Tag, NamesDistinct

LEMMA SignedDecodes ==
  ASSUME NEW body, NEW signature
  PROVE  LET d == Decode(signedFormat, encodeSigned(body, signature))
         IN  d # Nothing /\ d.certificate = body /\ d.signature = signature
<1> DEFINE f == encodeSigned(body, signature)
           d == Decode(signedFormat, f)
<1>1. DOMAIN f = 1 .. 2
  BY DEF encodeSigned
<1>2. /\ f[1].num = 1 /\ f[1].typ = "bytes" /\ f[1].val = body
      /\ f[2].num = 2 /\ f[2].typ = "bytes" /\ f[2].val = signature
  BY DEF encodeSigned, Bytes
<1> HIDE DEF f
<1>3. Known(signedFormat, f) = 1 .. 2
  BY <1>1, <1>2, SignedFormat DEF Known
<1>4. NumsDistinct(f)
  BY <1>1, <1>2 DEF NumsDistinct
<1>5. Fits(signedFormat, f)
  BY <1>2, <1>3, SignedFormat DEF Fits, Tag
<1>6. /\ d # Nothing
      /\ \A i \in Known(signedFormat, f) : d[signedFormat.field[f[i].num].name] = f[i].val
  BY <1>1, <1>4, <1>5, DecodeFits, SignedFormat
<1> HIDE DEF d
<1>7. d["certificate"] = body /\ d["signature"] = signature
  BY <1>2, <1>3, <1>6, SignedFormat DEF Tag
<1> QED
  BY <1>6, <1>7 DEF d, f

LEMMA ServerBodyDecodes ==
  ASSUME NEW keyID, NEW publicKey
  PROVE  LET d == Decode(serverBodyFormat, encodeServerCertificateBody(keyID, publicKey))
         IN  d # Nothing /\ d.id = keyID /\ d.key = publicKey
<1> DEFINE f == encodeServerCertificateBody(keyID, publicKey)
           d == Decode(serverBodyFormat, f)
<1>1. DOMAIN f = 1 .. 2
  BY DEF encodeServerCertificateBody
<1>2. /\ f[1].num = 1 /\ f[1].typ = "varint" /\ f[1].val = keyID
      /\ f[2].num = 2 /\ f[2].typ = "bytes" /\ f[2].val = publicKey
  BY DEF encodeServerCertificateBody, Bytes, Varint
<1> HIDE DEF f
<1>3. Known(serverBodyFormat, f) = 1 .. 2
  BY <1>1, <1>2, ServerBodyFormat DEF Known
<1>4. NumsDistinct(f)
  BY <1>1, <1>2 DEF NumsDistinct
<1>5. Fits(serverBodyFormat, f)
  BY <1>2, <1>3, ServerBodyFormat DEF Fits, Tag
<1>6. /\ d # Nothing
      /\ \A i \in Known(serverBodyFormat, f) :
           d[serverBodyFormat.field[f[i].num].name] = f[i].val
  BY <1>1, <1>4, <1>5, DecodeFits, ServerBodyFormat
<1> HIDE DEF d
<1>7. d["id"] = keyID /\ d["key"] = publicKey
  BY <1>2, <1>3, <1>6, ServerBodyFormat DEF Tag
<1> QED
  BY <1>6, <1>7 DEF d, f

LEMMA ContentDecodes ==
  ASSUME NEW msgType, NEW sender, NEW content
  PROVE  LET d == Decode(contentFormat,
                         NewUnidentifiedSenderMessageContent(msgType, sender, content))
         IN  d # Nothing /\ d.type = msgType /\ d.sender = sender /\ d.content = content
<1> DEFINE f == NewUnidentifiedSenderMessageContent(msgType, sender, content)
           d == Decode(contentFormat, f)
<1>1. DOMAIN f = 1 .. 3
  BY DEF NewUnidentifiedSenderMessageContent
<1>2. /\ f[1].num = 1 /\ f[1].typ = "varint" /\ f[1].val = msgType
      /\ f[2].num = 2 /\ f[2].typ = "bytes" /\ f[2].val = sender
      /\ f[3].num = 3 /\ f[3].typ = "bytes" /\ f[3].val = content
  BY DEF NewUnidentifiedSenderMessageContent, Bytes, Varint
<1> HIDE DEF f
<1>3. Known(contentFormat, f) = 1 .. 3
  BY <1>1, <1>2, ContentFormat DEF Known
<1>4. NumsDistinct(f)
  BY <1>1, <1>2 DEF NumsDistinct
<1>5. Fits(contentFormat, f)
  BY <1>2, <1>3, ContentFormat DEF Fits, Tag
<1>6. /\ d # Nothing
      /\ \A i \in Known(contentFormat, f) :
           d[contentFormat.field[f[i].num].name] = f[i].val
  BY <1>1, <1>4, <1>5, DecodeFits, ContentFormat
<1> HIDE DEF d
<1>7. d["type"] = msgType /\ d["sender"] = sender /\ d["content"] = content
  BY <1>2, <1>3, <1>6, ContentFormat DEF Tag
<1> QED
  BY <1>6, <1>7 DEF d, f

\* The encodings that another implementation reorders.
LEMMA ForeignOfThree ==
  ASSUME NEW a, NEW b, NEW c
  PROVE  Foreign(<<a, b, c>>) = <<Varint(99, 0), c, b, a>>
<1> DEFINE r == [i \in 1 .. 3 |-> <<a, b, c>>[3 + 1 - i]]
<1>1. Len(<<a, b, c>>) = 3
  OBVIOUS
<1>2. r = <<c, b, a>>
  OBVIOUS
<1>3. Foreign(<<a, b, c>>) = <<Varint(99, 0)>> \o r
  BY <1>1 DEF Foreign
<1> HIDE DEF r
<1> QED
  BY <1>2, <1>3

LEMMA ForeignOfFive ==
  ASSUME NEW a, NEW b, NEW c, NEW d, NEW e
  PROVE  Foreign(<<a, b, c, d, e>>) = <<Varint(99, 0), e, d, c, b, a>>
<1> DEFINE r == [i \in 1 .. 5 |-> <<a, b, c, d, e>>[5 + 1 - i]]
<1>1. Len(<<a, b, c, d, e>>) = 5
  OBVIOUS
<1>2. r = <<e, d, c, b, a>>
  OBVIOUS
<1>3. Foreign(<<a, b, c, d, e>>) = <<Varint(99, 0)>> \o r
  BY <1>1 DEF Foreign
<1> HIDE DEF r
<1> QED
  BY <1>2, <1>3

\* What is decoded from the body of a sender certificate.
IsSenderBody(x, uuid, expires, key, signer, v) ==
  /\ x # Nothing
  /\ x.uuid = uuid /\ x.expires = expires /\ x.identity = key
  /\ signer = Bytes(5, v) => x.signer = v
  /\ signer = Varint(8, v) => x.signer = Nothing /\ x.signerID = v

\* The body's fields are at positions a to e of f; there may be an unknown one.
FieldsAt(f, a, b, c, d, e, uuid, expires, key, signer) ==
  /\ DOMAIN f \subseteq Int
  /\ {a, b, c, d, e} \subseteq DOMAIN f
  /\ f[a] = Bytes(6, uuid) /\ f[b] = Varint(2, 1) /\ f[c] = Fixed64(3, expires)
  /\ f[d] = Bytes(4, key) /\ f[e] = signer
  /\ \A i, j \in DOMAIN f \ {a, b, c, d, e} : i = j /\ f[i].num = 99

LEMMA SenderBodyFieldsDecode ==
  ASSUME NEW f, NEW uuid, NEW expires, NEW key, NEW signer, NEW v,
         signer = Bytes(5, v) \/ signer = Varint(8, v),
         NEW a, NEW b, NEW c, NEW d, NEW e,
         FieldsAt(f, a, b, c, d, e, uuid, expires, key, signer)
  PROVE  IsSenderBody(Decode(senderBodyFormat, f), uuid, expires, key, signer, v)
<1>0. /\ DOMAIN f \subseteq Int
      /\ {a, b, c, d, e} \subseteq DOMAIN f
      /\ f[a] = Bytes(6, uuid) /\ f[b] = Varint(2, 1) /\ f[c] = Fixed64(3, expires)
      /\ f[d] = Bytes(4, key) /\ f[e] = signer
      /\ \A i, j \in DOMAIN f \ {a, b, c, d, e} : i = j /\ f[i].num = 99
  BY DEF FieldsAt
<1> DEFINE x == Decode(senderBodyFormat, f)
<1>1. /\ f[a].num = 6 /\ f[a].typ = "bytes" /\ f[a].val = uuid
      /\ f[b].num = 2 /\ f[b].typ = "varint"
      /\ f[c].num = 3 /\ f[c].typ = "fixed64" /\ f[c].val = expires
      /\ f[d].num = 4 /\ f[d].typ = "bytes" /\ f[d].val = key
      /\ f[e].val = v
  BY <1>0 DEF Bytes, Varint, Fixed64
<1>2. \/ signer = Bytes(5, v) /\ f[e].num = 5 /\ f[e].typ = "bytes"
      \/ signer = Varint(8, v) /\ f[e].num = 8 /\ f[e].typ = "varint"
  BY <1>0 DEF Bytes, Varint
<1>3. Bytes(5, v) # Varint(8, v)
  <2>1. Bytes(5, v).num = 5 /\ Varint(8, v).num = 8
    BY DEF Bytes, Varint
  <2> QED
    BY <2>1
<1>4. \A i \in DOMAIN f : i \in {a, b, c, d, e} \/ f[i].num = 99
  BY <1>0
<1>5. Known(senderBodyFormat, f) = {a, b, c, d, e}
  BY <1>0, <1>1, <1>2, <1>4, SenderBodyFormat DEF Known
<1>6. NumsDistinct(f)
  <2> SUFFICES ASSUME NEW i \in DOMAIN f, NEW j \in DOMAIN f, f[i].num = f[j].num
               PROVE  i = j
    BY DEF NumsDistinct
  <2>1. CASE i \in {a, b, c, d, e} /\ j \in {a, b, c, d, e}
    BY <1>1, <1>2, <2>1
  <2>2. CASE i \in {a, b, c, d, e} /\ j \notin {a, b, c, d, e}
    BY <1>1, <1>2, <1>4, <2>2
  <2>3. CASE i \notin {a, b, c, d, e} /\ j \in {a, b, c, d, e}
    BY <1>1, <1>2, <1>4, <2>3
  <2>4. CASE i \notin {a, b, c, d, e} /\ j \notin {a, b, c, d, e}
    BY <1>0, <2>4
  <2> QED
    BY <2>1, <2>2, <2>3, <2>4
<1>7. Fits(senderBodyFormat, f)
  <2> DEFINE name(i) == senderBodyFormat.field[f[i].num].name
  <2>1. /\ name(a) = "uuid" /\ name(b) = "device" /\ name(c) = "expires"
        /\ name(d) = "identity" /\ name(e) \in {"signer", "signerID"}
    BY <1>1, <1>2, SenderBodyFormat DEF Tag
  <2>2. \A i \in Known(senderBodyFormat, f) : f[i].typ = senderBodyFormat.field[f[i].num].typ
    BY <1>1, <1>2, <1>5, SenderBodyFormat DEF Tag
  <2>3. ASSUME NEW group \in senderBodyFormat.once,
               NEW i \in AtAny(senderBodyFormat, f, group),
               NEW j \in AtAny(senderBodyFormat, f, group)
        PROVE  i = j
    <3>1. i \in {a, b, c, d, e} /\ name(i) \in group
      BY <1>5 DEF AtAny, At
    <3>2. j \in {a, b, c, d, e} /\ name(j) \in group
      BY <1>5 DEF AtAny, At
    <3>3. group = {"uuid", "uuidBytes"} \/ group = {"signer", "signerID"}
      BY SenderBodyFormat
    <3> HIDE DEF name
    <3>4. CASE group = {"uuid", "uuidBytes"}
      <4>1. i = a /\ j = a
        BY <2>1, <3>1, <3>2, <3>4
      <4> QED
        BY <4>1
    <3>5. CASE group = {"signer", "signerID"}
      <4>1. i = e /\ j = e
        BY <2>1, <3>1, <3>2, <3>5
      <4> QED
        BY <4>1
    <3> QED
      BY <3>3, <3>4, <3>5
  <2>4. \A group \in senderBodyFormat.required : \E i \in Known(senderBodyFormat, f) :
          name(i) \in group
    <3> HIDE DEF name
    <3> QED
      BY <1>5, <2>1, SenderBodyFormat
  <2> QED
    BY <2>2, <2>3, <2>4 DEF Fits
<1>8. /\ x # Nothing
      /\ \A i \in Known(senderBodyFormat, f) :
           x[senderBodyFormat.field[f[i].num].name] = f[i].val
      /\ \A n \in DOMAIN senderBodyFormat.field :
           (\A i \in DOMAIN f : f[i].num # n) => x[senderBodyFormat.field[n].name] = Nothing
  BY <1>0, <1>6, <1>7, DecodeFits, SenderBodyFormat
<1> HIDE DEF x
<1>9. x["uuid"] = uuid /\ x["expires"] = expires /\ x["identity"] = key
  BY <1>1, <1>5, <1>8, SenderBodyFormat DEF Tag
<1>10. CASE signer = Bytes(5, v)
  <2>1. x["signer"] = v
    BY <1>1, <1>2, <1>3, <1>5, <1>8, <1>10, SenderBodyFormat, SMTT(30) DEF Tag
  <2> QED
    BY <1>3, <1>8, <1>9, <1>10, <2>1 DEF x, IsSenderBody
<1>11. CASE signer = Varint(8, v)
  <2>1. x["signerID"] = v
    BY <1>1, <1>2, <1>3, <1>5, <1>8, <1>11, SenderBodyFormat, SMTT(30) DEF Tag
  <2>2. x["signer"] = Nothing
    <3>1. \A i \in DOMAIN f : f[i].num # 5
      BY <1>1, <1>2, <1>3, <1>4, <1>11
    <3> QED
      BY <1>8, <3>1, SenderBodyFormat DEF Tag
  <2> QED
    BY <1>3, <1>8, <1>9, <1>11, <2>1, <2>2 DEF x, IsSenderBody
<1> QED
  BY <1>10, <1>11

\* A certificate's body reads back, in the order this library writes it or
\* in another one's.
LEMMA SenderBodyDecodes ==
  ASSUME NEW f, NEW uuid, NEW expires, NEW key, NEW signer, NEW v,
         signer = Bytes(5, v) \/ signer = Varint(8, v),
         \/ f = encodeSenderCertificateBody(uuid, expires, key, signer)
         \/ f = Foreign(encodeSenderCertificateBody(uuid, expires, key, signer))
  PROVE  IsSenderBody(Decode(senderBodyFormat, f), uuid, expires, key, signer, v)
<1> DEFINE a == Bytes(6, uuid)
           b == Varint(2, 1)
           c == Fixed64(3, expires)
           d == Bytes(4, key)
           o == Varint(99, 0)
<1>0. o.num = 99
  BY DEF Varint
<1>1. CASE f = encodeSenderCertificateBody(uuid, expires, key, signer)
  <2>1. f = <<a, b, c, d, signer>>
    BY <1>1 DEF encodeSenderCertificateBody
  <2> HIDE DEF a, b, c, d
  <2>2. /\ DOMAIN f = {1, 2, 3, 4, 5}
        /\ f[1] = a /\ f[2] = b /\ f[3] = c /\ f[4] = d /\ f[5] = signer
    BY <2>1
  <2>3. DOMAIN f \subseteq Int
    BY <2>2
  <2>4. \A i, j \in DOMAIN f \ {1, 2, 3, 4, 5} : i = j /\ f[i].num = 99
    BY <2>2
  <2>5. /\ f[1] = Bytes(6, uuid) /\ f[2] = Varint(2, 1) /\ f[3] = Fixed64(3, expires)
        /\ f[4] = Bytes(4, key) /\ f[5] = signer
    BY <2>2 DEF a, b, c, d
  <2>6. 1 \in DOMAIN f /\ 2 \in DOMAIN f /\ 3 \in DOMAIN f /\ 4 \in DOMAIN f /\ 5 \in DOMAIN f
    BY <2>2
  <2>7. FieldsAt(f, 1, 2, 3, 4, 5, uuid, expires, key, signer)
    BY <2>3, <2>4, <2>5, <2>6 DEF FieldsAt
  <2> QED
    BY <2>7, SenderBodyFieldsDecode
<1>2. CASE f = Foreign(encodeSenderCertificateBody(uuid, expires, key, signer))
  <2>1. encodeSenderCertificateBody(uuid, expires, key, signer) = <<a, b, c, d, signer>>
    BY DEF encodeSenderCertificateBody
  <2> HIDE DEF a, b, c, d
  <2>2. f = <<o, signer, d, c, b, a>>
    BY <1>2, <2>1, ForeignOfFive
  <2> HIDE DEF o
  <2>3. /\ DOMAIN f = {1, 2, 3, 4, 5, 6}
        /\ f[1] = o /\ f[2] = signer /\ f[3] = d /\ f[4] = c /\ f[5] = b /\ f[6] = a
    BY <2>2
  <2>4. DOMAIN f \subseteq Int
    BY <2>3
  <2>5. \A i, j \in DOMAIN f \ {6, 5, 4, 3, 2} : i = j /\ f[i].num = 99
    BY <1>0, <2>3
  <2>6. /\ f[6] = Bytes(6, uuid) /\ f[5] = Varint(2, 1) /\ f[4] = Fixed64(3, expires)
        /\ f[3] = Bytes(4, key) /\ f[2] = signer
    BY <2>3 DEF a, b, c, d
  <2>7. 6 \in DOMAIN f /\ 5 \in DOMAIN f /\ 4 \in DOMAIN f /\ 3 \in DOMAIN f /\ 2 \in DOMAIN f
    BY <2>3
  <2>8. FieldsAt(f, 6, 5, 4, 3, 2, uuid, expires, key, signer)
    BY <2>4, <2>5, <2>6, <2>7 DEF FieldsAt
  <2> QED
    BY <2>8, SenderBodyFieldsDecode
<1> QED
  BY <1>1, <1>2

LEMMA SealedV1FieldsDecode ==
  ASSUME NEW f, NEW ephemeral, NEW static, NEW message,
         DOMAIN f \subseteq Int,
         NEW a, NEW b, NEW c, {a, b, c} \subseteq DOMAIN f,
         f[a] = Bytes(1, ephemeral), f[b] = Bytes(2, static), f[c] = Bytes(3, message),
         \A i, j \in DOMAIN f \ {a, b, c} : i = j /\ f[i].num = 99
  PROVE  LET x == Decode(sealedV1Format, f)
         IN  x # Nothing /\ x.ephemeral = ephemeral /\ x.static = static /\ x.message = message
<1> DEFINE x == Decode(sealedV1Format, f)
<1>1. /\ f[a].num = 1 /\ f[a].typ = "bytes" /\ f[a].val = ephemeral
      /\ f[b].num = 2 /\ f[b].typ = "bytes" /\ f[b].val = static
      /\ f[c].num = 3 /\ f[c].typ = "bytes" /\ f[c].val = message
  BY DEF Bytes
<1>2. \A i \in DOMAIN f : i \in {a, b, c} \/ f[i].num = 99
  OBVIOUS
<1>3. Known(sealedV1Format, f) = {a, b, c}
  BY <1>1, <1>2, SealedV1Format DEF Known
<1>4. NumsDistinct(f)
  <2> SUFFICES ASSUME NEW i \in DOMAIN f, NEW j \in DOMAIN f, f[i].num = f[j].num
               PROVE  i = j
    BY DEF NumsDistinct
  <2>1. CASE i \in {a, b, c} \/ j \in {a, b, c}
    BY <1>1, <1>2, <2>1
  <2>2. CASE i \notin {a, b, c} /\ j \notin {a, b, c}
    BY <2>2
  <2> QED
    BY <2>1, <2>2
<1>5. Fits(sealedV1Format, f)
  BY <1>1, <1>3, SealedV1Format DEF Fits, Tag
<1>6. /\ x # Nothing
      /\ \A i \in Known(sealedV1Format, f) : x[sealedV1Format.field[f[i].num].name] = f[i].val
  BY <1>4, <1>5, DecodeFits, SealedV1Format
<1> HIDE DEF x
<1>7. x["ephemeral"] = ephemeral /\ x["static"] = static /\ x["message"] = message
  BY <1>1, <1>3, <1>6, SealedV1Format DEF Tag
<1> QED
  BY <1>6, <1>7 DEF x

\* The two orders of the fields of a version 1 message.
V1Fields(e, s, m) == encodeSealedSenderV1Message(e, s, m)

LEMMA V1Orders ==
  ASSUME NEW e, NEW s, NEW m
  PROVE  /\ V1Fields(e, s, m) = <<Bytes(1, e), Bytes(2, s), Bytes(3, m)>>
         /\ Foreign(V1Fields(e, s, m)) = <<Varint(99, 0), Bytes(3, m), Bytes(2, s), Bytes(1, e)>>
BY ForeignOfThree DEF V1Fields, encodeSealedSenderV1Message

LEMMA V1Decodes ==
  ASSUME NEW f, NEW e, NEW s, NEW m, f = V1Fields(e, s, m) \/ f = Foreign(V1Fields(e, s, m))
  PROVE  LET x == Decode(sealedV1Format, f)
         IN  x # Nothing /\ x.ephemeral = e /\ x.static = s /\ x.message = m
<1> DEFINE a == Bytes(1, e)
           b == Bytes(2, s)
           c == Bytes(3, m)
           o == Varint(99, 0)
<1>0. o.num = 99
  BY DEF Varint
<1>1. f = <<a, b, c>> \/ f = <<o, c, b, a>>
  BY V1Orders
<1> HIDE DEF a, b, c, o
<1>2. CASE f = <<a, b, c>>
  <2>1. DOMAIN f = {1, 2, 3} /\ f[1] = a /\ f[2] = b /\ f[3] = c
    BY <1>2
  <2>2. f[1] = Bytes(1, e) /\ f[2] = Bytes(2, s) /\ f[3] = Bytes(3, m)
    BY <2>1 DEF a, b, c
  <2>3. DOMAIN f \subseteq Int /\ {1, 2, 3} \subseteq DOMAIN f
    BY <2>1
  <2>4. \A i, j \in DOMAIN f \ {1, 2, 3} : i = j /\ f[i].num = 99
    BY <2>1
  <2> HIDE <1>2
  <2> QED
    BY <2>2, <2>3, <2>4, SealedV1FieldsDecode
<1>3. CASE f = <<o, c, b, a>>
  <2>1. DOMAIN f = {1, 2, 3, 4} /\ f[1] = o /\ f[2] = c /\ f[3] = b /\ f[4] = a
    BY <1>3
  <2>2. f[4] = Bytes(1, e) /\ f[3] = Bytes(2, s) /\ f[2] = Bytes(3, m)
    BY <2>1 DEF a, b, c
  <2>3. DOMAIN f \subseteq Int /\ {4, 3, 2} \subseteq DOMAIN f
    BY <2>1
  <2>4. \A i, j \in DOMAIN f \ {4, 3, 2} : i = j /\ f[i].num = 99
    BY <1>0, <2>1
  <2> QED
    BY <2>2, <2>3, <2>4, SealedV1FieldsDecode
<1> QED
  BY <1>1, <1>2, <1>3

-----------------------------------------------------------------------------
(* Certificates. *)

\* A time survives the conversion to an unsigned number and back.
LEMMA SignedOfUnsigned ==
  ASSUME NEW t \in -Half .. (Half - 1)
  PROVE  Signed(Unsigned(t)) = t
<1>1. Half \in Nat /\ Half # 0
  BY SealedSenderAssumption
<1> DEFINE m == 2 * Half
<1>2. m \in Nat /\ m > 0
  BY <1>1
<1>3. CASE t >= 0
  <2>1. t % m = t
    BY <1>1, <1>3
  <2> QED
    BY <1>1, <1>3, <2>1 DEF Signed, Unsigned
<1>4. CASE t < 0
  <2>1. t % m = t + m
    BY <1>1, <1>4
  <2> QED
    BY <1>1, <1>4, <2>1 DEF Signed, Unsigned
<1> QED
  BY <1>3, <1>4

\* A server certificate reads back.
LEMMA ServerCertificateParses ==
  ASSUME NEW k
  PROVE  LET c == ParseServerCertificate(ServerCertificate(k))
             body == encodeServerCertificateBody(k.id, k.key)
         IN  /\ ServerCertificate(k) # Nothing
             /\ c = [keyID |-> k.id, publicKey |-> k.key, certificate |-> body,
                     signature |-> XEdDSASign(k.root, body)]
             /\ c # Nothing
<1> DEFINE body == encodeServerCertificateBody(k.id, k.key)
           sig == XEdDSASign(k.root, body)
           data == encodeSigned(body, sig)
           c == [keyID |-> k.id, publicKey |-> k.key, certificate |-> body, signature |-> sig]
<1>1. ServerCertificate(k) = data
  BY DEF ServerCertificate, NewServerCertificate
<1>2. data # Nothing
  BY DEF encodeSigned, Nothing
<1>3. /\ Decode(signedFormat, data) # Nothing
      /\ Decode(signedFormat, data).certificate = body
      /\ Decode(signedFormat, data).signature = sig
  BY SignedDecodes
<1>4. /\ Decode(serverBodyFormat, body) # Nothing
      /\ Decode(serverBodyFormat, body).id = k.id
      /\ Decode(serverBodyFormat, body).key = k.key
  BY ServerBodyDecodes
<1>5. c # Nothing
  <2>1. DOMAIN c # {} /\ DOMAIN Nothing = {}
    BY DEF Nothing
  <2> QED
    BY <2>1
<1> HIDE DEF body, sig, data
<1>6. ParseServerCertificate(data) = c
  BY <1>3, <1>4 DEF ParseServerCertificate
<1> QED
  BY <1>1, <1>2, <1>5, <1>6 DEF body, sig, data

\* The signed body of a sender certificate.
CertBody(c) ==
  LET body == encodeSenderCertificateBody(Sender, Unsigned(c.expiresAt), c.identity,
                IF c.embedded THEN Bytes(5, ServerCertificate(c.signer))
                ELSE Varint(8, c.signer.id))
  IN  IF c.foreign THEN Foreign(body) ELSE body

\* A sender certificate reads back, whoever encoded it.
LEMMA SenderCertificateParses ==
  ASSUME NEW c, c.embedded \in BOOLEAN
  PROVE  LET x == ParseSenderCertificate(SenderCertificate(c))
         IN  /\ x # Nothing
             /\ x.expires = Unsigned(c.expiresAt)
             /\ x.identity = c.identity
             /\ c.embedded => x.signer = ParseServerCertificate(ServerCertificate(c.signer))
             /\ ~c.embedded => x.signer = Nothing /\ x.signerID = c.signer.id
             /\ x.certificate = CertBody(c)
             /\ x.signature = XEdDSASign(c.signedWith, CertBody(c))
<1> DEFINE v == IF c.embedded THEN ServerCertificate(c.signer) ELSE c.signer.id
           field == IF c.embedded THEN Bytes(5, ServerCertificate(c.signer))
                    ELSE Varint(8, c.signer.id)
           expires == Unsigned(c.expiresAt)
           sig == XEdDSASign(c.signedWith, CertBody(c))
           outer == Decode(signedFormat, SenderCertificate(c))
           body == Decode(senderBodyFormat, CertBody(c))
           server == ParseServerCertificate(ServerCertificate(c.signer))
           x == ParseSenderCertificate(SenderCertificate(c))
<1>1. SenderCertificate(c) = encodeSigned(CertBody(c), sig)
  BY DEF SenderCertificate, NewSenderCertificate, CertBody
<1>2. outer # Nothing /\ outer.certificate = CertBody(c) /\ outer.signature = sig
  BY <1>1, SignedDecodes
<1>3. \/ c.embedded /\ field = Bytes(5, v) /\ v = ServerCertificate(c.signer)
      \/ ~c.embedded /\ field = Varint(8, v) /\ v = c.signer.id
  OBVIOUS
<1>4. \/ CertBody(c) = encodeSenderCertificateBody(Sender, expires, c.identity, field)
      \/ CertBody(c) = Foreign(encodeSenderCertificateBody(Sender, expires, c.identity, field))
  BY DEF CertBody
<1> HIDE DEF v, field, expires, sig
<1>5. IsSenderBody(body, Sender, expires, c.identity, field, v)
  BY <1>3, <1>4, SenderBodyDecodes
<1>6. /\ body # Nothing
      /\ body.uuid = Sender /\ body.expires = expires /\ body.identity = c.identity
      /\ c.embedded => body.signer = ServerCertificate(c.signer)
      /\ ~c.embedded => body.signer = Nothing /\ body.signerID = c.signer.id
  BY <1>3, <1>5 DEF IsSenderBody
<1>7. ServerCertificate(c.signer) # Nothing /\ server # Nothing
  BY ServerCertificateParses
<1> HIDE DEF outer, body, server
<1>8. x = [uuid |-> IF body.uuid # Nothing THEN body.uuid ELSE body.uuidBytes,
           expires |-> body.expires, identity |-> body.identity,
           signer |-> IF body.signer = Nothing THEN Nothing
                      ELSE ParseServerCertificate(body.signer),
           signerID |-> body.signerID,
           certificate |-> outer.certificate, signature |-> outer.signature]
  <2>1. outer.certificate = CertBody(c)
    BY <1>2
  <2>2. body.signer = Nothing \/ ParseServerCertificate(body.signer) # Nothing
    BY <1>6, <1>7 DEF server
  <2> QED
    BY <1>2, <1>6, <2>1, <2>2 DEF ParseSenderCertificate, outer, body
<1> HIDE DEF x
<1>9. x # Nothing
  <2>1. DOMAIN x # {} /\ DOMAIN Nothing = {}
    BY <1>8 DEF Nothing
  <2> QED
    BY <2>1
<1>10. /\ x.expires = expires /\ x.identity = c.identity
       /\ x.certificate = CertBody(c) /\ x.signature = sig
  BY <1>2, <1>6, <1>8
<1>11. c.embedded => x.signer = server
  BY <1>6, <1>7, <1>8 DEF server
<1>12. ~c.embedded => x.signer = Nothing /\ x.signerID = c.signer.id
  BY <1>6, <1>8
<1> QED
  BY <1>9, <1>10, <1>11, <1>12 DEF x, expires, sig, server

\* A signature verifies with the key that made it, and with no other.
LEMMA VerifiesSignature ==
  ASSUME NEW k, NEW l, NEW message
  PROVE  XEdDSAVerify(k, XEdDSASign(l, message), message) <=> k = l
<1>1. ASSUME XEdDSASign(k, message) = XEdDSASign(l, message) PROVE k = l
  <2>1. XEdDSASign(k, message).by = k /\ XEdDSASign(l, message).by = l
    BY DEF XEdDSASign
  <2> QED
    BY <1>1, <2>1
<1> QED
  BY <1>1 DEF XEdDSAVerify

\* A server certificate is valid if a trusted root signed it under a live id.
LEMMA ServerValid ==
  ASSUME NEW k
  PROVE  (\E root \in Trusted : ValidServer(ParseServerCertificate(ServerCertificate(k)), root))
         <=> k.id # Revoked /\ k.root \in Trusted
<1> DEFINE body == encodeServerCertificateBody(k.id, k.key)
           c == ParseServerCertificate(ServerCertificate(k))
<1>1. c = [keyID |-> k.id, publicKey |-> k.key, certificate |-> body,
           signature |-> XEdDSASign(k.root, body)]
  BY ServerCertificateParses
<1> HIDE DEF c, body
<1>2. c.keyID = k.id /\ c.certificate = body /\ c.signature = XEdDSASign(k.root, body)
  BY <1>1
<1>3. \A root : ValidServer(c, root) <=> k.id # Revoked /\ root = k.root
  BY <1>2, VerifiesSignature DEF ValidServer
<1> QED
  BY <1>3 DEF c

\* A certificate validates exactly while it is live.
LEMMA ValidIffLive ==
  ASSUME NEW c, c.embedded \in BOOLEAN, c.expiresAt \in Expiries, clock \in Int
  PROVE  Validate(ParseSenderCertificate(SenderCertificate(c)), clock, Resolver) <=> Live(c)
<1> DEFINE x == ParseSenderCertificate(SenderCertificate(c))
           server(k) == ParseServerCertificate(ServerCertificate(k))
           signer == resolveSigner(x, Resolver)
<1>1. /\ x.expires = Unsigned(c.expiresAt)
      /\ c.embedded => x.signer = server(c.signer)
      /\ ~c.embedded => x.signer = Nothing /\ x.signerID = c.signer.id
      /\ x.certificate = CertBody(c)
      /\ x.signature = XEdDSASign(c.signedWith, CertBody(c))
  BY SenderCertificateParses
<1>2. \A k : server(k) # Nothing /\ server(k).publicKey = k.key
  BY ServerCertificateParses
<1>3. Signed(x.expires) = c.expiresAt
  <2>1. c.expiresAt \in -Half .. (Half - 1)
    BY SealedSenderAssumption
  <2> QED
    BY <1>1, <2>1, SignedOfUnsigned
<1>4. \A k : (\E root \in Trusted : ValidServer(server(k), root))
               <=> k.id # Revoked /\ k.root \in Trusted
  BY ServerValid
<1>5. DOMAIN Resolver = DOMAIN known /\ \A id \in DOMAIN known : Resolver[id] = server(known[id])
  BY DEF Resolver
<1> HIDE DEF x, server
<1>6. ASSUME NEW k, signer = server(k), SignerOf(c) = {k}
      PROVE  Validate(x, clock, Resolver) <=> Live(c)
  <2>1. XEdDSAVerify(server(k).publicKey, x.signature, x.certificate) <=> k.key = c.signedWith
    BY <1>1, <1>2, VerifiesSignature
  <2>2. Live(c) <=> /\ clock <= c.expiresAt
                    /\ k.id # Revoked /\ k.root \in Trusted /\ k.key = c.signedWith
    BY <1>6 DEF Live
  <2>3. Validate(x, clock, Resolver)
        <=> /\ \E root \in Trusted : ValidServer(server(k), root)
            /\ XEdDSAVerify(server(k).publicKey, x.signature, x.certificate)
            /\ clock <= Signed(x.expires)
    BY <1>2, <1>6 DEF Validate
  <2> QED
    BY <1>3, <1>4, <2>1, <2>2, <2>3
<1>7. CASE c.embedded
  <2>1. signer = server(c.signer)
    BY <1>1, <1>2, <1>7 DEF resolveSigner
  <2>2. SignerOf(c) = {c.signer}
    BY <1>7 DEF SignerOf
  <2> QED
    BY <1>6, <2>1, <2>2 DEF x
<1>8. CASE ~c.embedded /\ c.signer.id \in DOMAIN known
  <2>1. signer = server(known[c.signer.id])
    BY <1>1, <1>2, <1>5, <1>8 DEF resolveSigner
  <2>2. SignerOf(c) = {known[c.signer.id]}
    BY <1>8 DEF SignerOf
  <2> QED
    BY <1>6, <2>1, <2>2 DEF x
<1>9. CASE ~c.embedded /\ c.signer.id \notin DOMAIN known
  <2>1. signer = Nothing
    BY <1>1, <1>5, <1>9 DEF resolveSigner
  <2>2. SignerOf(c) = {}
    BY <1>9 DEF SignerOf
  <2>3. ~Live(c)
    BY <2>2 DEF Live
  <2>4. ~Validate(x, clock, Resolver)
    BY <2>1 DEF Validate
  <2> QED
    BY <2>3, <2>4 DEF x
<1> QED
  BY <1>7, <1>8, <1>9

\* A sealed content reads back, with its certificate.
LEMMA ContentParses ==
  ASSUME NEW c, c.embedded \in BOOLEAN, NEW i
  PROVE  LET x == ParseUnidentifiedSenderMessageContent(
                    NewUnidentifiedSenderMessageContent(2, SenderCertificate(c), i))
         IN  /\ x = [sender |-> ParseSenderCertificate(SenderCertificate(c)), content |-> i]
             /\ x # Nothing
<1> DEFINE data == NewUnidentifiedSenderMessageContent(2, SenderCertificate(c), i)
           got == Decode(contentFormat, data)
           parsed == ParseSenderCertificate(SenderCertificate(c))
           x == [sender |-> parsed, content |-> i]
<1>1. got # Nothing /\ got.type = 2 /\ got.sender = SenderCertificate(c) /\ got.content = i
  BY ContentDecodes
<1>2. parsed # Nothing
  BY SenderCertificateParses
<1>3. x # Nothing
  <2>1. DOMAIN x # {} /\ DOMAIN Nothing = {}
    BY DEF Nothing
  <2> QED
    BY <2>1
<1> HIDE DEF data, parsed
<1>4. ParseUnidentifiedSenderMessageContent(data) = x
  BY <1>1, <1>2 DEF ParseUnidentifiedSenderMessageContent, MessageTypes, parsed
<1> QED
  BY <1>3, <1>4 DEF data, parsed

-----------------------------------------------------------------------------
(* The invariant. *)

ServerKeys == {ServerKey(n) : n \in 1 .. MaxServerKeys}
SenderKeys == {IdentityKey(Sender, n) : n \in 1 .. MaxIdentities}

ServerRecords == [id : IDs, key : ServerKeys, root : Roots]

CertRecords ==
  [expiresAt : Expiries, identity : SenderKeys, signer : ServerRecords,
   embedded : BOOLEAN, signedWith : ServerKeys, foreign : BOOLEAN]

SealedRecords ==
  [version : {1, 2}, to : Recipients, by : SenderKeys, cert : CertRecords,
   impl : {"this", "other"}]

\* The types of the variables; what this library seals is sealed with a
\* certificate of the sender's identity.
TypeOK ==
  /\ clock \in 0 .. MaxClock
  /\ serverKey \in 1 .. MaxServerKeys
  /\ identity \in 1 .. MaxIdentities
  /\ serverCerts \subseteq ServerRecords
  /\ DOMAIN known \subseteq IDs
  /\ \A id \in DOMAIN known : known[id] \in ServerRecords
  /\ certs \subseteq CertRecords
  /\ sealed \in Seq(SealedRecords)

SealedOwn ==
  \A i \in DOMAIN sealed : sealed[i].impl = "this" => sealed[i].cert.identity = sealed[i].by

\* What was accepted was sealed, for the party that accepted it and by the key
\* that its certificate names.
Genuine(acc) ==
  \E i \in DOMAIN sealed :
    /\ acc.usmc = [sender |-> ParseSenderCertificate(SenderCertificate(sealed[i].cert)),
                   content |-> i]
    /\ sealed[i].to = acc.by
    /\ sealed[i].by = acc.usmc.sender.identity

IInv ==
  /\ TypeOK
  /\ SealedOwn
  /\ accepted # Nothing => Genuine(accepted)

-----------------------------------------------------------------------------
(* The parts of messages. *)

Usmc(i) == NewUnidentifiedSenderMessageContent(2, SenderCertificate(sealed[i].cert), i)

Ephemeral(i) == <<"ephemeral", i>>
EphemeralKeys(i) == deriveEphemeralKeys(Ephemeral(i), Own(sealed[i].to), "sending")
Static(i) == Encrypt(EphemeralKeys(i), sealed[i].by)
StaticKeys(i) == deriveStaticKeys(sealed[i].by, Own(sealed[i].to), EphemeralKeys(i), Static(i))
Box(i) == Encrypt(StaticKeys(i), Usmc(i))

Key(i) == [kind |-> "key", n |-> i]
V2Parts(i) == EncryptV2Received(Own(sealed[i].to), sealed[i].by, Usmc(i), Key(i))

LEMMA MessageParts ==
  ASSUME TypeOK, NEW i \in DOMAIN sealed
  PROVE  /\ Message(i) = [version |-> sealed[i].version, format |-> sealed[i].version,
                          payload |-> Message(i).payload]
         /\ sealed[i].version \in {1, 2}
         /\ sealed[i].version = 2 => Message(i).payload = V2Parts(i)
         /\ sealed[i].version = 1 =>
              Message(i).payload \in {V1Fields(Ephemeral(i), Static(i), Box(i)),
                                      Foreign(V1Fields(Ephemeral(i), Static(i), Box(i)))}
<1>1. sealed[i] \in SealedRecords
  BY DEF TypeOK
<1>2. sealed[i].version \in {1, 2}
  BY <1>1 DEF SealedRecords
<1>3. EncryptV1(Own(sealed[i].to), sealed[i].by, Usmc(i), Ephemeral(i))
      = V1Fields(Ephemeral(i), Static(i), Box(i))
  BY DEF EncryptV1, V1Fields, Static, StaticKeys, EphemeralKeys, Box
<1>4. Message(i) = [version |-> sealed[i].version, format |-> sealed[i].version, payload |->
         IF sealed[i].version = 2 THEN V2Parts(i)
         ELSE IF sealed[i].impl = "this"
         THEN EncryptV1(Own(sealed[i].to), sealed[i].by, Usmc(i), Ephemeral(i))
         ELSE Foreign(EncryptV1(Own(sealed[i].to), sealed[i].by, Usmc(i), Ephemeral(i)))]
  BY DEF Message, V2Parts, Usmc, Ephemeral, Key
<1>5. Message(i).payload =
         IF sealed[i].version = 2 THEN V2Parts(i)
         ELSE IF sealed[i].impl = "this" THEN V1Fields(Ephemeral(i), Static(i), Box(i))
         ELSE Foreign(V1Fields(Ephemeral(i), Static(i), Box(i)))
  BY <1>3, <1>4
<1>6. Message(i) = [version |-> sealed[i].version, format |-> sealed[i].version,
                    payload |-> Message(i).payload]
  BY <1>3, <1>4, <1>5
<1> QED
  BY <1>2, <1>5, <1>6

\* A field of some version 1 message.
V1Field(f) ==
  \/ f = Varint(99, 0)
  \/ \E j \in DOMAIN sealed :
       f = Bytes(1, Ephemeral(j)) \/ f = Bytes(2, Static(j)) \/ f = Bytes(3, Box(j))

\* Payloads that are made from parts of messages.
V1Made(f) == \A k \in DOMAIN f : k \in 1 .. 4 /\ V1Field(f[k])
V2Made(f) == \A k \in 1 .. 4 : \E j \in DOMAIN sealed : f[k] = V2Parts(j)[k]

LEMMA V1Payload ==
  ASSUME TypeOK, NEW i \in DOMAIN sealed, sealed[i].version = 1
  PROVE  V1Made(Message(i).payload)
<1> DEFINE f == Message(i).payload
           a == Bytes(1, Ephemeral(i))
           b == Bytes(2, Static(i))
           c == Bytes(3, Box(i))
           o == Varint(99, 0)
<1>1. f = <<a, b, c>> \/ f = <<o, c, b, a>>
  BY MessageParts, V1Orders
<1>2. V1Field(a) /\ V1Field(b) /\ V1Field(c) /\ V1Field(o)
  BY DEF V1Field
<1> HIDE DEF f, a, b, c, o
<1>3. CASE f = <<a, b, c>>
  <2>1. DOMAIN f = 1 .. 3 /\ f[1] = a /\ f[2] = b /\ f[3] = c
    BY <1>3
  <2> HIDE <1>3
  <2>2. \A k \in DOMAIN f : f[k] = a \/ f[k] = b \/ f[k] = c
    BY <2>1
  <2> QED
    BY <1>2, <2>1, <2>2 DEF f, V1Made
<1>4. CASE f = <<o, c, b, a>>
  <2>1. DOMAIN f = 1 .. 4 /\ f[1] = o /\ f[2] = c /\ f[3] = b /\ f[4] = a
    BY <1>4
  <2>2. \A k \in DOMAIN f : f[k] = a \/ f[k] = b \/ f[k] = c \/ f[k] = o
    BY <2>1
  <2> QED
    BY <1>2, <2>1, <2>2 DEF f, V1Made
<1> QED
  BY <1>1, <1>3, <1>4

\* What arrives, with a version byte that may have changed.
Changed(a, v) == [Arrived(a) EXCEPT !.version = v]

\* What arrives is put together from parts of messages of one version.
LEMMA ArrivedParts ==
  ASSUME TypeOK, NEW a \in Arrivals, NEW v
  PROVE  LET x == Changed(a, v) IN
         /\ x.format = 1 => V1Made(x.payload)
         /\ x.format = 2 => V2Made(x.payload)
<1> DEFINE x == Changed(a, v)
<1>0. x = [Arrived(a) EXCEPT !.version = v]
  BY DEF Changed
<1> HIDE DEF x
<1> DEFINE m == Message(a.of)
           n == Message(a.from)
<1>1. a.of \in DOMAIN sealed /\ a.from \in DOMAIN sealed /\ a.part \in 0 .. 4
  BY DEF Arrivals
<1>2. /\ m = [version |-> m.version, format |-> sealed[a.of].version, payload |-> m.payload]
      /\ n.format = sealed[a.from].version
      /\ sealed[a.of].version = 2 => m.payload = V2Parts(a.of)
      /\ sealed[a.from].version = 2 => n.payload = V2Parts(a.from)
  BY <1>1, MessageParts
<1>3. a.part # 0 => m.format = n.format /\ a.part \in DOMAIN m.payload \cap DOMAIN n.payload
  BY DEF Arrivals
<1>4. sealed[a.of].version = 1 =>
        \A k \in DOMAIN m.payload : k \in 1 .. 4 /\ V1Field(m.payload[k])
  BY <1>1, V1Payload DEF V1Made
<1>5. sealed[a.from].version = 1 => \A k \in DOMAIN n.payload : V1Field(n.payload[k])
  BY <1>1, V1Payload DEF V1Made
<1> DEFINE payload == IF a.part = 0 THEN m.payload
                      ELSE [m.payload EXCEPT ![a.part] = n.payload[a.part]]
<1>6. x = [version |-> v, format |-> sealed[a.of].version, payload |-> payload]
  <2>1. CASE a.part = 0
    BY <1>0, <1>2, <2>1 DEF Arrived
  <2>2. CASE a.part # 0
    <3>1. PICK new : new = [m.payload EXCEPT ![a.part] = n.payload[a.part]]
      OBVIOUS
    <3>2. Arrived(a) = [m EXCEPT !.payload = new]
      BY <2>2, <3>1 DEF Arrived
    <3>3. payload = new
      BY <2>2, <3>1
    <3> HIDE DEF m, n, payload
    <3>4. Arrived(a) = [version |-> m.version, format |-> sealed[a.of].version, payload |-> new]
      BY <1>2, <3>2
    <3> QED
      BY <1>0, <3>3, <3>4
  <2> QED
    BY <2>1, <2>2
<1>7. x.version = v /\ x.format = sealed[a.of].version /\ x.payload = payload
  BY <1>6
<1>8. ASSUME NEW k \in DOMAIN m.payload
      PROVE  \/ payload[k] = m.payload[k]
             \/ k = a.part /\ a.part # 0 /\ payload[k] = n.payload[k]
  OBVIOUS
<1>9. DOMAIN payload = DOMAIN m.payload
  OBVIOUS
<1> HIDE DEF payload, m, n
<1>10. m.format = sealed[a.of].version
  BY <1>2
<1>11. ASSUME x.format = 1, NEW k \in DOMAIN x.payload
       PROVE  k \in 1 .. 4 /\ V1Field(x.payload[k])
  <2>1. k \in DOMAIN m.payload /\ k \in 1 .. 4
    BY <1>4, <1>7, <1>9, <1>11
  <2>2. CASE payload[k] = m.payload[k]
    BY <1>4, <1>7, <1>11, <2>1, <2>2
  <2>3. CASE k = a.part /\ a.part # 0 /\ payload[k] = n.payload[k]
    BY <1>2, <1>3, <1>5, <1>7, <1>10, <1>11, <2>1, <2>3
  <2> QED
    BY <1>8, <2>1, <2>2, <2>3
<1>12. ASSUME x.format = 2, NEW k \in 1 .. 4
       PROVE  \E j \in DOMAIN sealed : x.payload[k] = V2Parts(j)[k]
  <2>1. m.payload = V2Parts(a.of)
    BY <1>2, <1>7, <1>12
  <2>2. k \in DOMAIN m.payload
    BY <2>1 DEF V2Parts, EncryptV2Received
  <2>3. CASE payload[k] = m.payload[k]
    BY <1>1, <1>7, <2>1, <2>3
  <2>4. CASE k = a.part /\ a.part # 0 /\ payload[k] = n.payload[k]
    <3>1. n.payload = V2Parts(a.from)
      BY <1>2, <1>3, <1>7, <1>10, <1>12, <2>4
    <3> QED
      BY <1>1, <1>7, <2>4, <3>1
  <2> QED
    BY <1>8, <2>2, <2>3, <2>4
<1> QED
  BY <1>11, <1>12 DEF x, V1Made, V2Made

-----------------------------------------------------------------------------
(* Opening messages. *)

\* The content of message i, as it reads back.
Content(i) ==
  [sender |-> ParseSenderCertificate(SenderCertificate(sealed[i].cert)), content |-> i]

LEMMA ContentOf ==
  ASSUME TypeOK, NEW i \in DOMAIN sealed
  PROVE  /\ ParseUnidentifiedSenderMessageContent(Usmc(i)) = Content(i)
         /\ Content(i) # Nothing
         /\ Content(i).sender.identity = sealed[i].cert.identity
<1>1. sealed[i] \in SealedRecords
  BY DEF TypeOK
<1>2. sealed[i].cert \in CertRecords
  BY <1>1 DEF SealedRecords
<1>3. sealed[i].cert.embedded \in BOOLEAN
  BY <1>2 DEF CertRecords
<1>4. ParseSenderCertificate(SenderCertificate(sealed[i].cert)).identity = sealed[i].cert.identity
  BY <1>3, SenderCertificateParses
<1>5. Content(i).sender = ParseSenderCertificate(SenderCertificate(sealed[i].cert))
  BY DEF Content
<1>6. ParseUnidentifiedSenderMessageContent(Usmc(i)) = Content(i) /\ Content(i) # Nothing
  BY <1>3, ContentParses DEF Usmc, Content
<1> QED
  BY <1>4, <1>5, <1>6

LEMMA OwnDistinct ==
  ASSUME NEW p, NEW q, Own(p) = Own(q)
  PROVE  p = q
BY DEF Own, IdentityKey

\* The salt names the recipient and the ephemeral key.
LEMMA EphemeralKeysOf ==
  ASSUME NEW i
  PROVE  EphemeralKeys(i) = [dh |-> DH(Ephemeral(i), Own(sealed[i].to)),
                             salt |-> <<Own(sealed[i].to), Ephemeral(i)>>]
BY DEF EphemeralKeys, deriveEphemeralKeys

LEMMA EphemeralKeysBind ==
  ASSUME NEW p, NEW i, NEW j,
         deriveEphemeralKeys(Own(p), Ephemeral(i), "receiving") = EphemeralKeys(j)
  PROVE  p = sealed[j].to /\ i = j
<1>1. deriveEphemeralKeys(Own(p), Ephemeral(i), "receiving")
      = [dh |-> DH(Own(p), Ephemeral(i)), salt |-> <<Own(p), Ephemeral(i)>>]
  BY DEF deriveEphemeralKeys
<1>2. <<Own(p), Ephemeral(i)>> = <<Own(sealed[j].to), Ephemeral(j)>>
  BY <1>1, EphemeralKeysOf
<1>3. Own(p) = Own(sealed[j].to) /\ Ephemeral(i) = Ephemeral(j)
  BY <1>2
<1> QED
  BY <1>3, OwnDistinct DEF Ephemeral

LEMMA StaticKeysBind ==
  ASSUME NEW our, NEW their, NEW chain, NEW static, NEW j,
         deriveStaticKeys(our, their, chain, static) = StaticKeys(j)
  PROVE  chain = EphemeralKeys(j) /\ static = Static(j)
<1>1. <<chain, static>> = <<EphemeralKeys(j), Static(j)>>
  BY DEF deriveStaticKeys, StaticKeys
<1> QED
  BY <1>1

LEMMA BoxFields ==
  ASSUME NEW i
  PROVE  /\ Static(i).key = EphemeralKeys(i) /\ Static(i).data = sealed[i].by
         /\ Box(i).key = StaticKeys(i) /\ Box(i).data = Usmc(i)
BY DEF Static, Box, Encrypt

\* The three parts are values of fields of the message.
LEMMA V1Values ==
  ASSUME NEW f, \A i \in DOMAIN f : i \in 1 .. 4, Decode(sealedV1Format, f) # Nothing
  PROVE  LET msg == Decode(sealedV1Format, f) IN
         /\ \E k \in DOMAIN f : f[k].num = 1 /\ msg["ephemeral"] = f[k].val
         /\ \E k \in DOMAIN f : f[k].num = 2 /\ msg["static"] = f[k].val
         /\ \E k \in DOMAIN f : f[k].num = 3 /\ msg["message"] = f[k].val
<1>1. /\ sealedV1Format.field[1].name = "ephemeral"
      /\ sealedV1Format.field[2].name = "static"
      /\ sealedV1Format.field[3].name = "message"
  BY SealedV1Format DEF Tag
<1>2. \A n \in 1 .. 3 : {sealedV1Format.field[n].name} \in sealedV1Format.required
  BY <1>1, SealedV1Format
<1>3. \A n \in 1 .. 3 : HasValue(sealedV1Format, f, n)
  <2>1. DOMAIN sealedV1Format.field = 1 .. 3 /\ NamesDistinct(sealedV1Format)
    BY SealedV1Format
  <2> TAKE n \in 1 .. 3
  <2>2. n \in DOMAIN sealedV1Format.field
    BY <2>1
  <2>3. {sealedV1Format.field[n].name} \in sealedV1Format.required
    BY <1>2
  <2> QED
    BY <2>1, <2>2, <2>3, DecodeSome
<1>4. /\ HasValue(sealedV1Format, f, 1) /\ HasValue(sealedV1Format, f, 2)
      /\ HasValue(sealedV1Format, f, 3)
  BY <1>3
<1> QED
  BY <1>1, <1>4 DEF HasValue

\* Version 1: what opens was sealed for the party that opens it, by the key
\* that its certificate names, and none of its parts was exchanged.
LEMMA GenuineV1 ==
  ASSUME TypeOK, NEW f, NEW p, V1Made(f),
         decryptV1(f, Own(p)) # Nothing
  PROVE  \E i \in DOMAIN sealed :
           /\ decryptV1(f, Own(p)) = Content(i)
           /\ sealed[i].to = p
           /\ sealed[i].by = Content(i).sender.identity
<1> DEFINE msg == Decode(sealedV1Format, f)
           ephKeys == deriveEphemeralKeys(Own(p), msg.ephemeral, "receiving")
           static == msg.static.data
           stKeys == deriveStaticKeys(Own(p), static, ephKeys, msg.static)
<1>1. /\ msg # Nothing
      /\ Decrypts(ephKeys, msg.static)
      /\ Decrypts(stKeys, msg.message)
      /\ decryptV1(f, Own(p))
         = FromStatic(ParseUnidentifiedSenderMessageContent(msg.message.data), static)
  BY DEF decryptV1
<1>2. /\ \E k \in DOMAIN f : f[k].num = 1 /\ msg["ephemeral"] = f[k].val
      /\ \E k \in DOMAIN f : f[k].num = 2 /\ msg["static"] = f[k].val
      /\ \E k \in DOMAIN f : f[k].num = 3 /\ msg["message"] = f[k].val
  <2>1. \A i \in DOMAIN f : i \in 1 .. 4
    BY DEF V1Made
  <2> QED
    BY <1>1, <2>1, V1Values
<1>3. \A v : /\ Bytes(1, v).num = 1 /\ Bytes(2, v).num = 2 /\ Bytes(3, v).num = 3
             /\ Bytes(1, v).val = v /\ Bytes(2, v).val = v /\ Bytes(3, v).val = v
  BY DEF Bytes
<1>4. Varint(99, 0).num = 99
  BY DEF Varint
<1>5. PICK i1 \in DOMAIN sealed : msg.ephemeral = Ephemeral(i1)
  BY <1>2, <1>3, <1>4 DEF V1Made, V1Field
<1>6. PICK i2 \in DOMAIN sealed : msg.static = Static(i2)
  BY <1>2, <1>3, <1>4 DEF V1Made, V1Field
<1>7. PICK i3 \in DOMAIN sealed : msg.message = Box(i3)
  BY <1>2, <1>3, <1>4 DEF V1Made, V1Field
<1> HIDE DEF msg
<1>8. p = sealed[i2].to /\ i1 = i2
  <2>1. deriveEphemeralKeys(Own(p), Ephemeral(i1), "receiving") = EphemeralKeys(i2)
    BY <1>1, <1>5, <1>6, BoxFields DEF Decrypts
  <2> QED
    BY <2>1, EphemeralKeysBind
<1>9. ephKeys = EphemeralKeys(i3) /\ Static(i2) = Static(i3)
  <2>1. stKeys = StaticKeys(i3)
    BY <1>1, <1>7, BoxFields DEF Decrypts
  <2> HIDE DEF ephKeys
  <2> QED
    BY <1>6, <2>1, StaticKeysBind
<1>10. p = sealed[i3].to /\ i1 = i3
  BY <1>5, <1>9, EphemeralKeysBind
<1>11. static = sealed[i3].by
  BY <1>6, <1>9, BoxFields
<1>12. ParseUnidentifiedSenderMessageContent(msg.message.data) = Content(i3)
  BY <1>7, BoxFields, ContentOf
<1>13. decryptV1(f, Own(p)) = FromStatic(Content(i3), static)
  BY <1>1, <1>12
<1> HIDE DEF static
<1>14. decryptV1(f, Own(p)) = Content(i3) /\ Content(i3).sender.identity = static
  BY <1>13 DEF FromStatic
<1> QED
  BY <1>10, <1>11, <1>14

\* The parts of a version 2 message.
MaskOf(i) == [dh |-> DH(DeriveR(Key(i)), Own(sealed[i].to)),
              keys |-> <<DeriveR(Key(i)), Own(sealed[i].to)>>]
CipherOf(i) == [kind |-> "masked", mask |-> MaskOf(i), key |-> Key(i)]

LEMMA V2PartsOf ==
  ASSUME NEW i
  PROVE  /\ V2Parts(i)[1] = CipherOf(i)
         /\ V2Parts(i)[2] = computeAuthenticationTag(sealed[i].by, Own(sealed[i].to), "sending",
                                                     DeriveR(Key(i)), CipherOf(i))
         /\ V2Parts(i)[3] = DeriveR(Key(i))
         /\ V2Parts(i)[4] = Encrypt(DeriveK(Key(i)), Usmc(i))
<1>1. Key(i).kind = "key"
  BY DEF Key
<1>2. applyAgreementXOR(DeriveR(Key(i)), Own(sealed[i].to), "sending", Key(i)) = CipherOf(i)
  BY <1>1 DEF applyAgreementXOR, Xor, Ordered, CipherOf, MaskOf
<1> QED
  BY <1>2 DEF V2Parts, EncryptV2Received

\* Unmasking gives a message key only for the mask that was applied.
LEMMA Unmask ==
  ASSUME NEW p, NEW epub, NEW i, NEW j,
         applyAgreementXOR(Own(p), epub, "receiving", CipherOf(i)) = Key(j)
  PROVE  i = j /\ epub = DeriveR(Key(i)) /\ p = sealed[i].to
<1> DEFINE mask == [dh |-> DH(Own(p), epub), keys |-> <<epub, Own(p)>>]
<1>1. applyAgreementXOR(Own(p), epub, "receiving", CipherOf(i)) = Xor(mask, CipherOf(i))
  BY DEF applyAgreementXOR, Ordered
<1>2. CipherOf(i).kind = "masked" /\ CipherOf(i).mask = MaskOf(i) /\ CipherOf(i).key = Key(i)
  BY DEF CipherOf
<1>3. Key(j).kind = "key" /\ Key(j).n = j /\ Key(i).n = i
  BY DEF Key
<1>4. MaskOf(i) = mask /\ Key(i) = Key(j)
  <2>1. CASE MaskOf(i) = mask
    BY <1>1, <1>2, <2>1 DEF Xor
  <2>2. CASE MaskOf(i) # mask
    <3>1. Xor(mask, CipherOf(i)).kind = "masked"
      BY <1>2, <2>2 DEF Xor
    <3> QED
      BY <1>1, <1>3, <3>1
  <2> QED
    BY <2>1, <2>2
<1>5. <<epub, Own(p)>> = <<DeriveR(Key(i)), Own(sealed[i].to)>>
  BY <1>4 DEF MaskOf
<1>6. epub = DeriveR(Key(i)) /\ Own(p) = Own(sealed[i].to)
  BY <1>5
<1> QED
  BY <1>3, <1>4, <1>6, OwnDistinct

\* Version 2: the same.
LEMMA GenuineV2 ==
  ASSUME TypeOK, NEW f, NEW p, V2Made(f),
         decryptV2(f, Own(p)) # Nothing
  PROVE  \E i \in DOMAIN sealed :
           /\ decryptV2(f, Own(p)) = Content(i)
           /\ sealed[i].to = p
           /\ sealed[i].by = Content(i).sender.identity
<1> DEFINE m == applyAgreementXOR(Own(p), f[3], "receiving", f[1])
<1>1. /\ DeriveR(m) = f[3]
      /\ Decrypts(DeriveK(m), f[4])
      /\ decryptV2(f, Own(p))
         = Tagged(ParseUnidentifiedSenderMessageContent(f[4].data), f, Own(p))
  BY DEF decryptV2
<1>2. PICK i1 \in DOMAIN sealed : f[1] = CipherOf(i1)
  BY V2PartsOf DEF V2Made
<1>3. PICK i2 \in DOMAIN sealed :
        f[2] = computeAuthenticationTag(sealed[i2].by, Own(sealed[i2].to), "sending",
                                        DeriveR(Key(i2)), CipherOf(i2))
  BY V2PartsOf DEF V2Made
<1>4. PICK i3 \in DOMAIN sealed : f[3] = DeriveR(Key(i3))
  BY V2PartsOf DEF V2Made
<1>5. PICK i4 \in DOMAIN sealed : f[4] = Encrypt(DeriveK(Key(i4)), Usmc(i4))
  BY V2PartsOf DEF V2Made
<1>6. \A i, j : Key(i) = Key(j) => i = j
  <2>1. \A i : Key(i).n = i
    BY DEF Key
  <2> QED
    BY <2>1
<1>7. m = Key(i3)
  BY <1>1, <1>4 DEF DeriveR
<1>8. i1 = i3 /\ p = sealed[i3].to
  BY <1>2, <1>7, Unmask
<1> HIDE DEF m
<1>9. i4 = i3
  <2>1. f[4].key = DeriveK(Key(i4))
    BY <1>5 DEF Encrypt
  <2>2. DeriveK(Key(i3)) = DeriveK(Key(i4))
    BY <1>1, <1>7, <2>1 DEF Decrypts
  <2> QED
    BY <1>6, <2>2 DEF DeriveK
<1>10. ParseUnidentifiedSenderMessageContent(f[4].data) = Content(i3)
  <2>1. f[4].data = Usmc(i3)
    BY <1>5, <1>9 DEF Encrypt
  <2> QED
    BY <2>1, ContentOf
<1>11. decryptV2(f, Own(p)) = Tagged(Content(i3), f, Own(p))
  BY <1>1, <1>10
<1>12. /\ decryptV2(f, Own(p)) = Content(i3)
       /\ f[2] = computeAuthenticationTag(Own(p), Content(i3).sender.identity, "receiving",
                                          f[3], f[1])
  BY <1>11 DEF Tagged
<1>13. DeriveR(Key(i2)) = DeriveR(Key(i3)) /\ sealed[i2].by = Content(i3).sender.identity
  <2> DEFINE sender == Content(i3).sender.identity
  <2>1. f[2].epub = DeriveR(Key(i2)) /\ f[2].keys = <<sealed[i2].by, Own(sealed[i2].to)>>
    BY <1>3 DEF computeAuthenticationTag, Ordered
  <2>2. f[2].epub = f[3] /\ f[2].keys = <<sender, Own(p)>>
    BY <1>12 DEF computeAuthenticationTag, Ordered
  <2> HIDE DEF sender
  <2>3. sealed[i2].by = sender
    BY <2>1, <2>2
  <2> QED
    BY <1>4, <2>1, <2>2, <2>3 DEF sender
<1>14. i2 = i3
  BY <1>6, <1>13 DEF DeriveR
<1> QED
  BY <1>8, <1>12, <1>13, <1>14

\* What opens, of all that arrives and under whatever version byte, is the
\* content of one message, sealed for the party that opens it and by the key
\* that its certificate names.
LEMMA OpenedIsGenuine ==
  ASSUME TypeOK, NEW p, NEW a \in Arrivals, NEW v,
         NEW usmc, usmc = DecryptToUSMC(Changed(a, v), Own(p)), usmc # Nothing
  PROVE  \E i \in DOMAIN sealed :
           usmc = Content(i) /\ sealed[i].to = p /\ sealed[i].by = Content(i).sender.identity
<1> DEFINE x == Changed(a, v)
<1>1. /\ x.format = 1 => V1Made(x.payload)
      /\ x.format = 2 => V2Made(x.payload)
  BY ArrivedParts
<1> HIDE DEF x
<1>2. \/ x.format = 1 /\ usmc = decryptV1(x.payload, Own(p))
      \/ x.format = 2 /\ usmc = decryptV2(x.payload, Own(p))
  <2>1. CASE x.version \in {0, 1} /\ x.format = 1
    <3>1. ~(x.version = 2 /\ x.format = 2)
      BY <2>1
    <3> QED
      BY <2>1, <3>1 DEF DecryptToUSMC, x
  <2>2. CASE x.version = 2 /\ x.format = 2
    <3>1. ~(x.version \in {0, 1} /\ x.format = 1)
      BY <2>2
    <3> QED
      BY <2>2, <3>1 DEF DecryptToUSMC, x
  <2>3. CASE ~(x.version \in {0, 1} /\ x.format = 1) /\ ~(x.version = 2 /\ x.format = 2)
    BY <2>3 DEF DecryptToUSMC, x
  <2> QED
    BY <2>1, <2>2, <2>3
<1>3. CASE x.format = 1 /\ usmc = decryptV1(x.payload, Own(p))
  BY <1>1, <1>3, GenuineV1
<1>4. CASE x.format = 2 /\ usmc = decryptV2(x.payload, Own(p))
  BY <1>1, <1>4, GenuineV2
<1> QED
  BY <1>2, <1>3, <1>4

\* A message that arrives unchanged opens, if its certificate is of the key
\* that sealed it.
LEMMA Opens ==
  ASSUME TypeOK, NEW i \in DOMAIN sealed, sealed[i].cert.identity = sealed[i].by
  PROVE  DecryptToUSMC(Message(i), Own(sealed[i].to)) = Content(i)
<1> DEFINE f == Message(i).payload
           p == Own(sealed[i].to)
<1>1. /\ Message(i) = [version |-> sealed[i].version, format |-> sealed[i].version,
                       payload |-> f]
      /\ sealed[i].version \in {1, 2}
      /\ sealed[i].version = 2 => f = V2Parts(i)
      /\ sealed[i].version = 1 =>
           f \in {V1Fields(Ephemeral(i), Static(i), Box(i)),
                  Foreign(V1Fields(Ephemeral(i), Static(i), Box(i)))}
  BY MessageParts
<1>2. /\ ParseUnidentifiedSenderMessageContent(Usmc(i)) = Content(i)
      /\ Content(i) # Nothing
      /\ Content(i).sender.identity = sealed[i].by
  BY ContentOf
<1> HIDE DEF f
<1>3. Message(i).version = sealed[i].version /\ Message(i).format = sealed[i].version
  BY <1>1
<1>4. CASE sealed[i].version = 1
  <2>1. DecryptToUSMC(Message(i), p) = decryptV1(f, p)
    BY <1>3, <1>4 DEF DecryptToUSMC, f
  <2> DEFINE msg == Decode(sealedV1Format, f)
  <2>2. msg # Nothing /\ msg.ephemeral = Ephemeral(i) /\ msg.static = Static(i)
        /\ msg.message = Box(i)
    BY <1>1, <1>4, V1Decodes
  <2>3. deriveEphemeralKeys(p, Ephemeral(i), "receiving") = EphemeralKeys(i)
    BY EphemeralKeysOf DEF deriveEphemeralKeys, DH
  <2>4. deriveStaticKeys(p, sealed[i].by, EphemeralKeys(i), Static(i)) = StaticKeys(i)
    BY DEF deriveStaticKeys, StaticKeys, DH
  <2> HIDE DEF msg
  <2>5. decryptV1(f, p) = FromStatic(ParseUnidentifiedSenderMessageContent(Usmc(i)), sealed[i].by)
    BY <2>2, <2>3, <2>4, BoxFields DEF decryptV1, Decrypts, msg
  <2> QED
    BY <1>2, <2>1, <2>5 DEF FromStatic
<1>5. CASE sealed[i].version = 2
  <2>1. DecryptToUSMC(Message(i), p) = decryptV2(f, p)
    BY <1>3, <1>5 DEF DecryptToUSMC, f
  <2>2. /\ f[1] = CipherOf(i)
        /\ f[2] = computeAuthenticationTag(sealed[i].by, p, "sending", DeriveR(Key(i)), CipherOf(i))
        /\ f[3] = DeriveR(Key(i))
        /\ f[4] = Encrypt(DeriveK(Key(i)), Usmc(i))
    BY <1>1, <1>5, V2PartsOf
  <2>3. f[4].key = DeriveK(Key(i)) /\ f[4].data = Usmc(i)
    BY <2>2 DEF Encrypt
  <2> DEFINE mask == [dh |-> DH(p, DeriveR(Key(i))), keys |-> <<DeriveR(Key(i)), p>>]
  <2>4. applyAgreementXOR(p, f[3], "receiving", f[1]) = Key(i)
    <3>1. applyAgreementXOR(p, f[3], "receiving", f[1]) = Xor(mask, CipherOf(i))
      BY <2>2 DEF applyAgreementXOR, Ordered
    <3>2. MaskOf(i) = mask
      BY DEF MaskOf, DH
    <3>3. CipherOf(i).kind = "masked" /\ CipherOf(i).mask = MaskOf(i) /\ CipherOf(i).key = Key(i)
      BY DEF CipherOf
    <3> HIDE DEF mask
    <3> QED
      BY <3>1, <3>2, <3>3 DEF Xor
  <2>5. decryptV2(f, p) = Tagged(Content(i), f, p)
    BY <1>2, <2>2, <2>3, <2>4 DEF decryptV2, Decrypts
  <2>6. f[2] = computeAuthenticationTag(p, sealed[i].by, "receiving", f[3], f[1])
    BY <2>2 DEF computeAuthenticationTag, Ordered, DH
  <2> QED
    BY <1>2, <2>1, <2>5, <2>6 DEF Tagged
<1> QED
  BY <1>1, <1>4, <1>5

-----------------------------------------------------------------------------
(* The theorems. *)

LEMMA InitIInv == Init => IInv
<1> SUFFICES ASSUME Init PROVE IInv
  OBVIOUS
<1>1. MaxClock \in Nat /\ MaxServerKeys \in Nat \ {0} /\ MaxIdentities \in Nat \ {0}
  BY SealedSenderAssumption
<1>2. sealed \in Seq(SealedRecords) /\ DOMAIN sealed = {} /\ DOMAIN known = {}
  BY DEF Init
<1>3. TypeOK
  BY <1>1, <1>2 DEF Init, TypeOK
<1> QED
  BY <1>2, <1>3 DEF Init, IInv, SealedOwn

LEMMA TypePreserved == IInv /\ [Next]_vars => TypeOK'
<1> SUFFICES ASSUME IInv, [Next]_vars PROVE TypeOK'
  OBVIOUS
<1> USE DEF IInv
<1>0. /\ MaxClock \in Nat /\ MaxServerKeys \in Nat \ {0} /\ MaxIdentities \in Nat \ {0}
  BY SealedSenderAssumption
<1>1. CASE Tick
  BY <1>0, <1>1 DEF Tick, TypeOK
<1>2. CASE RotateServerKey
  BY <1>0, <1>2 DEF RotateServerKey, TypeOK
<1>3. CASE RotateIdentity
  BY <1>0, <1>3 DEF RotateIdentity, TypeOK
<1>4. ServerKey(serverKey) \in ServerKeys /\ IdentityKey(Sender, identity) \in SenderKeys
  BY DEF TypeOK, ServerKeys, SenderKeys
<1>5. CASE IssueServerCertificate
  <2>1. PICK id \in IDs, root \in Roots :
          /\ serverCerts' = serverCerts
                            \cup {[id |-> id, key |-> ServerKey(serverKey), root |-> root]}
          /\ UNCHANGED <<clock, serverKey, identity, known, certs, sealed, accepted>>
    BY <1>5 DEF IssueServerCertificate
  <2>2. [id |-> id, key |-> ServerKey(serverKey), root |-> root] \in ServerRecords
    BY <1>4 DEF ServerRecords
  <2> QED
    BY <2>1, <2>2 DEF TypeOK
<1>6. CASE InstallServerCertificate
  <2>1. PICK k \in serverCerts :
          /\ known' = [id \in DOMAIN known \cup {k.id} |-> IF id = k.id THEN k ELSE known[id]]
          /\ UNCHANGED <<clock, serverKey, identity, serverCerts, certs, sealed, accepted>>
    BY <1>6 DEF InstallServerCertificate
  <2>2. k \in ServerRecords
    BY DEF TypeOK
  <2>3. k.id \in IDs
    BY <2>2 DEF ServerRecords
  <2>4. DOMAIN known' = DOMAIN known \cup {k.id}
    BY <2>1
  <2>5. \A id \in DOMAIN known' : known'[id] \in ServerRecords
    BY <2>1, <2>2, <2>4 DEF TypeOK
  <2> QED
    BY <2>1, <2>3, <2>4, <2>5 DEF TypeOK
<1>7. CASE IssueSenderCertificate
  <2>1. PICK expiresAt \in Expiries, signer \in serverCerts, embedded \in BOOLEAN,
             foreign \in BOOLEAN :
          /\ certs' = certs \cup
               {[expiresAt |-> expiresAt, identity |-> IdentityKey(Sender, identity),
                 signer |-> signer, embedded |-> embedded,
                 signedWith |-> ServerKey(serverKey), foreign |-> foreign]}
          /\ UNCHANGED <<clock, serverKey, identity, serverCerts, known, sealed, accepted>>
    BY <1>7 DEF IssueSenderCertificate
  <2>2. signer \in ServerRecords
    BY DEF TypeOK
  <2>3. [expiresAt |-> expiresAt, identity |-> IdentityKey(Sender, identity),
         signer |-> signer, embedded |-> embedded,
         signedWith |-> ServerKey(serverKey), foreign |-> foreign] \in CertRecords
    BY <1>4, <2>2 DEF CertRecords
  <2> QED
    BY <2>1, <2>3 DEF TypeOK
<1>8. CASE Seal
  <2>1. PICK version \in {1, 2}, p \in Recipients, cert \in certs, impl \in {"this", "other"} :
          /\ sealed' = Append(sealed, [version |-> version, to |-> p,
                                       by |-> IdentityKey(Sender, identity),
                                       cert |-> cert, impl |-> impl])
          /\ UNCHANGED <<clock, serverKey, identity, serverCerts, known, certs, accepted>>
    BY <1>8 DEF Seal
  <2>2. cert \in CertRecords
    BY DEF TypeOK
  <2>3. [version |-> version, to |-> p, by |-> IdentityKey(Sender, identity),
         cert |-> cert, impl |-> impl] \in SealedRecords
    BY <1>4, <2>2 DEF SealedRecords
  <2>4. sealed' \in Seq(SealedRecords)
    BY <2>1, <2>3 DEF TypeOK
  <2> QED
    BY <2>1, <2>4 DEF TypeOK
<1>9. CASE \E p \in Recipients : Receive(p)
  BY <1>9 DEF Receive, TypeOK
<1>10. CASE UNCHANGED vars
  BY <1>10 DEF vars, TypeOK
<1> QED
  BY <1>1, <1>2, <1>3, <1>5, <1>6, <1>7, <1>8, <1>9, <1>10 DEF Next

LEMMA SealedOwnPreserved == IInv /\ [Next]_vars => SealedOwn'
<1> SUFFICES ASSUME IInv, [Next]_vars PROVE SealedOwn'
  OBVIOUS
<1>1. CASE Seal
  <2>1. PICK version \in {1, 2}, p \in Recipients, cert \in certs, impl \in {"this", "other"} :
          /\ MaySeal(cert, IdentityKey(Sender, identity), impl)
          /\ sealed' = Append(sealed, [version |-> version, to |-> p,
                                       by |-> IdentityKey(Sender, identity),
                                       cert |-> cert, impl |-> impl])
    BY <1>1 DEF Seal
  <2>2. cert \in CertRecords
    BY DEF IInv, TypeOK
  <2>3. cert.embedded \in BOOLEAN
    BY <2>2 DEF CertRecords
  <2>4. impl = "this" => cert.identity = IdentityKey(Sender, identity)
    BY <2>1, <2>3, SenderCertificateParses DEF MaySeal
  <2> DEFINE s == [version |-> version, to |-> p, by |-> IdentityKey(Sender, identity),
                   cert |-> cert, impl |-> impl]
  <2>5. s.impl = impl /\ s.cert = cert /\ s.by = IdentityKey(Sender, identity)
    OBVIOUS
  <2>6. sealed \in Seq(SealedRecords) /\ sealed' = Append(sealed, s)
    BY <2>1 DEF IInv, TypeOK
  <2> HIDE DEF s
  <2>7. \A i \in DOMAIN sealed' : (i \in DOMAIN sealed /\ sealed'[i] = sealed[i]) \/ sealed'[i] = s
    BY <2>6
  <2> QED
    BY <2>4, <2>5, <2>7 DEF IInv, SealedOwn
<1>2. CASE UNCHANGED sealed
  BY <1>2 DEF IInv, SealedOwn
<1>3. Seal \/ UNCHANGED sealed
  BY DEF Next, vars, Tick, RotateServerKey, RotateIdentity, IssueServerCertificate,
     InstallServerCertificate, IssueSenderCertificate, Receive
<1> QED
  BY <1>1, <1>2, <1>3

\* A recipient accepts the content of one message, which it opened and whose
\* certificate it validated.
LEMMA ReceiveStep ==
  ASSUME TypeOK, NEW p \in Recipients, Receive(p)
  PROVE  \E i \in DOMAIN sealed :
           /\ accepted' = [by |-> p, usmc |-> Content(i)]
           /\ sealed[i].to = p
           /\ sealed[i].by = Content(i).sender.identity
           /\ Validate(Content(i).sender, clock, Resolver)
           /\ UNCHANGED <<clock, serverKey, identity, serverCerts, known, certs, sealed>>
<1>1. PICK a \in Arrivals, version \in 0 .. 3 :
        \E usmc \in Accepted(p, Changed(a, version)) :
          /\ accepted' = [by |-> p, usmc |-> usmc]
          /\ UNCHANGED <<clock, serverKey, identity, serverCerts, known, certs, sealed>>
  BY DEF Receive, Changed
<1>2. PICK usmc \in Accepted(p, Changed(a, version)) :
        /\ accepted' = [by |-> p, usmc |-> usmc]
        /\ UNCHANGED <<clock, serverKey, identity, serverCerts, known, certs, sealed>>
  BY <1>1
<1>3. /\ usmc = DecryptToUSMC(Changed(a, version), Own(p))
      /\ usmc # Nothing
      /\ Validate(usmc.sender, clock, Resolver)
  BY <1>2 DEF Accepted
<1>4. PICK i \in DOMAIN sealed :
        usmc = Content(i) /\ sealed[i].to = p /\ sealed[i].by = Content(i).sender.identity
  BY <1>3, OpenedIsGenuine
<1> QED
  BY <1>2, <1>3, <1>4

LEMMA GenuinePreserved ==
  IInv /\ [Next]_vars => (accepted # Nothing => Genuine(accepted))'
<1> SUFFICES ASSUME IInv, [Next]_vars, accepted' # Nothing PROVE Genuine(accepted)'
  OBVIOUS
<1>1. CASE \E p \in Recipients : Receive(p)
  <2>1. PICK p \in Recipients : Receive(p)
    BY <1>1
  <2>2. PICK i \in DOMAIN sealed :
          /\ accepted' = [by |-> p, usmc |-> Content(i)]
          /\ sealed[i].to = p
          /\ sealed[i].by = Content(i).sender.identity
          /\ UNCHANGED sealed
    BY <2>1, ReceiveStep DEF IInv
  <2>3. accepted'.by = p /\ accepted'.usmc = Content(i)
    BY <2>2
  <2> QED
    BY <2>2, <2>3 DEF Genuine, Content
<1>2. CASE UNCHANGED accepted /\ \E s : sealed' = Append(sealed, s)
  <2>1. PICK s : sealed' = Append(sealed, s)
    BY <1>2
  <2>2. sealed \in Seq(SealedRecords)
    BY DEF IInv, TypeOK
  <2>3. \A i \in DOMAIN sealed : i \in DOMAIN sealed' /\ sealed'[i] = sealed[i]
    BY <2>1, <2>2
  <2>4. Genuine(accepted)
    BY <1>2 DEF IInv
  <2> QED
    BY <1>2, <2>3, <2>4 DEF Genuine
<1>3. CASE UNCHANGED <<accepted, sealed>>
  BY <1>3 DEF IInv, Genuine
<1>4. \/ \E p \in Recipients : Receive(p)
      \/ UNCHANGED accepted /\ \E s : sealed' = Append(sealed, s)
      \/ UNCHANGED <<accepted, sealed>>
  BY DEF Next, vars, Tick, RotateServerKey, RotateIdentity, IssueServerCertificate,
     InstallServerCertificate, IssueSenderCertificate, Seal
<1> QED
  BY <1>1, <1>2, <1>3, <1>4

\* The inductive invariant holds in every reachable state: the variables have
\* their types (TypeOK), this library seals only with a certificate of its own
\* identity, and what was accepted is a sealed content, for the party that
\* accepted it.
THEOREM Invariance == Spec => []IInv
<1>1. IInv /\ [Next]_vars => IInv'
  BY TypePreserved, SealedOwnPreserved, GenuinePreserved DEF IInv
<1> QED
  BY InitIInv, <1>1, PTL DEF Spec

\* Whatever recipient opens whatever comes out of exchanging parts of messages
\* and version bytes: a content it accepts was sealed for it, with the
\* certificate it is shown with, by the key which that certificate names
\* (decryptV1 and decryptV2: the keys and the tag bind both parties).
THEOREM AcceptedContentIsGenuine == Spec => []AcceptedIsGenuine
<1>1. IInv => AcceptedIsGenuine
  <2> SUFFICES ASSUME IInv, accepted # Nothing
               PROVE  LET sender == accepted.usmc.sender
                          origin == Origin(accepted)
                      IN  /\ origin.to = accepted.by
                          /\ origin.by = sender.identity
                          /\ ParseSenderCertificate(SenderCertificate(origin.cert)) = sender
    BY DEF AcceptedIsGenuine
  <2>1. PICK i \in DOMAIN sealed :
          /\ accepted.usmc = Content(i)
          /\ sealed[i].to = accepted.by
          /\ sealed[i].by = accepted.usmc.sender.identity
    BY DEF IInv, Genuine, Content
  <2>2. /\ accepted.usmc.content = i
        /\ accepted.usmc.sender = ParseSenderCertificate(SenderCertificate(sealed[i].cert))
    BY <2>1 DEF Content
  <2> QED
    BY <2>1, <2>2 DEF Origin
<1> QED
  BY Invariance, <1>1, PTL

LEMMA CertTyped ==
  ASSUME TypeOK, NEW i \in DOMAIN sealed
  PROVE  /\ sealed[i].cert.embedded \in BOOLEAN
         /\ sealed[i].cert.expiresAt \in Expiries
         /\ sealed[i].impl \in {"this", "other"}
         /\ clock \in Int
<1>1. sealed[i] \in SealedRecords
  BY DEF TypeOK
<1>2. sealed[i].cert \in CertRecords /\ sealed[i].impl \in {"this", "other"}
  BY <1>1 DEF SealedRecords
<1> QED
  BY <1>2 DEF CertRecords, TypeOK

\* A recipient accepts a content only at a moment at which the certificate it
\* was sealed with is live: Validate compares times as signed numbers and
\* checks the whole chain of signatures up to a trusted root.
THEOREM AcceptedWhileLive == Spec => AcceptedOnlyIfLive
<1>1. IInv /\ [Next]_vars => [accepted' # accepted => Live(Origin(accepted').cert)]_vars
  <2> SUFFICES ASSUME IInv, [Next]_vars, accepted' # accepted
               PROVE  Live(Origin(accepted').cert)
    OBVIOUS
  <2>1. PICK p \in Recipients : Receive(p)
    BY DEF Next, vars, Tick, RotateServerKey, RotateIdentity, IssueServerCertificate,
       InstallServerCertificate, IssueSenderCertificate, Seal
  <2>2. TypeOK
    BY DEF IInv
  <2>3. PICK i \in DOMAIN sealed :
          /\ accepted' = [by |-> p, usmc |-> Content(i)]
          /\ Validate(Content(i).sender, clock, Resolver)
    BY <2>1, <2>2, ReceiveStep
  <2>4. Content(i).content = i
        /\ Content(i).sender = ParseSenderCertificate(SenderCertificate(sealed[i].cert))
    BY DEF Content
  <2>5. Live(sealed[i].cert)
    BY <2>2, <2>3, <2>4, CertTyped, ValidIffLive
  <2>6. accepted'.usmc.content = i
    BY <2>3, <2>4
  <2> QED
    BY <2>5, <2>6 DEF Origin
<1> QED
  BY Invariance, <1>1, PTL DEF Spec, AcceptedOnlyIfLive

\* While its certificate is live, every message that was sealed by the rules
\* is opened and validated by its recipient, in both versions, whoever encoded
\* it, and after every rotation of keys.
THEOREM LiveMessagesAreAccepted == Spec => []LiveIsAccepted
<1>1. IInv => LiveIsAccepted
  <2> SUFFICES ASSUME IInv, NEW i \in DOMAIN sealed,
                      sealed[i].impl = "this" \/ sealed[i].cert.identity = sealed[i].by,
                      Live(sealed[i].cert)
               PROVE  Accepted(sealed[i].to, Message(i)) # {}
    BY DEF LiveIsAccepted
  <2>1. TypeOK
    BY DEF IInv
  <2>2. sealed[i].cert.identity = sealed[i].by
    BY DEF IInv, SealedOwn
  <2>3. DecryptToUSMC(Message(i), Own(sealed[i].to)) = Content(i)
    BY <2>1, <2>2, Opens
  <2>4. Content(i) # Nothing
    BY <2>1, ContentOf
  <2>5. Content(i).sender = ParseSenderCertificate(SenderCertificate(sealed[i].cert))
    BY DEF Content
  <2>6. Validate(Content(i).sender, clock, Resolver)
    BY <2>1, <2>5, CertTyped, ValidIffLive
  <2> QED
    BY <2>3, <2>4, <2>6 DEF Accepted
<1> QED
  BY Invariance, <1>1, PTL
=============================================================================
