----------------------------- MODULE SealedSender -----------------------------
(***************************************************************************)
(* Sealed sender (package sealedsender): a message hides who sent it; the  *)
(* sender's certificate travels inside.  A trust root signs server         *)
(* certificates, a server signs sender certificates, a sender seals the    *)
(* certificate and a content for a recipient (v1 or v2), and the recipient *)
(* opens the message, learns the sender and validates the certificate.     *)
(*                                                                         *)
(* Certificates expire and servers rotate their keys; a certificate may    *)
(* name its server certificate by an id that the recipient looks up.       *)
(* Messages may reach the wrong party, and parts of them may be exchanged  *)
(* on the way.  Peers may use another implementation of the format, which  *)
(* orders fields differently and does not compare certificate and identity *)
(* when it seals.                                                          *)
(*                                                                         *)
(* Cryptography is symbolic.  A key pair is named by its public key; a     *)
(* shared secret is the set of the two keys; a signature, a ciphertext and *)
(* a tag name the key and all that went into them.                         *)
(***************************************************************************)
EXTENDS Protowire

CONSTANTS
  Sender,          \* the party that seals messages
  Recipients,      \* the parties that open them
  Roots,           \* root keys
  Trusted,         \* the root keys the recipients trust
  IDs,             \* ids of server certificates
  Revoked,         \* revokedServerCertificateID
  Half,            \* half the number of values of expiresMillis (2^63 in the code)
  Expiries,        \* times at which sender certificates expire
  MaxClock,        \* bound: time
  MaxServerKeys,   \* bound: key pairs of the server
  MaxCerts,        \* bound: sender certificates issued
  MaxIdentities,   \* bound: identity keys of the sender
  MaxObjects       \* bound: server certificates and messages together

ASSUME SealedSenderAssumption ==
  /\ Sender \notin Recipients
  /\ Trusted \subseteq Roots
  /\ Revoked \in IDs
  /\ Half \in Nat \ {0}
  /\ Expiries \subseteq (-Half .. (Half - 1))
  /\ MaxClock \in 0 .. (Half - 1)
  /\ MaxServerKeys \in Nat \ {0} /\ MaxCerts \in Nat
  /\ MaxIdentities \in Nat \ {0} /\ MaxObjects \in Nat

VARIABLES
  clock,        \* the time, in the unit of expiresMillis
  serverKey,    \* number of the server's key pair
  identity,     \* number of the sender's identity key pair
  serverCerts,  \* server certificates issued
  known,        \* the recipients' ServerCertificateMap: id |-> certificate
  certs,        \* sender certificates issued: what each is made from
  sealed,       \* sealed messages in their order: what each is made from
  accepted      \* the last content that a party opened and validated, and that party

vars == <<clock, serverKey, identity, serverCerts, known, certs, sealed, accepted>>

-----------------------------------------------------------------------------
(* Cryptography. *)

ServerKey(n) == <<"server", n>>
IdentityKey(p, n) == <<p, n>>

\* A party other than the sender keeps its identity.
Own(p) == IdentityKey(p, 1)

DH(a, b) == {a, b}

XEdDSASign(key, message) == [by |-> key, of |-> message]
XEdDSAVerify(key, signature, message) == signature = XEdDSASign(key, message)

Encrypt(key, data) == [key |-> key, data |-> data]
Decrypts(key, box) == box.key = key

\* int64 to uint64 and back (certificates.go: expiresMillis).
Unsigned(t) == t % (2 * Half)
Signed(u) == IF u >= Half THEN u - 2 * Half ELSE u

-----------------------------------------------------------------------------
(* Server certificates. *)

\* encode/decodeServerCertificate and encode/decodeSenderCertificate.
signedFormat ==
  [field |-> <<Tag("certificate", "bytes"), Tag("signature", "bytes")>>,
   once |-> {}, required |-> {{"certificate"}, {"signature"}}]

serverBodyFormat ==
  [field |-> <<Tag("id", "varint"), Tag("key", "bytes")>>,
   once |-> {}, required |-> {{"id"}, {"key"}}]

encodeSigned(body, signature) == <<Bytes(1, body), Bytes(2, signature)>>

encodeServerCertificateBody(keyID, publicKey) == <<Varint(1, keyID), Bytes(2, publicKey)>>

NewServerCertificate(keyID, publicKey, root) ==
  LET body == encodeServerCertificateBody(keyID, publicKey)
  IN  encodeSigned(body, XEdDSASign(root, body))

ParseServerCertificate(data) ==
  LET outer == Decode(signedFormat, data)
      body  == Decode(serverBodyFormat, outer.certificate)
  IN  IF outer = Nothing \/ body = Nothing THEN Nothing
      ELSE [keyID |-> body.id, publicKey |-> body.key,
            certificate |-> outer.certificate, signature |-> outer.signature]

\* ServerCertificate.Validate
ValidServer(c, root) == c.keyID # Revoked /\ XEdDSAVerify(root, c.signature, c.certificate)

-----------------------------------------------------------------------------
(* Sender certificates. *)

senderBodyFormat ==
  [field |-> <<Tag("e164", "bytes"), Tag("device", "varint"), Tag("expires", "fixed64"),
               Tag("identity", "bytes"), Tag("signer", "bytes"), Tag("uuid", "bytes"),
               Tag("uuidBytes", "bytes"), Tag("signerID", "varint")>>,
   once |-> {{"uuid", "uuidBytes"}, {"signer", "signerID"}},
   required |-> {{"device"}, {"expires"}, {"identity"}, {"uuid", "uuidBytes"},
                 {"signer", "signerID"}}]

\* signer is the field with the embedded server certificate or its id.
encodeSenderCertificateBody(uuid, expires, identityKey, signer) ==
  <<Bytes(6, uuid), Varint(2, 1), Fixed64(3, expires), Bytes(4, identityKey), signer>>

\* NewSenderCertificate for an encoded body.  The signing key is not compared
\* with the key in the server certificate.
NewSenderCertificate(body, signerPrivate) ==
  encodeSigned(body, XEdDSASign(signerPrivate, body))

\* Mutant: the certificate is encoded again, not kept as it was received.
ParseSenderCertificate_encodedAgain(data) ==
  LET outer == Decode(signedFormat, data)
      body  == Decode(senderBodyFormat, outer.certificate)
      field == IF body.signer # Nothing THEN Bytes(5, body.signer) ELSE Varint(8, body.signerID)
  IN  [uuid |-> body.uuid, expires |-> body.expires, identity |-> body.identity,
       signer |-> IF body.signer = Nothing THEN Nothing ELSE ParseServerCertificate(body.signer),
       signerID |-> body.signerID, signature |-> outer.signature,
       certificate |-> encodeSenderCertificateBody(body.uuid, body.expires, body.identity, field)]

\* Of repeated fields the last one counts, but uuid and signer are refused.
ParseSenderCertificate(data) ==
  LET outer  == Decode(signedFormat, data)
      body   == Decode(senderBodyFormat, outer.certificate)
      signer == IF body.signer = Nothing THEN Nothing ELSE ParseServerCertificate(body.signer)
  IN  IF outer = Nothing \/ body = Nothing THEN Nothing
      ELSE IF body.signer # Nothing /\ signer = Nothing THEN Nothing
      ELSE [uuid |-> IF body.uuid # Nothing THEN body.uuid ELSE body.uuidBytes,
            expires |-> body.expires, identity |-> body.identity,
            signer |-> signer, signerID |-> body.signerID,
            certificate |-> outer.certificate, signature |-> outer.signature]

resolveSigner(c, resolver) ==
  IF c.signer # Nothing THEN c.signer
  ELSE IF c.signerID \in DOMAIN resolver THEN resolver[c.signerID]
  ELSE Nothing

\* Mutant: times are compared as unsigned numbers.
Validate_unsigned(c, now, resolver) ==
  LET signer == resolveSigner(c, resolver) IN
  /\ signer # Nothing
  /\ \E root \in Trusted : ValidServer(signer, root)
  /\ XEdDSAVerify(signer.publicKey, c.signature, c.certificate)
  /\ Unsigned(now) <= c.expires

\* SenderCertificate.Validate at the time now.
Validate(c, now, resolver) ==
  LET signer == resolveSigner(c, resolver) IN
  /\ signer # Nothing
  /\ \E root \in Trusted : ValidServer(signer, root)
  /\ XEdDSAVerify(signer.publicKey, c.signature, c.certificate)
  /\ now <= Signed(c.expires)

-----------------------------------------------------------------------------
(* The content (content.go). *)

MessageTypes == {1, 2, 7, 8}

contentFormat ==
  [field |-> <<Tag("type", "varint"), Tag("sender", "bytes"), Tag("content", "bytes"),
               Tag("hint", "varint"), Tag("group", "bytes")>>,
   once |-> {}, required |-> {{"type"}, {"sender"}, {"content"}}]

NewUnidentifiedSenderMessageContent(msgType, sender, content) ==
  <<Varint(1, msgType), Bytes(2, sender), Bytes(3, content)>>

ParseUnidentifiedSenderMessageContent(data) ==
  LET got    == Decode(contentFormat, data)
      sender == ParseSenderCertificate(got.sender)
  IN  IF got = Nothing \/ got.type \notin MessageTypes \/ sender = Nothing THEN Nothing
      ELSE [sender |-> sender, content |-> got.content]

-----------------------------------------------------------------------------
(* Version 1. *)

sealedV1Format ==
  [field |-> <<Tag("ephemeral", "bytes"), Tag("static", "bytes"), Tag("message", "bytes")>>,
   once |-> {}, required |-> {{"ephemeral"}, {"static"}, {"message"}}]

encodeSealedSenderV1Message(ephemeral, static, message) ==
  <<Bytes(1, ephemeral), Bytes(2, static), Bytes(3, message)>>

\* Both sides put the recipient's key first into the salt.
deriveEphemeralKeys(our, their, direction) ==
  [dh |-> DH(our, their),
   salt |-> IF direction = "sending" THEN <<their, our>> ELSE <<our, their>>]

deriveStaticKeys(our, their, chainKey, static) ==
  [dh |-> DH(our, their), salt |-> <<chainKey, static>>]

EncryptV1(recipient, sender, usmc, ephemeral) ==
  LET ephKeys == deriveEphemeralKeys(ephemeral, recipient, "sending")
      static  == Encrypt(ephKeys, sender)
      message == Encrypt(deriveStaticKeys(sender, recipient, ephKeys, static), usmc)
  IN  encodeSealedSenderV1Message(ephemeral, static, message)

\* The content, if its certificate is of the key that sealed it.
FromStatic(usmc, static) ==
  IF usmc = Nothing THEN Nothing
  ELSE IF usmc.sender.identity # static THEN Nothing ELSE usmc

decryptV1(payload, recipient) ==
  LET msg     == Decode(sealedV1Format, payload)
      ephKeys == deriveEphemeralKeys(recipient, msg.ephemeral, "receiving")
      static  == msg.static.data
      stKeys  == deriveStaticKeys(recipient, static, ephKeys, msg.static)
  IN  IF msg = Nothing THEN Nothing
      ELSE IF ~Decrypts(ephKeys, msg.static) \/ ~Decrypts(stKeys, msg.message) THEN Nothing
      ELSE FromStatic(ParseUnidentifiedSenderMessageContent(msg.message.data), static)

-----------------------------------------------------------------------------
(* Version 2. *)

\* The ephemeral key pair and the cipher key are derived from the message key.
DeriveR(m) == <<"r", m>>
DeriveK(m) == <<"k", m>>

\* A mask applied twice is no mask.
Xor(mask, x) ==
  IF x.kind = "masked" /\ x.mask = mask THEN x.key
  ELSE [kind |-> "masked", mask |-> mask, key |-> x]

\* Both sides put the sender's key first.
Ordered(our, their, direction) ==
  IF direction = "sending" THEN <<our, their>> ELSE <<their, our>>

applyAgreementXOR(our, their, direction, input) ==
  Xor([dh |-> DH(our, their), keys |-> Ordered(our, their, direction)], input)

computeAuthenticationTag(our, their, direction, epub, c) ==
  [dh |-> DH(our, their), epub |-> epub, c |-> c, keys |-> Ordered(our, their, direction)]

EncryptV2Received(recipient, sender, usmc, m) ==
  LET epub == DeriveR(m)
      c    == applyAgreementXOR(epub, recipient, "sending", m)
  IN  <<c, computeAuthenticationTag(sender, recipient, "sending", epub, c), epub,
        Encrypt(DeriveK(m), usmc)>>

\* Mutant: the authentication tag is not verified.
decryptV2_noTag(payload, recipient) ==
  LET m == applyAgreementXOR(recipient, payload[3], "receiving", payload[1])
  IN  IF DeriveR(m) # payload[3] \/ ~Decrypts(DeriveK(m), payload[4]) THEN Nothing
      ELSE ParseUnidentifiedSenderMessageContent(payload[4].data)

\* The content, if the tag is of the key that its certificate names.
Tagged(usmc, payload, recipient) ==
  IF usmc = Nothing THEN Nothing
  ELSE IF payload[2] # computeAuthenticationTag(recipient, usmc.sender.identity, "receiving",
                                                payload[3], payload[1])
  THEN Nothing ELSE usmc

decryptV2(payload, recipient) ==
  LET m == applyAgreementXOR(recipient, payload[3], "receiving", payload[1])
  IN  IF DeriveR(m) # payload[3] \/ ~Decrypts(DeriveK(m), payload[4]) THEN Nothing
      ELSE Tagged(ParseUnidentifiedSenderMessageContent(payload[4].data), payload, recipient)

\* DecryptToUSMC, by the high nibble of the version byte.  A payload of the
\* other version does not decode.
DecryptToUSMC(msg, recipient) ==
  CASE msg.version \in {0, 1} /\ msg.format = 1 -> decryptV1(msg.payload, recipient)
    [] msg.version = 2 /\ msg.format = 2        -> decryptV2(msg.payload, recipient)
    [] OTHER -> Nothing

-----------------------------------------------------------------------------
(* Initial state and actions. *)

Init ==
  /\ clock = 0
  /\ serverKey = 1
  /\ identity = 1
  /\ serverCerts = {}
  /\ known = << >>
  /\ certs = {}
  /\ sealed = << >>
  /\ accepted = Nothing

Tick ==
  /\ clock < MaxClock
  /\ clock' = clock + 1
  /\ UNCHANGED <<serverKey, identity, serverCerts, known, certs, sealed, accepted>>

RotateServerKey ==
  /\ serverKey < MaxServerKeys
  /\ serverKey' = serverKey + 1
  /\ UNCHANGED <<clock, identity, serverCerts, known, certs, sealed, accepted>>

\* The sender registers anew, with another identity.
RotateIdentity ==
  /\ identity < MaxIdentities
  /\ identity' = identity + 1
  /\ UNCHANGED <<clock, serverKey, serverCerts, known, certs, sealed, accepted>>

IssueServerCertificate ==
  \E id \in IDs, root \in Roots :
    /\ Cardinality(serverCerts) + Len(sealed) < MaxObjects
    /\ serverCerts' = serverCerts \cup {[id |-> id, key |-> ServerKey(serverKey), root |-> root]}
    /\ UNCHANGED <<clock, serverKey, identity, known, certs, sealed, accepted>>

\* The application puts a server certificate into the map, under its id.
InstallServerCertificate ==
  \E k \in serverCerts :
    /\ known' = [id \in DOMAIN known \cup {k.id} |-> IF id = k.id THEN k ELSE known[id]]
    /\ UNCHANGED <<clock, serverKey, identity, serverCerts, certs, sealed, accepted>>

\* The server embeds one of its certificates, perhaps of an earlier key, or
\* refers to one by its id; it signs with its present key.
IssueSenderCertificate ==
  \E expiresAt \in Expiries, signer \in serverCerts, embedded, foreign \in BOOLEAN :
    /\ Cardinality(certs) < MaxCerts
    /\ certs' = certs \cup
         {[expiresAt |-> expiresAt, identity |-> IdentityKey(Sender, identity),
           signer |-> signer, embedded |-> embedded,
           signedWith |-> ServerKey(serverKey), foreign |-> foreign]}
    /\ UNCHANGED <<clock, serverKey, identity, serverCerts, known, sealed, accepted>>

ServerCertificate(k) == NewServerCertificate(k.id, k.key, k.root)

SenderCertificate(c) ==
  LET body == encodeSenderCertificateBody(Sender, Unsigned(c.expiresAt), c.identity,
                IF c.embedded THEN Bytes(5, ServerCertificate(c.signer))
                ELSE Varint(8, c.signer.id))
  IN  NewSenderCertificate(IF c.foreign THEN Foreign(body) ELSE body, c.signedWith)

\* EncryptV1 and EncryptV2Received compare the certificate with the identity;
\* another implementation need not.
MaySeal(cert, sender, implementation) ==
  implementation = "this" =>
    ParseSenderCertificate(SenderCertificate(cert)).identity = sender

Seal ==
  \E version \in {1, 2}, p \in Recipients, cert \in certs, impl \in {"this", "other"} :
    LET sender == IdentityKey(Sender, identity) IN
    /\ Cardinality(serverCerts) + Len(sealed) < MaxObjects
    /\ MaySeal(cert, sender, impl)
    /\ sealed' = Append(sealed, [version |-> version, to |-> p, by |-> sender,
                                 cert |-> cert, impl |-> impl])
    /\ UNCHANGED <<clock, serverKey, identity, serverCerts, known, certs, accepted>>

\* The i-th message: its version, and the format and the parts of its payload.
Message(i) ==
  LET s      == sealed[i]
      usmc   == NewUnidentifiedSenderMessageContent(2, SenderCertificate(s.cert), i)
      fields == EncryptV1(Own(s.to), s.by, usmc, <<"ephemeral", i>>)
  IN  [version |-> s.version, format |-> s.version, payload |->
         IF s.version = 2 THEN EncryptV2Received(Own(s.to), s.by, usmc, [kind |-> "key", n |-> i])
         ELSE IF s.impl = "this" THEN fields ELSE Foreign(fields)]

\* An arrival is a sealed message, or (part # 0) one with a part exchanged for
\* the same part of another message.
Arrivals ==
  {a \in [of : DOMAIN sealed, part : 0 .. 4, from : DOMAIN sealed] :
     IF a.part = 0 THEN a.from = a.of
     ELSE LET m == Message(a.of)
              n == Message(a.from)
          IN  /\ a.from # a.of
              /\ m.format = n.format
              /\ a.part \in DOMAIN m.payload \cap DOMAIN n.payload}

Arrived(a) ==
  LET m == Message(a.of)
  IN  IF a.part = 0 THEN m
      ELSE [m EXCEPT !.payload[a.part] = Message(a.from).payload[a.part]]

Resolver == [id \in DOMAIN known |-> ParseServerCertificate(ServerCertificate(known[id]))]

\* What p has of m: its content, once it is open and its certificate valid now.
Accepted(p, m) ==
  {usmc \in {DecryptToUSMC(m, Own(p))} \ {Nothing} : Validate(usmc.sender, clock, Resolver)}

\* The version byte may change on the way as well.
Receive(p) ==
  \E a \in Arrivals :
    \E version \in 0 .. 3 : \E usmc \in Accepted(p, [Arrived(a) EXCEPT !.version = version]) :
      /\ accepted' = [by |-> p, usmc |-> usmc]
      /\ UNCHANGED <<clock, serverKey, identity, serverCerts, known, certs, sealed>>

Next ==
  \/ Tick \/ RotateServerKey \/ RotateIdentity
  \/ IssueServerCertificate \/ InstallServerCertificate \/ IssueSenderCertificate
  \/ Seal
  \/ \E p \in Recipients : Receive(p)

Spec == Init /\ [][Next]_vars

-----------------------------------------------------------------------------
(* Properties. *)

\* The message that an accepted content was sealed in.
Origin(acc) == sealed[acc.usmc.content]

\* An accepted content was sealed for the party that accepts it, together with
\* the certificate it is shown with, by the holder of the private key of the
\* certificate's identity: whatever was exchanged on the way or delivered
\* elsewhere, and whatever implementation sealed it.
AcceptedIsGenuine ==
  accepted # Nothing =>
    LET sender == accepted.usmc.sender
        origin == Origin(accepted)
    IN  /\ origin.to = accepted.by
        /\ origin.by = sender.identity
        /\ ParseSenderCertificate(SenderCertificate(origin.cert)) = sender

\* The server certificate a sender certificate is checked against now.
SignerOf(c) ==
  IF c.embedded THEN {c.signer} ELSE {known[id] : id \in DOMAIN known \cap {c.signer.id}}

\* A sender certificate that ought to be valid now.
Live(c) ==
  /\ clock <= c.expiresAt
  /\ \E k \in SignerOf(c) : k.id # Revoked /\ k.root \in Trusted /\ k.key = c.signedWith

\* A message is accepted only while its certificate is live: signed by a server
\* key that a trusted root certified under an id that is not revoked, and not
\* expired, also for times before 1970, which are large numbers on the wire.
AcceptedOnlyIfLive ==
  [][accepted' # accepted => Live(Origin(accepted').cert)]_vars

\* What this library sealed opens and validates at its recipient for as long as
\* the certificate is live, over key rotations, in both versions and whatever
\* the encoding of the certificates; so does what another one sealed with a
\* certificate of its own identity.
LiveIsAccepted ==
  \A i \in DOMAIN sealed :
    LET s == sealed[i]
    IN  (s.impl = "this" \/ s.cert.identity = s.by) /\ Live(s.cert)
          => Accepted(s.to, Message(i)) # {}
=============================================================================
