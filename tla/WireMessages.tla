----------------------------- MODULE WireMessages -----------------------------
(***************************************************************************)
(* The wire formats of a session (package protocol/wire): SignalMessage    *)
(* and PreKeySignalMessage.  Nothing but its bytes says which of the two a *)
(* ciphertext is: WireCipher.Decrypt tries one parser, then the other.     *)
(*                                                                         *)
(* Serialised, a message is a version, the fields of its body and, for a   *)
(* SignalMessage, a MAC over the version and the body as they were sent.   *)
(* The ids of optional keys are positive; 0 is a nil id.                   *)
(***************************************************************************)
EXTENDS Protowire

CiphertextMessagePreKyberVersion == 3
CiphertextMessageCurrentVersion == 4

Supported(version) ==
  version \in CiphertextMessagePreKyberVersion .. CiphertextMessageCurrentVersion

NoMAC == << >>

-----------------------------------------------------------------------------
(* SignalMessage *)

signalFormat ==
  [field |-> <<Tag("ratchet_key", "bytes"), Tag("counter", "varint"),
               Tag("previous_counter", "varint"), Tag("ciphertext", "bytes"),
               Tag("pq_ratchet", "bytes")>>,
   once |-> {}, required |-> {{"ratchet_key"}, {"counter"}, {"ciphertext"}}]

encodeSignalMessageBody(ratchetKey, counter, previousCounter, ciphertext, pqRatchet) ==
  <<Bytes(1, ratchetKey), Varint(2, counter), Varint(3, previousCounter), Bytes(4, ciphertext)>>
    \o (IF pqRatchet = Nothing THEN << >> ELSE <<Bytes(5, pqRatchet)>>)

computeSignalMAC(macKey, senderIdentity, receiverIdentity, version, body) ==
  [key |-> macKey, sender |-> senderIdentity, receiver |-> receiverIdentity,
   message |-> <<version, body>>]

NewSignalMessage(version, macKey, senderIdentity, receiverIdentity, body) ==
  [version |-> version, body |-> body,
   mac |-> computeSignalMAC(macKey, senderIdentity, receiverIdentity, version, body)]

\* The last bytes of the data are taken for the MAC.  In data that ends in none
\* they belong to the last field; the case most favourable to the parser is
\* that the cut falls on the boundary of a field.
SignalBody(data) ==
  IF data.mac = NoMAC THEN SubSeq(data.body, 1, Len(data.body) - 1) ELSE data.body

ParseSignalMessage(data) ==
  LET body == SignalBody(data)
      got  == Decode(signalFormat, body)
  IN  IF ~Supported(data.version) \/ got = Nothing THEN Nothing
      ELSE [version |-> data.version, ratchetKey |-> got.ratchet_key, counter |-> got.counter,
            previousCounter |-> NumberOrNil(signalFormat, body, "previous_counter"),
            ciphertext |-> got.ciphertext, serialized |-> body, mac |-> data.mac]

\* Mutant: the MAC is computed over the message encoded again.
VerifyMAC_encodedAgain(m, senderIdentity, receiverIdentity, macKey) ==
  m.mac = computeSignalMAC(macKey, senderIdentity, receiverIdentity, m.version,
            encodeSignalMessageBody(m.ratchetKey, m.counter, m.previousCounter, m.ciphertext, Nothing))

VerifyMAC(m, senderIdentity, receiverIdentity, macKey) ==
  m.mac = computeSignalMAC(macKey, senderIdentity, receiverIdentity, m.version, m.serialized)

-----------------------------------------------------------------------------
(* PreKeySignalMessage *)

preKeyFormat ==
  [field |-> <<Tag("pre_key_id", "varint"), Tag("base_key", "bytes"), Tag("identity_key", "bytes"),
               Tag("message", "bytes"), Tag("registration_id", "varint"),
               Tag("signed_pre_key_id", "varint"), Tag("kyber_pre_key_id", "varint"),
               Tag("kyber_ciphertext", "bytes")>>,
   once |-> {},
   required |-> {{"base_key"}, {"identity_key"}, {"message"}, {"signed_pre_key_id"}}]

\* Both parts of the Kyber payload or none, and both in the current version.
KyberPayload(version, id, ciphertext) ==
  /\ id = 0 <=> ciphertext = Nothing
  /\ version > CiphertextMessagePreKyberVersion => id # 0

encodePreKeySignalMessageBody(x, registrationID, message) ==
  <<Varint(5, registrationID)>>
    \o (IF x.preKeyID = 0 THEN << >> ELSE <<Varint(1, x.preKeyID)>>)
    \o <<Varint(6, x.signedPreKeyID)>>
    \o (IF x.kyberPreKeyID = 0 THEN << >>
        ELSE <<Varint(7, x.kyberPreKeyID), Bytes(8, x.kyberCiphertext)>>)
    \o <<Bytes(2, x.ephemeral), Bytes(3, x.identity), Bytes(4, message)>>

NewPreKeySignalMessage(version, body) == [version |-> version, body |-> body, mac |-> NoMAC]

\* The message and, as initial, its X3DH part.
ParsePreKeySignalMessage(data) ==
  LET got     == Decode(preKeyFormat, data.body)
      inner   == ParseSignalMessage(got.message)
      preKey  == NumberOrNil(preKeyFormat, data.body, "pre_key_id")
      kyberID == NumberOrNil(preKeyFormat, data.body, "kyber_pre_key_id")
  IN  IF ~Supported(data.version) \/ got = Nothing THEN Nothing
      ELSE IF inner = Nothing \/ ~KyberPayload(data.version, kyberID, got.kyber_ciphertext)
      THEN Nothing
      ELSE [initial |-> [identity |-> got.identity_key, ephemeral |-> got.base_key,
                         preKeyID |-> preKey, signedPreKeyID |-> got.signed_pre_key_id,
                         kyberPreKeyID |-> kyberID, kyberCiphertext |-> got.kyber_ciphertext],
            message |-> inner]
=============================================================================
