------------------------------ MODULE SpqrCodec ------------------------------
(***************************************************************************)
(* The encodings of package spqr: of a message on the wire (message.go)    *)
(* and of a party's v1 state (v1_state_serialize.go).  The session stores  *)
(* the state as bytes after every operation, and State.Clone, on which     *)
(* every operation works, is an encoding followed by a decoding: what the  *)
(* encoding of a phase leaves out is gone with the next message.           *)
(*                                                                         *)
(* Encodings are sequences with one element for each value written.        *)
(***************************************************************************)
EXTENDS SpqrV1

VersionDisabled == 0
VersionV1 == 1

-----------------------------------------------------------------------------
(* Messages. *)

hasChunk(kind) == kind \in {"Hdr", "Ek", "EkCt1Ack", "Ct1", "Ct2"}

serialize(m, index) ==
  <<VersionV1, m.epoch, index, m.kind>> \o
  (IF hasChunk(m.kind) THEN <<m.chunk.index, m.chunk.data>> ELSE << >>)

\* msgVersion, of the versions there are: a message may be empty.
msgVersion(wire) == IF wire = << >> THEN VersionDisabled ELSE wire[1]

\* The chunk index is truncated to 16 bits.
deserializeV1Message(wire) ==
  [epoch |-> wire[2], index |-> wire[3], kind |-> wire[4],
   chunk |-> IF hasChunk(wire[4])
             THEN [index |-> wire[5] % ChunkSpace, data |-> wire[6]] ELSE Nothing]

-----------------------------------------------------------------------------
(* The state on whole values.  hdr and dk stand for the key pair, the      *)
(* encapsulation state for the sample it is made from.                     *)

\* The phases of the party that sends its encapsulation key.
EkSide ==
  {"KeysUnsampled", "KeysSampled", "HeaderSent", "Ct1Received", "EkSentCt1Received"}

serializeUnchunkedEk(s) ==
  <<s.epoch, s.auth>> \o
  (CASE s.phase \in {"KeysSampled", "HeaderSent"}          -> <<s.ek>>
     [] s.phase \in {"Ct1Received", "EkSentCt1Received"}  -> <<s.ek, s.ct>>
     [] OTHER -> << >>)

serializeUnchunkedCt(s) ==
  <<s.epoch, s.auth>> \o
  (CASE s.phase = "HeaderReceived"                    -> <<s.ek>>
     [] s.phase \in {"Ct1Sampled", "Ct1Acknowledged"} -> <<s.ek, s.ct.sample, s.ct>>
     [] s.phase = "EkReceivedCt1Sampled"              -> <<s.ct.sample, s.ek, s.ct>>
     [] OTHER -> << >>)

serializeUnchunked(s) ==
  IF s.phase \in EkSide THEN serializeUnchunkedEk(s) ELSE serializeUnchunkedCt(s)

Read(data, ek, ct) == [epoch |-> data[1], auth |-> data[2], ek |-> ek, ct |-> ct]

deserializeUnchunkedEk(phase, data) ==
  CASE phase \in {"KeysSampled", "HeaderSent"}         -> Read(data, data[3], Nothing)
    [] phase \in {"Ct1Received", "EkSentCt1Received"} -> Read(data, data[3], data[4])
    [] OTHER -> Read(data, Nothing, Nothing)

deserializeUnchunkedCt(phase, data) ==
  CASE phase = "HeaderReceived"                    -> Read(data, data[3], Nothing)
    [] phase \in {"Ct1Sampled", "Ct1Acknowledged"} -> Read(data, data[3], data[5])
    [] phase = "EkReceivedCt1Sampled"              -> Read(data, data[4], data[5])
    [] OTHER -> Read(data, Nothing, Nothing)

deserializeUnchunked(phase, data) ==
  IF phase \in EkSide THEN deserializeUnchunkedEk(phase, data)
  ELSE deserializeUnchunkedCt(phase, data)

-----------------------------------------------------------------------------
(* The encoder and the decoder of a phase. *)

HasEncoder ==
  {"KeysSampled", "HeaderSent", "Ct1Received", "Ct1Sampled", "EkReceivedCt1Sampled", "Ct2Sampled"}

HasDecoder ==
  {"HeaderSent", "EkSentCt1Received", "NoHeaderReceived", "HeaderReceived", "Ct1Sampled",
   "Ct1Acknowledged"}

\* The value that the encoder of a state holds.
Sending(s) ==
  CASE s.phase = "KeysSampled"                             -> HdrValue(s)
    [] s.phase \in {"HeaderSent", "Ct1Received"}           -> s.ek
    [] s.phase \in {"Ct1Sampled", "EkReceivedCt1Sampled"}  -> s.ct
    [] s.phase = "Ct2Sampled"                              -> Ct2Value(s)

serializeEncoder(s) == <<s.sent, Sending(s)>>

serializeV1States(s) ==
  <<s.phase, serializeUnchunked(s)>> \o
  (IF s.phase \in HasEncoder THEN <<serializeEncoder(s)>> ELSE << >>) \o
  (IF s.phase \in HasDecoder THEN <<s.dec>> ELSE << >>)

\* Mutant: the decoder is not read back.
deserializeV1States_newDecoder(data) ==
  LET phase == data[1]
      uc    == deserializeUnchunked(phase, data[2])
      enc   == data[3]
  IN  [phase |-> phase, epoch |-> uc.epoch, auth |-> uc.auth, ek |-> uc.ek,
       ct |-> IF phase = "Ct2Sampled" THEN enc[2].ct ELSE uc.ct,
       sent |-> IF phase \in HasEncoder THEN enc[1] ELSE 0, dec |-> {}]

\* In the last phase only the encoder still has the ciphertext.
deserializeV1States(data) ==
  LET phase == data[1]
      uc    == deserializeUnchunked(phase, data[2])
      enc   == data[3]
      dec   == data[Len(data)]
  IN  [phase |-> phase, epoch |-> uc.epoch, auth |-> uc.auth, ek |-> uc.ek,
       ct |-> IF phase = "Ct2Sampled" THEN enc[2].ct ELSE uc.ct,
       sent |-> IF phase \in HasEncoder THEN enc[1] ELSE 0,
       dec |-> IF phase \in HasDecoder THEN dec ELSE {}]
=============================================================================
