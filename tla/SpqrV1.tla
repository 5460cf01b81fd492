-------------------------------- MODULE SpqrV1 --------------------------------
(***************************************************************************)
(* The v1 state machine of package spqr (v1_chunked.go, v1_unchunked.go):  *)
(* what send and recv do to the state of one party.  In every epoch one    *)
(* party sends an ML-KEM encapsulation key (a header first, then the rest),*)
(* the other one a ciphertext in two parts; then the roles swap.           *)
(*                                                                         *)
(* Key material is symbolic.  A key pair is <<party, n>>, the n-th sample  *)
(* of the party; a ciphertext is the key pair it is made for and the sample*)
(* of its maker; the epoch secret names its epoch and its ciphertext.  An  *)
(* authenticator is the sequence of the secrets mixed into it, and a MAC   *)
(* the authenticator, epoch and value it was computed with.                *)
(***************************************************************************)
EXTENDS Integers, Sequences, FiniteSets

CONSTANTS
  Needed,      \* Needed[v]: chunks that suffice to decode a value of kind v
  ChunkSpace,  \* number of chunk indices before uint16(e.idx) wraps around
  IndexSpace   \* number of chunks before e.idx itself, a uint32, wraps around

Values == {"Hdr", "Ek", "Ct1", "Ct2"}

ASSUME SpqrV1Assumption ==
  /\ ChunkSpace \in Nat
  /\ Needed \in [Values -> 1 .. ChunkSpace]
  /\ IndexSpace \in Nat
  /\ ChunkSpace <= IndexSpace

\* What is in no message and in no state.
Nothing == << >>

-----------------------------------------------------------------------------
(* The erasure code (encoding_polynomial.go): any Needed[v] chunks with    *)
(* different indices give the value back.                                  *)

\* The next chunk of an encoder of data whose index is n: it is truncated here.
nextChunk(n, data) == [index |-> n % ChunkSpace, data |-> data]

\* A second chunk with the same index is dropped.
addChunk(dec, c) ==
  IF \E d \in dec : d.index = c.index THEN dec ELSE dec \cup {c}

\* Mutant: one chunk more than needed is waited for.
IsDecoded_oneMore(v, dec) == Cardinality(dec) > Needed[v]

IsDecoded(v, dec) == Cardinality(dec) >= Needed[v]

\* The value behind the chunks; chunks of two values give neither.
Decoded(dec) ==
  IF \A c, d \in dec : c.data = d.data THEN (CHOOSE c \in dec : TRUE).data ELSE Nothing

-----------------------------------------------------------------------------
(* ML-KEM and the authenticator. *)

Secret(epoch, ct) == [epoch |-> epoch, ct |-> ct]

Encaps(ek, sample) == [ek |-> ek, sample |-> sample]

\* Decapsulation never fails: a wrong ciphertext gives an unrelated secret.
Decaps(ek, ct1, ct2) == IF ct1 = ct2 /\ ct1.ek = ek THEN ct1 ELSE Nothing

Mac(auth, epoch, value) == [auth |-> auth, epoch |-> epoch, value |-> value]

\* A new authenticator has been updated with the root key of the session only.
newAuthenticator == << >>

\* authenticator.update
Update(auth, secret) == Append(auth, secret)

-----------------------------------------------------------------------------
(* The state of a party: phase is the Go type of v1States.state.           *)
(*   ek    its own key pair (send_ek side) or the header it received       *)
(*   ct    its own ciphertext (send_ct side) or the part 1 it received     *)
(*   sent  e.idx of the encoder of the value being sent                    *)
(*   dec   the decoder of the value being received                         *)

State(phase, epoch, auth) ==
  [phase |-> phase, epoch |-> epoch, auth |-> auth,
   ek |-> Nothing, ct |-> Nothing, sent |-> 0, dec |-> {}]

initV1StateA == State("KeysUnsampled", 1, newAuthenticator)
initV1StateB == State("NoHeaderReceived", 1, newAuthenticator)

\* The result of a receive.
Ignored(s) == [err |-> "none", state |-> s, key |-> Nothing]
Refused(s, err) == [err |-> err, state |-> s, key |-> Nothing]

-----------------------------------------------------------------------------
(* The protocol on whole values (v1_unchunked.go), under its names.        *)

HdrValue(s) == [ek |-> s.ek, mac |-> Mac(s.auth, s.epoch, s.ek)]
Ct2Value(s) == [ct |-> s.ct, mac |-> Mac(s.auth, s.epoch, s.ct)]

\* Encapsulation gives the secret of the epoch at once.
sendCt1(s, sample) ==
  LET ct  == Encaps(s.ek, sample)
      key == Secret(s.epoch, ct)
  IN  [state |-> [s EXCEPT !.ct = ct, !.auth = Update(@, key)], key |-> key]

recvCt1(s, ct1) == [s EXCEPT !.phase = "Ct1Received", !.ct = ct1, !.dec = {}]

\* Mutant: the MAC is verified before the secret is mixed in.
recvCt2_verifiesFirst(s, got) ==
  LET key == Secret(s.epoch, Decaps(s.ek, s.ct, got.ct))
  IN  IF got.mac # Mac(s.auth, s.epoch, s.ct) THEN Refused(s, "mac")
      ELSE [err |-> "none", key |-> key,
            state |-> State("NoHeaderReceived", s.epoch + 1, Update(s.auth, key))]

\* Decapsulate, then verify the MAC with the authenticator that the secret has
\* been mixed into.
recvCt2(s, got) ==
  LET key  == Secret(s.epoch, Decaps(s.ek, s.ct, got.ct))
      auth == Update(s.auth, key)
  IN  IF got = Nothing \/ got.mac # Mac(auth, s.epoch, s.ct) THEN Refused(s, "mac")
      ELSE [err |-> "none", key |-> key, state |-> State("NoHeaderReceived", s.epoch + 1, auth)]

recvHeader(s, got) ==
  IF got = Nothing \/ got.mac # Mac(s.auth, s.epoch, got.ek) THEN Refused(s, "mac")
  ELSE Ignored([s EXCEPT !.phase = "HeaderReceived", !.ek = got.ek, !.dec = {}])

\* The encapsulation key must be the one of the header; next is the state then.
recvEk(s, ek, next) == IF ek # s.ek THEN Refused(s, "erroneous") ELSE Ignored(next)

\* Mutant: the roles are not swapped.
recvNextEpoch_sameRole(s) == State("NoHeaderReceived", s.epoch + 1, s.auth)

recvNextEpoch(s) == State("KeysUnsampled", s.epoch + 1, s.auth)

-----------------------------------------------------------------------------
(* send: the new state, the message and the epoch secret, if any.          *)

v1Message(s, kind, chunk) == [epoch |-> s.epoch, kind |-> kind, chunk |-> chunk]

Sent(s, kind, chunk) == [state |-> s, key |-> Nothing, msg |-> v1Message(s, kind, chunk)]

\* A further chunk of the value that is being sent; the index is kept as a uint32.
SendChunk(s, kind, data) ==
  Sent([s EXCEPT !.sent = (@ + 1) % IndexSpace], kind, nextChunk(s.sent, data))

\* chunkedKeysUnsampled.sendHdrChunk: sample the keys of this epoch.
SendFirstHdr(s, sample) ==
  LET t == [s EXCEPT !.phase = "KeysSampled", !.ek = sample, !.sent = 0]
  IN  SendChunk(t, "Hdr", HdrValue(t))

\* Mutant: the epoch secret is not handed out.
SendFirstCt1_noKey(s, sample) ==
  LET t == [sendCt1(s, sample).state EXCEPT !.phase = "Ct1Sampled", !.sent = 0]
  IN  SendChunk(t, "Ct1", t.ct)

\* Mutant: the party stays in its phase and encapsulates again the next time.
SendFirstCt1_again(s, sample) ==
  LET t == [sendCt1(s, sample).state EXCEPT !.sent = 0]
  IN  [SendChunk(t, "Ct1", t.ct) EXCEPT !.key = sendCt1(s, sample).key]

\* chunkedHeaderReceived.sendCt1Chunk
SendFirstCt1(s, sample) ==
  LET t == [sendCt1(s, sample).state EXCEPT !.phase = "Ct1Sampled", !.sent = 0]
  IN  [SendChunk(t, "Ct1", t.ct) EXCEPT !.key = sendCt1(s, sample).key]

\* v1States.send; sample is the party's fresh randomness.
send(s, sample) ==
  CASE s.phase = "KeysUnsampled"                     -> SendFirstHdr(s, sample)
    [] s.phase = "KeysSampled"                       -> SendChunk(s, "Hdr", HdrValue(s))
    [] s.phase = "HeaderSent"                        -> SendChunk(s, "Ek", s.ek)
    [] s.phase = "Ct1Received"                       -> SendChunk(s, "EkCt1Ack", s.ek)
    [] s.phase = "EkSentCt1Received"                 -> Sent(s, "Ct1Ack", Nothing)
    [] s.phase \in {"NoHeaderReceived", "Ct1Acknowledged"} -> Sent(s, "None", Nothing)
    [] s.phase = "HeaderReceived"                    -> SendFirstCt1(s, sample)
    [] s.phase \in {"Ct1Sampled", "EkReceivedCt1Sampled"}  -> SendChunk(s, "Ct1", s.ct)
    [] s.phase = "Ct2Sampled"                        -> SendChunk(s, "Ct2", Ct2Value(s))

-----------------------------------------------------------------------------
(* recv: the new state and the epoch secret, or an error.                  *)

\* The first chunk of ct1 tells that the header arrived; now ek is sent.
RecvFirstCt1(s, c) ==
  Ignored([s EXCEPT !.phase = "HeaderSent", !.sent = 0, !.dec = {c}])

RecvCt1(s, c) ==
  LET dec == addChunk(s.dec, c)
  IN  Ignored(IF IsDecoded("Ct1", dec)
              THEN recvCt1(s, Decoded(dec)) ELSE [s EXCEPT !.dec = dec])

RecvFirstCt2(s, c) ==
  Ignored([s EXCEPT !.phase = "EkSentCt1Received", !.sent = 0, !.dec = {c}])

RecvCt2(s, c) ==
  LET dec == addChunk(s.dec, c)
  IN  IF IsDecoded("Ct2", dec) THEN recvCt2(s, Decoded(dec)) ELSE Ignored([s EXCEPT !.dec = dec])

RecvHdr(s, c) ==
  LET dec == addChunk(s.dec, c)
  IN  IF IsDecoded("Hdr", dec) THEN recvHeader(s, Decoded(dec)) ELSE Ignored([s EXCEPT !.dec = dec])

\* recvEkChunk of chunkedCt1Sampled and chunkedCt1Acknowledged; acked says
\* that ct1 has been acknowledged, by this message or before.
RecvEk(s, c, acked) ==
  LET dec == addChunk(s.dec, c) IN
  IF ~IsDecoded("Ek", dec)
  THEN Ignored(IF acked THEN [s EXCEPT !.phase = "Ct1Acknowledged", !.sent = 0, !.dec = dec]
               ELSE [s EXCEPT !.dec = dec])
  ELSE recvEk(s, Decoded(dec),
              IF acked THEN [s EXCEPT !.phase = "Ct2Sampled", !.sent = 0, !.dec = {}]
              ELSE [s EXCEPT !.phase = "EkReceivedCt1Sampled", !.dec = {}])

RecvCt1Ack(s) == Ignored([s EXCEPT !.phase = "Ct2Sampled", !.sent = 0])

\* A message of the party's own epoch, by phase and kind.
RecvSameEpoch(s, m) ==
  CASE s.phase = "KeysSampled" /\ m.kind = "Ct1"              -> RecvFirstCt1(s, m.chunk)
    [] s.phase = "HeaderSent" /\ m.kind = "Ct1"               -> RecvCt1(s, m.chunk)
    [] s.phase = "Ct1Received" /\ m.kind = "Ct2"              -> RecvFirstCt2(s, m.chunk)
    [] s.phase = "EkSentCt1Received" /\ m.kind = "Ct2"        -> RecvCt2(s, m.chunk)
    [] s.phase = "NoHeaderReceived" /\ m.kind = "Hdr"         -> RecvHdr(s, m.chunk)
    [] s.phase = "Ct1Sampled" /\ m.kind \in {"Ek", "EkCt1Ack"} ->
         RecvEk(s, m.chunk, m.kind = "EkCt1Ack")
    [] s.phase = "Ct1Acknowledged" /\ m.kind \in {"Ek", "EkCt1Ack"} ->
         RecvEk(s, m.chunk, TRUE)
    [] s.phase = "EkReceivedCt1Sampled" /\ m.kind \in {"Ct1Ack", "EkCt1Ack"} -> RecvCt1Ack(s)
    [] OTHER -> Ignored(s)

\* chunkedCt2Sampled.recvNextEpoch
RecvNextEpoch(s) == Ignored(recvNextEpoch(s))

\* v1States.recv
recv(s, m) ==
  IF m.epoch = s.epoch THEN RecvSameEpoch(s, m)
  ELSE IF m.epoch < s.epoch THEN Ignored(s)
  ELSE IF s.phase = "Ct2Sampled" /\ m.epoch = s.epoch + 1 THEN RecvNextEpoch(s)
  ELSE Refused(s, "epoch")
=============================================================================
