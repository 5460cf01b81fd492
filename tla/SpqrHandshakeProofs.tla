------------------------- MODULE SpqrHandshakeProofs -------------------------
(***************************************************************************)
(* TLAPS proofs about SpqrHandshake, for any number of chunks per value,   *)
(* any size of the chunk index, any number of epochs and of messages under *)
(* way.                                                                    *)
(***************************************************************************)
EXTENDS SpqrHandshake, SpqrV1Proofs, FiniteSetTheorems

-----------------------------------------------------------------------------
(* Decoders. *)

\* A decoder has fewer chunks than it needs, or only the one that opened its phase.
DecoderOK(s) ==
  /\ IsFiniteSet(s.dec)
  /\ s.phase \in HasDecoder =>
       Cardinality(s.dec) <= 1 \/ Cardinality(s.dec) < Needed[Receiving(s)]

\* The decoder and the phase are all that matters.
LEMMA SameDecoder ==
  ASSUME NEW s, NEW u, DecoderOK(s), u.dec = s.dec,
         u.phase \in HasDecoder => s.phase \in HasDecoder /\ Receiving(u) = Receiving(s)
  PROVE  DecoderOK(u)
BY DEF DecoderOK

LEMMA SmallDecoder ==
  ASSUME NEW u, NEW c, u.dec \in {{}, {c}}
  PROVE  DecoderOK(u)
<1>1. IsFiniteSet({}) /\ Cardinality({}) = 0
  BY FS_EmptySet
<1>2. IsFiniteSet({c}) /\ Cardinality({c}) = 1
  BY FS_Singleton
<1>3. IsFiniteSet(u.dec) /\ Cardinality(u.dec) \in {0, 1}
  BY <1>1, <1>2
<1> QED BY <1>3 DEF DecoderOK

\* A chunk was added, and the value still cannot be decoded.
LEMMA GrownDecoder ==
  ASSUME NEW s, NEW u, NEW c, DecoderOK(s), u.dec = addChunk(s.dec, c),
         u.phase \in HasDecoder, ~IsDecoded(Receiving(u), u.dec), Receiving(u) \in Values
  PROVE  DecoderOK(u)
<1>1. IsFiniteSet(u.dec)
  BY FS_AddElement DEF DecoderOK, addChunk
<1>2. Cardinality(u.dec) \in Nat /\ Needed[Receiving(u)] \in Nat
  BY <1>1, FS_CardinalityType, SpqrV1Assumption
<1> QED BY <1>1, <1>2 DEF DecoderOK, IsDecoded

LEMMA SendDecoder ==
  ASSUME NEW K, NEW s, V1State(s, K), DecoderOK(s), NEW sample
  PROVE  DecoderOK(send(s, sample).state)
<1>1. IsRecord(s) /\ s.phase \in EkSide \cup CtSide /\ (s.phase \in HasDecoder \/ s.dec = {})
  BY DEF V1State
<1>2. ASSUME NEW v, IsRecord(v), NEW kind, NEW data
      PROVE  SendChunk(v, kind, data).state.phase = v.phase /\ SendChunk(v, kind, data).state.dec = v.dec
  BY <1>2 DEF SendChunk, Sent, IsRecord
<1>3. PICK u : u = send(s, sample).state
  OBVIOUS
<1>4. CASE s.phase = "KeysUnsampled"
  <2>1. PICK v : v = [s EXCEPT !.phase = "KeysSampled", !.ek = sample, !.sent = 0]
    OBVIOUS
  <2>2. IsRecord(v) /\ v.dec = s.dec
    BY <1>1, <2>1 DEF IsRecord
  <2>3. u = SendChunk(v, "Hdr", HdrValue(v)).state
    BY <1>3, <1>4, <2>1 DEF send, SendFirstHdr
  <2>4. u.dec = {}
    BY <1>1, <1>2, <1>4, <2>2, <2>3 DEF HasDecoder
  <2> QED BY <1>3, <2>4, SmallDecoder
<1>5. CASE s.phase = "HeaderReceived"
  <2>1. PICK w, v : /\ w = sendCt1(s, sample).state
                    /\ v = [w EXCEPT !.phase = "Ct1Sampled", !.sent = 0]
    OBVIOUS
  <2>2. IsRecord(w) /\ w.dec = s.dec
    BY <1>1, <2>1 DEF sendCt1, IsRecord
  <2>3. IsRecord(v) /\ v.dec = s.dec /\ v.phase = "Ct1Sampled"
    BY <2>1, <2>2 DEF IsRecord
  <2>4. PICK o : o = SendChunk(v, "Ct1", v.ct)
    OBVIOUS
  <2>5. u = [o EXCEPT !.key = sendCt1(s, sample).key].state
    BY <1>3, <1>5, <2>1, <2>4 DEF send, SendFirstCt1
  <2>6. o = [state |-> o.state, key |-> o.key, msg |-> o.msg]
    BY <2>4 DEF SendChunk, Sent
  <2>7. u = o.state
    BY <2>5, <2>6
  <2>8. u.dec = s.dec /\ u.phase = "Ct1Sampled"
    BY <1>2, <2>3, <2>4, <2>7
  <2> QED BY <1>3, <1>5, <2>8, SameDecoder DEF Receiving, HasDecoder
<1>6. CASE s.phase \notin {"KeysUnsampled", "HeaderReceived"}
  <2>1. \/ \E kind, data : send(s, sample) = SendChunk(s, kind, data)
        \/ \E kind, chunk : send(s, sample) = Sent(s, kind, chunk)
    BY <1>1, <1>6 DEF send, EkSide, CtSide
  <2>2. u.phase = s.phase /\ u.dec = s.dec
    BY <1>1, <1>2, <1>3, <2>1 DEF Sent
  <2> QED BY <1>3, <2>2, SameDecoder DEF Receiving
<1> QED BY <1>4, <1>5, <1>6

LEMMA RecvDecoder ==
  ASSUME NEW K, NEW s, V1State(s, K), DecoderOK(s), NEW m
  PROVE  DecoderOK(recv(s, m).state)
<1>1. IsRecord(s) /\ s.phase \in EkSide \cup CtSide /\ (s.phase \in HasDecoder \/ s.dec = {})
  BY DEF V1State
<1>2. PICK out, u : out = recv(s, m) /\ u = out.state
  OBVIOUS
<1>3. \A err : Ignored(s).state = s /\ Refused(s, err).state = s
  BY DEF Ignored, Refused
<1> SUFFICES ASSUME u # s PROVE DecoderOK(u)
  BY <1>2
<1>4. CASE s.phase = "Ct2Sampled"
  <2>1. u = State("KeysUnsampled", s.epoch + 1, s.auth)
    BY <1>2, <1>3, <1>4 DEF recv, RecvSameEpoch, RecvNextEpoch, recvNextEpoch, Ignored
  <2>2. u.dec = {}
    BY <2>1 DEF State
  <2> QED BY <2>2, SmallDecoder
<1>5. CASE s.phase # "Ct2Sampled"
  <2>1. out = RecvSameEpoch(s, m) /\ out # Ignored(s)
    BY <1>2, <1>3, <1>5 DEF recv
  <2>2. CASE s.phase \in {"KeysSampled", "Ct1Received"}
    <3>1. out \in {RecvFirstCt1(s, m.chunk), RecvFirstCt2(s, m.chunk)}
      BY <2>1, <2>2 DEF RecvSameEpoch
    <3>2. u \in {[s EXCEPT !.phase = "HeaderSent", !.sent = 0, !.dec = {m.chunk}],
                 [s EXCEPT !.phase = "EkSentCt1Received", !.sent = 0, !.dec = {m.chunk}]}
      BY <1>2, <3>1 DEF RecvFirstCt1, RecvFirstCt2, Ignored
    <3>3. u.dec = {m.chunk}
      BY <1>1, <3>2 DEF IsRecord
    <3> QED BY <3>3, SmallDecoder
  <2>3. PICK dec : dec = addChunk(s.dec, m.chunk)
    OBVIOUS
  <2>4. CASE s.phase = "HeaderSent"
    <3>1. out = RecvCt1(s, m.chunk)
      BY <2>1, <2>4 DEF RecvSameEpoch
    <3>2. CASE IsDecoded("Ct1", dec)
      <4>1. u = [s EXCEPT !.phase = "Ct1Received", !.ct = Decoded(dec), !.dec = {}]
        BY <1>2, <2>3, <3>1, <3>2 DEF RecvCt1, recvCt1, Ignored
      <4>2. u.dec = {}
        BY <1>1, <4>1 DEF IsRecord
      <4> QED BY <4>2, SmallDecoder
    <3>3. CASE ~IsDecoded("Ct1", dec)
      <4>1. u.dec = dec /\ u.phase = "HeaderSent"
        BY <1>1, <1>2, <2>3, <2>4, <3>1, <3>3 DEF RecvCt1, Ignored, IsRecord
      <4> QED BY <2>3, <3>3, <4>1, GrownDecoder DEF Receiving, HasDecoder, Values
    <3> QED BY <3>2, <3>3
  <2>5. CASE s.phase = "EkSentCt1Received"
    <3>1. out = RecvCt2(s, m.chunk)
      BY <2>1, <2>5 DEF RecvSameEpoch
    <3>2. CASE IsDecoded("Ct2", dec)
      <4>1. out = recvCt2(s, Decoded(dec))
        BY <2>3, <3>1, <3>2 DEF RecvCt2
      <4>2. u.dec = {}
        BY <1>2, <1>3, <4>1 DEF recvCt2, State
      <4> QED BY <4>2, SmallDecoder
    <3>3. CASE ~IsDecoded("Ct2", dec)
      <4>1. u.dec = dec /\ u.phase = "EkSentCt1Received"
        BY <1>1, <1>2, <2>3, <2>5, <3>1, <3>3 DEF RecvCt2, Ignored, IsRecord
      <4> QED BY <2>3, <3>3, <4>1, GrownDecoder DEF Receiving, HasDecoder, Values
    <3> QED BY <3>2, <3>3
  <2>6. CASE s.phase = "NoHeaderReceived"
    <3>1. out = RecvHdr(s, m.chunk)
      BY <2>1, <2>6 DEF RecvSameEpoch
    <3>2. CASE IsDecoded("Hdr", dec)
      <4>1. out = recvHeader(s, Decoded(dec))
        BY <2>3, <3>1, <3>2 DEF RecvHdr
      <4>2. u.dec = {}
        BY <1>1, <1>2, <1>3, <4>1 DEF recvHeader, Ignored, IsRecord
      <4> QED BY <4>2, SmallDecoder
    <3>3. CASE ~IsDecoded("Hdr", dec)
      <4>1. u.dec = dec /\ u.phase = "NoHeaderReceived"
        BY <1>1, <1>2, <2>3, <2>6, <3>1, <3>3 DEF RecvHdr, Ignored, IsRecord
      <4> QED BY <2>3, <3>3, <4>1, GrownDecoder DEF Receiving, HasDecoder, Values
    <3> QED BY <3>2, <3>3
  <2>7. CASE s.phase \in {"Ct1Sampled", "Ct1Acknowledged"}
    <3>1. PICK acked \in BOOLEAN : acked <=> (s.phase = "Ct1Acknowledged" \/ m.kind = "EkCt1Ack")
      OBVIOUS
    <3>2. out = RecvEk(s, m.chunk, acked)
      BY <2>1, <2>7, <3>1 DEF RecvSameEpoch
    <3>3. CASE IsDecoded("Ek", dec)
      <4>1. PICK next : /\ out = recvEk(s, Decoded(dec), next)
                        /\ next = IF acked THEN [s EXCEPT !.phase = "Ct2Sampled", !.sent = 0, !.dec = {}]
                                  ELSE [s EXCEPT !.phase = "EkReceivedCt1Sampled", !.dec = {}]
        BY <2>3, <3>2, <3>3 DEF RecvEk
      <4>2. next.dec = {}
        BY <1>1, <4>1 DEF IsRecord
      <4>3. u = next
        BY <1>2, <1>3, <4>1 DEF recvEk, Ignored
      <4> QED BY <4>2, <4>3, SmallDecoder
    <3>4. CASE ~IsDecoded("Ek", dec)
      <4>1. u = IF acked THEN [s EXCEPT !.phase = "Ct1Acknowledged", !.sent = 0, !.dec = dec]
                ELSE [s EXCEPT !.dec = dec]
        BY <1>2, <2>3, <3>2, <3>4 DEF RecvEk, Ignored
      <4>2. u.dec = dec /\ u.phase \in {"Ct1Sampled", "Ct1Acknowledged"}
        BY <1>1, <2>7, <4>1 DEF IsRecord
      <4> QED BY <2>3, <3>4, <4>2, GrownDecoder DEF Receiving, HasDecoder, Values
    <3> QED BY <3>3, <3>4
  <2>8. CASE s.phase = "EkReceivedCt1Sampled"
    <3>1. out = RecvCt1Ack(s)
      BY <2>1, <2>8 DEF RecvSameEpoch
    <3>2. u = [s EXCEPT !.phase = "Ct2Sampled", !.sent = 0]
      BY <1>2, <3>1 DEF RecvCt1Ack, Ignored
    <3>3. u.dec = s.dec
      BY <1>1, <3>2 DEF IsRecord
    <3>4. u.dec = {}
      BY <1>1, <2>8, <3>3 DEF HasDecoder
    <3> QED BY <3>4, SmallDecoder
  <2>9. s.phase \notin {"KeysUnsampled", "HeaderReceived"}
    BY <2>1 DEF RecvSameEpoch
  <2> QED BY <1>1, <1>5, <2>2, <2>4, <2>5, <2>6, <2>7, <2>8, <2>9 DEF EkSide, CtSide
<1> QED BY <1>4, <1>5

LEMMA StoredDecoder ==
  ASSUME NEW K, NEW s, V1State(s, K), DecoderOK(s)
  PROVE  DecoderOK(Stored(s))
<1>1. Stored(s).dec = s.dec /\ Stored(s).phase = s.phase
  BY StoredIs DEF V1State, IsRecord
<1> QED BY <1>1, SameDecoder DEF Receiving

-----------------------------------------------------------------------------
(* The inductive invariant. *)

\* The samples the parties draw.
Samples == Party \X Nat

FunctionsInv ==
  /\ st = [p \in Party |-> st[p]]
  /\ net = [p \in Party |-> net[p]]
  /\ samples \in [Party -> Nat]

\* The states fit together, whatever was lost, and no decoder is full.
StatesInv ==
  /\ \A p \in Party : V1State(st[p], Samples) /\ DecoderOK(st[p])
  /\ Joined(st[A], st[B])

\* What is under way was sent in the present epoch of its sender, and still
\* describes the sender's state, or is of an earlier epoch.
MessagesInv ==
  \A p \in Party :
    /\ IsFiniteSet(net[p]) /\ Cardinality(net[p]) <= MaxInFlight
    /\ \A m \in net[p] : Genuine(m, st[Peer(p)])

\* The secrets handed out are those mixed into the authenticator.
KeysInv == keys = [p \in Party |-> st[p].auth]

IInv == FunctionsInv /\ StatesInv /\ MessagesInv /\ KeysInv

-----------------------------------------------------------------------------

LEMMA PeerFacts ==
  \A p \in Party : Peer(p) \in Party /\ Peer(p) # p /\ Peer(Peer(p)) = p
BY SpqrHandshakeAssumption DEF Party, Peer

\* Either party's state fits the other one's.
LEMMA PairFacts ==
  ASSUME StatesInv, NEW p \in Party
  PROVE  /\ Joined(st[p], st[Peer(p)]) /\ V1State(st[p], Samples) /\ V1State(st[Peer(p)], Samples)
         /\ DecoderOK(st[p]) /\ DecoderOK(st[Peer(p)])
<1>1. CASE p = A
  BY <1>1, PeerFacts DEF StatesInv, Party, Peer
<1>2. CASE p = B
  BY <1>2, PeerFacts, JoinedSymmetric, SpqrHandshakeAssumption DEF StatesInv, Party, Peer
<1> QED BY <1>1, <1>2 DEF Party

LEMMA InitIInv == Init => IInv
<1> SUFFICES ASSUME Init PROVE IInv
  OBVIOUS
<1>1. FunctionsInv
  BY DEF Init, FunctionsInv
<1>2. StatesInv
  <2>1. initV1StateA.dec = {} /\ initV1StateB.dec = {}
    BY DEF initV1StateA, initV1StateB, State
  <2>2. DecoderOK(initV1StateA) /\ DecoderOK(initV1StateB)
    BY <2>1, SmallDecoder
  <2> QED BY <2>2, InitJoined, SpqrHandshakeAssumption DEF Init, StatesInv, Party
<1>3. MessagesInv
  <2>1. IsFiniteSet({}) /\ Cardinality({}) = 0 /\ 0 <= MaxInFlight
    BY FS_EmptySet, SpqrHandshakeAssumption
  <2> QED BY <2>1 DEF Init, MessagesInv
<1>4. KeysInv
  <2>1. initV1StateA.auth = << >> /\ initV1StateB.auth = << >>
    BY DEF initV1StateA, initV1StateB, State, newAuthenticator
  <2> QED BY <2>1, SpqrHandshakeAssumption DEF Init, KeysInv, Party
<1> QED BY <1>1, <1>2, <1>3, <1>4 DEF IInv

\* One party takes a step of the state machine; messages to its peer are added
\* only if they are genuine.
LEMMA StepIInv ==
  ASSUME IInv, NEW p \in Party, NEW u, NEW key,
         Advance(Samples, st[p], st[Peer(p)], u, key), DecoderOK(u),
         st' = [st EXCEPT ![p] = u],
         keys' = [keys EXCEPT ![p] = Output(@, key)],
         samples' \in [Party -> Nat],
         net' = [q \in Party |-> net'[q]],
         \A q \in Party : IsFiniteSet(net'[q]) /\ Cardinality(net'[q]) <= MaxInFlight,
         net'[p] \subseteq net[p],
         \A m \in net'[Peer(p)] : m \in net[Peer(p)] \/ Genuine(m, u)
  PROVE  IInv'
<1>1. /\ V1State(u, Samples) /\ Joined(u, st[Peer(p)])
      /\ \A m : Genuine(m, st[p]) => Genuine(m, u)
      /\ u.auth = Output(st[p].auth, key)
  BY DEF Advance, Output
<1>2. Peer(p) \in Party /\ Peer(p) # p /\ Peer(Peer(p)) = p /\ Party = {p, Peer(p)}
  BY PeerFacts DEF Party, Peer
<1>3. st'[p] = u /\ st'[Peer(p)] = st[Peer(p)] /\ st' = [q \in Party |-> st'[q]]
  BY <1>2 DEF IInv, FunctionsInv
<1>4. FunctionsInv'
  BY <1>3 DEF FunctionsInv
<1>5. StatesInv'
  <2>1. V1State(st'[Peer(p)], Samples) /\ DecoderOK(st'[Peer(p)])
    BY <1>3, PairFacts DEF IInv
  <2>2. Joined(st'[A], st'[B])
    <3>1. CASE p = A
      BY <1>1, <1>3, <3>1 DEF Peer
    <3>2. CASE p = B
      BY <1>1, <1>3, <3>2, JoinedSymmetric, SpqrHandshakeAssumption DEF Peer
    <3> QED BY <3>1, <3>2 DEF Party
  <2>3. \A q \in Party : V1State(st'[q], Samples) /\ DecoderOK(st'[q])
    BY <1>1, <1>2, <1>3, <2>1
  <2> QED BY <2>2, <2>3 DEF StatesInv
<1>6. MessagesInv'
  <2>1. ASSUME NEW m \in net'[p] PROVE Genuine(m, st'[Peer(p)])
    BY <1>3 DEF IInv, MessagesInv
  <2>2. ASSUME NEW m \in net'[Peer(p)] PROVE Genuine(m, st'[p])
    <3>1. m \in net[Peer(p)] => Genuine(m, st[p])
      BY <1>2 DEF IInv, MessagesInv
    <3> QED BY <1>1, <1>3, <3>1
  <2>3. \A q \in Party : \A m \in net'[q] : Genuine(m, st'[Peer(q)])
    BY <1>2, <2>1, <2>2
  <2> QED BY <2>3 DEF MessagesInv
<1>7. KeysInv'
  <2>1. keys[p] = st[p].auth /\ keys[Peer(p)] = st[Peer(p)].auth /\ keys = [q \in Party |-> keys[q]]
    BY <1>2 DEF IInv, KeysInv
  <2>2. keys' = [q \in Party |-> IF q = p THEN Output(st[p].auth, key) ELSE keys[q]]
    BY <2>1
  <2>3. \A q \in Party : keys'[q] = st'[q].auth
    BY <1>1, <1>2, <1>3, <2>1, <2>2
  <2> QED BY <2>2, <2>3 DEF KeysInv
<1> QED BY <1>4, <1>5, <1>6, <1>7 DEF IInv

LEMMA SendStep ==
  ASSUME IInv, NEW p \in Party, Send(p)
  PROVE  \E out : /\ out = send(st[p], <<p, samples[p]>>)
                  /\ Advance(Samples, st[p], st[Peer(p)], Stored(out.state), out.key)
                  /\ DecoderOK(Stored(out.state))
                  /\ Genuine(out.msg, Stored(out.state))
                  /\ st' = [st EXCEPT ![p] = Stored(out.state)]
                  /\ net' = [net EXCEPT ![Peer(p)] = @ \cup {out.msg}]
                  /\ keys' = [keys EXCEPT ![p] = Output(@, out.key)]
                  /\ Cardinality(net[Peer(p)]) < MaxInFlight
                  /\ samples' = [samples EXCEPT ![p] = IF DrawsSample(st[p]) THEN @ + 1 ELSE @]
<1>1. PICK out : out = send(st[p], <<p, samples[p]>>)
  OBVIOUS
<1>2. <<p, samples[p]>> \in Samples
  BY DEF Samples, IInv, FunctionsInv
<1>3. /\ Advance(Samples, st[p], st[Peer(p)], Stored(out.state), out.key)
      /\ Genuine(out.msg, Stored(out.state))
  BY <1>1, <1>2, PairFacts, SendAdvance DEF IInv
<1>7. DecoderOK(Stored(out.state))
  <2>1. V1State(out.state, Samples)
    BY <1>1, <1>2, PairFacts, SendAdvance DEF IInv
  <2>2. DecoderOK(out.state)
    BY <1>1, PairFacts, SendDecoder DEF IInv
  <2> QED BY <2>1, <2>2, StoredDecoder
<1>4. Store(p, out.state)
  BY <1>1, Zenon DEF Send
<1>5. st' = [st EXCEPT ![p] = Stored(out.state)]
  BY <1>4 DEF Store, Stored
<1>6. /\ net' = [net EXCEPT ![Peer(p)] = @ \cup {out.msg}]
      /\ keys' = [keys EXCEPT ![p] = Output(@, out.key)]
      /\ Cardinality(net[Peer(p)]) < MaxInFlight
      /\ samples' = [samples EXCEPT ![p] = IF DrawsSample(st[p]) THEN @ + 1 ELSE @]
  BY <1>1, Zenon DEF Send
<1> QED BY <1>1, <1>3, <1>5, <1>6, <1>7

LEMMA ReceiveStep ==
  ASSUME IInv, NEW p \in Party, NEW m \in net[p], ReceiveMessage(p, m)
  PROVE  \E out : /\ out = recv(st[p], m)
                  /\ Advance(Samples, st[p], st[Peer(p)], Stored(out.state), out.key)
                  /\ DecoderOK(Stored(out.state))
                  /\ st' = [st EXCEPT ![p] = Stored(out.state)]
                  /\ net' = [net EXCEPT ![p] = @ \ {m}]
                  /\ keys' = [keys EXCEPT ![p] = Output(@, out.key)]
                  /\ samples' = samples
<1>1. PICK out : out = recv(st[p], m)
  OBVIOUS
<1>2. Genuine(m, st[Peer(p)])
  BY DEF IInv, MessagesInv
<1>3. Advance(Samples, st[p], st[Peer(p)], Stored(out.state), out.key)
  BY <1>1, <1>2, PairFacts, RecvAdvance DEF IInv
<1>7. DecoderOK(Stored(out.state))
  <2>1. V1State(out.state, Samples)
    BY <1>1, <1>2, PairFacts, RecvAdvance DEF IInv
  <2>2. DecoderOK(out.state)
    BY <1>1, PairFacts, RecvDecoder DEF IInv
  <2> QED BY <2>1, <2>2, StoredDecoder
<1>4. Store(p, out.state)
  BY <1>1, Zenon DEF ReceiveMessage
<1>5. st' = [st EXCEPT ![p] = Stored(out.state)]
  BY <1>4 DEF Store, Stored
<1>6. /\ net' = [net EXCEPT ![p] = @ \ {m}]
      /\ keys' = [keys EXCEPT ![p] = Output(@, out.key)]
      /\ samples' = samples
  BY <1>1, Zenon DEF ReceiveMessage
<1> QED BY <1>1, <1>3, <1>5, <1>6, <1>7

\* Removing a message leaves the set finite and no larger.
LEMMA RemovedBounded ==
  ASSUME IInv, NEW p \in Party, NEW m, net' = [net EXCEPT ![p] = @ \ {m}]
  PROVE  /\ net' = [q \in Party |-> net'[q]]
         /\ \A q \in Party : /\ IsFiniteSet(net'[q]) /\ Cardinality(net'[q]) <= MaxInFlight
                             /\ net'[q] \subseteq net[q]
<1>1. /\ net' = [q \in Party |-> net'[q]]
      /\ \A q \in Party : net'[q] = IF q = p THEN net[p] \ {m} ELSE net[q]
  BY DEF IInv, FunctionsInv
<1>2. IsFiniteSet(net[p] \ {m}) /\ Cardinality(net[p] \ {m}) <= MaxInFlight
  <2>1. IsFiniteSet(net[p]) /\ Cardinality(net[p]) <= MaxInFlight
    BY DEF IInv, MessagesInv
  <2>2. IsFiniteSet(net[p] \ {m}) /\ Cardinality(net[p] \ {m}) <= Cardinality(net[p])
    BY <2>1, FS_Subset
  <2> QED BY <2>1, <2>2, FS_CardinalityType, SpqrHandshakeAssumption
<1> QED BY <1>1, <1>2 DEF IInv, MessagesInv

LEMMA NextIInv == IInv /\ [Next]_vars => IInv'
<1> SUFFICES ASSUME IInv, [Next]_vars PROVE IInv'
  OBVIOUS
<1>1. CASE UNCHANGED vars
  BY <1>1 DEF vars, IInv, FunctionsInv, StatesInv, MessagesInv, KeysInv
<1>2. ASSUME NEW p \in Party, Send(p) PROVE IInv'
  <2>1. PICK out : /\ Advance(Samples, st[p], st[Peer(p)], Stored(out.state), out.key)
                   /\ DecoderOK(Stored(out.state))
                   /\ Genuine(out.msg, Stored(out.state))
                   /\ st' = [st EXCEPT ![p] = Stored(out.state)]
                   /\ net' = [net EXCEPT ![Peer(p)] = @ \cup {out.msg}]
                   /\ keys' = [keys EXCEPT ![p] = Output(@, out.key)]
                   /\ Cardinality(net[Peer(p)]) < MaxInFlight
                   /\ samples' = [samples EXCEPT ![p] = IF DrawsSample(st[p]) THEN @ + 1 ELSE @]
    BY <1>2, SendStep
  <2>2. PICK q : q = Peer(p) /\ q \in Party /\ q # p
    BY PeerFacts
  <2>3. /\ net' = [r \in Party |-> net'[r]]
        /\ \A r \in Party : net'[r] = IF r = q THEN net[q] \cup {out.msg} ELSE net[r]
    BY <2>1, <2>2 DEF IInv, FunctionsInv
  <2>4. IsFiniteSet(net[q] \cup {out.msg}) /\ Cardinality(net[q] \cup {out.msg}) <= MaxInFlight
    <3>1. IsFiniteSet(net[q]) /\ Cardinality(net[q]) < MaxInFlight /\ Cardinality(net[q]) \in Nat
      BY <2>1, <2>2, FS_CardinalityType DEF IInv, MessagesInv
    <3>2. /\ IsFiniteSet(net[q] \cup {out.msg})
          /\ Cardinality(net[q] \cup {out.msg}) =
               IF out.msg \in net[q] THEN Cardinality(net[q]) ELSE Cardinality(net[q]) + 1
      BY <3>1, FS_AddElement
    <3> QED BY <3>1, <3>2, SpqrHandshakeAssumption
  <2>5. \A r \in Party : IsFiniteSet(net'[r]) /\ Cardinality(net'[r]) <= MaxInFlight
    BY <2>3, <2>4 DEF IInv, MessagesInv
  <2>6. samples' \in [Party -> Nat]
    BY <2>1 DEF IInv, FunctionsInv
  <2>7. /\ net'[p] \subseteq net[p]
        /\ \A m \in net'[Peer(p)] : m \in net[Peer(p)] \/ Genuine(m, Stored(out.state))
    BY <2>1, <2>2, <2>3
  <2> QED BY <2>1, <2>3, <2>5, <2>6, <2>7, StepIInv
<1>3. ASSUME NEW p \in Party, Receive(p) PROVE IInv'
  <2>1. PICK m \in net[p] : ReceiveMessage(p, m)
    BY <1>3 DEF Receive
  <2>2. PICK out : /\ Advance(Samples, st[p], st[Peer(p)], Stored(out.state), out.key)
                   /\ DecoderOK(Stored(out.state))
                   /\ st' = [st EXCEPT ![p] = Stored(out.state)]
                   /\ net' = [net EXCEPT ![p] = @ \ {m}]
                   /\ keys' = [keys EXCEPT ![p] = Output(@, out.key)]
                   /\ samples' = samples
    BY <2>1, ReceiveStep
  <2>3. /\ net' = [q \in Party |-> net'[q]]
        /\ \A q \in Party : /\ IsFiniteSet(net'[q]) /\ Cardinality(net'[q]) <= MaxInFlight
                            /\ net'[q] \subseteq net[q]
    BY <2>2, RemovedBounded
  <2>4. samples' \in [Party -> Nat]
    BY <2>2 DEF IInv, FunctionsInv
  <2>5. Peer(p) \in Party
    BY PeerFacts
  <2>6. net'[p] \subseteq net[p] /\ \A n \in net'[Peer(p)] : n \in net[Peer(p)]
    BY <2>3, <2>5
  <2> QED BY <2>2, <2>3, <2>4, <2>6, StepIInv
<1>4. ASSUME NEW p \in Party, Lose(p) PROVE IInv'
  <2>1. PICK m \in net[p] : net' = [net EXCEPT ![p] = @ \ {m}]
    BY <1>4 DEF Lose
  <2>2. st' = st /\ samples' = samples /\ keys' = keys
    BY <1>4 DEF Lose
  <2>3. /\ net' = [q \in Party |-> net'[q]]
        /\ \A q \in Party : /\ IsFiniteSet(net'[q]) /\ Cardinality(net'[q]) <= MaxInFlight
                            /\ net'[q] \subseteq net[q]
    BY <2>1, RemovedBounded
  <2>4. FunctionsInv'
    BY <2>2, <2>3 DEF IInv, FunctionsInv
  <2>5. MessagesInv'
    BY <2>2, <2>3 DEF IInv, MessagesInv
  <2> QED BY <2>2, <2>4, <2>5 DEF IInv, StatesInv, KeysInv
<1> QED BY <1>1, <1>2, <1>3, <1>4 DEF Next

\* The states of the parties and the messages under way always fit together.
THEOREM Invariance == Spec => []IInv
BY InitIInv, NextIInv, PTL DEF Spec

\* Every part of the state has its type; a decoder that has the chunks of its
\* value always decodes it, so no party waits for a chunk that it does not need.
THEOREM TypeCorrect == Spec => []TypeOK
<1>1. IInv => TypeOK
  <2> SUFFICES ASSUME IInv PROVE TypeOK
    OBVIOUS
  <2>1. \A p \in Party : V1State(st[p], Samples) /\ DecoderOK(st[p])
    BY DEF IInv, StatesInv
  <2>2. \A p \in Party : /\ st[p].phase \in Phases
                         /\ st[p].epoch \in Nat
                         /\ st[p].sent \in 0 .. (IndexSpace - 1)
    BY <2>1 DEF V1State, Phases, EkSide, CtSide
  <2>3. \A p \in Party :
          st[p].phase \in HasDecoder =>
            Cardinality(st[p].dec) <= 1 \/ Cardinality(st[p].dec) < Needed[Receiving(st[p])]
    BY <2>1 DEF DecoderOK
  <2> QED BY <2>2, <2>3 DEF IInv, MessagesInv, FunctionsInv, TypeOK
<1> QED BY <1>1, Invariance, PTL

\* recv accepts every genuine message, however late: neither its epoch nor its
\* MAC nor the comparison of ek with the header ever fails.
THEOREM GenuineAccepted == Spec => []NeverRefused
<1>1. IInv => NeverRefused
  <2> SUFFICES ASSUME IInv, NEW p \in Party, NEW m \in net[p]
               PROVE  recv(st[p], m).err = "none"
    BY DEF NeverRefused
  <2>1. Genuine(m, st[Peer(p)])
    BY DEF IInv, MessagesInv
  <2> QED BY <2>1, PairFacts, RecvAdvance DEF IInv
<1> QED BY <1>1, Invariance, PTL

\* The receiver of a message has the secret that the message is keyed with.
THEOREM EpochKnown == Spec => []ReceiverHasEpoch
<1>1. IInv => ReceiverHasEpoch
  <2> SUFFICES ASSUME IInv, NEW p \in Party, NEW m \in net[p]
               PROVE  m.epoch - 1 <= Len(Output(keys[p], recv(st[p], m).key))
    BY DEF ReceiverHasEpoch
  <2>1. PICK out : out = recv(st[p], m)
    OBVIOUS
  <2>2. PICK q : q = Peer(p) /\ q \in Party
    BY PeerFacts
  <2>3. Genuine(m, st[q]) /\ V1State(st[q], Samples)
    BY <2>2 DEF IInv, MessagesInv, StatesInv
  <2>4. PICK u : u = Stored(out.state)
    OBVIOUS
  <2>5. Advance(Samples, st[p], st[q], u, out.key)
    BY <2>1, <2>2, <2>3, <2>4, PairFacts, RecvAdvance DEF IInv
  <2>6. V1State(u, Samples) /\ Joined(u, st[q]) /\ u.auth = Output(st[p].auth, out.key)
    BY <2>5 DEF Advance, Output
  <2>7. st[q].epoch <= Len(u.auth) + 1
    BY <2>3, <2>6, SecretsKnown
  <2>8. /\ m.epoch \in Nat /\ m.epoch <= st[q].epoch /\ st[q].epoch \in Nat
        /\ u.auth \in Seq(Secrets(Samples))
    BY <2>3, <2>6 DEF Genuine, V1State
  <2>9. keys[p] = st[p].auth
    BY DEF IInv, KeysInv
  <2>10. Len(u.auth) \in Nat
    BY <2>8
  <2>11. m.epoch - 1 <= Len(u.auth)
    BY <2>7, <2>8, <2>10
  <2> QED BY <2>1, <2>6, <2>9, <2>11
<1> QED BY <1>1, Invariance, PTL

\* At any time one of the parties has something new to send.
THEOREM NeverBothWait == Spec => []NoMutualWait
<1>1. IInv => NoMutualWait
  <2> SUFFICES ASSUME IInv PROVE NoMutualWait
    OBVIOUS
  <2>1. \/ Paired(st[A], st[B]) \/ Paired(st[B], st[A])
        \/ Ahead(st[A], st[B]) \/ Ahead(st[B], st[A])
    BY DEF IInv, StatesInv, Joined
  <2>2. ASSUME NEW x, NEW y, Paired(x, y) \/ Ahead(x, y)
        PROVE  x.phase \notin Waiting \/ y.phase \notin Waiting
    BY <2>2 DEF Paired, Ahead, EkSide, Waiting
  <2> QED BY <2>1, <2>2 DEF NoMutualWait, Party
<1> QED BY <1>1, Invariance, PTL

\* The two state machines agree on one secret per epoch: the party that learns
\* a secret second learns the one the other party has.
THEOREM AgreesOnSecrets == Spec => ImplementsCKA
<1>1. Init => CKA!Init
  BY DEF Init, CKA!Init
<1>2. ASSUME IInv, NEW p \in Party, NEW u, NEW key,
             Advance(Samples, st[p], st[Peer(p)], u, key),
             keys' = [keys EXCEPT ![p] = Output(@, key)]
      PROVE  CKA!Next \/ UNCHANGED keys
  <2>1. PICK q : q = Peer(p) /\ q \in Party /\ Party \ {p} = {q}
    BY PeerFacts DEF Party, Peer
  <2>2. PICK a, b : a = st[p].auth /\ b = st[q].auth
    OBVIOUS
  <2>3. a \in Seq(Secrets(Samples)) /\ b \in Seq(Secrets(Samples))
    BY <1>2, <2>1, <2>2, PairFacts DEF IInv, V1State
  <2>4. keys[p] = a /\ keys[q] = b /\ keys = [r \in Party |-> keys[r]]
    BY <1>2, <2>1, <2>2 DEF IInv, KeysInv
  <2>5. CASE key = Nothing
    BY <1>2, <2>4, <2>5 DEF Output
  <2>6. CASE key # Nothing
    <3>1. key \in Secrets(Samples) /\ (b = a \/ b = Append(a, key))
      BY <1>2, <2>1, <2>2, <2>6 DEF Advance
    <3>2. PICK c : c = Append(a, key)
      OBVIOUS
    <3>3. c \in Seq(Secrets(Samples)) /\ Len(c) = Len(a) + 1 /\ c[Len(c)] = key /\ Len(a) \in Nat
      BY <2>3, <3>1, <3>2
    <3>4. keys' = [keys EXCEPT ![p] = c] /\ keys'[p] = c
      BY <1>2, <2>4, <2>6, <3>2 DEF Output
    <3>5. keys' = [keys EXCEPT ![p] = Append(@, key)]
      BY <2>4, <3>2, <3>4
    <3>6. \A r \in Party \ {p} : \/ Len(keys[r]) = Len(keys[p])
                                 \/ Len(keys[r]) = Len(keys[p]) + 1 /\ keys[r][Len(keys[r])] = key
      BY <2>1, <2>4, <3>1, <3>2, <3>3
    <3>7. CKA!Obtain(p)
      BY <2>4, <3>3, <3>4, <3>5, <3>6 DEF CKA!Obtain
    <3> QED BY <3>7 DEF CKA!Next
  <2> QED BY <2>5, <2>6
<1>3. IInv /\ [Next]_vars => [CKA!Next]_keys
  <2> SUFFICES ASSUME IInv, [Next]_vars PROVE CKA!Next \/ UNCHANGED keys
    OBVIOUS
  <2>1. CASE UNCHANGED vars
    BY <2>1 DEF vars
  <2>2. ASSUME NEW p \in Party, Send(p) PROVE CKA!Next \/ UNCHANGED keys
    <3>1. PICK out : /\ Advance(Samples, st[p], st[Peer(p)], Stored(out.state), out.key)
                     /\ keys' = [keys EXCEPT ![p] = Output(@, out.key)]
      BY <2>2, SendStep
    <3> QED BY <1>2, <3>1
  <2>3. ASSUME NEW p \in Party, Receive(p) PROVE CKA!Next \/ UNCHANGED keys
    <3>1. PICK m \in net[p] : ReceiveMessage(p, m)
      BY <2>3 DEF Receive
    <3>2. PICK out : /\ Advance(Samples, st[p], st[Peer(p)], Stored(out.state), out.key)
                     /\ keys' = [keys EXCEPT ![p] = Output(@, out.key)]
      BY <3>1, ReceiveStep
    <3> QED BY <1>2, <3>2
  <2>4. ASSUME NEW p \in Party, Lose(p) PROVE UNCHANGED keys
    BY <2>4 DEF Lose
  <2> QED BY <2>1, <2>2, <2>3, <2>4 DEF Next
<1> QED BY <1>1, <1>3, Invariance, PTL DEF Spec, ImplementsCKA, CKA!Spec
=============================================================================
