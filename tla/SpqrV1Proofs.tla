---------------------------- MODULE SpqrV1Proofs ----------------------------
(***************************************************************************)
(* Facts about the v1 state machine of two parties, for any number of      *)
(* chunks per value and any size of the chunk index: how their states and  *)
(* the messages between them fit together, and that send, recv and storing *)
(* the state keep it that way.                                             *)
(***************************************************************************)
EXTENDS SpqrCodec, SequenceTheorems, TLAPS

-----------------------------------------------------------------------------
(* Concatenation of tuples. *)

\* A sequence with the elements of s and then those of t is their concatenation.
LEMMA ConcatIs ==
  ASSUME NEW S, NEW s \in Seq(S), NEW t \in Seq(S), NEW u \in Seq(S),
         Len(u) = Len(s) + Len(t),
         \A i \in 1 .. Len(s) : u[i] = s[i],
         \A i \in 1 .. Len(t) : u[Len(s) + i] = t[i]
  PROVE  s \o t = u
<1>1. Len(s) \in Nat /\ Len(t) \in Nat
  BY LenProperties
<1>2. /\ s \o t \in Seq(S) /\ Len(s \o t) = Len(u)
      /\ \A i \in 1 .. Len(u) : (s \o t)[i] = IF i <= Len(s) THEN s[i] ELSE t[i - Len(s)]
  BY ConcatProperties
<1>3. ASSUME NEW i \in 1 .. Len(u) PROVE (s \o t)[i] = u[i]
  <2>1. CASE i <= Len(s)
    BY <1>1, <1>2, <2>1
  <2>2. CASE ~(i <= Len(s))
    <3>1. i - Len(s) \in 1 .. Len(t) /\ Len(s) + (i - Len(s)) = i
      BY <1>1, <2>2
    <3> QED BY <1>2, <2>2, <3>1
  <2> QED BY <2>1, <2>2
<1> QED BY <1>2, <1>3, SeqEqual

LEMMA Concat21 ==
  ASSUME NEW a, NEW b, NEW c
  PROVE  <<a, b>> \o <<c>> = <<a, b, c>>
<1> DEFINE S == {a, b, c}
           s == <<a, b>>
           t == <<c>>
           u == <<a, b, c>>
<1>1. /\ s \in Seq(S) /\ t \in Seq(S) /\ u \in Seq(S)
      /\ Len(s) = 2 /\ Len(t) = 1 /\ Len(u) = 3
  OBVIOUS
<1>2. s[1] = u[1] /\ s[2] = u[2] /\ t[1] = u[3]
  OBVIOUS
<1> HIDE DEF s, t, u, S
<1>3. (\A i \in 1 .. Len(s) : u[i] = s[i]) /\ (\A i \in 1 .. Len(t) : u[Len(s) + i] = t[i])
  BY <1>1, <1>2
<1>5. Len(u) = Len(s) + Len(t)
  BY <1>1
<1>4. s \o t = u
  BY <1>1, <1>3, <1>5, ConcatIs, Zenon
<1> QED BY <1>4 DEF s, t, u

LEMMA Concat22 ==
  ASSUME NEW a, NEW b, NEW c, NEW d
  PROVE  <<a, b>> \o <<c, d>> = <<a, b, c, d>>
<1> DEFINE S == {a, b, c, d}
           s == <<a, b>>
           t == <<c, d>>
           u == <<a, b, c, d>>
<1>1. /\ s \in Seq(S) /\ t \in Seq(S) /\ u \in Seq(S)
      /\ Len(s) = 2 /\ Len(t) = 2 /\ Len(u) = 4
  OBVIOUS
<1>2. s[1] = u[1] /\ s[2] = u[2] /\ t[1] = u[3] /\ t[2] = u[4]
  OBVIOUS
<1> HIDE DEF s, t, u, S
<1>3. (\A i \in 1 .. Len(s) : u[i] = s[i]) /\ (\A i \in 1 .. Len(t) : u[Len(s) + i] = t[i])
  BY <1>1, <1>2
<1>5. Len(u) = Len(s) + Len(t)
  BY <1>1
<1>4. s \o t = u
  BY <1>1, <1>3, <1>5, ConcatIs, Zenon
<1> QED BY <1>4 DEF s, t, u

LEMMA Concat23 ==
  ASSUME NEW a, NEW b, NEW c, NEW d, NEW e
  PROVE  <<a, b>> \o <<c, d, e>> = <<a, b, c, d, e>>
<1> DEFINE S == {a, b, c, d, e}
           s == <<a, b>>
           t == <<c, d, e>>
           u == <<a, b, c, d, e>>
<1>1. /\ s \in Seq(S) /\ t \in Seq(S) /\ u \in Seq(S)
      /\ Len(s) = 2 /\ Len(t) = 3 /\ Len(u) = 5
  OBVIOUS
<1>2. s[1] = u[1] /\ s[2] = u[2] /\ t[1] = u[3] /\ t[2] = u[4] /\ t[3] = u[5]
  OBVIOUS
<1> HIDE DEF s, t, u, S
<1>3. (\A i \in 1 .. Len(s) : u[i] = s[i]) /\ (\A i \in 1 .. Len(t) : u[Len(s) + i] = t[i])
  BY <1>1, <1>2
<1>5. Len(u) = Len(s) + Len(t)
  BY <1>1
<1>4. s \o t = u
  BY <1>1, <1>3, <1>5, ConcatIs, Zenon
<1> QED BY <1>4 DEF s, t, u

LEMMA Concat31 ==
  ASSUME NEW a, NEW b, NEW c, NEW d
  PROVE  <<a, b, c>> \o <<d>> = <<a, b, c, d>>
<1> DEFINE S == {a, b, c, d}
           s == <<a, b, c>>
           t == <<d>>
           u == <<a, b, c, d>>
<1>1. /\ s \in Seq(S) /\ t \in Seq(S) /\ u \in Seq(S)
      /\ Len(s) = 3 /\ Len(t) = 1 /\ Len(u) = 4
  OBVIOUS
<1>2. s[1] = u[1] /\ s[2] = u[2] /\ s[3] = u[3] /\ t[1] = u[4]
  OBVIOUS
<1> HIDE DEF s, t, u, S
<1>3. (\A i \in 1 .. Len(s) : u[i] = s[i]) /\ (\A i \in 1 .. Len(t) : u[Len(s) + i] = t[i])
  BY <1>1, <1>2
<1>5. Len(u) = Len(s) + Len(t)
  BY <1>1
<1>4. s \o t = u
  BY <1>1, <1>3, <1>5, ConcatIs, Zenon
<1> QED BY <1>4 DEF s, t, u

LEMMA Concat42 ==
  ASSUME NEW a, NEW b, NEW c, NEW d, NEW e, NEW f
  PROVE  <<a, b, c, d>> \o <<e, f>> = <<a, b, c, d, e, f>>
<1> DEFINE S == {a, b, c, d, e, f}
           s == <<a, b, c, d>>
           t == <<e, f>>
           u == <<a, b, c, d, e, f>>
<1>1. /\ s \in Seq(S) /\ t \in Seq(S) /\ u \in Seq(S)
      /\ Len(s) = 4 /\ Len(t) = 2 /\ Len(u) = 6
  OBVIOUS
<1>2. s[1] = u[1] /\ s[2] = u[2] /\ s[3] = u[3] /\ s[4] = u[4] /\ t[1] = u[5] /\ t[2] = u[6]
  OBVIOUS
<1> HIDE DEF s, t, u, S
<1>3. (\A i \in 1 .. Len(s) : u[i] = s[i]) /\ (\A i \in 1 .. Len(t) : u[Len(s) + i] = t[i])
  BY <1>1, <1>2
<1>5. Len(u) = Len(s) + Len(t)
  BY <1>1
<1>4. s \o t = u
  BY <1>1, <1>3, <1>5, ConcatIs, Zenon
<1> QED BY <1>4 DEF s, t, u

LEMMA Concat20 ==
  ASSUME NEW a, NEW b
  PROVE  <<a, b>> \o << >> = <<a, b>>
OBVIOUS

LEMMA Concat30 ==
  ASSUME NEW a, NEW b, NEW c
  PROVE  <<a, b, c>> \o << >> = <<a, b, c>>
OBVIOUS

-----------------------------------------------------------------------------
(* What is known of the states of two parties and of the messages between  *)
(* them.  K is the set of the key pairs and samples.                       *)

CtSide ==
  {"NoHeaderReceived", "HeaderReceived", "Ct1Sampled", "EkReceivedCt1Sampled",
   "Ct1Acknowledged", "Ct2Sampled"}

\* The phases in which a party has its key pair or the header of its peer, and
\* those in which it has a ciphertext.
WithEk ==
  {"KeysSampled", "HeaderSent", "Ct1Received", "EkSentCt1Received",
   "HeaderReceived", "Ct1Sampled", "EkReceivedCt1Sampled", "Ct1Acknowledged"}
WithCt ==
  {"Ct1Received", "EkSentCt1Received", "Ct1Sampled", "EkReceivedCt1Sampled",
   "Ct1Acknowledged", "Ct2Sampled"}

Cts(K) == [ek : K, sample : K]
Secrets(K) == [epoch : Nat, ct : Cts(K)]

IsRecord(s) ==
  s = [phase |-> s.phase, epoch |-> s.epoch, auth |-> s.auth,
       ek |-> s.ek, ct |-> s.ct, sent |-> s.sent, dec |-> s.dec]

\* A state of the machine: what a phase has no use for is empty.
V1State(s, K) ==
  /\ IsRecord(s)
  /\ s.phase \in EkSide \cup CtSide
  /\ s.epoch \in Nat \ {0}
  /\ s.auth \in Seq(Secrets(K))
  /\ s.sent \in 0 .. (IndexSpace - 1)
  /\ IF s.phase \in WithEk THEN s.ek \in K ELSE s.ek = Nothing \/ s.phase = "Ct2Sampled"
  /\ IF s.phase \in WithCt THEN s.ct \in Cts(K) ELSE s.ct = Nothing
  /\ s.phase \in HasEncoder \/ s.sent = 0
  /\ s.phase \in HasDecoder \/ s.dec = {}

\* A state after it was stored and loaded again.
Stored(s) == deserializeV1States(serializeV1States(s))

DecodesTo(dec, value) == \A c \in dec : c.data = value

\* x sends its encapsulation key and y its ciphertext, in the same epoch.
Paired(x, y) ==
  /\ x.phase \in EkSide /\ y.phase \in CtSide
  /\ x.epoch = y.epoch
  /\ Len(x.auth) = x.epoch - 1
  /\ x.phase = "KeysUnsampled" => y.phase = "NoHeaderReceived" /\ y.dec = {}
  /\ x.phase = "KeysSampled" => y.phase \in {"NoHeaderReceived", "HeaderReceived", "Ct1Sampled"}
  /\ x.phase = "HeaderSent" => /\ y.phase \in {"Ct1Sampled", "EkReceivedCt1Sampled"}
                               /\ DecodesTo(x.dec, y.ct)
  /\ x.phase = "Ct1Received" =>
       y.phase \in {"Ct1Sampled", "EkReceivedCt1Sampled", "Ct1Acknowledged", "Ct2Sampled"}
  /\ x.phase = "EkSentCt1Received" => y.phase = "Ct2Sampled" /\ DecodesTo(x.dec, Ct2Value(y))
  /\ x.phase \in {"Ct1Received", "EkSentCt1Received"} => x.ct = y.ct
  /\ y.phase = "NoHeaderReceived" => DecodesTo(y.dec, HdrValue(x))
  /\ y.phase = "HeaderReceived" => y.dec = {}
  /\ y.phase \in {"Ct1Sampled", "Ct1Acknowledged"} => DecodesTo(y.dec, x.ek)
  /\ y.phase \in WithEk => y.ek = x.ek
  /\ IF y.phase \in WithCt
     THEN y.ct.ek = x.ek /\ y.auth = Append(x.auth, Secret(x.epoch, y.ct))
     ELSE y.auth = x.auth

\* x has decoded the ciphertext of y and has begun the next epoch.
Ahead(x, y) ==
  /\ x.phase = "NoHeaderReceived" /\ x.dec = {}
  /\ y.phase = "Ct2Sampled"
  /\ x.epoch = y.epoch + 1
  /\ x.auth = y.auth /\ Len(x.auth) = y.epoch

Joined(s, t) == Paired(s, t) \/ Paired(t, s) \/ Ahead(s, t) \/ Ahead(t, s)

\* A message that a party in state s has sent in its present epoch.
Current(m, s) ==
  \/ m.kind = "Hdr" /\ s.phase \in EkSide \ {"KeysUnsampled"} /\ m.chunk.data = HdrValue(s)
  \/ /\ m.kind = "Ek"
     /\ s.phase \in {"HeaderSent", "Ct1Received", "EkSentCt1Received"}
     /\ m.chunk.data = s.ek
  \/ /\ m.kind = "EkCt1Ack"
     /\ s.phase \in {"Ct1Received", "EkSentCt1Received"}
     /\ m.chunk.data = s.ek
  \/ m.kind = "Ct1Ack" /\ s.phase = "EkSentCt1Received"
  \/ m.kind = "None" /\ s.phase \in CtSide
  \/ m.kind = "Ct1" /\ s.phase \in CtSide \cap WithCt /\ m.chunk.data = s.ct
  \/ m.kind = "Ct2" /\ s.phase = "Ct2Sampled" /\ m.chunk.data = Ct2Value(s)

\* A message that a party in state s has sent.
Genuine(m, s) ==
  /\ m.epoch \in Nat
  /\ m.epoch <= s.epoch
  /\ m.epoch = s.epoch => Current(m, s)

-----------------------------------------------------------------------------
(* Storing a state. *)

\* A state comes back as it was stored; only the last phase forgets the header.
LEMMA StoredIs ==
  ASSUME NEW K, NEW s, V1State(s, K)
  PROVE  Stored(s) = IF s.phase = "Ct2Sampled" THEN [s EXCEPT !.ek = Nothing] ELSE s
<1> DEFINE data == serializeV1States(s)
           uc == deserializeUnchunked(s.phase, serializeUnchunked(s))
           enc == <<s.sent, Sending(s)>>
<1>0. s.phase \in EkSide \cup CtSide /\ IsRecord(s)
  BY DEF V1State
<1>1. /\ uc.epoch = s.epoch /\ uc.auth = s.auth
      /\ s.phase \in WithEk => uc.ek = s.ek
      /\ s.phase \notin WithEk => uc.ek = Nothing
      /\ s.phase \in WithCt \ {"Ct2Sampled"} => uc.ct = s.ct
      /\ s.phase \notin WithCt => uc.ct = Nothing
  <2>1. CASE s.phase \in {"KeysUnsampled", "NoHeaderReceived", "Ct2Sampled"}
    <3>1. serializeUnchunked(s) = <<s.epoch, s.auth>>
      BY <2>1, Concat20 DEF serializeUnchunked, serializeUnchunkedEk, serializeUnchunkedCt, EkSide
    <3>2. uc = Read(<<s.epoch, s.auth>>, Nothing, Nothing)
      BY <2>1, <3>1 DEF deserializeUnchunked, deserializeUnchunkedEk, deserializeUnchunkedCt, EkSide
    <3> HIDE DEF uc
    <3> QED BY <2>1, <3>2 DEF Read, WithEk, WithCt
  <2>2. CASE s.phase \in {"KeysSampled", "HeaderSent", "HeaderReceived"}
    <3>1. serializeUnchunked(s) = <<s.epoch, s.auth, s.ek>>
      BY <2>2, Concat21 DEF serializeUnchunked, serializeUnchunkedEk, serializeUnchunkedCt, EkSide
    <3>2. uc = Read(<<s.epoch, s.auth, s.ek>>, s.ek, Nothing)
      BY <2>2, <3>1 DEF deserializeUnchunked, deserializeUnchunkedEk, deserializeUnchunkedCt, EkSide
    <3> HIDE DEF uc
    <3> QED BY <2>2, <3>2 DEF Read, WithEk, WithCt
  <2>3. CASE s.phase \in {"Ct1Received", "EkSentCt1Received"}
    <3>1. serializeUnchunked(s) = <<s.epoch, s.auth, s.ek, s.ct>>
      BY <2>3, Concat22 DEF serializeUnchunked, serializeUnchunkedEk, serializeUnchunkedCt, EkSide
    <3>2. uc = Read(<<s.epoch, s.auth, s.ek, s.ct>>, s.ek, s.ct)
      BY <2>3, <3>1 DEF deserializeUnchunked, deserializeUnchunkedEk, deserializeUnchunkedCt, EkSide
    <3> HIDE DEF uc
    <3> QED BY <2>3, <3>2 DEF Read, WithEk, WithCt
  <2>4. CASE s.phase \in {"Ct1Sampled", "Ct1Acknowledged"}
    <3>1. serializeUnchunked(s) = <<s.epoch, s.auth, s.ek, s.ct.sample, s.ct>>
      BY <2>4, Concat23 DEF serializeUnchunked, serializeUnchunkedEk, serializeUnchunkedCt, EkSide
    <3>2. uc = Read(<<s.epoch, s.auth, s.ek, s.ct.sample, s.ct>>, s.ek, s.ct)
      BY <2>4, <3>1 DEF deserializeUnchunked, deserializeUnchunkedEk, deserializeUnchunkedCt, EkSide
    <3> HIDE DEF uc
    <3> QED BY <2>4, <3>2 DEF Read, WithEk, WithCt
  <2>5. CASE s.phase = "EkReceivedCt1Sampled"
    <3>1. serializeUnchunked(s) = <<s.epoch, s.auth, s.ct.sample, s.ek, s.ct>>
      BY <2>5, Concat23 DEF serializeUnchunked, serializeUnchunkedEk, serializeUnchunkedCt, EkSide
    <3>2. uc = Read(<<s.epoch, s.auth, s.ct.sample, s.ek, s.ct>>, s.ek, s.ct)
      BY <2>5, <3>1 DEF deserializeUnchunked, deserializeUnchunkedEk, deserializeUnchunkedCt, EkSide
    <3> HIDE DEF uc
    <3> QED BY <2>5, <3>2 DEF Read, WithEk, WithCt
  <2> QED BY <1>0, <2>1, <2>2, <2>3, <2>4, <2>5 DEF EkSide, CtSide
<1>2. /\ data[1] = s.phase /\ data[2] = serializeUnchunked(s)
      /\ s.phase \in HasEncoder => data[3] = enc
      /\ s.phase \in HasDecoder => data[Len(data)] = s.dec
  <2> DEFINE p == s.phase
             q == serializeUnchunked(s)
             d == s.dec
  <2>1. data = (<<p, q>> \o (IF p \in HasEncoder THEN <<enc>> ELSE << >>))
                \o (IF p \in HasDecoder THEN <<d>> ELSE << >>)
    BY DEF serializeV1States, serializeEncoder
  <2> HIDE DEF data, p, q, d, enc
  <2>2. CASE p \in HasEncoder /\ p \in HasDecoder
    <3>1. data = <<p, q, enc, d>>
      <4>1. data = (<<p, q>> \o <<enc>>) \o <<d>>
        BY <2>1, <2>2
      <4>2. <<p, q>> \o <<enc>> = <<p, q, enc>>
        BY Concat21
      <4> QED BY <4>1, <4>2, Concat31
    <3> QED BY <2>2, <3>1 DEF p, q, d
  <2>3. CASE p \in HasEncoder /\ p \notin HasDecoder
    <3>1. data = <<p, q, enc>>
      BY <2>1, <2>3, Concat21, Concat30
    <3> QED BY <2>3, <3>1 DEF p, q, d
  <2>4. CASE p \notin HasEncoder /\ p \in HasDecoder
    <3>1. data = <<p, q, d>>
      BY <2>1, <2>4, Concat21, Concat20
    <3> QED BY <2>4, <3>1 DEF p, q, d
  <2>5. CASE p \notin HasEncoder /\ p \notin HasDecoder
    <3>1. data = <<p, q>>
      BY <2>1, <2>5, Concat20
    <3> QED BY <2>5, <3>1 DEF p, q, d
  <2> QED BY <2>2, <2>3, <2>4, <2>5
<1>3. s.phase = "Ct2Sampled" => enc[2].ct = s.ct
  BY DEF Sending, Ct2Value
<1>4. Stored(s) =
        [phase |-> s.phase, epoch |-> uc.epoch, auth |-> uc.auth, ek |-> uc.ek,
         ct |-> IF s.phase = "Ct2Sampled" THEN data[3][2].ct ELSE uc.ct,
         sent |-> IF s.phase \in HasEncoder THEN data[3][1] ELSE 0,
         dec |-> IF s.phase \in HasDecoder THEN data[Len(data)] ELSE {}]
  <2> HIDE DEF data
  <2>1. Stored(s) = deserializeV1States(data)
    BY DEF Stored, data
  <2> QED BY <1>2, <2>1 DEF deserializeV1States
<1>5. s.phase \in HasEncoder => data[3][1] = s.sent
  BY <1>2
<1>6. s.phase = "Ct2Sampled" => data[3][2].ct = s.ct
  BY <1>2, <1>3 DEF HasEncoder
<1> HIDE DEF data, uc, enc
<1>7. CASE s.phase = "Ct2Sampled"
  <2>1. Stored(s) = [phase |-> s.phase, epoch |-> s.epoch, auth |-> s.auth, ek |-> Nothing,
                     ct |-> s.ct, sent |-> s.sent, dec |-> {}]
    BY <1>1, <1>2, <1>4, <1>5, <1>6, <1>7 DEF WithEk, HasEncoder, HasDecoder
  <2>2. s.dec = {}
    BY <1>7 DEF V1State, HasDecoder
  <2> QED BY <1>0, <1>7, <2>1, <2>2 DEF IsRecord
<1>8. CASE s.phase # "Ct2Sampled"
  <2>1. uc.ek = s.ek /\ uc.ct = s.ct
    BY <1>1, <1>8 DEF V1State
  <2>2. Stored(s) = [phase |-> s.phase, epoch |-> s.epoch, auth |-> s.auth, ek |-> s.ek,
                     ct |-> s.ct, sent |-> s.sent, dec |-> s.dec]
    BY <1>1, <1>2, <1>4, <1>5, <1>8, <2>1 DEF V1State
  <2> QED BY <1>0, <1>8, <2>2 DEF IsRecord
<1> QED BY <1>7, <1>8

\* What storing, or sending a further chunk, leaves as it is.
Agrees(s, u) ==
  /\ u.phase = s.phase /\ u.epoch = s.epoch /\ u.auth = s.auth
  /\ s.phase \in WithEk => u.ek = s.ek
  /\ u.ct = s.ct /\ u.dec = s.dec

\* Such a change disturbs nothing.
LEMMA AgreesJoined ==
  ASSUME NEW s, NEW u, NEW t, Agrees(s, u), Joined(s, t)
  PROVE  Joined(u, t)
<1> USE DEF Agrees, Joined
<1>1. CASE Paired(s, t)
  <2>1. s.phase = "KeysUnsampled" \/ HdrValue(u) = HdrValue(s)
    BY <1>1 DEF Paired, HdrValue, WithEk, EkSide
  <2>2. DecodesTo(t.dec, HdrValue(s)) => DecodesTo(t.dec, HdrValue(u))
    BY <1>1, <2>1 DEF Paired, DecodesTo
  <2>3. s.phase # "KeysUnsampled" => s.ek = u.ek
    BY <1>1 DEF Paired, WithEk, EkSide
  <2>4. CASE s.phase # "KeysUnsampled"
    BY <1>1, <2>2, <2>3, <2>4, Zenon DEF Paired
  <2>5. CASE s.phase = "KeysUnsampled"
    <3>1. t.phase = "NoHeaderReceived" /\ t.dec = {}
      BY <1>1, <2>5 DEF Paired
    <3>2. t.phase \notin WithEk /\ t.phase \notin WithCt
      BY <3>1 DEF WithEk, WithCt
    <3> QED BY <1>1, <2>5, <3>1, <3>2 DEF Paired, DecodesTo
  <2> QED BY <2>4, <2>5
<1>2. CASE Paired(t, s)
  <2>1. Ct2Value(u) = Ct2Value(s)
    BY <1>2 DEF Ct2Value
  <2>2. Paired(t, u)
    BY <1>2, <2>1, Zenon DEF Paired
  <2> QED BY <2>2
<1>3. CASE Ahead(s, t) \/ Ahead(t, s)
  BY <1>3, Zenon DEF Ahead
<1> QED BY <1>1, <1>2, <1>3

LEMMA AgreesGenuine ==
  ASSUME NEW s, NEW u, NEW m, Agrees(s, u), Genuine(m, s)
  PROVE  Genuine(m, u)
<1>1. Ct2Value(u) = Ct2Value(s)
  BY DEF Ct2Value, Agrees
<1>2. s.phase \in WithEk => HdrValue(u) = HdrValue(s)
  BY DEF HdrValue, Agrees
<1>3. EkSide \ {"KeysUnsampled"} \subseteq WithEk
  BY DEF EkSide, WithEk
<1>4. Current(m, s) => Current(m, u)
  <2> SUFFICES ASSUME Current(m, s) PROVE Current(m, u)
    OBVIOUS
  <2> USE DEF Agrees
  <2>1. CASE m.kind = "Hdr"
    BY <1>2, <1>3, <2>1 DEF Current
  <2>2. CASE m.kind \in {"Ek", "EkCt1Ack"}
    BY <1>3, <2>2 DEF Current, EkSide
  <2>3. CASE m.kind \in {"Ct1Ack", "None", "Ct1", "Ct2"}
    BY <1>1, <2>3 DEF Current
  <2> QED BY <2>1, <2>2, <2>3 DEF Current
<1> QED BY <1>4 DEF Genuine, Agrees

LEMMA StoredAgrees ==
  ASSUME NEW K, NEW s, V1State(s, K)
  PROVE  V1State(Stored(s), K) /\ Agrees(s, Stored(s))
<1>1. PICK u : u = Stored(s)
  OBVIOUS
<1>2. CASE s.phase = "Ct2Sampled"
  <2>1. u = [s EXCEPT !.ek = Nothing]
    BY <1>1, <1>2, StoredIs
  <2>2. u = [phase |-> s.phase, epoch |-> s.epoch, auth |-> s.auth,
             ek |-> Nothing, ct |-> s.ct, sent |-> s.sent, dec |-> s.dec]
    BY <2>1 DEF V1State, IsRecord
  <2>3. IsRecord(u)
    BY <2>2 DEF IsRecord
  <2> QED BY <1>1, <1>2, <2>2, <2>3 DEF V1State, Agrees, WithEk
<1>3. CASE s.phase # "Ct2Sampled"
  <2>1. u = s
    BY <1>1, <1>3, StoredIs
  <2> QED BY <1>1, <2>1 DEF Agrees
<1> QED BY <1>2, <1>3

-----------------------------------------------------------------------------
(* Steps. *)

\* What a step of the party in state s to state u, with a peer in state t and
\* the epoch secret key, makes of the pair.
Advance(K, s, t, u, key) ==
  /\ V1State(u, K)
  /\ Joined(u, t)
  /\ \A m : Genuine(m, s) => Genuine(m, u)
  /\ \/ key = Nothing /\ u.auth = s.auth
     \/ /\ key # Nothing /\ key \in Secrets(K)
        /\ key.epoch = Len(s.auth) + 1
        /\ u.auth = Append(s.auth, key)
        /\ t.auth = s.auth \/ t.auth = u.auth

\* Storing the new state keeps what the step made.
LEMMA AdvanceStored ==
  ASSUME NEW K, NEW s, NEW t, NEW u, NEW key, Advance(K, s, t, u, key)
  PROVE  Advance(K, s, t, Stored(u), key)
<1>1. V1State(Stored(u), K) /\ Agrees(u, Stored(u))
  BY StoredAgrees DEF Advance
<1>2. Joined(Stored(u), t)
  BY <1>1, AgreesJoined DEF Advance
<1>3. \A m : Genuine(m, u) => Genuine(m, Stored(u))
  BY <1>1, AgreesGenuine
<1>4. Stored(u).auth = u.auth
  BY <1>1 DEF Agrees
<1> QED BY <1>1, <1>2, <1>3, <1>4 DEF Advance

\* A step that changes at most the number of the next chunk.
LEMMA AgreesAdvance ==
  ASSUME NEW K, NEW s, NEW t, NEW u, V1State(u, K), Joined(s, t), Agrees(s, u)
  PROVE  Advance(K, s, t, u, Nothing)
BY AgreesJoined, AgreesGenuine DEF Advance, Agrees

\* The index of an encoder has its type.
LEMMA ChunkIndex ==
  /\ IndexSpace \in Nat /\ IndexSpace >= 1
  /\ \A n \in Nat : n % IndexSpace \in 0 .. (IndexSpace - 1)
<1>1. ChunkSpace \in Nat /\ Needed["Hdr"] \in 1 .. ChunkSpace
  BY SpqrV1Assumption DEF Values
<1>2. IndexSpace \in Nat /\ IndexSpace >= 1
  BY <1>1, SpqrV1Assumption
<1> QED BY <1>2

\* A further chunk of the value that is being sent.
LEMMA SendChunkAdvance ==
  ASSUME NEW K, NEW s, V1State(s, K), NEW t, Joined(s, t), s.phase \in HasEncoder,
         NEW kind, NEW data, NEW out, out = SendChunk(s, kind, data)
  PROVE  /\ Advance(K, s, t, out.state, out.key) /\ Agrees(s, out.state)
         /\ out.msg.epoch = s.epoch /\ out.msg.kind = kind /\ out.msg.chunk.data = data
<1>1. PICK u : u = [s EXCEPT !.sent = (s.sent + 1) % IndexSpace]
  OBVIOUS
<1>2. u = [phase |-> s.phase, epoch |-> s.epoch, auth |-> s.auth, ek |-> s.ek, ct |-> s.ct,
           sent |-> (s.sent + 1) % IndexSpace, dec |-> s.dec]
  BY <1>1 DEF V1State, IsRecord
<1>3. out = [state |-> u, key |-> Nothing, msg |-> v1Message(u, kind, nextChunk(s.sent, data))]
  BY <1>1 DEF SendChunk, Sent
<1>4. (s.sent + 1) % IndexSpace \in 0 .. (IndexSpace - 1)
  <2>1. s.sent \in 0 .. (IndexSpace - 1) /\ IndexSpace \in Nat
    BY SpqrV1Assumption DEF V1State
  <2>2. s.sent + 1 \in Nat
    BY <2>1
  <2> QED BY <2>2, ChunkIndex
<1>5. V1State(u, K)
  <2>1. IsRecord(u)
    BY <1>2 DEF IsRecord
  <2>2. /\ u.phase = s.phase /\ u.epoch = s.epoch /\ u.auth = s.auth /\ u.ek = s.ek
        /\ u.ct = s.ct /\ u.dec = s.dec /\ u.sent \in 0 .. (IndexSpace - 1)
    BY <1>2, <1>4
  <2> QED BY <2>1, <2>2 DEF V1State
<1>6. Agrees(s, u)
  BY <1>2 DEF Agrees
<1>7. out.msg.epoch = s.epoch /\ out.msg.kind = kind /\ out.msg.chunk.data = data
  BY <1>2, <1>3 DEF v1Message, nextChunk
<1> QED BY <1>3, <1>5, <1>6, <1>7, AgreesAdvance

\* chunkedKeysUnsampled.sendHdrChunk: nothing of this epoch has been sent before.
LEMMA SendFirstHdrAdvance ==
  ASSUME NEW K, NEW s, V1State(s, K), NEW t, Joined(s, t), s.phase = "KeysUnsampled",
         NEW sample \in K, NEW out, out = SendFirstHdr(s, sample)
  PROVE  Advance(K, s, t, out.state, out.key) /\ Genuine(out.msg, out.state)
<1>1. PICK v : v = [s EXCEPT !.phase = "KeysSampled", !.ek = sample, !.sent = 0]
  OBVIOUS
<1>2. v = [phase |-> "KeysSampled", epoch |-> s.epoch, auth |-> s.auth, ek |-> sample,
           ct |-> s.ct, sent |-> 0, dec |-> s.dec]
  BY <1>1 DEF V1State, IsRecord
<1>3. out = SendChunk(v, "Hdr", HdrValue(v))
  BY <1>1 DEF SendFirstHdr
<1>4. V1State(v, K)
  <2>1. IsRecord(v)
    BY <1>2 DEF IsRecord
  <2>2. 0 \in 0 .. (IndexSpace - 1)
    BY ChunkIndex
  <2> QED BY <1>2, <2>1, <2>2 DEF V1State, EkSide, WithEk, WithCt, HasEncoder, HasDecoder
<1>5. Paired(s, t)
  BY DEF Joined, Paired, Ahead, CtSide
<1>6. t.phase = "NoHeaderReceived" /\ t.dec = {}
  BY <1>5 DEF Paired
<1>7. Paired(v, t)
  <2>1. t.phase \notin WithEk /\ t.phase \notin WithCt
    BY <1>6 DEF WithEk, WithCt
  <2> QED BY <1>2, <1>5, <1>6, <2>1 DEF Paired, DecodesTo, EkSide
<1>8. Joined(v, t)
  BY <1>7 DEF Joined
<1>9. ASSUME NEW m, Genuine(m, s) PROVE Genuine(m, v)
  <2>1. ~Current(m, s)
    BY DEF Current, EkSide, CtSide
  <2> QED BY <1>2, <1>9, <2>1 DEF Genuine
<1>10. /\ Advance(K, v, t, out.state, out.key) /\ Agrees(v, out.state)
       /\ out.msg.epoch = v.epoch /\ out.msg.kind = "Hdr" /\ out.msg.chunk.data = HdrValue(v)
  BY <1>2, <1>3, <1>4, <1>8, SendChunkAdvance DEF HasEncoder
<1>11. Genuine(out.msg, v)
  BY <1>2, <1>4, <1>10 DEF Genuine, Current, EkSide, V1State
<1>12. Advance(K, s, t, out.state, out.key)
  BY <1>2, <1>9, <1>10 DEF Advance
<1> QED BY <1>10, <1>11, <1>12, AgreesGenuine

\* chunkedHeaderReceived.sendCt1Chunk: the secret of the epoch is known from now on.
LEMMA SendFirstCt1Advance ==
  ASSUME NEW K, NEW s, V1State(s, K), NEW t, V1State(t, K), Joined(s, t),
         s.phase = "HeaderReceived",
         NEW sample \in K, NEW out, out = SendFirstCt1(s, sample)
  PROVE  Advance(K, s, t, out.state, out.key) /\ Genuine(out.msg, out.state)
<1>1. PICK ct, key, v : /\ ct = Encaps(s.ek, sample) /\ key = Secret(s.epoch, ct)
                        /\ v = [s EXCEPT !.ct = ct, !.auth = Append(s.auth, key),
                                         !.phase = "Ct1Sampled", !.sent = 0]
  OBVIOUS
<1>2. v = [phase |-> "Ct1Sampled", epoch |-> s.epoch, auth |-> Append(s.auth, key), ek |-> s.ek,
           ct |-> ct, sent |-> 0, dec |-> s.dec]
  BY <1>1 DEF V1State, IsRecord
<1>3. PICK w : w = SendChunk(v, "Ct1", v.ct)
  OBVIOUS
<1>4. out = [w EXCEPT !.key = key]
  BY <1>1, <1>3 DEF SendFirstCt1, sendCt1, Update, V1State, IsRecord
<1>5. ct \in Cts(K) /\ ct.ek = s.ek /\ key \in Secrets(K) /\ key.epoch = s.epoch
  BY <1>1 DEF Encaps, Secret, Cts, Secrets, V1State, WithEk
<1>6. V1State(v, K)
  <2>1. IsRecord(v)
    BY <1>2 DEF IsRecord
  <2>2. 0 \in 0 .. (IndexSpace - 1)
    BY ChunkIndex
  <2>3. Append(s.auth, key) \in Seq(Secrets(K))
    BY <1>5 DEF V1State
  <2>4. s.ek \in K
    BY DEF V1State, WithEk
  <2> QED BY <1>2, <1>5, <2>1, <2>2, <2>3, <2>4 DEF V1State, CtSide, WithEk, WithCt, HasEncoder, HasDecoder
<1>7. Paired(t, s)
  BY DEF Joined, Paired, Ahead, EkSide
<1>8. t.phase = "KeysSampled" /\ s.dec = {} /\ s.auth = t.auth /\ s.ek = t.ek
  BY <1>7 DEF Paired, EkSide, WithEk, WithCt
<1>9. Joined(v, t)
  <2>1. t.epoch = s.epoch /\ key = Secret(t.epoch, ct)
    BY <1>1, <1>7 DEF Paired
  <2>2. Paired(t, v)
    BY <1>2, <1>5, <1>7, <1>8, <2>1 DEF Paired, DecodesTo, EkSide, CtSide, WithEk, WithCt
  <2> QED BY <2>2 DEF Joined
<1>10. ASSUME NEW m, Genuine(m, s) PROVE Genuine(m, v)
  <2>1. Current(m, s) => Current(m, v)
    BY <1>2 DEF Current, EkSide, CtSide, WithCt
  <2> QED BY <1>2, <1>10, <2>1 DEF Genuine
<1>11. /\ Advance(K, v, t, w.state, w.key) /\ Agrees(v, w.state)
       /\ w.msg.epoch = v.epoch /\ w.msg.kind = "Ct1" /\ w.msg.chunk.data = v.ct
  BY <1>2, <1>3, <1>6, <1>9, SendChunkAdvance DEF HasEncoder
<1>12. Genuine(w.msg, v)
  BY <1>2, <1>6, <1>11 DEF Genuine, Current, CtSide, WithCt, V1State
<1>13. out.state = w.state /\ out.msg = w.msg /\ out.key = key
  BY <1>3, <1>4 DEF SendChunk, Sent
<1>14. key # Nothing /\ key.epoch = Len(s.auth) + 1
  <2>1. Len(s.auth) = s.epoch - 1 /\ s.epoch \in Nat
    BY <1>7, <1>8 DEF Paired, V1State
  <2> QED BY <1>1, <1>5, <2>1 DEF Secret, Nothing
<1>15. w.state.auth = Append(s.auth, key)
  BY <1>2, <1>11 DEF Agrees
<1>16. Advance(K, s, t, w.state, key)
  BY <1>5, <1>8, <1>10, <1>11, <1>14, <1>15 DEF Advance
<1> QED BY <1>11, <1>12, <1>13, <1>16, AgreesGenuine

\* Whatever a party sends leaves the pair in step, and is genuine.
LEMMA SendAdvance ==
  ASSUME NEW K, NEW s, V1State(s, K), NEW t, V1State(t, K), Joined(s, t),
         NEW sample \in K, NEW out, out = send(s, sample)
  PROVE  /\ Advance(K, s, t, Stored(out.state), out.key) /\ Genuine(out.msg, Stored(out.state))
         /\ V1State(out.state, K)
<1>1. SUFFICES Advance(K, s, t, out.state, out.key) /\ Genuine(out.msg, out.state)
  <2> HIDE DEF Advance
  <2>1. Advance(K, s, t, Stored(out.state), out.key)
    BY <1>1, AdvanceStored
  <2>2. Agrees(out.state, Stored(out.state))
    BY <1>1, StoredAgrees DEF Advance
  <2>3. V1State(out.state, K)
    BY <1>1 DEF Advance
  <2> QED BY <1>1, <2>1, <2>2, <2>3, AgreesGenuine
<1>2. ASSUME NEW kind, NEW data, out = SendChunk(s, kind, data), s.phase \in HasEncoder,
             \A m : m.kind = kind /\ m.chunk.data = data => Current(m, s)
      PROVE  Advance(K, s, t, out.state, out.key) /\ Genuine(out.msg, out.state)
  <2>1. /\ Advance(K, s, t, out.state, out.key) /\ Agrees(s, out.state)
        /\ out.msg.epoch = s.epoch /\ out.msg.kind = kind /\ out.msg.chunk.data = data
    BY <1>2, SendChunkAdvance
  <2>2. Genuine(out.msg, s)
    BY <1>2, <2>1 DEF Genuine, V1State
  <2> QED BY <2>1, <2>2, AgreesGenuine
<1>3. ASSUME NEW kind, NEW chunk, out = Sent(s, kind, chunk),
             \A m : m.kind = kind => Current(m, s)
      PROVE  Advance(K, s, t, out.state, out.key) /\ Genuine(out.msg, out.state)
  <2>1. out.state = s /\ out.key = Nothing /\ out.msg.epoch = s.epoch /\ out.msg.kind = kind
    BY <1>3 DEF Sent, v1Message
  <2>2. Genuine(out.msg, s)
    BY <1>3, <2>1 DEF Genuine, V1State
  <2>3. Advance(K, s, t, s, Nothing)
    BY AgreesAdvance DEF Agrees
  <2> QED BY <2>1, <2>2, <2>3
<1>4. CASE s.phase = "KeysUnsampled"
  <2>1. out = SendFirstHdr(s, sample)
    BY <1>4 DEF send
  <2> QED BY <1>4, <2>1, SendFirstHdrAdvance
<1>5. CASE s.phase = "HeaderReceived"
  <2>1. out = SendFirstCt1(s, sample)
    BY <1>5 DEF send
  <2> QED BY <1>5, <2>1, SendFirstCt1Advance
<1>6. CASE s.phase = "KeysSampled"
  <2>1. out = SendChunk(s, "Hdr", HdrValue(s))
    BY <1>6 DEF send
  <2>2. \A m : m.kind = "Hdr" /\ m.chunk.data = HdrValue(s) => Current(m, s)
    BY <1>6 DEF Current, EkSide
  <2> QED BY <1>2, <1>6, <2>1, <2>2 DEF HasEncoder
<1>7. CASE s.phase = "HeaderSent"
  <2>1. out = SendChunk(s, "Ek", s.ek)
    BY <1>7 DEF send
  <2>2. \A m : m.kind = "Ek" /\ m.chunk.data = s.ek => Current(m, s)
    BY <1>7 DEF Current
  <2> QED BY <1>2, <1>7, <2>1, <2>2 DEF HasEncoder
<1>8. CASE s.phase = "Ct1Received"
  <2>1. out = SendChunk(s, "EkCt1Ack", s.ek)
    BY <1>8 DEF send
  <2>2. \A m : m.kind = "EkCt1Ack" /\ m.chunk.data = s.ek => Current(m, s)
    BY <1>8 DEF Current
  <2> QED BY <1>2, <1>8, <2>1, <2>2 DEF HasEncoder
<1>9. CASE s.phase = "EkSentCt1Received"
  <2>1. out = Sent(s, "Ct1Ack", Nothing)
    BY <1>9 DEF send
  <2>2. \A m : m.kind = "Ct1Ack" => Current(m, s)
    BY <1>9 DEF Current
  <2> QED BY <1>3, <2>1, <2>2
<1>10. CASE s.phase \in {"NoHeaderReceived", "Ct1Acknowledged"}
  <2>1. out = Sent(s, "None", Nothing)
    BY <1>10 DEF send
  <2>2. \A m : m.kind = "None" => Current(m, s)
    BY <1>10 DEF Current, CtSide
  <2> QED BY <1>3, <2>1, <2>2
<1>11. CASE s.phase \in {"Ct1Sampled", "EkReceivedCt1Sampled"}
  <2>1. out = SendChunk(s, "Ct1", s.ct)
    BY <1>11 DEF send
  <2>2. \A m : m.kind = "Ct1" /\ m.chunk.data = s.ct => Current(m, s)
    BY <1>11 DEF Current, CtSide, WithCt
  <2> QED BY <1>2, <1>11, <2>1, <2>2 DEF HasEncoder
<1>12. CASE s.phase = "Ct2Sampled"
  <2>1. out = SendChunk(s, "Ct2", Ct2Value(s))
    BY <1>12 DEF send
  <2>2. \A m : m.kind = "Ct2" /\ m.chunk.data = Ct2Value(s) => Current(m, s)
    BY <1>12 DEF Current
  <2> QED BY <1>2, <1>12, <2>1, <2>2 DEF HasEncoder
<1> QED
  BY <1>4, <1>5, <1>6, <1>7, <1>8, <1>9, <1>10, <1>11, <1>12 DEF V1State, EkSide, CtSide

-----------------------------------------------------------------------------
(* Receiving. *)

\* A decoder of chunks of one value, with a further one, gives that value.
LEMMA DecoderFacts ==
  ASSUME NEW dec, NEW c, NEW value, DecodesTo(dec, value), c.data = value
  PROVE  DecodesTo(addChunk(dec, c), value) /\ Decoded(addChunk(dec, c)) = value
<1>1. PICK d : d = addChunk(dec, c)
  OBVIOUS
<1>2. DecodesTo(d, value) /\ d # {}
  BY <1>1 DEF addChunk, DecodesTo
<1>3. PICK e \in d : e = (CHOOSE x \in d : TRUE)
  BY <1>2
<1> QED BY <1>1, <1>2, <1>3 DEF Decoded, DecodesTo

\* Within an epoch a party goes through its phases in their order; what it has
\* sent stays true of its state.
LEMMA LaterGenuine ==
  ASSUME NEW s, NEW u, u.epoch = s.epoch, u.auth = s.auth, u.ek = s.ek,
         s.phase \in WithCt => u.ct = s.ct,
         \/ /\ s.phase = "KeysSampled" /\ u.phase = "HeaderSent"
         \/ /\ s.phase = "HeaderSent" /\ u.phase = "Ct1Received"
         \/ /\ s.phase = "Ct1Received" /\ u.phase = "EkSentCt1Received"
         \/ /\ s.phase = "NoHeaderReceived" /\ u.phase = "HeaderReceived"
         \/ /\ s.phase \in {"Ct1Sampled", "Ct1Acknowledged", "EkReceivedCt1Sampled"}
            /\ u.phase \in {"Ct1Acknowledged", "EkReceivedCt1Sampled", "Ct2Sampled"},
         NEW m, Genuine(m, s)
  PROVE  Genuine(m, u)
<1>1. HdrValue(u) = HdrValue(s)
  BY DEF HdrValue
<1>2. Current(m, s) => Current(m, u)
  BY <1>1 DEF Current, EkSide, CtSide, WithCt
<1> QED BY <1>2 DEF Genuine

LEMMA RecvFirstCt1Advance ==
  ASSUME NEW K, NEW s, V1State(s, K), NEW t, V1State(t, K), Paired(s, t),
         s.phase = "KeysSampled", NEW c, c.data = t.ct, t.phase \in WithCt,
         NEW out, out = RecvFirstCt1(s, c)
  PROVE  out.err = "none" /\ Advance(K, s, t, out.state, out.key)
<1>1. PICK u : u = [phase |-> "HeaderSent", epoch |-> s.epoch, auth |-> s.auth, ek |-> s.ek,
                    ct |-> s.ct, sent |-> 0, dec |-> {c}]
  OBVIOUS
<1>2. out = [err |-> "none", state |-> u, key |-> Nothing]
  BY <1>1 DEF RecvFirstCt1, Ignored, V1State, IsRecord
<1>3. V1State(u, K)
  <2>1. IsRecord(u)
    BY <1>1 DEF IsRecord
  <2>2. 0 \in 0 .. (IndexSpace - 1)
    BY ChunkIndex
  <2> QED BY <1>1, <2>1, <2>2 DEF V1State, EkSide, WithEk, WithCt, HasEncoder, HasDecoder
<1>4. t.phase = "Ct1Sampled"
  BY DEF Paired, WithCt
<1>5. Paired(u, t)
  BY <1>1, <1>4 DEF Paired, DecodesTo, EkSide, WithEk, WithCt
<1>6. \A m : Genuine(m, s) => Genuine(m, u)
  BY <1>1, LaterGenuine DEF WithCt
<1> QED BY <1>1, <1>2, <1>3, <1>5, <1>6 DEF Advance, Joined

LEMMA RecvCt1Advance ==
  ASSUME NEW K, NEW s, V1State(s, K), NEW t, V1State(t, K), Paired(s, t),
         s.phase = "HeaderSent", NEW c, c.data = t.ct,
         NEW out, out = RecvCt1(s, c)
  PROVE  out.err = "none" /\ Advance(K, s, t, out.state, out.key)
<1>1. PICK d : d = addChunk(s.dec, c)
  OBVIOUS
<1>2. DecodesTo(s.dec, t.ct) /\ t.phase \in {"Ct1Sampled", "EkReceivedCt1Sampled"}
  BY DEF Paired
<1>3. DecodesTo(d, t.ct) /\ Decoded(d) = t.ct
  BY <1>1, <1>2, DecoderFacts
<1>4. CASE IsDecoded("Ct1", d)
  <2>1. PICK u : u = [phase |-> "Ct1Received", epoch |-> s.epoch, auth |-> s.auth, ek |-> s.ek,
                      ct |-> t.ct, sent |-> s.sent, dec |-> {}]
    OBVIOUS
  <2>2. out = [err |-> "none", state |-> u, key |-> Nothing]
    BY <1>1, <1>3, <1>4, <2>1 DEF RecvCt1, recvCt1, Ignored, V1State, IsRecord
  <2>3. V1State(u, K)
    <3>1. IsRecord(u)
      BY <2>1 DEF IsRecord
    <3>2. t.ct \in Cts(K)
      BY <1>2 DEF V1State, WithCt
    <3> QED BY <2>1, <3>1, <3>2 DEF V1State, EkSide, WithEk, WithCt, HasEncoder, HasDecoder
  <2>4. Paired(u, t)
    BY <1>2, <2>1 DEF Paired, EkSide, WithEk, WithCt
  <2>5. \A m : Genuine(m, s) => Genuine(m, u)
    BY <2>1, LaterGenuine DEF WithCt
  <2> QED BY <2>1, <2>2, <2>3, <2>4, <2>5 DEF Advance, Joined
<1>5. CASE ~IsDecoded("Ct1", d)
  <2>1. PICK u : u = [phase |-> s.phase, epoch |-> s.epoch, auth |-> s.auth, ek |-> s.ek,
                      ct |-> s.ct, sent |-> s.sent, dec |-> d]
    OBVIOUS
  <2>2. out = [err |-> "none", state |-> u, key |-> Nothing]
    BY <1>1, <1>5, <2>1 DEF RecvCt1, Ignored, V1State, IsRecord
  <2>3. V1State(u, K)
    <3>1. IsRecord(u)
      BY <2>1 DEF IsRecord
    <3> QED BY <2>1, <3>1 DEF V1State, HasDecoder
  <2>4. Paired(u, t)
    BY <1>2, <1>3, <2>1 DEF Paired, WithEk, WithCt
  <2>5. \A m : Genuine(m, s) => Genuine(m, u)
    BY <2>1 DEF Genuine, Current, HdrValue, Ct2Value
  <2> QED BY <2>1, <2>2, <2>3, <2>4, <2>5 DEF Advance, Joined
<1> QED BY <1>4, <1>5

LEMMA RecvFirstCt2Advance ==
  ASSUME NEW K, NEW s, V1State(s, K), NEW t, V1State(t, K), Paired(s, t),
         s.phase = "Ct1Received", NEW c, c.data = Ct2Value(t), t.phase = "Ct2Sampled",
         NEW out, out = RecvFirstCt2(s, c)
  PROVE  out.err = "none" /\ Advance(K, s, t, out.state, out.key)
<1>1. PICK u : u = [phase |-> "EkSentCt1Received", epoch |-> s.epoch, auth |-> s.auth,
                    ek |-> s.ek, ct |-> s.ct, sent |-> 0, dec |-> {c}]
  OBVIOUS
<1>2. out = [err |-> "none", state |-> u, key |-> Nothing]
  BY <1>1 DEF RecvFirstCt2, Ignored, V1State, IsRecord
<1>3. V1State(u, K)
  <2>1. IsRecord(u)
    BY <1>1 DEF IsRecord
  <2>2. 0 \in 0 .. (IndexSpace - 1)
    BY ChunkIndex
  <2> QED BY <1>1, <2>1, <2>2 DEF V1State, EkSide, WithEk, WithCt, HasEncoder, HasDecoder
<1>4. Paired(u, t)
  BY <1>1 DEF Paired, DecodesTo, EkSide, WithEk, WithCt
<1>5. \A m : Genuine(m, s) => Genuine(m, u)
  BY <1>1, LaterGenuine
<1> QED BY <1>1, <1>2, <1>3, <1>4, <1>5 DEF Advance, Joined

\* The ciphertext is complete: its MAC verifies, and the secret is the peer's.
LEMMA RecvCt2Advance ==
  ASSUME NEW K, NEW s, V1State(s, K), NEW t, V1State(t, K), Paired(s, t),
         s.phase = "EkSentCt1Received", NEW c, c.data = Ct2Value(t),
         NEW out, out = RecvCt2(s, c)
  PROVE  out.err = "none" /\ Advance(K, s, t, out.state, out.key)
<1>1. PICK d : d = addChunk(s.dec, c)
  OBVIOUS
<1>2. DecodesTo(s.dec, Ct2Value(t)) /\ t.phase = "Ct2Sampled"
  BY DEF Paired
<1>3. DecodesTo(d, Ct2Value(t)) /\ Decoded(d) = Ct2Value(t)
  BY <1>1, <1>2, DecoderFacts
<1>4. CASE IsDecoded("Ct2", d)
  <2>1. PICK key : key = Secret(s.epoch, s.ct)
    OBVIOUS
  <2>2. /\ s.ct = t.ct /\ t.ct.ek = s.ek /\ t.auth = Append(s.auth, key)
        /\ s.epoch = t.epoch /\ Len(s.auth) = s.epoch - 1
    BY <1>2, <2>1 DEF Paired, WithCt
  <2>3. PICK u : u = State("NoHeaderReceived", s.epoch + 1, Append(s.auth, key))
    OBVIOUS
  <2>4. out = [err |-> "none", state |-> u, key |-> key]
    <3>1. out = recvCt2(s, Ct2Value(t))
      BY <1>1, <1>3, <1>4 DEF RecvCt2
    <3>2. Ct2Value(t).ct = t.ct /\ Ct2Value(t).mac = Mac(t.auth, t.epoch, t.ct)
      BY DEF Ct2Value
    <3>3. Ct2Value(t) # Nothing
      BY DEF Ct2Value, Nothing
    <3>4. Decaps(s.ek, s.ct, Ct2Value(t).ct) = s.ct
      BY <2>2, <3>2 DEF Decaps
    <3>5. Ct2Value(t).mac = Mac(Append(s.auth, key), s.epoch, s.ct)
      BY <2>2, <3>2
    <3> QED BY <2>1, <2>3, <3>1, <3>3, <3>4, <3>5, Zenon DEF recvCt2, Update
  <2>5. u = [phase |-> "NoHeaderReceived", epoch |-> s.epoch + 1, auth |-> Append(s.auth, key),
             ek |-> Nothing, ct |-> Nothing, sent |-> 0, dec |-> {}]
    BY <2>3 DEF State
  <2>6. key \in Secrets(K) /\ key # Nothing /\ key.epoch = s.epoch
    BY <2>1 DEF Secret, Secrets, Nothing, V1State, WithCt
  <2>7. s.epoch \in Nat \ {0} /\ s.auth \in Seq(Secrets(K))
    BY DEF V1State
  <2>8. V1State(u, K)
    <3>1. IsRecord(u)
      BY <2>5 DEF IsRecord
    <3>2. 0 \in 0 .. (IndexSpace - 1)
      BY ChunkIndex
    <3>3. Append(s.auth, key) \in Seq(Secrets(K))
      BY <2>6, <2>7
    <3>4. s.epoch + 1 \in Nat \ {0}
      BY <2>7
    <3> QED BY <2>5, <3>1, <3>2, <3>3, <3>4 DEF V1State, CtSide, WithEk, WithCt, HasDecoder
  <2>9. Ahead(u, t)
    <3>1. Len(Append(s.auth, key)) = t.epoch
      BY <2>2, <2>6, <2>7
    <3> QED BY <1>2, <2>2, <2>5, <3>1 DEF Ahead
  <2>10. \A m : Genuine(m, s) => Genuine(m, u)
    BY <2>5, <2>7 DEF Genuine
  <2>11. key.epoch = Len(s.auth) + 1
    BY <2>2, <2>6, <2>7
  <2>12. u.auth = Append(s.auth, key) /\ t.auth = u.auth
    BY <2>2, <2>5
  <2>13. Advance(K, s, t, u, key)
    BY <2>6, <2>8, <2>9, <2>10, <2>11, <2>12, Zenon DEF Advance, Joined
  <2> QED BY <2>4, <2>13
<1>5. CASE ~IsDecoded("Ct2", d)
  <2>1. PICK u : u = [phase |-> s.phase, epoch |-> s.epoch, auth |-> s.auth, ek |-> s.ek,
                      ct |-> s.ct, sent |-> s.sent, dec |-> d]
    OBVIOUS
  <2>2. out = [err |-> "none", state |-> u, key |-> Nothing]
    BY <1>1, <1>5, <2>1 DEF RecvCt2, Ignored, V1State, IsRecord
  <2>3. V1State(u, K)
    <3>1. IsRecord(u)
      BY <2>1 DEF IsRecord
    <3> QED BY <2>1, <3>1 DEF V1State, HasDecoder
  <2>4. Paired(u, t)
    BY <1>2, <1>3, <2>1 DEF Paired, WithEk, WithCt
  <2>5. \A m : Genuine(m, s) => Genuine(m, u)
    BY <2>1 DEF Genuine, Current, HdrValue, Ct2Value
  <2> QED BY <2>1, <2>2, <2>3, <2>4, <2>5 DEF Advance, Joined
<1> QED BY <1>4, <1>5

\* The header is complete: its MAC verifies with the receiver's authenticator.
LEMMA RecvHdrAdvance ==
  ASSUME NEW K, NEW s, V1State(s, K), NEW t, V1State(t, K), Paired(t, s),
         s.phase = "NoHeaderReceived", NEW c, c.data = HdrValue(t),
         t.phase # "KeysUnsampled", NEW out, out = RecvHdr(s, c)
  PROVE  out.err = "none" /\ Advance(K, s, t, out.state, out.key)
<1>1. PICK d : d = addChunk(s.dec, c)
  OBVIOUS
<1>2. /\ DecodesTo(s.dec, HdrValue(t)) /\ t.phase = "KeysSampled"
      /\ s.auth = t.auth /\ s.epoch = t.epoch
  BY DEF Paired, EkSide, WithCt
<1>3. DecodesTo(d, HdrValue(t)) /\ Decoded(d) = HdrValue(t)
  BY <1>1, <1>2, DecoderFacts
<1>4. CASE IsDecoded("Hdr", d)
  <2>1. PICK u : u = [phase |-> "HeaderReceived", epoch |-> s.epoch, auth |-> s.auth,
                      ek |-> t.ek, ct |-> s.ct, sent |-> s.sent, dec |-> {}]
    OBVIOUS
  <2>2. out = [err |-> "none", state |-> u, key |-> Nothing]
    <3>1. out = recvHeader(s, HdrValue(t))
      BY <1>1, <1>3, <1>4 DEF RecvHdr
    <3>2. HdrValue(t).ek = t.ek /\ HdrValue(t).mac = Mac(s.auth, s.epoch, t.ek)
      BY <1>2 DEF HdrValue
    <3>3. HdrValue(t) # Nothing
      BY DEF HdrValue, Nothing
    <3>4. PICK v : v = [s EXCEPT !.phase = "HeaderReceived", !.ek = t.ek, !.dec = {}]
      OBVIOUS
    <3>5. v = u
      <4>1. IsRecord(s)
        BY DEF V1State
      <4>2. v = [phase |-> "HeaderReceived", epoch |-> s.epoch, auth |-> s.auth,
                 ek |-> t.ek, ct |-> s.ct, sent |-> s.sent, dec |-> {}]
        BY <3>4, <4>1 DEF IsRecord
      <4> QED BY <2>1, <4>2
    <3> QED BY <3>1, <3>2, <3>3, <3>4, <3>5 DEF recvHeader, Ignored
  <2>3. V1State(u, K)
    <3>1. IsRecord(u)
      BY <2>1 DEF IsRecord
    <3>2. t.ek \in K /\ s.sent = 0
      BY <1>2 DEF V1State, WithEk, HasEncoder
    <3> QED BY <2>1, <3>1, <3>2 DEF V1State, CtSide, WithEk, WithCt, HasEncoder, HasDecoder
  <2>4. Paired(t, u)
    BY <1>2, <2>1 DEF Paired, CtSide, WithEk, WithCt
  <2>5. \A m : Genuine(m, s) => Genuine(m, u)
    <3> SUFFICES ASSUME NEW m, Genuine(m, s) PROVE Genuine(m, u)
      OBVIOUS
    <3>1. Current(m, s) => Current(m, u)
      BY <2>1 DEF Current, EkSide, CtSide, WithCt
    <3> QED BY <2>1, <3>1 DEF Genuine
  <2> QED BY <2>1, <2>2, <2>3, <2>4, <2>5 DEF Advance, Joined
<1>5. CASE ~IsDecoded("Hdr", d)
  <2>1. PICK u : u = [phase |-> s.phase, epoch |-> s.epoch, auth |-> s.auth, ek |-> s.ek,
                      ct |-> s.ct, sent |-> s.sent, dec |-> d]
    OBVIOUS
  <2>2. out = [err |-> "none", state |-> u, key |-> Nothing]
    BY <1>1, <1>5, <2>1 DEF RecvHdr, Ignored, V1State, IsRecord
  <2>3. V1State(u, K)
    <3>1. IsRecord(u)
      BY <2>1 DEF IsRecord
    <3> QED BY <2>1, <3>1 DEF V1State, HasDecoder
  <2>4. Paired(t, u)
    BY <1>2, <1>3, <2>1 DEF Paired, WithEk, WithCt
  <2>5. \A m : Genuine(m, s) => Genuine(m, u)
    BY <2>1 DEF Genuine, Current, HdrValue, Ct2Value
  <2> QED BY <2>1, <2>2, <2>3, <2>4, <2>5 DEF Advance, Joined
<1> QED BY <1>4, <1>5

\* A step of the party that sends the ciphertext, within the epoch and after it
\* has the ciphertext: only the phase, the encoder and the decoder change.
LEMMA CtPhaseAdvance ==
  ASSUME NEW K, NEW s, V1State(s, K), NEW t, V1State(t, K), Paired(t, s),
         s.phase \in {"Ct1Sampled", "Ct1Acknowledged", "EkReceivedCt1Sampled"},
         NEW u, IsRecord(u), u.epoch = s.epoch, u.auth = s.auth, u.ek = s.ek, u.ct = s.ct,
         \/ u.phase = s.phase /\ u.sent = s.sent /\ DecodesTo(u.dec, t.ek)
            /\ s.phase # "EkReceivedCt1Sampled"
         \/ u.phase = "Ct1Acknowledged" /\ u.sent = 0 /\ DecodesTo(u.dec, t.ek)
            /\ s.phase # "EkReceivedCt1Sampled" /\ t.phase = "Ct1Received"
         \/ u.phase = "EkReceivedCt1Sampled" /\ u.sent = s.sent /\ u.dec = {}
            /\ s.phase = "Ct1Sampled" /\ t.phase \in {"HeaderSent", "Ct1Received"}
         \/ u.phase = "Ct2Sampled" /\ u.sent = 0 /\ u.dec = {} /\ t.phase = "Ct1Received"
  PROVE  Advance(K, s, t, u, Nothing)
<1>1. V1State(u, K)
  <2>1. 0 \in 0 .. (IndexSpace - 1)
    BY ChunkIndex
  <2> QED BY <2>1 DEF V1State, CtSide, WithEk, WithCt, HasEncoder, HasDecoder
<1>2. Paired(t, u)
  BY DEF Paired, CtSide, WithEk, WithCt
<1>3. \A m : Genuine(m, s) => Genuine(m, u)
  <2> SUFFICES ASSUME NEW m, Genuine(m, s) PROVE Genuine(m, u)
    OBVIOUS
  <2>1. Current(m, s) => Current(m, u)
    BY DEF Current, EkSide, CtSide, WithCt
  <2> QED BY <2>1 DEF Genuine
<1> QED BY <1>1, <1>2, <1>3 DEF Advance, Joined

\* recvEk compares the encapsulation key with the header: it is the same.
LEMMA RecvEkAdvance ==
  ASSUME NEW K, NEW s, V1State(s, K), NEW t, V1State(t, K), Paired(t, s),
         s.phase \in {"Ct1Sampled", "Ct1Acknowledged"}, NEW c, c.data = t.ek,
         NEW acked \in BOOLEAN, s.phase = "Ct1Acknowledged" => acked,
         t.phase \in {"HeaderSent", "Ct1Received"}, acked => t.phase = "Ct1Received",
         NEW out, out = RecvEk(s, c, acked)
  PROVE  out.err = "none" /\ Advance(K, s, t, out.state, out.key)
<1>1. PICK d : d = addChunk(s.dec, c)
  OBVIOUS
<1>2. DecodesTo(s.dec, t.ek) /\ s.ek = t.ek
  BY DEF Paired, WithEk
<1>3. DecodesTo(d, t.ek) /\ Decoded(d) = s.ek
  BY <1>1, <1>2, DecoderFacts
<1> DEFINE W(phase, sent, dec) ==
             [phase |-> phase, epoch |-> s.epoch, auth |-> s.auth, ek |-> s.ek,
              ct |-> s.ct, sent |-> sent, dec |-> dec]
<1>4. \A phase, sent, dec : IsRecord(W(phase, sent, dec))
  BY DEF IsRecord
<1>r. IsRecord(s)
  BY DEF V1State
<1>5. CASE ~IsDecoded("Ek", d) /\ acked
  <2>1. out = Ignored(W("Ct1Acknowledged", 0, d))
    <3>1. PICK v : v = [s EXCEPT !.phase = "Ct1Acknowledged", !.sent = 0, !.dec = d]
      OBVIOUS
    <3>2. v = W("Ct1Acknowledged", 0, d)
      BY <1>r, <3>1 DEF IsRecord
    <3> HIDE DEF W
    <3> QED BY <1>1, <1>5, <3>1, <3>2 DEF RecvEk
  <2>2. Advance(K, s, t, W("Ct1Acknowledged", 0, d), Nothing)
    BY <1>3, <1>4, <1>5, CtPhaseAdvance
  <2> QED BY <2>1, <2>2 DEF Ignored
<1>6. CASE ~IsDecoded("Ek", d) /\ ~acked
  <2>1. out = Ignored(W(s.phase, s.sent, d))
    BY <1>1, <1>6 DEF RecvEk, V1State, IsRecord
  <2>2. Advance(K, s, t, W(s.phase, s.sent, d), Nothing)
    BY <1>3, <1>4, <1>6, CtPhaseAdvance
  <2> QED BY <2>1, <2>2 DEF Ignored
<1>7. CASE IsDecoded("Ek", d) /\ acked
  <2>1. out = Ignored(W("Ct2Sampled", 0, {}))
    <3>1. PICK v : v = [s EXCEPT !.phase = "Ct2Sampled", !.sent = 0, !.dec = {}]
      OBVIOUS
    <3>2. v = W("Ct2Sampled", 0, {})
      BY <1>r, <3>1 DEF IsRecord
    <3> HIDE DEF W
    <3> QED BY <1>1, <1>3, <1>7, <3>1, <3>2 DEF RecvEk, recvEk
  <2>2. Advance(K, s, t, W("Ct2Sampled", 0, {}), Nothing)
    BY <1>4, <1>7, CtPhaseAdvance
  <2> QED BY <2>1, <2>2 DEF Ignored
<1>8. CASE IsDecoded("Ek", d) /\ ~acked
  <2>1. out = Ignored(W("EkReceivedCt1Sampled", s.sent, {}))
    <3>1. PICK v : v = [s EXCEPT !.phase = "EkReceivedCt1Sampled", !.dec = {}]
      OBVIOUS
    <3>2. v = W("EkReceivedCt1Sampled", s.sent, {})
      BY <1>r, <3>1 DEF IsRecord
    <3> HIDE DEF W
    <3> QED BY <1>1, <1>3, <1>8, <3>1, <3>2 DEF RecvEk, recvEk
  <2>2. Advance(K, s, t, W("EkReceivedCt1Sampled", s.sent, {}), Nothing)
    BY <1>4, <1>8, CtPhaseAdvance
  <2> QED BY <2>1, <2>2 DEF Ignored
<1> QED BY <1>5, <1>6, <1>7, <1>8

LEMMA RecvCt1AckAdvance ==
  ASSUME NEW K, NEW s, V1State(s, K), NEW t, V1State(t, K), Paired(t, s),
         s.phase = "EkReceivedCt1Sampled", t.phase = "Ct1Received",
         NEW out, out = RecvCt1Ack(s)
  PROVE  out.err = "none" /\ Advance(K, s, t, out.state, out.key)
<1>1. PICK u : u = [phase |-> "Ct2Sampled", epoch |-> s.epoch, auth |-> s.auth,
                    ek |-> s.ek, ct |-> s.ct, sent |-> 0, dec |-> s.dec]
  OBVIOUS
<1>2. out = [err |-> "none", state |-> u, key |-> Nothing]
  BY <1>1 DEF RecvCt1Ack, Ignored, V1State, IsRecord
<1>3. IsRecord(u) /\ s.dec = {}
  BY <1>1 DEF IsRecord, V1State, HasDecoder
<1>4. Advance(K, s, t, u, Nothing)
  BY <1>1, <1>3, CtPhaseAdvance
<1> QED BY <1>2, <1>4

\* A message of the next epoch makes the roles swap.
LEMMA RecvNextEpochAdvance ==
  ASSUME NEW K, NEW s, V1State(s, K), NEW t, V1State(t, K), Ahead(t, s),
         NEW out, out = RecvNextEpoch(s)
  PROVE  out.err = "none" /\ Advance(K, s, t, out.state, out.key)
<1>1. PICK u : u = [phase |-> "KeysUnsampled", epoch |-> s.epoch + 1, auth |-> s.auth,
                    ek |-> Nothing, ct |-> Nothing, sent |-> 0, dec |-> {}]
  OBVIOUS
<1>2. out = [err |-> "none", state |-> u, key |-> Nothing]
  BY <1>1 DEF RecvNextEpoch, recvNextEpoch, Ignored, State
<1>3. s.epoch \in Nat \ {0}
  BY DEF V1State
<1>4. V1State(u, K)
  <2>1. IsRecord(u)
    BY <1>1 DEF IsRecord
  <2>2. 0 \in 0 .. (IndexSpace - 1)
    BY ChunkIndex
  <2> QED BY <1>1, <1>3, <2>1, <2>2 DEF V1State, EkSide, WithEk, WithCt, HasDecoder
<1>5. Paired(u, t)
  BY <1>1, <1>3 DEF Ahead, Paired, DecodesTo, EkSide, CtSide, WithEk, WithCt
<1>6. \A m : Genuine(m, s) => Genuine(m, u)
  BY <1>1, <1>3 DEF Genuine
<1> QED BY <1>1, <1>2, <1>4, <1>5, <1>6 DEF Advance, Joined

\* Whatever arrives from the peer is accepted and leaves the pair in step.
LEMMA RecvAdvance ==
  ASSUME NEW K, NEW s, V1State(s, K), NEW t, V1State(t, K), Joined(s, t),
         NEW m, Genuine(m, t), NEW out, out = recv(s, m)
  PROVE  out.err = "none" /\ Advance(K, s, t, Stored(out.state), out.key) /\ V1State(out.state, K)
<1>1. SUFFICES out.err = "none" /\ Advance(K, s, t, out.state, out.key)
  <2>1. V1State(out.state, K)
    BY <1>1 DEF Advance
  <2> QED BY <1>1, <2>1, AdvanceStored
<1>2. ASSUME out = Ignored(s)
      PROVE  out.err = "none" /\ Advance(K, s, t, out.state, out.key)
  <2>1. Advance(K, s, t, s, Nothing)
    BY AgreesAdvance DEF Agrees
  <2> QED BY <1>2, <2>1 DEF Ignored
<1>3. /\ s.epoch \in Nat /\ t.epoch \in Nat /\ m.epoch \in Nat /\ m.epoch <= t.epoch
      /\ s.phase \in EkSide \cup CtSide
  BY DEF V1State, Genuine
<1>4. CASE m.epoch < s.epoch
  BY <1>2, <1>3, <1>4 DEF recv
<1>5. CASE m.epoch > s.epoch
  <2>1. Ahead(t, s)
    BY <1>3, <1>5 DEF Joined, Paired, Ahead
  <2>2. s.phase = "Ct2Sampled" /\ m.epoch = s.epoch + 1
    BY <1>3, <1>5, <2>1 DEF Ahead
  <2>3. out = RecvNextEpoch(s)
    BY <1>3, <2>2 DEF recv
  <2> QED BY <2>1, <2>3, RecvNextEpochAdvance
<1>6. CASE m.epoch = s.epoch
  <2>1. out = RecvSameEpoch(s, m)
    BY <1>6 DEF recv
  <2>2. CASE Ahead(t, s)
    <3>1. s.phase = "Ct2Sampled"
      BY <2>2 DEF Ahead
    <3> QED BY <1>2, <2>1, <3>1 DEF RecvSameEpoch
  <2>3. ~Ahead(s, t)
    BY <1>3, <1>6 DEF Ahead
  <2>4. CASE Paired(s, t)
    <3>1. s.phase \in EkSide /\ t.phase \in CtSide /\ Current(m, t)
      BY <1>6, <2>4 DEF Paired, Genuine
    <3>2. /\ m.kind = "Ct1" => t.phase \in WithCt /\ m.chunk.data = t.ct
          /\ m.kind = "Ct2" => t.phase = "Ct2Sampled" /\ m.chunk.data = Ct2Value(t)
          /\ m.kind \in {"None", "Ct1", "Ct2"}
      BY <3>1 DEF Current, EkSide, CtSide
    <3>3. CASE s.phase = "KeysSampled" /\ m.kind = "Ct1"
      <4>1. out = RecvFirstCt1(s, m.chunk)
        BY <2>1, <3>3 DEF RecvSameEpoch
      <4> QED BY <2>4, <3>2, <3>3, <4>1, RecvFirstCt1Advance
    <3>4. CASE s.phase = "HeaderSent" /\ m.kind = "Ct1"
      <4>1. out = RecvCt1(s, m.chunk)
        BY <2>1, <3>4 DEF RecvSameEpoch
      <4> QED BY <2>4, <3>2, <3>4, <4>1, RecvCt1Advance
    <3>5. CASE s.phase = "Ct1Received" /\ m.kind = "Ct2"
      <4>1. out = RecvFirstCt2(s, m.chunk)
        BY <2>1, <3>5 DEF RecvSameEpoch
      <4> QED BY <2>4, <3>2, <3>5, <4>1, RecvFirstCt2Advance
    <3>6. CASE s.phase = "EkSentCt1Received" /\ m.kind = "Ct2"
      <4>1. out = RecvCt2(s, m.chunk)
        BY <2>1, <3>6 DEF RecvSameEpoch
      <4> QED BY <2>4, <3>2, <3>6, <4>1, RecvCt2Advance
    <3>7. CASE /\ ~(s.phase \in {"KeysSampled", "HeaderSent"} /\ m.kind = "Ct1")
               /\ ~(s.phase \in {"Ct1Received", "EkSentCt1Received"} /\ m.kind = "Ct2")
      <4>1. out = Ignored(s)
        BY <2>1, <3>1, <3>7 DEF RecvSameEpoch, EkSide
      <4> QED BY <1>2, <4>1
    <3> QED BY <3>3, <3>4, <3>5, <3>6, <3>7
  <2>5. CASE Paired(t, s)
    <3>1. t.phase \in EkSide /\ s.phase \in CtSide /\ Current(m, t)
      BY <1>6, <2>5 DEF Paired, Genuine
    <3>2. /\ m.kind = "Hdr" => t.phase # "KeysUnsampled" /\ m.chunk.data = HdrValue(t)
          /\ m.kind \in {"Ek", "EkCt1Ack"} =>
               /\ m.chunk.data = t.ek
               /\ t.phase \in {"HeaderSent", "Ct1Received", "EkSentCt1Received"}
          /\ m.kind \in {"EkCt1Ack", "Ct1Ack"} => t.phase \in {"Ct1Received", "EkSentCt1Received"}
          /\ m.kind \in {"Hdr", "Ek", "EkCt1Ack", "Ct1Ack"}
      BY <3>1 DEF Current, EkSide, CtSide
    <3>3. t.phase = "EkSentCt1Received" => s.phase = "Ct2Sampled"
      BY <2>5 DEF Paired
    <3>4. CASE s.phase = "NoHeaderReceived" /\ m.kind = "Hdr"
      <4>1. out = RecvHdr(s, m.chunk)
        BY <2>1, <3>4 DEF RecvSameEpoch
      <4> QED BY <2>5, <3>2, <3>4, <4>1, RecvHdrAdvance
    <3>5. CASE s.phase \in {"Ct1Sampled", "Ct1Acknowledged"} /\ m.kind \in {"Ek", "EkCt1Ack"}
      <4>1. PICK acked \in BOOLEAN : acked <=> (s.phase = "Ct1Acknowledged" \/ m.kind = "EkCt1Ack")
        OBVIOUS
      <4>2. out = RecvEk(s, m.chunk, acked)
        BY <2>1, <3>5, <4>1 DEF RecvSameEpoch
      <4>3. t.phase \in {"HeaderSent", "Ct1Received"} /\ (acked => t.phase = "Ct1Received")
        BY <2>5, <3>2, <3>3, <3>5, <4>1 DEF Paired
      <4> QED BY <2>5, <3>2, <3>5, <4>1, <4>2, <4>3, RecvEkAdvance
    <3>6. CASE s.phase = "EkReceivedCt1Sampled" /\ m.kind \in {"Ct1Ack", "EkCt1Ack"}
      <4>1. out = RecvCt1Ack(s)
        BY <2>1, <3>6 DEF RecvSameEpoch
      <4>2. t.phase = "Ct1Received"
        BY <3>2, <3>3, <3>6
      <4> QED BY <2>5, <3>6, <4>1, <4>2, RecvCt1AckAdvance
    <3>7. CASE /\ ~(s.phase = "NoHeaderReceived" /\ m.kind = "Hdr")
               /\ ~(s.phase \in {"Ct1Sampled", "Ct1Acknowledged"} /\ m.kind \in {"Ek", "EkCt1Ack"})
               /\ ~(s.phase = "EkReceivedCt1Sampled" /\ m.kind \in {"Ct1Ack", "EkCt1Ack"})
      <4>1. out = Ignored(s)
        BY <2>1, <3>1, <3>7 DEF RecvSameEpoch, CtSide
      <4> QED BY <1>2, <4>1
    <3> QED BY <3>4, <3>5, <3>6, <3>7
  <2> QED BY <2>2, <2>3, <2>4, <2>5 DEF Joined
<1> QED BY <1>3, <1>4, <1>5, <1>6

-----------------------------------------------------------------------------
(* Consequences. *)

LEMMA JoinedSymmetric ==
  ASSUME NEW s, NEW t, Joined(s, t)
  PROVE  Joined(t, s)
BY DEF Joined

\* The two initial states fit together.
LEMMA InitJoined ==
  ASSUME NEW K
  PROVE  V1State(initV1StateA, K) /\ V1State(initV1StateB, K) /\ Joined(initV1StateA, initV1StateB)
<1>1. PICK a, b : a = initV1StateA /\ b = initV1StateB
  OBVIOUS
<1>2. /\ a = [phase |-> "KeysUnsampled", epoch |-> 1, auth |-> << >>, ek |-> Nothing,
              ct |-> Nothing, sent |-> 0, dec |-> {}]
      /\ b = [phase |-> "NoHeaderReceived", epoch |-> 1, auth |-> << >>, ek |-> Nothing,
              ct |-> Nothing, sent |-> 0, dec |-> {}]
  BY <1>1 DEF initV1StateA, initV1StateB, State, newAuthenticator
<1>3. << >> \in Seq(Secrets(K)) /\ Len(<< >>) = 0
  OBVIOUS
<1>4. 0 \in 0 .. (IndexSpace - 1)
  BY ChunkIndex
<1>5. IsRecord(a) /\ IsRecord(b)
  BY <1>2 DEF IsRecord
<1>6. V1State(a, K)
  BY <1>2, <1>3, <1>4, <1>5 DEF V1State, EkSide, WithEk, WithCt, HasDecoder
<1>7. V1State(b, K)
  BY <1>2, <1>3, <1>4, <1>5 DEF V1State, CtSide, WithEk, WithCt, HasDecoder
<1>8. Paired(a, b)
  BY <1>2, <1>3 DEF Paired, DecodesTo, EkSide, CtSide, WithEk, WithCt
<1> QED BY <1>1, <1>6, <1>7, <1>8 DEF Joined

\* A party has the secrets of all epochs before the one its peer is in.
LEMMA SecretsKnown ==
  ASSUME NEW K, NEW s, V1State(s, K), NEW t, V1State(t, K), Joined(s, t)
  PROVE  t.epoch <= Len(s.auth) + 1
<1>1. /\ s.epoch \in Nat /\ t.epoch \in Nat /\ s.auth \in Seq(Secrets(K))
      /\ t.auth \in Seq(Secrets(K)) /\ Len(s.auth) \in Nat /\ Len(t.auth) \in Nat
  BY DEF V1State
<1>2. CASE Paired(s, t)
  BY <1>1, <1>2 DEF Paired
<1>3. CASE Paired(t, s)
  <2>1. CASE s.phase \in WithCt
    <3>1. PICK key : key = Secret(t.epoch, s.ct)
      OBVIOUS
    <3>2. s.auth = Append(t.auth, key) /\ Len(t.auth) = t.epoch - 1
      BY <1>3, <2>1, <3>1 DEF Paired
    <3>3. Len(s.auth) = Len(t.auth) + 1
      BY <1>1, <3>2
    <3> QED BY <1>1, <3>2, <3>3
  <2>2. CASE s.phase \notin WithCt
    BY <1>1, <1>3, <2>2 DEF Paired
  <2> QED BY <2>1, <2>2
<1>4. CASE Ahead(s, t) \/ Ahead(t, s)
  BY <1>1, <1>4 DEF Ahead
<1> QED BY <1>2, <1>3, <1>4 DEF Joined
=============================================================================
