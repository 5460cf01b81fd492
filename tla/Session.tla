------------------------------- MODULE Session -------------------------------
(***************************************************************************)
(* Sessions between two devices (packages session and x3dh): WireCipher,   *)
(* the Builder that runs X3DH, the Record of a current session and a       *)
(* bounded archive, and the parts of the store they use.  Both parties may *)
(* start sessions, also at the same time; messages may be lost,            *)
(* duplicated, reordered and damaged; store calls may fail half way.       *)
(*                                                                         *)
(* X3DH is symbolic: a key is <<owner, kind, index>>, a DH output the set  *)
(* of two keys, the agreed secret the sequence of its inputs.  A session's *)
(* ratchet is reduced to what module DoubleRatchet shows of it: both ends  *)
(* number the chains they send, a message of a chain older than the newest *)
(* one received, or received before, is a duplicate, one of another        *)
(* session fails its MAC, and one that is too far ahead of what was        *)
(* received is refused (MaxSkip).                                          *)
(*                                                                         *)
(* An operation loads the record and stores it last; operations on one     *)
(* address are serialised by the caller: the package takes no lock.        *)
(*                                                                         *)
(* What a ciphertext is parsed to depends on nothing but its bytes, so the *)
(* model parses it once, when it is sent.  A party may use another         *)
(* implementation of the wire formats.                                     *)
(***************************************************************************)
EXTENDS WireMessages

CONSTANTS
  Alice, Bob,
  Stranger,      \* whose identity key a damaged message may carry
  MaxArchived,   \* DefaultMaxArchivedSessions
  MaxSkip,       \* keys of messages not yet received that a session keeps
  OneTime,       \* ids of the one-time pre-keys each party has generated
  Kyber,         \* whether bundles have a Kyber pre-key: a subset of BOOLEAN
  WithoutOneTime, \* whether a bundle may lack a one-time pre-key
  Deleters,      \* the parties whose application deletes sessions
  Damages,       \* the parties that receive damaged messages too
  Interrupts,    \* the parties whose store calls may fail
  OtherEncoders, \* the parties that write the fields of a message in another order
  Expires,       \* the parties whose signed pre-key may expire
  MaxSessions,   \* bound: sessions that one party ever starts, as either role
  MaxSent        \* bound: messages that are ever sent

ASSUME SessionAssumption ==
  /\ Cardinality({Alice, Bob, Stranger}) = 3
  /\ MaxArchived \in Nat \ {0}
  /\ MaxSkip \in Nat
  /\ OneTime \subseteq Nat \ {0}
  /\ Kyber \subseteq BOOLEAN
  /\ WithoutOneTime \in BOOLEAN
  /\ Deleters \cup Damages \cup Interrupts \cup Expires \cup OtherEncoders \subseteq {Alice, Bob}
  /\ MaxSessions \in Nat
  /\ MaxSent \in Nat

VARIABLES
  rec,        \* rec[p]: the stored Record; its head is the current session, the rest the archive
  trusted,    \* trusted[p]: the identity key stored for the peer, NoKey before first use
  preKeys,    \* preKeys[p]: ids of the one-time pre-keys in p's store
  published,  \* published[p]: the one-time pre-keys of p that the server has not handed out
  expired,    \* expired[p]: the signed pre-key of p has expired
  started,    \* started[p]: sessions started by p so far; it numbers p's ephemeral keys
  net,        \* every message ever sent; it may arrive at any time, any number of times
  delivered,  \* delivered[p]: the messages p has decrypted (history)
  plaintexts  \* plaintexts[p]: how many plaintexts Decrypt has returned to p (history)

vars == <<rec, trusted, preKeys, published, expired, started, net, delivered, plaintexts>>

Party == {Alice, Bob}
Peer(p) == IF p = Alice THEN Bob ELSE Alice

-----------------------------------------------------------------------------
(* Keys, bundles and X3DH.  The id 0 stands for a nil pre-key id. *)

IdentityKey(p) == <<p, "identity", 0>>
SignedPreKey(p) == <<p, "signed", 1>>
PreKey(p, id) == <<p, "onetime", id>>
EphemeralKey(p, k) == <<p, "ephemeral", k>>
SignedPreKeyID == 1
KyberPreKeyID == 1
NoKey == << >>

DH(k1, k2) == {k1, k2}

\* The Kyber part of an agreement: a ciphertext for the responder's Kyber pre-key, if it has one.
KyberPreKey == {IF k THEN <<"ciphertext">> ELSE Nothing : k \in Kyber}

\* The one-time pre-key the server puts into the next bundle of q.
NextOneTime(q) ==
  {k \in published[q] : \A j \in published[q] : k <= j}
    \cup (IF WithoutOneTime THEN {0} ELSE {})

\* What arrives as a bundle of q: as BuildPreKeyBundle made it, or with another
\* identity key than the one that signed the pre-keys.
Bundles(q) ==
  [identity : {IdentityKey(q), IdentityKey(Stranger)}, signed : {SignedPreKey(q)},
   preKey : NextOneTime(q), kyber : KyberPreKey]

\* The signatures in the bundle verify under its identity key.
Validate(b) == b.signed = SignedPreKey(b.identity[1])

\* The derivation depends on all inputs and on whether there is a Kyber secret.
DeriveSecret(dhs, kyber) == Append(dhs, kyber)

\* The secret of the initiator, who encapsulates for the Kyber key.
InitiatorSecret(p, q, e, b) ==
  DeriveSecret(<<DH(IdentityKey(p), b.signed), DH(e, b.identity), DH(e, b.signed),
                 IF b.preKey = 0 THEN {} ELSE DH(e, PreKey(q, b.preKey))>>, b.kyber)

\* The x3dh.Message of the initiator.
InitialMessage(p, e, b) ==
  [identity |-> IdentityKey(p), ephemeral |-> e, preKeyID |-> b.preKey,
   signedPreKeyID |-> SignedPreKeyID,
   kyberPreKeyID |-> IF b.kyber = Nothing THEN 0 ELSE KyberPreKeyID, kyberCiphertext |-> b.kyber]

NoInitial == [identity |-> NoKey, ephemeral |-> NoKey, preKeyID |-> 0, signedPreKeyID |-> 0,
              kyberPreKeyID |-> 0, kyberCiphertext |-> Nothing]

\* The secret of the responder q, from the fields of the message.
ResponderSecret(q, x) ==
  DeriveSecret(<<DH(SignedPreKey(q), x.identity), DH(IdentityKey(q), x.ephemeral),
                 DH(SignedPreKey(q), x.ephemeral),
                 IF x.preKeyID = 0 THEN {} ELSE DH(PreKey(q, x.preKeyID), x.ephemeral)>>,
               x.kyberCiphertext)

ciphertextVersionFromX3DH(x) ==
  IF x.kyberPreKeyID # 0 \/ x.kyberCiphertext # Nothing THEN CiphertextMessageCurrentVersion
  ELSE CiphertextMessagePreKyberVersion

-----------------------------------------------------------------------------
(* A session.  line names the responder's end, which draws a fresh ratchet *)
(* key: an initiator accepts any line until it has heard of one.           *)
(*   sends, Ns, PN  the chain it sends, the messages of it, and of the     *)
(*                  chain before                                           *)
(*   receives, Nr   the newest chain it receives, and the next number of it*)
(*   got            the numbers of that chain it has decrypted: the keys of*)
(*                  the others below Nr are in MKSkipped                   *)

NewSession(role, p, remote, secret, line, x) ==
  [role |-> role, version |-> ciphertextVersionFromX3DH(x), local |-> IdentityKey(p),
   remote |-> remote, secret |-> secret, line |-> line,
   sends |-> IF role = "initiator" THEN 1 ELSE 0, Ns |-> 0, PN |-> 0,
   receives |-> 0, Nr |-> 0, got |-> {}]

\* The keys of a message: of its session, its chain and its number.
MessageKey(secret, ratchetKey, n) == [secret |-> secret, ratchetKey |-> ratchetKey, N |-> n]

\* The fields as p's implementation writes them.
Fields(p, fields) == IF p \in OtherEncoders THEN Foreign(fields) ELSE fields

\* encryptSignalMessage.  The PQ ratchet is module Spqr.
SignalMessage(p, s) ==
  LET ratchetKey == <<s.line, s.sends>>
      key        == MessageKey(s.secret, ratchetKey, s.Ns)
  IN  NewSignalMessage(s.version, key, s.local, s.remote,
        Fields(p, encodeSignalMessageBody(ratchetKey, s.Ns, s.PN, <<"ciphertext">>, Nothing)))

PreKeySignalMessage(p, s, x) ==
  NewPreKeySignalMessage(s.version, Fields(p, encodePreKeySignalMessageBody(x, 1, SignalMessage(p, s))))

\* Decrypt's first step: what a ciphertext of p is taken for.
Parsed(p, data) ==
  LET signal == ParseSignalMessage(data)
      preKey == ParsePreKeySignalMessage(data)
  IN  IF signal # Nothing THEN [from |-> p, initial |-> NoInitial, message |-> signal]
      ELSE [from |-> p, initial |-> preKey.initial, message |-> preKey.message]

\* The message that p's session s encrypts next; x is its X3DH part.
NextMessage(p, s, x) ==
  Parsed(p, IF x = NoInitial THEN SignalMessage(p, s) ELSE PreKeySignalMessage(p, s, x))

Line(m) == m.message.ratchetKey[1]
Chain(m) == m.message.ratchetKey[2]

Advanced(s) == [s EXCEPT !.Ns = @ + 1]

\* The header fits s, and the MAC verifies with the keys s has for it.
Authenticates(s, m) ==
  /\ s.line = Line(m) \/ (IF s.role = "initiator" THEN s.line ELSE Line(m)) = NoKey
  /\ VerifyMAC(m.message, s.remote, s.local,
                MessageKey(s.secret, m.message.ratchetKey, m.message.counter))

\* The numbers below n of the newest received chain that s has not decrypted.
Missing(s, n) == (0 .. n - 1) \ s.got

\* skipMessageKeys(until) with stored keys in MKSkipped and the chain at nr.
CanSkip(stored, nr, until) == until <= nr \/ stored + (until - nr) <= MaxSkip

\* A new chain first skips the rest of the old one, whose keys are then dropped.
SkipsTo(s, m) ==
  LET stored == Cardinality(Missing(s, s.Nr))
  IN  IF Chain(m) = s.receives THEN CanSkip(stored, s.Nr, m.message.counter)
      ELSE CanSkip(stored, s.Nr, m.message.previousCounter) /\ CanSkip(0, 0, m.message.counter)

\* The error of decryptSignalWithSession.
Verdict(s, m) ==
  IF s.version # m.message.version \/ ~Authenticates(s, m) THEN "invalid"
  ELSE IF Chain(m) < s.receives \/ (Chain(m) = s.receives /\ m.message.counter \in s.got)
       THEN "duplicate"
  ELSE IF ~SkipsTo(s, m) THEN "invalid" ELSE "none"

\* The session after m was decrypted: a new chain of the peer starts one of ours.
Opened(s, m) ==
  LET same == Chain(m) = s.receives
  IN  [s EXCEPT !.line = IF s.role = "initiator" THEN Line(m) ELSE @,
                !.receives = Chain(m),
                !.got = IF same THEN @ \cup {m.message.counter} ELSE {m.message.counter},
                !.Nr = IF same /\ m.message.counter < @ THEN @ ELSE m.message.counter + 1,
                !.sends = IF same THEN @ ELSE @ + 1,
                !.PN = IF same THEN @ ELSE s.Ns,
                !.Ns = IF same THEN @ ELSE 0]

-----------------------------------------------------------------------------
(* The record. *)

NewRecord(s) == <<s>>
Current(r) == r[1]

\* Mutant: one more than fits is kept.
Prefix_oneMore(seq, n) == SubSeq(seq, 1, IF Len(seq) < n + 1 THEN Len(seq) ELSE n + 1)

Prefix(seq, n) == SubSeq(seq, 1, IF Len(seq) < n THEN Len(seq) ELSE n)

\* Mutant: a new record replaces the old one.
Promote_newRecord(r, next) == <<next>>

\* Promote for a session that is not in the archive.
Promote(r, next) == Prefix(<<next>> \o r, MaxArchived + 1)

Without(r, i) == SubSeq(r, 1, i - 1) \o SubSeq(r, i + 1, Len(r))

\* The session that decides about m: the first whose error is nil or ErrDuplicateMessage.
Deciding(r, m) ==
  LET answering == {i \in 1 .. Len(r) : Verdict(r[i], m) # "invalid"}
  IN  {i \in answering : \A j \in answering : i <= j}

\* decryptSignalMessage with session i of r: an archived session becomes current.
OpenedRecord(r, i, m) ==
  IF i = 1 THEN [r EXCEPT ![1] = Opened(@, m)]
  ELSE Promote(Without(r, i), Opened(r[i], m))

serializeSession(s) ==
  <<s.version, s.local, s.remote,
    <<s.role, s.secret, s.line, s.sends, s.Ns, s.PN, s.receives, s.Nr, s.got>>>>

deserializeSession(data) ==
  LET state == data[4]
  IN  [version |-> data[1], local |-> data[2], remote |-> data[3],
       role |-> state[1], secret |-> state[2], line |-> state[3], sends |-> state[4],
       Ns |-> state[5], PN |-> state[6], receives |-> state[7], Nr |-> state[8], got |-> state[9]]

\* The current session is written first; the archive is truncated once more.
Serialize(r) ==
  LET archived == Prefix(SubSeq(r, 2, Len(r)), MaxArchived)
  IN  <<serializeSession(Current(r)),
        [i \in 1 .. Len(archived) |-> serializeSession(archived[i])]>>

DeserializeRecord(data) ==
  <<deserializeSession(data[1])>> \o
  [i \in 1 .. Len(data[2]) |-> deserializeSession(data[2][i])]

\* persistRecord, and loadRecordOptional of the next call.
Persisted(r) == DeserializeRecord(Serialize(r))

-----------------------------------------------------------------------------
(* Decrypt: what one call leaves in the store of p, and whether it returns *)
(* a plaintext.                                                            *)

Kept(p) == [rec |-> rec[p], preKeys |-> preKeys[p], trusted |-> trusted[p],
            started |-> started[p], plaintext |-> FALSE]

IsTrustedIdentity(p, key) == trusted[p] \in {NoKey, key}

\* Mutant: the identity of the message is not compared with the stored one.
Acceptable_anyIdentity(p, x) ==
  x.signedPreKeyID = SignedPreKeyID /\ ~expired[p] /\ x.preKeyID \in preKeys[p] \cup {0}

\* The checks ProcessPreKeyMessage makes before the store is written.
Acceptable(p, x) ==
  /\ IsTrustedIdentity(p, x.identity)
  /\ x.signedPreKeyID = SignedPreKeyID
  /\ ~expired[p]
  /\ x.preKeyID \in preKeys[p] \cup {0}

\* Mutant: the one-time pre-key stays in the store.
RemovePreKey_kept(p, x) == Kept(p)

\* The one-time pre-key is removed before anything is authenticated.
RemovePreKey(p, x) == [Kept(p) EXCEPT !.preKeys = @ \ {x.preKeyID}]

\* ProcessPreKeyMessage returned a session; the message is yet to be decrypted.
SaveIdentity(p, x) == [RemovePreKey(p, x) EXCEPT !.trusted = x.identity]

\* The message decrypts with the new session, which becomes the current one.
StartSession(p, x, s) ==
  [SaveIdentity(p, x) EXCEPT !.rec = Persisted(Promote(@, s)), !.started = @ + 1, !.plaintext = TRUE]

\* decryptPreKeyMessage when no session of the record decides about m.
BootstrapOutcome(p, m) ==
  LET x   == m.initial
      new == NewSession("responder", p, x.identity, ResponderSecret(p, x),
                        EphemeralKey(p, started[p]), x)
  IN  IF x = NoInitial \/ ~Acceptable(p, x) THEN Kept(p)
      ELSE IF x.kyberPreKeyID \notin {0, KyberPreKeyID} THEN RemovePreKey(p, x)
      ELSE IF Verdict(new, m) # "none" THEN SaveIdentity(p, x)
      ELSE StartSession(p, x, Opened(new, m))

Outcome(p, m) ==
  LET deciding == Deciding(rec[p], m)
      i == CHOOSE i \in deciding : TRUE
  IN  IF deciding = {} THEN BootstrapOutcome(p, m)
      ELSE IF Verdict(rec[p][i], m) = "duplicate" THEN Kept(p)
      ELSE [Kept(p) EXCEPT !.rec = Persisted(OpenedRecord(@, i, m)), !.plaintext = TRUE]

\* The store calls of an outcome may fail after any of them: the pre-key is
\* removed, the identity saved, the session stored, and no plaintext returned.
Interrupted(p, out) ==
  {[Kept(p) EXCEPT !.preKeys = out.preKeys],
   [Kept(p) EXCEPT !.preKeys = out.preKeys, !.trusted = out.trusted],
   [out EXCEPT !.plaintext = FALSE]}

\* The outcome of receiving m, which is genuine or the damaged form of a message.
\* A call that leaves the store as it was and returns an error is no step.
Apply(p, out, m) ==
  /\ out # Kept(p)
  /\ out.started <= MaxSessions
  /\ rec' = [rec EXCEPT ![p] = out.rec]
  /\ preKeys' = [preKeys EXCEPT ![p] = out.preKeys]
  /\ trusted' = [trusted EXCEPT ![p] = out.trusted]
  /\ started' = [started EXCEPT ![p] = out.started]
  /\ delivered' = [delivered EXCEPT ![p] = IF out.plaintext THEN @ \cup {m} ELSE @]
  /\ plaintexts' = [plaintexts EXCEPT ![p] = IF out.plaintext THEN @ + 1 ELSE @]
  /\ UNCHANGED <<published, expired, net>>

-----------------------------------------------------------------------------
(* Initial state and actions. *)

Init ==
  /\ rec = [p \in Party |-> << >>]
  /\ trusted = [p \in Party |-> NoKey]
  /\ preKeys = [p \in Party |-> OneTime]
  /\ published = [p \in Party |-> OneTime]
  /\ expired = [p \in Party |-> FALSE]
  /\ started = [p \in Party |-> 0]
  /\ net = {}
  /\ delivered = [p \in Party |-> {}]
  /\ plaintexts = [p \in Party |-> 0]

ContainsSession(p) == rec[p] # << >>

To(p) == {m \in net : m.from = Peer(p)}
MaySend == Cardinality(net) < MaxSent

\* The identity of an accepted bundle is saved at once.
ProcessPreKeyBundle(p, b) ==
  /\ IsTrustedIdentity(p, b.identity)
  /\ Validate(b)
  /\ trusted' = [trusted EXCEPT ![p] = b.identity]

\* The record is stored last; the second alternative fails before that.
EncryptWithPreKeyBundle(p) ==
  \E b \in Bundles(Peer(p)) :
    LET e == EphemeralKey(p, started[p])
        x == InitialMessage(p, e, b)
        s == NewSession("initiator", p, b.identity, InitiatorSecret(p, Peer(p), e, b), NoKey, x)
    IN  /\ MaySend /\ started[p] < MaxSessions
        /\ ~ContainsSession(p)
        /\ ProcessPreKeyBundle(p, b)
        /\ published' = [published EXCEPT ![Peer(p)] = @ \ {b.preKey}]
        /\ \/ /\ net' = net \cup {NextMessage(p, s, x)}
              /\ rec' = [rec EXCEPT ![p] = Persisted(NewRecord(Advanced(s)))]
              /\ started' = [started EXCEPT ![p] = @ + 1]
           \/ /\ p \in Interrupts
              /\ UNCHANGED <<net, rec, started>>
        /\ UNCHANGED <<preKeys, expired, delivered, plaintexts>>

Encrypt(p) ==
  /\ MaySend
  /\ ContainsSession(p)
  /\ net' = net \cup {NextMessage(p, Current(rec[p]), NoInitial)}
  /\ rec' = [rec EXCEPT ![p] = Persisted([rec[p] EXCEPT ![1] = Advanced(@)])]
  /\ UNCHANGED <<trusted, preKeys, published, expired, started, delivered, plaintexts>>

Decrypt(p) == \E m \in To(p) : \E out \in {Outcome(p, m)} : Apply(p, out, m)

DecryptInterrupted(p) ==
  /\ p \in Interrupts
  /\ \E m \in To(p) : \E whole \in {Outcome(p, m)} :
       \E out \in Interrupted(p, whole) : Apply(p, out, m)

\* One field of the X3DH part changed, or the inner message destroyed: it then
\* authenticates under no key.  What the parser refuses does not get further.
Damaged(m) ==
  {[m EXCEPT !.message.mac = NoMAC]} \cup
  {[m EXCEPT !.initial = x] : x \in
     {y \in {[m.initial EXCEPT !.identity = IdentityKey(Stranger)],
             [m.initial EXCEPT !.ephemeral = EphemeralKey(Stranger, 0)]} \cup
            {[m.initial EXCEPT !.preKeyID = k] : k \in OneTime \cup {0}} \cup
            {[m.initial EXCEPT !.kyberPreKeyID = k] : k \in {0, KyberPreKeyID + 1}} \cup
            {[m.initial EXCEPT !.kyberCiphertext = c] : c \in {Nothing, <<"garbled">>}} :
        KyberPayload(ciphertextVersionFromX3DH(m.initial), y.kyberPreKeyID, y.kyberCiphertext)}}

DecryptDamaged(p) ==
  /\ p \in Damages
  /\ \E m \in To(p) :
       /\ m.initial # NoInitial
       /\ \E out \in {Outcome(p, d) : d \in Damaged(m)} : Apply(p, out, m)

\* The application calls DeleteSession, or EnforceSessionLimit drops the
\* record in favour of another device of the same name.
DeleteSession(p) ==
  /\ p \in Deleters
  /\ ContainsSession(p)
  /\ rec' = [rec EXCEPT ![p] = << >>]
  /\ UNCHANGED <<trusted, preKeys, published, expired, started, net, delivered, plaintexts>>

\* The signed pre-key reaches the maximal age of the store's policy.
SignedPreKeyExpires(p) ==
  /\ p \in Expires
  /\ ~expired[p]
  /\ expired' = [expired EXCEPT ![p] = TRUE]
  /\ UNCHANGED <<rec, trusted, preKeys, published, started, net, delivered, plaintexts>>

Next ==
  \E p \in Party :
    \/ EncryptWithPreKeyBundle(p) \/ Encrypt(p)
    \/ Decrypt(p) \/ DecryptInterrupted(p) \/ DecryptDamaged(p)
    \/ DeleteSession(p) \/ SignedPreKeyExpires(p)

Spec == Init /\ [][Next]_vars

-----------------------------------------------------------------------------
(* Properties. *)

\* Every variable has its type and the record never outgrows its archive.
TypeOK ==
  /\ \A p \in Party :
       /\ Len(rec[p]) <= MaxArchived + 1
       /\ \A i \in 1 .. Len(rec[p]) :
            /\ rec[p][i].role \in {"initiator", "responder"}
            /\ rec[p][i].sends \in 1 .. MaxSent + 1
            /\ rec[p][i].got \subseteq 0 .. MaxSent
       /\ trusted[p] \in {NoKey, IdentityKey(Peer(p)), IdentityKey(Stranger)}
       /\ preKeys[p] \subseteq OneTime
       /\ published[p] \subseteq OneTime
       /\ delivered[p] \subseteq To(p)
  /\ expired \in [Party -> BOOLEAN]
  /\ started \in [Party -> 0 .. MaxSessions]
  /\ plaintexts \in [Party -> Nat]

Channel == INSTANCE AtMostOnceChannel WITH sent <- net

\* Sessions implement an at-most-once channel while the server hands out every
\* one-time pre-key once: deleting and restarting sessions, archiving them, both
\* parties starting at once, failing store calls and damaged copies make no
\* message be returned twice and none be returned that the peer did not send.
ImplementsChannel == Channel!Spec

\* Every session is shared with the peer: its secret is one that an initiator
\* put into a message, under the identity key that is stored for the peer.
SessionsGenuine ==
  \A p \in Party : \A i \in 1 .. Len(rec[p]) :
    /\ trusted[p] = IdentityKey(Peer(p))
    /\ \E m \in net : m.initial # NoInitial /\ m.message.mac.key.secret = rec[p][i].secret
                      /\ (m.from = p <=> rec[p][i].role = "initiator")

\* The two ends of one session; an initiator that has heard of no line yet fits any.
Ends(s, t) ==
  /\ s.secret = t.secret /\ s.role # t.role
  /\ s.line = t.line \/ NoKey \in {s.line, t.line}

\* What t has not decrypted of the chain that s sends, and of the one before if
\* t is still to hear of the new chain, is within the limit.
WithinSkip(s, t) ==
  IF s.sends = t.receives THEN Cardinality(Missing(t, s.Ns)) <= MaxSkip
  ELSE Cardinality(Missing(t, s.PN)) <= MaxSkip /\ s.Ns <= MaxSkip

\* The message p sends next decrypts at the peer as long as the peer has its
\* end of p's current session, be it archived, and no more than MaxSkip messages
\* of a chain are lost or late: neither archiving nor promotion nor a failed
\* call ever takes one end of a session back behind the other, and it does not
\* matter how the fields of a message are ordered.
NextMessageOpens ==
  \A p \in Party :
    rec[p] # << >> /\ (\E i \in 1 .. Len(rec[Peer(p)]) :
                         LET s == Current(rec[p])
                             t == rec[Peer(p)][i]
                         IN  Ends(s, t) /\ WithinSkip(s, t))
      => Outcome(Peer(p), NextMessage(p, Current(rec[p]), NoInitial)).plaintext

\* Sessions are told apart by their secret and their end.
Sessions(r) == {<<r[i].role, r[i].secret>> : i \in 1 .. Len(r)}

\* A step drops a session only by deleting the record, or by promoting another
\* session into a full record, and then only the one that was used least recently.
OnlyOldestForgotten ==
  [][\A p \in Party :
       rec'[p] = rec[p] \/ rec'[p] = << >> \/ Sessions(rec[p]) \subseteq Sessions(rec'[p]) \/
       (/\ Len(rec[p]) = MaxArchived + 1
        /\ Sessions(SubSeq(rec[p], 1, MaxArchived)) \subseteq Sessions(rec'[p]))]_vars

\* What WireCipher.Decrypt says of itself ("If a session exists, it handles
\* message ordering, replay detection (via duplicates)"): a party that has a
\* session, and never deletes one, does not return a plaintext again.
NoReplay ==
  \A p \in Party \ Deleters : \A m \in delivered[p] : ~Outcome(p, m).plaintext
=============================================================================
