# TLA+ models of deicod/signal

This directory holds a formal model of the Go library in `src/`: an implementation of the
Signal protocols (X3DH/PQXDH, Double Ratchet, sender keys, the sparse post-quantum ratchet
SPQR, sessions, Sesame, sealed sender). The modules are checked with TLC on small
instances. Every safety property that holds there is also proved, for every value of the constants, with
TLAPS.

All cryptography is symbolic: a key *is* the way it was derived. Two keys are equal in the
model exactly when the code computes them from the same inputs in the same way, and a MAC
or a signature verifies exactly when it was made with the same key over the same data.
What the models ask is whether the *control* of the library (who derives what, when state
is committed, what is kept and what is dropped) is right.

## 1. Inventory

| Component | State | Operations | Hard behaviour |
|---|---|---|---|
| `ratchet` | `State`: root key, sending and receiving chain, counters, skipped keys, seen DH keys | `InitializeState`, `Encrypt`, `Decrypt`, `AdvanceForHeader`, `RatchetOnSend` | loss, duplication, reordering and damage of messages; failure after the clone has advanced; limits |
| `senderkeys` | `Record`: bounded list of states, each with a chain and bounded message keys | `Builder.Create/Rotate/Process`, `Cipher.Encrypt/Decrypt` | rotation, repeated distributions, late messages of older states, eviction |
| `spqr` (v1) | one of eleven phases with epoch, authenticator, keys, erasure encoder and decoder | `send`, `recv` | multi-message handshake over a lossy carrier, role swap, late chunks, index wrap |
| `spqr` (State, Chain) | version, v1 state, links of the last epochs, their counters and key history | `State.Send/Receive/Serialize/Clone`, `Chain.AddEpoch/SendKey/RecvKey` | epoch change while messages are under way, jumps, trimming, a peer without the ratchet, a state that lives as bytes between two calls |
| `session` | `Record`: a current session and at most five archived ones, in the store | `WireCipher.Encrypt/Decrypt/EncryptWithPreKeyBundle`, `Builder`, `Record.Promote` | load/advance/store without a lock, pre-key consumption before authentication, simultaneous initiation, lost first message |
| `x3dh` | none of its own; one-time pre-keys in the store | `CreateInitialMessage`, `ProcessInitialMessage` | the one-time key is removed before the message is authenticated |
| `sesame` | roster of users and devices with staleness times | `Manager.*`, `Conversation.Encrypt/EncryptWithRoster/Decrypt` | partial failure of a fan-out, bounded retries, pruning |
| `store/memory` | identities, pre-keys, sessions, sender keys, roster; session limit | load/store/delete, `EnforceSessionLimit` | eviction of sessions in use |
| `sealedsender` | none; the application's map of server certificates | issuing, parsing and validating certificates, `EncryptV1`, `EncryptV2Received`, `DecryptToUSMC` | expiry on a signed/unsigned boundary, key rotation behind a certificate id, parts of a message exchanged, signatures over a received encoding |
| `protocol/wire` | none | `NewSignalMessage`, `NewPreKeySignalMessage`, their parsers, `VerifyMAC` | one of two formats found by trial, a MAC over the bytes as received |
| `keys`, other `protocol`, `proto`, `crypto`, `errors`, root package | none | encodings, generated code, primitives, facade | none of its own |

How they interact: a `WireCipher` loads the `Record` of an address from the store, asks the
current session's ratchet for a message key and its SPQR state for a salt, mixes both
(`DeriveMessageKeysWithSalt`), and stores the record. When it receives, it works on clones
of both states and commits them only after the MAC has been verified. A pre-key message goes
through `Builder` and `x3dh`, which consume pre-keys in the store. `Conversation` calls one
`WireCipher` per device of the roster. Sender keys travel in distribution messages over
pairwise sessions. The library starts no goroutine: concurrency comes from the network,
from the application calling it from several goroutines, and from the two ends of a session.

What makes each component correct:

* **Double Ratchet**: both ends use the same key for a message, no message is accepted
  twice, no two messages share a key, keys of past messages cannot be derived, and late
  messages within the limits decrypt.
* **Sender keys**: the same over rotations, only the sender's messages are accepted, and
  the record stays bounded.
* **SPQR**: both ends obtain the same epoch secrets and never stall; sending never fails;
  salts agree, are used once and are forgotten; a message is refused only outside its window.
* **Sealed sender**: an accepted content was sealed for this recipient by the holder of the
  certified identity, and acceptance follows the certificate's life exactly.
* **Session**: at most one plaintext per message over restarts, simultaneous starts and
  failing store calls, no session under a key that is not the peer's, and a session that both
  ends have is found again after archiving.
* **Sesame**: every non-stale device gets a ciphertext or the caller an error, a call comes to
  an end, and only devices that were neither listed nor touched for the latency are forgotten.

`PROJECT.json` lists every hazard at its line with the properties that cover it.

## 2. Modules

| Module | Models | Variables | Actions |
|---|---|---|---|
| `DoubleRatchet` | `ratchet/*.go` | `st` (the two `State`s), `keys` (generated key pairs), `net` (all messages ever sent), `delivered`, `plaintexts` (history) | `Encrypt`, `Decrypt`, `DecryptCorrupted`; `RatchetOnSend` in its own specification |
| `AtMostOnceChannel` | abstract: what a session promises | `sent`, `delivered`, `plaintexts` | `Send`, `Deliver` |
| `SenderKeys` | `senderkeys/*.go` | `own` (sender's record), `rec` (receivers' records), `ids`, `dists`, `net`, `echoes`, histories | `Create`, `Rotate`, `Encrypt`, `ProcessAny`, `Decrypt`, `DecryptForged`; the sender's own messages come back: `ProcessOwn`, `DecryptOwn` |
| `SpqrV1` | `spqr/v1_chunked.go`, `v1_unchunked.go`, the erasure code, authenticator, ML-KEM | none: operators `send`, `recv` on the state of one party | |
| `SpqrCodec` | `spqr/message.go`, `v1_state_serialize.go`, the encodings of encoder and decoder | none: operators over `SpqrV1` | |
| `ContinuousKeyAgreement` | abstract: what SPQR promises its chains | `keys` | `Obtain` |
| `SpqrHandshake` | two v1 state machines | `st`, `samples`, `net`, `keys` | `Send`, `Receive`, `Lose` |
| `Spqr` | `spqr/state.go`, `chain.go` over `SpqrCodec`, as `session/wire_cipher.go` uses them | `speaks` (who has the ratchet), `state`, `started`, `samples`, `net`, `lost`, `used` (history) | `Send`, `Receive`, `Lose` |
| `Protowire` | the field encoding and the decoders' common loop | none: operators | |
| `WireMessages` | `protocol/wire/*.go` over `Protowire` | none: operators | |
| `Session` | `session/wire_cipher.go`, `builder.go`, `record.go`, `version.go`, `x3dh/*.go`, over `WireMessages`; the store's entries for one address | `rec`, `trusted`, `preKeys`, `published`, `expired`, `started`, `net`, histories | `EncryptWithPreKeyBundle`, `Encrypt`, `Decrypt`, `DecryptInterrupted`, `DecryptDamaged`, `DeleteSession`, `SignedPreKeyExpires` |
| `Sesame` | `sesame/manager.go`, `conversation.go`, the session limit of the store | `roster`, `sess`, `identity`, `real`, `clock`, `call`, `calls`, `active` (history) | the steps of `EncryptWithRoster` (`Start` to `Return`), `DecryptMessage`, `TouchDevice`, `MarkUserStale`, `MarkDeviceStale`, `PruneStale`; environment: `Reinstall`, `AcceptIdentity`, `Tick` |
| `SealedSender` | `sealedsender/*.go` over `Protowire` | `clock`, `serverKey`, `identity`, `serverCerts`, `known` (the recipients' map), `certs`, `sealed`, `accepted` | `IssueServerCertificate`, `InstallServerCertificate`, `IssueSenderCertificate`, `Seal`, `Receive`; environment: `Tick`, `RotateServerKey`, `RotateIdentity` |
| `MCSpqrHandshake`, `MCSpqr`, `MCSealedSender` | values of constants for TLC | | |
| `DoubleRatchetProofs`, `SenderKeysProofs`, `SpqrHandshakeProofs`, `SpqrProofs`, `SessionProofs`, `SesameProofs`, `SealedSenderProofs` | the theorems about the module each is named after | | |
| `SpqrV1Proofs` | lemmas about `send`, `recv` and the codec, for both SPQR specifications | | |

**DoubleRatchet.** A public key is `<<owner, index>>`, a DH output the set of the two keys,
a root key the sequence of DH outputs mixed in, a chain key its root and its step. `Init`
covers agreements with and without a Kyber chain key. `Decrypted` is `State.Decrypt`: look
for a skipped key, the two duplicate tests, skip, ratchet, skip, the counter limit, and the
tag, with the state unchanged on every error. The network keeps every message for ever, so
loss, duplication and any order are all behaviours; `DecryptCorrupted` delivers headers with
arbitrary keys and numbers. `AdvanceForHeader` (used by `WireCipher`) and `Decrypt` make the
same tests in the same order and share one operator.

**SenderKeys.** One sender and its receivers, whose records do not depend on one another.
Each distribution message may arrive any number of times, in any order with the messages.
`ErrDuplicateMessage`, the skip limit, signature and version errors leave the record as it is
stored, since only a successful `Decrypt` persists it. A record is stored as bytes by every
operation (`Persisted`), with both limits applied once more. The sender keeps its record under the
same name and the package does not tell the two uses apart, so the sender's own distributions and
messages may be processed by it (`ProcessOwn`, `DecryptOwn`); `MaxEchoes` bounds how often.

**SpqrV1.** `phase` is the dynamic type of `v1States.state`; `send` and `recv` have one case
per phase, as the type switches have. As in the code there are two layers: operators with
lower-case names (`sendCt1`, `recvCt2`, ...) work on whole values, those with capital names on chunks. A value is decoded from any `Needed[v]` chunks with
different indices, which is what interpolation over GF(2^16) gives; chunks of two different
values decode to neither. As in the code, an encoder counts its chunks in a `uint32` that is kept
whole and cut to the 16 bits of a chunk's index only when a chunk is made: `IndexSpace` stands for
2^32 and `ChunkSpace` for 2^16.

**SpqrCodec.** An encoding is a sequence with one element per value written. Each phase writes
what its Go type has: in the last phase, for instance, the ciphertext is only in the encoder. Both
SPQR specifications put every new state through this codec (`Store`), as `Clone` and the session
record do, so anything an encoding dropped would be missing from the next step on.

**Spqr.** `SendState` and `ReceiveState` are `State.Send` and `State.Receive` as a session creates
them (`minVersion = VersionDisabled`): there is no chain, and so no salt, until the first message
has arrived. A link of the chain is named by the secrets mixed in. `speaks` is chosen initially:
with both parties, or with one that is an older implementation, sends no `pq_ratchet` field and
ignores the other's. The state then disables itself, is stored as nothing, and stays away.

**WireMessages, Protowire.** A message is a version, a sequence of fields (number, wire type,
value) and, for a `SignalMessage`, a MAC. The decoders of the library are one loop with different
tables: `Decode` is the loop, a *format* the table. Unknown fields are skipped and the last of
repeated fields counts. `Foreign` is how another implementation may write the same fields.

**SealedSender.** Certificates and messages are encoded with `Protowire`, so that signatures are
over encodings and what a parser keeps matters. `certs` and `sealed` hold what each object was made
from; the bytes are computed from that when they are needed. An *arrival* is a sealed message, or
one with a part exchanged for the same part of another, with any version byte, at any recipient.
Times are integers; on the wire they are taken modulo `2 * Half`, so that negative ones become large. Other
implementations may order fields differently and may seal with a certificate that is not their
own, which this library refuses to do when it seals and has to detect when it opens.

**Session.** Each operation loads the record and stores it in its last step, so an operation is
one action; `DecryptInterrupted` is a bootstrap whose later store calls fail, which leaves a
removed pre-key or a saved identity behind. A damaged message may carry other X3DH fields (they
are under no MAC) or another identity. A session's ratchet is reduced to its chains (which one it
sends and receives), the counters `Ns`, `PN` and `Nr`, and the numbers received, which is what
`DoubleRatchet` shows of it; a message for which more than `MaxSkip` keys would have to be kept is
refused (`SkipsTo`). Sessions are told apart by their agreed secret. Messages
are encoded and parsed with `WireMessages`; parsing depends on nothing but the bytes, so it is done
once, when a message is sent. Records are stored with the encoding of `record.go` (`Persisted`).

**Sesame.** The manager's operations hold its mutex and are atomic. `EncryptWithRoster` is not:
each answer of the provider, each lookup of devices and sessions and each device's encryption is
a step of its own, and everything else may happen in between. The state of a session is what
the roster logic tells apart: none, one the device can get to know, or one whose pre-key message
no call has returned yet. A record's staleness is a time, stored in whole seconds
(`unixSeconds`); `Second` is the number of clock ticks in one. Store calls succeed, as those of
the memory store do.

## 3. Runs

| Run | Checks | Bounds and why they are enough |
|---|---|---|
| `DoubleRatchet` | eight invariants and the refinement of `AtMostOnceChannel` | `MaxSkip = 1`, three messages per chain, three key pairs per party: full skip store, both gaps of a ratchet step, several ratchet steps by each side, exhausted counters and failing key generation all occur |
| `RatchetOutOfOrder` | *violated*: `OutOfOrderWithinLimit` | shows that a late message of the previous chain is refused (finding 1) |
| `RatchetOnSend` | *violated*: `KeyAgreement` with the exported `RatchetOnSend` | finding 2 |
| `SenderKeys` | seven invariants | two states of the record and three ids (a state is evicted), one stored key (keys are evicted), iterations up to 4 and the wrap test, two messages back to the sender (it can set its chain back and rotate out of it) |
| `SenderKeysReplay` | *violated*: `NoReplay` | finding 3 |
| `SpqrHandshake` | six properties, one a liveness property, one the refinement of `ContinuousKeyAgreement` | two chunks per value, two chunk indices and four values of an encoder's counter (both wrap), two epochs (both parties in both roles), two messages under way each way, any loss |
| `Spqr` | five invariants and an action property, with both parties or either one having the ratchet | two epochs agreed (three links, one of them dropped), two messages at once under way to the responder and a loss on the way to the initiator: jumps, stored keys, their collection and refusals occur with `MaxJump = 2`, `MaxOOO = 1` |
| `Session` | three invariants, an action property and the refinement of `AtMostOnceChannel` | five messages, three sessions per party, an archive of one (it overflows), `MaxSkip = 1` (messages are refused for being too far ahead), two one-time pre-keys; Alice deletes sessions, Bob's store fails, he gets damaged messages and his signed pre-key expires, so that each is combined with everything else at one party; Bob's messages have another field order. All bundles have a Kyber key (version 4) |
| `SessionReplay` | *violated*: `NoReplay` when bundles have no one-time pre-key | finding 4 |
| `Sesame` | two invariants, an action property and a liveness property | two remote devices and the local one, a limit of one session (it evicts), two calls of two attempts, a latency of one second with two ticks each; device 1 sends messages and is marked stale, device 2 changes its identity |
| `SesameIdentity` | *violated*: `RosterKeepsTrustedSession` | finding 5 |
| `SealedSender` | two invariants and an action property | two recipients (symmetric), a trusted and another root, a current and a revoked id, two server keys and two identities of the sender, one sender certificate, three objects out of server certificates and messages: certificates by id whose key was rotated, expired and negative times, all exchanges of parts between two messages |

`Spqr`, `SealedSender` and the session runs switch off the deadlock check: `MaxIndex`, `MaxSent`,
the one-time pre-keys and the number of objects bound what is sent, and a conversation may simply end. Every property has a mutant of a
definition it depends on, listed in `PROJECT.json`, under which TLC finds it violated.

**Fairness.** `SpqrHandshake` and `Sesame` have a liveness property. `Sesame` assumes that a
running call goes on (`WF` of `CallStep`): it runs in its caller's goroutine, and the provider
returns an answer or an error; what it answers is free. In `SpqrHandshake`, `FairSpec` assumes that both
parties keep sending (`WF` of `Send`: SPQR has no messages of its own, it advances when the
application writes), that messages do not stay under way for ever (`WF` of `Receive`), and
that not every message which would change the receiver's state is lost (`SF` of a
state-changing `Receive`). Nothing is assumed about the order of delivery. That one side
writes nothing, and the epoch then stops, is by design of the protocol.

**What the violated runs show.** (1) `DHRatchet` deletes, in its last line, the keys that
were stored for the previous chain a moment before; `spec.md` says out-of-order messages
within the limit work. (2) `RatchetOnSend` steps the ratchet whenever a remote key is set,
not only when it is new; in the trace the caller can then not decrypt what the peer had sent it
before. (3) Processing a distribution
message again rewinds the receiver's chain, so that messages decrypt twice; the
comment on group decryption says the state is updated to prevent replay. (4) A copy of a
pre-key message is a duplicate only while its session is in the record; once the archive has
dropped it, the copy starts a session again and its plaintext is returned a second time, unless
a one-time pre-key was used. (5) A roster is compared with the stored identity signing key
included, but an identity learnt from a pre-key message has none: the first roster with the
unchanged identity deletes the session and reports an identity change.

Two more things the `Sesame` model shows, which no document of the repository speaks of. A
fan-out that fails at a later device leaves new sessions behind whose pre-key messages are never
returned. And since staleness times are stored in whole seconds, a record may be
pruned up to a second early; `PrunedOnlyIfInactive` states the bound that holds. It counts a device
as in use when a roster lists it or `TouchDevice` is called for it. A message that was decrypted
counts only once `Conversation.Decrypt` has touched the device, which it does in a second step:
pruning in between is possible in the code, and no property here rules it out.

## 4. Proofs

The theorems hold for every value of the constants that the named assumptions of the modules
allow: any limits (`MaxSkip`, `MaxStates`, `MaxMessageKeys`, `MaxJump`, `MaxOOO`, the latency, the
session limit), any number of receivers and devices, any number of chunks per value and any size of
the chunk index, and any of the bounds that keep TLC's instances finite. What the proofs take from
the symbolic view of cryptography is what the modules already say: a key is the way it was derived.

| Module | Theorem | States |
|---|---|---|
| each of the seven | `Invariance` | `Spec => []IInv` |
| `DoubleRatchetProofs` | `TypeCorrect`, `KeysAgree`, `NeverReplayed`, `MessageKeysUnique`, `SkippedBounded`, `ForwardSecret` | `TypeOK`, `KeyAgreement`, `NoReplay`, `UniqueMessageKeys`, `SkippedKeysBounded`, `ForwardSecrecy` |
| | `InChainDecrypts`, `NewChainDecrypts` | `InChainOutOfOrder`, `NewChainOpens` |
| | `Implementation` | the refinement of `AtMostOnceChannel` |
| `SenderKeysProofs` | `TypeCorrect`, `KeysAreUnique`, `KeysAgree`, `ReplaysRefused`, `RecordsBounded`, `OutOfOrderDecrypts`, `ForwardSecret` | `TypeOK`, `UniqueMessageKeys`, `KeyAgreement`, `NoReplaySinceInstalled`, `RecordBounded`, `OutOfOrderWithinLimit`, `ForwardSecrecy` |
| `SpqrHandshakeProofs` | `TypeCorrect`, `GenuineAccepted`, `EpochKnown`, `NeverBothWait` | `TypeOK`, `NeverRefused`, `ReceiverHasEpoch`, `NoMutualWait` |
| | `AgreesOnSecrets` | the refinement of `ContinuousKeyAgreement` |
| `SpqrProofs` | `BoundedChains`, `SendSucceeds`, `SaltsAgree`, `OnlyStaleRefused`, `SaltsUnique` | `ChainsBounded`, `SendNeverFails`, `SaltAgreement`, `RefusedOnlyIfStale`, `UniqueSalts` |
| | `SaltsForgotten` | the action property `ForwardSecrecy` |
| `SessionProofs` | `TypeCorrect`, `SessionsAreGenuine`, `NextMessageAlwaysOpens` | `TypeOK`, `SessionsGenuine`, `NextMessageOpens` |
| | `OnlyTheOldestIsForgotten` | the action property `OnlyOldestForgotten` |
| | `AtMostOnce` | the refinement of `AtMostOnceChannel`, if `~WithoutOneTime` |
| `SealedSenderProofs` | `AcceptedContentIsGenuine`, `LiveMessagesAreAccepted` | `AcceptedIsGenuine`, `LiveIsAccepted` |
| | `AcceptedWhileLive` | the action property `AcceptedOnlyIfLive` |
| `SesameProofs` | `TypeCorrect`, `EveryDeviceServed` | `TypeOK`, `AllNonStaleServed` |
| | `PrunesOnlyInactive` | the action property `PrunedOnlyIfInactive` |

None of the safety invariants is inductive. Each module states its strengthening `IInv`; TLC
checked it on an instance of the run of the same name.

**Double Ratchet.** `IInv` says:

* `KeysInv`: every public key was generated by the party it names;
* `ChainsInv`: a party's sending chain is its root key advanced `Ns` times, its receiving
  chain is another root's, advanced `Nr` times;
* `LockStep`: one party is exactly one ratchet step ahead of the other, its root key is the
  other's extended by the DH of the two current keys, and it reads the chain the other one
  writes. This is the heart of the argument: it is what makes a genuine header with an
  unknown key lead the receiver to the sender's chain;
* `SkippedInv`: a stored key is the key of a number already passed on the current chain;
* `NetInv`: every message under way belongs to the chain its header names;
* `DeliveredInv`, `PendingInv`: what was decrypted lies behind the receiver with no key
  left, what was passed over has one.

The proof first establishes what a successful `Decrypt` does to the state (`AdvanceInChain`,
`AdvanceRatchet`, `AdvanceSkipped`), then preservation of `IInv` per action (`EncryptIInv`,
`SameChainIInv`, `RatchetIInv`, `CorruptedUnchanged`). That messages *do* decrypt follows from the
same invariant: a key that is derived for a genuine message is the one it was encrypted with
(`AgreedKeys`, `DerivedDecrypts`), so only the duplicate tests and the limits can refuse it.

**Sender keys.** `RecordsInv`: a record has at most `MaxStates` states, one per id, each with the
chain and the stored keys of its own id, at most `MaxMessageKeys` of them, behind the chain.
`NamesInv`: ids are generated in order and name the keys of everything sent. `SendingInv`: a state
with a private key has never been set back, nobody is ahead of it, and it has used no key from its
chain on; this is why the sender's own distributions coming back do not make it use a key twice:
they replace the state by one that cannot send. `DeliveredInv` and `PendingInv`: what was decrypted
since the state was installed lies behind it with no key left, and what was not decrypted and is
not too old has its key stored. The last needs counting: a stored key is dropped only when
`MaxMessageKeys` later ones exist (`InjectionBound`, `SurjectionBound`).

**SPQR state machine.** `Joined` lists the pairs of phases that the two machines can be in: both in
one epoch, one sending the encapsulation key and the other the ciphertext (`Paired`), or one
an epoch ahead, waiting for a header that the other has not made yet (`Ahead`); and what keys,
ciphertexts, decoders and authenticators then have in common. `Genuine` says of a message under way that it is of an
earlier epoch of its sender or still describes the sender's state. `SendAdvance` and `RecvAdvance`
show, phase by phase, that a step of one machine keeps both, and that a secret it hands out is new to
both or the one the peer has. `StoredIs` is the round trip of the codec: every phase comes back as it was
stored, but for a key the last phase no longer needs. These lemmas speak of one state and its peer, so
both specifications use them. `TypeOK` also says that a party never sits on chunks it could decode,
which rests on every phase trying to decode after each chunk it adds.

**SPQR state and chain.** The chain of a party that has none yet is taken to be the one
`chainForRecv` would create. `ChainOK`: there is one link for each epoch from the oldest to the
current one, named by that many of the secrets; links behind the sending epoch are closed, those ahead
unused, and among the `MaxOOO + 1` indices that stored keys may have one is free. `InStep`: the
sending epoch follows the epoch of the state machine by one at most, and exactly once a message was
sent; with `Joined` this gives that `SendKey` finds its link open and that `AddEpoch` is called with
the next epoch. `Behind`: a receiving counter never exceeds the peer's sending counter. `IsFrom` and
`Pending`: a message has the salt of the link and index it names, and its key was not taken yet;
with it a refusal can only be for age or distance. `UsedOK`: a used salt belongs to the sender's
past. If one party lacks the ratchet, `AloneInv` replaces all this: the other's state never gets a chain,
and no message has a salt.

**Session.** The invariant is stated for one party at a time, as predicates on its record, its
stores, the number of sessions started and the messages sent, so that each lemma speaks of one
change:

* `MessageOK`: every message has the MAC of a session that one party started, on a line that the
  other one drew or on none yet, and its X3DH part, if any, tells of exactly that session;
* `Shape`: a session's secret was agreed on by its initiator, its version follows from the secret,
  a responder's line is one of its own, and the numbers received lie below `Nr`;
* `Ahead` and `Heard`: all that a party sent in a session lies behind the session's next message,
  and what a session has received was sent. Together they put neither end behind the other, so
  that the next message is no repetition; that its keys fit (`SkipFits`, `OtherEndSkips`) needs the
  hypothesis of `NextMessageOpens` that at most `MaxSkip` messages are missing. After more losses
  than that in a chain the library refuses the next message, and the property does not promise it;
* `Announced`: an initiator put the secret into a message;
* `Spent`: the one-time pre-keys that went into the secret of a session, or of a message decrypted,
  are no longer in the store. This is what at-most-once delivery rests on once a session was
  deleted or dropped from the archive: its pre-key message cannot start it again. Without a
  one-time pre-key it can, so the refinement has `~WithoutOneTime` as a hypothesis, and the run
  `SessionReplay` shows that it is needed;
* `SecretsDiffer`: a record has no two sessions with one secret, so at most one answers a message.

Three groups of lemmas come first. The wire formats: a message in any field order, with a field
that the decoder does not know, is decoded to what was encoded, is told apart from the other kind
and keeps its MAC (`NextMessageIs`). X3DH: secrets of different agreements differ, and a responder
that derives the secret of a message from fields that may be damaged had the initiator's fields where it counts
(`SecretsDistinct`, `ResponderSecretBinds`). Records: what `Promote`, `Without` and the encoding
leave of a record (`PromoteIs`, `WithoutIs`, `PersistedIs`). `OutcomeEffect` then says what a call of
`Decrypt`, whole or damaged, may do: keep the record, open the message with the session that
answers, or start a session; `InterruptedEffect` that a failing store call leaves a part of that.

**Sealed sender.** `SealedOwn` is the check of `Seal`, and `Genuine` the statement of
`AcceptedIsGenuine` with the message found again. The rest is about one state. Decoding:
`SenderCertificateParses` shows that what a certificate is parsed to are the fields it was made
from, whichever implementation ordered them, and `SignedOfUnsigned` that the time survives its
unsigned form; so `Validate` succeeds exactly if the certificate is `Live` (`ValidIffLive`). Opening:
an arrival is made of the parts of two messages (`ArrivedParts`), and if both layers of version 1
(`GenuineV1`), or the agreement tag of version 2 (`GenuineV2`), verify, the parts that matter are of one
message, for this recipient, from the identity in the certificate.

**Sesame.** `ClockInv`, `BundlesInv`, `ActiveInv` and `ServedInv`: times do not run ahead of the
clock; a bundle brings an identity, and the devices to be encrypted for with a bundle have one; what became stale was
not active after that, up to the second lost in storing; the devices a call answers for are in the
roster and have a ciphertext or are still to get one. `SesameAssumption` includes
`Second <= MaxTime`: the clock starts at one second, since the stored time 0 means "not stale".

Induction over the naturals is done with `NatInduct`, a principle about *sets* of naturals (the
library's takes an operator); with it the loop of `setState`, a recursive function (`filtered`), is
unfolded, and what it leaves is proved for records of any length.

Only model-checked: `EpochsAdvance` and `CallReturns`, since liveness under fairness is out of
the prover's reach. The violated properties of section 3 are refuted rather than proved.

## 5. Not modelled

* Generated code (`proto`), primitives (`crypto`: symbolic), polynomial arithmetic over GF(2^16)
  (represented by its effect), the facade in the root package, error values.
* The codecs that decide nothing the modules tell apart: `ratchet/serialize.go`, `keys/serialize.go`,
  `keys/wire.go`, `x3dh/serialize.go`, the two message formats of `senderkeys`, `sesame/serialize.go`
  but for its rounding of times, and the legacy envelope formats in `protocol`.
* The legacy envelope cipher (`session/cipher.go`, `prekey_cipher.go`): the control of `WireCipher`
  without its wire formats and without the PQ ratchet.
* Calls for one address from several goroutines at once: the session and sender-key packages take no
  lock and leave their serialisation to the caller. Two concurrent `Encrypt` calls would use one
  message key for two plaintexts; no document of the repository promises otherwise.
* Several users of one roster, several fan-outs at once, and failing stores under the roster manager.
* Malformed encodings of a party's own state: the bytes come from the party's own store.

## 6. Plan

Every safety property of the runs that pass is proved. What could come next:

1. `Sesame` with failing store calls and a second concurrent call.
2. The legacy envelope cipher as a second instance of `Session`'s control.
3. A composition of `Session` with `DoubleRatchet` and `Spqr`, which would replace the reduced
   ratchet of `Session` by the two modules it stands for.
