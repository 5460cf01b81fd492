------------------------------ MODULE SenderKeys ------------------------------
(***************************************************************************)
(* Group messaging with sender keys (package senderkeys): one sender of a  *)
(* group and the members that receive from it, for one SenderKeyName.      *)
(* Group messages and distribution messages may be lost, duplicated and    *)
(* reordered; group messages may also be forged.                           *)
(*                                                                         *)
(* Keys are symbolic: the chain seed of state id after n steps is          *)
(* <<id, n>>, and a message key is named by the chain seed it is derived   *)
(* from.  id stands for the pair (distributionID, keyID) and for the       *)
(* signing key pair, which newSendingState draws together.                 *)
(*                                                                         *)
(* Each operation loads the record, works on the copy, and stores it last, *)
(* so an operation that fails leaves the record alone.  Operations on one  *)
(* name are serialised by the caller: the package takes no lock.           *)
(*                                                                         *)
(* The sender keeps its own record under the same name.  Its distribution  *)
(* and group messages may come back to it, and it may process them like    *)
(* any member; the package does not tell the two uses of a record apart.   *)
(***************************************************************************)
EXTENDS Integers, Sequences, FiniteSets

CONSTANTS
  Receivers,       \* the members that receive from the sender
  MaxStates,       \* DefaultMaxStates
  MaxMessageKeys,  \* maxMessageKeysPerState
  MaxIteration,    \* math.MaxUint32, the last value of a chain iteration
  MaxIds,          \* bound: how many sender key states are ever generated
  MaxDists,        \* bound: how many different distribution messages are ever made
  MaxSent,         \* bound: how many group messages are ever sent
  MaxEchoes        \* bound: how many messages of its own come back to the sender

ASSUME SenderKeysAssumption ==
  /\ MaxStates \in Nat \ {0}
  /\ MaxMessageKeys \in Nat
  /\ MaxIteration \in Nat
  /\ MaxIds \in Nat
  /\ MaxDists \in Nat
  /\ MaxSent \in Nat
  /\ MaxEchoes \in Nat

VARIABLES
  own,        \* the sender's own Record: its states, newest first
  rec,        \* rec[r]: the Record that r keeps for the sender
  ids,        \* number of sender key states generated so far
  dists,      \* every distribution message ever returned by Create or Rotate
  net,        \* every group message ever sent
  echoes,     \* number of messages of its own that came back to the sender
  installed,  \* installed[r][id]: iteration of the last distribution of id processed by r (history)
  delivered,  \* delivered[r]: decrypted by r since it last processed the distribution of their state (history)
  accepted    \* accepted[r]: everything r has ever decrypted (history)

vars == <<own, rec, ids, dists, net, echoes, installed, delivered, accepted>>

Id == 0 .. (MaxIds - 1)
Seed == Id \X Nat
MessageKeys == SUBSET [iteration : Nat, seed : Seed]
SenderKeyState == [id : Id, chainIteration : Nat, chainSeed : Seed,
                   hasPrivate : BOOLEAN, messageKeys : MessageKeys]
Distribution == [id : Id, iteration : Nat, chainKey : Seed]
\* body tells two encryptions apart; signed says whose signature it carries.
Message == [id : Id, iteration : Nat, key : Seed, body : Nat, signed : BOOLEAN]

-----------------------------------------------------------------------------
(* The record. *)

StateIds(states) == {states[i].id : i \in 1 .. Len(states)}

\* record.state: the first, and only, state with this id.
StateOf(states, id) == states[CHOOSE i \in 1 .. Len(states) : states[i].id = id]

\* The states of other ids, in their order.
filtered(states, id) ==
  LET F[i \in 0 .. Len(states)] ==
        IF i = 0 THEN << >>
        ELSE IF states[i].id = id THEN F[i - 1] ELSE Append(F[i - 1], states[i])
  IN  F[Len(states)]

\* The first n states, or all if there are fewer.
Prefix(states, n) == SubSeq(states, 1, IF Len(states) < n THEN Len(states) ELSE n)

setState(states, next) == Prefix(<<next>> \o filtered(states, next.id), MaxStates)

\* A state changed in place.
UpdateState(states, s) ==
  [i \in 1 .. Len(states) |-> IF states[i].id = s.id THEN s ELSE states[i]]

-----------------------------------------------------------------------------
(* The chain of a state. *)

Derive(seed, steps) == <<seed[1], seed[2] + steps>>

\* Mutant: the oldest entries are the ones that stay.
Newest_oldest(mks) ==
  {k \in mks : Cardinality({j \in mks : j.iteration < k.iteration}) < MaxMessageKeys}

\* Mutant: the limit is not applied.
Newest_unbounded(mks) == mks

\* addMessageKey keeps the newest entries; keys are added in ascending order.
Newest(mks) ==
  {k \in mks : Cardinality({j \in mks : j.iteration > k.iteration}) < MaxMessageKeys}

Passed(s, until) ==
  {[iteration |-> i, seed |-> Derive(s.chainSeed, i - s.chainIteration)] :
     i \in s.chainIteration .. (until - 1)}

Failure(s, err) == [err |-> err, state |-> s, key |-> s.chainSeed]
Success(s, key) == [err |-> "none", state |-> s, key |-> key]

\* Mutant: a used key stays in the list.
removeMessageKey_kept(s, k) == s

removeMessageKey(s, k) == [s EXCEPT !.messageKeys = @ \ {k}]

\* Mutant: a step too many on the chain when numbers are passed over.
Advance_extraStep(s, iteration) ==
  [s EXCEPT !.chainIteration = iteration + 1,
            !.chainSeed = Derive(@, iteration + 2 - s.chainIteration),
            !.messageKeys = Newest(@ \cup Passed(s, iteration))]

\* Mutant: iteration - 1 for iteration + 1 in the steps of the chain.
Advance_behind(s, iteration) ==
  [s EXCEPT !.chainIteration = iteration + 1,
            !.chainSeed = Derive(@, iteration - 1 - s.chainIteration),
            !.messageKeys = Newest(@ \cup Passed(s, iteration))]

\* The chain moves behind iteration; the keys passed over are stored.
Advance(s, iteration) ==
  [s EXCEPT !.chainIteration = iteration + 1,
            !.chainSeed = Derive(@, iteration + 1 - s.chainIteration),
            !.messageKeys = Newest(@ \cup Passed(s, iteration))]

getSenderMessageKey(s, iteration) ==
  LET stored == {k \in s.messageKeys : k.iteration = iteration}
  IN  IF s.chainIteration > iteration
      THEN IF stored = {} THEN Failure(s, "duplicate")
           ELSE LET k == CHOOSE k \in stored : TRUE
                IN  Success(removeMessageKey(s, k), k.seed)
      ELSE IF iteration - s.chainIteration > MaxMessageKeys THEN Failure(s, "maxskip")
      ELSE IF iteration = MaxIteration THEN Failure(s, "overflow")
      ELSE Success(Advance(s, iteration),
                   Derive(s.chainSeed, iteration - s.chainIteration))

-----------------------------------------------------------------------------
(* The record as bytes: both limits are applied once more. *)

Serialize(states) ==
  [i \in 1 .. Len(Prefix(states, MaxStates)) |->
     <<states[i].id, states[i].chainIteration, states[i].chainSeed, states[i].hasPrivate,
       Newest(states[i].messageKeys)>>]

DeserializeRecord(data) ==
  [i \in 1 .. Len(data) |->
     [id |-> data[i][1], chainIteration |-> data[i][2], chainSeed |-> data[i][3],
      hasPrivate |-> data[i][4], messageKeys |-> data[i][5]]]

\* persistRecord, and loadRecord of the next operation.
Persisted(states) == DeserializeRecord(Serialize(states))

-----------------------------------------------------------------------------
(* Initial state and actions. *)

Init ==
  /\ own = << >>
  /\ rec = [r \in Receivers |-> << >>]
  /\ ids = 0
  /\ dists = {}
  /\ net = {}
  /\ echoes = 0
  /\ installed = [r \in Receivers |-> [id \in Id |-> 0]]
  /\ delivered = [r \in Receivers |-> {}]
  /\ accepted = [r \in Receivers |-> {}]

newSendingState ==
  [id |-> ids, chainIteration |-> 0, chainSeed |-> <<ids, 0>>,
   hasPrivate |-> TRUE, messageKeys |-> {}]

DistributionOf(s) ==
  [id |-> s.id, iteration |-> s.chainIteration, chainKey |-> s.chainSeed]

\* Create hands out the current chain, generating the first state if needed; it
\* refuses a state that was received.
Create ==
  /\ Cardinality(dists) < MaxDists
  /\ IF own = << >> THEN ids < MaxIds ELSE own[1].hasPrivate
  /\ own' = IF own = << >> THEN Persisted(setState(own, newSendingState)) ELSE own
  /\ ids' = IF own = << >> THEN ids + 1 ELSE ids
  /\ dists' = dists \cup {DistributionOf(own'[1])}
  /\ UNCHANGED <<rec, net, echoes, installed, delivered, accepted>>

Rotate ==
  /\ ids < MaxIds
  /\ Cardinality(dists) < MaxDists
  /\ own' = Persisted(setState(own, newSendingState))
  /\ ids' = ids + 1
  /\ dists' = dists \cup {DistributionOf(newSendingState)}
  /\ UNCHANGED <<rec, net, echoes, installed, delivered, accepted>>

NextMessage(s) ==
  [id |-> s.id, iteration |-> s.chainIteration, key |-> s.chainSeed,
   body |-> Cardinality(net), signed |-> TRUE]

\* Encrypt needs the signing key and fails when the iteration is exhausted.
Encrypt ==
  /\ own # << >>
  /\ own[1].hasPrivate
  /\ own[1].chainIteration < MaxIteration
  /\ Cardinality(net) < MaxSent
  /\ net' = net \cup {NextMessage(own[1])}
  /\ own' = Persisted([own EXCEPT ![1].chainIteration = @ + 1, ![1].chainSeed = Derive(@, 1)])
  /\ UNCHANGED <<rec, ids, dists, echoes, installed, delivered, accepted>>

\* Mutant: the new state keeps the stored keys of the one it replaces.
Received_keepsKeys(states, d) ==
  [id |-> d.id, chainIteration |-> d.iteration, chainSeed |-> d.chainKey,
   hasPrivate |-> FALSE,
   messageKeys |-> IF d.id \in StateIds(states) THEN StateOf(states, d.id).messageKeys ELSE {}]

\* Mutant: the new state keeps the signing key of the one it replaces.
Received_keepsPrivate(states, d) ==
  [id |-> d.id, chainIteration |-> d.iteration, chainSeed |-> d.chainKey,
   hasPrivate |-> d.id \in StateIds(states) /\ StateOf(states, d.id).hasPrivate,
   messageKeys |-> {}]

\* The state Process builds; it replaces one of the same id whatever it holds.
Received(states, d) ==
  [id |-> d.id, chainIteration |-> d.iteration, chainSeed |-> d.chainKey,
   hasPrivate |-> FALSE, messageKeys |-> {}]

Process(r, d) ==
  /\ rec' = [rec EXCEPT ![r] = Persisted(setState(@, Received(@, d)))]
  /\ installed' = [installed EXCEPT ![r][d.id] = d.iteration]
  /\ delivered' = [delivered EXCEPT ![r] = {m \in @ : m.id # d.id}]
  /\ UNCHANGED <<own, ids, dists, net, echoes, accepted>>

\* The sender processes one of its own distributions: the state it sends with
\* becomes one it can only receive with.
ProcessOwn ==
  \E d \in dists :
    /\ echoes < MaxEchoes
    /\ echoes' = echoes + 1
    /\ own' = Persisted(setState(own, Received(own, d)))
    /\ UNCHANGED <<rec, ids, dists, net, installed, delivered, accepted>>

\* What Decrypt returns and the record it stores.  The signature is checked
\* before the key is derived; a key other than the sender's gives no plaintext.
Outcome(states, m) ==
  IF m.id \notin StateIds(states) THEN [err |-> "nosenderkey", states |-> states]
  ELSE IF ~m.signed THEN [err |-> "signature", states |-> states]
  ELSE LET out == getSenderMessageKey(StateOf(states, m.id), m.iteration)
           err == IF out.err = "none" /\ out.key # m.key THEN "invalid" ELSE out.err
       IN  [err |-> err,
            states |-> IF err = "none" THEN Persisted(UpdateState(states, out.state)) ELSE states]

Receive(r, m) ==
  LET out == Outcome(rec[r], m) IN
  /\ rec' = [rec EXCEPT ![r] = out.states]
  /\ delivered' = [delivered EXCEPT ![r] = IF out.err = "none" THEN @ \cup {m} ELSE @]
  /\ accepted' = [accepted EXCEPT ![r] = IF out.err = "none" THEN @ \cup {m} ELSE @]
  /\ UNCHANGED <<own, ids, dists, net, echoes, installed>>

Decrypt(r) == \E m \in net : Receive(r, m)

\* A group message of its own comes back to the sender.
DecryptOwn ==
  \E m \in net :
    /\ echoes < MaxEchoes
    /\ echoes' = echoes + 1
    /\ own' = Outcome(own, m).states
    /\ UNCHANGED <<rec, ids, dists, net, installed, delivered, accepted>>

\* A message made or changed by someone who lacks the signing key: any id, any
\* iteration, any ciphertext.
DecryptForged(r) ==
  \E id \in Id : \E i \in 0 .. MaxIteration :
    Receive(r, [id |-> id, iteration |-> i, key |-> <<id, i>>, body |-> 0, signed |-> FALSE])

ProcessAny(r) == \E d \in dists : Process(r, d)

Next ==
  \/ Create \/ Rotate \/ Encrypt \/ ProcessOwn \/ DecryptOwn
  \/ \E r \in Receivers : ProcessAny(r) \/ Decrypt(r) \/ DecryptForged(r)

Spec == Init /\ [][Next]_vars

-----------------------------------------------------------------------------
(* Properties. *)

\* Every variable has its type, and no iteration wraps around.
TypeOK ==
  /\ own \in Seq(SenderKeyState)
  /\ \A i \in 1 .. Len(own) : own[i].chainIteration <= MaxIteration
  /\ rec \in [Receivers -> Seq(SenderKeyState)]
  /\ ids \in 0 .. MaxIds
  /\ dists \subseteq Distribution
  /\ net \subseteq Message
  /\ echoes \in 0 .. MaxEchoes
  /\ installed \in [Receivers -> [Id -> Nat]]
  /\ delivered \in [Receivers -> SUBSET Message]
  /\ accepted \in [Receivers -> SUBSET Message]

\* No two group messages use the same key: not within a state, not across
\* rotations, and not after the sender has processed an earlier distribution of
\* its own, which sets its chain back.
UniqueMessageKeys == \A m1, m2 \in net : m1.key = m2.key => m1 = m2

\* A member that accepts a message of the sender has derived the sender's key,
\* whichever of the sender's distributions it started from.
KeyAgreement == \A r \in Receivers : \A m \in net : Outcome(rec[r], m).err # "invalid"

\* A message is not accepted twice as long as the state it belongs to has not
\* been replaced by another distribution message.
NoReplaySinceInstalled ==
  \A r \in Receivers : \A m \in delivered[r] : Outcome(rec[r], m).err # "none"

\* A record, the sender's or a member's, keeps at most MaxStates states, one per
\* id, and each at most MaxMessageKeys keys, all of numbers behind its chain.
RecordBounded ==
  \A states \in {own} \cup {rec[r] : r \in Receivers} :
    /\ Len(states) <= MaxStates
    /\ Cardinality(StateIds(states)) = Len(states)
    /\ \A i \in 1 .. Len(states) :
         /\ Cardinality(states[i].messageKeys) <= MaxMessageKeys
         /\ \A k \in states[i].messageKeys : k.iteration < states[i].chainIteration

\* A message sent since the distribution a member started from, not decrypted
\* yet, at most MaxMessageKeys ahead of the member's chain or behind the last
\* message it was advanced for, decrypts, under the current state or under one
\* rotated away but still kept.
OutOfOrderWithinLimit ==
  \A r \in Receivers : \A m \in net \ delivered[r] :
    /\ m.id \in StateIds(rec[r])
    /\ m.iteration >= installed[r][m.id]
    /\ LET gap == m.iteration - StateOf(rec[r], m.id).chainIteration
       IN  -MaxMessageKeys - 1 <= gap /\ gap <= MaxMessageKeys
    => Outcome(rec[r], m).err = "none"

\* A message key that can be computed from a state.
Derivable(s, key) ==
  \/ \E k \in s.messageKeys : k.seed = key
  \/ s.chainSeed[1] = key[1] /\ s.chainSeed[2] <= key[2]

\* Forward secrecy: no state of the sender that it can send with, and no state
\* of a member, yields the key of a message processed since it was installed.
ForwardSecrecy ==
  /\ \A i \in 1 .. Len(own) : own[i].hasPrivate =>
       \A m \in net : ~Derivable(own[i], m.key)
  /\ \A r \in Receivers : \A i \in 1 .. Len(rec[r]) :
       \A m \in delivered[r] : ~Derivable(rec[r][i], m.key)

\* What group.go says of Decrypt ("updates the sender key state on success to
\* prevent replay"): no message is ever accepted twice.
NoReplay == \A r \in Receivers : \A m \in accepted[r] : Outcome(rec[r], m).err # "none"
=============================================================================
