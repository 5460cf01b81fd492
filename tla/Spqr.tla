--------------------------------- MODULE Spqr ---------------------------------
(***************************************************************************)
(* The sparse post-quantum ratchet as the session uses it (spqr.State):    *)
(* the v1 state machine agrees on epoch secrets, and a Chain derives from  *)
(* them one salt per message, which session/wire_cipher.go mixes into the  *)
(* message key of the Double Ratchet.  A message is sent in the epoch of   *)
(* the state machine and salted with the chain of the epoch before.        *)
(*                                                                         *)
(* Messages may be lost and arrive late; the conversation hands each over  *)
(* at most once.  Both operations run on a clone that is dropped on error, *)
(* and every new state is stored as bytes before the next operation.       *)
(*                                                                         *)
(* One of the parties may be an older implementation without this ratchet: *)
(* its messages carry no pq_ratchet field and it ignores the field of      *)
(* others.  The state then disables itself.                                *)
(*                                                                         *)
(* A link of the chain is named by the epoch secrets mixed in so far, and  *)
(* a salt by its link, its sender and its index.                           *)
(***************************************************************************)
EXTENDS SpqrCodec

CONSTANTS
  A,            \* the initiator: DirectionA2B
  B,            \* the responder: DirectionB2A
  MaxJump,      \* ChainParams.MaxJump
  MaxOOO,       \* ChainParams.MaxOOO
  MaxEpoch,     \* bound: no keys are sampled beyond this epoch
  MaxIndex,     \* bound: salts a party draws from one link
  MaxInFlight,  \* bound: MaxInFlight[p] messages are under way to p
  MaxLost       \* bound: MaxLost[p] messages to p are lost in a behaviour

ASSUME SpqrAssumption ==
  /\ A # B
  /\ MaxJump \in Nat /\ MaxOOO \in Nat
  /\ MaxEpoch \in Nat \ {0} /\ MaxIndex \in Nat /\ MaxInFlight \in [{A, B} -> Nat \ {0}]
  /\ MaxLost \in [{A, B} -> Nat]

VARIABLES
  speaks,   \* the parties that have this ratchet; the same in all states
  state,    \* state[p]: Session.pqrState of p, Nothing if it is nil
  started,  \* the responder has received a message: it has a session
  samples,  \* samples[p]: how often p has drawn randomness
  net,      \* net[p]: the messages under way to p: pq_ratchet and the salt used
  lost,     \* lost[p]: how many messages to p were lost
  used      \* used[p]: the salts p has encrypted with (history)

vars == <<speaks, state, started, samples, net, lost, used>>

Party == {A, B}
Peer(p) == IF p = A THEN B ELSE A

\* State.chain of a state.
ChainOf(s) == IF s = Nothing THEN Nothing ELSE s.chain

-----------------------------------------------------------------------------
(* One direction of one epoch of a chain. *)

\* ctr: last index drawn; open: next is not nil; prev: indices of stored keys.
newChainEpochDirection == [ctr |-> 0, open |-> TRUE, prev |-> {}]

\* Mutant: every key passed over is stored, and none is collected.
JumpTo_storesAll(d, at) ==
  [d EXCEPT !.ctr = at, !.prev = @ \cup ((d.ctr + 1) .. (at - 1))]

\* chainEpochDirection.key for a later index: the keys passed over are stored
\* as far as MaxOOO allows.
JumpTo(d, at) ==
  LET kept   == IF at > d.ctr + MaxOOO THEN {} ELSE d.prev
      passed == {i \in (d.ctr + 1) .. (at - 1) : i + MaxOOO >= at}
  IN  [d EXCEPT !.ctr = at,
                !.prev = {i \in kept \cup passed : i + MaxOOO >= at - 1}]

\* Mutant: a stored key stays when it is taken.
TakeKey_kept(d, at) ==
  IF at < d.ctr
  THEN [err |-> IF at \in d.prev THEN "none" ELSE "requested", dir |-> d]
  ELSE IF at = d.ctr THEN [err |-> "requested", dir |-> d]
  ELSE IF at - d.ctr > MaxJump THEN [err |-> "jump", dir |-> d]
  ELSE [err |-> "none", dir |-> JumpTo(d, at)]

\* chainEpochDirection.key: an error, or the direction after the key is taken.
TakeKey(d, at) ==
  IF at < d.ctr
  THEN IF at + MaxOOO < d.ctr THEN [err |-> "trimmed", dir |-> d]
       ELSE IF at \notin d.prev THEN [err |-> "requested", dir |-> d]
       ELSE [err |-> "none", dir |-> [d EXCEPT !.prev = @ \ {at}]]
  ELSE IF at = d.ctr THEN [err |-> "requested", dir |-> d]
  ELSE IF at - d.ctr > MaxJump THEN [err |-> "jump", dir |-> d]
  ELSE [err |-> "none", dir |-> JumpTo(d, at)]

-----------------------------------------------------------------------------
(* The chain. *)

epochsToKeepPriorToSend == 1

Link(root) ==
  [root |-> root, send |-> newChainEpochDirection, recv |-> newChainEpochDirection]

NewChain == [currentEpoch |-> 0, sendEpoch |-> 0, links |-> <<Link(<< >>)>>]

NextRoot(c) == c.links[Len(c.links)].root

AddEpoch(c, key) ==
  [c EXCEPT !.currentEpoch = key.epoch,
            !.links = Append(@, Link(Append(NextRoot(c), key)))]

\* epochIndex: the position of the link of an epoch, 0 if there is none.
EpochIndex(c, epoch) ==
  LET i == Len(c.links) - (c.currentEpoch - epoch)
  IN  IF epoch <= c.currentEpoch /\ i >= 1 THEN i ELSE 0

\* Mutant: the link of the new sending epoch is closed as well.
ToSendEpoch_closesCurrent(c, epoch) ==
  IF epoch = c.sendEpoch THEN c
  ELSE [c EXCEPT !.sendEpoch = epoch,
                 !.links = [j \in 1 .. Len(c.links) |-> [c.links[j] EXCEPT !.send.open = FALSE]]]

\* SendKey, when the sending epoch changes: older links are dropped and the
\* ones that stay can no longer be sent with.
ToSendEpoch(c, epoch) ==
  LET i    == EpochIndex(c, epoch)
      drop == IF i - 1 > epochsToKeepPriorToSend THEN i - 1 - epochsToKeepPriorToSend ELSE 0
      kept == SubSeq(c.links, drop + 1, Len(c.links))
  IN  IF epoch = c.sendEpoch THEN c
      ELSE [c EXCEPT !.sendEpoch = epoch,
                     !.links = [j \in 1 .. Len(kept) |->
                        IF j < i - drop THEN [kept[j] EXCEPT !.send.open = FALSE] ELSE kept[j]]]

Salt(root, sender, index) == [root |-> root, sender |-> sender, index |-> index]

Failed(err) == [err |-> err, chain |-> Nothing, index |-> 0, salt |-> Nothing]

\* Mutant: the counter of the direction is not advanced.
SendKey_ctrKept(p, c, epoch) ==
  LET t == ToSendEpoch(c, epoch)
      l == t.links[EpochIndex(t, epoch)]
  IN  [err |-> "none", chain |-> t, index |-> l.send.ctr + 1,
       salt |-> Salt(l.root, p, l.send.ctr + 1)]

SendKey(p, c, epoch) ==
  LET t == ToSendEpoch(c, epoch)
      i == EpochIndex(t, epoch)
      n == t.links[i].send.ctr + 1
  IN  IF epoch < c.sendEpoch THEN Failed("decreased")
      ELSE IF EpochIndex(c, epoch) = 0 THEN Failed("epoch")
      ELSE IF ~t.links[i].send.open THEN Failed("requested")
      ELSE [err |-> "none", chain |-> [t EXCEPT !.links[i].send.ctr = n],
            index |-> n, salt |-> Salt(t.links[i].root, p, n)]

RecvKey(p, c, epoch, index) ==
  LET i   == EpochIndex(c, epoch)
      out == TakeKey(c.links[i].recv, index)
  IN  IF i = 0 THEN Failed("epoch")
      ELSE IF out.err # "none" THEN Failed(out.err)
      ELSE [err |-> "none", chain |-> [c EXCEPT !.links[i].recv = out.dir],
            index |-> index, salt |-> Salt(c.links[i].root, Peer(p), index)]

-----------------------------------------------------------------------------
(* The state as bytes. *)

\* appendChainDir and consumeChainDir.  The key that a direction continues with
\* is named by its position; a closed direction has none.
appendChainDir(root, d) ==
  <<d.ctr, IF d.open THEN <<root, d.ctr>> ELSE << >>, d.prev>>

consumeChainDir(data) == [ctr |-> data[1], open |-> data[2] # << >>, prev |-> data[3]]

serializeChain(c) ==
  IF c = Nothing THEN << >>
  ELSE <<c.currentEpoch, c.sendEpoch,
         [i \in 1 .. Len(c.links) |->
            <<c.links[i].root, appendChainDir(c.links[i].root, c.links[i].send),
              appendChainDir(c.links[i].root, c.links[i].recv)>>]>>

deserializeChain(data) ==
  IF data = << >> THEN Nothing
  ELSE [currentEpoch |-> data[1], sendEpoch |-> data[2],
        links |-> [i \in 1 .. Len(data[3]) |->
                     [root |-> data[3][i][1], send |-> consumeChainDir(data[3][i][2]),
                      recv |-> consumeChainDir(data[3][i][3])]]]

\* A State.  negotiation stands for the versionNegotiation being there; its
\* minVersion is VersionDisabled in every session.
SpqrState(version, v1, c, negotiation) ==
  [version |-> version, v1 |-> v1, chain |-> c, negotiation |-> negotiation]

NewState(v1) == SpqrState(VersionV1, v1, Nothing, TRUE)

\* The state after disable().
Disabled == SpqrState(VersionDisabled, Nothing, Nothing, FALSE)

\* Mutant: a disabled state is stored in the legacy format.
Serialize_disabledToo(s) ==
  IF s = Nothing THEN << >>
  ELSE IF s.v1 = Nothing THEN <<1, serializeChain(s.chain)>>
  ELSE <<2, s.negotiation, serializeV1States(s.v1), serializeChain(s.chain)>>

\* State.Serialize, in the format with a v1 state or in the legacy one.
Serialize(s) ==
  IF s = Nothing \/ s.version = VersionDisabled THEN << >>
  ELSE IF s.v1 = Nothing THEN <<1, serializeChain(s.chain)>>
  ELSE <<2, s.negotiation, serializeV1States(s.v1), serializeChain(s.chain)>>

DeserializeState(data) ==
  IF data = << >> THEN Nothing
  ELSE IF data[1] = 1 THEN SpqrState(VersionV1, Nothing, deserializeChain(data[2]), FALSE)
  ELSE SpqrState(VersionV1, deserializeV1States(data[3]), deserializeChain(data[4]), data[2])

-----------------------------------------------------------------------------
(* State.Send and State.Receive. *)

\* The chain with the epoch secret, if there is one, added.
Extended(c, key) == IF key = Nothing THEN c ELSE AddEpoch(c, key)

CanExtend(c, key) == key = Nothing \/ key.epoch = c.currentEpoch + 1

\* Mutant: the chain exists from the start.
chainForSend_atOnce(s) == IF s.chain = Nothing THEN NewChain ELSE s.chain

\* The chain does not exist before the first message arrives; until then
\* messages go out unsalted, with index 0.
chainForSend(s) == s.chain

chainForRecv(s) == IF s.chain = Nothing THEN NewChain ELSE s.chain

\* State.Send: an error, the state after it, the message and the salt.
SendState(p, s) ==
  LET out == send(s.v1, <<p, samples[p]>>)
      c   == chainForSend(s)
      key == IF c = Nothing
             THEN IF out.key = Nothing
                  THEN [err |-> "none", chain |-> Nothing, index |-> 0, salt |-> Nothing]
                  ELSE Failed("nochain")
             ELSE IF ~CanExtend(c, out.key) THEN Failed("epoch")
             ELSE SendKey(p, Extended(c, out.key), out.msg.epoch - 1)
  IN  [err |-> key.err, state |-> [s EXCEPT !.v1 = out.state, !.chain = key.chain],
       wire |-> serialize(out.msg, key.index), index |-> key.index, salt |-> key.salt]

\* What p sends next: nothing but the message itself if it has no state.
SendOutcome(p) ==
  IF state[p] = Nothing
  THEN [err |-> "none", state |-> Nothing, wire |-> << >>, index |-> 0, salt |-> Nothing]
  ELSE SendState(p, state[p])

RefusedBy(s, err) == [err |-> err, state |-> s, salt |-> Nothing]
AcceptedBy(s, salt) == [err |-> "none", state |-> s, salt |-> salt]

\* receiveLegacy: the state has a chain and no v1 state.
ReceiveLegacy(p, s, wire) ==
  LET m   == deserializeV1Message(wire)
      key == RecvKey(p, s.chain, m.epoch - 1, m.index)
  IN  IF s.chain = Nothing THEN RefusedBy(s, "nochain")
      ELSE IF wire = << >> \/ (m.epoch = 1 /\ m.index = 0) THEN AcceptedBy(s, Nothing)
      ELSE IF key.err # "none" THEN RefusedBy(s, key.err)
      ELSE AcceptedBy([s EXCEPT !.chain = key.chain], key.salt)

\* State.Receive of a message of the v1 state machine.
ReceiveV1(p, s, m) ==
  LET out == recv(s.v1, m)
      c   == Extended(chainForRecv(s), out.key)
      key == IF m.epoch = 1 /\ m.index = 0
             THEN [err |-> "none", chain |-> c, index |-> 0, salt |-> Nothing]
             ELSE RecvKey(p, c, m.epoch - 1, m.index)
      err == IF out.err # "none" THEN out.err
             ELSE IF ~CanExtend(chainForRecv(s), out.key) THEN "epoch"
             ELSE key.err
  IN  IF err # "none" THEN RefusedBy(s, err)
      ELSE AcceptedBy(SpqrState(VersionV1, out.state, key.chain, FALSE), key.salt)

\* State.Receive
ReceiveState(p, s, wire) ==
  IF s.v1 = Nothing THEN ReceiveLegacy(p, s, wire)
  ELSE IF msgVersion(wire) = VersionDisabled
  THEN IF s.negotiation THEN AcceptedBy(Disabled, Nothing) ELSE RefusedBy(s, "version")
  ELSE ReceiveV1(p, s, deserializeV1Message(wire))

\* decryptSignalWithSession.  A session without the ratchet refuses pq_ratchet;
\* the older implementation, which has none, ignores it.
ReceiveOutcome(p, m) ==
  IF state[p] # Nothing THEN ReceiveState(p, state[p], m.wire)
  ELSE IF p \in speaks /\ m.wire # << >> THEN RefusedBy(Nothing, "pqratchet")
  ELSE AcceptedBy(Nothing, Nothing)

-----------------------------------------------------------------------------
(* Initial state and actions. *)

Init ==
  /\ speaks \in {Party, {A}, {B}}
  /\ state = [p \in Party |-> IF p \notin speaks THEN Nothing
                              ELSE NewState(IF p = A THEN initV1StateA ELSE initV1StateB)]
  /\ started = FALSE
  /\ samples = [p \in Party |-> 0]
  /\ net = [p \in Party |-> {}]
  /\ lost = [p \in Party |-> 0]
  /\ used = [p \in Party |-> {}]

NonEmpty(salt) == {salt} \ {Nothing}

DrawsSample(s) == s.phase \in {"KeysUnsampled", "HeaderReceived"}

\* The responder has a session only once a message of the initiator arrived.
HasSession(p) == p = A \/ started

Unsampled(p) == state[p] # Nothing /\ state[p].v1.phase = "KeysUnsampled"

Store(p, s) ==
  \E data \in {Serialize(s)} : state' = [state EXCEPT ![p] = DeserializeState(data)]

Send(p) ==
  \E out \in {SendOutcome(p)} :
    /\ HasSession(p)
    /\ Unsampled(p) => state[p].v1.epoch <= MaxEpoch
    /\ Cardinality(net[Peer(p)]) < MaxInFlight[Peer(p)]
    /\ out.err = "none"
    /\ out.index <= MaxIndex
    /\ Store(p, out.state)
    /\ samples' = [samples EXCEPT ![p] =
         IF state[p] # Nothing /\ DrawsSample(state[p].v1) THEN @ + 1 ELSE @]
    /\ net' = [net EXCEPT ![Peer(p)] = @ \cup {[wire |-> out.wire, salt |-> out.salt]}]
    /\ used' = [used EXCEPT ![p] = @ \cup NonEmpty(out.salt)]
    /\ UNCHANGED <<speaks, started, lost>>

\* A message that is refused changes nothing.
ReceiveMessage(p, m) ==
  \E out \in {ReceiveOutcome(p, m)} :
    /\ Store(p, out.state)
    /\ started' = (started \/ p = B)
    /\ net' = [net EXCEPT ![p] = @ \ {m}]
    /\ UNCHANGED <<speaks, samples, lost, used>>

Receive(p) == \E m \in net[p] : ReceiveMessage(p, m)

Lose(p) ==
  \E m \in net[p] :
    /\ lost[p] < MaxLost[p]
    /\ lost' = [lost EXCEPT ![p] = @ + 1]
    /\ net' = [net EXCEPT ![p] = @ \ {m}]
    /\ UNCHANGED <<speaks, state, started, samples, used>>

Next == \E p \in Party : Send(p) \/ Receive(p) \/ Lose(p)

Spec == Init /\ [][Next]_vars

-----------------------------------------------------------------------------
(* Properties. *)

\* Chains are well formed, keep at most three links, and store at most MaxOOO
\* keys of a direction, all of indices behind its counter.
ChainsBounded ==
  \A p \in Party :
    LET c == ChainOf(state[p]) IN
    c # Nothing =>
      /\ Len(c.links) \in 1 .. 3
      /\ c.sendEpoch <= c.currentEpoch
      /\ \A i \in 1 .. Len(c.links) : \A d \in {c.links[i].send, c.links[i].recv} :
           /\ Cardinality(d.prev) <= MaxOOO
           /\ \A j \in d.prev : j < d.ctr

\* Send never fails: the sending epoch never decreases, its link is there and
\* open, and an epoch secret always extends the chain by one.
SendNeverFails == \A p \in Party : HasSession(p) => SendOutcome(p).err = "none"

\* Whatever was lost or reordered, an accepted message is opened with the salt
\* its sender used; with none, if one of the parties does not have the ratchet.
SaltAgreement ==
  \A p \in Party : \A m \in net[p] :
    LET out == ReceiveOutcome(p, m) IN out.err = "none" => out.salt = m.salt

\* A message is refused only if it is late by more than an epoch, or more than
\* MaxOOO behind, or more than MaxJump ahead of what arrived in its epoch; none
\* is refused because one of the parties does not have the ratchet.
RefusedOnlyIfStale ==
  \A p \in Party : \A m \in net[p] :
    LET c   == chainForRecv(state[p])
        msg == deserializeV1Message(m.wire)
        i   == EpochIndex(c, msg.epoch - 1)
    IN  \/ ReceiveOutcome(p, m).err = "none"
        \/ /\ speaks = Party
           /\ \/ msg.epoch - 1 < c.sendEpoch - 1
              \/ i # 0 /\ msg.index + MaxOOO < c.links[i].recv.ctr
              \/ i # 0 /\ msg.index > c.links[i].recv.ctr + MaxJump

\* Every salted message has a salt of its own, across epochs and directions.
UniqueSalts ==
  /\ used[A] \cap used[B] = {}
  /\ \A p \in Party : HasSession(p) => SendOutcome(p).salt \notin used[p]

\* A salt that a chain of p can still produce.
Derivable(p, c, salt) ==
  /\ c # Nothing
  /\ \E i \in 1 .. Len(c.links) :
       LET l == c.links[i] IN
       /\ l.root = salt.root
       /\ \/ salt.sender = p /\ l.send.open /\ salt.index > l.send.ctr
          \/ salt.sender # p /\ (salt.index > l.recv.ctr \/ salt.index \in l.recv.prev)

\* The epochs of a chain: those whose secrets it has been given.
Knows(c, salt) == c # Nothing /\ Len(salt.root) <= c.currentEpoch

\* The salts of the messages that p opens in a step.
Taken(p) == {m.salt : m \in net[p] \ net'[p]} \ {Nothing}

\* Forward secrecy: using a salt for a message, on either side, destroys it,
\* and no later step, and no reload of the state, makes a salt of a known epoch
\* computable again.
ForwardSecrecy ==
  [][\A p \in Party : state'[p] # state[p] =>
       \A before \in {ChainOf(state[p])}, after \in {ChainOf(state'[p])} :
         /\ \A salt \in used'[p] : ~Derivable(p, after, salt)
         /\ \A salt \in used[Peer(p)] : Derivable(p, after, salt) =>
              /\ salt \notin Taken(p)
              /\ Knows(before, salt) => Derivable(p, before, salt)]_vars
=============================================================================
